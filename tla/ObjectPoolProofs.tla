--------------------------- MODULE ObjectPoolProofs ---------------------------
(***************************************************************************)
(* What every operation of the pool and of the sieve preserves.  U is the   *)
(* set of objects in use: under a key of the map, or held by a fiber.       *)
(***************************************************************************)
EXTENDS ObjectPool, SequenceTheorems, FiniteSetTheorems, TLAPS

-----------------------------------------------------------------------------
(* The lists and their iterators.                                            *)

\* A list without repetitions of elements of S; none of them is end().
List(S) == {l \in Seq(S) : IsInjective(l)}

\* A linked entry has a position.
LEMMA IndexFacts ==
    ASSUME NEW S, NEW l \in Seq(S), NEW e \in Range(l)
    PROVE  /\ IndexOf(l, e) \in 1..Len(l)
           /\ l[IndexOf(l, e)] = e
           /\ Len(l) \in Nat \ {0}
           /\ e \in S
  BY DEF IndexOf, Range

\* The list is empty when it has no elements.
LEMMA EmptyFacts ==
    ASSUME NEW S
    PROVE  /\ <<>> \in List(S)
           /\ Range(<<>>) = {}
           /\ \A l \in Seq(S) : l # <<>> => l[1] \in Range(l)
           /\ \A l \in Seq(S) : l = <<>> <=> Len(l) = 0
  BY DEF List, Range, IsInjective

\* What erase leaves, position by position.
LEMMA CutFacts ==
    ASSUME NEW S, NEW l \in Seq(S), NEW i \in 1..Len(l)
    PROVE  /\ CutAt(l, i) \in Seq(S)
           /\ Len(CutAt(l, i)) = Len(l) - 1
           /\ \A j \in 1..(Len(l) - 1) :
                  CutAt(l, i)[j] = IF j < i THEN l[j] ELSE l[j + 1]
<1> DEFINE a == SubSeq(l, 1, i - 1)
           b == SubSeq(l, i + 1, Len(l))
<1>1. /\ a \in Seq(S) /\ Len(a) = i - 1
      /\ \A j \in 1..(i - 1) : a[j] = l[j]
  OBVIOUS
<1>2. /\ b \in Seq(S) /\ Len(b) = Len(l) - i
      /\ \A j \in 1..(Len(l) - i) : b[j] = l[i + j]
  OBVIOUS
<1>3. CutAt(l, i) = a \o b
  BY DEF CutAt
<1> HIDE DEF a, b
<1>4. /\ a \o b \in Seq(S) /\ Len(a \o b) = Len(l) - 1
      /\ \A j \in 1..(Len(l) - 1) :
             (a \o b)[j] = IF j <= i - 1 THEN a[j] ELSE b[j - (i - 1)]
  <2>1. /\ a \o b \in Seq(S) /\ Len(a \o b) = Len(a) + Len(b)
        /\ \A j \in 1..(Len(a) + Len(b)) :
               (a \o b)[j] = IF j <= Len(a) THEN a[j] ELSE b[j - Len(a)]
    BY Zenon, <1>1, <1>2, ConcatProperties
  <2>2. Len(a) = i - 1 /\ Len(a) + Len(b) = Len(l) - 1
    BY <1>1, <1>2
  <2> QED
    BY <2>1, <2>2
<1>5. ASSUME NEW j \in 1..(Len(l) - 1)
      PROVE  (a \o b)[j] = IF j < i THEN l[j] ELSE l[j + 1]
  <2>1. CASE j < i
    BY <1>1, <1>4, <2>1
  <2>2. CASE ~ j < i
    <3>1. j - (i - 1) \in 1..(Len(l) - i) /\ i + (j - (i - 1)) = j + 1
      BY <2>2
    <3> QED
      BY <1>2, <1>4, <2>2, <3>1
  <2> QED
    BY Zenon, <2>1, <2>2
<1> QED
  BY <1>3, <1>4, <1>5

\* erase(s_iterator_to(e)) unlinks e and nothing else.
LEMMA EraseFacts ==
    ASSUME NEW S, NEW l \in List(S), NEW e \in Range(l)
    PROVE  /\ Erase(l, e) \in List(S)
           /\ Range(Erase(l, e)) = Range(l) \ {e}
           /\ Len(Erase(l, e)) = Len(l) - 1
<1> DEFINE i == IndexOf(l, e)
           r == CutAt(l, i)
<1>1. l \in Seq(S) /\ IsInjective(l)
  BY DEF List
<1>2. i \in 1..Len(l) /\ l[i] = e /\ Len(l) \in Nat \ {0}
  BY <1>1, IndexFacts
<1> HIDE DEF i
<1>3. /\ r \in Seq(S) /\ Len(r) = Len(l) - 1
      /\ \A j \in 1..(Len(l) - 1) : r[j] = IF j < i THEN l[j] ELSE l[j + 1]
  BY <1>1, <1>2, CutFacts
<1>4. Erase(l, e) = r
  BY DEF Erase, i
<1> HIDE DEF r
<1>5. DOMAIN r = 1..(Len(l) - 1) /\ DOMAIN l = 1..Len(l)
  BY <1>1, <1>3
<1>6. \A j, k \in 1..Len(l) : l[j] = l[k] => j = k
  BY <1>1, <1>5 DEF IsInjective
<1>7. IsInjective(r)
  BY <1>2, <1>3, <1>5, <1>6 DEF IsInjective
<1>8. Range(r) \subseteq Range(l) \ {e}
  BY <1>2, <1>3, <1>5, <1>6 DEF Range
<1>9. ASSUME NEW x \in Range(l) \ {e}
      PROVE  x \in Range(r)
  <2>1. PICK k \in 1..Len(l) : l[k] = x
    BY <1>5 DEF Range
  <2>2. k # i
    BY <1>2, <2>1
  <2>3. CASE k < i
    <3>1. k \in 1..(Len(l) - 1) /\ r[k] = x
      BY <1>2, <1>3, <2>1, <2>3
    <3> QED
      BY <1>5, <3>1 DEF Range
  <2>4. CASE k > i
    <3>1. k - 1 \in 1..(Len(l) - 1) /\ r[k - 1] = x
      BY <1>2, <1>3, <2>1, <2>4
    <3> QED
      BY <1>5, <3>1 DEF Range
  <2> QED
    BY <1>2, <2>2, <2>3, <2>4
<1> QED
  BY <1>3, <1>4, <1>7, <1>8, <1>9 DEF List

\* push_back links e behind everything else.
LEMMA PushFacts ==
    ASSUME NEW S, NEW l \in List(S), NEW e \in S, e \notin Range(l)
    PROVE  /\ Append(l, e) \in List(S)
           /\ Range(Append(l, e)) = Range(l) \cup {e}
           /\ Len(Append(l, e)) = Len(l) + 1
           /\ Append(l, e) # <<>>
<1> DEFINE a == Append(l, e)
<1>1. /\ l \in Seq(S) /\ IsInjective(l)
      /\ DOMAIN l = 1..Len(l) /\ Len(l) \in Nat
  BY DEF List
<1>2. /\ a \in Seq(S) /\ Len(a) = Len(l) + 1 /\ DOMAIN a = 1..(Len(l) + 1)
      /\ \A j \in 1..Len(l) : a[j] = l[j]
      /\ a[Len(l) + 1] = e
  BY <1>1
<1> HIDE DEF a
<1>3. \A j \in 1..Len(l) : l[j] # e
  BY <1>1 DEF Range
<1>4. IsInjective(a)
  BY <1>1, <1>2, <1>3 DEF IsInjective
<1>5. Range(a) = Range(l) \cup {e}
  BY <1>1, <1>2 DEF Range
<1>6. a # <<>>
  BY <1>1, <1>2
<1> QED
  BY <1>2, <1>4, <1>5, <1>6 DEF a, List

\* std::next moves to another entry of the list or to end().
LEMMA AfterFacts ==
    ASSUME NEW S, NEW l \in List(S), NEW e \in Range(l)
    PROVE  After(l, e) \in (Range(l) \ {e}) \cup {Nil}
<1>1. l \in Seq(S) /\ IsInjective(l) /\ DOMAIN l = 1..Len(l)
  BY DEF List
<1>2. IndexOf(l, e) \in 1..Len(l) /\ l[IndexOf(l, e)] = e /\ Len(l) \in Nat
  BY <1>1, IndexFacts
<1>3. CASE IndexOf(l, e) = Len(l)
  BY <1>3 DEF After
<1>4. CASE IndexOf(l, e) # Len(l)
  <2>1. IndexOf(l, e) + 1 \in 1..Len(l)
    BY <1>2, <1>4
  <2>2. l[IndexOf(l, e) + 1] # e
    BY <1>1, <1>2, <2>1 DEF IsInjective
  <2>3. l[IndexOf(l, e) + 1] \in Range(l)
    BY <1>1, <2>1 DEF Range
  <2> QED
    BY <1>4, <2>2, <2>3 DEF After
<1> QED
  BY <1>3, <1>4

\* The hand that is moved off e before e is erased points into what is left.
LEMMA NextWrappedFacts ==
    ASSUME NEW S, Nil \notin S, NEW l \in List(S), NEW e \in Range(l),
           Erase(l, e) # <<>>
    PROVE  NextWrapped(l, e) \in Range(l) \ {e}
<1>1. /\ l \in Seq(S) /\ IsInjective(l)
      /\ DOMAIN l = 1..Len(l) /\ Len(l) \in Nat
  BY DEF List
<1>2. IndexOf(l, e) \in 1..Len(l) /\ l[IndexOf(l, e)] = e /\ e \in S
  BY <1>1, IndexFacts
<1>3. Len(l) > 1
  BY <1>1, <1>2, EraseFacts, EmptyFacts DEF List
<1>4. Range(l) \subseteq S
  BY <1>1 DEF Range
<1>5. CASE After(l, e) # Nil
  BY <1>5, AfterFacts DEF NextWrapped
<1>6. CASE After(l, e) = Nil
  <2>1. IndexOf(l, e) = Len(l)
    <3> SUFFICES ASSUME IndexOf(l, e) # Len(l) PROVE FALSE
      OBVIOUS
    <3>1. IndexOf(l, e) + 1 \in 1..Len(l)
      BY <1>1, <1>2
    <3>2. l[IndexOf(l, e) + 1] \in S
      BY <1>1, <3>1
    <3> QED
      BY <1>6, <3>2 DEF After
  <2>2. l[1] # e
    BY <1>1, <1>2, <1>3, <2>1 DEF IsInjective
  <2>3. l[1] \in Range(l) /\ l # <<>>
    BY <1>1, <1>3 DEF Range
  <2> QED
    BY <1>6, <2>2, <2>3 DEF NextWrapped, Begin
<1> QED
  BY <1>5, <1>6

-----------------------------------------------------------------------------
(* The sieve and the pool.                                                   *)

\* A list with its hand: the hand is at an entry of the list or at end().
HandedList(s) ==
    /\ s \in [list : List(Entries), hand : Entries \cup {Nil}]
    /\ s.hand \in Range(s.list) \cup {Nil}

\* The hand stands at end() of a list that is not empty.
HandLost(s) == s.hand = Nil /\ s.list # <<>>

\* on_erase unlinks e and moves the hand off it.
LEMMA OnEraseFacts ==
    ASSUME NEW s, HandedList(s), NEW e
    PROVE  /\ HandedList(on_erase(s, e))
           /\ Range(on_erase(s, e).list) = Range(s.list) \ {e}
           /\ HandLost(on_erase(s, e)) => HandLost(s)
<1> DEFINE t == on_erase(s, e)
<1>1. s.list \in List(Entries) /\ s.hand \in Range(s.list) \cup {Nil}
      /\ s.hand \in Entries \cup {Nil}
  BY DEF HandedList
<1>2. CASE e \notin Range(s.list)
  BY <1>2 DEF on_erase, IsLinked
<1>3. CASE e \in Range(s.list)
  <2> DEFINE l == Erase(s.list, e)
             h == IF s.hand = e THEN NextWrapped(s.list, e) ELSE s.hand
  <2>1. l \in List(Entries) /\ Range(l) = Range(s.list) \ {e}
    BY <1>1, <1>3, EraseFacts
  <2>2. t = [list |-> l, hand |-> IF l = <<>> THEN Nil ELSE h]
    BY <1>3 DEF on_erase, IsLinked
  <2>3. l # <<>> => NextWrapped(s.list, e) \in Range(s.list) \ {e}
    BY <1>1, <1>3, NextWrappedFacts, PoolAssumption
  <2>4. Range(s.list) \subseteq Entries
    BY <1>1 DEF List, Range
  <2>5. s.list # <<>>
    BY <1>3, EmptyFacts
  <2> HIDE DEF l
  <2>6. l # <<>> => h \in Range(l) \cup {Nil} /\ (h = Nil => s.hand = Nil)
    BY <1>1, <2>1, <2>3, <2>4, PoolAssumption
  <2> HIDE DEF h
  <2>7. t.list = l /\ t.hand = IF l = <<>> THEN Nil ELSE h
    BY <2>2
  <2>8. t.hand \in Range(l) \cup {Nil} /\ (HandLost(t) => HandLost(s))
    BY <2>5, <2>6, <2>7 DEF HandLost
  <2>9. t \in [list : List(Entries), hand : Entries \cup {Nil}]
    BY <2>1, <2>2, <2>4, <2>7, <2>8
  <2> QED
    BY <2>1, <2>7, <2>8, <2>9 DEF HandedList
<1> QED
  BY <1>2, <1>3

\* on_insert links e at the end and gives a lost hand a place again.
LEMMA OnInsertFacts ==
    ASSUME NEW s, HandedList(s), NEW e \in Entries
    PROVE  /\ HandedList(on_insert(s, e))
           /\ Range(on_insert(s, e).list) = Range(s.list) \cup {e}
           /\ HandLost(on_insert(s, e)) => HandLost(s)
<1>1. s.list \in List(Entries) /\ s.hand \in Range(s.list) \cup {Nil}
      /\ s.hand \in Entries \cup {Nil}
  BY DEF HandedList
<1>2. CASE e \in Range(s.list)
  BY <1>2 DEF on_insert, IsLinked
<1>3. CASE e \notin Range(s.list)
  <2> DEFINE l == Append(s.list, e)
             h == IF s.hand = Nil THEN Begin(l) ELSE s.hand
             t == on_insert(s, e)
  <2>1. l \in List(Entries) /\ Range(l) = Range(s.list) \cup {e} /\ l # <<>>
    BY <1>1, <1>3, PushFacts
  <2>2. t = [list |-> l, hand |-> h]
    BY <1>3 DEF on_insert, IsLinked
  <2>3. Begin(l) \in Range(l)
    BY <2>1, EmptyFacts DEF Begin, List
  <2>4. Range(l) \subseteq Entries
    BY <2>1 DEF List, Range
  <2> HIDE DEF l
  <2>5. h \in Range(l) /\ h # Nil
    BY <1>1, <2>1, <2>3, <2>4, PoolAssumption
  <2> HIDE DEF h
  <2> QED
    BY <2>1, <2>2, <2>4, <2>5 DEF HandedList, HandLost
<1> QED
  BY <1>2, <1>3

\* The steps of the sweep keep the hand inside the list.
LEMMA SweepFacts ==
    ASSUME NEW s, HandedList(s)
    PROVE  /\ HandedList(WrapHand(s)) /\ WrapHand(s).list = s.list
           /\ ~ HandLost(WrapHand(s))
           /\ s.hand # Nil => /\ HandedList(SkipHand(s))
                              /\ SkipHand(s).list = s.list
                              /\ HandedList(EvictHand(s))
                              /\ Range(EvictHand(s).list) = Range(s.list) \ {s.hand}
<1>1. s.list \in List(Entries) /\ s.hand \in Range(s.list) \cup {Nil}
      /\ s.hand \in Entries \cup {Nil}
      /\ s \in [list : List(Entries), hand : Entries \cup {Nil}]
  BY DEF HandedList
<1>2. Range(s.list) \subseteq Entries
  BY <1>1 DEF List, Range
<1>3. HandedList(WrapHand(s)) /\ WrapHand(s).list = s.list /\ ~ HandLost(WrapHand(s))
  <2>1. Begin(s.list) \in Range(s.list) \cup {Nil}
        /\ (s.list # <<>> => Begin(s.list) \in Range(s.list))
    BY <1>1, EmptyFacts DEF Begin, List
  <2>2. CASE s.hand = Nil
    BY <1>1, <1>2, <2>1, <2>2, PoolAssumption DEF WrapHand, HandedList, HandLost
  <2>3. CASE s.hand # Nil
    BY <1>1, <2>3 DEF WrapHand, HandedList, HandLost
  <2> QED
    BY <2>2, <2>3
<1>4. ASSUME s.hand # Nil
      PROVE  /\ HandedList(SkipHand(s))
             /\ SkipHand(s).list = s.list
             /\ HandedList(EvictHand(s))
             /\ Range(EvictHand(s).list) = Range(s.list) \ {s.hand}
  <2>1. s.hand \in Range(s.list)
    BY <1>1, <1>4
  <2>2. After(s.list, s.hand) \in (Range(s.list) \ {s.hand}) \cup {Nil}
    BY <1>1, <2>1, AfterFacts
  <2>3. /\ Erase(s.list, s.hand) \in List(Entries)
        /\ Range(Erase(s.list, s.hand)) = Range(s.list) \ {s.hand}
    BY <1>1, <2>1, EraseFacts
  <2>4. HandedList(SkipHand(s)) /\ SkipHand(s).list = s.list
    BY <1>1, <1>2, <2>2 DEF SkipHand, HandedList
  <2> QED
    BY <1>2, <2>2, <2>3, <2>4 DEF EvictHand, HandedList
<1> QED
  BY <1>3, <1>4

-----------------------------------------------------------------------------
(* The invariant of the pool while the objects of U are in use.              *)

Protected(p, U) == {e \in U : Sanctuary(p, e)}

\* Lists, hands and pool types fit together.
Linked(p, U) ==
    /\ HandedList(p.probation) /\ HandedList(p.sieve)
    /\ p.free \cap U = {}
    /\ \A e \in Range(p.probation.list) : e \in U /\ ~ Sanctuary(p, e)
    /\ \A e \in Range(p.sieve.list) : e \in U /\ Sanctuary(p, e)
    /\ prob_pool_max_size = 0 => \A e \in U : Sanctuary(p, e)

\* So do the counters.
Counted(p, U) ==
    /\ p.prob_count >= Len(p.probation.list)
    /\ p.sanc_count = Cardinality(Protected(p, U))
    /\ Cardinality(p.free) <= MaxSize
    /\ Cardinality(p.free \cup U) >= MaxSize

PoolOK(p, U) == p \in Pool /\ U \subseteq Entries /\ Linked(p, U) /\ Counted(p, U)

\* Sets of objects are finite.
LEMMA ObjectsFinite ==
    ASSUME NEW S \in SUBSET Entries
    PROVE  IsFiniteSet(S) /\ Cardinality(S) \in Nat
  BY PoolAssumption, FS_Subset, FS_CardinalityType

\* Fields other than pool_type do not matter.
LEMMA FieldsFacts ==
    ASSUME NEW p, NEW U, PoolOK(p, U), NEW q \in Pool,
           q.free = p.free, q.probation = p.probation, q.sieve = p.sieve,
           q.prob_count = p.prob_count, q.sanc_count = p.sanc_count,
           \A e \in Entries : q.entry[e].pool_type = p.entry[e].pool_type
    PROVE  PoolOK(q, U)
<1>1. \A e \in Entries : Sanctuary(q, e) <=> Sanctuary(p, e)
  BY DEF Sanctuary
<1>2. U \subseteq Entries
  BY DEF PoolOK
<1>3. Protected(q, U) = Protected(p, U)
  BY <1>1, <1>2 DEF Protected
<1>4. Linked(q, U)
  BY <1>1, <1>2 DEF PoolOK, Linked
<1>5. Counted(q, U)
  BY <1>3 DEF PoolOK, Counted
<1> QED
  BY <1>2, <1>4, <1>5 DEF PoolOK

\* A hand may move and a sweep may unlink entries of the sieve.
LEMMA SieveFacts ==
    ASSUME NEW p, NEW U, PoolOK(p, U), NEW s, HandedList(s),
           Range(s.list) \subseteq Range(p.sieve.list)
    PROVE  PoolOK([p EXCEPT !.sieve = s], U)
<1> DEFINE q == [p EXCEPT !.sieve = s]
<1>1. s \in [list : Seq(Entries), hand : Entries \cup {Nil}]
  BY DEF HandedList, List
<1>2. q \in Pool /\ q.entry = p.entry /\ q.free = p.free /\ q.sieve = s
      /\ q.probation = p.probation /\ q.prob_count = p.prob_count
      /\ q.sanc_count = p.sanc_count
  BY <1>1 DEF PoolOK, Pool
<1> HIDE DEF q
<1>3. \A e : Sanctuary(q, e) <=> Sanctuary(p, e)
  BY <1>2 DEF Sanctuary
<1>4. Linked(q, U)
  BY <1>2, <1>3 DEF PoolOK, Linked
<1>5. Counted(q, U)
  BY Zenon, <1>2, <1>3 DEF PoolOK, Counted, Protected
<1> QED
  BY <1>2, <1>4, <1>5 DEF PoolOK, q

\* run_sequential_reaper puts the probation hand on the first entry.
LEMMA ResetHandFacts ==
    ASSUME NEW p, NEW U, PoolOK(p, U)
    PROVE  PoolOK([p EXCEPT !.probation.hand = Begin(p.probation.list)], U)
<1> DEFINE h == Begin(p.probation.list)
           q == [p EXCEPT !.probation.hand = h]
<1>1. /\ p.probation.list \in List(Entries) /\ HandedList(p.probation)
      /\ p.probation \in [list : List(Entries), hand : Entries \cup {Nil}]
  BY DEF PoolOK, Linked, HandedList
<1>2. h \in Range(p.probation.list) \cup {Nil} /\ h \in Entries \cup {Nil}
  BY <1>1, EmptyFacts DEF Begin, List, Range
<1> HIDE DEF h
<1>3. q \in Pool /\ q.entry = p.entry /\ q.free = p.free /\ q.sieve = p.sieve
      /\ q.prob_count = p.prob_count /\ q.sanc_count = p.sanc_count
      /\ q.probation = [p.probation EXCEPT !.hand = h]
  BY Zenon, <1>1, <1>2 DEF PoolOK, Pool
<1>4. HandedList(q.probation) /\ q.probation.list = p.probation.list
  BY <1>1, <1>2, <1>3 DEF HandedList
<1> HIDE DEF q
<1>5. \A e : Sanctuary(q, e) <=> Sanctuary(p, e)
  BY <1>3 DEF Sanctuary
<1>6. Linked(q, U)
  BY <1>3, <1>4, <1>5 DEF PoolOK, Linked
<1>7. Counted(q, U)
  BY Zenon, <1>3, <1>4, <1>5 DEF PoolOK, Counted, Protected
<1> QED
  BY <1>3, <1>6, <1>7 DEF PoolOK, q, h

\* remove_from_probation unlinks e, keeps the hand in the list and counts.
LEMMA RemoveFacts ==
    ASSUME NEW p, NEW U, PoolOK(p, U), NEW e \in Entries
    PROVE  LET q == remove_from_probation(p, e)
           IN  /\ PoolOK(q, U)
               /\ q.entry = p.entry /\ q.free = p.free /\ q.sieve = p.sieve
               /\ q.sanc_count = p.sanc_count
               /\ Range(q.probation.list) = Range(p.probation.list) \ {e}
<1> DEFINE q == remove_from_probation(p, e)
           s == p.probation
           t == on_erase(s, e)
<1>1. CASE e \notin Range(s.list)
  BY <1>1 DEF remove_from_probation, IsLinked
<1>2. CASE e \in Range(s.list)
  <2>1. /\ HandedList(s) /\ s.list \in List(Entries)
        /\ p.prob_count \in Nat /\ p.prob_count >= Len(s.list)
        /\ Len(s.list) \in Nat
    BY DEF PoolOK, Pool, Linked, Counted, HandedList, List
  <2>2. HandedList(t) /\ Range(t.list) = Range(s.list) \ {e}
    BY <2>1, OnEraseFacts
  <2>3. t.list = Erase(s.list, e)
    BY <1>2 DEF on_erase, IsLinked
  <2>4. Len(t.list) = Len(s.list) - 1 /\ Len(t.list) \in Nat
    BY <1>2, <2>1, <2>3, EraseFacts DEF List
  <2>5. q = [p EXCEPT !.probation = t, !.prob_count = IF @ > 0 THEN @ - 1 ELSE @]
    BY <1>2 DEF remove_from_probation, on_erase, IsLinked
  <2>6. p.prob_count > 0 /\ p.prob_count - 1 \in Nat
    BY <2>1, <2>4
  <2>7. t \in [list : Seq(Entries), hand : Entries \cup {Nil}]
    BY <2>2 DEF HandedList, List
  <2> HIDE DEF t
  <2>8. q \in Pool /\ q.entry = p.entry /\ q.free = p.free /\ q.sieve = p.sieve
        /\ q.probation = t /\ q.prob_count = p.prob_count - 1
        /\ q.sanc_count = p.sanc_count
    BY Zenon, <2>5, <2>6, <2>7 DEF PoolOK, Pool
  <2> HIDE DEF q
  <2>9. \A x : Sanctuary(q, x) <=> Sanctuary(p, x)
    BY <2>8 DEF Sanctuary
  <2>10. Linked(q, U)
    BY <2>2, <2>8, <2>9 DEF PoolOK, Linked
  <2>11. Counted(q, U)
    <3>1. q.prob_count >= Len(q.probation.list)
      BY <2>1, <2>4, <2>8
    <3>2. Protected(q, U) = Protected(p, U)
      BY <2>9 DEF Protected
    <3> QED
      BY <2>8, <3>1, <3>2 DEF PoolOK, Counted
  <2> QED
    BY <2>2, <2>8, <2>10, <2>11 DEF PoolOK, q
<1> QED
  BY <1>1, <1>2

\* One pass of the reaper is remove_from_probation of the entry under the hand:
\* the counter it decrements without a test is not zero.
LEMMA ReapFacts ==
    ASSUME NEW p, NEW U, PoolOK(p, U), p.probation.hand # Nil
    PROVE  /\ ReapOne(p) = remove_from_probation(p, p.probation.hand)
           /\ p.probation.hand \in Entries
<1> DEFINE v == p.probation.hand
<1>1. /\ v \in Range(p.probation.list) /\ v \in Entries
      /\ p.probation.list \in List(Entries)
      /\ p.prob_count \in Nat /\ p.prob_count >= Len(p.probation.list)
  BY DEF PoolOK, Pool, Linked, Counted, HandedList
<1>2. Len(p.probation.list) \in Nat \ {0}
  BY <1>1, IndexFacts DEF List
<1>3. p.prob_count > 0
  BY <1>1, <1>2
<1> QED
  BY Zenon, <1>1, <1>3 DEF ReapOne, remove_from_probation, IsLinked

\* promote_to_sanctuary moves e to the sieve's list and changes no value.
LEMMA PromoteFacts ==
    ASSUME NEW p, NEW U, PoolOK(p, U), NEW e \in U
    PROVE  LET q == promote_to_sanctuary(p, e)
           IN  /\ PoolOK(q, U) /\ q.free = p.free
               /\ \A x \in Entries : /\ q.entry[x].key = p.entry[x].key
                                     /\ q.entry[x].value = p.entry[x].value
                                     /\ q.entry[x].expires_at = p.entry[x].expires_at
               /\ HandLost(q.sieve) => HandLost(p.sieve)
<1> DEFINE q == promote_to_sanctuary(p, e)
<1>1. CASE Sanctuary(p, e)
  BY <1>1 DEF promote_to_sanctuary
<1>2. CASE ~ Sanctuary(p, e)
  <2> DEFINE r == remove_from_probation(p, e)
             s == on_insert(r.sieve, e)
             b == [p.entry[e] EXCEPT !.visited = TRUE, !.pool_type = "Sanctuary"]
  <2>1. e \in Entries
    BY DEF PoolOK
  <2>2. /\ PoolOK(r, U)
        /\ r.entry = p.entry /\ r.free = p.free /\ r.sieve = p.sieve
        /\ r.sanc_count = p.sanc_count
        /\ Range(r.probation.list) = Range(p.probation.list) \ {e}
    BY <2>1, RemoveFacts
  <2> HIDE DEF r
  <2>3. HandedList(r.sieve) /\ e \notin Range(r.sieve.list)
    BY <1>2, <2>2 DEF PoolOK, Linked
  <2>4. /\ HandedList(s) /\ Range(s.list) = Range(r.sieve.list) \cup {e}
        /\ HandLost(s) => HandLost(r.sieve)
    BY <2>1, <2>3, OnInsertFacts
  <2> HIDE DEF s
  <2>5. p.entry \in [Entries -> Entry] /\ p.sanc_count \in Nat
    BY DEF PoolOK, Pool
  <2>6. b \in Entry /\ b.key = p.entry[e].key /\ b.value = p.entry[e].value
        /\ b.expires_at = p.entry[e].expires_at /\ b.pool_type = "Sanctuary"
    BY Zenon, <2>1, <2>5 DEF Entry, PoolTypes
  <2>7. q = [r EXCEPT !.sieve = s, !.entry = [p.entry EXCEPT ![e] = b],
                      !.sanc_count = p.sanc_count + 1]
    <3>1. Admit(r, e) = [r EXCEPT !.sieve = s, !.entry[e].visited = TRUE,
                                  !.entry[e].pool_type = "Sanctuary"]
      BY <2>3 DEF Admit, IsLinked, s
    <3>2. [r EXCEPT !.sieve = s, !.entry[e].visited = TRUE,
                    !.entry[e].pool_type = "Sanctuary"]
            = [r EXCEPT !.sieve = s, !.entry = [p.entry EXCEPT ![e] = b]]
      BY Zenon, <2>1, <2>2, <2>5 DEF PoolOK, Pool
    <3>3. q = [Admit(r, e) EXCEPT !.sanc_count = @ + 1]
      BY <1>2 DEF promote_to_sanctuary, r
    <3> QED
      BY Zenon, <2>2, <3>1, <3>2, <3>3 DEF PoolOK, Pool
  <2> HIDE DEF b
  <2>8. s \in [list : Seq(Entries), hand : Entries \cup {Nil}]
    BY <2>4 DEF HandedList, List
  <2>9. /\ q \in Pool
        /\ q.free = p.free /\ q.sieve = s /\ q.probation = r.probation
        /\ q.prob_count = r.prob_count /\ q.sanc_count = p.sanc_count + 1
        /\ q.entry = [p.entry EXCEPT ![e] = b]
    <3> DEFINE m == [p.entry EXCEPT ![e] = b]
    <3>1. m \in [Entries -> Entry] /\ p.sanc_count + 1 \in Nat
      BY <2>1, <2>5, <2>6
    <3>2. r \in Pool /\ r.free = p.free
      BY <2>2 DEF PoolOK
    <3>3. q = [r EXCEPT !.sieve = s, !.entry = m, !.sanc_count = p.sanc_count + 1]
      BY <2>7
    <3> HIDE DEF m, q
    <3>4. /\ q \in Pool
          /\ q.free = p.free /\ q.sieve = s /\ q.probation = r.probation
          /\ q.prob_count = r.prob_count /\ q.sanc_count = p.sanc_count + 1
          /\ q.entry = m
      BY Zenon, <2>8, <3>1, <3>2, <3>3 DEF Pool
    <3> QED
      BY <3>4 DEF m
  <2> HIDE DEF q
  <2>10. \A x \in Entries : Sanctuary(q, x) <=> (x = e \/ Sanctuary(p, x))
    BY <2>1, <2>5, <2>6, <2>9 DEF Sanctuary
  <2>11. \A x \in Entries : Sanctuary(r, x) <=> Sanctuary(p, x)
    BY <2>2 DEF Sanctuary
  <2>12. U \subseteq Entries
    BY DEF PoolOK
  <2>13. Linked(q, U)
    <3>1. HandedList(q.probation) /\ HandedList(q.sieve) /\ q.free \cap U = {}
      BY <2>2, <2>4, <2>9 DEF PoolOK, Linked
    <3>2. \A x \in Range(q.probation.list) : x \in U /\ ~ Sanctuary(q, x)
      BY <2>2, <2>9, <2>10, <2>12 DEF PoolOK, Linked
    <3>3. \A x \in Range(q.sieve.list) : x \in U /\ Sanctuary(q, x)
      BY <2>2, <2>4, <2>9, <2>10, <2>12 DEF PoolOK, Linked
    <3>4. prob_pool_max_size = 0 => \A x \in U : Sanctuary(q, x)
      BY <2>10, <2>12 DEF PoolOK, Linked
    <3> QED
      BY <3>1, <3>2, <3>3, <3>4 DEF Linked
  <2>14. Counted(q, U)
    <3>1. Protected(q, U) = Protected(p, U) \cup {e} /\ e \notin Protected(p, U)
      BY <1>2, <2>10, <2>12 DEF Protected
    <3>2. Cardinality(Protected(q, U)) = Cardinality(Protected(p, U)) + 1
      BY Zenon, <2>12, <3>1, ObjectsFinite, FS_AddElement DEF Protected
    <3> QED
      BY <2>2, <2>9, <3>2 DEF PoolOK, Counted
  <2>15. \A x \in Entries : /\ q.entry[x].key = p.entry[x].key
                             /\ q.entry[x].value = p.entry[x].value
                             /\ q.entry[x].expires_at = p.entry[x].expires_at
    BY <2>5, <2>6, <2>9
  <2> QED
    BY <2>2, <2>4, <2>9, <2>12, <2>13, <2>14, <2>15 DEF PoolOK, q
<1> QED
  BY <1>1, <1>2

\* Taking an object, from the pool or from the heap, loses none.
LEMMA CountTake ==
    ASSUME NEW F \in SUBSET Entries, NEW U \in SUBSET Entries, NEW e \in Entries,
           Cardinality(F) <= MaxSize, Cardinality(F \cup U) >= MaxSize
    PROVE  /\ Cardinality(F \ {e}) <= MaxSize
           /\ Cardinality((F \ {e}) \cup (U \cup {e})) >= MaxSize
<1>1. Cardinality(F \ {e}) <= Cardinality(F)
  BY ObjectsFinite, FS_Subset
<1>2. Cardinality(F \cup U) <= Cardinality((F \ {e}) \cup (U \cup {e}))
  <2>1. F \cup U \subseteq (F \ {e}) \cup (U \cup {e})
    OBVIOUS
  <2>2. IsFiniteSet((F \ {e}) \cup (U \cup {e}))
    BY ObjectsFinite
  <2> QED
    BY <2>1, <2>2, FS_Subset
<1>3. /\ Cardinality(F) \in Nat /\ Cardinality(F \ {e}) \in Nat
      /\ Cardinality(F \cup U) \in Nat
      /\ Cardinality((F \ {e}) \cup (U \cup {e})) \in Nat
  BY ObjectsFinite
<1> QED
  BY <1>1, <1>2, <1>3, PoolAssumption

\* Giving one back keeps the pool within its size, and destroys it only when
\* the pool is full.
LEMMA CountRecycle ==
    ASSUME NEW F \in SUBSET Entries, NEW U \in SUBSET Entries, NEW e \in U,
           e \notin F,
           Cardinality(F) <= MaxSize, Cardinality(F \cup U) >= MaxSize
    PROVE  LET G == IF Cardinality(F) < MaxSize THEN F \cup {e} ELSE F
           IN  /\ Cardinality(G) <= MaxSize
               /\ Cardinality(G \cup (U \ {e})) >= MaxSize
<1>1. /\ Cardinality(F) \in Nat /\ IsFiniteSet(F) /\ MaxSize \in Nat
      /\ Cardinality(F \cup (U \ {e})) \in Nat /\ IsFiniteSet(F \cup (U \ {e}))
  BY ObjectsFinite, PoolAssumption
<1>2. CASE Cardinality(F) < MaxSize
  <2>1. Cardinality(F \cup {e}) = Cardinality(F) + 1
    BY Zenon, <1>1, FS_AddElement
  <2>2. (F \cup {e}) \cup (U \ {e}) = F \cup U
    OBVIOUS
  <2>3. Cardinality((F \cup {e}) \cup (U \ {e})) >= MaxSize
    BY <2>2
  <2> QED
    BY <1>1, <1>2, <2>1, <2>3
<1>3. CASE ~ (Cardinality(F) < MaxSize)
  <2>1. Cardinality(F) <= Cardinality(F \cup (U \ {e}))
    BY <1>1, FS_Subset
  <2> QED
    BY <1>1, <1>3, <2>1
<1> QED
  BY <1>2, <1>3

\* The three ways to hand out an object put it in use.  do_prob_acquire links a
\* pooled one into the probation list ...
LEMMA TakeProbationFacts ==
    ASSUME NEW p, NEW U, PoolOK(p, U), NEW e \in p.free, prob_pool_max_size > 0
    PROVE  LET q == TakeProbation(p, e)
           IN  /\ PoolOK(q, U \cup {e}) /\ q.free = p.free \ {e}
               /\ q.entry = [p.entry EXCEPT ![e] = Blank]
               /\ q.sieve = p.sieve
<1> DEFINE q == TakeProbation(p, e)
           V == U \cup {e}
           l == Append(p.probation.list, e)
           m == [p.entry EXCEPT ![e] = Blank]
<1>1. /\ p \in Pool /\ e \in Entries /\ e \notin U /\ U \subseteq Entries
      /\ HandedList(p.probation) /\ p.probation.list \in List(Entries)
      /\ e \notin Range(p.probation.list) /\ e \notin Range(p.sieve.list)
      /\ p.probation.hand \in Range(p.probation.list) \cup {Nil}
      /\ p.probation.hand \in Entries \cup {Nil}
  BY DEF PoolOK, Pool, Linked, HandedList
<1>2. /\ l \in List(Entries) /\ l \in Seq(Entries)
      /\ Range(l) = Range(p.probation.list) \cup {e}
      /\ Len(l) = Len(p.probation.list) + 1
  BY <1>1, PushFacts DEF List
<1>3. m \in [Entries -> Entry] /\ p.prob_count + 1 \in Nat
  BY <1>1 DEF Pool, Blank, Entry, PoolTypes
<1>4. q = [p EXCEPT !.free = p.free \ {e}, !.entry = m,
                    !.prob_count = p.prob_count + 1,
                    !.probation = [p.probation EXCEPT !.list = l]]
  BY <1>1 DEF TakeProbation, TakeObject, Pool
<1> HIDE DEF l, m, q
<1>5. /\ q \in Pool /\ q.free = p.free \ {e} /\ q.entry = m /\ q.sieve = p.sieve
      /\ q.prob_count = p.prob_count + 1 /\ q.sanc_count = p.sanc_count
      /\ q.probation = [p.probation EXCEPT !.list = l]
      /\ q.probation.list = l /\ q.probation.hand = p.probation.hand
  BY Zenon, <1>1, <1>2, <1>3, <1>4 DEF Pool
<1>6. \A x \in Entries : Sanctuary(q, x) <=> (x # e /\ Sanctuary(p, x))
  BY <1>1, <1>5 DEF Sanctuary, m, Blank, Pool
<1>7. HandedList(q.probation)
  BY <1>1, <1>2, <1>5 DEF HandedList
<1>8. Linked(q, V)
  <2>1. HandedList(q.sieve) /\ q.free \cap V = {}
    BY <1>5 DEF PoolOK, Linked
  <2>2. \A x \in Range(q.probation.list) : x \in V /\ ~ Sanctuary(q, x)
    BY <1>1, <1>2, <1>5, <1>6 DEF PoolOK, Linked
  <2>3. \A x \in Range(q.sieve.list) : x \in V /\ Sanctuary(q, x)
    BY <1>1, <1>5, <1>6 DEF PoolOK, Linked
  <2>4. prob_pool_max_size # 0
    BY PoolAssumption DEF prob_pool_max_size
  <2> QED
    BY <1>7, <2>1, <2>2, <2>3, <2>4 DEF Linked
<1>9. Counted(q, V)
  <2>1. Protected(q, V) = Protected(p, U)
    BY <1>1, <1>6 DEF Protected
  <2>2. q.prob_count >= Len(q.probation.list)
    <3>1. /\ p.prob_count \in Nat /\ p.prob_count >= Len(p.probation.list)
          /\ Len(p.probation.list) \in Nat
      BY <1>1 DEF PoolOK, Pool, Counted, List
    <3>2. Len(q.probation.list) = Len(p.probation.list) + 1
      BY <1>2, <1>5
    <3> QED
      BY <1>5, <3>1, <3>2
  <2>3. Cardinality(q.free) <= MaxSize /\ Cardinality(q.free \cup V) >= MaxSize
    <3>1. /\ p.free \in SUBSET Entries /\ U \in SUBSET Entries
          /\ Cardinality(p.free) <= MaxSize /\ Cardinality(p.free \cup U) >= MaxSize
      BY Zenon, <1>1 DEF PoolOK, Counted, Pool
    <3> QED
      BY Zenon, <1>1, <1>5, <3>1, CountTake
  <2> QED
    BY <1>5, <2>1, <2>2, <2>3 DEF PoolOK, Counted
<1> QED
  BY <1>1, <1>5, <1>8, <1>9 DEF PoolOK, q, m

\* ... counts a heap object but links it nowhere ...
LEMMA TakeFallbackFacts ==
    ASSUME NEW p, NEW U, PoolOK(p, U), NEW e \in Entries \ U, prob_pool_max_size > 0
    PROVE  LET q == TakeFallback(p, e)
           IN  /\ PoolOK(q, U \cup {e}) /\ q.free = p.free \ {e}
               /\ q.entry = [p.entry EXCEPT ![e] = Blank]
               /\ q.sieve = p.sieve /\ q.probation = p.probation
<1> DEFINE q == TakeFallback(p, e)
           V == U \cup {e}
           m == [p.entry EXCEPT ![e] = Blank]
<1>1. /\ p \in Pool /\ U \subseteq Entries
      /\ e \notin Range(p.probation.list) /\ e \notin Range(p.sieve.list)
  BY DEF PoolOK, Linked
<1>2. m \in [Entries -> Entry] /\ p.prob_count + 1 \in Nat
  BY <1>1 DEF Pool, Blank, Entry, PoolTypes
<1>3. q = [p EXCEPT !.free = p.free \ {e}, !.entry = m,
                    !.prob_count = p.prob_count + 1]
  BY <1>1 DEF TakeFallback, TakeObject, Pool
<1> HIDE DEF m, q
<1>4. /\ q \in Pool /\ q.free = p.free \ {e} /\ q.entry = m /\ q.sieve = p.sieve
      /\ q.prob_count = p.prob_count + 1 /\ q.sanc_count = p.sanc_count
      /\ q.probation = p.probation
  BY Zenon, <1>1, <1>2, <1>3 DEF Pool
<1>5. \A x \in Entries : Sanctuary(q, x) <=> (x # e /\ Sanctuary(p, x))
  BY <1>1, <1>4 DEF Sanctuary, m, Blank, Pool
<1>6. Linked(q, V)
  <2>1. HandedList(q.sieve) /\ HandedList(q.probation) /\ q.free \cap V = {}
    BY <1>4 DEF PoolOK, Linked
  <2>2. \A x \in Range(q.probation.list) : x \in V /\ ~ Sanctuary(q, x)
    BY <1>1, <1>4, <1>5 DEF PoolOK, Linked
  <2>3. \A x \in Range(q.sieve.list) : x \in V /\ Sanctuary(q, x)
    BY <1>1, <1>4, <1>5 DEF PoolOK, Linked
  <2>4. prob_pool_max_size # 0
    BY PoolAssumption DEF prob_pool_max_size
  <2> QED
    BY <2>1, <2>2, <2>3, <2>4 DEF Linked
<1>7. Counted(q, V)
  <2>1. Protected(q, V) = Protected(p, U)
    BY <1>1, <1>5 DEF Protected
  <2>2. q.prob_count >= Len(q.probation.list)
    <3>1. /\ p.prob_count \in Nat /\ p.prob_count >= Len(p.probation.list)
          /\ Len(p.probation.list) \in Nat
      BY <1>1 DEF PoolOK, Pool, Counted
    <3> QED
      BY <1>4, <3>1
  <2>3. Cardinality(q.free) <= MaxSize /\ Cardinality(q.free \cup V) >= MaxSize
    BY Zenon, <1>1, <1>4, CountTake DEF PoolOK, Counted, Pool
  <2> QED
    BY <1>4, <2>1, <2>2, <2>3 DEF PoolOK, Counted
<1> QED
  BY <1>1, <1>4, <1>6, <1>7 DEF PoolOK, q, m

\* ... and do_acquire puts the object into the sanctuary at once.
LEMMA AcquireFacts ==
    ASSUME NEW p, NEW U, PoolOK(p, U), NEW e \in Entries \ U
    PROVE  LET q == do_acquire(p, e)
           IN  /\ PoolOK(q, U \cup {e}) /\ q.free = p.free \ {e}
               /\ \A x \in Entries \ {e} : q.entry[x] = p.entry[x]
               /\ q.entry[e].expires_at = 0
               /\ HandLost(q.sieve) => HandLost(p.sieve)
<1> DEFINE q == do_acquire(p, e)
           V == U \cup {e}
           b == [Blank EXCEPT !.visited = TRUE, !.pool_type = "Sanctuary"]
           m == [p.entry EXCEPT ![e] = b]
           s == on_insert(p.sieve, e)
<1>1. /\ p \in Pool /\ U \subseteq Entries /\ HandedList(p.sieve)
      /\ e \notin Range(p.probation.list) /\ e \notin Range(p.sieve.list)
  BY DEF PoolOK, Linked
<1>2. /\ HandedList(s) /\ Range(s.list) = Range(p.sieve.list) \cup {e}
      /\ HandLost(s) => HandLost(p.sieve)
      /\ s \in [list : Seq(Entries), hand : Entries \cup {Nil}]
  BY Zenon, <1>1, OnInsertFacts DEF HandedList, List
<1>3. /\ b \in Entry /\ b.pool_type = "Sanctuary" /\ b.expires_at = 0
      /\ m \in [Entries -> Entry] /\ p.sanc_count + 1 \in Nat
  <2>1. Blank \in Entry /\ Blank.expires_at = 0
    BY DEF Blank, Entry, PoolTypes
  <2>2. b \in Entry /\ b.pool_type = "Sanctuary" /\ b.expires_at = 0
    BY Zenon, <2>1 DEF Entry, PoolTypes
  <2> HIDE DEF b
  <2> QED
    BY <1>1, <2>2 DEF Pool
<1>4. q = [p EXCEPT !.free = p.free \ {e}, !.entry = m, !.sieve = s,
                    !.sanc_count = p.sanc_count + 1]
  <2> DEFINE r == TakeObject(p, e)
  <2>1. /\ r = [p EXCEPT !.free = p.free \ {e}, !.entry = [p.entry EXCEPT ![e] = Blank]]
        /\ r.sieve = p.sieve /\ r.sanc_count = p.sanc_count
        /\ r.entry = [p.entry EXCEPT ![e] = Blank]
    BY <1>1 DEF TakeObject, Pool
  <2> HIDE DEF r
  <2>2. Admit(r, e) = [r EXCEPT !.sieve = s, !.entry[e].visited = TRUE,
                                !.entry[e].pool_type = "Sanctuary"]
    BY <1>1, <2>1 DEF Admit, IsLinked
  <2>3. Admit(r, e) = [r EXCEPT !.sieve = s, !.entry = m]
    <3>1. r.entry[e] = Blank
      BY <1>1, <2>1 DEF Pool
    <3>2. [r.entry EXCEPT ![e] = b] = m
      BY <1>1, <2>1 DEF Pool
    <3>3. r \in Pool
      BY Zenon, <1>1, <2>1 DEF Pool, Blank, Entry, PoolTypes
    <3>4. [r EXCEPT !.sieve = s, !.entry[e].visited = TRUE,
                    !.entry[e].pool_type = "Sanctuary"]
            = [r EXCEPT !.sieve = s, !.entry = [r.entry EXCEPT ![e] =
                  [r.entry[e] EXCEPT !.visited = TRUE, !.pool_type = "Sanctuary"]]]
      BY Zenon, <3>3 DEF Pool
    <3> QED
      BY Zenon, <2>2, <3>1, <3>2, <3>4
  <2>4. q = [Admit(r, e) EXCEPT !.sanc_count = @ + 1]
    BY DEF do_acquire, r
  <2> HIDE DEF q, m, s
  <2> QED
    BY Zenon, <1>1, <2>1, <2>3, <2>4 DEF Pool
<1> HIDE DEF m, q, s
<1>5. /\ q \in Pool /\ q.free = p.free \ {e} /\ q.entry = m /\ q.sieve = s
      /\ q.prob_count = p.prob_count /\ q.sanc_count = p.sanc_count + 1
      /\ q.probation = p.probation
  BY Zenon, <1>1, <1>2, <1>3, <1>4 DEF Pool
<1>6. \A x \in Entries : Sanctuary(q, x) <=> (x = e \/ Sanctuary(p, x))
  BY <1>1, <1>3, <1>5 DEF Sanctuary, m, Pool
<1>7. Linked(q, V)
  <2>1. HandedList(q.sieve) /\ HandedList(q.probation) /\ q.free \cap V = {}
    BY <1>2, <1>5 DEF PoolOK, Linked
  <2>2. \A x \in Range(q.probation.list) : x \in V /\ ~ Sanctuary(q, x)
    BY <1>1, <1>5, <1>6 DEF PoolOK, Linked
  <2>3. \A x \in Range(q.sieve.list) : x \in V /\ Sanctuary(q, x)
    BY <1>1, <1>2, <1>5, <1>6 DEF PoolOK, Linked
  <2>4. prob_pool_max_size = 0 => \A x \in V : Sanctuary(q, x)
    BY <1>1, <1>6 DEF PoolOK, Linked
  <2> QED
    BY <2>1, <2>2, <2>3, <2>4 DEF Linked
<1>8. Counted(q, V)
  <2>1. Protected(q, V) = Protected(p, U) \cup {e} /\ e \notin Protected(p, U)
    BY <1>1, <1>6 DEF Protected
  <2>2. Cardinality(Protected(q, V)) = Cardinality(Protected(p, U)) + 1
    BY Zenon, <1>1, <2>1, ObjectsFinite, FS_AddElement DEF Protected
  <2>3. Cardinality(q.free) <= MaxSize /\ Cardinality(q.free \cup V) >= MaxSize
    BY Zenon, <1>1, <1>5, CountTake DEF PoolOK, Counted, Pool
  <2> QED
    BY <1>5, <2>2, <2>3 DEF PoolOK, Counted
<1>9. (\A x \in Entries \ {e} : q.entry[x] = p.entry[x]) /\ q.entry[e].expires_at = 0
  BY <1>1, <1>3, <1>5 DEF m, Pool
<1> QED
  BY <1>1, <1>2, <1>5, <1>7, <1>8, <1>9 DEF PoolOK, q

\* release unlinks the object from whichever list it is on, and recycles it.
LEMMA ReleaseFacts ==
    ASSUME NEW p, NEW U, PoolOK(p, U), NEW e \in U
    PROVE  LET q == release(p, e)
           IN  /\ PoolOK(q, U \ {e})
               /\ q.free \subseteq p.free \cup {e}
               /\ q.entry = [p.entry EXCEPT ![e] = Blank]
               /\ HandLost(q.sieve) => HandLost(p.sieve)
<1> DEFINE q == release(p, e)
           V == U \ {e}
           m == [p.entry EXCEPT ![e] = Blank]
           G == IF Cardinality(p.free) < MaxSize THEN p.free \cup {e} ELSE p.free
<1>1. /\ p \in Pool /\ U \subseteq Entries /\ e \in Entries
      /\ p.free \subseteq Entries /\ e \notin p.free
      /\ HandedList(p.sieve)
  BY DEF PoolOK, Linked, Pool
<1>2. Cardinality(G) <= MaxSize /\ Cardinality(G \cup V) >= MaxSize
  BY Zenon, <1>1, CountRecycle DEF PoolOK, Counted
<1>3. G \subseteq p.free \cup {e} /\ G \in SUBSET Entries /\ G \cap V = {}
  BY <1>1 DEF PoolOK, Linked
<1>4. m \in [Entries -> Entry] /\ \A x \in Entries \ {e} : m[x] = p.entry[x]
  BY <1>1 DEF Pool, Blank, Entry, PoolTypes
<1> HIDE DEF G
<1>5. CASE Sanctuary(p, e)
  <2> DEFINE s == on_erase(p.sieve, e)
  <2>1. /\ HandedList(s) /\ Range(s.list) = Range(p.sieve.list) \ {e}
        /\ HandLost(s) => HandLost(p.sieve)
        /\ s \in [list : Seq(Entries), hand : Entries \cup {Nil}]
    BY Zenon, <1>1, OnEraseFacts DEF HandedList, List
  <2>2. /\ Cardinality(Protected(p, U) \ {e}) = Cardinality(Protected(p, U)) - 1
        /\ Cardinality(Protected(p, U)) \in Nat /\ Cardinality(Protected(p, U)) # 0
    <3>1. /\ Protected(p, U) \in SUBSET Entries /\ e \in Protected(p, U)
      BY <1>1, <1>5 DEF Protected
    <3> QED
      BY Zenon, <3>1, ObjectsFinite, FS_RemoveElement, FS_EmptySet
  <2>3. p.sanc_count = Cardinality(Protected(p, U))
    BY DEF PoolOK, Counted
  <2>4. p.sanc_count > 0 /\ p.sanc_count - 1 \in Nat
    BY <2>2, <2>3
  <2>5. q = [p EXCEPT !.free = G, !.entry = m, !.sieve = s,
                      !.sanc_count = p.sanc_count - 1]
    <3>1. q = Recycle(DropSanctuary(p, e), e)
      BY <1>5 DEF release, do_release, do_prob_release
    <3>2. DropSanctuary(p, e) = [p EXCEPT !.sieve = s, !.sanc_count = p.sanc_count - 1]
      BY Zenon, <2>4 DEF DropSanctuary
    <3> HIDE DEF s, m, q
    <3> QED
      BY Zenon, <1>1, <3>1, <3>2 DEF Recycle, Pool, G, m
  <2> HIDE DEF m, q, s
  <2>6. /\ q \in Pool /\ q.free = G /\ q.entry = m /\ q.sieve = s
        /\ q.prob_count = p.prob_count /\ q.sanc_count = p.sanc_count - 1
        /\ q.probation = p.probation
    BY Zenon, <1>1, <1>3, <1>4, <2>1, <2>4, <2>5 DEF Pool
  <2>7. \A x \in Entries \ {e} : Sanctuary(q, x) <=> Sanctuary(p, x)
    BY <1>4, <2>6 DEF Sanctuary
  <2>8. e \notin Range(p.probation.list)
    BY <1>5 DEF PoolOK, Linked
  <2>9. Linked(q, V)
    <3>1. HandedList(q.sieve) /\ HandedList(q.probation) /\ q.free \cap V = {}
      BY <1>3, <2>1, <2>6 DEF PoolOK, Linked
    <3>2. \A x \in Range(q.probation.list) : x \in V /\ ~ Sanctuary(q, x)
      BY <1>1, <2>6, <2>7, <2>8 DEF PoolOK, Linked
    <3>3. \A x \in Range(q.sieve.list) : x \in V /\ Sanctuary(q, x)
      BY <1>1, <2>1, <2>6, <2>7 DEF PoolOK, Linked
    <3>4. prob_pool_max_size = 0 => \A x \in V : Sanctuary(q, x)
      BY <1>1, <2>7 DEF PoolOK, Linked
    <3> QED
      BY <3>1, <3>2, <3>3, <3>4 DEF Linked
  <2>10. Counted(q, V)
    <3>1. Protected(q, V) = Protected(p, U) \ {e}
      BY <1>1, <2>7 DEF Protected
    <3> QED
      BY Zenon, <1>2, <2>2, <2>3, <2>6, <3>1 DEF PoolOK, Counted
  <2> QED
    BY <1>1, <1>3, <2>1, <2>6, <2>9, <2>10 DEF PoolOK, q, m
<1>6. CASE ~ Sanctuary(p, e)
  <2> DEFINE r == remove_from_probation(p, e)
  <2>1. /\ PoolOK(r, U) /\ r \in Pool
        /\ r.entry = p.entry /\ r.free = p.free /\ r.sieve = p.sieve
        /\ r.sanc_count = p.sanc_count
        /\ Range(r.probation.list) = Range(p.probation.list) \ {e}
    BY Zenon, <1>1, RemoveFacts DEF PoolOK
  <2>2. prob_pool_max_size # 0
    BY <1>6 DEF PoolOK, Linked
  <2>3. q = [r EXCEPT !.free = G, !.entry = m]
    <3>1. q = Recycle(r, e)
      BY <1>6, <2>2 DEF release, do_prob_release
    <3> HIDE DEF r, q
    <3> QED
      BY Zenon, <2>1, <3>1 DEF Recycle, Pool, G, m
  <2> HIDE DEF m, q, r
  <2>4. /\ q \in Pool /\ q.free = G /\ q.entry = m /\ q.sieve = p.sieve
        /\ q.prob_count = r.prob_count /\ q.sanc_count = p.sanc_count
        /\ q.probation = r.probation
    BY Zenon, <1>3, <1>4, <2>1, <2>3 DEF Pool
  <2>5. \A x \in Entries \ {e} : Sanctuary(q, x) <=> Sanctuary(p, x)
    BY <1>4, <2>4 DEF Sanctuary
  <2>6. \A x \in Entries : Sanctuary(r, x) <=> Sanctuary(p, x)
    BY <2>1 DEF Sanctuary
  <2>7. e \notin Range(p.sieve.list)
    BY <1>6 DEF PoolOK, Linked
  <2>8. Linked(q, V)
    <3>1. HandedList(q.sieve) /\ HandedList(q.probation) /\ q.free \cap V = {}
      BY <1>1, <1>3, <2>1, <2>4 DEF PoolOK, Linked
    <3>2. \A x \in Range(q.probation.list) : x \in V /\ ~ Sanctuary(q, x)
      BY <1>1, <2>1, <2>4, <2>5 DEF PoolOK, Linked
    <3>3. \A x \in Range(q.sieve.list) : x \in V /\ Sanctuary(q, x)
      BY <1>1, <2>4, <2>5, <2>7 DEF PoolOK, Linked
    <3> QED
      BY <2>2, <3>1, <3>2, <3>3 DEF Linked
  <2>9. Counted(q, V)
    <3>1. Protected(q, V) = Protected(r, U)
      BY <1>1, <1>6, <2>5, <2>6 DEF Protected
    <3> QED
      BY Zenon, <1>2, <2>1, <2>4, <3>1 DEF PoolOK, Counted
  <2> QED
    BY <1>1, <1>3, <2>4, <2>8, <2>9 DEF PoolOK, q, m
<1> QED
  BY <1>5, <1>6
=============================================================================
