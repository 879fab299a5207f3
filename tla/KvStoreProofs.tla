---------------------------- MODULE KvStoreProofs ----------------------------
(***************************************************************************)
(* The safety of one shard's store for every set of keys, entry objects and  *)
(* fibers and for every configuration: the inductive invariant, what a step  *)
(* may do to the ownership of objects and to the frames without breaking it, *)
(* and that each step preserves it.                                          *)
(***************************************************************************)
EXTENDS KvStore, ObjectPoolProofs

Used == Mapped \cup Held

\* What a fiber holds at each point of its coroutine.
FrameOK(x) ==
    /\ x.pc # "idle" => x.req \in Request
    /\ x.pc = "acquired" => x.own # Nil
    /\ x.pc \in {"idle", "check", "evict", "done"} => x.own = Nil
    /\ x.pc = "drop" /\ x.back = "done" => x.own = Nil
    /\ x.pc \in {"reap", "reaped"} \/ (x.pc = "drop" /\ x.back = "reaped") =>
           prob_pool_max_size > 0

Frames == \A f \in Fibers : FrameOK(fib[f])

\* Only a sweep that is under way leaves the sieve's hand at end().
SweepHand == HandLost(pool.sieve) => \E f \in Fibers : fib[f].pc = "evict"

\* The inductive invariant.
IInv ==
    /\ TypeOK /\ Frames /\ OneOwner /\ KeysAgree /\ SweepHand
    /\ PoolOK(pool, Used)

\* It implies the invariants of the store.
LEMMA IInvImplies ==
    IInv => TypeOK /\ OneOwner /\ KeysAgree /\ ListsSound /\ HandsSound
            /\ CountsSound /\ SlotsConserved
<1> SUFFICES ASSUME IInv
             PROVE  /\ TypeOK /\ OneOwner /\ KeysAgree /\ ListsSound /\ HandsSound
                    /\ CountsSound /\ SlotsConserved
  OBVIOUS
<1>1. TypeOK /\ OneOwner /\ KeysAgree /\ SweepHand /\ PoolOK(pool, Used)
  BY DEF IInv
<1>2. ListsSound
  BY <1>1 DEF ListsSound, PoolOK, Linked, HandedList, List, Used
<1>3. HandsSound
  BY <1>1 DEF HandsSound, SweepHand, HandLost, PoolOK, Linked, HandedList
<1>4. CountsSound
  BY <1>1 DEF CountsSound, PoolOK, Counted, Protected, Used
<1>5. SlotsConserved
  <2>1. pool.free \cup Used = Live
    BY DEF Live, Used
  <2> QED
    BY Zenon, <1>1, <2>1 DEF SlotsConserved, PoolOK, Counted
<1> QED
  BY <1>1, <1>2, <1>3, <1>4, <1>5

\* An empty pool with MaxSize objects.
LEMMA PoolInitFacts ==
    ASSUME NEW p, PoolInit(p)
    PROVE  PoolOK(p, {}) /\ ~ HandLost(p.sieve)
<1> DEFINE s == [list |-> <<>>, hand |-> Nil]
<1>1. PICK F \in SUBSET Entries :
          /\ Cardinality(F) = MaxSize
          /\ p = [entry |-> [e \in Entries |-> Blank], free |-> F,
                  probation |-> s, sieve |-> s, prob_count |-> 0, sanc_count |-> 0]
  BY DEF PoolInit
<1>2. <<>> \in List(Entries) /\ <<>> \in Seq(Entries) /\ Range(<<>>) = {}
      /\ Len(<<>>) = 0
  BY EmptyFacts
<1>3. HandedList(s) /\ s.list = <<>> /\ s \in [list : Seq(Entries), hand : Entries \cup {Nil}]
  BY <1>2 DEF HandedList
<1>4. [e \in Entries |-> Blank] \in [Entries -> Entry]
  BY DEF Blank, Entry, PoolTypes
<1> HIDE DEF s
<1>5. /\ p \in Pool /\ p.free = F /\ p.probation = s /\ p.sieve = s
      /\ p.prob_count = 0 /\ p.sanc_count = 0
  BY <1>1, <1>3, <1>4 DEF Pool
<1>6. Linked(p, {})
  BY <1>2, <1>3, <1>5 DEF Linked
<1>7. Counted(p, {})
  <2>1. Protected(p, {}) = {} /\ F \cup {} = F
    BY DEF Protected
  <2>2. Cardinality(Protected(p, {})) = 0
    BY <2>1, FS_EmptySet
  <2>3. Cardinality(p.free \cup {}) = MaxSize /\ MaxSize \in Nat
    BY <1>1, <1>5, <2>1, PoolAssumption
  <2> QED
    BY <1>1, <1>2, <1>3, <1>5, <2>2, <2>3 DEF Counted
<1> QED
  BY <1>3, <1>5, <1>6, <1>7 DEF PoolOK, HandLost

\* A store that has started satisfies the invariant.
LEMMA InitEstablishes == Init => IInv
<1> SUFFICES ASSUME Init PROVE IInv
  OBVIOUS
<1> USE DEF Init
<1>1. Mapped = {} /\ Held = {} /\ Used = {}
  BY DEF Mapped, Held, Used, IdleFrame
<1>2. PoolOK(pool, Used) /\ ~ HandLost(pool.sieve)
  BY <1>1, PoolInitFacts
<1>3. TypeOK
  <2>1. IdleFrame \in Frame
    <3>1. <<>> \in Seq(Keys \cup {Nil})
      OBVIOUS
    <3> QED
      BY <3>1 DEF IdleFrame, Frame, PC
  <2>2. pool \in Pool
    BY <1>2 DEF PoolOK
  <2>3. map \in [Keys -> Entries \cup {Nil}] /\ cpu \in Fibers \cup {Nil}
        /\ now \in Nat
    OBVIOUS
  <2>4. crashed \in BOOLEAN
    BY Zenon
  <2>5. fib \in [Fibers -> Frame]
    BY <2>1
  <2> QED
    BY <2>2, <2>3, <2>4, <2>5 DEF TypeOK
<1>4. Frames
  BY DEF Frames, FrameOK, IdleFrame
<1>5. KeysAgree
  BY DEF KeysAgree
<1>6. OneOwner
  BY <1>1 DEF OneOwner, IdleFrame
<1> QED
  BY <1>2, <1>3, <1>4, <1>5, <1>6 DEF IInv, SweepHand

-----------------------------------------------------------------------------
(* What a step may do to the ownership of objects, one lemma per way.        *)

\* A step that moves no object.
LEMMA NoneMoved ==
    ASSUME IInv, TypeOK', Frames', SweepHand', map' = map,
           \A g \in Fibers : fib'[g].own = fib[g].own,
           PoolOK(pool', Used),
           \A x \in Mapped : pool'.entry[x].key = pool.entry[x].key
    PROVE  IInv'
<1>1. Mapped' = Mapped /\ Held' = Held /\ Used' = Used
  BY DEF Mapped, Held, Used
<1>2. PoolOK(pool, Used)' /\ pool'.free \cap Used = {}
  BY <1>1 DEF PoolOK, Linked
<1>3. OneOwner'
  BY <1>1, <1>2 DEF IInv, OneOwner, Used
<1>4. KeysAgree'
  BY DEF IInv, KeysAgree, Mapped
<1> QED
  BY <1>2, <1>3, <1>4 DEF IInv

\* A fiber acquires the object e.
LEMMA ObjectAcquired ==
    ASSUME IInv, TypeOK', Frames', SweepHand', map' = map,
           NEW f \in Fibers, NEW e \in Entries \ Used,
           fib[f].own = Nil, fib'[f].own = e,
           \A g \in Fibers \ {f} : fib'[g].own = fib[g].own,
           PoolOK(pool', Used \cup {e}),
           \A x \in Entries \ {e} : pool'.entry[x].key = pool.entry[x].key
    PROVE  IInv'
<1>0. e # Nil
  BY PoolAssumption
<1>1. Mapped' = Mapped /\ Held' = Held \cup {e}
  BY <1>0 DEF Mapped, Held
<1>2. Used' = Used \cup {e}
  BY <1>1 DEF Used
<1>3. PoolOK(pool, Used)' /\ pool'.free \cap Used' = {}
  BY <1>2 DEF PoolOK, Linked
<1>4. OneOwner'
  <2>1. \A g, h \in Fibers : fib'[g].own = fib'[h].own /\ fib'[g].own # Nil => g = h
    <3> SUFFICES ASSUME NEW g \in Fibers, NEW h \in Fibers,
                        fib'[g].own = fib'[h].own, fib'[g].own # Nil
                 PROVE  g = h
      OBVIOUS
    <3>1. \A x \in Fibers : fib[x].own # Nil => fib[x].own # e
      BY DEF Used, Held
    <3> QED
      BY <1>0, <3>1 DEF IInv, OneOwner
  <2>2. Mapped' \cap Held' = {}
    BY <1>1 DEF IInv, OneOwner, Used
  <2>3. \A j, k \in Keys : map'[j] = map'[k] /\ map'[j] # Nil => j = k
    BY DEF IInv, OneOwner
  <2>4. pool'.free \cap (Mapped' \cup Held') = {}
    BY <1>3 DEF Used
  <2> QED
    BY <2>1, <2>2, <2>3, <2>4 DEF OneOwner
<1>5. KeysAgree'
  <2> SUFFICES ASSUME NEW k \in Keys, map[k] # Nil
               PROVE  pool'.entry[map[k]].key = k
    BY DEF KeysAgree
  <2>1. map[k] \in Mapped /\ map[k] \in Entries
    BY DEF Mapped, IInv, TypeOK
  <2>2. map[k] # e
    BY <2>1 DEF Used
  <2> QED
    BY <2>1, <2>2 DEF IInv, KeysAgree
<1> QED
  BY <1>3, <1>4, <1>5 DEF IInv

\* The object under the key k is given back.
LEMMA KeyDropped ==
    ASSUME IInv, TypeOK', Frames', SweepHand', NEW k \in Keys, map[k] # Nil,
           map' = [map EXCEPT ![k] = Nil],
           \A g \in Fibers : fib'[g].own = fib[g].own,
           PoolOK(pool', Used \ {map[k]}),
           \A x \in Entries \ {map[k]} : pool'.entry[x].key = pool.entry[x].key
    PROVE  IInv'
<1>0. /\ map \in [Keys -> Entries \cup {Nil}]
      /\ \A i, j \in Keys : map[i] = map[j] /\ map[i] # Nil => i = j
      /\ Mapped \cap Held = {}
  BY DEF IInv, TypeOK, OneOwner
<1>1. Mapped' = Mapped \ {map[k]} /\ Held' = Held /\ map[k] \in Mapped
  BY <1>0 DEF Mapped, Held
<1>2. Used' = Used \ {map[k]}
  BY <1>0, <1>1 DEF Used
<1>3. PoolOK(pool, Used)' /\ pool'.free \cap Used' = {}
  BY <1>2 DEF PoolOK, Linked
<1>4. OneOwner'
  <2>1. \A i, j \in Keys : map'[i] = map'[j] /\ map'[i] # Nil => i = j
    BY <1>0
  <2>2. \A g, h \in Fibers : fib'[g].own = fib'[h].own /\ fib'[g].own # Nil => g = h
    BY DEF IInv, OneOwner
  <2>3. Mapped' \cap Held' = {} /\ pool'.free \cap (Mapped' \cup Held') = {}
    BY <1>0, <1>1, <1>3 DEF Used
  <2> QED
    BY <2>1, <2>2, <2>3 DEF OneOwner
<1>5. KeysAgree'
  <2> SUFFICES ASSUME NEW j \in Keys, map'[j] # Nil
               PROVE  pool'.entry[map'[j]].key = j
    BY DEF KeysAgree
  <2>1. map'[j] = map[j] /\ map[j] # map[k] /\ map[j] \in Entries /\ map[j] # Nil
    BY <1>0
  <2> QED
    BY <2>1 DEF IInv, KeysAgree
<1> QED
  BY <1>3, <1>4, <1>5 DEF IInv

\* A fiber puts its object under the free key k.
LEMMA ObjectMapped ==
    ASSUME IInv, TypeOK', Frames', SweepHand', NEW k \in Keys, map[k] = Nil,
           NEW f \in Fibers, fib[f].own # Nil, fib'[f].own = Nil,
           map' = [map EXCEPT ![k] = fib[f].own],
           \A g \in Fibers \ {f} : fib'[g].own = fib[g].own,
           PoolOK(pool', Used), pool'.entry[fib[f].own].key = k,
           \A x \in Entries \ {fib[f].own} : pool'.entry[x].key = pool.entry[x].key
    PROVE  IInv'
<1> DEFINE e == fib[f].own
<1>0. /\ map \in [Keys -> Entries \cup {Nil}]
      /\ \A i, j \in Keys : map[i] = map[j] /\ map[i] # Nil => i = j
      /\ \A g, h \in Fibers : fib[g].own = fib[h].own /\ fib[g].own # Nil => g = h
      /\ Mapped \cap Held = {}
  BY DEF IInv, TypeOK, OneOwner
<1>1. Mapped' = Mapped \cup {e} /\ Held' = Held \ {e} /\ e \in Held
  BY <1>0 DEF Mapped, Held
<1>2. Used' = Used
  BY <1>1 DEF Used
<1>3. PoolOK(pool, Used)' /\ pool'.free \cap Used' = {}
  BY <1>2 DEF PoolOK, Linked
<1>4. OneOwner'
  <2>1. \A i, j \in Keys : map'[i] = map'[j] /\ map'[i] # Nil => i = j
    <3>1. \A i \in Keys : map[i] # e
      BY <1>0, <1>1 DEF Mapped
    <3> QED
      BY <1>0, <3>1
  <2>2. \A g, h \in Fibers : fib'[g].own = fib'[h].own /\ fib'[g].own # Nil => g = h
    BY <1>0
  <2>3. Mapped' \cap Held' = {} /\ pool'.free \cap (Mapped' \cup Held') = {}
    BY Zenon, <1>0, <1>1, <1>3 DEF Used
  <2> QED
    BY <2>1, <2>2, <2>3 DEF OneOwner
<1>5. KeysAgree'
  <2> SUFFICES ASSUME NEW j \in Keys, map'[j] # Nil
               PROVE  pool'.entry[map'[j]].key = j
    BY Zenon DEF KeysAgree
  <2>1. CASE j = k
    BY Zenon, <1>0, <2>1
  <2>2. CASE j # k
    <3>1. map'[j] = map[j] /\ map[j] \in Mapped /\ map[j] \in Entries
      BY <1>0, <2>2 DEF Mapped
    <3>2. map[j] # e
      BY <1>0, <1>1, <3>1
    <3> QED
      BY Zenon, <3>1, <3>2 DEF IInv, KeysAgree
  <2> QED
    BY Zenon, <2>1, <2>2
<1> QED
  BY <1>3, <1>4, <1>5 DEF IInv

\* A fiber gives its object back.
LEMMA ObjectReturned ==
    ASSUME IInv, TypeOK', Frames', SweepHand', map' = map,
           NEW f \in Fibers, fib[f].own # Nil, fib'[f].own = Nil,
           \A g \in Fibers \ {f} : fib'[g].own = fib[g].own,
           PoolOK(pool', Used \ {fib[f].own}),
           \A x \in Entries \ {fib[f].own} : pool'.entry[x].key = pool.entry[x].key
    PROVE  IInv'
<1> DEFINE e == fib[f].own
<1>0. /\ map \in [Keys -> Entries \cup {Nil}]
      /\ \A i, j \in Keys : map[i] = map[j] /\ map[i] # Nil => i = j
      /\ \A g, h \in Fibers : fib[g].own = fib[h].own /\ fib[g].own # Nil => g = h
      /\ Mapped \cap Held = {}
  BY Zenon DEF IInv, TypeOK, OneOwner
<1>1. Mapped' = Mapped /\ Held' = Held \ {e} /\ e \in Held
  BY <1>0 DEF Mapped, Held
<1>2. Used' = Used \ {e}
  BY <1>0, <1>1 DEF Used
<1>3. PoolOK(pool, Used)' /\ pool'.free \cap Used' = {}
  BY Zenon, <1>2 DEF PoolOK, Linked
<1>4. OneOwner'
  <2>1. \A g, h \in Fibers : fib'[g].own = fib'[h].own /\ fib'[g].own # Nil => g = h
    BY <1>0
  <2>2. Mapped' \cap Held' = {} /\ pool'.free \cap (Mapped' \cup Held') = {}
    BY <1>0, <1>1, <1>3 DEF Used
  <2> QED
    BY <1>0, <2>1, <2>2 DEF OneOwner
<1>5. KeysAgree'
  <2> SUFFICES ASSUME NEW k \in Keys, map[k] # Nil
               PROVE  pool'.entry[map[k]].key = k
    BY DEF KeysAgree
  <2>1. map[k] \in Entries /\ map[k] \in Mapped
    BY <1>0 DEF Mapped
  <2>2. map[k] # e
    BY <1>0, <1>1, <2>1
  <2> QED
    BY <2>1, <2>2 DEF IInv, KeysAgree
<1> QED
  BY <1>3, <1>4, <1>5 DEF IInv

-----------------------------------------------------------------------------
(* What a step may do to the frames. *)

\* A step of fiber f changes the frame of f only.
LEMMA FrameStep ==
    ASSUME IInv, NEW f \in Fibers, NEW x \in Frame, FrameOK(x),
           fib' = [fib EXCEPT ![f] = x]
    PROVE  /\ fib' \in [Fibers -> Frame] /\ Frames' /\ fib'[f] = x
           /\ \A g \in Fibers \ {f} : fib'[g] = fib[g]
<1>1. fib \in [Fibers -> Frame] /\ \A g \in Fibers : FrameOK(fib[g])
  BY DEF IInv, TypeOK, Frames
<1>2. \A g \in Fibers : fib'[g] = IF g = f THEN x ELSE fib[g]
  BY <1>1
<1>3. \A g \in Fibers : FrameOK(fib'[g])
  BY <1>1, <1>2
<1> QED
  BY <1>1, <1>2, <1>3 DEF Frames

\* A fiber that does not end a sweep, in a step that does not lose the hand.
LEMMA SweepStep ==
    ASSUME IInv, NEW f \in Fibers, \A g \in Fibers \ {f} : fib'[g] = fib[g],
           fib[f].pc # "evict" \/ fib'[f].pc = "evict",
           HandLost(pool'.sieve) => HandLost(pool.sieve)
    PROVE  SweepHand'
<1> SUFFICES ASSUME HandLost(pool'.sieve) PROVE \E g \in Fibers : fib'[g].pc = "evict"
  BY DEF SweepHand
<1>1. PICK g \in Fibers : fib[g].pc = "evict"
  BY DEF IInv, SweepHand
<1> QED
  BY <1>1

\* The frame a SET has when acquire returns.
LEMMA NewFrame ==
    ASSUME NEW r \in Request, NEW e \in Entries, e # Nil
    PROVE  LET x == [IdleFrame EXCEPT !.pc = "acquired", !.req = r, !.own = e]
           IN  x \in Frame /\ FrameOK(x) /\ x.own = e /\ x.pc = "acquired"
<1>1. <<>> \in Seq(Keys \cup {Nil})
  OBVIOUS
<1> QED
  BY Zenon, <1>1 DEF IdleFrame, Frame, PC, FrameOK

-----------------------------------------------------------------------------
(* Each step.                                                                *)

\* set() without a probationary pool acquires an object straight away.
LEMMA SetDirectPreserves ==
    ASSUME IInv, NEW f \in Fibers, NEW r \in Request, SetDirect(f, r)
    PROVE  IInv'
<1> PICK e \in IF pool.free # {} THEN pool.free ELSE Entries \ Live :
             Acquired(f, do_acquire(pool, e), r, e)
  BY DEF SetDirect
<1> DEFINE x == [IdleFrame EXCEPT !.pc = "acquired", !.req = r, !.own = e]
<1>0. TypeOK /\ PoolOK(pool, Used) /\ fib[f].own = Nil /\ fib[f].pc = "idle"
  BY DEF IInv, Frames, FrameOK, SetDirect, NewSet, At
<1>1. e \in Entries \ Used /\ e # Nil
  BY Zenon, <1>0, PoolAssumption DEF Live, Used, PoolOK, Pool, Linked
<1>2. x \in Frame /\ FrameOK(x) /\ x.own = e /\ x.pc = "acquired"
  BY Zenon, <1>1, NewFrame
<1>3. /\ pool' = do_acquire(pool, e) /\ fib' = [fib EXCEPT ![f] = x]
      /\ cpu' = Nil /\ map' = map /\ now' = now /\ crashed' = crashed
  BY DEF Acquired, Suspend
<1> HIDE DEF x
<1>4. /\ PoolOK(pool', Used \cup {e})
      /\ \A y \in Entries \ {e} : pool'.entry[y] = pool.entry[y]
      /\ HandLost(pool'.sieve) => HandLost(pool.sieve)
  <2> DEFINE q == do_acquire(pool, e)
  <2>1. /\ PoolOK(q, Used \cup {e})
        /\ \A y \in Entries \ {e} : q.entry[y] = pool.entry[y]
        /\ HandLost(q.sieve) => HandLost(pool.sieve)
    BY <1>0, <1>1, AcquireFacts
  <2>2. pool' = q
    BY Zenon, <1>3
  <2> HIDE DEF q
  <2> QED
    BY Zenon, <2>1, <2>2
<1>5. /\ fib' \in [Fibers -> Frame] /\ Frames' /\ fib'[f] = x
      /\ \A g \in Fibers \ {f} : fib'[g] = fib[g]
  BY Zenon, <1>2, <1>3, FrameStep
<1>6. TypeOK'
  BY Zenon, <1>0, <1>3, <1>4, <1>5 DEF TypeOK, PoolOK
<1>7. SweepHand'
  BY Zenon, <1>0, <1>4, <1>5, SweepStep
<1> QED
  BY Zenon, <1>0, <1>1, <1>2, <1>3, <1>4, <1>5, <1>6, <1>7, ObjectAcquired

\* set() below the reaper's threshold acquires a probationary object.
LEMMA SetPooledPreserves ==
    ASSUME IInv, NEW f \in Fibers, NEW r \in Request, SetPooled(f, r)
    PROVE  IInv'
<1> PICK e \in pool.free : Acquired(f, TakeProbation(pool, e), r, e)
  BY DEF SetPooled
<1> DEFINE x == [IdleFrame EXCEPT !.pc = "acquired", !.req = r, !.own = e]
<1>0. /\ TypeOK /\ PoolOK(pool, Used) /\ fib[f].own = Nil /\ fib[f].pc = "idle"
      /\ prob_pool_max_size > 0
  BY Zenon DEF IInv, Frames, FrameOK, SetPooled, NewSet, At
<1>1. e \in Entries \ Used /\ e # Nil
  BY Zenon, <1>0, PoolAssumption DEF PoolOK, Pool, Linked
<1>2. x \in Frame /\ FrameOK(x) /\ x.own = e /\ x.pc = "acquired"
  BY Zenon, <1>1, NewFrame
<1>3. /\ pool' = TakeProbation(pool, e) /\ fib' = [fib EXCEPT ![f] = x]
      /\ cpu' = Nil /\ map' = map /\ now' = now /\ crashed' = crashed
  BY DEF Acquired, Suspend
<1> HIDE DEF x
<1>4. /\ PoolOK(pool', Used \cup {e})
      /\ pool'.entry = [pool.entry EXCEPT ![e] = Blank]
      /\ pool'.sieve = pool.sieve
  BY Zenon, <1>0, <1>3, TakeProbationFacts
<1>5. /\ fib' \in [Fibers -> Frame] /\ Frames' /\ fib'[f] = x
      /\ \A g \in Fibers \ {f} : fib'[g] = fib[g]
  BY Zenon, <1>2, <1>3, FrameStep
<1>6. TypeOK'
  BY Zenon, <1>0, <1>3, <1>4, <1>5 DEF TypeOK, PoolOK
<1>7. SweepHand'
  BY Zenon, <1>0, <1>4, <1>5, SweepStep
<1>8. \A y \in Entries \ {e} : pool'.entry[y].key = pool.entry[y].key
  BY Zenon, <1>0, <1>4 DEF PoolOK, Pool
<1> QED
  BY Zenon, <1>0, <1>1, <1>2, <1>3, <1>4, <1>5, <1>6, <1>7, <1>8, ObjectAcquired

\* SetFallback acquires e before the reaper runs, SetThreshold nothing yet.
LEMMA CallReaperPreserves ==
    ASSUME IInv, NEW f \in Fibers, NEW r \in Request,
           SetFallback(f, r) \/ SetThreshold(f, r)
    PROVE  IInv'
<1>0. /\ TypeOK /\ PoolOK(pool, Used) /\ fib[f].own = Nil /\ fib[f].pc = "idle"
      /\ prob_pool_max_size > 0
  BY Zenon DEF IInv, Frames, FrameOK, SetFallback, SetThreshold, NewSet, At
<1>1. ASSUME NEW p, NEW e \in Entries \cup {Nil}, NEW U, PoolOK(p, U),
             p.sieve = pool.sieve, CallReaper(f, p, r, e)
      PROVE  /\ PoolOK(pool', U) /\ pool'.entry = p.entry
             /\ TypeOK' /\ Frames' /\ SweepHand' /\ fib'[f].own = e /\ map' = map
             /\ \A g \in Fibers \ {f} : fib'[g] = fib[g]
  <2> DEFINE empty == p.probation.list = <<>>
             pc == IF empty THEN "reaped" ELSE "reap"
             x == [IdleFrame EXCEPT !.pc = pc, !.req = r, !.own = e]
             q == [p EXCEPT !.probation.hand = Begin(p.probation.list)]
  <2>0. pc \in {"reap", "reaped"}
    OBVIOUS
  <2> HIDE DEF pc
  <2>1. x \in Frame /\ FrameOK(x) /\ x.own = e /\ x.pc = pc
    <3>1. <<>> \in Seq(Keys \cup {Nil})
      OBVIOUS
    <3> QED
      BY Zenon, <1>0, <1>1, <2>0, <3>1 DEF IdleFrame, Frame, PC, FrameOK
  <2>2. /\ pool' = IF empty THEN p ELSE q
        /\ fib' = [fib EXCEPT ![f] = x]
        /\ cpu' \in {Nil, f} /\ map' = map /\ now' = now /\ crashed' = crashed
    BY <1>1 DEF CallReaper, Suspend, Hold, pc
  <2>3. PoolOK(q, U)
    BY <1>1, ResetHandFacts
  <2>4. q.entry = p.entry /\ q.sieve = p.sieve
    BY <1>1 DEF PoolOK, Pool
  <2> HIDE DEF q, x, empty
  <2>5. PoolOK(pool', U) /\ pool'.entry = p.entry /\ pool'.sieve = pool.sieve
    BY Zenon, <1>1, <2>2, <2>3, <2>4
  <2>6. /\ fib' \in [Fibers -> Frame] /\ Frames' /\ fib'[f] = x
        /\ \A g \in Fibers \ {f} : fib'[g] = fib[g]
    BY Zenon, <2>1, <2>2, FrameStep
  <2>7. TypeOK'
    BY Zenon, <1>0, <2>2, <2>5, <2>6 DEF TypeOK, PoolOK
  <2>8. SweepHand'
    BY Zenon, <1>0, <2>5, <2>6, SweepStep
  <2> QED
    BY Zenon, <2>1, <2>2, <2>5, <2>6, <2>7, <2>8
<1>2. CASE SetFallback(f, r)
  <2> PICK e \in Entries \ Live : CallReaper(f, TakeFallback(pool, e), r, e)
    BY Zenon, <1>2 DEF SetFallback
  <2> DEFINE p == TakeFallback(pool, e)
  <2>1. e \in Entries \ Used /\ prob_pool_max_size > 0
    BY Zenon, <1>2 DEF SetFallback, Live, Used
  <2>2. /\ PoolOK(p, Used \cup {e}) /\ p.sieve = pool.sieve
        /\ p.entry = [pool.entry EXCEPT ![e] = Blank]
    <3>1. PoolOK(pool, Used) /\ prob_pool_max_size > 0
      BY Zenon, <1>0
    <3> QED
      BY <2>1, <3>1, TakeFallbackFacts
  <2> HIDE DEF p
  <2>3. /\ PoolOK(pool', Used \cup {e}) /\ pool'.entry = p.entry
        /\ TypeOK' /\ Frames' /\ SweepHand' /\ fib'[f].own = e /\ map' = map
        /\ \A g \in Fibers \ {f} : fib'[g] = fib[g]
    BY Zenon, <1>1, <2>2 DEF p
  <2>4. \A y \in Entries \ {e} : pool'.entry[y].key = pool.entry[y].key
    BY Zenon, <1>0, <2>2, <2>3 DEF PoolOK, Pool
  <2> QED
    BY Zenon, <1>0, <2>1, <2>3, <2>4, ObjectAcquired
<1>3. CASE SetThreshold(f, r)
  <2>1. CallReaper(f, pool, r, Nil)
    BY <1>3 DEF SetThreshold
  <2>2. /\ PoolOK(pool', Used) /\ pool'.entry = pool.entry
        /\ TypeOK' /\ Frames' /\ SweepHand' /\ fib'[f].own = Nil /\ map' = map
        /\ \A g \in Fibers \ {f} : fib'[g] = fib[g]
    BY Zenon, <1>0, <1>1, <2>1
  <2> QED
    BY Zenon, <1>0, <2>2, NoneMoved
<1> QED
  BY <1>2, <1>3

\* The reaper unlinks entries; it moves no object.
LEMMA ReapPreserves ==
    ASSUME IInv, NEW f \in Fibers, Reap(f) \/ ReapEnd(f)
    PROVE  IInv'
<1>0. /\ TypeOK /\ PoolOK(pool, Used) /\ fib[f].pc = "reap"
      /\ fib[f] \in Frame /\ FrameOK(fib[f]) /\ fib \in [Fibers -> Frame]
  BY Zenon DEF IInv, Frames, Reap, ReapEnd, At, TypeOK
<1>1. CASE Reap(f) /\ pool.probation.hand = Nil
  <2>1. /\ pool' = pool /\ fib' = fib /\ cpu' = cpu /\ map' = map /\ now' = now
        /\ crashed' = TRUE
    BY <1>1 DEF Reap
  <2>2. TypeOK'
    BY <1>0, <2>1 DEF TypeOK
  <2>3. Frames' /\ SweepHand'
    BY <2>1 DEF IInv, Frames, SweepHand
  <2> QED
    BY <1>0, <2>1, <2>2, <2>3, NoneMoved
<1>2. CASE Reap(f) /\ pool.probation.hand # Nil
  <2> DEFINE v == pool.probation.hand
             x == [fib[f] EXCEPT !.victims = Append(@, pool.entry[v].key), !.n = @ + 1]
  <2>1. /\ v \in Entries /\ pool' = remove_from_probation(pool, v)
        /\ fib' = [fib EXCEPT ![f].victims = Append(@, pool.entry[v].key), ![f].n = @ + 1]
        /\ map' = map /\ now' = now /\ crashed' = crashed /\ cpu' \in {Nil, f}
    BY Zenon, <1>0, <1>2, ReapFacts DEF Reap, MayYield
  <2>2. PoolOK(pool', Used) /\ pool'.entry = pool.entry /\ pool'.sieve = pool.sieve
    BY <1>0, <2>1, RemoveFacts
  <2>3. pool.entry[v].key \in Keys \cup {Nil}
    BY <1>0, <2>1 DEF PoolOK, Pool, Entry
  <2>4. fib' = [fib EXCEPT ![f] = x]
    BY Zenon, <1>0, <2>1 DEF Frame
  <2>5. Append(fib[f].victims, pool.entry[v].key) \in Seq(Keys \cup {Nil})
    <3>1. fib[f].victims \in Seq(Keys \cup {Nil})
      BY Zenon, <1>0 DEF Frame
    <3> QED
      BY Zenon, <2>3, <3>1, AppendProperties
  <2>6. x \in Frame /\ FrameOK(x) /\ x.own = fib[f].own /\ x.pc = "reap"
    <3> DEFINE vs == Append(fib[f].victims, pool.entry[v].key)
    <3>1. x = [fib[f] EXCEPT !.victims = vs, !.n = fib[f].n + 1]
      OBVIOUS
    <3> HIDE DEF vs, x
    <3>2. vs \in Seq(Keys \cup {Nil}) /\ fib[f].n + 1 \in Nat
      <4>1. \A i \in Nat : i + 1 \in Nat
        OBVIOUS
      <4>2. fib[f].n \in Nat
        BY Zenon, <1>0 DEF Frame
      <4> QED
        BY Zenon, <2>5, <4>1, <4>2 DEF vs
    <3>3. /\ x \in Frame /\ x.own = fib[f].own /\ x.pc = fib[f].pc
          /\ x.req = fib[f].req /\ x.back = fib[f].back
      BY Zenon, <1>0, <3>1, <3>2 DEF Frame
    <3> QED
      BY <1>0, <3>3 DEF FrameOK
  <2> HIDE DEF x
  <2>7. /\ fib' \in [Fibers -> Frame] /\ Frames' /\ fib'[f] = x
        /\ \A g \in Fibers \ {f} : fib'[g] = fib[g]
    BY Zenon, <2>4, <2>6, FrameStep
  <2>8. TypeOK'
    BY Zenon, <1>0, <2>1, <2>2, <2>7 DEF TypeOK, PoolOK
  <2>9. SweepHand'
    BY <1>0, <2>2, <2>7, SweepStep
  <2> QED
    BY Zenon, <1>0, <2>1, <2>2, <2>6, <2>7, <2>8, <2>9, NoneMoved
<1>3. CASE ReapEnd(f)
  <2> DEFINE pc == IF fib[f].victims = <<>> THEN "reaped" ELSE "drop"
             x == [fib[f] EXCEPT !.pc = pc, !.n = 0, !.back = "reaped"]
  <2>1. /\ fib' = [fib EXCEPT ![f].pc = pc, ![f].n = 0, ![f].back = "reaped"]
        /\ map' = map /\ pool' = pool /\ now' = now /\ crashed' = crashed
        /\ cpu' \in {Nil, f}
    BY <1>3 DEF ReapEnd, Suspend, Hold
  <2> HIDE DEF pc
  <2>2. pc \in {"reaped", "drop"}
    BY DEF pc
  <2>3. fib' = [fib EXCEPT ![f] = x]
    BY Zenon, <1>0, <2>1 DEF Frame
  <2>4. x \in Frame /\ FrameOK(x) /\ x.own = fib[f].own
    BY Zenon, <1>0, <2>2 DEF Frame, FrameOK, PC
  <2> HIDE DEF x
  <2>5. /\ fib' \in [Fibers -> Frame] /\ Frames' /\ fib'[f] = x
        /\ \A g \in Fibers \ {f} : fib'[g] = fib[g]
    BY Zenon, <2>3, <2>4, FrameStep
  <2>6. TypeOK'
    BY <1>0, <2>1, <2>5 DEF TypeOK
  <2>7. SweepHand'
    BY <1>0, <2>1, <2>5, SweepStep
  <2> QED
    BY <1>0, <2>1, <2>4, <2>5, <2>6, <2>7, NoneMoved
<1> QED
  BY <1>1, <1>2, <1>3

\* The drop loop gives back what the map holds under the victim key, if anything.
LEMMA DropPreserves ==
    ASSUME IInv, NEW f \in Fibers, Drop(f) \/ DropEnd(f)
    PROVE  IInv'
<1>0. /\ TypeOK /\ PoolOK(pool, Used) /\ fib[f].pc = "drop"
      /\ fib[f] \in Frame /\ FrameOK(fib[f]) /\ fib \in [Fibers -> Frame]
      /\ map \in [Keys -> Entries \cup {Nil}]
  BY DEF IInv, Frames, Drop, DropEnd, At, TypeOK
<1>1. CASE Drop(f)
  <2> DEFINE k == Head(fib[f].victims)
             vs == Tail(fib[f].victims)
             n == fib[f].n + 1
             x == [fib[f] EXCEPT !.victims = vs, !.n = n]
  <2>1. /\ fib[f].victims \in Seq(Keys \cup {Nil}) /\ fib[f].victims # <<>>
        /\ fib[f].n \in Nat
    BY <1>0, <1>1 DEF Frame, Drop
  <2>2. k \in Keys \cup {Nil} /\ vs \in Seq(Keys \cup {Nil}) /\ n \in Nat
    BY <2>1
  <2>3. /\ fib' = [fib EXCEPT ![f].victims = vs, ![f].n = n]
        /\ now' = now /\ crashed' = crashed /\ cpu' \in {Nil, f}
        /\ IF k # Nil /\ map[k] # Nil
           THEN pool' = release(pool, map[k]) /\ map' = [map EXCEPT ![k] = Nil]
           ELSE map' = map /\ pool' = pool
    BY <1>0, <1>1 DEF Drop, MayYield
  <2> HIDE DEF k, vs, n
  <2>4. fib' = [fib EXCEPT ![f] = x]
    BY Zenon, <1>0, <2>3 DEF Frame
  <2>5. /\ x \in Frame /\ x.own = fib[f].own /\ x.pc = fib[f].pc
        /\ x.req = fib[f].req /\ x.back = fib[f].back
    BY Zenon, <1>0, <2>2 DEF Frame
  <2>6. FrameOK(x)
    BY <1>0, <2>5 DEF FrameOK
  <2> HIDE DEF x
  <2>7. /\ fib' \in [Fibers -> Frame] /\ Frames' /\ fib'[f] = x
        /\ \A g \in Fibers \ {f} : fib'[g] = fib[g]
    BY Zenon, <2>4, <2>5, <2>6, FrameStep
  <2>8. CASE k # Nil /\ map[k] # Nil
    <3>1. k \in Keys /\ map[k] \in Entries /\ map[k] \in Used
      BY <1>0, <2>2, <2>8 DEF Used, Mapped
    <3>2. /\ PoolOK(pool', Used \ {map[k]})
          /\ pool'.entry = [pool.entry EXCEPT ![map[k]] = Blank]
          /\ HandLost(pool'.sieve) => HandLost(pool.sieve)
      <4> DEFINE e == map[k]
      <4>1. pool' = release(pool, e) /\ e \in Used
        BY <2>3, <2>8, <3>1
      <4> HIDE DEF e
      <4>2. /\ PoolOK(pool', Used \ {e})
            /\ pool'.entry = [pool.entry EXCEPT ![e] = Blank]
            /\ HandLost(pool'.sieve) => HandLost(pool.sieve)
        BY Zenon, <1>0, <4>1, ReleaseFacts
      <4> QED
        BY <4>2 DEF e
    <3>3. TypeOK'
      BY <1>0, <2>3, <2>7, <2>8, <3>1, <3>2 DEF TypeOK, PoolOK
    <3>4. SweepHand'
      BY Zenon, <1>0, <2>7, <3>2, SweepStep
    <3>5. \A y \in Entries \ {map[k]} : pool'.entry[y].key = pool.entry[y].key
      BY Zenon, <1>0, <3>2 DEF PoolOK, Pool
    <3> QED
      BY <2>3, <2>5, <2>7, <2>8, <3>1, <3>2, <3>3, <3>4, <3>5, KeyDropped
  <2>9. CASE ~ (k # Nil /\ map[k] # Nil)
    <3>1. TypeOK'
      BY <1>0, <2>3, <2>7, <2>9 DEF TypeOK
    <3>2. SweepHand'
      BY <1>0, <2>3, <2>7, <2>9, SweepStep
    <3> QED
      BY <1>0, <2>3, <2>5, <2>7, <2>9, <3>1, <3>2, NoneMoved
  <2> QED
    BY Zenon, <2>8, <2>9
<1>2. CASE DropEnd(f)
  <2> DEFINE x == [fib[f] EXCEPT !.pc = fib[f].back, !.n = 0]
  <2>1. /\ fib' = [fib EXCEPT ![f].pc = fib[f].back, ![f].n = 0]
        /\ map' = map /\ pool' = pool /\ now' = now /\ crashed' = crashed
        /\ cpu' = Nil
    BY <1>2 DEF DropEnd, Suspend
  <2>2. fib' = [fib EXCEPT ![f] = x]
    BY Zenon, <1>0, <2>1 DEF Frame
  <2>3. x \in Frame /\ FrameOK(x) /\ x.own = fib[f].own
    BY Zenon, <1>0 DEF Frame, FrameOK, PC
  <2> HIDE DEF x
  <2>4. /\ fib' \in [Fibers -> Frame] /\ Frames' /\ fib'[f] = x
        /\ \A g \in Fibers \ {f} : fib'[g] = fib[g]
    BY Zenon, <2>2, <2>3, FrameStep
  <2>5. TypeOK'
    BY <1>0, <2>1, <2>4 DEF TypeOK
  <2>6. SweepHand'
    BY <1>0, <2>1, <2>4, SweepStep
  <2> QED
    BY <1>0, <2>1, <2>3, <2>4, <2>5, <2>6, NoneMoved
<1> QED
  BY <1>1, <1>2

\* Back from the reaper: the object is there, or taken, or front() is undefined.
LEMMA ReapedPreserves ==
    ASSUME IInv, NEW f \in Fibers, Reaped(f)
    PROVE  IInv'
<1>0. /\ TypeOK /\ PoolOK(pool, Used) /\ fib[f].pc = "reaped"
      /\ fib[f] \in Frame /\ FrameOK(fib[f]) /\ fib \in [Fibers -> Frame]
      /\ cpu' = Nil /\ map' = map /\ now' = now /\ prob_pool_max_size > 0
  BY DEF IInv, Frames, FrameOK, Reaped, At, TypeOK, Suspend
<1>1. CASE fib[f].own # Nil
  <2> DEFINE x == [fib[f] EXCEPT !.pc = "acquired"]
  <2>1. fib' = [fib EXCEPT ![f] = x] /\ pool' = pool /\ crashed' = crashed
    BY <1>0, <1>1 DEF Reaped, Frame
  <2>2. x \in Frame /\ FrameOK(x) /\ x.own = fib[f].own
    BY <1>0, <1>1 DEF Frame, FrameOK, PC
  <2> HIDE DEF x
  <2>3. /\ fib' \in [Fibers -> Frame] /\ Frames' /\ fib'[f] = x
        /\ \A g \in Fibers \ {f} : fib'[g] = fib[g]
    BY Zenon, <2>1, <2>2, FrameStep
  <2>4. TypeOK' /\ SweepHand'
    BY <1>0, <2>1, <2>3, SweepStep DEF TypeOK
  <2> QED
    BY <1>0, <2>1, <2>2, <2>3, <2>4, NoneMoved
<1>2. CASE fib[f].own = Nil /\ pool.free # {}
  <2> PICK e \in pool.free :
           /\ pool' = TakeProbation(pool, e)
           /\ fib' = [fib EXCEPT ![f].pc = "acquired", ![f].own = e]
           /\ crashed' = crashed
    BY <1>2 DEF Reaped
  <2> DEFINE x == [fib[f] EXCEPT !.pc = "acquired", !.own = e]
  <2>1. e \in Entries \ Used /\ e # Nil
    BY <1>0, PoolAssumption DEF PoolOK, Pool, Linked
  <2>2. fib' = [fib EXCEPT ![f] = x]
    BY Zenon, <1>0 DEF Frame
  <2>3. x \in Frame /\ FrameOK(x) /\ x.own = e
    BY Zenon, <1>0, <2>1 DEF Frame, FrameOK, PC
  <2> HIDE DEF x
  <2>4. /\ fib' \in [Fibers -> Frame] /\ Frames' /\ fib'[f] = x
        /\ \A g \in Fibers \ {f} : fib'[g] = fib[g]
    BY Zenon, <2>2, <2>3, FrameStep
  <2>5. /\ PoolOK(pool', Used \cup {e})
        /\ pool'.entry = [pool.entry EXCEPT ![e] = Blank]
        /\ pool'.sieve = pool.sieve
    BY Zenon, <1>0, TakeProbationFacts
  <2>6. TypeOK' /\ SweepHand'
    BY <1>0, <2>4, <2>5, SweepStep DEF TypeOK, PoolOK
  <2>7. \A y \in Entries \ {e} : pool'.entry[y].key = pool.entry[y].key
    BY <1>0, <2>5 DEF PoolOK, Pool
  <2> QED
    BY <1>0, <1>2, <2>1, <2>3, <2>4, <2>5, <2>6, <2>7, ObjectAcquired
<1>3. CASE fib[f].own = Nil /\ pool.free = {}
  <2>1. crashed' = TRUE /\ pool' = pool /\ fib' = fib
    BY <1>3 DEF Reaped
  <2>2. TypeOK' /\ Frames' /\ SweepHand'
    BY <1>0, <2>1 DEF IInv, TypeOK, Frames, SweepHand
  <2> QED
    BY <1>0, <2>1, <2>2, NoneMoved
<1> QED
  BY <1>1, <1>2, <1>3

\* The object a SET has filled or an overwrite has updated: an assignment to
\* key, value, expires_at or visited leaves the pool's bookkeeping alone.
LEMMA WriteFacts ==
    ASSUME NEW p, NEW U, PoolOK(p, U), NEW e \in Entries, NEW b \in Entry,
           b.pool_type = p.entry[e].pool_type
    PROVE  LET q == [p EXCEPT !.entry = [p.entry EXCEPT ![e] = b]]
           IN  /\ PoolOK(q, U) /\ q.sieve = p.sieve /\ q.free = p.free
               /\ q.entry = [p.entry EXCEPT ![e] = b]
               /\ q.entry \in [Entries -> Entry]
<1> DEFINE m == [p.entry EXCEPT ![e] = b]
           q == [p EXCEPT !.entry = m]
<1>1. p \in Pool /\ p.entry \in [Entries -> Entry]
  BY Zenon DEF PoolOK, Pool
<1>2. m \in [Entries -> Entry] /\ \A x \in Entries : m[x].pool_type = p.entry[x].pool_type
  BY <1>1
<1> HIDE DEF m
<1>3. /\ q \in Pool /\ q.free = p.free /\ q.probation = p.probation /\ q.sieve = p.sieve
      /\ q.prob_count = p.prob_count /\ q.sanc_count = p.sanc_count /\ q.entry = m
  BY Zenon, <1>1, <1>2 DEF Pool
<1> HIDE DEF q
<1>4. PoolOK(q, U)
  BY <1>2, <1>3, FieldsFacts
<1> QED
  BY <1>2, <1>3, <1>4 DEF q, m

\* A new key takes the object; a key that is there takes over the value and the
\* object is given back.
LEMMA InsertPreserves ==
    ASSUME IInv, NEW f \in Fibers, Insert(f)
    PROVE  IInv'
<1> DEFINE r == fib[f].req
           e == fib[f].own
           old == map[r.key]
           x == [fib[f] EXCEPT !.pc = "check", !.own = Nil]
           t == IF r.ttl = 0 THEN pool.entry[e].expires_at ELSE now + r.ttl
           b == [pool.entry[e] EXCEPT !.key = r.key, !.value = r.value,
                                      !.expires_at = t]
           p == [pool EXCEPT !.entry = [pool.entry EXCEPT ![e] = b]]
<1>0. /\ TypeOK /\ PoolOK(pool, Used) /\ fib[f].pc = "acquired"
      /\ fib[f] \in Frame /\ FrameOK(fib[f]) /\ fib \in [Fibers -> Frame]
      /\ map \in [Keys -> Entries \cup {Nil}] /\ now \in Nat
      /\ pool \in Pool /\ pool.entry \in [Entries -> Entry]
  BY DEF IInv, Frames, Insert, At, TypeOK, Pool
<1>1. /\ r \in Request /\ e \in Entries /\ e \in Used /\ e # Nil
      /\ e \in Held
  BY <1>0 DEF FrameOK, Frame, Used, Held
<1>2. r.key \in Keys /\ r.value \in Values /\ r.ttl \in Nat
  BY Zenon, <1>1, StoreAssumption DEF Request
<1>3. /\ cpu' = f /\ now' = now /\ crashed' = crashed
      /\ fib' = [fib EXCEPT ![f].pc = "check", ![f].own = Nil]
      /\ IF old = Nil
         THEN map' = [map EXCEPT ![r.key] = e] /\ pool' = Filled(pool, e, r)
         ELSE /\ pool' = release(promote_to_sanctuary(
                             update_from(Filled(pool, e, r), old, e, r.ttl # 0), old), e)
              /\ map' = map
  BY DEF Insert, Hold
<1>4. fib' = [fib EXCEPT ![f] = x]
  BY Zenon, <1>0, <1>3 DEF Frame
<1>5. x \in Frame /\ FrameOK(x) /\ x.own = Nil /\ x.pc = "check"
  BY Zenon, <1>0, <1>1 DEF Frame, FrameOK, PC
<1>6. pool.entry[e].expires_at \in Nat /\ t \in Nat
  <2>1. pool.entry[e].expires_at \in Nat
    BY Zenon, <1>0, <1>1 DEF Entry
  <2>2. now \in Nat
    BY Zenon, <1>0
  <2> HIDE DEF r, e
  <2> QED
    BY <1>2, <2>1, <2>2
<1>7. Filled(pool, e, r) = p
  BY Zenon DEF Filled
<1> HIDE DEF t
<1>8. b \in Entry /\ b.pool_type = pool.entry[e].pool_type /\ b.key = r.key
      /\ b.value = r.value /\ b.expires_at = t
  <2> HIDE DEF r, e
  <2>1. pool.entry[e] \in Entry
    BY Zenon, <1>0, <1>1
  <2> QED
    BY Zenon, <1>2, <1>6, <2>1 DEF Entry
<1> HIDE DEF b, x, r, e
<1>9. /\ PoolOK(p, Used) /\ p.sieve = pool.sieve
      /\ p.entry = [pool.entry EXCEPT ![e] = b] /\ p.entry \in [Entries -> Entry]
  BY <1>0, <1>1, <1>8, WriteFacts
<1> HIDE DEF p
<1>10. /\ fib' \in [Fibers -> Frame] /\ Frames' /\ fib'[f] = x
       /\ \A g \in Fibers \ {f} : fib'[g] = fib[g]
  BY Zenon, <1>4, <1>5, FrameStep
<1>11. CASE old = Nil
  <2>1. map' = [map EXCEPT ![r.key] = e] /\ pool' = p
    BY <1>3, <1>7, <1>11
  <2>2. TypeOK' /\ SweepHand'
    <3>1. TypeOK'
      BY <1>0, <1>1, <1>2, <1>3, <1>9, <1>10, <2>1 DEF TypeOK, PoolOK
    <3>2. SweepHand'
      BY Zenon, <1>0, <1>9, <1>10, <2>1, SweepStep
    <3> QED
      BY <3>1, <3>2
  <2>3. /\ pool'.entry[e].key = r.key
        /\ \A y \in Entries \ {e} : pool'.entry[y].key = pool.entry[y].key
    BY Zenon, <1>0, <1>1, <1>8, <1>9, <2>1
  <2> DEFINE k == r.key
  <2>4. /\ k \in Keys /\ map[k] = Nil /\ map' = [map EXCEPT ![k] = fib[f].own]
        /\ pool'.entry[fib[f].own].key = k
    BY Zenon, <1>2, <1>11, <2>1, <2>3 DEF e
  <2> HIDE DEF k
  <2>5. /\ fib[f].own # Nil /\ fib'[f].own = Nil /\ PoolOK(pool', Used)
        /\ \A g \in Fibers \ {f} : fib'[g].own = fib[g].own
        /\ \A y \in Entries \ {fib[f].own} : pool'.entry[y].key = pool.entry[y].key
    BY Zenon, <1>1, <1>5, <1>9, <1>10, <2>1, <2>3 DEF e
  <2> QED
    BY Zenon, <1>10, <2>2, <2>4, <2>5, ObjectMapped
<1>12. CASE old # Nil
  <2> DEFINE u == p.entry[IF r.ttl # 0 THEN e ELSE old].expires_at
             c == [p.entry[old] EXCEPT !.value = p.entry[e].value, !.expires_at = u]
             q == [p EXCEPT !.entry = [p.entry EXCEPT ![old] = c]]
  <2>1. old \in Entries /\ old \in Mapped /\ old \in Used
    BY <1>0, <1>2, <1>12 DEF Mapped, Used
  <2>2. old # e
    <3>1. Mapped \cap Held = {}
      BY Zenon DEF IInv, OneOwner
    <3>2. e \in Held
      BY Zenon, <1>1 DEF Held
    <3> QED
      BY Zenon, <2>1, <3>1, <3>2
  <2>3. /\ p \in Pool /\ p.entry[e] \in Entry /\ p.entry[old] \in Entry
        /\ p.entry[e].expires_at \in Nat /\ p.entry[old].expires_at \in Nat
        /\ p.entry[e].value \in Values \cup {Nil}
    BY Zenon, <1>1, <1>9, <2>1 DEF PoolOK, Entry
  <2>4. update_from(p, old, e, r.ttl # 0) = q
    BY Zenon DEF update_from
  <2> HIDE DEF old
  <2>5. u \in Nat
    BY <2>3
  <2> HIDE DEF u
  <2>6. c \in Entry /\ c.pool_type = p.entry[old].pool_type /\ c.key = p.entry[old].key
    BY Zenon, <2>3, <2>5 DEF Entry
  <2> HIDE DEF c
  <2>7. /\ PoolOK(q, Used) /\ q.sieve = p.sieve
        /\ q.entry = [p.entry EXCEPT ![old] = c]
    BY <1>9, <2>1, <2>6, WriteFacts
  <2> HIDE DEF q
  <2> DEFINE s == promote_to_sanctuary(q, old)
  <2>8. /\ PoolOK(s, Used) /\ (HandLost(s.sieve) => HandLost(q.sieve))
        /\ \A y \in Entries : s.entry[y].key = q.entry[y].key
    <3> HIDE DEF s
    <3>1. /\ PoolOK(s, Used) /\ s.free = q.free
          /\ \A y \in Entries : /\ s.entry[y].key = q.entry[y].key
                                /\ s.entry[y].value = q.entry[y].value
                                /\ s.entry[y].expires_at = q.entry[y].expires_at
          /\ HandLost(s.sieve) => HandLost(q.sieve)
      BY Zenon, <2>1, <2>7, PromoteFacts DEF s
    <3> QED
      BY <3>1
  <2>9. pool' = release(s, e) /\ map' = map
    BY <1>3, <1>7, <1>12, <2>4 DEF old
  <2> HIDE DEF s
  <2>10. /\ PoolOK(pool', Used \ {e}) /\ (HandLost(pool'.sieve) => HandLost(s.sieve))
         /\ pool'.entry = [s.entry EXCEPT ![e] = Blank]
    BY Zenon, <1>1, <2>8, <2>9, ReleaseFacts
  <2>11. TypeOK'
    BY <1>0, <1>3, <1>10, <2>9, <2>10 DEF TypeOK, PoolOK
  <2>12. SweepHand'
    BY Zenon, <1>0, <1>9, <1>10, <2>7, <2>8, <2>10, SweepStep
  <2>13. s.entry \in [Entries -> Entry]
    BY <2>8 DEF PoolOK, Pool
  <2>14. \A y \in Entries \ {e} : q.entry[y].key = pool.entry[y].key
    BY Zenon, <1>0, <1>9, <2>6, <2>7
  <2>15. \A y \in Entries \ {e} : pool'.entry[y].key = pool.entry[y].key
    BY Zenon, <2>8, <2>10, <2>13, <2>14
  <2> QED
    BY Zenon, <1>1, <1>5, <1>10, <2>9, <2>10, <2>11, <2>12, <2>15, ObjectReturned DEF e
<1> QED
  BY <1>11, <1>12

\* A sweep moves the hand and unlinks victims; it moves no object.
LEMMA SweepPreserves ==
    ASSUME IInv, NEW f \in Fibers,
           Check(f) \/ EvictVictim(f) \/ EvictSkip(f) \/ EvictEnd(f)
    PROVE  IInv'
<1>0. /\ TypeOK /\ PoolOK(pool, Used) /\ HandedList(pool.sieve) /\ pool \in Pool
      /\ fib[f] \in Frame /\ FrameOK(fib[f]) /\ fib \in [Fibers -> Frame]
      /\ now \in Nat /\ pool.entry \in [Entries -> Entry]
      /\ map' = map /\ now' = now /\ crashed' = crashed
  BY Zenon DEF IInv, Frames, Check, EvictVictim, EvictSkip, EvictEnd, TypeOK, PoolOK,
         Linked, Pool
<1>1. ASSUME NEW s, HandedList(s), Range(s.list) \subseteq Range(pool.sieve.list),
             pool' = [pool EXCEPT !.sieve = s]
      PROVE  PoolOK(pool', Used) /\ pool'.entry = pool.entry /\ pool'.sieve = s
  <2>1. pool'.entry = pool.entry /\ pool'.sieve = s
    BY <1>0, <1>1 DEF Pool
  <2> QED
    BY <1>0, <1>1, <2>1, SieveFacts
<1>2. ASSUME NEW x \in Frame, FrameOK(x), fib' = [fib EXCEPT ![f] = x], x.own = fib[f].own,
             PoolOK(pool', Used), pool'.entry = pool.entry, cpu' \in {f, Nil},
             \/ ~ HandLost(pool'.sieve)
             \/ x.pc = "evict"
             \/ fib[f].pc # "evict" /\ pool' = pool
      PROVE  IInv'
  <2>1. /\ fib' \in [Fibers -> Frame] /\ Frames' /\ fib'[f] = x
        /\ \A g \in Fibers \ {f} : fib'[g] = fib[g]
    BY Zenon, <1>2, FrameStep
  <2>2. TypeOK'
    BY Zenon, <1>0, <1>2, <2>1 DEF TypeOK, PoolOK
  <2>3. SweepHand'
    <3>1. CASE ~ HandLost(pool'.sieve) \/ x.pc = "evict"
      BY Zenon, <2>1, <3>1 DEF SweepHand
    <3>2. CASE fib[f].pc # "evict" /\ pool' = pool
      BY Zenon, <2>1, <3>2, SweepStep
    <3> QED
      BY <1>2, <3>1, <3>2
  <2> QED
    BY Zenon, <1>0, <1>2, <2>1, <2>2, <2>3, NoneMoved
<1>3. ASSUME Check(f) PROVE IInv'
  <2>0. fib[f].pc = "check"
    BY <1>3 DEF Check, At
  <2>1. \/ /\ pool' = [pool EXCEPT !.sieve = WrapHand(pool.sieve)]
           /\ fib' = [fib EXCEPT ![f].pc = "evict", ![f].at = now,
                                 ![f].n = 0, ![f].victims = <<>>]
           /\ cpu' = f
        \/ fib' = [fib EXCEPT ![f].pc = "done"] /\ cpu' = Nil /\ pool' = pool
    BY <1>3 DEF Check, Hold, Suspend
  <2>2. CASE fib' = [fib EXCEPT ![f].pc = "done"] /\ cpu' = Nil /\ pool' = pool
    <3> DEFINE x == [fib[f] EXCEPT !.pc = "done"]
    <3>1. x \in Frame /\ FrameOK(x) /\ x.own = fib[f].own /\ fib' = [fib EXCEPT ![f] = x]
      BY Zenon, <1>0, <2>0, <2>2 DEF Frame, FrameOK, PC
    <3> HIDE DEF x
    <3> QED
      BY Zenon, <1>0, <1>2, <2>0, <2>2, <3>1
  <2>3. CASE /\ pool' = [pool EXCEPT !.sieve = WrapHand(pool.sieve)]
             /\ fib' = [fib EXCEPT ![f].pc = "evict", ![f].at = now,
                                   ![f].n = 0, ![f].victims = <<>>]
             /\ cpu' = f
    <3> DEFINE x == [fib[f] EXCEPT !.pc = "evict", !.at = now, !.n = 0, !.victims = <<>>]
               s == WrapHand(pool.sieve)
    <3>1. fib' = [fib EXCEPT ![f] = x]
      BY Zenon, <1>0, <2>3 DEF Frame
    <3>2. <<>> \in Seq(Keys \cup {Nil})
      OBVIOUS
    <3>3. x \in Frame /\ FrameOK(x) /\ x.own = fib[f].own /\ x.pc = "evict"
      BY Zenon, <1>0, <2>0, <3>2 DEF Frame, FrameOK, PC
    <3>4. HandedList(s) /\ Range(s.list) \subseteq Range(pool.sieve.list)
      BY Zenon, <1>0, SweepFacts
    <3> HIDE DEF s, x
    <3>5. PoolOK(pool', Used) /\ pool'.entry = pool.entry
      BY <1>1, <2>3, <3>4 DEF s
    <3> QED
      BY Zenon, <1>2, <2>3, <3>1, <3>3, <3>5
  <2> QED
    BY <2>1, <2>2, <2>3
<1>4. ASSUME EvictVictim(f) PROVE IInv'
  <2> DEFINE s == EvictHand(pool.sieve)
             h == pool.sieve.hand
             n == IF s.list = <<>> THEN fib[f].n ELSE fib[f].n + 1
             vs == Append(fib[f].victims, pool.entry[h].key)
             x == [fib[f] EXCEPT !.n = n, !.victims = vs]
  <2>1. /\ fib[f].pc = "evict" /\ h # Nil /\ pool' = [pool EXCEPT !.sieve = s]
        /\ fib' = [fib EXCEPT ![f].n = n, ![f].victims = vs]
        /\ cpu' \in {f, Nil}
    BY <1>0, <1>4 DEF EvictVictim, Sweeping, At, Hold, MayYield
  <2>2. n \in Nat /\ fib[f].victims \in Seq(Keys \cup {Nil})
    <3>1. fib[f].n \in Nat /\ fib[f].victims \in Seq(Keys \cup {Nil})
      BY Zenon, <1>0 DEF Frame
    <3> HIDE DEF s
    <3> QED
      BY <3>1
  <2>3. pool.entry[h].key \in Keys \cup {Nil}
    BY <1>0, <2>1 DEF HandedList, Entry
  <2>4. vs \in Seq(Keys \cup {Nil})
    BY Zenon, <2>2, <2>3, AppendProperties
  <2>5. HandedList(s) /\ Range(s.list) \subseteq Range(pool.sieve.list)
    BY Zenon, <1>0, <2>1, SweepFacts
  <2> HIDE DEF n, vs, s
  <2>6. fib' = [fib EXCEPT ![f] = x]
    BY Zenon, <1>0, <2>1 DEF Frame
  <2>7. /\ x \in Frame /\ x.own = fib[f].own /\ x.pc = "evict"
        /\ x.req = fib[f].req /\ x.back = fib[f].back
    BY Zenon, <1>0, <2>1, <2>2, <2>4 DEF Frame
  <2>8. FrameOK(x)
    BY <1>0, <2>1, <2>7 DEF FrameOK
  <2> HIDE DEF x
  <2>9. PoolOK(pool', Used) /\ pool'.entry = pool.entry
    BY <1>1, <2>1, <2>5
  <2> QED
    BY Zenon, <1>2, <2>1, <2>6, <2>7, <2>8, <2>9
<1>5. ASSUME EvictSkip(f) PROVE IInv'
  <2> DEFINE s == SkipHand(pool.sieve)
             h == pool.sieve.hand
             b == [pool.entry[h] EXCEPT !.visited = FALSE]
             p == [pool EXCEPT !.sieve = s]
  <2>1. /\ fib[f].pc = "evict" /\ h # Nil /\ fib' = fib /\ cpu' = f
        /\ pool' = [pool EXCEPT !.entry[h].visited = FALSE, !.sieve = s]
    BY <1>5 DEF EvictSkip, Sweeping, At, Hold
  <2>2. h \in Entries /\ pool.entry[h] \in Entry
    BY <1>0, <2>1 DEF HandedList
  <2>3. HandedList(s) /\ Range(s.list) \subseteq Range(pool.sieve.list)
    BY <1>0, <2>1, SweepFacts
  <2> HIDE DEF s, h
  <2>4. b \in Entry /\ b.pool_type = pool.entry[h].pool_type /\ b.key = pool.entry[h].key
    BY Zenon, <2>2 DEF Entry
  <2>5. PoolOK(p, Used)
    BY <1>0, <2>3, SieveFacts
  <2>6. p.entry = pool.entry
    BY <1>0 DEF Pool
  <2>7. pool' = [p EXCEPT !.entry = [p.entry EXCEPT ![h] = b]]
    BY Zenon, <1>0, <2>1, <2>2, <2>6 DEF Pool
  <2> HIDE DEF p, b
  <2>8. PoolOK(pool', Used) /\ pool'.entry = [pool.entry EXCEPT ![h] = b]
    BY <2>2, <2>4, <2>5, <2>6, <2>7, WriteFacts
  <2>9. \A y \in Mapped : pool'.entry[y].key = pool.entry[y].key
    <3>1. Mapped \subseteq Entries
      BY <1>0 DEF Mapped, TypeOK
    <3> QED
      BY Zenon, <1>0, <2>2, <2>4, <2>8, <3>1
  <2>10. TypeOK'
    BY <1>0, <2>1, <2>8 DEF TypeOK, PoolOK
  <2>11. Frames' /\ SweepHand'
    BY <2>1 DEF IInv, Frames, SweepHand
  <2> QED
    BY <1>0, <2>1, <2>8, <2>9, <2>10, <2>11, NoneMoved
<1>6. ASSUME EvictEnd(f) PROVE IInv'
  <2> DEFINE x == [fib[f] EXCEPT !.pc = "drop", !.n = 0, !.at = 0, !.back = "done"]
             s == WrapHand(pool.sieve)
  <2>1. /\ fib[f].pc = "evict" /\ pool' = [pool EXCEPT !.sieve = s] /\ cpu' = Nil
        /\ fib' = [fib EXCEPT ![f].pc = "drop", ![f].n = 0, ![f].at = 0,
                              ![f].back = "done"]
    BY <1>6 DEF EvictEnd, At, Suspend
  <2>2. fib' = [fib EXCEPT ![f] = x]
    BY Zenon, <1>0, <2>1 DEF Frame
  <2>3. x \in Frame /\ FrameOK(x) /\ x.own = fib[f].own
    BY Zenon, <1>0, <2>1 DEF Frame, FrameOK, PC
  <2>4. /\ HandedList(s) /\ Range(s.list) \subseteq Range(pool.sieve.list)
        /\ ~ HandLost(s)
    BY Zenon, <1>0, SweepFacts
  <2> HIDE DEF s, x
  <2>5. PoolOK(pool', Used) /\ pool'.entry = pool.entry /\ pool'.sieve = s
    BY <1>1, <2>1, <2>4
  <2> QED
    BY Zenon, <1>2, <2>1, <2>2, <2>3, <2>4, <2>5
<1> QED
  BY <1>3, <1>4, <1>5, <1>6

\* A GET promotes what it finds, or gives back what has expired.
LEMMA GetPreserves ==
    ASSUME IInv, NEW k \in Keys, GetHit(k) \/ GetExpired(k)
    PROVE  IInv'
<1> DEFINE e == map[k]
<1>0. /\ TypeOK /\ PoolOK(pool, Used) /\ HandedList(pool.sieve) /\ pool \in Pool
      /\ map \in [Keys -> Entries \cup {Nil}] /\ pool.entry \in [Entries -> Entry]
      /\ fib' = fib /\ cpu' = cpu /\ now' = now /\ crashed' = crashed /\ e # Nil
  BY DEF IInv, GetHit, GetExpired, Expired, TypeOK, PoolOK, Linked, Pool
<1>1. e \in Entries /\ e \in Mapped /\ e \in Used
  BY <1>0 DEF Mapped, Used
<1>2. Frames'
  BY <1>0 DEF IInv, Frames
<1>3. ASSUME HandLost(pool'.sieve) => HandLost(pool.sieve) PROVE SweepHand'
  BY <1>0, <1>3 DEF IInv, SweepHand
<1>4. CASE GetHit(k)
  <2> DEFINE p == promote_to_sanctuary(pool, e)
             b == [p.entry[e] EXCEPT !.visited = TRUE]
  <2>1. pool' = [p EXCEPT !.entry[e].visited = TRUE] /\ map' = map
    BY <1>4 DEF GetHit
  <2> HIDE DEF p, e
  <2>2. /\ PoolOK(p, Used) /\ p.free = pool.free
        /\ \A y \in Entries : /\ p.entry[y].key = pool.entry[y].key
                              /\ p.entry[y].value = pool.entry[y].value
                              /\ p.entry[y].expires_at = pool.entry[y].expires_at
        /\ HandLost(p.sieve) => HandLost(pool.sieve)
    BY Zenon, <1>0, <1>1, PromoteFacts DEF p
  <2>3. p \in Pool /\ p.entry \in [Entries -> Entry]
    BY Zenon, <2>2 DEF PoolOK, Pool
  <2>4. b \in Entry /\ b.pool_type = p.entry[e].pool_type /\ b.key = p.entry[e].key
    BY Zenon, <1>1, <2>3 DEF Entry
  <2>5. pool' = [p EXCEPT !.entry = [p.entry EXCEPT ![e] = b]]
    BY <1>1, <2>1, <2>3 DEF Pool
  <2> HIDE DEF b
  <2>6. /\ PoolOK(pool', Used) /\ pool'.sieve = p.sieve
        /\ pool'.entry = [p.entry EXCEPT ![e] = b]
    BY <1>1, <2>2, <2>4, <2>5, WriteFacts
  <2>7. \A y \in Mapped : pool'.entry[y].key = pool.entry[y].key
    <3>1. Mapped \subseteq Entries
      BY <1>0 DEF Mapped
    <3> QED
      BY Zenon, <1>1, <2>2, <2>3, <2>4, <2>6, <3>1
  <2>8. TypeOK'
    BY <1>0, <2>1, <2>6 DEF TypeOK, PoolOK
  <2>9. SweepHand'
    BY <1>3, <2>2, <2>6
  <2> QED
    BY <1>0, <1>2, <2>1, <2>6, <2>7, <2>8, <2>9, NoneMoved
<1>5. CASE GetExpired(k)
  <2> DEFINE s == on_erase(pool.sieve, e)
             p == [pool EXCEPT !.sieve = s]
  <2>1. pool' = release(p, e) /\ map' = [map EXCEPT ![k] = Nil]
    BY <1>5 DEF GetExpired
  <2>2. /\ HandedList(s) /\ Range(s.list) \subseteq Range(pool.sieve.list)
        /\ HandLost(s) => HandLost(pool.sieve)
    BY Zenon, <1>0, OnEraseFacts
  <2> HIDE DEF s
  <2>3. PoolOK(p, Used)
    BY <1>0, <2>2, SieveFacts
  <2>4. p.entry = pool.entry /\ p.sieve = s
    BY <1>0 DEF Pool
  <2> HIDE DEF p, e
  <2>5. /\ PoolOK(pool', Used \ {e}) /\ (HandLost(pool'.sieve) => HandLost(p.sieve))
        /\ pool'.entry = [p.entry EXCEPT ![e] = Blank]
    BY Zenon, <1>1, <2>1, <2>3, ReleaseFacts
  <2>6. TypeOK'
    <3>1. map' \in [Keys -> Entries \cup {Nil}]
      BY Zenon, <1>0, <2>1
    <3> QED
      BY Zenon, <1>0, <2>5, <3>1 DEF TypeOK, PoolOK
  <2>7. SweepHand'
    BY Zenon, <1>3, <2>2, <2>4, <2>5
  <2>8. \A y \in Entries \ {e} : pool'.entry[y].key = pool.entry[y].key
    BY Zenon, <1>0, <2>4, <2>5
  <2> QED
    BY Zenon, <1>0, <1>2, <2>1, <2>5, <2>6, <2>7, <2>8, KeyDropped DEF e
<1> QED
  BY <1>4, <1>5

\* A SET that returns leaves an idle fiber.
LEMMA DonePreserves ==
    ASSUME IInv, NEW f \in Fibers, Done(f)
    PROVE  IInv'
<1>0. /\ TypeOK /\ PoolOK(pool, Used) /\ fib[f].pc = "done" /\ fib[f].own = Nil
      /\ map' = map /\ pool' = pool /\ now' = now /\ crashed' = crashed /\ cpu' = Nil
      /\ fib' = [fib EXCEPT ![f] = IdleFrame]
  BY DEF IInv, Frames, FrameOK, Done, At, Suspend
<1>1. <<>> \in Seq(Keys \cup {Nil})
  OBVIOUS
<1>2. IdleFrame \in Frame /\ FrameOK(IdleFrame) /\ IdleFrame.own = Nil
  BY Zenon, <1>1 DEF IdleFrame, Frame, FrameOK, PC
<1>3. /\ fib' \in [Fibers -> Frame] /\ Frames' /\ fib'[f] = IdleFrame
      /\ \A g \in Fibers \ {f} : fib'[g] = fib[g]
  BY Zenon, <1>0, <1>2, FrameStep
<1>4. TypeOK' /\ SweepHand'
  BY <1>0, <1>3, SweepStep DEF TypeOK
<1> QED
  BY <1>0, <1>2, <1>3, <1>4, NoneMoved

\* Every step preserves the invariant.
LEMMA NextPreserves == IInv /\ [Next]_vars => IInv'
<1> SUFFICES ASSUME IInv, [Next]_vars PROVE IInv'
  OBVIOUS
<1>1. ASSUME NEW f \in Fibers, NEW r \in Request,
             \/ SetDirect(f, r) \/ SetFallback(f, r)
             \/ SetThreshold(f, r) \/ SetPooled(f, r)
      PROVE  IInv'
  BY <1>1, SetDirectPreserves, CallReaperPreserves, SetPooledPreserves
<1>2. ASSUME NEW f \in Fibers, Step(f) PROVE IInv'
  BY <1>2, ReapPreserves, DropPreserves, ReapedPreserves, InsertPreserves,
     SweepPreserves, DonePreserves DEF Step
<1>3. ASSUME NEW k \in Keys, GetHit(k) \/ GetExpired(k) PROVE IInv'
  BY <1>3, GetPreserves
<1>4. ASSUME Tick \/ UNCHANGED vars PROVE IInv'
  <2>1. /\ map' = map /\ pool' = pool /\ fib' = fib /\ cpu' = cpu
        /\ crashed' = crashed /\ now' \in Nat
    BY <1>4 DEF Tick, vars, IInv, TypeOK
  <2>2. TypeOK' /\ Frames' /\ SweepHand' /\ PoolOK(pool, Used)
    BY <2>1 DEF IInv, TypeOK, Frames, SweepHand
  <2> QED
    BY <2>1, <2>2, NoneMoved
<1> QED
  BY <1>1, <1>2, <1>3, <1>4 DEF Next, Start

\* The invariant holds for any number of keys, objects and fibers, and for every
\* budget, threshold and yield interval.
LEMMA StoreInvariant == Spec => []IInv
  BY InitEstablishes, NextPreserves, PTL DEF Spec

\* set, set_with_ttl, get and the two evictions keep the types; in particular no
\* unsigned counter of the pool goes below zero.
THEOREM StoreTypes == Spec => []TypeOK
  BY StoreInvariant, IInvImplies, PTL

\* unique_ptr ownership: whatever the interleaving of SETs, reaper, sweeps and GETs,
\* an entry object is in the pool, in the map or in one SET, never in two places.
THEOREM StoreOneOwner == Spec => []OneOwner
  BY StoreInvariant, IInvImplies, PTL

\* The key stored in an entry is the key the map has it under, so that the drop
\* loops extract the entry they mean.
THEOREM StoreKeysAgree == Spec => []KeysAgree
  BY StoreInvariant, IInvImplies, PTL

\* The probation list and the sieve link owned objects only, each of its own
\* pool_type: no recycled object is reachable.
THEOREM StoreListsSound == Spec => []ListsSound
  BY StoreInvariant, IInvImplies, PTL

\* hand_ and the reaper's hand survive the unlinking of their entry by another
\* fiber, and outside a sweep the sieve's hand is lost only with the last entry.
THEOREM StoreHandsSound == Spec => []HandsSound
  BY StoreInvariant, IInvImplies, PTL

\* sanc_count_ counts the sanctuary exactly and prob_count_ never falls below the
\* length of the probation list, so neither decrement wraps around.
THEOREM StoreCountsSound == Spec => []CountsSound
  BY StoreInvariant, IInvImplies, PTL

\* The pool never holds more than max_size_ objects and release leaks none.
THEOREM StoreSlotsConserved == Spec => []SlotsConserved
  BY StoreInvariant, IInvImplies, PTL
=============================================================================
