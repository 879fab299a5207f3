----------------------------- MODULE ObjectPool -----------------------------
(***************************************************************************)
(* CacheEntryPool (src/pool/object_pool): a fixed number of entry objects,  *)
(* handed out to SETs and taken back on eviction, expiry or overwrite.      *)
(* The state is a record p:                                                 *)
(*   entry      the fields of every entry object                            *)
(*   free       pool_, the objects ready to be handed out.  All of them are *)
(*              reset, so their order in the queue cannot be observed.      *)
(*   probation  probation_list_ and probation_hand_                         *)
(*   sieve      the SievePolicy the pool was given by init                  *)
(*   prob_count, sanc_count   the two occupancy counters                    *)
(* The fields ver, heat and last_access of an entry are never read.         *)
(***************************************************************************)
EXTENDS SievePolicy, FiniteSets

CONSTANTS Entries,       \* entry objects, pooled ones and heap fallbacks
          Keys, Values,
          MaxSize,       \* max_size_
          ProbPercent,   \* pool.prob_pool_size_percent * 100
          ProbTrigger    \* ev_config.prob_evict_.trigger * 100

ASSUME PoolAssumption ==
    /\ IsFiniteSet(Entries)
    /\ MaxSize \in Nat /\ ProbPercent \in Nat /\ ProbTrigger \in Nat
    /\ Nil \notin Entries \cup Keys \cup Values

prob_pool_max_size == (ProbPercent * MaxSize) \div 100
prob_threshold     == (ProbTrigger * prob_pool_max_size) \div 100

PoolTypes == {"Probation", "Sanctuary"}

Entry == [key : Keys \cup {Nil}, value : Values \cup {Nil}, expires_at : Nat,
          visited : BOOLEAN, pool_type : PoolTypes]

\* A new Entry, and what release resets one to.
Blank == [key |-> Nil, value |-> Nil, expires_at |-> 0,
          visited |-> FALSE, pool_type |-> "Probation"]

Pool == [entry : [Entries -> Entry], free : SUBSET Entries,
         probation : [list : Seq(Entries), hand : Entries \cup {Nil}],
         sieve : [list : Seq(Entries), hand : Entries \cup {Nil}],
         prob_count : Nat, sanc_count : Nat]

Sanctuary(p, e) == p.entry[e].pool_type = "Sanctuary"

\* init and prepopulate_pool: max_size_ objects in the pool, empty lists.
PoolInit(p) ==
    \E s \in SUBSET Entries :
        /\ Cardinality(s) = MaxSize
        /\ p = [entry |-> [e \in Entries |-> Blank], free |-> s,
                probation |-> [list |-> <<>>, hand |-> Nil],
                sieve |-> [list |-> <<>>, hand |-> Nil],
                prob_count |-> 0, sanc_count |-> 0]

get_used_slots(p) == MaxSize - Cardinality(p.free)

-----------------------------------------------------------------------------
(* Mutants. *)

\* promote_to_sanctuary does not stop at an entry that is already there.
PromoteTwice(p, e) ==
    [p EXCEPT !.sieve = on_insert(p.sieve, e), !.sanc_count = @ + 1,
              !.entry[e].visited = TRUE, !.entry[e].pool_type = "Sanctuary"]

\* do_prob_release recycles the entry without unlinking it.
ReleaseLinked(p, e) ==
    [p EXCEPT !.entry[e] = Blank,
              !.free = IF Cardinality(@) < MaxSize THEN @ \cup {e} ELSE @]

\* DropSanctuary counts the entry out but leaves it on the sieve's list.
DropLinked(p, e) == [p EXCEPT !.sanc_count = IF @ > 0 THEN @ - 1 ELSE @]

\* The object is destroyed although the pool has room for it.
RecycleNever(p, e) ==
    [p EXCEPT !.entry[e] = Blank,
              !.free = IF Cardinality(@) + 1 < MaxSize THEN @ \cup {e} ELSE @]

-----------------------------------------------------------------------------
\* on_insert with the fields of the entry it sets.
Admit(p, e) ==
    IF IsLinked(p.sieve.list, e) THEN p
    ELSE [p EXCEPT !.sieve = on_insert(p.sieve, e),
                   !.entry[e].visited = TRUE, !.entry[e].pool_type = "Sanctuary"]

remove_from_probation(p, e) ==
    IF ~ IsLinked(p.probation.list, e) THEN p
    ELSE LET l == Erase(p.probation.list, e)
             h == IF p.probation.hand = e THEN NextWrapped(p.probation.list, e)
                  ELSE p.probation.hand
         IN  [p EXCEPT !.probation = [list |-> l,
                                      hand |-> IF l = <<>> THEN Nil ELSE h],
                       !.prob_count = IF @ > 0 THEN @ - 1 ELSE @]

promote_to_sanctuary(p, e) ==
    IF Sanctuary(p, e) THEN p
    ELSE [Admit(remove_from_probation(p, e), e) EXCEPT !.sanc_count = @ + 1]

\* The pop_front of do_acquire and do_prob_acquire, or the heap allocation when
\* e is not in the pool.
TakeObject(p, e) == [p EXCEPT !.free = @ \ {e}, !.entry[e] = Blank]

\* do_acquire, used when there is no probationary pool.
do_acquire(p, e) == [Admit(TakeObject(p, e), e) EXCEPT !.sanc_count = @ + 1]

\* do_prob_acquire, a pooled object: it is linked into the probation list.
TakeProbation(p, e) ==
    [TakeObject(p, e) EXCEPT !.prob_count = @ + 1,
                             !.probation.list = Append(@, e)]

\* do_prob_acquire, the fallback: counted, but on no list.
TakeFallback(p, e) == [TakeObject(p, e) EXCEPT !.prob_count = @ + 1]

\* The tail of both releases: reset the fields, pool the object or destroy it.
Recycle(p, e) ==
    [p EXCEPT !.entry[e] = Blank,
              !.free = IF Cardinality(@) < MaxSize THEN @ \cup {e} ELSE @]

DropSanctuary(p, e) ==
    [p EXCEPT !.sieve = on_erase(p.sieve, e),
              !.sanc_count = IF @ > 0 THEN @ - 1 ELSE @]

do_release(p, e) == Recycle(DropSanctuary(p, e), e)

\* Mutant: every release is counted out of the sanctuary.
ReleaseMiscounts(p, e) ==
    Recycle([remove_from_probation(p, e) EXCEPT !.sieve = on_erase(@, e),
                                                !.sanc_count = @ - 1], e)

do_prob_release(p, e) ==
    Recycle(IF Sanctuary(p, e) THEN DropSanctuary(p, e)
            ELSE remove_from_probation(p, e), e)

release(p, e) ==
    IF prob_pool_max_size = 0 THEN do_release(p, e) ELSE do_prob_release(p, e)

\* One pass of run_sequential_reaper's loop: unlink the entry under the hand.
ReapOne(p) ==
    LET v == p.probation.hand
        l == Erase(p.probation.list, v)
    IN  [p EXCEPT !.probation =
                      [list |-> l, hand |-> IF l = <<>> THEN Nil
                                            ELSE NextWrapped(p.probation.list, v)],
                  !.prob_count = @ - 1]
=============================================================================
