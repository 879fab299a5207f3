------------------------------- MODULE KvStore -------------------------------
(***************************************************************************)
(* One shard's store (src/kv_store.cc) over its entry pool and its sieve.   *)
(*                                                                          *)
(* Requests run as fibers on the shard's single reactor thread.  A fiber    *)
(* keeps the thread (cpu = f) until a co_await that may suspend, where the  *)
(* step sets cpu to Nil and any fiber may go on, the same one included.     *)
(* Every co_await may suspend: the awaited future is pending, or the        *)
(* reactor asks for preemption.  An action is the code a fiber runs between *)
(* two such points, or one pass of a loop while it keeps the thread.        *)
(*                                                                          *)
(* GET never waits, so it is a single step and needs no fiber.              *)
(***************************************************************************)
EXTENDS ObjectPool

CONSTANTS Fibers,
          TTLs,          \* ttl of SET: 0 is a plain SET, the others EX seconds
          ReaperBudget,  \* reaper_budget_
          SieveBudget,   \* evictParams.budget
          SoftPercent,   \* ev_config.soft_.trigger * 100
          YieldEvery,    \* loops call maybe_yield every so many passes (1000)
          MaxNow,        \* bound: the clock stops here
          MaxProbCount   \* bound: no fallback allocation beyond this count

Request == [key : Keys, value : Values, ttl : TTLs]

ASSUME StoreAssumption ==
    /\ Nil \notin Fibers /\ Nil \notin Request
    /\ Nil \notin [value : Values \cup {Nil}, expires_at : Nat]
    /\ TTLs \subseteq Nat
    /\ ReaperBudget \in Nat /\ SieveBudget \in Nat /\ SoftPercent \in Nat
    /\ YieldEvery \in Nat \ {0} /\ MaxNow \in Nat /\ MaxProbCount \in Nat

VARIABLES map,      \* _map: the entry of each key, Nil when absent
          pool,     \* entry_pool_ and sieve_policy_, see ObjectPool
          fib,      \* the coroutine frame of each SET in progress
          cpu,      \* the fiber that holds the reactor thread, or Nil
          now,      \* now_s()
          crashed   \* a fiber called front() on the empty pool_: undefined

vars == <<map, pool, fib, cpu, now, crashed>>

PC == {"idle", "reap", "reaped", "drop", "acquired", "check", "evict", "done"}

(* A frame: where the fiber is, its request, the entry object it holds       *)
(* (pooled_entry), the victim keys collected so far, the loop counter, the   *)
(* `now' evict was called with, and where the drop loop returns to.          *)
Frame == [pc : PC, req : Request \cup {Nil}, own : Entries \cup {Nil},
          victims : Seq(Keys \cup {Nil}), n : Nat, at : Nat,
          back : {"reaped", "done"}]

IdleFrame == [pc |-> "idle", req |-> Nil, own |-> Nil, victims |-> <<>>,
              n |-> 0, at |-> 0, back |-> "reaped"]

Mapped == {map[k] : k \in Keys} \ {Nil}
Held   == {fib[f].own : f \in Fibers} \ {Nil}
Live   == pool.free \cup Mapped \cup Held

Init ==
    /\ map = [k \in Keys |-> Nil]
    /\ PoolInit(pool)
    /\ fib = [f \in Fibers |-> IdleFrame]
    /\ cpu = Nil
    /\ now = 0
    /\ crashed = FALSE

\* Fiber f is at pc and may run: it has the thread, or nobody has.
At(f, pc) ==
    /\ ~ crashed
    /\ cpu \in {f, Nil}
    /\ fib[f].pc = pc

\* A co_await that may suspend, and a step inside a segment.
Suspend == cpu' = Nil
Hold(f) == cpu' = f
MayYield(f, n) == cpu' = IF n % YieldEvery = 0 THEN Nil ELSE f

-----------------------------------------------------------------------------
(* store::set and store::set_with_ttl up to the end of acquire.              *)

\* The frame of a new SET that goes on to run_sequential_reaper, which resets
\* the hand and loops, or returns at once when the list is empty.
CallReaper(f, p, r, e) ==
    LET empty == p.probation.list = <<>>
    IN  /\ pool' = IF empty THEN p
                   ELSE [p EXCEPT !.probation.hand = Begin(p.probation.list)]
        /\ fib' = [fib EXCEPT ![f] = [IdleFrame EXCEPT
                       !.pc = IF empty THEN "reaped" ELSE "reap",
                       !.req = r, !.own = e]]
        /\ IF empty THEN Suspend ELSE Hold(f)
        /\ UNCHANGED <<map, now, crashed>>

Acquired(f, p, r, e) ==
    /\ pool' = p
    /\ fib' = [fib EXCEPT ![f] = [IdleFrame EXCEPT !.pc = "acquired",
                                                   !.req = r, !.own = e]]
    /\ Suspend
    /\ UNCHANGED <<map, now, crashed>>

NewSet(f) == At(f, "idle") /\ cpu = Nil

\* No probationary pool: do_acquire, from the pool or from the heap.
SetDirect(f, r) ==
    /\ NewSet(f)
    /\ prob_pool_max_size = 0
    /\ \E e \in IF pool.free # {} THEN pool.free ELSE Entries \ Live :
           Acquired(f, do_acquire(pool, e), r, e)

\* do_prob_acquire with an empty pool: a heap object, then the reaper.
SetFallback(f, r) ==
    /\ NewSet(f)
    /\ prob_pool_max_size > 0
    /\ pool.free = {}
    /\ pool.prob_count < MaxProbCount
    /\ \E e \in Entries \ Live : CallReaper(f, TakeFallback(pool, e), r, e)

\* do_prob_acquire at the threshold: the reaper first, the object after it.
SetThreshold(f, r) ==
    /\ NewSet(f)
    /\ prob_pool_max_size > 0
    /\ pool.free # {}
    /\ pool.prob_count >= prob_threshold
    /\ CallReaper(f, pool, r, Nil)

SetPooled(f, r) ==
    /\ NewSet(f)
    /\ prob_pool_max_size > 0
    /\ pool.prob_count < prob_threshold
    /\ \E e \in pool.free : Acquired(f, TakeProbation(pool, e), r, e)

-----------------------------------------------------------------------------
(* run_sequential_reaper and the eviction callback of store::start.          *)

\* One pass of the reaper's loop.
Reap(f) ==
    /\ At(f, "reap")
    /\ fib[f].n < ReaperBudget
    /\ pool.probation.list # <<>>
    /\ LET v == pool.probation.hand
       IN  IF v = Nil
           THEN \* end() is dereferenced
                crashed' = TRUE /\ UNCHANGED <<pool, fib, cpu>>
           ELSE /\ pool' = ReapOne(pool)
                /\ fib' = [fib EXCEPT
                       ![f].victims = Append(@, pool.entry[v].key),
                       ![f].n = @ + 1]
                /\ MayYield(f, fib[f].n + 1)
                /\ UNCHANGED crashed
    /\ UNCHANGED <<map, now>>

\* The loop ends; the callback is called when there are victims.
ReapEnd(f) ==
    /\ At(f, "reap")
    /\ fib[f].n >= ReaperBudget \/ pool.probation.list = <<>>
    /\ LET none == fib[f].victims = <<>>
       IN  /\ fib' = [fib EXCEPT ![f].pc = IF none THEN "reaped" ELSE "drop",
                                 ![f].n = 0, ![f].back = "reaped"]
           /\ IF none THEN Suspend ELSE Hold(f)
    /\ UNCHANGED <<map, pool, now, crashed>>

\* Mutant: the object found under the key is recycled, the map keeps it.
DropKeepsMap(f) ==
    /\ At(f, "drop")
    /\ fib[f].victims # <<>>
    /\ LET k == Head(fib[f].victims)
       IN  IF k # Nil /\ map[k] # Nil
           THEN pool' = release(pool, map[k]) /\ UNCHANGED map
           ELSE UNCHANGED <<map, pool>>
    /\ fib' = [fib EXCEPT ![f].victims = Tail(@), ![f].n = @ + 1]
    /\ MayYield(f, fib[f].n + 1)
    /\ UNCHANGED <<now, crashed>>

\* Mutant: the loop goes on to the next victim only after it dropped one.
DropRetries(f) ==
    /\ At(f, "drop")
    /\ fib[f].victims # <<>>
    /\ LET k == Head(fib[f].victims)
       IN  IF k # Nil /\ map[k] # Nil
           THEN /\ pool' = release(pool, map[k]) /\ map' = [map EXCEPT ![k] = Nil]
                /\ fib' = [fib EXCEPT ![f].victims = Tail(@), ![f].n = @ + 1]
           ELSE UNCHANGED <<map, pool, fib>>
    /\ MayYield(f, fib[f].n + 1)
    /\ UNCHANGED <<now, crashed>>

\* One victim key of the callback's loop, or of check_memory_and_evict's: the
\* entry the map holds under that key NOW is extracted and released.
Drop(f) ==
    /\ At(f, "drop")
    /\ fib[f].victims # <<>>
    /\ LET k == Head(fib[f].victims)
       IN  IF k # Nil /\ map[k] # Nil
           THEN pool' = release(pool, map[k]) /\ map' = [map EXCEPT ![k] = Nil]
           ELSE UNCHANGED <<map, pool>>
    /\ fib' = [fib EXCEPT ![f].victims = Tail(@), ![f].n = @ + 1]
    /\ MayYield(f, fib[f].n + 1)
    /\ UNCHANGED <<now, crashed>>

DropEnd(f) ==
    /\ At(f, "drop")
    /\ fib[f].victims = <<>>
    /\ fib' = [fib EXCEPT ![f].pc = fib[f].back, ![f].n = 0]
    /\ Suspend
    /\ UNCHANGED <<map, pool, now, crashed>>

\* Back in do_prob_acquire.  The fallback holds its object already; the
\* threshold path takes pool_.front() without looking at the pool again.
Reaped(f) ==
    /\ At(f, "reaped")
    /\ \/ /\ fib[f].own # Nil
          /\ fib' = [fib EXCEPT ![f].pc = "acquired"]
          /\ UNCHANGED <<pool, crashed>>
       \/ /\ fib[f].own = Nil /\ pool.free # {}
          /\ \E e \in pool.free :
                 /\ pool' = TakeProbation(pool, e)
                 /\ fib' = [fib EXCEPT ![f].pc = "acquired", ![f].own = e]
          /\ UNCHANGED crashed
       \/ /\ fib[f].own = Nil /\ pool.free = {}
          /\ crashed' = TRUE
          /\ UNCHANGED <<pool, fib>>
    /\ Suspend
    /\ UNCHANGED <<map, now>>

-----------------------------------------------------------------------------
(* The rest of set and set_with_ttl, and check_memory_and_evict.             *)

\* The fields set writes into the object it acquired.
Filled(p, e, r) ==
    [p EXCEPT !.entry[e] =
        [@ EXCEPT !.key = r.key, !.value = r.value,
                  !.expires_at = IF r.ttl = 0 THEN p.entry[e].expires_at ELSE now + r.ttl]]

\* Entry::update_from(new, update_ttl).
update_from(p, old, new, update_ttl) ==
    [p EXCEPT !.entry[old] =
        [@ EXCEPT !.value = p.entry[new].value,
                  !.expires_at = p.entry[IF update_ttl THEN new ELSE old].expires_at]]

\* Mutant: a SET that finds the key taken keeps the old value.
InsertKeepsOld(f) ==
    LET r == fib[f].req
        e == fib[f].own
        p == Filled(pool, e, r)
    IN  /\ At(f, "acquired")
        /\ IF map[r.key] = Nil
           THEN map' = [map EXCEPT ![r.key] = e] /\ pool' = p
           ELSE /\ pool' = release(promote_to_sanctuary(p, map[r.key]), e)
                /\ UNCHANGED map
        /\ fib' = [fib EXCEPT ![f].pc = "check", ![f].own = Nil]
        /\ Hold(f)
        /\ UNCHANGED <<now, crashed>>

\* Fill the object and try_emplace it; when the key is there, the old entry
\* takes the value over, is promoted, and the new object goes back.
Insert(f) ==
    LET r == fib[f].req
        e == fib[f].own
        p == Filled(pool, e, r)
        old == map[r.key]
    IN  /\ At(f, "acquired")
        /\ IF old = Nil
           THEN map' = [map EXCEPT ![r.key] = e] /\ pool' = p
           ELSE /\ pool' = release(promote_to_sanctuary(
                               update_from(p, old, e, r.ttl # 0), old), e)
                /\ UNCHANGED map
        /\ fib' = [fib EXCEPT ![f].pc = "check", ![f].own = Nil]
        /\ Hold(f)
        /\ UNCHANGED <<now, crashed>>

OverTrigger == get_used_slots(pool) * 100 >= SoftPercent * MaxSize

\* check_memory_and_evict up to the loop of SievePolicy::evict.
Check(f) ==
    /\ At(f, "check")
    /\ LET sweep == MaxSize # 0 /\ OverTrigger
       IN  IF sweep /\ pool.sieve.list # <<>>
           THEN /\ pool' = [pool EXCEPT !.sieve = WrapHand(@)]
                /\ fib' = [fib EXCEPT ![f].pc = "evict", ![f].at = now,
                               ![f].n = 0, ![f].victims = <<>>]
                /\ Hold(f)
           ELSE /\ fib' = [fib EXCEPT ![f].pc = "done"]
                /\ Suspend
                /\ UNCHANGED pool
    /\ UNCHANGED <<map, now, crashed>>

Sweeping(f) ==
    /\ At(f, "evict")
    /\ fib[f].n < SieveBudget
    /\ pool.sieve.hand # Nil

IsVictim(f) ==
    LET c == pool.entry[pool.sieve.hand]
    IN  is_expired(fib[f].at, c.expires_at) \/ ~ c.visited

\* One pass of the loop of SievePolicy::evict: an expired or unvisited entry is
\* unlinked and its key collected.  When that empties the list the loop breaks
\* before it counts and before it may yield.
EvictVictim(f) ==
    /\ Sweeping(f)
    /\ IsVictim(f)
    /\ LET s == EvictHand(pool.sieve)
           n == IF s.list = <<>> THEN fib[f].n ELSE fib[f].n + 1
       IN  /\ pool' = [pool EXCEPT !.sieve = s]
           /\ fib' = [fib EXCEPT ![f].n = n,
                          ![f].victims = Append(@, pool.entry[pool.sieve.hand].key)]
           /\ IF s.list = <<>> THEN Hold(f) ELSE MayYield(f, n)
    /\ UNCHANGED <<map, now, crashed>>

\* A visited entry gets its second chance.
EvictSkip(f) ==
    /\ Sweeping(f)
    /\ ~ IsVictim(f)
    /\ pool' = [pool EXCEPT !.entry[pool.sieve.hand].visited = FALSE,
                            !.sieve = SkipHand(@)]
    /\ Hold(f)
    /\ UNCHANGED <<map, fib, now, crashed>>

\* The loop ends and evict returns its victims through a co_await.
EvictEnd(f) ==
    /\ At(f, "evict")
    /\ fib[f].n >= SieveBudget \/ pool.sieve.hand = Nil
    /\ pool' = [pool EXCEPT !.sieve = WrapHand(@)]
    /\ fib' = [fib EXCEPT ![f].pc = "drop", ![f].n = 0, ![f].at = 0,
                          ![f].back = "done"]
    /\ Suspend
    /\ UNCHANGED <<map, now, crashed>>

\* set returns true to its caller.
Done(f) ==
    /\ At(f, "done")
    /\ fib' = [fib EXCEPT ![f] = IdleFrame]
    /\ Suspend
    /\ UNCHANGED <<map, pool, now, crashed>>

-----------------------------------------------------------------------------
(* store::get.                                                               *)

Expired(k) == map[k] # Nil /\ is_expired(now, pool.entry[map[k]].expires_at)

\* The key is there and alive: promote it and mark it visited.
GetHit(k) ==
    /\ ~ crashed /\ cpu = Nil
    /\ map[k] # Nil
    /\ ~ Expired(k)
    /\ pool' = [promote_to_sanctuary(pool, map[k])
                   EXCEPT !.entry[map[k]].visited = TRUE]
    /\ UNCHANGED <<map, fib, cpu, now, crashed>>

\* The key has expired: it is removed and reported missing.
GetExpired(k) ==
    /\ ~ crashed /\ cpu = Nil
    /\ Expired(k)
    /\ map' = [map EXCEPT ![k] = Nil]
    /\ pool' = release([pool EXCEPT !.sieve = on_erase(@, map[k])], map[k])
    /\ UNCHANGED <<fib, cpu, now, crashed>>

Tick ==
    /\ now < MaxNow
    /\ now' = now + 1
    /\ UNCHANGED <<map, pool, fib, cpu, crashed>>

-----------------------------------------------------------------------------
Start(f) == \E r \in Request : SetDirect(f, r) \/ SetFallback(f, r)
                               \/ SetThreshold(f, r) \/ SetPooled(f, r)

Step(f) ==
    \/ Reap(f) \/ ReapEnd(f) \/ Drop(f) \/ DropEnd(f) \/ Reaped(f)
    \/ Insert(f) \/ Check(f) \/ EvictVictim(f) \/ EvictSkip(f) \/ EvictEnd(f)
    \/ Done(f)

Next ==
    \/ \E f \in Fibers : Start(f) \/ Step(f)
    \/ \E k \in Keys : GetHit(k) \/ GetExpired(k)
    \/ Tick

Spec == Init /\ [][Next]_vars

\* The reactor's run queue is a FIFO: a fiber that is ready again and again is
\* run.  A fiber is not ready while another one holds the thread, hence SF.
FairSpec == Spec /\ \A f \in Fibers : SF_vars(Step(f))

-----------------------------------------------------------------------------
(* Properties.                                                               *)

\* Every variable has the type the code gives it; in particular the unsigned
\* counters never go below zero.
TypeOK ==
    /\ map \in [Keys -> Entries \cup {Nil}]
    /\ pool \in Pool
    /\ fib \in [Fibers -> Frame]
    /\ cpu \in Fibers \cup {Nil}
    /\ now \in Nat
    /\ crashed \in BOOLEAN

\* std::unique_ptr ownership: an entry object is in the pool, or under one key
\* of the map, or held by one fiber, never in two of these places.
OneOwner ==
    /\ \A j, k \in Keys : map[j] = map[k] /\ map[j] # Nil => j = k
    /\ \A f, g \in Fibers : fib[f].own = fib[g].own /\ fib[f].own # Nil => f = g
    /\ Mapped \cap Held = {}
    /\ pool.free \cap (Mapped \cup Held) = {}

\* Eviction finds an entry again by the key stored in it: the entry under k
\* carries the key k, whatever fibers overwrote, evicted or recycled meanwhile.
KeysAgree == \A k \in Keys : map[k] # Nil => pool.entry[map[k]].key = k

\* An entry is linked at most once, into the list of its pool_type, and only
\* while it is owned: no list reaches a recycled or a destroyed object.
ListsSound ==
    /\ IsInjective(pool.probation.list) /\ IsInjective(pool.sieve.list)
    /\ \A e \in Range(pool.probation.list) :
           e \in Mapped \cup Held /\ ~ Sanctuary(pool, e)
    /\ \A e \in Range(pool.sieve.list) :
           e \in Mapped \cup Held /\ Sanctuary(pool, e)

\* The hands stay inside their lists under concurrent unlinking, and the sieve
\* hand is lost to end() only while a sweep is under way or the list is empty.
HandsSound ==
    /\ pool.probation.hand \in Range(pool.probation.list) \cup {Nil}
    /\ pool.sieve.hand \in Range(pool.sieve.list) \cup {Nil}
    /\ pool.sieve.hand = Nil =>
           pool.sieve.list = <<>> \/ \E f \in Fibers : fib[f].pc = "evict"

\* sanc_count_ is the number of live sanctuary entries, the ones an evict has
\* unlinked but not yet dropped included; prob_count_ covers the probation
\* list, so the reaper's unchecked decrement cannot wrap around.
CountsSound ==
    /\ pool.sanc_count = Cardinality({e \in Mapped \cup Held : Sanctuary(pool, e)})
    /\ pool.prob_count >= Len(pool.probation.list)

\* The pool never holds more than max_size_ objects (get_used_slots does not
\* wrap around), and no object is lost: a release destroys one only when the
\* pool is full.
SlotsConserved ==
    /\ Cardinality(pool.free) <= MaxSize
    /\ Cardinality(Live) >= MaxSize

\* What the shard promises: see ShardCache.  A SET has taken effect once its
\* fiber is past try_emplace.
View(k) ==
    IF map[k] = Nil THEN Nil
    ELSE [value |-> pool.entry[map[k]].value,
          expires_at |-> pool.entry[map[k]].expires_at]

InEffect(f) ==
    \/ fib[f].pc \in {"check", "evict", "done"}
    \/ fib[f].pc = "drop" /\ fib[f].back = "done"

Abstract == INSTANCE ShardCache
    WITH table <- [k \in Keys |-> View(k)],
         call <- [f \in Fibers |-> fib[f].req],
         applied <- [f \in Fibers |-> InEffect(f)]

\* The store implements ShardCache: whatever the interleaving of acquiring,
\* reaping, sweeping and recycling, a key shows the value of a SET of that key
\* or nothing, and a SET that returned took effect exactly once.
ImplementsCache == Abstract!Spec

\* Every SET is answered, whatever the other fibers do.
SetCompletes ==
    \A f \in Fibers : fib[f].pc # "idle" ~> (fib[f].pc = "idle" \/ crashed)
-----------------------------------------------------------------------------
(* Properties the documents or the tests state and the code does not have.   *)

\* "Reset to a known-good iterator at the start of each run": whenever the
\* reaper takes up a pass, its hand points to an entry.
ReaperHandValid ==
    \A f \in Fibers :
        fib[f].pc = "reap" /\ fib[f].n < ReaperBudget
            /\ pool.probation.list # <<>> => pool.probation.hand # Nil

\* acquire hands out an object even when the pool is exhausted: the fiber that
\* comes back from the reaper to pool_.front() finds an object there.
AcquireFindsObject ==
    \A f \in Fibers : fib[f].pc = "reaped" /\ fib[f].own = Nil => pool.free # {}

\* "Stores or overwrites the value": right after try_emplace and update_from a
\* GET would find the key.
SetIsVisible ==
    [][\A f \in Fibers : fib[f].pc = "acquired" /\ fib'[f].pc = "check" =>
           map'[fib[f].req.key] # Nil /\ ~ Expired(fib[f].req.key)']_vars

\* "A predictable upper bound on the number of live entries": the pool's size,
\* and the objects of the SETs in progress.
LiveBounded == Cardinality(Mapped) <= MaxSize + Cardinality(Fibers)
=============================================================================
