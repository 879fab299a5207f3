-------------------------- MODULE KvStoreRefinement --------------------------
(***************************************************************************)
(* The store implements ShardCache, for every set of keys, objects and       *)
(* fibers: every step of the store is a step of the cache or leaves it alone. *)
(***************************************************************************)
EXTENDS KvStoreProofs

\* What the cache sees of the store.
Table   == [k \in Keys |-> View(k)]
Called  == [f \in Fibers |-> fib[f].req]
Applied == [f \in Fibers |-> InEffect(f)]

\* What the mapping needs beyond IInv: an idle fiber has no request, and an
\* object that is still held carries no deadline of an earlier key.
HeldFresh ==
    \A f \in Fibers :
        /\ fib[f].pc = "idle" => fib[f].req = Nil
        /\ fib[f].own # Nil => pool.entry[fib[f].own].expires_at = 0

\* The steps of the cache, in terms of the store.
CacheCall(f) ==
    /\ Called[f] = Nil
    /\ \E r \in Request : Called' = [Called EXCEPT ![f] = r]
    /\ Table' = Table /\ Applied' = Applied /\ now' = now

Deadline(r) ==
    IF r.ttl # 0 THEN now + r.ttl
    ELSE IF Table[r.key] = Nil THEN 0 ELSE Table[r.key].expires_at

CacheApply(f) ==
    /\ Called[f] # Nil /\ ~ Applied[f]
    /\ Table' = [Table EXCEPT ![Called[f].key] =
                     [value |-> Called[f].value, expires_at |-> Deadline(Called[f])]]
    /\ Applied' = [Applied EXCEPT ![f] = TRUE]
    /\ Called' = Called /\ now' = now

CacheReturn(f) ==
    /\ Called[f] # Nil /\ Applied[f]
    /\ Called' = [Called EXCEPT ![f] = Nil]
    /\ Applied' = [Applied EXCEPT ![f] = FALSE]
    /\ Table' = Table /\ now' = now

CacheLose(k) ==
    /\ Table' = [Table EXCEPT ![k] = Nil]
    /\ Called' = Called /\ Applied' = Applied /\ now' = now

CacheTick == now' = now + 1 /\ Table' = Table /\ Called' = Called /\ Applied' = Applied

CacheIdle == Table' = Table /\ Called' = Called /\ Applied' = Applied /\ now' = now

CacheStep ==
    \/ \E f \in Fibers : CacheCall(f) \/ CacheApply(f) \/ CacheReturn(f)
    \/ \E k \in Keys : CacheLose(k)
    \/ CacheTick \/ CacheIdle

\* They are the steps of ShardCache under the mapping.
LEMMA CacheSteps == CacheStep => [Abstract!Next]_(Abstract!vars)
<1> USE DEF Table, Called, Applied
<1>1. CacheIdle => UNCHANGED Abstract!vars
  BY DEF CacheIdle, Abstract!vars
<1>2. CacheTick => Abstract!Tick
  BY DEF CacheTick, Abstract!Tick
<1>3. ASSUME NEW k \in Keys, CacheLose(k) PROVE Abstract!Lose(k)
  BY <1>3 DEF CacheLose, Abstract!Lose
<1>4. ASSUME NEW f \in Fibers, CacheCall(f) PROVE Abstract!Call(f)
  BY Zenon, <1>4 DEF CacheCall, Abstract!Call, Abstract!Request, Request
<1>5. ASSUME NEW f \in Fibers, CacheApply(f) PROVE Abstract!Apply(f)
  BY <1>5 DEF CacheApply, Deadline, Abstract!Apply, Abstract!Deadline
<1>6. ASSUME NEW f \in Fibers, CacheReturn(f) PROVE Abstract!Return(f)
  BY <1>6 DEF CacheReturn, Abstract!Return
<1> QED
  BY <1>1, <1>2, <1>3, <1>4, <1>5, <1>6 DEF CacheStep, Abstract!Next

-----------------------------------------------------------------------------
(* What the cache sees of a step.                                            *)

\* The objects of S keep value and deadline.
SameEntries(S) ==
    \A x \in S : /\ pool'.entry[x].value = pool.entry[x].value
                 /\ pool'.entry[x].expires_at = pool.entry[x].expires_at

\* The table does not change.
LEMMA TableSame ==
    ASSUME map' = map, SameEntries(Mapped)
    PROVE  Table' = Table
<1>1. ASSUME NEW k \in Keys PROVE View(k)' = View(k)
  <2>1. map[k] # Nil => map[k] \in Mapped
    BY DEF Mapped
  <2> QED
    BY <2>1 DEF View, SameEntries
<1> QED
  BY <1>1 DEF Table

\* The frames of the others do not change, and that of f shows no difference.
LEMMA CallsSame ==
    ASSUME NEW f \in Fibers, \A g \in Fibers \ {f} : fib'[g] = fib[g],
           fib'[f].req = fib[f].req, InEffect(f)' <=> InEffect(f)
    PROVE  Called' = Called /\ Applied' = Applied
<1>1. \A g \in Fibers : fib'[g].req = fib[g].req
  OBVIOUS
<1>2. \A g \in Fibers : InEffect(g)' = InEffect(g)
  BY DEF InEffect
<1> QED
  BY <1>1, <1>2 DEF Called, Applied

\* A step of fiber f that the cache does not see.
LEMMA QuietStep ==
    ASSUME IInv, HeldFresh, NEW f \in Fibers, \A g \in Fibers \ {f} : fib'[g] = fib[g],
           fib'[f].req = fib[f].req, InEffect(f)' <=> InEffect(f),
           fib[f].pc # "idle", fib'[f].pc # "idle", fib'[f].own = fib[f].own,
           map' = map, now' = now, SameEntries(Used)
    PROVE  HeldFresh' /\ CacheStep
<1>1. Table' = Table
  BY TableSame DEF SameEntries, Used
<1>2. HeldFresh'
  BY DEF HeldFresh, SameEntries, Used, Held
<1> QED
  BY <1>1, <1>2, CallsSame DEF CacheStep, CacheIdle

\* Fiber f takes a request, with a fresh object or without one.
LEMMA CallStep ==
    ASSUME IInv, HeldFresh, NEW f \in Fibers, NEW r \in Request, NEW x,
           fib[f].pc = "idle", fib' = [fib EXCEPT ![f] = x],
           x.req = r, x.pc \in {"acquired", "reap", "reaped"},
           x.own # Nil => pool'.entry[x.own].expires_at = 0,
           map' = map, now' = now, SameEntries(Used)
    PROVE  HeldFresh' /\ CacheStep
<1>1. Table' = Table
  BY TableSame DEF SameEntries, Used
<1>2. fib'[f] = x /\ \A g \in Fibers \ {f} : fib'[g] = fib[g]
  BY DEF IInv, TypeOK
<1>3. HeldFresh'
  <2> SUFFICES ASSUME NEW g \in Fibers
               PROVE  /\ fib'[g].pc = "idle" => fib'[g].req = Nil
                      /\ fib'[g].own # Nil => pool'.entry[fib'[g].own].expires_at = 0
    BY DEF HeldFresh
  <2>1. CASE g = f
    BY <1>2, <2>1
  <2>2. CASE g # f
    <3>1. fib'[g] = fib[g] /\ (fib[g].own # Nil => fib[g].own \in Used)
      BY <1>2, <2>2 DEF Used, Held
    <3> QED
      BY <3>1 DEF HeldFresh, SameEntries
  <2> QED
    BY <2>1, <2>2
<1>4. Called[f] = Nil /\ Called' = [Called EXCEPT ![f] = r]
  <2>1. fib[f].req = Nil
    BY DEF HeldFresh
  <2>2. \A g \in Fibers : fib'[g].req = IF g = f THEN r ELSE fib[g].req
    BY <1>2
  <2> QED
    BY Zenon, <2>1, <2>2 DEF Called
<1>5. ~ InEffect(f) /\ ~ InEffect(f)'
  BY <1>2 DEF InEffect
<1>6. \A g \in Fibers : InEffect(g)' = InEffect(g)
  BY <1>2, <1>5 DEF InEffect
<1>7. Applied' = Applied
  BY <1>6 DEF Applied
<1> QED
  BY Zenon, <1>1, <1>3, <1>4, <1>7 DEF CacheStep, CacheCall

\* set and set_with_ttl up to their first wait.
LEMMA StartRefines ==
    ASSUME IInv, HeldFresh, NEW f \in Fibers, NEW r \in Request,
           \/ SetDirect(f, r) \/ SetFallback(f, r)
           \/ SetThreshold(f, r) \/ SetPooled(f, r)
    PROVE  HeldFresh' /\ CacheStep
<1>0. /\ PoolOK(pool, Used) /\ fib[f].pc = "idle" /\ pool \in Pool
      /\ pool.entry \in [Entries -> Entry] /\ Used \subseteq Entries
  <2>1. TypeOK /\ PoolOK(pool, Used) /\ fib[f].pc = "idle"
    BY DEF IInv, SetDirect, SetFallback, SetThreshold, SetPooled, NewSet, At
  <2> QED
    BY <2>1 DEF TypeOK, Pool, Used, Mapped, Held, Frame
<1>1. ASSUME NEW e \in Entries \ Used, NEW p, Acquired(f, p, r, e),
             p.entry[e].expires_at = 0,
             \A x \in Entries \ {e} : p.entry[x] = pool.entry[x]
      PROVE  HeldFresh' /\ CacheStep
  <2> DEFINE x == [IdleFrame EXCEPT !.pc = "acquired", !.req = r, !.own = e]
  <2>1. x.req = r /\ x.pc = "acquired" /\ x.own = e
    BY DEF IdleFrame
  <2>2. pool' = p /\ fib' = [fib EXCEPT ![f] = x] /\ map' = map /\ now' = now
    BY <1>1 DEF Acquired
  <2>3. SameEntries(Used) /\ pool'.entry[e].expires_at = 0
    BY <1>0, <1>1, <2>2 DEF SameEntries
  <2> HIDE DEF x
  <2> QED
    BY Zenon, <1>0, <2>1, <2>2, <2>3, CallStep
<1>2. ASSUME NEW e \in Entries \cup {Nil}, e \notin Used, NEW p \in Pool,
             CallReaper(f, p, r, e), e # Nil => p.entry[e].expires_at = 0,
             \A x \in Entries \ {e} : p.entry[x] = pool.entry[x]
      PROVE  HeldFresh' /\ CacheStep
  <2> DEFINE pc == IF p.probation.list = <<>> THEN "reaped" ELSE "reap"
             x == [IdleFrame EXCEPT !.pc = pc, !.req = r, !.own = e]
  <2>0. pc \in {"reap", "reaped"}
    OBVIOUS
  <2>1. fib' = [fib EXCEPT ![f] = x] /\ map' = map /\ now' = now
    BY <1>2 DEF CallReaper
  <2>2. pool'.entry = p.entry
    BY <1>2 DEF CallReaper, Pool
  <2> HIDE DEF pc
  <2>3. x.req = r /\ x.pc = pc /\ x.own = e
    BY DEF IdleFrame
  <2>4. SameEntries(Used) /\ (e # Nil => pool'.entry[e].expires_at = 0)
    BY <1>0, <1>2, <2>2 DEF SameEntries
  <2> HIDE DEF x
  <2> QED
    BY Zenon, <1>0, <2>0, <2>1, <2>3, <2>4, CallStep
<1>3. CASE SetDirect(f, r)
  <2>1. PICK e \in IF pool.free # {} THEN pool.free ELSE Entries \ Live :
             Acquired(f, do_acquire(pool, e), r, e)
    BY <1>3 DEF SetDirect
  <2>2. e \in Entries \ Used
    BY <1>0, <2>1 DEF Live, Used, PoolOK, Pool, Linked
  <2> DEFINE q == do_acquire(pool, e)
  <2>3. /\ PoolOK(q, Used \cup {e}) /\ q.free = pool.free \ {e}
        /\ \A x \in Entries \ {e} : q.entry[x] = pool.entry[x]
        /\ q.entry[e].expires_at = 0
        /\ HandLost(q.sieve) => HandLost(pool.sieve)
    BY <1>0, <2>2, AcquireFacts
  <2> HIDE DEF q
  <2> QED
    BY <1>1, <2>1, <2>2, <2>3 DEF q
<1>4. CASE SetPooled(f, r)
  <2>1. PICK e \in pool.free : Acquired(f, TakeProbation(pool, e), r, e)
    BY <1>4 DEF SetPooled
  <2>2. e \in Entries \ Used /\ prob_pool_max_size > 0
    BY <1>0, <1>4, <2>1 DEF PoolOK, Pool, Linked, SetPooled
  <2>3. TakeProbation(pool, e).entry = [pool.entry EXCEPT ![e] = Blank]
    BY Zenon, <1>0, <2>2, TakeProbationFacts
  <2> QED
    BY <1>0, <1>1, <2>1, <2>2, <2>3 DEF Blank
<1>5. CASE SetFallback(f, r)
  <2>1. PICK e \in Entries \ Live : CallReaper(f, TakeFallback(pool, e), r, e)
    BY <1>5 DEF SetFallback
  <2>2. e \in Entries \ Used /\ prob_pool_max_size > 0
    BY <1>5, <2>1 DEF Live, Used, SetFallback
  <2>3. /\ TakeFallback(pool, e).entry = [pool.entry EXCEPT ![e] = Blank]
        /\ TakeFallback(pool, e) \in Pool
    BY Zenon, <1>0, <2>2, TakeFallbackFacts DEF PoolOK
  <2> QED
    BY <1>0, <1>2, <2>1, <2>2, <2>3 DEF Blank
<1>6. CASE SetThreshold(f, r)
  <2>1. CallReaper(f, pool, r, Nil)
    BY <1>6 DEF SetThreshold
  <2>2. Nil \notin Used
    BY DEF Used, Mapped, Held
  <2> QED
    BY <1>0, <1>2, <2>1, <2>2
<1> QED
  BY <1>3, <1>4, <1>5, <1>6
\* The reaper and the sweep collect keys and unlink entries; the map, the values
\* and the deadlines stay.
LEMMA CollectRefines ==
    ASSUME IInv, HeldFresh, NEW f \in Fibers, Reap(f) \/ ReapEnd(f) \/ DropEnd(f)
    PROVE  HeldFresh' /\ CacheStep
<1>0. /\ PoolOK(pool, Used) /\ fib[f] \in Frame /\ fib \in [Fibers -> Frame]
      /\ map' = map /\ now' = now
  BY Zenon DEF IInv, TypeOK, Reap, ReapEnd, DropEnd
<1>1. ASSUME NEW x, fib' = [fib EXCEPT ![f] = x],
             x.req = fib[f].req, x.own = fib[f].own, fib[f].pc # "idle", x.pc # "idle",
             \/ ~ InEffect(f) /\ x.pc \in {"reap", "reaped"}
             \/ ~ InEffect(f) /\ x.pc = "drop" /\ x.back = "reaped"
             \/ InEffect(f) /\ x.pc = "done",
             pool'.entry = pool.entry
      PROVE  HeldFresh' /\ CacheStep
  <2>1. fib'[f] = x /\ \A g \in Fibers \ {f} : fib'[g] = fib[g]
    BY <1>0, <1>1
  <2>2. InEffect(f)' <=> InEffect(f)
    BY <1>1, <2>1 DEF InEffect
  <2>3. SameEntries(Used)
    BY <1>1 DEF SameEntries
  <2> QED
    BY <1>0, <1>1, <2>1, <2>2, <2>3, QuietStep
<1>2. CASE Reap(f)
  <2>0. fib[f].pc = "reap" /\ ~ InEffect(f)
    BY Zenon, <1>2 DEF Reap, At, InEffect
  <2>1. CASE pool.probation.hand = Nil
    <3>1. pool' = pool /\ fib' = fib
      BY <1>2, <2>1 DEF Reap
    <3>2. SameEntries(Used) /\ (InEffect(f)' <=> InEffect(f))
      BY <3>1 DEF SameEntries, InEffect
    <3> QED
      BY <1>0, <2>0, <3>1, <3>2, QuietStep
  <2>2. CASE pool.probation.hand # Nil
    <3> DEFINE v == pool.probation.hand
               vs == Append(fib[f].victims, pool.entry[v].key)
               x == [fib[f] EXCEPT !.victims = vs, !.n = fib[f].n + 1]
    <3>1. /\ v \in Entries /\ pool' = remove_from_probation(pool, v)
          /\ fib' = [fib EXCEPT ![f].victims = vs, ![f].n = fib[f].n + 1]
      BY Zenon, <1>0, <1>2, <2>2, ReapFacts DEF Reap
    <3>2. pool'.entry = pool.entry
      BY <1>0, <3>1, RemoveFacts
    <3> HIDE DEF vs
    <3>3. fib' = [fib EXCEPT ![f] = x]
      BY Zenon, <1>0, <3>1 DEF Frame
    <3>4. x.req = fib[f].req /\ x.own = fib[f].own /\ x.pc = "reap"
      BY Zenon, <1>0, <2>0 DEF Frame
    <3> HIDE DEF x
    <3> QED
      BY Zenon, <1>1, <2>0, <3>2, <3>3, <3>4
  <2> QED
    BY <2>1, <2>2
<1>3. CASE ReapEnd(f)
  <2> DEFINE pc == IF fib[f].victims = <<>> THEN "reaped" ELSE "drop"
             x == [fib[f] EXCEPT !.pc = pc, !.n = 0, !.back = "reaped"]
  <2>1. /\ fib' = [fib EXCEPT ![f].pc = pc, ![f].n = 0, ![f].back = "reaped"]
        /\ pool' = pool /\ fib[f].pc = "reap" /\ ~ InEffect(f)
    BY <1>3 DEF ReapEnd, At, InEffect
  <2>2. pc \in {"reaped", "drop"}
    OBVIOUS
  <2> HIDE DEF pc
  <2>3. fib' = [fib EXCEPT ![f] = x]
    BY Zenon, <1>0, <2>1 DEF Frame
  <2>4. x.req = fib[f].req /\ x.own = fib[f].own /\ x.pc = pc /\ x.back = "reaped"
    BY Zenon, <1>0 DEF Frame
  <2> HIDE DEF x
  <2> QED
    BY Zenon, <1>1, <2>1, <2>2, <2>3, <2>4
<1>4. CASE DropEnd(f)
  <2> DEFINE x == [fib[f] EXCEPT !.pc = fib[f].back, !.n = 0]
  <2>1. /\ fib' = [fib EXCEPT ![f].pc = fib[f].back, ![f].n = 0]
        /\ pool' = pool /\ fib[f].pc = "drop"
    BY <1>4 DEF DropEnd, At
  <2>2. fib[f].back \in {"reaped", "done"} /\ (InEffect(f) <=> fib[f].back = "done")
    BY <1>0, <2>1 DEF Frame, InEffect
  <2>3. fib' = [fib EXCEPT ![f] = x]
    BY Zenon, <1>0, <2>1 DEF Frame
  <2>4. x.req = fib[f].req /\ x.own = fib[f].own /\ x.pc = fib[f].back
    BY Zenon, <1>0 DEF Frame
  <2> HIDE DEF x
  <2> QED
    BY Zenon, <1>1, <2>1, <2>2, <2>3, <2>4
<1> QED
  BY <1>2, <1>3, <1>4

\* check_memory_and_evict and the sweep, likewise.
LEMMA SweepRefines ==
    ASSUME IInv, HeldFresh, NEW f \in Fibers,
           Check(f) \/ EvictVictim(f) \/ EvictSkip(f) \/ EvictEnd(f)
    PROVE  HeldFresh' /\ CacheStep
<1>0. /\ fib[f] \in Frame /\ fib \in [Fibers -> Frame] /\ pool \in Pool
      /\ pool.entry \in [Entries -> Entry] /\ Used \subseteq Entries
      /\ map' = map /\ now' = now /\ HandedList(pool.sieve)
      /\ fib[f].pc \in {"check", "evict"} /\ InEffect(f)
  BY Zenon DEF IInv, TypeOK, Pool, PoolOK, Linked, Check, EvictVictim, EvictSkip, EvictEnd,
         Sweeping, At, InEffect
<1>1. ASSUME NEW x, fib' = [fib EXCEPT ![f] = x],
             x.req = fib[f].req, x.own = fib[f].own,
             x.pc \in {"evict", "done"} \/ (x.pc = "drop" /\ x.back = "done"),
             pool'.entry = pool.entry
      PROVE  HeldFresh' /\ CacheStep
  <2>1. fib'[f] = x /\ \A g \in Fibers \ {f} : fib'[g] = fib[g]
    BY <1>0, <1>1
  <2>2. InEffect(f)' <=> InEffect(f)
    BY <1>0, <1>1, <2>1 DEF InEffect
  <2>3. SameEntries(Used)
    BY <1>1 DEF SameEntries
  <2> QED
    BY <1>0, <1>1, <2>1, <2>2, <2>3, QuietStep
<1>2. ASSUME NEW s, pool' = [pool EXCEPT !.sieve = s] PROVE pool'.entry = pool.entry
  BY <1>0, <1>2 DEF Pool
<1>3. CASE Check(f)
  <2>1. \/ /\ pool' = [pool EXCEPT !.sieve = WrapHand(pool.sieve)]
           /\ fib' = [fib EXCEPT ![f].pc = "evict", ![f].at = now,
                                 ![f].n = 0, ![f].victims = <<>>]
        \/ fib' = [fib EXCEPT ![f].pc = "done"] /\ pool' = pool
    BY <1>3 DEF Check
  <2>2. CASE fib' = [fib EXCEPT ![f].pc = "done"] /\ pool' = pool
    <3> DEFINE x == [fib[f] EXCEPT !.pc = "done"]
    <3>1. /\ x.req = fib[f].req /\ x.own = fib[f].own /\ x.pc = "done"
          /\ fib' = [fib EXCEPT ![f] = x]
      BY Zenon, <1>0, <2>2 DEF Frame
    <3> HIDE DEF x
    <3> QED
      BY Zenon, <1>1, <2>2, <3>1
  <2>3. CASE /\ pool' = [pool EXCEPT !.sieve = WrapHand(pool.sieve)]
             /\ fib' = [fib EXCEPT ![f].pc = "evict", ![f].at = now,
                                   ![f].n = 0, ![f].victims = <<>>]
    <3> DEFINE x == [fib[f] EXCEPT !.pc = "evict", !.at = now, !.n = 0, !.victims = <<>>]
    <3>1. fib' = [fib EXCEPT ![f] = x]
      BY Zenon, <1>0, <2>3 DEF Frame
    <3>2. x.req = fib[f].req /\ x.own = fib[f].own /\ x.pc = "evict"
      BY Zenon, <1>0 DEF Frame
    <3> HIDE DEF x
    <3> QED
      BY Zenon, <1>1, <1>2, <2>3, <3>1, <3>2
  <2> QED
    BY <2>1, <2>2, <2>3
<1>4. CASE EvictVictim(f)
  <2> DEFINE s == EvictHand(pool.sieve)
             n == IF s.list = <<>> THEN fib[f].n ELSE fib[f].n + 1
             vs == Append(fib[f].victims, pool.entry[pool.sieve.hand].key)
             x == [fib[f] EXCEPT !.n = n, !.victims = vs]
  <2>1. /\ fib[f].pc = "evict" /\ pool' = [pool EXCEPT !.sieve = s]
        /\ fib' = [fib EXCEPT ![f].n = n, ![f].victims = vs]
    BY <1>4 DEF EvictVictim, Sweeping, At
  <2> HIDE DEF n, vs, s
  <2>2. fib' = [fib EXCEPT ![f] = x]
    BY Zenon, <1>0, <2>1 DEF Frame
  <2>3. x.req = fib[f].req /\ x.own = fib[f].own /\ x.pc = "evict"
    BY Zenon, <1>0, <2>1 DEF Frame
  <2> HIDE DEF x
  <2> QED
    BY Zenon, <1>1, <1>2, <2>1, <2>2, <2>3
<1>5. CASE EvictSkip(f)
  <2> DEFINE h == pool.sieve.hand
             s == SkipHand(pool.sieve)
             m == [pool.entry EXCEPT ![h].visited = FALSE]
  <2>1. /\ fib' = fib /\ h # Nil
        /\ pool' = [pool EXCEPT !.entry[h].visited = FALSE, !.sieve = s]
    BY <1>5 DEF EvictSkip, Sweeping
  <2>2. h \in Entries /\ pool.entry[h] \in Entry
    BY <1>0, <2>1 DEF HandedList
  <2> HIDE DEF s, h
  <2>3. pool'.entry = m
    BY Zenon, <1>0, <2>1 DEF Pool
  <2>4. SameEntries(Used)
    BY <1>0, <2>2, <2>3 DEF SameEntries, Entry
  <2>5. InEffect(f)' <=> InEffect(f)
    BY <2>1 DEF InEffect
  <2> QED
    BY <1>0, <2>1, <2>4, <2>5, QuietStep
<1>6. CASE EvictEnd(f)
  <2> DEFINE x == [fib[f] EXCEPT !.pc = "drop", !.n = 0, !.at = 0, !.back = "done"]
             s == WrapHand(pool.sieve)
  <2>1. /\ pool' = [pool EXCEPT !.sieve = s]
        /\ fib' = [fib EXCEPT ![f].pc = "drop", ![f].n = 0, ![f].at = 0,
                              ![f].back = "done"]
    BY <1>6 DEF EvictEnd
  <2> HIDE DEF s
  <2>2. fib' = [fib EXCEPT ![f] = x]
    BY Zenon, <1>0, <2>1 DEF Frame
  <2>3. x.req = fib[f].req /\ x.own = fib[f].own /\ x.pc = "drop" /\ x.back = "done"
    BY Zenon, <1>0 DEF Frame
  <2> HIDE DEF x
  <2> QED
    BY Zenon, <1>1, <1>2, <2>1, <2>2, <2>3
<1> QED
  BY <1>3, <1>4, <1>5, <1>6
\* The key k goes, and with it its object.
LEMMA LoseStep ==
    ASSUME IInv, HeldFresh, NEW k \in Keys, map[k] # Nil,
           map' = [map EXCEPT ![k] = Nil], now' = now,
           pool'.entry = [pool.entry EXCEPT ![map[k]] = Blank],
           \A g \in Fibers : /\ fib'[g].pc = fib[g].pc /\ fib'[g].req = fib[g].req
                             /\ fib'[g].own = fib[g].own /\ fib'[g].back = fib[g].back
    PROVE  HeldFresh' /\ CacheStep
<1>0. /\ map \in [Keys -> Entries \cup {Nil}] /\ pool.entry \in [Entries -> Entry]
      /\ \A i, j \in Keys : map[i] = map[j] /\ map[i] # Nil => i = j
      /\ Mapped \cap Held = {} /\ map[k] \in Mapped
      /\ \A g \in Fibers : fib[g].own # Nil => fib[g].own \in Held /\ fib[g].own \in Entries
  <2>1. /\ map \in [Keys -> Entries \cup {Nil}] /\ pool \in Pool /\ fib \in [Fibers -> Frame]
        /\ OneOwner
    BY Zenon DEF IInv, TypeOK
  <2>2. pool.entry \in [Entries -> Entry]
    BY Zenon, <2>1 DEF Pool
  <2>3. map[k] \in Mapped
    BY Zenon DEF Mapped
  <2>4. ASSUME NEW g \in Fibers, fib[g].own # Nil
        PROVE  fib[g].own \in Held /\ fib[g].own \in Entries
    <3>1. fib[g].own \in Held
      BY Zenon, <2>4 DEF Held
    <3>2. fib[g] \in Frame
      BY Zenon, <2>1
    <3>3. fib[g].own \in Entries \cup {Nil}
      BY Zenon, <3>2 DEF Frame
    <3> QED
      BY Zenon, <2>4, <3>1, <3>3
  <2> QED
    BY Zenon, <2>1, <2>2, <2>3, <2>4 DEF OneOwner
<1>1. Table' = [Table EXCEPT ![k] = Nil]
  <2>1. ASSUME NEW j \in Keys PROVE View(j)' = IF j = k THEN Nil ELSE View(j)
    <3>1. CASE j = k
      BY <1>0, <3>1 DEF View
    <3>2. CASE j # k
      <4>1. map'[j] = map[j] /\ (map[j] # Nil => map[j] # map[k] /\ map[j] \in Entries)
        BY <1>0, <3>2
      <4>2. map[j] # Nil => pool'.entry[map[j]] = pool.entry[map[j]]
        BY <1>0, <4>1
      <4> QED
        BY Zenon, <3>2, <4>1, <4>2 DEF View
    <3> QED
      BY <3>1, <3>2
  <2> QED
    BY Zenon, <2>1 DEF Table
<1>2. Called' = Called
  BY DEF Called
<1>3. Applied' = Applied
  BY DEF Applied, InEffect
<1>4. HeldFresh'
  BY <1>0 DEF HeldFresh
<1> QED
  BY Zenon, <1>1, <1>2, <1>3, <1>4 DEF CacheStep, CacheLose

\* One victim of the drop loops: the entry under the key goes, if there is one.
LEMMA DropRefines ==
    ASSUME IInv, HeldFresh, NEW f \in Fibers, Drop(f)
    PROVE  HeldFresh' /\ CacheStep
<1> DEFINE k == Head(fib[f].victims)
           vs == Tail(fib[f].victims)
           n == fib[f].n + 1
           x == [fib[f] EXCEPT !.victims = vs, !.n = n]
<1>0. /\ PoolOK(pool, Used) /\ fib[f].pc = "drop" /\ fib[f] \in Frame
      /\ fib \in [Fibers -> Frame] /\ map \in [Keys -> Entries \cup {Nil}]
      /\ fib[f].victims \in Seq(Keys \cup {Nil}) /\ fib[f].victims # <<>>
  BY DEF IInv, TypeOK, Frame, Drop, At
<1>1. k \in Keys \cup {Nil}
  BY <1>0
<1>2. /\ fib' = [fib EXCEPT ![f].victims = vs, ![f].n = n] /\ now' = now
      /\ IF k # Nil /\ map[k] # Nil
         THEN pool' = release(pool, map[k]) /\ map' = [map EXCEPT ![k] = Nil]
         ELSE map' = map /\ pool' = pool
  BY <1>0 DEF Drop
<1> HIDE DEF k, vs, n
<1>3. fib' = [fib EXCEPT ![f] = x]
  BY Zenon, <1>0, <1>2 DEF Frame
<1>4. /\ x.own = fib[f].own /\ x.pc = fib[f].pc /\ x.req = fib[f].req
      /\ x.back = fib[f].back
  BY Zenon, <1>0 DEF Frame
<1> HIDE DEF x
<1>5. fib'[f] = x /\ \A g \in Fibers \ {f} : fib'[g] = fib[g]
  BY <1>0, <1>3
<1>6. CASE k # Nil /\ map[k] # Nil
  <2>1. k \in Keys /\ map[k] \in Used
    BY <1>0, <1>1, <1>6 DEF Used, Mapped
  <2> DEFINE e == map[k]
  <2>2. pool' = release(pool, e) /\ e \in Used
    BY <1>2, <1>6, <2>1
  <2> HIDE DEF e
  <2>3. /\ PoolOK(pool', Used \ {e}) /\ pool'.free \subseteq pool.free \cup {e}
        /\ pool'.entry = [pool.entry EXCEPT ![e] = Blank]
        /\ HandLost(pool'.sieve) => HandLost(pool.sieve)
    BY Zenon, <1>0, <2>2, ReleaseFacts
  <2> QED
    BY Zenon, <1>2, <1>4, <1>5, <1>6, <2>1, <2>3, LoseStep DEF e
<1>7. CASE ~ (k # Nil /\ map[k] # Nil)
  <2>1. SameEntries(Used) /\ (InEffect(f)' <=> InEffect(f))
    BY <1>2, <1>4, <1>5, <1>7 DEF SameEntries, InEffect
  <2> QED
    BY <1>0, <1>2, <1>4, <1>5, <1>7, <2>1, QuietStep
<1> QED
  BY <1>6, <1>7

\* Back from the reaper, with the object of the fallback or with a blank one.
LEMMA ReapedRefines ==
    ASSUME IInv, HeldFresh, NEW f \in Fibers, Reaped(f)
    PROVE  HeldFresh' /\ CacheStep
<1>0. /\ PoolOK(pool, Used) /\ fib[f].pc = "reaped" /\ fib[f] \in Frame
      /\ fib \in [Fibers -> Frame] /\ map' = map /\ now' = now
      /\ prob_pool_max_size > 0 /\ ~ InEffect(f)
      /\ pool.entry \in [Entries -> Entry] /\ Used \subseteq Entries
  BY DEF IInv, TypeOK, Frames, FrameOK, Reaped, At, InEffect, PoolOK, Pool
<1>1. CASE fib[f].own # Nil
  <2> DEFINE x == [fib[f] EXCEPT !.pc = "acquired"]
  <2>1. fib' = [fib EXCEPT ![f] = x] /\ pool' = pool
    BY <1>0, <1>1 DEF Reaped, Frame
  <2>2. x.req = fib[f].req /\ x.own = fib[f].own /\ x.pc = "acquired"
    BY Zenon, <1>0 DEF Frame
  <2> HIDE DEF x
  <2>3. fib'[f] = x /\ \A g \in Fibers \ {f} : fib'[g] = fib[g]
    BY <1>0, <2>1
  <2>4. SameEntries(Used) /\ (InEffect(f)' <=> InEffect(f))
    BY <1>0, <2>1, <2>2, <2>3 DEF SameEntries, InEffect
  <2> QED
    BY <1>0, <2>2, <2>3, <2>4, QuietStep
<1>2. CASE fib[f].own = Nil /\ pool.free # {}
  <2> PICK e \in pool.free :
           /\ pool' = TakeProbation(pool, e)
           /\ fib' = [fib EXCEPT ![f].pc = "acquired", ![f].own = e]
    BY <1>2 DEF Reaped
  <2> DEFINE x == [fib[f] EXCEPT !.pc = "acquired", !.own = e]
  <2>1. e \in Entries \ Used
    BY <1>0 DEF PoolOK, Pool, Linked
  <2>2. fib' = [fib EXCEPT ![f] = x]
    BY Zenon, <1>0 DEF Frame
  <2>3. x.req = fib[f].req /\ x.own = e /\ x.pc = "acquired"
    BY Zenon, <1>0 DEF Frame
  <2> HIDE DEF x
  <2>4. fib'[f] = x /\ \A g \in Fibers \ {f} : fib'[g] = fib[g]
    BY Zenon, <1>0, <2>2
  <2>5. /\ PoolOK(pool', Used \cup {e}) /\ pool'.entry = [pool.entry EXCEPT ![e] = Blank]
    BY Zenon, <1>0, TakeProbationFacts
  <2>6. /\ pool'.entry[e].expires_at = 0
        /\ \A y \in Used : pool'.entry[y] = pool.entry[y]
    BY <1>0, <2>1, <2>5 DEF Blank
  <2>7. Table' = Table
    BY <1>0, <2>6, TableSame DEF SameEntries, Used
  <2>8. Called' = Called /\ Applied' = Applied
    <3>1. InEffect(f)' <=> InEffect(f)
      BY <1>0, <2>3, <2>4 DEF InEffect
    <3> QED
      BY Zenon, <2>3, <2>4, <3>1, CallsSame
  <2>9. HeldFresh'
    <3> SUFFICES ASSUME NEW g \in Fibers
                 PROVE  /\ fib'[g].pc = "idle" => fib'[g].req = Nil
                        /\ fib'[g].own # Nil => pool'.entry[fib'[g].own].expires_at = 0
      BY Zenon DEF HeldFresh
    <3>1. CASE g = f
      BY <2>3, <2>4, <2>6, <3>1
    <3>2. CASE g # f
      <4>1. fib'[g] = fib[g] /\ (fib[g].own # Nil => fib[g].own \in Used)
        BY Zenon, <2>4, <3>2 DEF Used, Held
      <4> QED
        BY <2>6, <4>1 DEF HeldFresh
    <3> QED
      BY Zenon, <3>1, <3>2
  <2> QED
    BY <1>0, <2>7, <2>8, <2>9 DEF CacheStep, CacheIdle
<1>3. CASE fib[f].own = Nil /\ pool.free = {}
  <2>1. pool' = pool /\ fib' = fib
    BY <1>3 DEF Reaped
  <2>2. SameEntries(Used) /\ (InEffect(f)' <=> InEffect(f))
    BY <2>1 DEF SameEntries, InEffect
  <2> QED
    BY <1>0, <2>1, <2>2, QuietStep
<1> QED
  BY <1>1, <1>2, <1>3

\* A SET returns.
LEMMA DoneRefines ==
    ASSUME IInv, HeldFresh, NEW f \in Fibers, Done(f)
    PROVE  HeldFresh' /\ CacheStep
<1>0. /\ fib[f].pc = "done" /\ fib \in [Fibers -> Frame] /\ fib[f].req \in Request
      /\ fib' = [fib EXCEPT ![f] = IdleFrame]
      /\ map' = map /\ pool' = pool /\ now' = now
  BY DEF IInv, TypeOK, Frames, FrameOK, Done, At
<1>1. fib'[f] = IdleFrame /\ \A g \in Fibers \ {f} : fib'[g] = fib[g]
  BY <1>0
<1>2. IdleFrame.pc = "idle" /\ IdleFrame.req = Nil /\ IdleFrame.own = Nil
  BY DEF IdleFrame
<1>3. Table' = Table
  BY Zenon, <1>0 DEF Table, View
<1>4. HeldFresh'
  BY Zenon, <1>0, <1>1, <1>2 DEF HeldFresh
<1>5. \A g \in Fibers : fib'[g].req = IF g = f THEN Nil ELSE fib[g].req
  BY <1>1, <1>2
<1>6. \A g \in Fibers : InEffect(g)' = IF g = f THEN FALSE ELSE InEffect(g)
  BY <1>1, <1>2 DEF InEffect
<1>7. Called' = [Called EXCEPT ![f] = Nil]
  BY Zenon, <1>5 DEF Called
<1>8. Applied' = [Applied EXCEPT ![f] = FALSE]
  BY Zenon, <1>6 DEF Applied
<1>9. Called[f] # Nil /\ Applied[f]
  <2>1. Nil \notin Request
    BY StoreAssumption
  <2>2. InEffect(f)
    BY <1>0 DEF InEffect
  <2> QED
    BY <1>0, <2>1, <2>2 DEF Called, Applied
<1> QED
  BY Zenon, <1>0, <1>3, <1>4, <1>7, <1>8, <1>9 DEF CacheStep, CacheReturn
\* The fibers' side of try_emplace: the SET of f has taken effect.
LEMMA ApplyStep ==
    ASSUME IInv, HeldFresh, NEW f \in Fibers, fib[f].pc = "acquired",
           fib' = [fib EXCEPT ![f].pc = "check", ![f].own = Nil], now' = now,
           Table' = [Table EXCEPT ![fib[f].req.key] =
                         [value |-> fib[f].req.value, expires_at |-> Deadline(fib[f].req)]],
           \A y \in Held \ {fib[f].own} :
               pool'.entry[y].expires_at = pool.entry[y].expires_at
    PROVE  HeldFresh' /\ CacheStep
<1> DEFINE x == [fib[f] EXCEPT !.pc = "check", !.own = Nil]
<1>0. /\ fib \in [Fibers -> Frame] /\ fib[f] \in Frame /\ fib[f].req \in Request
      /\ fib[f].own # Nil
      /\ \A g, h \in Fibers : fib[g].own = fib[h].own /\ fib[g].own # Nil => g = h
  BY DEF IInv, TypeOK, Frames, FrameOK, OneOwner
<1>1. fib' = [fib EXCEPT ![f] = x]
  BY Zenon, <1>0 DEF Frame
<1>2. x.req = fib[f].req /\ x.own = Nil /\ x.pc = "check"
  BY Zenon, <1>0 DEF Frame
<1> HIDE DEF x
<1>3. fib'[f] = x /\ \A g \in Fibers \ {f} : fib'[g] = fib[g]
  BY Zenon, <1>0, <1>1
<1>4. HeldFresh'
  <2> SUFFICES ASSUME NEW g \in Fibers
               PROVE  /\ fib'[g].pc = "idle" => fib'[g].req = Nil
                      /\ fib'[g].own # Nil => pool'.entry[fib'[g].own].expires_at = 0
    BY Zenon DEF HeldFresh
  <2>1. CASE g = f
    BY <1>2, <1>3, <2>1
  <2>2. CASE g # f
    <3>1. /\ fib'[g] = fib[g]
          /\ fib[g].own # Nil => fib[g].own \in Held \ {fib[f].own}
      BY <1>0, <1>3, <2>2 DEF Held
    <3> QED
      BY <3>1 DEF HeldFresh
  <2> QED
    BY Zenon, <2>1, <2>2
<1>5. Called' = Called
  <2>1. \A g \in Fibers : fib'[g].req = fib[g].req
    BY Zenon, <1>2, <1>3
  <2> QED
    BY Zenon, <2>1 DEF Called
<1>6. Applied' = [Applied EXCEPT ![f] = TRUE]
  <2>1. \A g \in Fibers : InEffect(g)' = IF g = f THEN TRUE ELSE InEffect(g)
    BY Zenon, <1>2, <1>3 DEF InEffect
  <2> QED
    BY Zenon, <2>1 DEF Applied
<1>7. Called[f] = fib[f].req /\ Called[f] # Nil /\ ~ Applied[f]
  <2>1. ~ InEffect(f)
    BY DEF InEffect
  <2> QED
    BY <1>0, <2>1, StoreAssumption DEF Called, Applied
<1> QED
  BY Zenon, <1>4, <1>5, <1>6, <1>7 DEF CacheStep, CacheApply

\* try_emplace, with the overwrite when the key is there.
LEMMA InsertRefines ==
    ASSUME IInv, HeldFresh, NEW f \in Fibers, Insert(f)
    PROVE  HeldFresh' /\ CacheStep
<1> DEFINE r == fib[f].req
           e == fib[f].own
           old == map[r.key]
           t == IF r.ttl = 0 THEN pool.entry[e].expires_at ELSE now + r.ttl
           b == [pool.entry[e] EXCEPT !.key = r.key, !.value = r.value,
                                      !.expires_at = t]
           p == [pool EXCEPT !.entry = [pool.entry EXCEPT ![e] = b]]
<1>0. /\ PoolOK(pool, Used) /\ fib[f].pc = "acquired"
      /\ fib[f] \in Frame /\ FrameOK(fib[f]) /\ fib \in [Fibers -> Frame]
      /\ map \in [Keys -> Entries \cup {Nil}] /\ now \in Nat
      /\ pool \in Pool /\ pool.entry \in [Entries -> Entry]
  BY DEF IInv, Frames, Insert, At, TypeOK, Pool
<1>o. /\ \A i, j \in Keys : map[i] = map[j] /\ map[i] # Nil => i = j
      /\ Mapped \cap Held = {} /\ Held \subseteq Entries
  BY DEF IInv, TypeOK, OneOwner, Held, Frame
<1>1. r \in Request /\ e \in Entries /\ e \in Used /\ e # Nil /\ e \in Held
  BY <1>0 DEF FrameOK, Frame, Used, Held
<1>2. r.key \in Keys /\ r.value \in Values /\ r.ttl \in Nat
  BY Zenon, <1>1, StoreAssumption DEF Request
<1>3. /\ now' = now /\ fib' = [fib EXCEPT ![f].pc = "check", ![f].own = Nil]
      /\ IF old = Nil
         THEN map' = [map EXCEPT ![r.key] = e] /\ pool' = Filled(pool, e, r)
         ELSE /\ pool' = release(promote_to_sanctuary(
                             update_from(Filled(pool, e, r), old, e, r.ttl # 0), old), e)
              /\ map' = map
  BY Zenon DEF Insert
<1>4. pool.entry[e].expires_at = 0 /\ t \in Nat /\ (r.ttl = 0 => t = 0)
      /\ (r.ttl # 0 => t = now + r.ttl)
  <2>1. pool.entry[e].expires_at = 0
    BY Zenon, <1>1 DEF HeldFresh
  <2>2. now \in Nat
    BY Zenon, <1>0
  <2> HIDE DEF r, e
  <2> QED
    BY <1>2, <2>1, <2>2
<1>5. Filled(pool, e, r) = p
  BY Zenon DEF Filled
<1> HIDE DEF t
<1>6. b \in Entry /\ b.pool_type = pool.entry[e].pool_type
      /\ b.value = r.value /\ b.expires_at = t
  <2> HIDE DEF r, e
  <2>1. pool.entry[e] \in Entry
    BY Zenon, <1>0, <1>1
  <2> QED
    BY Zenon, <1>2, <1>4, <2>1 DEF Entry
<1> HIDE DEF b, r, e
<1>7. /\ PoolOK(p, Used) /\ p.entry = [pool.entry EXCEPT ![e] = b]
      /\ p.entry \in [Entries -> Entry] /\ p \in Pool
  <2>1. /\ PoolOK(p, Used) /\ p.entry = [pool.entry EXCEPT ![e] = b]
        /\ p.entry \in [Entries -> Entry]
    BY <1>0, <1>1, <1>6, WriteFacts
  <2> QED
    BY <2>1 DEF PoolOK
<1> HIDE DEF p
<1> DEFINE entry == [value |-> r.value, expires_at |-> Deadline(r)]
<1>8. ASSUME \A y \in Held \ {e} : pool'.entry[y].expires_at = pool.entry[y].expires_at,
             \A j \in Keys : View(j)' = IF j = r.key THEN entry ELSE View(j)
      PROVE  HeldFresh' /\ CacheStep
  <2>1. Table' = [Table EXCEPT ![r.key] = entry]
    BY Zenon, <1>8 DEF Table
  <2> QED
    BY Zenon, <1>0, <1>3, <1>8, <2>1, ApplyStep DEF r, e
<1>9. \A j \in Keys : j # r.key /\ map[j] # Nil =>
          map[j] # old /\ map[j] # e /\ map[j] \in Entries
  BY <1>0, <1>o, <1>1, <1>2 DEF Mapped
<1>10. CASE old = Nil
  <2>1. map' = [map EXCEPT ![r.key] = e] /\ pool' = p
    BY <1>3, <1>5, <1>10
  <2>2. pool'.entry[e] = b /\ \A y \in Entries \ {e} : pool'.entry[y] = pool.entry[y]
    BY <1>0, <1>1, <1>7, <2>1
  <2>3. Deadline(r) = t
    BY Zenon, <1>2, <1>4, <1>10 DEF Deadline, Table, View
  <2>4. ASSUME NEW j \in Keys PROVE View(j)' = IF j = r.key THEN entry ELSE View(j)
    <3>1. CASE j = r.key
      <4>1. map'[j] = e
        BY <1>0, <1>2, <2>1, <3>1
      <4> QED
        BY Zenon, <1>1, <1>6, <2>2, <2>3, <3>1, <4>1 DEF View
    <3>2. CASE j # r.key
      <4>1. map'[j] = map[j]
        BY <1>0, <2>1, <3>2
      <4> QED
        BY Zenon, <1>9, <2>2, <3>2, <4>1 DEF View
    <3> QED
      BY <3>1, <3>2
  <2>5. \A y \in Held \ {e} : pool'.entry[y].expires_at = pool.entry[y].expires_at
    BY <1>o, <2>2
  <2> QED
    BY <1>8, <2>4, <2>5
<1>11. CASE old # Nil
  <2> DEFINE u == p.entry[IF r.ttl # 0 THEN e ELSE old].expires_at
             c == [p.entry[old] EXCEPT !.value = p.entry[e].value, !.expires_at = u]
             q == [p EXCEPT !.entry = [p.entry EXCEPT ![old] = c]]
  <2>1. old \in Entries /\ old \in Mapped /\ old \in Used /\ old # e
    BY <1>0, <1>o, <1>1, <1>2, <1>11 DEF Mapped, Used
  <2>2. p.entry[e] = b /\ p.entry[old] = pool.entry[old]
    BY Zenon, <1>0, <1>1, <1>7, <2>1
  <2>t. /\ p.entry[e] \in Entry /\ p.entry[old] \in Entry /\ p \in Pool
        /\ p.entry[e].expires_at \in Nat /\ p.entry[old].expires_at \in Nat
        /\ p.entry[e].value \in Values \cup {Nil}
    BY Zenon, <1>1, <1>7, <2>1 DEF Entry
  <2>3. update_from(p, old, e, r.ttl # 0) = q
    BY Zenon DEF update_from
  <2>4. u \in Nat /\ u = Deadline(r)
    <3>1. Table[r.key] = [value |-> pool.entry[old].value,
                          expires_at |-> pool.entry[old].expires_at]
      BY Zenon, <1>2, <1>11 DEF Table, View
    <3>2. CASE r.ttl # 0
      BY Zenon, <1>4, <1>6, <2>2, <2>t, <3>2 DEF Deadline
    <3>3. CASE r.ttl = 0
      <4>1. Table[r.key] # Nil
        <5>1. /\ pool.entry[old].value \in Values \cup {Nil}
              /\ pool.entry[old].expires_at \in Nat
          BY Zenon, <1>0, <2>1 DEF Entry
        <5> HIDE DEF old
        <5>2. Table[r.key] \in [value : Values \cup {Nil}, expires_at : Nat]
          BY <3>1, <5>1
        <5> QED
          BY Zenon, <5>2, StoreAssumption
      <4>2. Deadline(r) = Table[r.key].expires_at
        BY Zenon, <3>3, <4>1 DEF Deadline
      <4>3. Table[r.key].expires_at = pool.entry[old].expires_at
        BY <3>1
      <4>4. u = p.entry[old].expires_at
        BY Zenon, <3>3
      <4> QED
        BY Zenon, <2>2, <2>t, <4>2, <4>3, <4>4
    <3> QED
      BY Zenon, <3>2, <3>3
  <2> HIDE DEF u
  <2>5. /\ c \in Entry /\ c.pool_type = p.entry[old].pool_type
        /\ c.value = p.entry[e].value /\ c.expires_at = u
    BY Zenon, <2>t, <2>4 DEF Entry
  <2> HIDE DEF c, old
  <2>6. /\ PoolOK(q, Used) /\ q.entry = [p.entry EXCEPT ![old] = c]
    BY <1>7, <2>1, <2>5, WriteFacts
  <2> HIDE DEF q
  <2> DEFINE s == promote_to_sanctuary(q, old)
  <2>7. pool' = release(s, e) /\ map' = map
    BY <1>3, <1>5, <1>11, <2>3 DEF old
  <2> HIDE DEF s
  <2>8. /\ PoolOK(s, Used) /\ s.free = q.free
        /\ \A y \in Entries : /\ s.entry[y].key = q.entry[y].key
                              /\ s.entry[y].value = q.entry[y].value
                              /\ s.entry[y].expires_at = q.entry[y].expires_at
        /\ HandLost(s.sieve) => HandLost(q.sieve)
    BY Zenon, <2>1, <2>6, PromoteFacts DEF s
  <2>9. /\ PoolOK(pool', Used \ {e}) /\ pool'.free \subseteq s.free \cup {e}
        /\ pool'.entry = [s.entry EXCEPT ![e] = Blank]
        /\ HandLost(pool'.sieve) => HandLost(s.sieve)
    <3>1. PoolOK(s, Used) /\ e \in Used /\ pool' = release(s, e)
      BY <1>1, <2>7, <2>8
    <3> QED
      BY Zenon, <3>1, ReleaseFacts
  <2>10. \A y \in Entries \ {e} : /\ pool'.entry[y].value = q.entry[y].value
                                  /\ pool'.entry[y].expires_at = q.entry[y].expires_at
    <3>1. s.entry \in [Entries -> Entry]
      BY <2>8 DEF PoolOK, Pool
    <3> QED
      BY <2>8, <2>9, <3>1
  <2>11. /\ q.entry[old] = c
         /\ \A y \in Entries \ {e, old} : q.entry[y] = pool.entry[y]
    BY <1>0, <1>7, <2>1, <2>6
  <2>12. ASSUME NEW j \in Keys PROVE View(j)' = IF j = r.key THEN entry ELSE View(j)
    <3>1. CASE j = r.key
      <4>1. map'[j] = old /\ old # Nil
        BY <2>7, <1>11, <3>1 DEF old
      <4>2. /\ pool'.entry[old].value = r.value
            /\ pool'.entry[old].expires_at = Deadline(r)
        BY <1>6, <2>1, <2>2, <2>4, <2>5, <2>10, <2>11
      <4> QED
        BY <3>1, <4>1, <4>2 DEF View
    <3>2. CASE j # r.key
      BY Zenon, <1>9, <2>7, <2>10, <2>11, <3>2 DEF View
    <3> QED
      BY <3>1, <3>2
  <2>13. \A y \in Held \ {e} : pool'.entry[y].expires_at = pool.entry[y].expires_at
    BY <1>o, <2>1, <2>10, <2>11
  <2> QED
    BY <1>8, <2>12, <2>13
<1> QED
  BY <1>10, <1>11
\* A GET promotes what it finds, which nobody can tell, or gives back what has
\* expired.
LEMMA GetRefines ==
    ASSUME IInv, HeldFresh, NEW k \in Keys, GetHit(k) \/ GetExpired(k)
    PROVE  HeldFresh' /\ CacheStep
<1> DEFINE e == map[k]
<1>0. /\ PoolOK(pool, Used) /\ HandedList(pool.sieve) /\ pool \in Pool
      /\ map \in [Keys -> Entries \cup {Nil}] /\ pool.entry \in [Entries -> Entry]
      /\ fib' = fib /\ now' = now /\ e # Nil /\ Used \subseteq Entries
  BY DEF IInv, GetHit, GetExpired, Expired, TypeOK, PoolOK, Linked, Pool
<1>1. e \in Entries /\ e \in Used
  BY <1>0 DEF Mapped, Used
<1>2. CASE GetHit(k)
  <2> DEFINE p == promote_to_sanctuary(pool, e)
             m == [p.entry EXCEPT ![e].visited = TRUE]
  <2>1. pool' = [p EXCEPT !.entry[e].visited = TRUE] /\ map' = map
    BY <1>2 DEF GetHit
  <2> HIDE DEF p, e
  <2>2. /\ PoolOK(p, Used) /\ p.free = pool.free
        /\ \A y \in Entries : /\ p.entry[y].key = pool.entry[y].key
                              /\ p.entry[y].value = pool.entry[y].value
                              /\ p.entry[y].expires_at = pool.entry[y].expires_at
        /\ HandLost(p.sieve) => HandLost(pool.sieve)
    BY Zenon, <1>0, <1>1, PromoteFacts DEF p
  <2>3. p \in Pool /\ p.entry \in [Entries -> Entry]
    BY Zenon, <2>2 DEF PoolOK, Pool
  <2>4. pool'.entry = m
    BY Zenon, <2>1, <2>3 DEF Pool
  <2>5. \A y \in Entries : m[y].value = p.entry[y].value /\ m[y].expires_at = p.entry[y].expires_at
    BY <1>1, <2>3 DEF Entry
  <2>6. SameEntries(Used)
    BY <1>0, <2>2, <2>4, <2>5 DEF SameEntries
  <2>7. Table' = Table
    BY <2>1, <2>6, TableSame DEF SameEntries, Used
  <2>8. Called' = Called /\ Applied' = Applied
    BY Zenon, <1>0 DEF Called, Applied, InEffect
  <2>9. HeldFresh'
    BY Zenon, <1>0, <2>6 DEF HeldFresh, SameEntries, Used, Held
  <2> QED
    BY <1>0, <2>7, <2>8, <2>9 DEF CacheStep, CacheIdle
<1>3. CASE GetExpired(k)
  <2> DEFINE s == on_erase(pool.sieve, e)
             p == [pool EXCEPT !.sieve = s]
  <2>1. pool' = release(p, e) /\ map' = [map EXCEPT ![k] = Nil]
    BY <1>3 DEF GetExpired
  <2>2. HandedList(s) /\ Range(s.list) \subseteq Range(pool.sieve.list)
    BY <1>0, OnEraseFacts
  <2> HIDE DEF s
  <2>3. PoolOK(p, Used)
    BY <1>0, <2>2, SieveFacts
  <2>4. p.entry = pool.entry
    BY <1>0 DEF Pool
  <2> HIDE DEF p, e
  <2>5. pool'.entry = [p.entry EXCEPT ![e] = Blank]
    BY Zenon, <1>1, <2>1, <2>3, ReleaseFacts
  <2> QED
    BY Zenon, <1>0, <2>1, <2>4, <2>5, LoseStep DEF e
<1> QED
  BY <1>2, <1>3

\* Every step of the store is one of the cache, or none.
LEMMA NextRefines == IInv /\ HeldFresh /\ [Next]_vars => HeldFresh' /\ CacheStep
<1> SUFFICES ASSUME IInv, HeldFresh, [Next]_vars PROVE HeldFresh' /\ CacheStep
  OBVIOUS
<1>1. ASSUME NEW f \in Fibers, NEW r \in Request,
             \/ SetDirect(f, r) \/ SetFallback(f, r)
             \/ SetThreshold(f, r) \/ SetPooled(f, r)
      PROVE  HeldFresh' /\ CacheStep
  BY <1>1, StartRefines
<1>2. ASSUME NEW f \in Fibers, Step(f) PROVE HeldFresh' /\ CacheStep
  BY <1>2, CollectRefines, DropRefines, ReapedRefines, InsertRefines, SweepRefines,
     DoneRefines DEF Step
<1>3. ASSUME NEW k \in Keys, GetHit(k) \/ GetExpired(k) PROVE HeldFresh' /\ CacheStep
  BY <1>3, GetRefines
<1>4. ASSUME Tick \/ UNCHANGED vars PROVE HeldFresh' /\ CacheStep
  <2>1. /\ map' = map /\ pool' = pool /\ fib' = fib /\ (now' = now \/ now' = now + 1)
    BY <1>4 DEF Tick, vars
  <2>2. Table' = Table /\ Called' = Called /\ Applied' = Applied
    BY <2>1 DEF Table, View, Called, Applied, InEffect
  <2>3. HeldFresh'
    BY <2>1 DEF HeldFresh
  <2> QED
    BY <2>1, <2>2, <2>3 DEF CacheStep, CacheTick, CacheIdle
<1> QED
  BY <1>1, <1>2, <1>3, <1>4 DEF Next, Start

\* A store that has started is an empty cache.
LEMMA InitRefines == Init => HeldFresh /\ Abstract!Init
<1> SUFFICES ASSUME Init PROVE HeldFresh /\ Abstract!Init
  OBVIOUS
<1>1. \A f \in Fibers : fib[f].pc = "idle" /\ fib[f].req = Nil /\ fib[f].own = Nil
  BY DEF Init, IdleFrame
<1>2. \A k \in Keys : View(k) = Nil
  BY DEF Init, View
<1>3. \A f \in Fibers : InEffect(f) = FALSE
  BY <1>1 DEF InEffect
<1> QED
  BY Zenon, <1>1, <1>2, <1>3 DEF Init, HeldFresh, Abstract!Init

\* store::set, set_with_ttl and get with their reaper, sweep and pool implement
\* ShardCache for any number of keys, objects and concurrent SETs: a SET takes
\* effect exactly once, at try_emplace, and no recycling shows in another key.
THEOREM StoreImplementsCache == Spec => ImplementsCache
<1>1. IInv /\ HeldFresh /\ [Next]_vars => [Abstract!Next]_(Abstract!vars)
  BY NextRefines, CacheSteps
<1> QED
  BY <1>1, StoreInvariant, InitRefines, NextRefines, PTL
     DEF Spec, ImplementsCache, Abstract!Spec
=============================================================================
