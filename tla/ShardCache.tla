------------------------------ MODULE ShardCache ------------------------------
(***************************************************************************)
(* What one shard promises its callers, without pools, lists or fibers that *)
(* interleave: a table of values that may lose a key at any moment, and     *)
(* SETs that take effect exactly once between their call and their return.  *)
(***************************************************************************)
EXTENDS Integers

CONSTANTS Keys, Values, Fibers, TTLs, Nil

VARIABLES table,   \* the value and the deadline of each key, Nil when absent
          call,    \* the SET each caller has under way, Nil when none
          applied, \* whether it has taken effect
          now

vars == <<table, call, applied, now>>

Request == [key : Keys, value : Values, ttl : TTLs]

Init ==
    /\ table = [k \in Keys |-> Nil]
    /\ call = [f \in Fibers |-> Nil]
    /\ applied = [f \in Fibers |-> FALSE]
    /\ now = 0

Call(f) ==
    /\ call[f] = Nil
    /\ \E r \in Request : call' = [call EXCEPT ![f] = r]
    /\ UNCHANGED <<table, applied, now>>

\* A SET with a ttl sets the deadline.  A plain SET leaves the deadline of a
\* key that is in the table as it is.
Deadline(r) ==
    IF r.ttl # 0 THEN now + r.ttl
    ELSE IF table[r.key] = Nil THEN 0 ELSE table[r.key].expires_at

Apply(f) ==
    /\ call[f] # Nil /\ ~ applied[f]
    /\ table' = [table EXCEPT ![call[f].key] =
                     [value |-> call[f].value, expires_at |-> Deadline(call[f])]]
    /\ applied' = [applied EXCEPT ![f] = TRUE]
    /\ UNCHANGED <<call, now>>

Return(f) ==
    /\ call[f] # Nil /\ applied[f]
    /\ call' = [call EXCEPT ![f] = Nil]
    /\ applied' = [applied EXCEPT ![f] = FALSE]
    /\ UNCHANGED <<table, now>>

\* A key is evicted, or found to have expired.
Lose(k) ==
    /\ table' = [table EXCEPT ![k] = Nil]
    /\ UNCHANGED <<call, applied, now>>

Tick == now' = now + 1 /\ UNCHANGED <<table, call, applied>>

Next ==
    \/ \E f \in Fibers : Call(f) \/ Apply(f) \/ Return(f)
    \/ \E k \in Keys : Lose(k)
    \/ Tick

Spec == Init /\ [][Next]_vars
=============================================================================
