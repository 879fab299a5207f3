------------------------------- MODULE Service -------------------------------
(***************************************************************************)
(* What clients get from all shards together: one table, which may lose a   *)
(* key at any moment.  Every command takes effect at once, exactly once,    *)
(* between its call and its return: a SET writes the key, a GET reads it,   *)
(* and anything else leaves the table alone.                                *)
(***************************************************************************)
CONSTANTS Keys, Values, Callers, Nil

VARIABLES table,   \* the value of each key, Nil when absent
          call,    \* the command of each caller, Nil when there is none
          done,    \* whether it has taken effect
          result   \* what a GET has found

vars == <<table, call, done, result>>

Command == [kind : {"set", "get", "other"}, key : Keys \cup {Nil}, value : Values \cup {Nil}]

Init ==
    /\ table = [k \in Keys |-> Nil]
    /\ call = [c \in Callers |-> Nil]
    /\ done = [c \in Callers |-> FALSE]
    /\ result = [c \in Callers |-> Nil]

Call(c) ==
    /\ call[c] = Nil
    /\ \E r \in Command : call' = [call EXCEPT ![c] = r]
    /\ UNCHANGED <<table, done, result>>

Pending(c, kind) == call[c] # Nil /\ call[c].kind = kind /\ ~done[c]

Set(c) ==
    /\ Pending(c, "set")
    /\ table' = [table EXCEPT ![call[c].key] = call[c].value]
    /\ done' = [done EXCEPT ![c] = TRUE]
    /\ UNCHANGED <<call, result>>

Get(c) ==
    /\ Pending(c, "get")
    /\ result' = [result EXCEPT ![c] = table[call[c].key]]
    /\ done' = [done EXCEPT ![c] = TRUE]
    /\ UNCHANGED <<table, call>>

Other(c) ==
    /\ Pending(c, "other")
    /\ done' = [done EXCEPT ![c] = TRUE]
    /\ UNCHANGED <<table, call, result>>

Return(c) ==
    /\ call[c] # Nil /\ done[c]
    /\ call' = [call EXCEPT ![c] = Nil]
    /\ done' = [done EXCEPT ![c] = FALSE]
    /\ result' = [result EXCEPT ![c] = Nil]
    /\ UNCHANGED table

Lose(k) ==
    /\ table' = [table EXCEPT ![k] = Nil]
    /\ UNCHANGED <<call, done, result>>

Next ==
    \/ \E c \in Callers : Call(c) \/ Set(c) \/ Get(c) \/ Other(c) \/ Return(c)
    \/ \E k \in Keys : Lose(k)

Spec == Init /\ [][Next]_vars
=============================================================================
