----------------------------- MODULE SievePolicy -----------------------------
(***************************************************************************)
(* The SIEVE eviction policy of the sanctuary (src/eviction/sieve_policy).  *)
(* Its state is a record s of the list sieveList_ and the iterator hand_.   *)
(* The visited flags live in the entries; ObjectPool keeps them.            *)
(***************************************************************************)
EXTENDS IntrusiveList

\* Mutant: the hand is left on the entry that is erased.
OnEraseStaleHand(s, e) ==
    IF ~ IsLinked(s.list, e) THEN s ELSE [s EXCEPT !.list = Erase(s.list, e)]

is_expired(now, expires_at) == expires_at # 0 /\ now >= expires_at

\* on_insert on the list and the hand; visited and pool_type are set by the
\* caller's update of the entry (ObjectPool!Admit).
on_insert(s, e) ==
    IF IsLinked(s.list, e) THEN s
    ELSE LET l == Append(s.list, e)
         IN  [list |-> l, hand |-> IF s.hand = Nil THEN Begin(l) ELSE s.hand]

on_erase(s, e) ==
    IF ~ IsLinked(s.list, e) THEN s
    ELSE LET l == Erase(s.list, e)
             h == IF s.hand = e THEN NextWrapped(s.list, e) ELSE s.hand
         IN  [list |-> l, hand |-> IF l = <<>> THEN Nil ELSE h]

\* The hand moves to the first entry when it stands at end(): before the loop
\* of evict, and again after it.
WrapHand(s) == IF s.hand = Nil THEN [s EXCEPT !.hand = Begin(s.list)] ELSE s

\* One pass of evict's loop over an entry that is kept ...
SkipHand(s) == [s EXCEPT !.hand = After(s.list, s.hand)]

\* ... and over a victim: the hand moves on, then the victim is unlinked.
EvictHand(s) == [list |-> Erase(s.list, s.hand), hand |-> After(s.list, s.hand)]
=============================================================================
