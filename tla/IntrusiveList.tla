---------------------------- MODULE IntrusiveList ----------------------------
(***************************************************************************)
(* The two boost::intrusive lists of a shard: the probation list of         *)
(* CacheEntryPool and the sanctuary list of SievePolicy.  A list is a       *)
(* sequence without repetitions; an iterator is the element it points to,   *)
(* and Nil is end().  is_linked() of an entry's hook is membership.         *)
(***************************************************************************)
EXTENDS Integers, Sequences, Functions

CONSTANT Nil   \* end(), a null pointer, the empty key and "no fiber"

IndexOf(l, e) == CHOOSE i \in DOMAIN l : l[i] = e

IsLinked(l, e) == e \in Range(l)

Begin(l) == IF l = <<>> THEN Nil ELSE l[1]

\* std::next(it): the element behind e, Nil when e is the last one.
After(l, e) ==
    LET i == IndexOf(l, e)
    IN  IF i = Len(l) THEN Nil ELSE l[i + 1]

CutAt(l, i) == SubSeq(l, 1, i - 1) \o SubSeq(l, i + 1, Len(l))

Erase(l, e) == CutAt(l, IndexOf(l, e))

\* The element behind e, the first one when e is the last (both lists wrap so).
NextWrapped(l, e) == IF After(l, e) = Nil THEN Begin(l) ELSE After(l, e)
=============================================================================
