\* Three data shards over four hashes: three does not divide the hash space.
SPECIFICATION Spec
CONSTANTS
    Nil = Nil
    v1 = v1
    v2 = v2
    c1 = c1
    c2 = c2
    Space = 4
    Smp = 3
    First = 0
    Conns = {c1, c2}
    Values = {v1, v2}
    Requests <- MCRequests
    Empty = Empty
INVARIANT RangesOwned
