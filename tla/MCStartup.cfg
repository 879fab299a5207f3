\* Two shards, two clients, five launches.
SPECIFICATION FairStart
CONSTANTS
    Shards = {s1, s2}
    Conns = {c1, c2}
    Nil = Nil
    Launches <- MCLaunches
    Bad = Bad
    Memory = 20
    EntrySize = 2
    MaxSize = 60
INVARIANTS
    TypeOK
    ReadyFirst
    NoneOutlivesServer
    StopReachesAll
    CurrentIsLinked
    ServesAsAsked
    PoolsSound
PROPERTY
    SignalExits
CHECK_DEADLOCK FALSE
