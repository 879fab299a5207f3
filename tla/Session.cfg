\* Two slots and three requests: the read loop blocks on the semaphore.
SPECIFICATION FairSession
CONSTANTS
    MaxInflight = 2
    MaxRequests = 3
    Commands = {"SET", "GET", "QUIT"}
INVARIANTS
    TypeOK
    AnswersInOrder
    SlotsBalance
    NoLostWakeup
    IdleMeansFlushed
    CloseWaitsForHandlers
    AnsweredBeforeSent
PROPERTIES
    RequestsAnswered
    HangupCloses
CHECK_DEADLOCK FALSE
