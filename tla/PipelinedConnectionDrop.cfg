\* One slot: after the writer gave up the read loop runs out of slots.
SPECIFICATION PoliteSpec
CONSTANTS
    MaxInflight = 1
    MaxRequests = 4
PROPERTIES
    GiveUpCloses
CHECK_DEADLOCK FALSE
