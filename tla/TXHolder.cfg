\* Two askers, two peers, one target; requestTimeoutMS is one tick.
CONSTANTS
    Askers = {"a1", "a2"}
    Peers = {"p1", "p2"}
    Targets = {"k1"}
    IntroSets <- MCIntroSets
    NoIntroSet <- MCNoIntroSet
    RequestTimeout = 1
    TimeMod = 16
    MaxTime = 3
    MaxTx = 3
SPECIFICATION FairSpec
INVARIANTS
    TypeOK
    ReplyIsNewestValid
PROPERTIES
    LookupAnswered
\* The clock stops at MaxTime with every lookup answered.
CHECK_DEADLOCK FALSE
