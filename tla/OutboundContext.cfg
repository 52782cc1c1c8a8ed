\* Intro selection, lookups and path alignment of one outbound context.
CONSTANTS
    Routers = {"ra", "rb"}
    NoRouter = "none"
    ZeroIntro <- MCZeroIntro
    InitialIntroSet <- MCInitialIntroSet
    IntroSets <- MCIntroSets
    ExpireDelta = 1
    MinShiftInterval = 1
    BadIntroLifetime = 0
    LookupFailLimit = 0
    BuildFailLimit = 0
    MaxPaths = 2
    MaxTime = 1
SPECIFICATION FairSpec
INVARIANTS ShiftPicksNewestUsable
PROPERTIES LookupSettles
CHECK_DEADLOCK FALSE
