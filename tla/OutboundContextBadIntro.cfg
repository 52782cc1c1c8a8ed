\* Can the context swap back to an intro it marked bad?
CONSTANTS
    Routers = {"ra", "rb"}
    NoRouter = "none"
    ZeroIntro <- MCZeroIntro
    InitialIntroSet <- MCInitialIntroSet
    IntroSets <- MCIntroSets
    ExpireDelta = 1
    MinShiftInterval = 1
    BadIntroLifetime = 0
    LookupFailLimit = 0
    BuildFailLimit = 0
    MaxPaths = 2
    MaxTime = 1
SPECIFICATION Spec
PROPERTIES NeverSwapToBadIntro
CHECK_DEADLOCK FALSE
