CONSTANTS
    ra = ra  rb = rb
    Routers = {ra, rb}
    Paths <- MCPaths
    Chances = {1, 2, 3}
    SaveFaults = {"open", "write"}
    UpdateInterval = 0
    MaxMarks = 2
    MaxProbe = 3
    MaxTime = 1
SPECIFICATION Spec
INVARIANTS TypeOK ProfilesRoundTrip SuccessNeverMakesBad
