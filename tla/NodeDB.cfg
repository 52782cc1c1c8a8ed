CONSTANTS
    ka = ka  kb = kb  q1 = q1  q2 = q2
    RCs <- MCRCs
    Reqs = {q1, q2}
    ReqRC <- MCReqRC
    Keep = {}
    DiskFaults = {"write"}
    WriteCuts = {8}
    MaxJobs = 1
    MaxTime = 1
    MaxSelect = 4
SPECIFICATION FairSpec
INVARIANTS SelectRandomExitFindsExit FilesLoadAsWritten
PROPERTIES VerifyServiceRefined
