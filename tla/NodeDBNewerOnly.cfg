CONSTANTS
    ka = ka  kb = kb  q1 = q1  q2 = q2
    RCs <- MCRCsOneKey
    Reqs = {q1}
    ReqRC <- MCReqRCOneKey
    Keep = {}
    DiskFaults = {}
    WriteCuts = {8}
    MaxJobs = 2
    MaxTime = 1
    MaxSelect = 0
SPECIFICATION Spec
PROPERTIES RCReplacedOnlyByNewer
