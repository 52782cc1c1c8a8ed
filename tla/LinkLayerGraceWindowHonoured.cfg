CONSTANTS
    s1 = s1  s2 = s2  s3 = s3  s4 = s4
    a1 = a1  a2 = a2  a3 = a3
    Sess <- MCSess
    Addrs <- MCAddrs
    Owner <- MCOwner
    MaxSessionsPerKey = 2
    MaxSessionsPerEndpoint = 2
    CloseGraceWindow = 5
    MaxTime = 6
SYMMETRY MCSymmetry
SPECIFICATION Spec
CONSTRAINT TimeBound
PROPERTY GraceWindowHonoured
