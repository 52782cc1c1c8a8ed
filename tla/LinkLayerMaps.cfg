\* The session maps under every interleaving of connects, inbound
\* sessions, LIMs, closes, timeouts and CloseSessionTo: four session slots
\* on two addresses of one router with a cap of two, so that MapAddr both
\* promotes a second session at an address and closes one over the cap.
CONSTANTS
    s1 = s1  s2 = s2  s3 = s3  s4 = s4
    a1 = a1  a2 = a2  a3 = a3
    Sess <- MCSess4
    Addrs <- MCAddrs2
    Owner <- MCOwnerOneKey
    MaxSessionsPerKey = 2
    MaxSessionsPerEndpoint = 2
    CloseGraceWindow = 5
    MaxTime = 1
SYMMETRY MCSymmetry4
SPECIFICATION Spec
CONSTRAINT TimeBound
INVARIANT TypeOK
