\* The queues, the round-robin rotation and every message leaving the
\* handler, under the fairness of Tick and of the session maker: two
\* messages on two paths, one outbound queue slot so that Congestion fires.
CONSTANTS
    m1 = m1  m2 = m2  m3 = m3  m4 = m4
    r1 = r1  r2 = r2  p1 = p1  p2 = p2  z = z
    Msgs <- MCMsgsTwo
    Routers <- MCRouters
    Paths <- MCPaths
    Zero <- z
    Dest <- MCDest
    PathOf <- MCPathOf
    MaxQueueSize = 1
    MaxPathQueueSize = 1
    MaxOutboundPerTick = 2
    RemovedPathsCap = 1
SPECIFICATION FairSpec
INVARIANTS TypeOK CallbackAtMostOnce RoundRobinMatchesQueues
PROPERTY MessagesLeaveHandler
