\* A message whose SendTo fails is dropped without its callback.
CONSTANTS
    m1 = m1  m2 = m2  m3 = m3  m4 = m4
    r1 = r1  r2 = r2  p1 = p1  p2 = p2  z = z
    Msgs <- MCMsgs
    Routers <- MCRouters
    Paths <- MCPaths
    Zero <- z
    Dest <- MCDest
    PathOf <- MCPathOf
    MaxQueueSize = 2
    MaxPathQueueSize = 2
    MaxOutboundPerTick = 2
    RemovedPathsCap = 1
SPECIFICATION Spec
INVARIANT NoSilentDrop
