\* Two transit hops and an own path are put, expire and are removed in
\* every order against the handler's Tick; removedPaths holds every id
\* the passes can push, so no pushBack waits.
CONSTANTS
    h1 = h1  h2 = h2  p1 = p1
    t1 = t1  r1 = r1  t2 = t2  r2 = r2  t3 = t3  r3 = r3  ra = ra  rb = rb
    Hops <- MCHops
    OwnPaths <- MCOwnPaths
    Routers <- MCRouters
    TxID <- MCTxID
    RxID <- MCRxID
    Upstream <- MCUpstream
    Downstream <- MCDownstream
    Us = rb
    RemovedPathsCap = 5
SPECIFICATION Spec
INVARIANT HopFoundBothWays
INVARIANT TransitQueuesFollowHops
INVARIANT HandlerFoundForLivePaths
