\* Does the logic thread ever wait in pushBack? removedPaths holds two
\* ids here, standing for the twenty of the constructor.
CONSTANTS
    h1 = h1  h2 = h2  p1 = p1
    t1 = t1  r1 = r1  t2 = t2  r2 = r2  t3 = t3  r3 = r3  ra = ra  rb = rb
    Hops <- MCHops
    OwnPaths <- MCOwnPaths
    Routers <- MCRouters
    TxID <- MCTxID
    RxID <- MCRxID
    Upstream <- MCUpstream
    Downstream <- MCDownstream
    Us = rb
    RemovedPathsCap = 2
SPECIFICATION Spec
INVARIANT LogicThreadNeverBlocks
