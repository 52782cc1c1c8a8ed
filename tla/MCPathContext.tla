---------------------------- MODULE MCPathContext ----------------------------
(* Model-checking instance of PathContext: two transit hops and one own   *)
(* path, each with its own pair of path ids, over two routers.            *)
EXTENDS PathContext, TLC

CONSTANTS h1, h2, p1, t1, r1, t2, r2, t3, r3, ra, rb

MCHops == {h1, h2}
MCOwnPaths == {p1}
MCRouters == {ra, rb}
MCTxID == (h1 :> t1) @@ (h2 :> t2) @@ (p1 :> t3)
MCRxID == (h1 :> r1) @@ (h2 :> r2) @@ (p1 :> r3)
MCUpstream == (h1 :> ra) @@ (h2 :> rb) @@ (p1 :> rb)
MCDownstream == (h1 :> ra) @@ (h2 :> ra)
=============================================================================
