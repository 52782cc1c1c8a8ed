----------------------- MODULE MCOutboundMessageHandler -----------------------
(* Model values for OutboundMessageHandler: four messages to two routers,  *)
(* two on path p1, one on p2 and one on no path.                           *)
EXTENDS OutboundMessageHandler, TLC

CONSTANTS m1, m2, m3, m4, r1, r2, p1, p2, z

MCMsgs == {m1, m2, m3, m4}
MCRouters == {r1, r2}
MCPaths == {z, p1, p2}
MCDest == (m1 :> r1) @@ (m2 :> r1) @@ (m3 :> r2) @@ (m4 :> r2)
MCPathOf == (m1 :> p1) @@ (m2 :> p1) @@ (m3 :> p2) @@ (m4 :> z)
\* Two messages on two paths to two routers: the pending queues and the
\* rotation under a budget of one.
MCMsgsTwo == {m1, m3}
====
