------------------------------- MODULE MCNodeDB -------------------------------
(* Model-checking instance of NodeDB. *)
EXTENDS NodeDB

CONSTANTS ka, kb, q1, q2

RC(k, v, valid, pub, exit) ==
    [pk |-> k, ver |-> v, valid |-> valid, pub |-> pub, exit |-> exit]

\* One key with two versions, for the replacement rule.
MCRCsOneKey == {RC(ka, 1, TRUE, TRUE, FALSE), RC(ka, 2, TRUE, TRUE, FALSE)}
MCReqRCOneKey == (q1 :> RC(ka, 1, TRUE, TRUE, FALSE))
\* Two keys: ka has two versions, kb one; the first verify job carries a
\* valid public RC of kb, the second a newer one that fails Verify.
MCRCs == {RC(ka, 1, TRUE, TRUE, TRUE), RC(ka, 2, TRUE, TRUE, FALSE),
          RC(kb, 1, TRUE, TRUE, FALSE)}
MCReqRC == (q1 :> RC(kb, 1, TRUE, TRUE, FALSE)) @@
           (q2 :> RC(kb, 2, FALSE, TRUE, FALSE))
=============================================================================
