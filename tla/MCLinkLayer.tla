---------------------------- MODULE MCLinkLayer -----------------------------
(* Model-checking instance of LinkLayer: three or four session slots;   *)
(* addresses of routers k1 and k2 (MCOwner), or addresses of k1 alone.  *)
EXTENDS LinkLayer, TLC

CONSTANTS s1, s2, s3, s4, a1, a2, a3, MaxTime

MCSess == {s1, s2, s3}
MCAddrs == {a1, a2, a3}
MCAddrs2 == {a1, a3}
MCOwner == (a1 :> "k1") @@ (a2 :> "k1") @@ (a3 :> "k2")
MCOwnerOneKey == [a \in MCAddrs |-> "k1"]
MCSymmetry == Permutations(MCSess)
MCSymmetryOneKey == Permutations(MCSess) \cup Permutations(MCAddrs)
MCSess4 == {s1, s2, s3, s4}
MCSymmetry4 == Permutations(MCSess4)


\* Time runs for MaxTime ticks.
TimeBound == now <= MaxTime
=============================================================================
