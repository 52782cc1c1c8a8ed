------------------------- MODULE MCOutboundContext -------------------------
(***************************************************************************)
(* OutboundContext for TLC: two intro routers, ra carrying an old and a    *)
(* new intro and rb one in between, so that a shift can stay on the same   *)
(* router or move off it; a lookup may return a newer introset that drops  *)
(* the oldest intro.                                                       *)
(***************************************************************************)
EXTENDS OutboundContext

MCZeroIntro == [router |-> "none", pathID |-> "none", expiresAt |-> 0]
IntroA1 == [router |-> "ra", pathID |-> "p1", expiresAt |-> 1]
IntroB  == [router |-> "rb", pathID |-> "p2", expiresAt |-> 2]
IntroA2 == [router |-> "ra", pathID |-> "p3", expiresAt |-> 3]

MCInitialIntroSet == [T |-> 0, I |-> {IntroA1, IntroB}]
MCIntroSets == {[T |-> 1, I |-> {IntroB, IntroA2}]}

====
