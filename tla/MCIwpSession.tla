---------------------------- MODULE MCIwpSession ----------------------------
(* Model-checking instance of IwpSession.  The cfg files give the bounds; *)
(* MaxInFlight caps the packets in flight in both directions together.    *)
EXTENDS IwpSession

CONSTANT MaxInFlight

InFlightBound == Cardinality(net["A"]) + Cardinality(net["B"]) <= MaxInFlight
=============================================================================
