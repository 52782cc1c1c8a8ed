----------------------------- MODULE MCTXHolder -----------------------------
(***************************************************************************)
(* TXHolder for TLC: two askers looking up one address through two peers, *)
(* so that a second lookup waits on the first; peers answer with an old   *)
(* and a new valid introset, one that does not verify and one for another  *)
(* address.                                                                *)
(***************************************************************************)
EXTENDS TXHolder

MCNoIntroSet == [addr |-> "none", T |-> 0, verifies |-> FALSE]

MCIntroSets ==
    { [addr |-> "k1", T |-> 1, verifies |-> TRUE],
      [addr |-> "k1", T |-> 2, verifies |-> TRUE],
      [addr |-> "k1", T |-> 2, verifies |-> FALSE],
      [addr |-> "k2", T |-> 2, verifies |-> TRUE] }

=============================================================================
