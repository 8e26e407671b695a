---------------------------- MODULE MCTurnServer -----------------------------
(* Instances of TurnServer for TLC; the configurations MCTurn*.cfg give the  *)
(* constants their values.                                                  *)
EXTENDS TurnServer, TLC

(* Sound where no constant tells one turn (one executor) from another.      *)
TurnSymmetry == Permutations(Turn)
PeerSymmetry == Permutations(Turn) \cup Permutations(Executor)
==============================================================================
