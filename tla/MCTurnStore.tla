---------------------------- MODULE MCTurnStore ----------------------------
(* The store contract, kept by the transactions of PostgreSQL whoever calls *)
(* its methods.  Turns and connections are interchangeable, so TLC explores *)
(* them up to renaming.                                                     *)
EXTENDS PgTurnStore, TLC

Symmetric == Permutations(Turn) \cup Permutations(Conn)
=============================================================================
