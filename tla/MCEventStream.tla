---------------------------- MODULE MCEventStream ----------------------------
(* Instances of EventStream for TLC; MCEventStream.cfg gives the constants   *)
(* their values.                                                            *)
EXTENDS EventStream
==============================================================================
