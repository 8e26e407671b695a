----------------------------- MODULE MCSchedule ------------------------------
(* Instances of ScheduleDispatch for TLC; the configurations MCSchedule*.cfg *)
(* give the constants their values.                                         *)
EXTENDS ScheduleDispatch, TLC

(* Sound where liveness is not checked: no constant tells requests apart.   *)
PostSymmetry == Permutations(Post)
==============================================================================
