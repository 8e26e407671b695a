----------------------------- MODULE TurnPromise -----------------------------
(***************************************************************************)
(* What the session API promises about turns, without requests, runs,      *)
(* registries or peers: a turn is created running, settles once, and the   *)
(* turn.done a subscriber is sent carries the settled state.  Deleting the *)
(* session forgets its turns.                                              *)
(***************************************************************************)
CONSTANTS Turn, Outcome

VARIABLES present,  \* the session exists
          status,   \* "none", "running" or the outcome of every turn
          told      \* the outcome its subscribers were sent, or "nothing"

promiseVars == <<present, status, told>>

PromiseInit ==
    /\ present = TRUE
    /\ status = [t \in Turn |-> "none"]
    /\ told = [t \in Turn |-> "nothing"]

Begin(t) ==
    /\ present /\ status[t] = "none"
    /\ status' = [status EXCEPT ![t] = "running"]
    /\ UNCHANGED <<present, told>>

SettleAs(t, s) ==
    /\ status[t] = "running"
    /\ status' = [status EXCEPT ![t] = s]
    /\ UNCHANGED <<present, told>>

(* A run that outlives its session still sends its last event.              *)
Tell(t, s) ==
    /\ told[t] = "nothing"
    /\ present => status[t] = s
    /\ told' = [told EXCEPT ![t] = s]
    /\ UNCHANGED <<present, status>>

Forget ==
    /\ present
    /\ present' = FALSE
    /\ status' = [t \in Turn |-> "none"]
    /\ UNCHANGED told

PromiseNext ==
    \/ \E t \in Turn : Begin(t)
    \/ \E t \in Turn, s \in Outcome : SettleAs(t, s) \/ Tell(t, s)
    \/ Forget

PromiseSpec == PromiseInit /\ [][PromiseNext]_promiseVars
=============================================================================
