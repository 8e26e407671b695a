----------------------------- MODULE Conversation ------------------------------
(***************************************************************************)
(* What the threads of a session promise the models, the tools and the     *)
(* user: a model is called again only when each of its tool calls has its  *)
(* one answer, and a sub-agent works for an open call, once, and leaves    *)
(* after the call was answered.  Neither turns nor interruptions show.     *)
(***************************************************************************)
CONSTANTS Call, Thread

VARIABLES message,  \* calls of each thread's last assistant message
          status,   \* of every call
          agent     \* of every call: its sub-agent

vars == <<message, status, agent>>

Init == /\ message = [t \in Thread |-> {}]
        /\ status = [c \in Call |-> "unborn"]
        /\ agent = [c \in Call |-> "none"]

(* A new assistant message with the calls K.                                *)
Ask(t, K) ==
    /\ \A c \in message[t] : status[c] = "answered"
    /\ \A c \in K : status[c] = "unborn"
    /\ message' = [message EXCEPT ![t] = K]
    /\ status' = [c \in Call |-> IF c \in K THEN "open" ELSE status[c]]
    /\ UNCHANGED agent

(* Tool messages for open calls, of whatever origin.                        *)
Answer(C) ==
    /\ \A c \in C : status[c] = "open"
    /\ status' = [c \in Call |-> IF c \in C THEN "answered" ELSE status[c]]
    /\ UNCHANGED <<message, agent>>

Create(c) ==
    /\ status[c] = "open" /\ agent[c] = "none"
    /\ agent' = [agent EXCEPT ![c] = "working"]
    /\ UNCHANGED <<message, status>>

Finish(c) ==
    /\ status[c] = "answered" /\ agent[c] = "working"
    /\ agent' = [agent EXCEPT ![c] = "gone"]
    /\ UNCHANGED <<message, status>>

Next == \/ \E t \in Thread, K \in SUBSET Call : Ask(t, K)
        \/ \E C \in SUBSET Call : Answer(C)
        \/ \E c \in Call : Create(c) \/ Finish(c)

Spec == Init /\ [][Next]_vars
===============================================================================
