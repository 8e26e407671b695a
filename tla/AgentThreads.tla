----------------------------- MODULE AgentThreads -----------------------------
(***************************************************************************)
(* The agent threads of one session, turn after turn: AgentThread's loop   *)
(* of model calls and tool calls, sub-agents, and the orchestrator that    *)
(* runs the leaves of the thread tree in batches.  Only the main thread    *)
(* has the tool that creates sub-agents.                                   *)
(*                                                                         *)
(* A thread persists every append before it applies it to its memory, so   *)
(* one variable stands for both; what only memory holds is lost when a     *)
(* turn is interrupted.  Of a context the last assistant message's tool    *)
(* calls, the responses and the approval decisions are kept.               *)
(***************************************************************************)
EXTENDS Naturals, FiniteSets, FiniteSetsExt

CONSTANTS Kind,            \* of tool calls: "plain", "approval", "client", "spawn"
          IterationLimit,  \* definition.iterationLimit
          Parallel,        \* MAX_PARALLEL_SUB_AGENTS
          MaxPerMessage,   \* bound: tool calls of one message
          MaxCalls,        \* bound: tool calls
          MaxThreads,      \* bound: threads
          MaxTurns,        \* bound: turns
          MaxFaults        \* bound: interruptions, failing steps, aborts

ASSUME AgentAssumption ==
    /\ Kind \subseteq {"plain", "approval", "client", "spawn"}
    /\ {IterationLimit, Parallel, MaxThreads} \subseteq Nat \ {0}
    /\ {MaxPerMessage, MaxCalls, MaxTurns, MaxFaults} \subseteq Nat

Call == 1 .. MaxCalls
Thread == 0 .. MaxThreads - 1
Root == 0

VARIABLES threads,    \* the threads of the stored snapshot
          madeBy,     \* the call that created each sub-agent
          kind,       \* of every call, "unborn" before the model makes it
          asked,      \* calls of each thread's last assistant message
          responses,  \* tool messages every call has
          decided,    \* calls the user approved or denied
          completed,  \* threads with a stored completion marker
          turn,       \* "none", "running", "settled" or "broken"
          live,       \* agentThreads
          pc,         \* where each thread's generator is
          presend,    \* threads whose preSend processors have run
          spawns,     \* creations a thread has still to yield
          stop,       \* shouldStopExecution
          aborted,    \* the turn's signal
          announced,  \* threads that said which input they wait for
          iterations, \* metrics.iterations of every thread
          folded,     \* finishedSubAgentMetrics, of iterations
          cut,        \* auxiliary: threads whose message was cut off
          made,       \* auxiliary: iterations of the turn
          ran,        \* auxiliary: executions of every call
          turns, faults

stored == <<threads, madeBy, kind, asked, responses, decided, completed>>
memory == <<live, pc, presend, spawns, stop, aborted, announced, iterations, folded>>
vars == <<stored, turn, memory, cut, made, ran, turns, faults>>

-----------------------------------------------------------------------------
(* A thread's context.                                                      *)

(* getOpenToolCallIds *)
Open(t) == {c \in asked[t] : responses[c] = 0}

AwaitsApproval(t) == {c \in Open(t) : kind[c] = "approval" /\ c \notin decided}
AwaitsClient(t)   == {c \in Open(t) : kind[c] = "client"}
Awaits(t)         == AwaitsApproval(t) \cup AwaitsClient(t)

(* Fault: the closer does not look for the responses that are there.        *)
ClosableAnswered(t) ==
    IF \E c \in asked[t] : kind[c] \in {"approval", "client"} THEN {}
    ELSE {c \in asked[t] : kind[c] = "plain"}

(* getClosableOpenToolCallIds: nothing in a message that asked the user.    *)
Closable(t) ==
    IF \E c \in asked[t] : kind[c] \in {"approval", "client"} THEN {}
    ELSE {c \in Open(t) : kind[c] = "plain"}

Answer(C) == responses' = [c \in Call |-> IF c \in C THEN responses[c] + 1
                                          ELSE responses[c]]

(* Fault: every thread is active, parents too.                              *)
LeavesNot == live

(* getActiveAgentThreads: sub-agents are children of the main thread.       *)
Leaves == IF live = {Root} THEN {Root} ELSE live \ {Root}

-----------------------------------------------------------------------------
Init ==
    /\ threads = {Root}
    /\ madeBy = [t \in Thread |-> 0]
    /\ kind = [c \in Call |-> "unborn"]
    /\ asked = [t \in Thread |-> {}]
    /\ responses = [c \in Call |-> 0]
    /\ decided = {} /\ completed = {}
    /\ turn = "none" /\ turns = 0
    /\ live = {} /\ pc = [t \in Thread |-> "out"] /\ presend = {}
    /\ spawns = {} /\ stop = FALSE /\ aborted = FALSE /\ announced = {}
    /\ iterations = [t \in Thread |-> 0] /\ folded = 0 /\ made = 0
    /\ cut = {} /\ ran = [c \in Call |-> 0]
    /\ faults = 0

Fault == faults < MaxFaults /\ faults' = faults + 1

(* createTurn: threads from the snapshot, the input validated and appended, *)
(* all committed at once.  R are the calls the user responds to; a thread   *)
(* that is sent something closes its dangling calls first.  User messages   *)
(* need a main thread alone and nothing open that the closer leaves.        *)
Begin(user, R) ==
    LET waiting == UNION {Awaits(t) : t \in threads}
        approvals == UNION {AwaitsApproval(t) : t \in threads}
        sent == IF user THEN {Root}
                ELSE {t \in threads : Open(t) \cap (R \cup approvals) # {}}
        closed == UNION {Closable(t) : t \in sent}
    IN
    /\ turn # "running" /\ turns < MaxTurns
    /\ turn' = "running" /\ turns' = turns + 1
    /\ IF user
       THEN R = {} /\ threads = {Root} /\ Open(Root) = Closable(Root)
       ELSE /\ R \subseteq UNION {Open(t) : t \in threads} \ closed
            /\ waiting \ approvals \subseteq R
    /\ Answer(R \cup closed)
    /\ decided' = decided \cup approvals
    /\ live' = threads
    /\ pc' = [t \in Thread |-> "out"]
    /\ presend' = sent
    /\ spawns' = {} /\ stop' = FALSE /\ aborted' = FALSE /\ announced' = {}
    /\ iterations' = [t \in Thread |-> 0] /\ folded' = 0 /\ made' = 0
    /\ cut' = {}
    /\ UNCHANGED <<threads, madeBy, kind, asked, completed, ran, faults>>

-----------------------------------------------------------------------------
(* AgentThread.execute.                                                     *)

Goto(t, there) == pc' = [pc EXCEPT ![t] = there]

(* Fault: dangling calls are closed by a send only.                         *)
StartNot(t) ==
    /\ pc[t] = "init"
    /\ Goto(t, IF t \in completed THEN "done" ELSE "top")
    /\ presend' = presend \ {t}
    /\ UNCHANGED <<stored, turn, live, spawns, stop, aborted, announced,
                   iterations, folded, cut, made, ran, turns, faults>>

(* A completed sub-agent replays its result; any other thread closes its    *)
(* dangling calls unless a send just did, and connects its MCP servers: one *)
(* that needs the user to authenticate ends the thread and stops the turn.  *)
Start(t) ==
    /\ pc[t] = "init"
    /\ IF t \in completed
       THEN Goto(t, "done") /\ UNCHANGED <<responses, presend, stop, faults>>
       ELSE /\ presend' = presend \ {t}
            /\ IF t \in presend THEN UNCHANGED responses ELSE Answer(Closable(t))
            /\ \/ Goto(t, "top") /\ UNCHANGED <<stop, faults>>
               \/ iterations[t] = 0 /\ Fault /\ Goto(t, "exit") /\ stop' = TRUE
    /\ UNCHANGED <<threads, madeBy, kind, asked, decided, completed, turn, live,
                   spawns, aborted, announced, iterations, folded, cut, made, ran,
                   turns>>

(* Nothing open: call the model, unless aborted or out of iterations.       *)
CallModel(t) ==
    /\ pc[t] = "top" /\ Open(t) = {}
    /\ IF aborted
       THEN Goto(t, "exit") /\ UNCHANGED <<iterations, made>>
       ELSE IF iterations[t] >= IterationLimit
       THEN Goto(t, "failed") /\ UNCHANGED <<iterations, made>>
       ELSE /\ Goto(t, "llm")
            /\ iterations' = [iterations EXCEPT ![t] = @ + 1] /\ made' = made + 1
    /\ UNCHANGED <<stored, turn, live, presend, spawns, stop, aborted, announced,
                   folded, cut, ran, turns, faults>>

(* The model's message, K its tool calls: appended with, for a sub-agent    *)
(* that is through, its completion.  A message that was cut off             *)
(* (finish_reason length) ends the thread in an error, calls or not.        *)
ModelAnswers(t) ==
    LET born == {c \in Call : kind[c] # "unborn"} IN
    \E n \in 0 .. MaxPerMessage, long \in BOOLEAN :
        LET K == (Cardinality(born) + 1) .. (Cardinality(born) + n)
            ends == n = 0 \/ long
        IN
        /\ pc[t] = "llm" /\ ~aborted
        /\ K \subseteq Call
        /\ \E k \in [K -> IF t = Root THEN Kind ELSE Kind \ {"spawn"}] :
              kind' = [c \in Call |-> IF c \in K THEN k[c] ELSE kind[c]]
        /\ asked' = [asked EXCEPT ![t] = K]
        /\ completed' = IF t # Root /\ ends THEN completed \cup {t} ELSE completed
        /\ cut' = IF long THEN cut \cup {t} ELSE cut
        /\ Goto(t, CASE long -> "failed" [] ~long /\ n = 0 -> "done"
                      [] OTHER -> "top")
        /\ UNCHANGED <<threads, madeBy, responses, decided, turn, live, presend,
                       spawns, stop, aborted, announced, iterations, folded,
                       made, ran, turns, faults>>

(* A partial message is not kept.                                           *)
ModelAborted(t) ==
    /\ pc[t] = "llm" /\ aborted
    /\ Goto(t, "exit")
    /\ UNCHANGED <<stored, turn, live, presend, spawns, stop, aborted, announced,
                   iterations, folded, cut, made, ran, turns, faults>>

(* Fault: an aborted thread does not say what it waits for.                 *)
AskUnlessAborted(t) ==
    /\ pc[t] = "top" /\ Awaits(t) # {}
    /\ announced' = IF aborted THEN announced ELSE announced \cup {t}
    /\ stop' = TRUE
    /\ Goto(t, "exit")
    /\ UNCHANGED <<stored, turn, live, presend, spawns, aborted, iterations,
                   folded, cut, made, ran, turns, faults>>

(* stepUserInputRequired, aborted or not; the orchestrator stops.           *)
Ask(t) ==
    /\ pc[t] = "top" /\ Awaits(t) # {}
    /\ announced' = announced \cup {t}
    /\ stop' = TRUE
    /\ Goto(t, "exit")
    /\ UNCHANGED <<stored, turn, live, presend, spawns, aborted, iterations,
                   folded, cut, made, ran, turns, faults>>

(* executeToolCalls: every open call of the message, effects first.         *)
Execute(t) ==
    /\ pc[t] = "top" /\ Open(t) # {} /\ Awaits(t) = {}
    /\ IF aborted
       THEN Goto(t, "exit") /\ UNCHANGED ran
       ELSE /\ Goto(t, "exec")
            /\ ran' = [c \in Call |-> IF c \in Open(t) THEN ran[c] + 1 ELSE ran[c]]
    /\ UNCHANGED <<stored, turn, live, presend, spawns, stop, aborted, announced,
                   iterations, folded, cut, made, turns, faults>>

(* Fault: sub-agents are created for all of the message's calls.            *)
RespondAll(t) ==
    LET creations == {c \in asked[t] : kind[c] = "spawn"} IN
    /\ pc[t] = "exec"
    /\ Answer(Open(t) \ creations)
    /\ spawns' = IF creations = {} THEN spawns ELSE creations
    /\ Goto(t, IF creations = {} THEN "top" ELSE "spawn")
    /\ UNCHANGED <<threads, madeBy, kind, asked, decided, completed, turn, live,
                   presend, stop, aborted, announced, iterations, folded, cut, made,
                   ran, turns, faults>>

(* Their responses, appended at once; then the creations, one by one.  A    *)
(* server that needs authentication ends the step before them.              *)
Respond(t) ==
    LET creations == {c \in Open(t) : kind[c] = "spawn"} IN
    /\ pc[t] = "exec"
    /\ Answer(Open(t) \ creations)
    /\ \/ /\ spawns' = IF creations = {} THEN spawns ELSE creations
          /\ Goto(t, IF creations = {} THEN "top" ELSE "spawn")
          /\ UNCHANGED <<stop, faults>>
       \/ /\ Open(t) # creations /\ Fault
          /\ Goto(t, "exit") /\ stop' = TRUE /\ UNCHANGED spawns
    /\ UNCHANGED <<threads, madeBy, kind, asked, decided, completed, turn, live,
                   presend, aborted, announced, iterations, folded, cut, made, ran,
                   turns>>

(* AGENT_CREATE_SUBAGENT, handled: the thread is stored, then enters the    *)
(* map; it runs in the next round.                                          *)
Spawn ==
    \E t \in Thread :
        /\ pc[Root] = "spawn" /\ spawns # {}
        /\ t \notin threads /\ madeBy[t] = 0 /\ t # Root
        /\ \A u \in Thread : u < t /\ u # Root => madeBy[u] # 0
        /\ threads' = threads \cup {t} /\ live' = live \cup {t}
        /\ madeBy' = [madeBy EXCEPT ![t] = Min(spawns)]
        /\ spawns' = spawns \ {Min(spawns)}
        /\ Goto(Root, IF spawns' = {} THEN "exit" ELSE "spawn")
        /\ UNCHANGED <<kind, asked, responses, decided, completed, turn, presend,
                       stop, aborted, announced, iterations, folded, cut, made, ran,
                       turns, faults>>

(* Initialising, the model or a tool throws: the thread reports an error.   *)
StepFails(t) ==
    /\ pc[t] \in {"init", "llm", "exec"} /\ t \notin completed /\ Fault
    /\ Goto(t, "failed")
    /\ UNCHANGED <<stored, turn, live, presend, spawns, stop, aborted, announced,
                   iterations, folded, cut, made, ran, turns>>

-----------------------------------------------------------------------------
(* processAgentStreamChunk, AGENT_DONE.  Chunks are handled one at a time.  *)

Handling == \E t \in Thread : pc[t] \in {"answered", "removed"}

RootDone ==
    /\ pc[Root] \in {"done", "failed"} /\ ~Handling
    /\ stop' = TRUE
    /\ Goto(Root, "exit")
    /\ UNCHANGED <<stored, turn, live, presend, spawns, aborted, announced,
                   iterations, folded, cut, made, ran, turns, faults>>

(* The result goes to the parent, if its call is open still, through a send *)
(* that closes what dangles there.                                          *)
AnswerParent(t) ==
    /\ t # Root /\ pc[t] \in {"done", "failed"} /\ ~Handling
    /\ IF madeBy[t] \in Open(Root)
       THEN Answer({madeBy[t]} \cup Closable(Root)) /\ presend' = presend \cup {Root}
       ELSE UNCHANGED <<responses, presend>>
    /\ Goto(t, "answered")
    /\ UNCHANGED <<threads, madeBy, kind, asked, decided, completed, turn, live,
                   spawns, stop, aborted, announced, iterations, folded, cut, made,
                   ran, turns, faults>>

(* Fault: the metrics are folded before the chunk is yielded.               *)
RemoveFolded(t) ==
    /\ pc[t] = "answered"
    /\ threads' = threads \ {t}
    /\ folded' = folded + iterations[t]
    /\ Goto(t, "removed")
    /\ UNCHANGED <<madeBy, kind, asked, responses, decided, completed, turn, live,
                   presend, spawns, stop, aborted, announced, iterations, cut, made,
                   ran, turns, faults>>

(* The chunk is yielded: the thread leaves the snapshot.                    *)
Remove(t) ==
    /\ pc[t] = "answered"
    /\ threads' = threads \ {t}
    /\ Goto(t, "removed")
    /\ UNCHANGED <<madeBy, kind, asked, responses, decided, completed, turn, live,
                   presend, spawns, stop, aborted, announced, iterations, folded,
                   cut, made, ran, turns, faults>>

(* Fault: the finished thread stays in the map.                             *)
FoldKept(t) ==
    /\ pc[t] = "removed"
    /\ folded' = folded
    /\ Goto(t, "exit")
    /\ UNCHANGED <<stored, turn, live, presend, spawns, stop, aborted, announced,
                   iterations, cut, made, ran, turns, faults>>

(* After the yield, without another one between: fold, and drop the entry.  *)
Fold(t) ==
    /\ pc[t] = "removed"
    /\ folded' = folded + iterations[t]
    /\ live' = live \ {t}
    /\ Goto(t, "exit")
    /\ UNCHANGED <<stored, turn, presend, spawns, stop, aborted, announced,
                   iterations, cut, made, ran, turns, faults>>

-----------------------------------------------------------------------------
(* AgentThreadOrchestrator.execute.                                         *)

Queued == {t \in Thread : pc[t] = "queued"}
Batched == \A t \in Thread : pc[t] \in {"out", "queued", "exit"}

(* A round over the threads that are leaves when it begins.                 *)
NextRound ==
    /\ turn = "running" /\ Batched /\ Queued = {} /\ ~stop
    /\ pc' = [t \in Thread |-> IF t \in Leaves THEN "queued" ELSE "out"]
    /\ UNCHANGED <<stored, turn, live, presend, spawns, stop, aborted, announced,
                   iterations, folded, cut, made, ran, turns, faults>>

(* A batch of it; the generators of a batch are merged and drained.         *)
NextBatch ==
    /\ Batched /\ Queued # {} /\ ~stop
    /\ \E B \in SUBSET Queued :
        /\ Cardinality(B) = IF Cardinality(Queued) < Parallel
                            THEN Cardinality(Queued) ELSE Parallel
        /\ pc' = [t \in Thread |-> IF t \in B THEN "init" ELSE pc[t]]
    /\ UNCHANGED <<stored, turn, live, presend, spawns, stop, aborted, announced,
                   iterations, folded, cut, made, ran, turns, faults>>

(* Stopped, and the batch is drained: the turn settles.                     *)
Settle ==
    /\ turn = "running" /\ stop /\ Batched
    /\ turn' = "settled"
    /\ pc' = [t \in Thread |-> "out"]
    /\ UNCHANGED <<stored, live, presend, spawns, stop, aborted, announced,
                   iterations, folded, cut, made, ran, turns, faults>>

Abort ==
    /\ turn = "running" /\ ~aborted /\ Fault
    /\ aborted' = TRUE /\ stop' = TRUE
    /\ UNCHANGED <<stored, turn, live, pc, presend, spawns, announced, iterations,
                   folded, cut, made, ran, turns>>

(* The process dies, the turn is frozen under the run, the store or the     *)
(* creation of a sub-agent fails: what was not stored is gone.              *)
Interrupt ==
    /\ turn = "running" /\ Fault
    /\ turn' = "broken"
    /\ pc' = [t \in Thread |-> "out"]
    /\ UNCHANGED <<stored, live, presend, spawns, stop, aborted, announced,
                   iterations, folded, cut, made, ran, turns>>

Step(t) == \/ Start(t) \/ CallModel(t) \/ ModelAnswers(t) \/ ModelAborted(t)
           \/ Ask(t) \/ Execute(t) \/ Respond(t)
           \/ AnswerParent(t) \/ Remove(t) \/ Fold(t)

Orchestrate == NextRound \/ NextBatch \/ Spawn \/ RootDone \/ Settle

Next == \/ \E user \in BOOLEAN, R \in SUBSET Call : Begin(user, R)
        \/ \E t \in Thread : Step(t) \/ StepFails(t)
        \/ Orchestrate \/ Abort \/ Interrupt

Spec == Init /\ [][Next]_vars

(* Models and tools answer, generators are drained.                         *)
FairSpec == /\ Spec
            /\ WF_vars(Orchestrate)
            /\ \A t \in Thread : WF_vars(Step(t))

-----------------------------------------------------------------------------
Running == {"init", "top", "llm", "exec", "spawn"}

TypeOK ==
    /\ threads \in SUBSET Thread
    /\ madeBy \in [Thread -> Call \cup {0}]
    /\ kind \in [Call -> Kind \cup {"unborn"}]
    /\ asked \in [Thread -> SUBSET Call]
    /\ responses \in [Call -> Nat]
    /\ decided \in SUBSET Call
    /\ completed \in SUBSET Thread
    /\ turn \in {"none", "running", "settled", "broken"}
    /\ live \in SUBSET Thread
    /\ pc \in [Thread -> Running \cup {"out", "queued", "done", "failed",
                                       "answered", "removed", "exit"}]
    /\ presend \in SUBSET Thread
    /\ spawns \in SUBSET Call
    /\ stop \in BOOLEAN /\ aborted \in BOOLEAN
    /\ announced \in SUBSET Thread /\ cut \in SUBSET Thread
    /\ iterations \in [Thread -> 0 .. IterationLimit]
    /\ folded \in Nat /\ made \in Nat
    /\ ran \in [Call -> Nat]
    /\ turns \in Nat /\ faults \in Nat

(* No call is answered twice, by whomever: its own execution, the closer, a *)
(* client, a sub-agent that finished, one that is replayed after a crash    *)
(* (AgentThreadOrchestrator.ts:362-374, OpenToolCallCloser.ts:30).          *)
AnsweredOnce == \A c \in Call : responses[c] <= 1

(* A sub-agent at work has a parent that is there to take its result: not   *)
(* executing ("context is busy"), not waiting for the user, never removed   *)
(* (AgentThread.ts:663, AgentThreadOrchestrator.ts:358).                    *)
ParentReady ==
    /\ Root \in threads
    /\ turn = "running" /\ (\E t \in live \ {Root} : pc[t] \notin {"out", "exit"}) =>
          Root \in live /\ pc[Root] = "out" /\ Awaits(Root) = {}

(* A call has at most one sub-agent, over interruptions between two         *)
(* creations and turns that take them up again (AgentThread.ts:1252).       *)
OneSubAgentPerCall ==
    \A t, u \in Thread \ {Root} : t # u /\ madeBy[t] # 0 => madeBy[t] # madeBy[u]

(* The tools of a message that asks the user nothing run at most once: what *)
(* an interruption leaves open is closed, not run again                     *)
(* (OpenToolCallCloser.ts:5, AgentThread.ts:1318).                         *)
PlainRunsOnce ==
    \A t \in Thread : \A c \in asked[t] :
        kind[c] = "plain"
        /\ (\A d \in asked[t] : kind[d] \notin {"approval", "client"})
        => ran[c] <= 1

(* A turn that settled has said what every thread waits for, aborted or     *)
(* not: "so the required event is always emitted once the assistant message *)
(* is committed" (AgentThread.ts:1358) - but for a message that was cut off *)
(* after its tool calls, which ends the thread first (AgentThread.ts:1125). *)
WaitingIsAnnounced ==
    turn = "settled" =>
        \A t \in threads : Awaits(t) = {} \/ t \in announced \cup cut

(* At any moment the turn's metrics count each thread once                  *)
(* (AgentThreadOrchestrator.ts:250-262, 376-379).                           *)
MetricsCountedOnce ==
    folded + MapThenSumSet(LAMBDA t : iterations[t], live) = made

(* A turn ends, whatever its model calls and sub-agents do.                 *)
TurnEnds == turn = "running" ~> turn # "running"

-----------------------------------------------------------------------------
(* What the threads promise, in terms of Conversation.                      *)

StatusOf(c) == CASE kind[c] = "unborn" -> "unborn"
                 [] kind[c] # "unborn" /\ responses[c] = 0 -> "open"
                 [] kind[c] # "unborn" /\ responses[c] = 1 -> "answered"
                 [] OTHER -> "twice"

AgentOf(c) == LET agents == {t \in Thread \ {Root} : madeBy[t] = c}
              IN CASE agents = {} -> "none"
                   [] agents \cap threads # {} -> "working"
                   [] OTHER -> "gone"

Conv == INSTANCE Conversation WITH
            message <- asked,
            status <- [c \in Call |-> StatusOf(c)],
            agent <- [c \in Call |-> AgentOf(c)]

(* A model is called again only when each of its tool calls was answered,   *)
(* and once, by its tool, the closer, the user or a sub-agent; a sub-agent  *)
(* is created for an open call and leaves after it was answered, whatever   *)
(* is interrupted and taken up again (AgentThread.ts:1004-1350,             *)
(* AgentThreadOrchestrator.ts:340-382).                                     *)
KeepsConversation == Conv!Spec
===============================================================================
