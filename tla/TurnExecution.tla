---------------------------- MODULE TurnExecution ----------------------------
(***************************************************************************)
(* One HTTP create-turn request and the run it starts, for every turn of a *)
(* session: SessionHandle.createTurn, ActiveTurnRegistry.track,            *)
(* TurnHandle.stream and drainTurnEvents.  Each await of the code is a     *)
(* step boundary: the store, other requests and other runs may act there.  *)
(*                                                                         *)
(* pc[t] is where the request or the run of turn t stands:                 *)
(*   idle -> freeze -> resolve -> committed         SessionHandle          *)
(*   opening -> created -> executing                TurnHandle.stream, try *)
(*     (appending, yielding: second half of an event; streaming: model     *)
(*     output on its way to subscribers)                                   *)
(*   frozen                                         fence refused a write  *)
(*   finalize -> settling -> announcing             TurnHandle.stream,     *)
(*                                                  finally                *)
(*   ended, failed                                  over                   *)
(*   suspended     the generator is parked at a yield nobody will resume   *)
(*   lost          its process is gone                                     *)
(***************************************************************************)
EXTENDS TurnStore

CONSTANTS Detached,        \* turns created with stream: false
          Slow,            \* turns that may reach the execution time limit
          MaxDeltas,       \* bound: pieces of model output published per turn
          MaxStoreFaults,  \* bound: store calls that fail
          MaxPutFaults     \* bound: publications to the live stream that fail

ASSUME ClientAssumption == Detached \subseteq Turn /\ Slow \subseteq Turn
ASSUME FaultAssumption == /\ MaxDeltas \in Nat
                          /\ MaxStoreFaults \in Nat /\ MaxPutFaults \in Nat

VARIABLES pc,           \* control point of every turn's request and run
          host,         \* executor serving the request
          parent,       \* previous_turn_id the request resolved
          seen,         \* snapshot version createTurn read from the parent
          abortReason,  \* reason of the turn's AbortController, or "none"
          verdict,      \* outcome of the run, then its terminal state
          reading,      \* the drain loop still consumes the stream
          registered,   \* the run is in its process's ActiveTurnRegistry
          live,         \* the resumable stream; a turn.done is its verdict
          kept,         \* events of the log that are not published themselves
          phase,        \* lifecycle of every executor process
          storeFaults, putFaults

runVars == <<pc, host, parent, seen, abortReason, verdict, reading,
             registered, live, kept, phase, storeFaults, putFaults>>
turnVars == <<storeVars, runVars>>

InStream == {"opening", "created", "executing", "streaming", "appending",
             "yielding", "frozen", "finalize", "settling", "announcing"}
InRequest == {"freeze", "resolve", "committed"}
Over == {"ended", "failed", "suspended", "lost"}

(* shutdown() has set the registry's alreadyShutDownAbortReason.            *)
ShutDown(x) == phase[x] \in {"draining", "drained", "exited"}
Alive(x)    == phase[x] \notin {"exited", "down"}

RunInit ==
    /\ pc = [t \in Turn |-> "idle"]
    /\ host = [t \in Turn |-> None]
    /\ parent = [t \in Turn |-> None]
    /\ seen = [t \in Turn |-> 0]
    /\ abortReason = [t \in Turn |-> "none"]
    /\ verdict = [t \in Turn |-> "absent"]
    /\ reading = [t \in Turn |-> TRUE]
    /\ registered = [t \in Turn |-> FALSE]
    /\ live = [t \in Turn |-> << >>]
    /\ kept = [t \in Turn |-> 0]
    /\ phase = [x \in Executor |-> "serving"]
    /\ storeFaults = 0
    /\ putFaults = 0

Goto(t, l) == pc' = [pc EXCEPT ![t] = l]

(* Abort a run unless its signal already fired.                             *)
Abort(T, r) ==
    abortReason' = [t \in Turn |->
        IF t \in T /\ abortReason[t] = "none" THEN r ELSE abortReason[t]]

(* tracked(): the finally around the forwarded stream.                      *)
Complete(t) == registered' = [registered EXCEPT ![t] = FALSE]

-----------------------------------------------------------------------------
(* SessionHandle.createTurn, from the request handler that read the session *)
(* record.  "auto" is the tip of that record, "none" starts a new root, and *)
(* an id forks from any turn.                                               *)
Arrive(t, x, p) ==
    /\ pc[t] = "idle"
    /\ phase[x] = "serving"
    /\ sessionExists
    /\ p \in {tip, None} \cup {q \in Turn : Known(q)}
    /\ host' = [host EXCEPT ![t] = x]
    /\ parent' = [parent EXCEPT ![t] = p]
    /\ Goto(t, IF p = None THEN "resolve" ELSE "freeze")
    /\ UNCHANGED <<storeVars, seen, abortReason, verdict, reading, registered,
                   live, kept, phase, storeFaults, putFaults>>

(* Fault: the parent is read without being frozen.                          *)
FreezeParentReadOnly(t) ==
    /\ pc[t] = "freeze"
    /\ Known(parent[t])
    /\ seen' = [seen EXCEPT ![t] = snapshot[parent[t]]]
    /\ Goto(t, "resolve")
    /\ UNCHANGED <<storeVars, host, parent, abortReason, verdict, reading,
                   registered, live, kept, phase, storeFaults, putFaults>>

(* A running parent is cancelled; its now final snapshot builds the threads.*)
FreezeParent(t) ==
    /\ pc[t] = "freeze"
    /\ FreezeAndGetTurn(parent[t], "cancelled-for-next-turn")
    /\ seen' = [seen EXCEPT ![t] = snapshot[parent[t]]]
    /\ Goto(t, "resolve")
    /\ UNCHANGED <<host, parent, abortReason, verdict, reading, registered,
                   live, kept, phase, storeFaults, putFaults>>

(* Resources, agent definitions or the input batch are refused: nothing is  *)
(* persisted.                                                               *)
Reject(t) ==
    /\ pc[t] = "resolve"
    /\ Goto(t, "failed")
    /\ UNCHANGED <<storeVars, host, parent, seen, abortReason, verdict, reading,
                   registered, live, kept, phase, storeFaults, putFaults>>

Commit(t) ==
    /\ pc[t] = "resolve"
    /\ CreateTurn(t, parent[t], host[t])
    /\ Goto(t, "committed")
    /\ UNCHANGED <<host, parent, seen, abortReason, verdict, reading, registered,
                   live, kept, phase, storeFaults, putFaults>>

(* Fault: a run tracked after shutdown began is not aborted.                *)
TrackWithoutShutdownCheck(t) ==
    /\ pc[t] = "committed"
    /\ registered' = [registered EXCEPT ![t] = TRUE]
    /\ Goto(t, "opening")
    /\ UNCHANGED <<storeVars, host, parent, seen, abortReason, verdict, reading,
                   live, kept, phase, storeFaults, putFaults>>

(* The session record is refreshed; then, without another await, the timer  *)
(* is armed, the run registered (and aborted if shutdown has begun) and the *)
(* drain started.                                                           *)
Track(t) ==
    /\ pc[t] = "committed"
    /\ registered' = [registered EXCEPT ![t] = TRUE]
    /\ Abort(IF ShutDown(host[t]) THEN {t} ELSE {}, "abandoned")
    /\ Goto(t, "opening")
    /\ UNCHANGED <<storeVars, host, parent, seen, verdict, reading,
                   live, kept, phase, storeFaults, putFaults>>

-----------------------------------------------------------------------------
(* TurnHandle.stream: the first append.  A turn settled before it is not    *)
(* "frozen" but an error caught by the outer try.                           *)
AppendCreated(t) ==
    /\ pc[t] = "opening"
    /\ \/ /\ Len(log[t]) < MaxEvents
          /\ AppendToEvents(t, "turn.created")
          /\ Goto(t, "created")
          /\ UNCHANGED verdict
       \/ /\ IsSettled(t)
          /\ Goto(t, "finalize")
          /\ verdict' = [verdict EXCEPT ![t] = "error"]
          /\ UNCHANGED storeVars
    /\ UNCHANGED <<host, parent, seen, abortReason, reading, registered,
                   live, kept, phase, storeFaults, putFaults>>

(* What a run that yielded hands to the drain.                              *)
Handed(t) == CASE pc[t] = "created"   -> "turn.created"
               [] pc[t] = "streaming" -> "delta"
               [] pc[t] = "yielding"  -> "event"

(* drainTurnEvents: turnEventStream.put of a yielded event, which resumes   *)
(* the generator.                                                           *)
Publish(t) ==
    /\ pc[t] \in {"created", "streaming", "yielding"}
    /\ live' = [live EXCEPT ![t] = Append(@, Handed(t))]
    /\ Goto(t, "executing")
    /\ UNCHANGED <<storeVars, host, parent, seen, abortReason, verdict, reading,
                   registered, kept, phase, storeFaults, putFaults>>

(* The positions of a live stream that hold no model output.                *)
Durably(l) == {i \in 1..Len(l) : l[i] # "delta"}

(* persistExecutionEvent of MODEL_MESSAGE and MODEL_MESSAGE_DELTA: yielded  *)
(* as they are, whatever became of the turn in the store.  The text reaches *)
(* the store later, with an event that is kept.                             *)
StreamOutput(t) ==
    /\ pc[t] = "executing"
    /\ Len(live[t]) - Cardinality(Durably(live[t])) < MaxDeltas
    /\ Goto(t, "streaming")
    /\ UNCHANGED <<storeVars, host, parent, seen, abortReason, verdict, reading,
                   registered, live, kept, phase, storeFaults, putFaults>>

(* persistExecutionEvent, the half that writes the snapshot.  Some events   *)
(* also go to the log ("appending"), some do not.                           *)
PersistSnapshot(t) ==
    /\ pc[t] = "executing"
    /\ snapshot[t] < MaxWrites
    /\ WriteSnapshot(t)
    /\ \/ Goto(t, "executing")
       \/ Len(log[t]) < MaxEvents /\ Goto(t, "appending")
    /\ UNCHANGED <<host, parent, seen, abortReason, verdict, reading, registered,
                   live, kept, phase, storeFaults, putFaults>>

(* Fault: an event that is not model output is yielded like model output.   *)
PersistEventNot(t) ==
    /\ pc[t] \in {"executing", "appending"}
    /\ Cardinality(Durably(live[t])) <= MaxEvents
    /\ Goto(t, "yielding")
    /\ UNCHANGED <<storeVars, host, parent, seen, abortReason, verdict, reading,
                   registered, live, kept, phase, storeFaults, putFaults>>

(* persistExecutionEvent, the half that appends to the log; then the event  *)
(* is yielded, or kept (model output, already streamed).                    *)
PersistEvent(t) ==
    /\ pc[t] \in {"executing", "appending"}
    /\ Len(log[t]) < MaxEvents
    /\ AppendToEvents(t, "event")
    /\ \/ Goto(t, "yielding") /\ UNCHANGED kept
       \/ Goto(t, "executing") /\ kept' = [kept EXCEPT ![t] = @ + 1]
    /\ UNCHANGED <<host, parent, seen, abortReason, verdict, reading, registered,
                   live, phase, storeFaults, putFaults>>

(* Fault: the frozen run reports its own idea of the outcome.               *)
FenceRefusesOwnVerdict(t) ==
    /\ pc[t] \in {"executing", "appending"}
    /\ IsSettled(t)
    /\ verdict' = [verdict EXCEPT ![t] = "client-cancelled"]
    /\ Goto(t, "frozen")
    /\ UNCHANGED <<storeVars, host, parent, seen, abortReason, reading,
                   registered, live, kept, phase, storeFaults, putFaults>>

(* The write of an event meets a turn another writer settled: the stream    *)
(* adopts the stored state and yields it as its turn.done.                  *)
FenceRefuses(t) ==
    /\ pc[t] \in {"executing", "appending"}
    /\ IsSettled(t)
    /\ verdict' = [verdict EXCEPT ![t] = state[t]]
    /\ Goto(t, "frozen")
    /\ UNCHANGED <<storeVars, host, parent, seen, abortReason, reading,
                   registered, live, kept, phase, storeFaults, putFaults>>

(* orchestrator.execute returns a result or a root agent error, or throws.  *)
ExecutionEnds(t) ==
    /\ pc[t] = "executing"
    /\ \E o \in {"done", "error"} : verdict' = [verdict EXCEPT ![t] = o]
    /\ Goto(t, "finalize")
    /\ UNCHANGED <<storeVars, host, parent, seen, abortReason, reading,
                   registered, live, kept, phase, storeFaults, putFaults>>

(* The finally block computes the terminal state: an abort outranks an      *)
(* error, an error a result; with neither, the consumer left.               *)
Decide(t) ==
    /\ pc[t] = "finalize"
    /\ verdict' = [verdict EXCEPT ![t] =
                      IF abortReason[t] # "none" THEN abortReason[t]
                      ELSE IF @ = "absent" THEN "client-cancelled" ELSE @]
    /\ Goto(t, "settling")
    /\ UNCHANGED <<storeVars, host, parent, seen, abortReason, reading,
                   registered, live, kept, phase, storeFaults, putFaults>>

(* Fault: a terminal write that lost the race keeps its own verdict.        *)
SettleTurnKeepVerdict(t) ==
    /\ pc[t] = "settling"
    /\ Known(t)
    /\ \/ UpdateTurnState(t, verdict[t])
       \/ IsSettled(t) /\ UNCHANGED storeVars
    /\ Goto(t, IF reading[t] THEN "announcing" ELSE "suspended")
    /\ UNCHANGED <<host, parent, seen, abortReason, verdict, reading, registered,
                   live, kept, phase, storeFaults, putFaults>>

(* The terminal write.  If another writer settled the turn first, its state *)
(* is adopted.  The resolver is closed and turn.done yielded; a consumer    *)
(* that already called return() never resumes that yield.                   *)
SettleTurn(t) ==
    /\ pc[t] = "settling"
    /\ \/ /\ UpdateTurnState(t, verdict[t])
          /\ UNCHANGED verdict
       \/ /\ IsSettled(t)
          /\ verdict' = [verdict EXCEPT ![t] = state[t]]
          /\ UNCHANGED storeVars
    /\ Goto(t, IF reading[t] THEN "announcing" ELSE "suspended")
    /\ UNCHANGED <<host, parent, seen, abortReason, reading, registered,
                   live, kept, phase, storeFaults, putFaults>>

(* Fault: the run stays registered after its stream completed.              *)
AnnounceWithoutComplete(t) ==
    /\ pc[t] \in {"announcing", "frozen"}
    /\ live' = [live EXCEPT ![t] = Append(@, verdict[t])]
    /\ Goto(t, "ended")
    /\ UNCHANGED <<storeVars, host, parent, seen, abortReason, verdict, reading,
                   registered, kept, phase, storeFaults, putFaults>>

(* turn.done is published; the generator, tracked() and the drain finish.   *)
Announce(t) ==
    /\ pc[t] \in {"announcing", "frozen"}
    /\ live' = [live EXCEPT ![t] = Append(@, verdict[t])]
    /\ Complete(t)
    /\ Goto(t, "ended")
    /\ UNCHANGED <<storeVars, host, parent, seen, abortReason, verdict, reading,
                   kept, phase, storeFaults, putFaults>>

-----------------------------------------------------------------------------
(* A store call that throws: createTurn fails (the refresh after the commit *)
(* leaves a committed turn nobody runs), the stream's try catches it, and   *)
(* in the finally it rejects the stream.                                    *)
Throw(t) ==
    /\ \/ /\ pc[t] \in InRequest
          /\ Goto(t, "failed")
          /\ UNCHANGED <<verdict, registered>>
       \/ /\ pc[t] \in {"opening", "executing", "appending"}
          /\ Goto(t, "finalize")
          /\ verdict' = [verdict EXCEPT ![t] = "error"]
          /\ UNCHANGED registered
       \/ /\ pc[t] = "settling"
          /\ Goto(t, "ended")
          /\ Complete(t)
          /\ UNCHANGED verdict
    /\ UNCHANGED <<storeVars, host, parent, seen, abortReason, reading,
                   live, kept, phase, putFaults>>

(* The store is unreachable for one call, which changes nothing.            *)
StoreFault(t) ==
    /\ storeFaults < MaxStoreFaults
    /\ storeFaults' = storeFaults + 1
    /\ Throw(t)

(* The call names a session or turn that is gone, or a previous turn that   *)
(* is still running.                                                        *)
StoreRefuses(t) ==
    /\ \/ pc[t] = "freeze" /\ ~Known(parent[t])
       \/ /\ pc[t] = "resolve"
          /\ sessionExists => parent[t] # None /\ IsRunning(parent[t])
       \/ pc[t] \in {"opening", "executing", "appending", "settling"} /\ ~Known(t)
    /\ Throw(t)
    /\ UNCHANGED storeFaults

(* put rejects: for-await calls return() on the tracked stream.  Mid-run    *)
(* that enters the finally block; at the last yield it just ends.           *)
PutFault(t) ==
    /\ putFaults < MaxPutFaults
    /\ putFaults' = putFaults + 1
    /\ reading' = [reading EXCEPT ![t] = FALSE]
    /\ \/ /\ pc[t] \in {"created", "streaming", "yielding"}
          /\ Goto(t, "finalize")
          /\ verdict' = [verdict EXCEPT ![t] = "absent"]
          /\ UNCHANGED registered
       \/ /\ pc[t] \in {"announcing", "frozen"}
          /\ Goto(t, "ended")
          /\ Complete(t)
          /\ UNCHANGED verdict
    /\ UNCHANGED <<storeVars, host, parent, seen, abortReason, live, kept,
                   phase, storeFaults>>

(* Fault: the timer is cleared at the first event.                          *)
TimeLimitCleared(t) ==
    /\ t \in Slow
    /\ pc[t] \in {"opening", "created"}
    /\ abortReason[t] = "none"
    /\ Abort({t}, "server-execution-timeout")
    /\ UNCHANGED <<storeVars, pc, host, parent, seen, verdict, reading,
                   registered, live, kept, phase, storeFaults, putFaults>>

(* SERVER_EXECUTION_TIMEOUT_SECONDS; the drain clears the timer.            *)
TimeLimit(t) ==
    /\ t \in Slow
    /\ pc[t] \in InStream
    /\ abortReason[t] = "none"
    /\ Abort({t}, "server-execution-timeout")
    /\ UNCHANGED <<storeVars, pc, host, parent, seen, verdict, reading,
                   registered, live, kept, phase, storeFaults, putFaults>>

(* One step of the request or the run of turn t.                            *)
RunStep(t) ==
    \/ FreezeParent(t) \/ Reject(t) \/ Commit(t) \/ Track(t)
    \/ AppendCreated(t) \/ Publish(t) \/ StreamOutput(t)
    \/ PersistSnapshot(t) \/ PersistEvent(t) \/ FenceRefuses(t)
    \/ ExecutionEnds(t) \/ Decide(t) \/ SettleTurn(t) \/ Announce(t)
    \/ StoreFault(t) \/ StoreRefuses(t) \/ PutFault(t) \/ TimeLimit(t)

-----------------------------------------------------------------------------
RunTypeOK ==
    /\ pc \in [Turn -> {"idle"} \cup InRequest \cup InStream \cup Over]
    /\ host \in [Turn -> Executor \cup {None}]
    /\ parent \in [Turn -> Turn \cup {None}]
    /\ seen \in [Turn -> Nat]
    /\ abortReason \in [Turn -> Reason \cup {"none"}]
    /\ verdict \in [Turn -> Settled \cup {"absent"}]
    /\ reading \in [Turn -> BOOLEAN]
    /\ registered \in [Turn -> BOOLEAN]
    /\ live \in [Turn -> Seq({"turn.created", "event", "delta"} \cup Settled)]
    /\ kept \in [Turn -> Nat]
    /\ phase \in [Executor -> {"serving", "closing", "draining", "drained",
                               "exited", "down"}]
    /\ storeFaults \in 0..MaxStoreFaults
    /\ putFaults \in 0..MaxPutFaults
=============================================================================
