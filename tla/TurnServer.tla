----------------------------- MODULE TurnServer ------------------------------
(***************************************************************************)
(* Executor processes serving one session: the create-turn requests and    *)
(* runs of TurnExecution, session-cancel requests (local abort, peer abort *)
(* over Redis request-reply, freeze), session deletion, graceful shutdown, *)
(* crash and restart.                                                      *)
(***************************************************************************)
EXTENDS TurnExecution

CONSTANTS Canceller,    \* POST /sessions/{id}/cancel requests
          UseRedis,     \* a Redis client is configured: peers can be asked
          Impatient,    \* turns whose SSE client may disconnect
          Restarts,     \* EXECUTOR_ID = 'local' (standalone): ids come back
          Deletable,    \* the session may be deleted
          Stoppable,    \* executors that may receive SIGTERM
          MaxCrashes    \* bound: process deaths

ASSUME SwitchAssumption ==
    /\ UseRedis \in BOOLEAN /\ Restarts \in BOOLEAN /\ Deletable \in BOOLEAN
    /\ Impatient \subseteq Turn /\ Stoppable \subseteq Executor
    /\ MaxCrashes \in Nat

VARIABLES cpc,       \* control point of every cancel request
          chost,     \* executor serving it
          cturn,     \* the turn it found as the session's tip
          mail,      \* its peer request: unsent, sent, or the reply status
          gone,      \* the SSE client of the turn disconnected
          crashes

cancelVars == <<cpc, chost, cturn, mail>>
vars == <<turnVars, cancelVars, gone, crashes>>

Init ==
    /\ StoreInit
    /\ RunInit
    /\ cpc = [c \in Canceller |-> "idle"]
    /\ chost = [c \in Canceller |-> None]
    /\ cturn = [c \in Canceller |-> None]
    /\ mail = [c \in Canceller |-> "unsent"]
    /\ gone = [t \in Turn |-> FALSE]
    /\ crashes = 0

CGoto(c, l) == cpc' = [cpc EXCEPT ![c] = l]

runButAbort == <<pc, host, parent, seen, verdict, reading, registered, live,
                 kept, phase, storeFaults, putFaults>>

(* The run of turn t is in the registry of executor x.                      *)
RunsHere(t, x) == registered[t] /\ host[t] = x

-----------------------------------------------------------------------------
(* cancelSessionHandler: the session record names the turn.                 *)
CancelRequest(c, x) ==
    /\ cpc[c] = "idle"
    /\ phase[x] = "serving"
    /\ sessionExists
    /\ chost' = [chost EXCEPT ![c] = x]
    /\ cturn' = [cturn EXCEPT ![c] = tip]
    /\ CGoto(c, IF tip = None THEN "done" ELSE "look")
    /\ UNCHANGED <<turnVars, mail, gone, crashes>>

(* cancelSessionTurn: getTurn; a missing or terminal turn ends the request. *)
CancelLook(c) ==
    /\ cpc[c] = "look"
    /\ CGoto(c, IF IsRunning(cturn[c]) THEN "route" ELSE "done")
    /\ UNCHANGED <<turnVars, chost, cturn, mail, gone, crashes>>

(* Fault: a turn not found in this process is taken as cancelled.           *)
CancelLocallyNoFreeze(c) ==
    LET t == cturn[c] IN
    /\ cpc[c] = "route"
    /\ owner[t] = chost[c] \/ ~UseRedis
    /\ Abort(IF RunsHere(t, chost[c]) THEN {t} ELSE {}, "client-cancelled")
    /\ CGoto(c, "done")
    /\ UNCHANGED <<storeVars, runButAbort, chost, cturn, mail, gone, crashes>>

(* The owner is this process, or nobody can be asked: abort the run if it   *)
(* is registered here, else freeze the turn.                                *)
CancelLocally(c) ==
    LET t == cturn[c] IN
    /\ cpc[c] = "route"
    /\ owner[t] = chost[c] \/ ~UseRedis
    /\ Abort(IF RunsHere(t, chost[c]) THEN {t} ELSE {}, "client-cancelled")
    /\ CGoto(c, IF RunsHere(t, chost[c]) THEN "done" ELSE "freeze")
    /\ UNCHANGED <<storeVars, runButAbort, chost, cturn, mail, gone, crashes>>

(* redisRequest: publish on the owner's channel.                            *)
CancelAskPeer(c) ==
    /\ cpc[c] = "route"
    /\ owner[cturn[c]] # chost[c] /\ UseRedis
    /\ mail' = [mail EXCEPT ![c] = "sent"]
    /\ CGoto(c, "asked")
    /\ UNCHANGED <<turnVars, chost, cturn, gone, crashes>>

(* cancelSessionTurnPeerHandler on the owner, possibly after the asker has  *)
(* stopped waiting: 200 if it aborted the run, 412 if it has none.          *)
PeerCancels(c) ==
    LET t == cturn[c]  x == owner[t] IN
    /\ mail[c] = "sent"
    /\ Alive(x)
    /\ \/ RunsHere(t, x) /\ mail' = [mail EXCEPT ![c] = "200"]
       \/ ~RunsHere(t, x) /\ mail' = [mail EXCEPT ![c] = "412"]
    /\ Abort(IF RunsHere(t, x) THEN {t} ELSE {}, "client-cancelled")
    /\ UNCHANGED <<storeVars, runButAbort, cpc, chost, cturn, gone, crashes>>

CancelConfirmed(c) ==
    /\ cpc[c] = "asked"
    /\ mail[c] = "200"
    /\ CGoto(c, "done")
    /\ UNCHANGED <<turnVars, chost, cturn, mail, gone, crashes>>

(* Fault: a peer that cannot be reached counts as cancelled.                *)
CancelGivesUp(c) ==
    /\ cpc[c] = "asked"
    /\ CGoto(c, "done")
    /\ UNCHANGED <<turnVars, chost, cturn, mail, gone, crashes>>

(* 412, no responder, timeout (even of a reply on its way), or a transport  *)
(* failure: the abort is not confirmed.                                     *)
CancelUnconfirmed(c) ==
    /\ cpc[c] = "asked"
    /\ CGoto(c, "freeze")
    /\ UNCHANGED <<turnVars, chost, cturn, mail, gone, crashes>>

(* Fault: every freeze is recorded as a barge-in.                           *)
CancelFreezesAsBargeIn(c) ==
    /\ cpc[c] = "freeze"
    /\ \/ FreezeAndGetTurn(cturn[c], "cancelled-for-next-turn")
       \/ ~Known(cturn[c]) /\ UNCHANGED storeVars
    /\ CGoto(c, "done")
    /\ UNCHANGED <<runVars, chost, cturn, mail, gone, crashes>>

(* freezeTurnIgnoringMissing.                                               *)
CancelFreezes(c) ==
    /\ cpc[c] = "freeze"
    /\ \/ FreezeAndGetTurn(cturn[c], "client-cancelled")
       \/ ~Known(cturn[c]) /\ UNCHANGED storeVars
    /\ CGoto(c, "done")
    /\ UNCHANGED <<runVars, chost, cturn, mail, gone, crashes>>

(* The store is unreachable: the request fails and may be made again.       *)
CancelFault(c) ==
    /\ cpc[c] \in {"look", "freeze"}
    /\ storeFaults < MaxStoreFaults
    /\ storeFaults' = storeFaults + 1
    /\ CGoto(c, "failed")
    /\ UNCHANGED <<storeVars, pc, host, parent, seen, abortReason, verdict,
                   reading, registered, live, kept, phase, putFaults,
                   chost, cturn, mail, gone, crashes>>

CancelStep(c) ==
    \/ CancelLook(c) \/ CancelLocally(c) \/ CancelAskPeer(c) \/ PeerCancels(c)
    \/ CancelConfirmed(c) \/ CancelUnconfirmed(c) \/ CancelFreezes(c)
    \/ CancelFault(c)

-----------------------------------------------------------------------------
(* DELETE /sessions/{id}.                                                   *)
Delete ==
    /\ Deletable
    /\ DeleteSession
    /\ UNCHANGED <<runVars, cancelVars, gone, crashes>>

(* The SSE client disconnects: the run and its drain go on without it.      *)
Disconnect(t) ==
    /\ t \in Impatient
    /\ ~gone[t]
    /\ pc[t] \in InRequest \cup InStream
    /\ gone' = [gone EXCEPT ![t] = TRUE]
    /\ UNCHANGED <<turnVars, cancelVars, crashes>>

runButPhase == <<pc, host, parent, seen, verdict, reading, registered, live,
                 kept, storeFaults, putFaults>>

(* SIGTERM: server.close() refuses new requests, then the schedule          *)
(* controller is awaited.                                                   *)
CloseServer(x) ==
    /\ x \in Stoppable
    /\ phase[x] = "serving"
    /\ phase' = [phase EXCEPT ![x] = "closing"]
    /\ UNCHANGED <<storeVars, runButPhase, abortReason, cancelVars, gone, crashes>>

(* Fault: shutdown aborts nothing.                                          *)
BeginDrainQuietly(x) ==
    /\ phase[x] = "closing"
    /\ phase' = [phase EXCEPT ![x] = "draining"]
    /\ UNCHANGED <<storeVars, runButPhase, abortReason, cancelVars, gone, crashes>>

(* shutdownAndWait: remember the reason and abort every registered run.     *)
BeginDrain(x) ==
    /\ phase[x] = "closing"
    /\ phase' = [phase EXCEPT ![x] = "draining"]
    /\ Abort({t \in Turn : RunsHere(t, x)}, "abandoned")
    /\ UNCHANGED <<storeVars, runButPhase, cancelVars, gone, crashes>>

(* Its loop ends when it finds the registry empty.                          *)
Drained(x) ==
    /\ phase[x] = "draining"
    /\ \A t \in Turn : ~RunsHere(t, x)
    /\ phase' = [phase EXCEPT ![x] = "drained"]
    /\ UNCHANGED <<storeVars, runButPhase, abortReason, cancelVars, gone, crashes>>

(* The HTTP exchange of the create request is open.  With stream: false it  *)
(* ends once the first event is published.                                  *)
Open(t) ==
    /\ ~gone[t]
    /\ \/ pc[t] \in InRequest
       \/ pc[t] \in InStream /\ (t \in Detached => live[t] = << >>)

Kill(x) ==
    /\ pc' = [t \in Turn |->
                 IF host[t] = x /\ pc[t] \in InRequest \cup InStream \cup {"suspended"}
                 THEN "lost" ELSE pc[t]]
    /\ registered' = [t \in Turn |-> registered[t] /\ host[t] # x]
    /\ cpc' = [c \in Canceller |->
                 IF chost[c] = x /\ cpc[c] \notin {"done", "failed"}
                 THEN "lost" ELSE cpc[c]]
    /\ UNCHANGED <<storeVars, host, parent, seen, abortReason, verdict, reading,
                   live, kept, storeFaults, putFaults, chost, cturn, mail, gone>>

(* Fault: shutdown does not wait for open connections.                      *)
ExitEarly(x) ==
    /\ phase[x] = "drained"
    /\ phase' = [phase EXCEPT ![x] = "exited"]
    /\ Kill(x)
    /\ UNCHANGED crashes

(* "await closed": every HTTP exchange has ended; then process.exit(0).     *)
Exit(x) ==
    /\ phase[x] = "drained"
    /\ \A t \in Turn : host[t] = x => ~Open(t)
    /\ \A c \in Canceller :
          chost[c] = x => cpc[c] \in {"done", "failed"}
    /\ phase' = [phase EXCEPT ![x] = "exited"]
    /\ Kill(x)
    /\ UNCHANGED crashes

(* A crash, or process.exit(1) when GRACEFUL_TIMEOUT_SECONDS pass.          *)
Crash(x) ==
    /\ crashes < MaxCrashes
    /\ crashes' = crashes + 1
    /\ Alive(x)
    /\ phase' = [phase EXCEPT ![x] = "down"]
    /\ Kill(x)

Restart(x) ==
    /\ Restarts
    /\ ~Alive(x)
    /\ phase' = [phase EXCEPT ![x] = "serving"]
    /\ UNCHANGED <<storeVars, runButPhase, abortReason, cancelVars, gone, crashes>>

Next ==
    \/ \E t \in Turn, x \in Executor, p \in Turn \cup {None} :
          Arrive(t, x, p) /\ UNCHANGED <<cancelVars, gone, crashes>>
    \/ \E t \in Turn : RunStep(t) /\ UNCHANGED <<cancelVars, gone, crashes>>
    \/ \E c \in Canceller, x \in Executor : CancelRequest(c, x)
    \/ \E c \in Canceller : CancelStep(c)
    \/ Delete
    \/ \E t \in Turn : Disconnect(t)
    \/ \E x \in Executor :
          CloseServer(x) \/ BeginDrain(x) \/ Drained(x) \/ Exit(x)
          \/ Crash(x) \/ Restart(x)

Spec == Init /\ [][Next]_vars

(* What the runtime schedules: a promise that was resolved continues, an    *)
(* aborted orchestrator returns, a peer request is answered or times out.   *)
(* Nothing makes clients call, processes stop, or an execution that is not  *)
(* aborted end.                                                             *)
RunProgress(t) ==
    /\ \/ FreezeParent(t) \/ Reject(t) \/ Commit(t) \/ Track(t)
       \/ AppendCreated(t) \/ Publish(t)
       \/ pc[t] = "appending" /\ (PersistEvent(t) \/ FenceRefuses(t))
       \/ abortReason[t] # "none" /\ ExecutionEnds(t)
       \/ Decide(t) \/ SettleTurn(t) \/ Announce(t) \/ StoreRefuses(t)
    /\ UNCHANGED <<cancelVars, gone, crashes>>

CancelProgress(c) ==
    \/ CancelLook(c) \/ CancelLocally(c) \/ CancelAskPeer(c)
    \/ CancelConfirmed(c) \/ CancelUnconfirmed(c) \/ CancelFreezes(c)

Fairness ==
    /\ \A t \in Turn : WF_vars(RunProgress(t))
    /\ \A c \in Canceller : WF_vars(CancelProgress(c))
    /\ \A x \in Executor : WF_vars(BeginDrain(x) \/ Drained(x) \/ Exit(x))

FairSpec == Spec /\ Fairness

(* The execution timer is armed for every run.  It is kept out of Fairness: *)
(* only properties that name it may rest on it.                             *)
TimersFire ==
    \A t \in Turn : WF_vars(TimeLimit(t) /\ UNCHANGED <<cancelVars, gone, crashes>>)

-----------------------------------------------------------------------------
(* The outcome the live stream of t ends with.                              *)
Told(t) ==
    IF live[t] # << >> /\ live[t][Len(live[t])] \in Settled
    THEN live[t][Len(live[t])] ELSE "nothing"

Promise == INSTANCE TurnPromise WITH
    Outcome <- Settled,
    present <- sessionExists,
    status  <- [t \in Turn |-> IF Known(t) THEN state[t] ELSE "none"],
    told    <- [t \in Turn |-> Told(t)]

(* With all its requests, peers, crashes and faults the server does nothing *)
(* a client of TurnPromise could notice.                                    *)
KeepsPromise == Promise!PromiseSpec

TypeOK ==
    /\ StoreTypeOK
    /\ RunTypeOK
    /\ cpc \in [Canceller -> {"idle", "look", "route", "asked", "freeze",
                              "done", "failed", "lost"}]
    /\ chost \in [Canceller -> Executor \cup {None}]
    /\ cturn \in [Canceller -> Turn \cup {None}]
    /\ mail \in [Canceller -> {"unsent", "sent", "200", "412"}]
    /\ gone \in [Turn -> BOOLEAN]
    /\ crashes \in 0..MaxCrashes

(* Subscribers are told the outcome that is stored: whoever settled the     *)
(* turn, a turn.done in the live stream carries the persisted state, and it *)
(* is the last event (TurnHandle.stream adopts the stored state when it     *)
(* loses the race).                                                         *)
ToldWhatIsStored ==
    \A t \in Turn : \A i \in 1..Len(live[t]) :
        live[t][i] \in Settled =>
            /\ i = Len(live[t])
            /\ sessionExists => state[t] = live[t][i]

(* All that subscribers see, but model output, is in the durable log first: *)
(* the log always holds as many events as were published beside those that  *)
(* are kept, however the run was cut short, and begins with turn.created    *)
(* (TurnHandle.ts:192, "yield order = persist order"; model messages and    *)
(* deltas are "NEVER persisted" and may be seen and lost).                  *)
PublishedIsDurable ==
    sessionExists =>
        \A t \in Turn :
            /\ Cardinality(Durably(live[t])) + kept[t] <= Len(log[t])
            /\ live[t] # << >> => IsSettled(t) \/ log[t][1] = "turn.created"

(* The threads a run works with are built from the record createTurn read;  *)
(* the row it inserts inherits the parent's snapshot from the store.  Both  *)
(* are the same version, although other requests act in between.            *)
RunsOnWhatItInherited ==
    sessionExists =>
        \A t \in Turn : Known(t) => seen[t] = base[t]

(* A cancel request that was answered has not been dropped: the turn it     *)
(* named is settled, or its abort signal has fired - wherever the run is,   *)
(* whatever Redis lost, and in the gap between commit and track.            *)
CancelReachesTurn ==
    \A c \in Canceller :
        (cpc[c] = "done" /\ cturn[c] # None) =>
            ~IsRunning(cturn[c]) \/ abortReason[cturn[c]] # "none"

(* A stored cancellation has the cause its reason names.                    *)
ReasonHasCause ==
    \A t \in Turn :
        /\ state[t] = "abandoned" => phase[owner[t]] \notin {"serving", "closing"}
        /\ state[t] = "cancelled-for-next-turn" => \E u \in Turn : parent[u] = t
        /\ state[t] = "client-cancelled" =>
              \/ ~reading[t]
              \/ \E c \in Canceller : cturn[c] = t

(* Once shutdown has begun no run of the process goes on unaborted: those   *)
(* registered were aborted, those registered late are aborted on the spot.  *)
NoRunOutlivesShutdown ==
    \A t \in Turn :
        (registered[t] /\ ShutDown(host[t])) => abortReason[t] # "none"

(* The run of t was given up: a store call of it failed, or an earlier      *)
(* process with the same id crashed.                                        *)
GivenUp(t) ==
    \/ storeFaults > 0 /\ pc[t] \in {"failed", "ended"}
    \/ crashes > 0 /\ pc[t] = "lost"

(* A process that exited gracefully leaves no streamed turn running whose   *)
(* client stayed and whose run was not given up: "await closed" waits for   *)
(* the response, and the response for the run (main.ts:743).                *)
GracefulExitSettles ==
    \A t \in Turn :
        IsRunning(t) /\ owner[t] \in Executor /\ phase[owner[t]] = "exited" =>
            t \in Detached \/ gone[t] \/ GivenUp(t)

(* main.ts:743: whatever is committed before the registry was empty and     *)
(* tracked after it is covered by "await closed".                           *)
ClosedCoversGap ==
    \A x \in Executor :
        phase[x] = "exited" =>
            \A t \in Turn : host[t] = x /\ abortReason[t] = "abandoned" => ~IsRunning(t)

(* Every turn that is created is settled, or deleted with its session:      *)
(* the execution timer aborts a run that would not end by itself.           *)
EveryTurnSettles ==
    TimersFire => \A t \in Turn : Known(t) ~> ~IsRunning(t)

(* A cancel request is answered, and then the turn it named stops running,  *)
(* without help from the execution timer.                                   *)
CancelSettles ==
    \A c \in Canceller :
        (cpc[c] = "look") ~>
            (cpc[c] = "done" /\ \A t \in Turn : cturn[c] = t => ~IsRunning(t))

(* A run leaves the registry (ActiveTurnRegistry.track) unless its consumer *)
(* stopped reading in the middle: then it is parked at its last yield.      *)
RunsLeaveRegistry ==
    TimersFire => \A t \in Turn : registered[t] ~> ~registered[t] \/ ~reading[t]

(* A graceful shutdown finishes, without help from the execution timer: it  *)
(* aborts the runs of the process, and waits for ever for a parked one only.*)
ShutdownFinishes ==
    \A x \in Executor :
        (phase[x] = "closing") ~>
            \/ phase[x] = "exited"
            \/ \E t \in Turn : RunsHere(t, x) /\ pc[t] = "suspended"
=============================================================================
