--------------------------- MODULE ScheduleDispatch ---------------------------
(***************************************************************************)
(* The schedule controller and the API server it hands runs to, over the   *)
(* tables of ScheduleStore.  One controller makes passes over the due runs;*)
(* each run is handed off by an HTTP request that the server executes on   *)
(* its own, whether or not the controller is still waiting for it.  With   *)
(* Standalone both are one process and stop, crash and start together.     *)
(***************************************************************************)
EXTENDS ScheduleStore, FiniteSets

CONSTANTS Post,         \* requests the server executes at a time
          Standalone,   \* STANDALONE: controller and server in one process
          BatchLimit,   \* DISPATCH_BATCH_LIMIT
          MaxRetries,   \* DEFAULT_MAX_RETRIES of the SDK
          Deletable,    \* schedules may be deleted
          SlowPuts,     \* a PUT may wait for its lock while time passes
          MaxManual,    \* bound: run-now requests
          MaxFaults,    \* bound: failing requests and failing transactions
          MaxStops      \* bound: stops and crashes

ASSUME DispatchBounds == {BatchLimit, MaxRetries, MaxManual,
                          MaxFaults, MaxStops} \subseteq Nat

VARIABLES ctl,        \* the controller process: "up", "stopping", "down"
          pass,       \* where the pass in flight is
          batch,      \* the due runs this pass has still to handle
          passNow,    \* the one clock reading of the pass
          item,       \* the run being handled
          verdict,    \* what its hand-off came to
          seen,       \* the schedule's status read under the lock
          tries,      \* retries of this hand-off
          post,       \* requests executing on the server
          turns,      \* turns in the session keyed by the run's id
          overlapped, \* auxiliary: runs with two hand-offs at the same time
          faults, stops

passVars == <<pass, batch, passNow, item, verdict, seen, tries>>
vars == <<storeVars, ctl, passVars, post, turns, overlapped, faults, stops>>

Idle == [pc |-> "idle", run |-> 0, from |-> "nobody"]

Init ==
    /\ ScheduleInit
    /\ ctl = "up"
    /\ pass = "idle" /\ batch = {} /\ passNow = 0 /\ item = 0
    /\ verdict = "none" /\ seen = "none" /\ tries = 0
    /\ post = [p \in Post |-> Idle]
    /\ turns = [r \in Run |-> 0]
    /\ overlapped = {}
    /\ faults = 0 /\ stops = 0

(* server.close() comes first: a stopping process accepts no connection.    *)
Listening == Standalone => ctl = "up"
InServer(r) == {p \in Post : post[p].pc # "idle" /\ post[p].run = r}
Fault == faults < MaxFaults /\ faults' = faults + 1

-----------------------------------------------------------------------------
(* The execute and run-now handlers.                                        *)

(* The answer; nobody is left to read it when the controller gave up.       *)
Respond(p, res) ==
    post' = CASE post[p].from = "controller" -> [post EXCEPT ![p].pc = res]
              [] post[p].from = "user" /\ res # "ok"
                                      -> [post EXCEPT ![p].pc = "mark"]
              [] OTHER                -> [post EXCEPT ![p] = Idle]

(* Fault: the session is opened for whatever run id was asked for.          *)
PostLoadTrusting(p) ==
    /\ post[p].pc = "load"
    /\ post' = [post EXCEPT ![p].pc = "session"]
    /\ UNCHANGED <<storeVars, ctl, passVars, turns, overlapped, faults, stops>>

(* loadScheduleDispatchItem: a run or schedule deleted meanwhile is a 404.  *)
PostLoad(p) ==
    /\ post[p].pc = "load"
    /\ IF runStatus[post[p].run] \in Stored
       THEN post' = [post EXCEPT ![p].pc = "session"]
       ELSE Respond(p, "missing")
    /\ UNCHANGED <<storeVars, ctl, passVars, turns, overlapped, faults, stops>>

(* Fault: the turns of the session are not looked at.                       *)
PostListTurnsNot(p) ==
    /\ post[p].pc = "session"
    /\ post' = [post EXCEPT ![p].pc = "start"]
    /\ UNCHANGED <<storeVars, ctl, passVars, turns, overlapped, faults, stops>>

(* startScheduleRun: get or create the run's session (its external id is    *)
(* unique), then look for a turn in it.                                     *)
PostListTurns(p) ==
    /\ post[p].pc = "session"
    /\ IF turns[post[p].run] > 0
       THEN Respond(p, "ok")
       ELSE post' = [post EXCEPT ![p].pc = "start"]
    /\ UNCHANGED <<storeVars, ctl, passVars, turns, overlapped, faults, stops>>

(* startTurnInProcess: the turn is created with no parent.                  *)
PostStart(p) ==
    /\ post[p].pc = "start"
    /\ turns' = [turns EXCEPT ![post[p].run] = @ + 1]
    /\ post' = [post EXCEPT ![p].pc = "started"]
    /\ UNCHANGED <<storeVars, ctl, passVars, overlapped, faults, stops>>

PostDone(p) ==
    /\ post[p].pc = "started"
    /\ Respond(p, "ok")
    /\ UNCHANGED <<storeVars, ctl, passVars, turns, overlapped, faults, stops>>

(* A store or the agent lookup fails, before or after the turn is there.    *)
PostFails(p) ==
    /\ post[p].pc \in {"load", "session", "start", "started"}
    /\ Fault
    /\ Respond(p, "error")
    /\ UNCHANGED <<storeVars, ctl, passVars, turns, overlapped, stops>>

(* createScheduleRunHandler up to the start: the row is there, triggered,   *)
(* before the turn.                                                         *)
RunNow(p, s) ==
    /\ Listening
    /\ post[p] = Idle
    /\ Cardinality(manual) < MaxManual
    /\ status[s] \in Live
    /\ \E r \in Run :
        /\ IsFresh(r)
        /\ post' = [post EXCEPT ![p] = [pc |-> "session", run |-> r,
                                        from |-> "user"]]
    /\ InsertRun(runStatus, s, clock, "triggered")
    /\ UNCHANGED <<clock, status, cron, lock, put, ctl, passVars,
                   turns, overlapped, faults, stops>>

(* Its catch block.                                                         *)
RunNowFailed(p) ==
    LET r == post[p].run IN
    /\ post[p].pc = "mark"
    /\ runStatus' = [runStatus EXCEPT ![r] =
                        IF @ \in Stored THEN "failed" ELSE @]
    /\ post' = [post EXCEPT ![p] = Idle]
    /\ UNCHANGED <<clock, status, cron, runOf, scheduledFor, manual, lock, put,
                   ctl, passVars, turns, overlapped, faults, stops>>

PostStep(p) == \/ PostLoad(p) \/ PostListTurns(p) \/ PostStart(p)
               \/ PostDone(p) \/ RunNowFailed(p)

-----------------------------------------------------------------------------
(* dispatchScheduledRuns.                                                   *)

Due == {r \in Run : runStatus[r] = "scheduled" /\ scheduledFor[r] <= clock}

(* listScheduledRuns: the oldest due runs, up to the limit.                 *)
Oldest(B) == /\ B \subseteq Due
             /\ Cardinality(B) = IF Cardinality(Due) < BatchLimit
                                 THEN Cardinality(Due) ELSE BatchLimit
             /\ \A r \in B, q \in Due \ B : scheduledFor[r] <= scheduledFor[q]

(* #tick: no pass while another is in flight, none once stopped.  A pass    *)
(* over no run changes nothing.                                             *)
Tick ==
    /\ ctl = "up"
    /\ pass = "idle"
    /\ Due # {}
    /\ \E B \in SUBSET Due : Oldest(B) /\ batch' = B
    /\ passNow' = clock
    /\ pass' = "next"
    /\ UNCHANGED <<storeVars, ctl, item, verdict, seen, tries, post, turns,
                   overlapped, faults, stops>>

NoItem == item' = 0 /\ verdict' = "none" /\ seen' = "none" /\ tries' = 0
NoPass == pass' = "idle" /\ batch' = {} /\ passNow' = 0 /\ NoItem

(* Fault: an aborted pass stays in flight for the re-entrancy guard.        *)
EndPassGuarded ==
    /\ pass = "next"
    /\ batch = {} \/ ctl = "stopping"
    /\ batch' = {}
    /\ UNCHANGED <<storeVars, ctl, pass, passNow, item, verdict, seen, tries,
                   post, turns, overlapped, faults, stops>>

(* The pass is over, or aborted between two runs.                           *)
EndPass ==
    /\ pass = "next"
    /\ batch = {} \/ ctl = "stopping"
    /\ NoPass
    /\ UNCHANGED <<storeVars, ctl, post, turns, overlapped, faults, stops>>

(* The next run of the batch; only a deleted schedule stops it here.        *)
NextRun ==
    /\ pass = "next"
    /\ ctl = "up"
    /\ \E r \in batch :
        /\ \A q \in batch : scheduledFor[r] <= scheduledFor[q]
        /\ batch' = batch \ {r}
        /\ IF status[runOf[r]] = "gone"
           THEN UNCHANGED <<item, pass, tries>>
           ELSE item' = r /\ pass' = "send" /\ tries' = 0
    /\ UNCHANGED <<storeVars, ctl, passNow, verdict, seen, post, turns,
                   overlapped, faults, stops>>

(* onTriggered: POST .../runs/execute.  A connection refused is an error    *)
(* the SDK does not retry.                                                  *)
Send ==
    /\ pass = "send"
    /\ IF Listening
       THEN \E p \in Post :
              /\ post[p] = Idle
              /\ post' = [post EXCEPT ![p] = [pc |-> "load", run |-> item,
                                              from |-> "controller"]]
              /\ overlapped' = IF InServer(item) = {} THEN overlapped
                               ELSE overlapped \cup {item}
              /\ pass' = "wait" /\ UNCHANGED verdict
       ELSE pass' = "finish" /\ verdict' = "failed" /\ UNCHANGED <<post, overlapped>>
    /\ UNCHANGED <<storeVars, ctl, batch, passNow, item, seen, tries, turns,
                   faults, stops>>

(* Fault: a request that timed out counts as handed off.                    *)
TimeoutTriggered(p) ==
    /\ pass = "wait"
    /\ post[p].from = "controller"
    /\ post' = [post EXCEPT ![p].from = "nobody"]
    /\ pass' = "finish" /\ verdict' = "triggered"
    /\ UNCHANGED <<storeVars, ctl, batch, passNow, item, seen, tries, turns,
                   overlapped, faults, stops>>

(* 60 seconds without an answer: the SDK gives up, the server does not.     *)
Timeout(p) ==
    /\ pass = "wait"
    /\ post[p].from = "controller"
    /\ post[p].pc \notin {"ok", "missing", "error"}
    /\ post' = [post EXCEPT ![p].from = "nobody"]
    /\ pass' = "finish" /\ verdict' = "failed"
    /\ UNCHANGED <<storeVars, ctl, batch, passNow, item, seen, tries, turns,
                   overlapped, faults, stops>>

(* requestWithRetries sends a 5xx again; 204 and 404 end the hand-off.      *)
Answered(p) ==
    /\ pass = "wait"
    /\ post[p].from = "controller"
    /\ post[p].pc \in {"ok", "missing", "error"}
    /\ post' = [post EXCEPT ![p] = Idle]
    /\ IF post[p].pc = "error" /\ tries < MaxRetries
       THEN pass' = "send" /\ tries' = tries + 1 /\ UNCHANGED verdict
       ELSE /\ pass' = "finish"
            /\ verdict' = IF post[p].pc = "ok" THEN "triggered" ELSE "failed"
            /\ UNCHANGED tries
    /\ UNCHANGED <<storeVars, ctl, batch, passNow, item, seen, turns,
                   overlapped, faults, stops>>

(* finishScheduledRun: the schedule is locked and re-read first.            *)
FinishLock ==
    LET s == runOf[item] IN
    /\ pass = "finish"
    /\ lock[s] = None
    /\ lock' = [lock EXCEPT ![s] = Controller]
    /\ seen' = status[s]
    /\ pass' = "commit"
    /\ UNCHANGED <<clock, status, cron, rowVars, put, ctl, batch, passNow, item,
                   verdict, tries, post, turns, overlapped, faults, stops>>

Release == /\ lock' = [lock EXCEPT ![runOf[item]] = None]
           /\ pass' = "next" /\ NoItem
           /\ UNCHANGED <<clock, status, cron, put, ctl, batch, passNow,
                          post, turns, overlapped, stops>>

(* Update the run and, if the schedule is active, plan its next one after   *)
(* the run's time and the pass's; a run withdrawn meanwhile ends it.        *)
FinishCommit ==
    LET from == IF scheduledFor[item] > passNow THEN scheduledFor[item]
                ELSE passNow
        done == [runStatus EXCEPT ![item] = verdict]
        next == NextTrigger(cron[runOf[item]], from)
    IN
    /\ pass = "commit"
    /\ CASE runStatus[item] \notin Stored -> UNCHANGED rowVars
         [] runStatus[item] \in Stored /\ seen # "active"
              -> runStatus' = done /\ UNCHANGED <<runOf, scheduledFor, manual>>
         [] OTHER -> /\ Insertable(done, runOf[item], next)
                     /\ InsertRun(done, runOf[item], next, "scheduled")
    /\ Release /\ UNCHANGED faults

(* The transaction fails and rolls back: logged, the run stays scheduled    *)
(* for the next pass.                                                       *)
FinishFails == pass = "commit" /\ Fault /\ Release /\ UNCHANGED rowVars

ControllerStep == \/ Tick \/ EndPass \/ NextRun \/ Send \/ FinishLock
                  \/ FinishCommit \/ \E p \in Post : Answered(p)

-----------------------------------------------------------------------------
(* The processes.                                                           *)

(* Controller.stop, called after server.close() in a standalone process.    *)
Stop ==
    /\ ctl = "up"
    /\ stops < MaxStops /\ stops' = stops + 1
    /\ ctl' = "stopping"
    /\ UNCHANGED <<storeVars, passVars, post, turns, overlapped, faults>>

PutsServed == \A w \in Writer : put[w].pc \in {"waiting", "served"}

(* The pass in flight is awaited; a standalone process drains its requests. *)
Exit ==
    /\ ctl = "stopping"
    /\ pass = "idle"
    /\ Standalone => PutsServed /\ \A p \in Post : post[p] = Idle
    /\ ctl' = "down"
    /\ UNCHANGED <<storeVars, passVars, post, turns, overlapped, faults, stops>>

(* What a dead process held: its locks go, what it had not committed too.   *)
FreeLocks(dead) ==
    lock' = [s \in Schedule |-> IF lock[s] \in dead THEN None ELSE lock[s]]
DropPuts ==
    put' = [w \in Writer |-> IF put[w].pc \in {"locking", "locked"}
                             THEN Served ELSE put[w]]

(* The controller dies, or is killed at the drain timeout.  A server of its *)
(* own goes on with the requests it has.                                    *)
ControllerCrash ==
    /\ ctl # "down"
    /\ stops < MaxStops /\ stops' = stops + 1
    /\ ctl' = "down"
    /\ NoPass
    /\ IF Standalone
       THEN /\ post' = [p \in Post |-> Idle]
            /\ FreeLocks(Writer \cup {Controller})
            /\ DropPuts
       ELSE /\ post' = [p \in Post |->
                  IF post[p].from # "controller" THEN post[p]
                  ELSE IF post[p].pc \in {"ok", "missing", "error"} THEN Idle
                  ELSE [post[p] EXCEPT !.from = "nobody"]]
            /\ FreeLocks({Controller})
            /\ UNCHANGED put
    /\ UNCHANGED <<clock, status, cron, rowVars, turns, overlapped, faults>>

(* A server of its own dies with its requests; the controller's hand-off    *)
(* fails without an answer.                                                 *)
ServerCrash ==
    /\ ~Standalone
    /\ stops < MaxStops /\ stops' = stops + 1
    /\ post' = [p \in Post |-> Idle]
    /\ FreeLocks(Writer)
    /\ DropPuts
    /\ IF pass = "wait" THEN pass' = "finish" /\ verdict' = "failed"
       ELSE UNCHANGED <<pass, verdict>>
    /\ UNCHANGED <<clock, status, cron, rowVars, ctl, batch, passNow, item,
                   seen, tries, turns, overlapped, faults>>

(* main(): the controller starts with an immediate pass.                    *)
Start ==
    /\ ctl = "down"
    /\ ctl' = "up"
    /\ UNCHANGED <<storeVars, passVars, post, turns, overlapped, faults, stops>>

-----------------------------------------------------------------------------
TimePasses ==
    /\ clock < Horizon
    /\ SlowPuts \/ PutsServed
    /\ clock' = clock + 1
    /\ UNCHANGED <<status, cron, rowVars, lock, put, ctl, passVars, post, turns,
                   overlapped, faults, stops>>

ElseUnchanged == UNCHANGED <<ctl, passVars, post, turns, overlapped, stops>>

(* A PUT whose transaction fails for another reason.                        *)
PutFails(w) == /\ put[w].pc = "locked" /\ Fault /\ PutEnds(w)
               /\ UNCHANGED <<clock, status, cron, rowVars>>

Api == \/ /\ Listening
          /\ UNCHANGED faults
          /\ \/ \E s \in Schedule, st \in Live, c \in Cron : CreateSchedule(s, st, c)
             \/ \E w \in Writer, s \in Schedule, st \in Live, c \in Cron :
                   PutBegin(w, s, st, c)
             \/ Deletable /\ \E s \in Schedule : DeleteSchedule(s)
       \/ \E w \in Writer : PutStep(w) /\ UNCHANGED faults
       \/ \E w \in Writer : PutFails(w)

Next == \/ TimePasses
        \/ Api /\ ElseUnchanged
        \/ \E p \in Post : PostStep(p) \/ PostFails(p) \/ Timeout(p)
        \/ \E p \in Post, s \in Schedule : RunNow(p, s)
        \/ ControllerStep \/ FinishFails
        \/ Stop \/ Exit \/ ControllerCrash \/ ServerCrash \/ Start

Spec == Init /\ [][Next]_vars

(* What runs goes on running: the controller's loop, the handlers, the      *)
(* database; a stopped process is started again.                            *)
FairSpec ==
    /\ Spec
    /\ WF_vars(ControllerStep)
    /\ \A p \in Post : WF_vars(PostStep(p))
    /\ \A w \in Writer :
          WF_vars(PutStep(w) /\ UNCHANGED faults /\ ElseUnchanged)
    /\ WF_vars(Exit) /\ WF_vars(Start)

-----------------------------------------------------------------------------
TypeOK ==
    /\ clock \in 0 .. Horizon
    /\ status \in [Schedule -> Live \cup {"none", "gone"}]
    /\ cron \in [Schedule -> Cron \cup {0}]
    /\ runStatus \in [Run -> Stored \cup {"unborn", "removed"}]
    /\ runOf \in [Run -> Schedule \cup {None}]
    /\ scheduledFor \in [Run -> Nat]
    /\ manual \in SUBSET Run
    /\ lock \in [Schedule -> Writer \cup {Controller, None}]
    /\ put \in [Writer -> [pc : {"waiting", "locking", "locked", "served"},
                           schedule : Schedule \cup {None},
                           status : Live \cup {"none"},
                           cron : Cron \cup {0}, from : Nat]]
    /\ ctl \in {"up", "stopping", "down"}
    /\ pass \in {"idle", "next", "send", "wait", "finish", "commit"}
    /\ batch \in SUBSET Run
    /\ passNow \in 0 .. Horizon
    /\ item \in Run \cup {0}
    /\ verdict \in {"none", "triggered", "failed"}
    /\ seen \in Live \cup {"none", "gone"}
    /\ tries \in 0 .. MaxRetries
    /\ post \in [Post -> [pc : {"idle", "load", "session", "start", "started",
                                "mark", "ok", "missing", "error"},
                          run : Run \cup {0},
                          from : {"controller", "user", "nobody"}]]
    /\ turns \in [Run -> Nat]
    /\ overlapped \in SUBSET Run
    /\ faults \in Nat /\ stops \in Nat

(* An active schedule has exactly one pending run in every committed state, *)
(* any other has none: no schedule goes silent, none keeps firing, whatever *)
(* PUT, delete, dispatch and crash interleave (scheduleDispatch.ts:239-260).*)
PendingMatchesStatus ==
    \A s \in Schedule :
        IF status[s] = "active"
        THEN \E r \in Run : Pending(runStatus, s) = {r}
        ELSE Pending(runStatus, s) = {}

(* The next run a pass plans never collides with a run that is there: a     *)
(* finish that conflicted would roll back and hand its run off on every     *)
(* later pass (scheduleDispatch.ts:196-226).                                *)
NextNeverConflicts ==
    pass = "commit" /\ runStatus[item] \in Stored /\ seen = "active" =>
        Insertable([runStatus EXCEPT ![item] = verdict], runOf[item],
                   NextTrigger(cron[runOf[item]],
                               IF scheduledFor[item] > passNow
                               THEN scheduledFor[item] ELSE passNow))

(* A cron run recorded as triggered has its turn, through retries, crashes  *)
(* and restarts of either side (scheduleDispatch.ts:298-324).               *)
TriggeredHasTurn ==
    \A r \in Run \ manual : runStatus[r] = "triggered" => turns[r] > 0

(* Retries one after the other start one turn: only hand-offs the server    *)
(* executes at the same time can start two (startScheduleRun,               *)
(* scheduleDispatch.ts:130-134).                                            *)
RetriedOnce == \A r \in Run : r \notin overlapped => turns[r] <= 1

(* However often a run is handed off, it starts one turn: "Idempotent on    *)
(* retry" (scheduleDispatch.ts:92).                                         *)
OneTurnPerRun == \A r \in Run : turns[r] <= 1

(* A run withdrawn (paused, edited, deleted) before a request loaded it     *)
(* never gets a turn, although dispatch may have read it before             *)
(* (scheduleDispatch.ts:246-260).                                           *)
Withdrawn(r) == /\ runStatus[r] = "removed"
                /\ \A p \in Post : post[p].run = r =>
                       post[p].pc \in {"idle", "load", "missing", "error"}
WithdrawnNeverRuns ==
    [][\A r \in Run : Withdrawn(r) => Withdrawn(r)' /\ turns'[r] = turns[r]]_vars

(* Every due run is taken or withdrawn: no backlog, fault, stop or crash    *)
(* keeps one pending for ever (scheduleDispatch.ts:19-24, Controller.ts:104).*)
DueRunsTaken ==
    \A r \in Run : r \in Due ~> runStatus[r] # "scheduled"
==============================================================================
