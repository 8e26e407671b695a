---------------------------- MODULE ScheduleStore ----------------------------
(***************************************************************************)
(* Schedules, their runs and the transactions that write both, as          *)
(* PostgresScheduleStore executes them: a transaction locks the schedule   *)
(* row, reads it, and commits its writes at once or not at all; a unique   *)
(* index refuses a second pending run of a schedule, another one a second  *)
(* run with the same name.                                                 *)
(*                                                                         *)
(* A run id is minted once and never reused, so a run deleted and planned  *)
(* again is another run.  A cron expression is the length of its period;   *)
(* time is a counter.                                                      *)
(***************************************************************************)
EXTENDS Naturals

CONSTANTS Schedule,     \* schedule ids
          Writer,       \* PUT requests, each served once
          Cron,         \* cron expressions, as periods
          Controller,   \* the dispatcher, as the holder of a lock
          None,         \* no schedule, no lock
          MaxRuns,      \* bound: run rows ever inserted
          Horizon       \* bound: the clock

ASSUME CronAssumption == Cron \subseteq Nat \ {0}
ASSUME BoundsAssumption == MaxRuns \in Nat /\ Horizon \in Nat
ASSUME LockAssumption == /\ None \notin Schedule \cup Writer
                         /\ Controller \notin Writer \cup {None}

Run == 1 .. MaxRuns

VARIABLES clock,         \* the time both processes read
          status,        \* schedule.status; "none" before, "gone" after its life
          cron,          \* schedule.manifest.cron
          runStatus,     \* schedule_run.status; "removed" when deleted
          runOf,         \* schedule_run.schedule_id
          scheduledFor,  \* schedule_run.scheduled_for
          manual,        \* the runs created by run-now
          lock,          \* holder of the schedule's row lock
          put            \* the PUT requests

rowVars   == <<runStatus, runOf, scheduledFor, manual>>
storeVars == <<clock, status, cron, rowVars, lock, put>>

-----------------------------------------------------------------------------
Live   == {"active", "paused"}
Stored == {"scheduled", "triggered", "failed"}

NoPut == [pc |-> "waiting", schedule |-> None, status |-> "none",
          cron |-> 0, from |-> 0]
Served == [NoPut EXCEPT !.pc = "served"]

ScheduleInit ==
    /\ clock = 0
    /\ status = [s \in Schedule |-> "none"]
    /\ cron = [s \in Schedule |-> 0]
    /\ runStatus = [r \in Run |-> "unborn"]
    /\ runOf = [r \in Run |-> None]
    /\ scheduledFor = [r \in Run |-> 0]
    /\ manual = {}
    /\ lock = [s \in Schedule |-> None]
    /\ put = [w \in Writer |-> NoPut]

(* Fault: the trigger time at or after, not strictly after.                 *)
NextTriggerInclusive(c, t) == ((t + c - 1) \div c) * c

(* nextTriggerAfter: the first trigger time strictly after t.               *)
NextTrigger(c, t) == (t \div c + 1) * c

(* The pending runs of s, and the names its cron runs have, in a table of   *)
(* run statuses: the two unique indexes of schedule_run.                    *)
Pending(rows, s) == {r \in Run : runOf[r] = s /\ rows[r] = "scheduled"}
NameTaken(rows, s, t) ==
    \E r \in Run \ manual :
        runOf[r] = s /\ rows[r] \in Stored /\ scheduledFor[r] = t
Insertable(rows, s, t) == Pending(rows, s) = {} /\ ~NameTaken(rows, s, t)

IsFresh(r) == /\ runStatus[r] = "unborn"
              /\ \A q \in Run : q < r => runStatus[q] # "unborn"

(* createRun, on top of what the transaction has made of the rows so far.   *)
InsertRun(rows, s, t, st) ==
    \E r \in Run :
        /\ IsFresh(r)
        /\ runStatus' = [rows EXCEPT ![r] = st]
        /\ runOf' = [runOf EXCEPT ![r] = s]
        /\ scheduledFor' = [scheduledFor EXCEPT ![r] = t]
        /\ manual' = IF st = "scheduled" THEN manual ELSE manual \cup {r}

(* The rows without the pending run of s.                                   *)
Swept(s) == [r \in Run |-> IF runOf[r] = s /\ runStatus[r] = "scheduled"
                           THEN "removed" ELSE runStatus[r]]

(* #syncPendingRun: clear the pending run; a replacement follows only for   *)
(* an active schedule.                                                      *)
SyncPendingRun(s, st, c, from) ==
    IF st # "active"
    THEN runStatus' = Swept(s) /\ UNCHANGED <<runOf, scheduledFor, manual>>
    ELSE /\ Insertable(Swept(s), s, NextTrigger(c, from))
         /\ InsertRun(Swept(s), s, NextTrigger(c, from), "scheduled")

(* createScheduleAndRun.                                                    *)
CreateSchedule(s, st, c) ==
    /\ status[s] = "none"
    /\ status' = [status EXCEPT ![s] = st]
    /\ cron' = [cron EXCEPT ![s] = c]
    /\ SyncPendingRun(s, st, c, clock)
    /\ UNCHANGED <<clock, lock, put>>

(* putHandler: the schedule exists; the transaction's callback reads the    *)
(* clock before it asks for the lock.                                       *)
PutBegin(w, s, st, c) ==
    /\ put[w].pc = "waiting"
    /\ status[s] \in Live
    /\ put' = [put EXCEPT ![w] = [pc |-> "locking", schedule |-> s,
                                  status |-> st, cron |-> c, from |-> clock]]
    /\ UNCHANGED <<clock, status, cron, rowVars, lock>>

(* getScheduleForUpdate; a schedule deleted meanwhile is a 404.             *)
PutLock(w) ==
    LET s == put[w].schedule IN
    /\ put[w].pc = "locking"
    /\ IF status[s] \in Live
       THEN /\ lock[s] = None
            /\ lock' = [lock EXCEPT ![s] = w]
            /\ put' = [put EXCEPT ![w].pc = "locked"]
       ELSE /\ put' = [put EXCEPT ![w] = Served]
            /\ UNCHANGED lock
    /\ UNCHANGED <<clock, status, cron, rowVars>>

PutEnds(w) == /\ lock' = [lock EXCEPT ![put[w].schedule] = None]
              /\ put' = [put EXCEPT ![w] = Served]

(* Fault: a change of status alone is not a reason to sync.                 *)
ShouldSyncCronOnly(w) == put[w].cron # cron[put[w].schedule]

(* shouldSyncPendingRun: the status or the trigger times change.            *)
ShouldSync(w) ==
    LET s == put[w].schedule IN
    put[w].status # status[s] \/ put[w].cron # cron[s]

(* updateScheduleAndRun, committed.                                         *)
PutCommit(w) ==
    LET s == put[w].schedule IN
    /\ put[w].pc = "locked"
    /\ IF ShouldSync(w)
       THEN SyncPendingRun(s, put[w].status, put[w].cron, put[w].from)
       ELSE UNCHANGED rowVars
    /\ status' = [status EXCEPT ![s] = put[w].status]
    /\ cron' = [cron EXCEPT ![s] = put[w].cron]
    /\ PutEnds(w)
    /\ UNCHANGED clock

(* The same, rolled back: the new pending run has the name of an older run  *)
(* (409, "retry the request").                                              *)
PutConflict(w) ==
    LET s == put[w].schedule IN
    /\ put[w].pc = "locked"
    /\ ShouldSync(w)
    /\ put[w].status = "active"
    /\ ~Insertable(Swept(s), s, NextTrigger(put[w].cron, put[w].from))
    /\ PutEnds(w)
    /\ UNCHANGED <<clock, status, cron, rowVars>>

(* deleteSchedule waits for the row lock; the runs go with the schedule.    *)
DeleteSchedule(s) ==
    /\ status[s] \in Live
    /\ lock[s] = None
    /\ status' = [status EXCEPT ![s] = "gone"]
    /\ runStatus' = [r \in Run |-> IF runOf[r] = s THEN "removed"
                                   ELSE runStatus[r]]
    /\ UNCHANGED <<clock, cron, runOf, scheduledFor, manual, lock, put>>

PutStep(w) == PutLock(w) \/ PutCommit(w) \/ PutConflict(w)
==============================================================================
