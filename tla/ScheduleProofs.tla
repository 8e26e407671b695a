--------------------------- MODULE ScheduleProofs ---------------------------
(***************************************************************************)
(* Proofs about ScheduleDispatch for any sets of schedules, requests and   *)
(* cron expressions and any bounds.                                        *)
(***************************************************************************)
EXTENDS ScheduleDispatch, TLAPS

(* The next trigger time is a time, and strictly later.                     *)
LEMMA NextTriggerLater ==
    ASSUME NEW c \in Cron, NEW t \in Nat
    PROVE  NextTrigger(c, t) \in Nat /\ NextTrigger(c, t) > t
<1>1. c \in Nat /\ c > 0
  BY CronAssumption
<1> DEFINE d == t \div c
<1>2. d \in Nat /\ t = d * c + (t % c) /\ t % c \in 0 .. c - 1
  BY <1>1
<1>3. NextTrigger(c, t) = d * c + c
  BY <1>1, <1>2 DEF NextTrigger
<1>4. d * c \in Nat
  BY <1>1, <1>2
<1> HIDE DEF d
<1> QED BY <1>1, <1>2, <1>3, <1>4

-----------------------------------------------------------------------------
(* What holds of the data beyond its types: a row is born with its schedule *)
(* and stays, whoever points at a run points at a born one, and a hand-off  *)
(* that is over has a verdict.                                              *)
RowTypes ==
    /\ runStatus \in [Run -> Stored \cup {"unborn", "removed"}]
    /\ runOf \in [Run -> Schedule \cup {None}]
    /\ scheduledFor \in [Run -> Nat]
    /\ manual \in SUBSET Run
    /\ \A r \in Run : runStatus[r] = "unborn" <=> runOf[r] = None

StoreSound ==
    /\ clock \in 0 .. Horizon
    /\ status \in [Schedule -> Live \cup {"none", "gone"}]
    /\ cron \in [Schedule -> Cron \cup {0}]
    /\ lock \in [Schedule -> Writer \cup {Controller, None}]
    /\ put \in [Writer -> [pc : {"waiting", "locking", "locked", "served"},
                           schedule : Schedule \cup {None},
                           status : Live \cup {"none"},
                           cron : Cron \cup {0}, from : Nat]]
    /\ RowTypes
    /\ \A r \in Run : runOf[r] # None => status[runOf[r]] # "none"
    /\ \A s \in Schedule : status[s] # "none" => cron[s] \in Cron
    /\ \A w \in Writer : put[w].pc \in {"locking", "locked"} =>
           /\ put[w].schedule \in Schedule
           /\ status[put[w].schedule] # "none"
           /\ put[w].status \in Live
           /\ put[w].cron \in Cron

Born(r) == r \in Run /\ runStatus[r] # "unborn"
Handling == pass \in {"send", "wait", "finish", "commit"}

PassSound ==
    /\ ctl \in {"up", "stopping", "down"}
    /\ pass \in {"idle", "next", "send", "wait", "finish", "commit"}
    /\ batch \in SUBSET Run
    /\ passNow \in 0 .. Horizon
    /\ item \in Run \cup {0}
    /\ verdict \in {"none", "triggered", "failed"}
    /\ seen \in Live \cup {"none", "gone"}
    /\ tries \in 0 .. MaxRetries
    /\ \A r \in batch : Born(r)
    /\ Handling => Born(item)
    /\ pass \in {"finish", "commit"} => verdict \in {"triggered", "failed"}

PostSound ==
    /\ post \in [Post -> [pc : {"idle", "load", "session", "start", "started",
                                "mark", "ok", "missing", "error"},
                          run : Run \cup {0},
                          from : {"controller", "user", "nobody"}]]
    /\ turns \in [Run -> Nat]
    /\ overlapped \in SUBSET Run
    /\ faults \in Nat /\ stops \in Nat
    /\ \A p \in Post : post[p].pc # "idle" => Born(post[p].run)

Sound == StoreSound /\ PassSound /\ PostSound

LEMMA SoundTyped == Sound => TypeOK
BY DEF Sound, StoreSound, RowTypes, PassSound, PostSound, TypeOK

(* Born rows stay born, with their schedule and time.                       *)
KeepsBorn ==
    \A r \in Run : runStatus[r] # "unborn" =>
        /\ runStatus'[r] # "unborn"
        /\ runOf'[r] = runOf[r]
        /\ scheduledFor'[r] = scheduledFor[r]

LEMMA StoreKept == ASSUME StoreSound, UNCHANGED storeVars
                   PROVE  StoreSound' /\ KeepsBorn
BY DEF StoreSound, RowTypes, KeepsBorn, storeVars, rowVars

LEMMA PassKept == ASSUME PassSound, KeepsBorn, UNCHANGED <<ctl, passVars>>
                  PROVE  PassSound'
BY DEF PassSound, KeepsBorn, Born, Handling, passVars

LEMMA PostKept == ASSUME PostSound, KeepsBorn, faults' \in Nat,
                         UNCHANGED <<post, turns, overlapped, stops>>
                  PROVE  PostSound'
BY DEF PostSound, KeepsBorn, Born

LEMMA Faulty == ASSUME PostSound, Fault PROVE faults' \in Nat
BY DEF PostSound, Fault

-----------------------------------------------------------------------------
(* Rows.                                                                    *)

(* Two fresh rows are the same row.                                         *)
LEMMA FreshOnce ==
    ASSUME NEW q \in Run, NEW r \in Run, IsFresh(q), IsFresh(r)
    PROVE  q = r
BY BoundsAssumption DEF IsFresh, Run

(* What an insertion may start from: rows moved on, none born or unborn.    *)
Moved(rows) ==
    /\ rows \in [Run -> Stored \cup {"unborn", "removed"}]
    /\ \A r \in Run : rows[r] = "unborn" <=> runStatus[r] = "unborn"

(* What one insertion does: row r of schedule s is added to rows.           *)
Adds(rows, r, s, t, st) ==
    /\ runStatus[r] = "unborn" /\ runOf[r] = None
    /\ runStatus' = [rows EXCEPT ![r] = st]
    /\ runOf' = [runOf EXCEPT ![r] = s]
    /\ scheduledFor' = [scheduledFor EXCEPT ![r] = t]
    /\ manual' = IF st = "scheduled" THEN manual ELSE manual \cup {r}

LEMMA Inserted ==
    ASSUME RowTypes, NEW rows, Moved(rows),
           NEW s \in Schedule, NEW t \in Nat, NEW st \in Stored,
           InsertRun(rows, s, t, st)
    PROVE  \E r \in Run : IsFresh(r) /\ Adds(rows, r, s, t, st)
BY DEF InsertRun, IsFresh, Adds, RowTypes

LEMMA Added ==
    ASSUME RowTypes, NEW rows, Moved(rows),
           NEW s \in Schedule, NEW t \in Nat, NEW st \in Stored,
           NEW r \in Run, Adds(rows, r, s, t, st)
    PROVE  /\ RowTypes' /\ KeepsBorn
           /\ \A q \in Run : runOf'[q] \in {runOf[q], s}
<1>1. s # None /\ st # "unborn"
  BY LockAssumption DEF Stored
<1> QED BY <1>1 DEF RowTypes, Moved, Adds, KeepsBorn

(* Clearing the pending run.                                                *)
LEMMA SweptMoved ==
    ASSUME RowTypes, NEW s \in Schedule
    PROVE  /\ Moved(Swept(s))
           /\ \A r \in Run : Swept(s)[r] =
                 IF runOf[r] = s /\ runStatus[r] = "scheduled"
                 THEN "removed" ELSE runStatus[r]
BY DEF RowTypes, Moved, Swept, Stored

LEMMA Synced ==
    ASSUME RowTypes, NEW s \in Schedule, NEW st \in Live, NEW c \in Cron,
           NEW t \in Nat, SyncPendingRun(s, st, c, t)
    PROVE  /\ RowTypes' /\ KeepsBorn
           /\ \A q \in Run : runOf'[q] \in {runOf[q], s}
<1>1. CASE st # "active"
  <2>1. runStatus' = Swept(s) /\ UNCHANGED <<runOf, scheduledFor, manual>>
    BY <1>1 DEF SyncPendingRun
  <2> QED BY <2>1, SweptMoved DEF RowTypes, Moved, KeepsBorn
<1>2. CASE st = "active"
  <2>1. InsertRun(Swept(s), s, NextTrigger(c, t), "scheduled")
    BY <1>2 DEF SyncPendingRun
  <2>2. NextTrigger(c, t) \in Nat /\ "scheduled" \in Stored
    BY NextTriggerLater DEF Stored
  <2>3. \E r \in Run : Adds(Swept(s), r, s, NextTrigger(c, t), "scheduled")
    BY <2>1, <2>2, SweptMoved, Inserted
  <2> QED BY <2>2, <2>3, SweptMoved, Added
<1> QED BY <1>1, <1>2
-----------------------------------------------------------------------------
(* The transactions and the passing of time keep the store sound.           *)
LEMMA StoreAfter ==
    ASSUME StoreSound, RowTypes', KeepsBorn, NEW s \in Schedule,
           \A q \in Run : runOf'[q] \in {runOf[q], s},
           NEW st \in Live, NEW c \in Cron,
           clock' = clock,
           status' = [status EXCEPT ![s] = st],
           cron' = [cron EXCEPT ![s] = c],
           \/ UNCHANGED <<lock, put>>
           \/ \E w \in Writer : put[w].schedule = s /\ PutEnds(w)
    PROVE  StoreSound'
<1>1. /\ status' \in [Schedule -> Live \cup {"none", "gone"}]
      /\ cron' \in [Schedule -> Cron \cup {0}]
      /\ \A u \in Schedule : status[u] # "none" => status'[u] # "none"
      /\ \A u \in Schedule : status'[u] # "none" => cron'[u] \in Cron
      /\ \A r \in Run : runOf'[r] # None => status'[runOf'[r]] # "none"
  <2>1. st # "none" /\ s # None
    BY LockAssumption DEF Live
  <2> QED BY <2>1, LockAssumption DEF StoreSound, RowTypes, KeepsBorn
<1>2. /\ lock' \in [Schedule -> Writer \cup {Controller, None}]
      /\ put' \in [Writer -> [pc : {"waiting", "locking", "locked", "served"},
                              schedule : Schedule \cup {None},
                              status : Live \cup {"none"},
                              cron : Cron \cup {0}, from : Nat]]
      /\ \A w \in Writer : put'[w].pc \in {"locking", "locked"} =>
             put'[w] = put[w]
  BY DEF PutEnds, Served, NoPut, StoreSound
<1> QED BY <1>1, <1>2 DEF StoreSound

(* A transaction that leaves the rows alone.                                *)
LEMMA StoreRows ==
    ASSUME StoreSound, UNCHANGED <<status, cron, rowVars>>,
           clock' \in 0 .. Horizon,
           lock' \in [Schedule -> Writer \cup {Controller, None}],
           put' \in [Writer -> [pc : {"waiting", "locking", "locked", "served"},
                                schedule : Schedule \cup {None},
                                status : Live \cup {"none"},
                                cron : Cron \cup {0}, from : Nat]],
           \A w \in Writer : put'[w].pc \in {"locking", "locked"} =>
              \/ put'[w] = [put[w] EXCEPT !.pc = put'[w].pc]
                 /\ put[w].pc \in {"locking", "locked"}
              \/ /\ put'[w].schedule \in Schedule
                 /\ status[put'[w].schedule] # "none"
                 /\ put'[w].status \in Live
                 /\ put'[w].cron \in Cron
    PROVE  StoreSound' /\ KeepsBorn
<1>1. KeepsBorn /\ RowTypes'
  BY DEF StoreSound, RowTypes, KeepsBorn, rowVars
<1>2. \A w \in Writer : put'[w].pc \in {"locking", "locked"} =>
                 /\ put'[w].schedule \in Schedule
                 /\ status[put'[w].schedule] # "none"
                 /\ put'[w].status \in Live
                 /\ put'[w].cron \in Cron
  BY DEF StoreSound
<1> QED BY <1>1, <1>2 DEF StoreSound, rowVars

LEMMA CreateScheduleSound ==
    ASSUME StoreSound, NEW s \in Schedule, NEW st \in Live, NEW c \in Cron,
           CreateSchedule(s, st, c)
    PROVE  StoreSound' /\ KeepsBorn
<1>1. clock \in Nat /\ RowTypes /\ SyncPendingRun(s, st, c, clock)
  BY BoundsAssumption DEF StoreSound, CreateSchedule
<1>2. RowTypes' /\ KeepsBorn /\ \A q \in Run : runOf'[q] \in {runOf[q], s}
  BY <1>1, Synced
<1> QED BY <1>2, StoreAfter DEF CreateSchedule

LEMMA PutBeginSound ==
    ASSUME StoreSound, NEW w \in Writer, NEW s \in Schedule, NEW st \in Live,
           NEW c \in Cron, PutBegin(w, s, st, c)
    PROVE  StoreSound' /\ KeepsBorn
<1>1. clock \in Nat /\ status[s] # "none"
  BY BoundsAssumption DEF StoreSound, PutBegin, Live
<1>2. put' \in [Writer -> [pc : {"waiting", "locking", "locked", "served"},
                           schedule : Schedule \cup {None},
                           status : Live \cup {"none"},
                           cron : Cron \cup {0}, from : Nat]]
  BY <1>1 DEF StoreSound, PutBegin
<1> QED BY <1>1, <1>2, StoreRows DEF PutBegin, StoreSound

LEMMA PutLockSound ==
    ASSUME StoreSound, NEW w \in Writer, PutLock(w)
    PROVE  StoreSound' /\ KeepsBorn
<1> DEFINE s == put[w].schedule
<1>1. s \in Schedule
  BY DEF PutLock, StoreSound
<1>2. /\ put' \in [Writer -> [pc : {"waiting", "locking", "locked", "served"},
                           schedule : Schedule \cup {None},
                           status : Live \cup {"none"},
                           cron : Cron \cup {0}, from : Nat]]
      /\ lock' \in [Schedule -> Writer \cup {Controller, None}]
  BY <1>1 DEF PutLock, StoreSound, Served, NoPut
<1>3. UNCHANGED <<clock, status, cron, rowVars>>
  BY DEF PutLock
<1>4. \A v \in Writer : put'[v].pc \in {"locking", "locked"} =>
              \/ put'[v] = [put[v] EXCEPT !.pc = put'[v].pc]
                 /\ put[v].pc \in {"locking", "locked"}
  BY <1>1 DEF PutLock, StoreSound, Served, NoPut
<1> QED BY <1>2, <1>3, <1>4, StoreRows DEF StoreSound

LEMMA PutEndsSound ==
    ASSUME StoreSound, NEW w \in Writer, PutEnds(w),
           UNCHANGED <<clock, status, cron, rowVars>>
    PROVE  StoreSound' /\ KeepsBorn
<1>1. /\ put' \in [Writer -> [pc : {"waiting", "locking", "locked", "served"},
                           schedule : Schedule \cup {None},
                           status : Live \cup {"none"},
                           cron : Cron \cup {0}, from : Nat]]
      /\ lock' \in [Schedule -> Writer \cup {Controller, None}]
      /\ \A v \in Writer : put'[v].pc \in {"locking", "locked"} =>
              put'[v] = put[v] /\ put[v] = [put[v] EXCEPT !.pc = put[v].pc]
  BY DEF PutEnds, StoreSound, Served, NoPut
<1> QED BY <1>1, StoreRows DEF StoreSound

LEMMA PutCommitSound ==
    ASSUME StoreSound, NEW w \in Writer, PutCommit(w)
    PROVE  StoreSound' /\ KeepsBorn
<1> DEFINE s == put[w].schedule
<1>1. /\ s \in Schedule /\ put[w].status \in Live /\ put[w].cron \in Cron
      /\ put[w].from \in Nat
      /\ RowTypes
  BY DEF PutCommit, StoreSound
<1>2. RowTypes' /\ KeepsBorn /\ \A q \in Run : runOf'[q] \in {runOf[q], s}
  <2>1. CASE ShouldSync(w)
    BY <1>1, <2>1, Synced DEF PutCommit
  <2>2. CASE ~ShouldSync(w)
    BY <1>1, <2>2 DEF PutCommit, rowVars, RowTypes, KeepsBorn
  <2> QED BY <2>1, <2>2
<1> QED BY <1>1, <1>2, StoreAfter DEF PutCommit

LEMMA DeleteSound ==
    ASSUME StoreSound, NEW s \in Schedule, DeleteSchedule(s)
    PROVE  StoreSound' /\ KeepsBorn
<1>0. s # None
  BY LockAssumption
<1>1. RowTypes' /\ KeepsBorn
  BY <1>0 DEF DeleteSchedule, StoreSound, RowTypes, KeepsBorn, Live
<1>2. /\ status' \in [Schedule -> Live \cup {"none", "gone"}]
      /\ \A u \in Schedule : status'[u] # "none" <=> status[u] # "none"
  BY DEF DeleteSchedule, StoreSound, Live
<1> QED BY <1>1, <1>2 DEF DeleteSchedule, StoreSound, RowTypes
LEMMA PutFailsSound ==
    ASSUME Sound, NEW w \in Writer, PutFails(w)
    PROVE  StoreSound' /\ KeepsBorn
BY PutEndsSound DEF PutFails, Sound

LEMMA PutStepSound ==
    ASSUME StoreSound, NEW w \in Writer, PutStep(w)
    PROVE  StoreSound' /\ KeepsBorn
BY PutLockSound, PutCommitSound, PutEndsSound DEF PutStep, PutConflict

LEMMA ApiSound ==
    ASSUME Sound, Api, ElseUnchanged
    PROVE  Sound' /\ KeepsBorn
<1>1. StoreSound' /\ KeepsBorn
  BY CreateScheduleSound, PutBeginSound, PutStepSound, PutFailsSound, DeleteSound
     DEF Api, Sound
<1>2. faults' \in Nat
  BY DEF Api, PutFails, Fault, Sound, PostSound
<1> QED BY <1>1, <1>2, PassKept, PostKept DEF Sound, ElseUnchanged

LEMMA TimeSound == ASSUME Sound, TimePasses PROVE Sound' /\ KeepsBorn
<1>1. clock' \in 0 .. Horizon
  BY BoundsAssumption DEF Sound, StoreSound, TimePasses
<1>2. StoreSound' /\ KeepsBorn
  BY <1>1 DEF TimePasses, Sound, StoreSound, RowTypes, KeepsBorn, rowVars
<1> QED BY <1>2, PassKept, PostKept DEF Sound, PostSound, TimePasses

-----------------------------------------------------------------------------
(* The requests.                                                            *)
PostType == [pc : {"idle", "load", "session", "start", "started",
                   "mark", "ok", "missing", "error"},
             run : Run \cup {0},
             from : {"controller", "user", "nobody"}]

(* An answer changes one request: it waits to be read, is marked as failed  *)
(* or is over.                                                              *)
LEMMA Responded ==
    ASSUME NEW p \in Post, NEW res \in {"ok", "missing", "error"},
           post \in [Post -> PostType], Respond(p, res)
    PROVE  /\ post' \in [Post -> PostType]
           /\ \A q \in Post \ {p} : post'[q] = post[q]
           /\ \/ post[p].from = "controller" /\ post'[p] = [post[p] EXCEPT !.pc = res]
              \/ /\ post[p].from = "user" /\ res # "ok"
                 /\ post'[p] = [post[p] EXCEPT !.pc = "mark"]
              \/ /\ post[p].from = "user" => res = "ok"
                 /\ post[p].from # "controller"
                 /\ post'[p] = Idle
<1>1. CASE post[p].from = "controller"
  <2>1. post' = [post EXCEPT ![p].pc = res]
    BY <1>1 DEF Respond
  <2> QED BY <1>1, <2>1 DEF PostType
<1>2. CASE post[p].from = "user" /\ res # "ok"
  <2>1. post' = [post EXCEPT ![p].pc = "mark"]
    BY <1>2 DEF Respond
  <2> QED BY <1>2, <2>1 DEF PostType
<1>3. CASE post[p].from # "controller" /\ (post[p].from = "user" => res = "ok")
  <2>1. post' = [post EXCEPT ![p] = Idle]
    BY <1>3 DEF Respond
  <2> QED BY <1>3, <2>1 DEF PostType, Idle
<1> QED BY <1>1, <1>2, <1>3

(* How the steps of a request change the requests: only its own, and it     *)
(* keeps its run or is over.                                                *)
LEMMA PostMoves ==
    ASSUME Sound, NEW p \in Post,
           \/ PostLoad(p) \/ PostListTurns(p) \/ PostStart(p)
           \/ PostDone(p) \/ RunNowFailed(p) \/ PostFails(p)
    PROVE  /\ post' \in [Post -> PostType]
           /\ \A q \in Post \ {p} : post'[q] = post[q]
           /\ post[p].pc # "idle"
           /\ \/ post'[p] = Idle
              \/ post'[p].run = post[p].run /\ post'[p].from = post[p].from
<1>1. post \in [Post -> PostType]
  BY DEF Sound, PostSound, PostType
<1>2. ASSUME NEW res \in {"ok", "missing", "error"}, Respond(p, res)
      PROVE  /\ post' \in [Post -> PostType]
             /\ \A q \in Post \ {p} : post'[q] = post[q]
             /\ \/ post'[p] = Idle
                \/ post'[p].run = post[p].run /\ post'[p].from = post[p].from
  BY <1>1, <1>2, Responded DEF PostType
<1>3. ASSUME NEW pc \in {"session", "start", "started"},
             post' = [post EXCEPT ![p].pc = pc]
      PROVE  /\ post' \in [Post -> PostType]
             /\ \A q \in Post \ {p} : post'[q] = post[q]
             /\ post'[p].run = post[p].run /\ post'[p].from = post[p].from
  BY <1>1, <1>3 DEF PostType
<1>4. CASE PostLoad(p)
  BY <1>2, <1>3, <1>4 DEF PostLoad
<1>5. CASE PostListTurns(p)
  BY <1>2, <1>3, <1>5 DEF PostListTurns
<1>6. CASE PostStart(p)
  BY <1>3, <1>6 DEF PostStart
<1>7. CASE PostDone(p)
  BY <1>2, <1>7 DEF PostDone
<1>8. CASE RunNowFailed(p)
  BY <1>1, <1>8 DEF RunNowFailed, PostType, Idle
<1>9. CASE PostFails(p)
  BY <1>2, <1>9 DEF PostFails
<1> QED BY <1>4, <1>5, <1>6, <1>7, <1>8, <1>9

LEMMA PostStepSound ==
    ASSUME Sound, NEW p \in Post, PostStep(p) \/ PostFails(p)
    PROVE  Sound' /\ KeepsBorn
<1>1. /\ post' \in [Post -> PostType]
      /\ \A q \in Post : post'[q].pc # "idle" =>
             post[q].pc # "idle" /\ post'[q].run = post[q].run
  BY PostMoves DEF PostStep, Idle
<1>2. PassSound' /\ StoreSound' /\ KeepsBorn
  <2>1. CASE ~RunNowFailed(p)
    <3>1. UNCHANGED <<storeVars, ctl, passVars>>
      BY <2>1 DEF PostStep, PostLoad, PostListTurns, PostStart, PostDone,
                  PostFails
    <3> QED BY <3>1, StoreKept, PassKept DEF Sound
  <2>2. CASE RunNowFailed(p)
    <3>1. RowTypes' /\ KeepsBorn
      BY <2>2 DEF RunNowFailed, Sound, StoreSound, RowTypes, KeepsBorn, Stored
    <3>2. StoreSound'
      BY <2>2, <3>1 DEF RunNowFailed, Sound, StoreSound
    <3> QED BY <2>2, <3>1, <3>2, PassKept DEF Sound, RunNowFailed
  <2> QED BY <2>1, <2>2
<1>3. turns' \in [Run -> Nat] /\ UNCHANGED <<overlapped, stops>> /\ faults' \in Nat
  <2>1. CASE PostStart(p)
    <3>1. post[p].run \in Run
      BY <2>1 DEF PostStart, Sound, PostSound, Born
    <3>2. turns[post[p].run] + 1 \in Nat
      BY <3>1 DEF Sound, PostSound
    <3> QED BY <2>1, <3>1, <3>2 DEF PostStart, Sound, PostSound
  <2>2. CASE ~PostStart(p)
    BY <2>2 DEF PostStep, PostLoad, PostListTurns, PostDone, RunNowFailed,
                PostFails, Fault, Sound, PostSound
  <2> QED BY <2>1, <2>2 DEF PostStep, PostStart, PostLoad, PostListTurns,
                            PostDone, RunNowFailed, PostFails
<1>4. PostSound'
  BY <1>1, <1>2, <1>3 DEF Sound, PostSound, PostType, KeepsBorn, Born
<1> QED BY <1>2, <1>4 DEF Sound

(* A run created by run-now is new: nobody points at it yet.                *)
LEMMA RunNowAdds ==
    ASSUME Sound, NEW p \in Post, NEW s \in Schedule, RunNow(p, s)
    PROVE  \E r \in Run :
             /\ Adds(runStatus, r, s, clock, "triggered")
             /\ post' = [post EXCEPT ![p] = [pc |-> "session", run |-> r,
                                             from |-> "user"]]
<1>1. PICK q \in Run : /\ IsFresh(q)
                       /\ post' = [post EXCEPT ![p] = [pc |-> "session", run |-> q,
                                                       from |-> "user"]]
  BY DEF RunNow
<1>2. /\ RowTypes /\ Moved(runStatus) /\ clock \in Nat
      /\ "triggered" \in Stored
      /\ InsertRun(runStatus, s, clock, "triggered")
  BY BoundsAssumption DEF Sound, StoreSound, RowTypes, Moved, Stored, RunNow
<1>3. PICK r \in Run : IsFresh(r) /\ Adds(runStatus, r, s, clock, "triggered")
  BY <1>2, Inserted
<1> QED BY <1>1, <1>3, FreshOnce

LEMMA RunNowSound ==
    ASSUME Sound, NEW p \in Post, NEW s \in Schedule, RunNow(p, s)
    PROVE  Sound' /\ KeepsBorn
<1>1. PICK r \in Run :
             /\ Adds(runStatus, r, s, clock, "triggered")
             /\ post' = [post EXCEPT ![p] = [pc |-> "session", run |-> r,
                                             from |-> "user"]]
  BY RunNowAdds
<1>2. RowTypes' /\ KeepsBorn /\ \A q \in Run : runOf'[q] \in {runOf[q], s}
  <2>1. /\ RowTypes /\ Moved(runStatus) /\ clock \in Nat
        /\ "triggered" \in Stored
    BY BoundsAssumption DEF Sound, StoreSound, RowTypes, Moved, Stored
  <2> QED BY <1>1, <2>1, Added
<1>3. StoreSound'
  BY <1>2 DEF RunNow, Sound, StoreSound, RowTypes, Live
<1>4. runStatus'[r] # "unborn"
  BY <1>1 DEF Adds, Sound, StoreSound, RowTypes
<1>5. PostSound'
  BY <1>1, <1>2, <1>4 DEF RunNow, Sound, PostSound, Born, KeepsBorn
<1> QED BY <1>2, <1>3, <1>5, PassKept DEF Sound, RunNow
-----------------------------------------------------------------------------
(* The controller and the processes.                                        *)
LEMMA TickSound == ASSUME Sound, Tick PROVE Sound' /\ KeepsBorn
<1>1. StoreSound' /\ KeepsBorn
  BY StoreKept DEF Sound, Tick
<1>2. \A r \in batch' : Born(r)'
  BY DEF Tick, Due, Born, storeVars, rowVars
<1>3. PassSound'
  BY <1>2 DEF Tick, Sound, PassSound, StoreSound, Handling, Due
<1>4. PostSound'
  BY <1>1, PostKept DEF Tick, Sound, PostSound
<1> QED BY <1>1, <1>3, <1>4 DEF Sound

LEMMA EndPassSound == ASSUME Sound, EndPass PROVE Sound' /\ KeepsBorn
<1>1. StoreSound' /\ KeepsBorn
  BY StoreKept DEF Sound, EndPass
<1>2. PassSound'
  BY BoundsAssumption, DispatchBounds
     DEF EndPass, NoPass, NoItem, Sound, PassSound, Handling
<1>3. PostSound'
  BY <1>1, PostKept DEF EndPass, Sound, PostSound
<1> QED BY <1>1, <1>2, <1>3 DEF Sound

LEMMA NextRunSound == ASSUME Sound, NextRun PROVE Sound' /\ KeepsBorn
<1>1. StoreSound' /\ KeepsBorn
  BY StoreKept DEF Sound, NextRun
<1>2. PassSound'
  BY <1>1, DispatchBounds
     DEF NextRun, Sound, PassSound, Handling, Born, KeepsBorn
<1>3. PostSound'
  BY <1>1, PostKept DEF NextRun, Sound, PostSound
<1> QED BY <1>1, <1>2, <1>3 DEF Sound

LEMMA SendSound == ASSUME Sound, Send PROVE Sound' /\ KeepsBorn
<1>1. StoreSound' /\ KeepsBorn
  BY StoreKept DEF Sound, Send
<1>2. Born(item) /\ item \in Run
  BY DEF Send, Sound, PassSound, Handling, Born
<1>3. PassSound'
  BY <1>1, <1>2 DEF Send, Sound, PassSound, Handling, Born, KeepsBorn
<1>4. PostSound'
  BY <1>1, <1>2 DEF Send, Sound, PostSound, Born, KeepsBorn
<1> QED BY <1>1, <1>3, <1>4 DEF Sound

LEMMA TimeoutSound ==
    ASSUME Sound, NEW p \in Post, Timeout(p) PROVE Sound' /\ KeepsBorn
<1>1. StoreSound' /\ KeepsBorn
  BY StoreKept DEF Sound, Timeout
<1>2. PassSound'
  BY <1>1 DEF Timeout, Sound, PassSound, Handling, Born, KeepsBorn
<1>3. PostSound'
  BY <1>1 DEF Timeout, Sound, PostSound, Born, KeepsBorn
<1> QED BY <1>1, <1>2, <1>3 DEF Sound

LEMMA AnsweredSound ==
    ASSUME Sound, NEW p \in Post, Answered(p) PROVE Sound' /\ KeepsBorn
<1>1. StoreSound' /\ KeepsBorn
  BY StoreKept DEF Sound, Answered
<1>2. PassSound'
  <2>1. tries' \in 0 .. MaxRetries
    BY DispatchBounds DEF Answered, Sound, PassSound
  <2> QED BY <1>1, <2>1
             DEF Answered, Sound, PassSound, Handling, Born, KeepsBorn
<1>3. PostSound'
  BY <1>1 DEF Answered, Sound, PostSound, Born, KeepsBorn, Idle
<1> QED BY <1>1, <1>2, <1>3 DEF Sound

LEMMA FinishLockSound == ASSUME Sound, FinishLock PROVE Sound' /\ KeepsBorn
<1>1. runOf[item] \in Schedule
  BY DEF FinishLock, Sound, StoreSound, RowTypes, PassSound, Handling, Born
<1>2. lock' \in [Schedule -> Writer \cup {Controller, None}]
  BY <1>1 DEF FinishLock, Sound, StoreSound
<1>3. StoreSound' /\ KeepsBorn
  BY <1>2, StoreRows DEF FinishLock, Sound, StoreSound
<1>4. seen' \in Live \cup {"none", "gone"}
  BY <1>1 DEF FinishLock, Sound, StoreSound
<1>5. PassSound'
  BY <1>3, <1>4 DEF FinishLock, Sound, PassSound, Handling, Born, KeepsBorn
<1>6. PostSound'
  BY <1>3, PostKept DEF FinishLock, Sound, PostSound
<1> QED BY <1>3, <1>5, <1>6 DEF Sound

(* What a finish plans from, and when.                                      *)
From == IF scheduledFor[item] > passNow THEN scheduledFor[item] ELSE passNow
Done == [runStatus EXCEPT ![item] = verdict]
Upcoming == NextTrigger(cron[runOf[item]], From)

LEMMA Finishing ==
    ASSUME Sound, pass = "commit"
    PROVE  /\ item \in Run /\ runOf[item] \in Schedule
           /\ verdict \in {"triggered", "failed"}
           /\ From \in Nat /\ Upcoming \in Nat /\ Upcoming > From
           /\ RowTypes /\ Moved(Done)
<1>1. /\ item \in Run /\ runOf[item] \in Schedule
      /\ verdict \in {"triggered", "failed"}
      /\ runStatus[item] # "unborn"
      /\ RowTypes
  BY DEF Sound, StoreSound, RowTypes, PassSound, Handling, Born
<1>2. cron[runOf[item]] \in Cron
  BY <1>1, LockAssumption DEF Sound, StoreSound
<1>3. From \in Nat
  BY <1>1, BoundsAssumption DEF From, Sound, PassSound, RowTypes
<1>4. Moved(Done)
  BY <1>1 DEF Moved, Done, RowTypes, Stored
<1> QED BY <1>1, <1>2, <1>3, <1>4, NextTriggerLater DEF Upcoming

(* How a finish commits: a withdrawn run ends it, a schedule that is not    *)
(* active gets no next run, any other gets one.                             *)
LEMMA Committed ==
    ASSUME Sound, FinishCommit
    PROVE  /\ Release
           /\ \/ runStatus[item] \notin Stored /\ UNCHANGED rowVars
              \/ /\ runStatus[item] \in Stored /\ seen # "active"
                 /\ runStatus' = Done
                 /\ UNCHANGED <<runOf, scheduledFor, manual>>
              \/ /\ runStatus[item] \in Stored /\ seen = "active"
                 /\ Insertable(Done, runOf[item], Upcoming)
                 /\ \E r \in Run :
                       Adds(Done, r, runOf[item], Upcoming, "scheduled")
<1>1. pass = "commit" /\ Release
  BY DEF FinishCommit
<1>2. CASE runStatus[item] \notin Stored
  BY <1>1, <1>2 DEF FinishCommit
<1>3. CASE runStatus[item] \in Stored /\ seen # "active"
  BY <1>1, <1>3 DEF FinishCommit, Done
<1>4. CASE runStatus[item] \in Stored /\ seen = "active"
  <2>1. /\ Insertable(Done, runOf[item], Upcoming)
        /\ InsertRun(Done, runOf[item], Upcoming, "scheduled")
    BY <1>4 DEF FinishCommit, Done, Upcoming, From
  <2>2. "scheduled" \in Stored
    BY DEF Stored
  <2> QED BY <1>1, <1>4, <2>1, <2>2, Finishing, Inserted
<1> QED BY <1>1, <1>2, <1>3, <1>4

LEMMA CommittedRows ==
    ASSUME Sound, FinishCommit
    PROVE  /\ RowTypes' /\ KeepsBorn
           /\ \A q \in Run : runOf'[q] \in {runOf[q], runOf[item]}
<1>0. pass = "commit"
  BY DEF FinishCommit
<1>1. CASE UNCHANGED rowVars
  BY <1>1 DEF Sound, StoreSound, RowTypes, KeepsBorn, rowVars
<1>2. CASE runStatus' = Done /\ UNCHANGED <<runOf, scheduledFor, manual>>
  BY <1>0, <1>2, Finishing DEF Moved, RowTypes, KeepsBorn
<1>3. CASE \E r \in Run : Adds(Done, r, runOf[item], Upcoming, "scheduled")
  <2>1. "scheduled" \in Stored
    BY DEF Stored
  <2> QED BY <1>0, <1>3, <2>1, Finishing, Added
<1> QED BY <1>1, <1>2, <1>3, Committed

LEMMA ReleaseSound ==
    ASSUME Sound, pass = "commit", Release, RowTypes', KeepsBorn,
           faults' \in Nat,
           \A q \in Run : runOf'[q] \in {runOf[q], runOf[item]}
    PROVE  Sound'
<1>1. lock' \in [Schedule -> Writer \cup {Controller, None}]
  BY DEF Release, Sound, StoreSound
<1>2. \A r \in Run : runOf'[r] # None => status'[runOf'[r]] # "none"
  BY Finishing, LockAssumption DEF Release, Sound, StoreSound, RowTypes
<1>3. StoreSound'
  BY <1>1, <1>2 DEF Release, Sound, StoreSound
<1>4. PassSound'
  BY DispatchBounds
     DEF Release, NoItem, Sound, PassSound, Handling, Born, KeepsBorn
<1>5. PostSound'
  BY PostKept DEF Release, Sound
<1> QED BY <1>3, <1>4, <1>5 DEF Sound

LEMMA FinishCommitSound ==
    ASSUME Sound, FinishCommit PROVE Sound' /\ KeepsBorn
BY CommittedRows, ReleaseSound DEF FinishCommit, Sound, PostSound

LEMMA FinishFailsSound ==
    ASSUME Sound, FinishFails PROVE Sound' /\ KeepsBorn
<1>1. /\ RowTypes' /\ KeepsBorn
      /\ \A q \in Run : runOf'[q] \in {runOf[q], runOf[item]}
  BY DEF FinishFails, rowVars, Sound, StoreSound, RowTypes, KeepsBorn
<1> QED BY <1>1, ReleaseSound, Faulty DEF FinishFails, Sound

(* Freed locks and dropped PUTs are of the types the store keeps.           *)
LEMMA DeadSound ==
    ASSUME StoreSound, NEW dead, FreeLocks(dead), DropPuts \/ UNCHANGED put,
           UNCHANGED <<clock, status, cron, rowVars>>
    PROVE  StoreSound' /\ KeepsBorn
<1>1. lock' \in [Schedule -> Writer \cup {Controller, None}]
  BY DEF FreeLocks, StoreSound
<1>2. /\ put' \in [Writer -> [pc : {"waiting", "locking", "locked", "served"},
                              schedule : Schedule \cup {None},
                              status : Live \cup {"none"},
                              cron : Cron \cup {0}, from : Nat]]
      /\ \A w \in Writer : put'[w].pc \in {"locking", "locked"} =>
              put'[w] = put[w] /\ put[w] = [put[w] EXCEPT !.pc = put[w].pc]
  BY DEF DropPuts, StoreSound, Served, NoPut
<1> QED BY <1>1, <1>2, StoreRows DEF StoreSound

LEMMA ControllerCrashSound ==
    ASSUME Sound, ControllerCrash PROVE Sound' /\ KeepsBorn
<1>1. StoreSound' /\ KeepsBorn
  BY DeadSound DEF ControllerCrash, Sound
<1>2. PassSound'
  BY BoundsAssumption, DispatchBounds
     DEF ControllerCrash, NoPass, NoItem, Sound, PassSound, Handling
<1>3. /\ post' \in [Post -> PostType]
      /\ \A p \in Post : post'[p].pc # "idle" =>
             post[p].pc # "idle" /\ post'[p].run = post[p].run
  <2>1. CASE Standalone
    BY <2>1 DEF ControllerCrash, Idle, PostType
  <2>2. CASE ~Standalone
    BY <2>2 DEF ControllerCrash, Sound, PostSound, Idle, PostType
  <2> QED BY <2>1, <2>2
<1>4. PostSound'
  BY <1>1, <1>3
     DEF ControllerCrash, Sound, PostSound, PostType, KeepsBorn, Born
<1> QED BY <1>1, <1>2, <1>4 DEF Sound

LEMMA ServerCrashSound ==
    ASSUME Sound, ServerCrash PROVE Sound' /\ KeepsBorn
<1>1. StoreSound' /\ KeepsBorn
  BY DeadSound DEF ServerCrash, Sound
<1>2. PassSound'
  BY <1>1 DEF ServerCrash, Sound, PassSound, Handling, Born, KeepsBorn
<1>3. PostSound'
  BY DEF ServerCrash, Sound, PostSound, Idle
<1> QED BY <1>1, <1>2, <1>3 DEF Sound

LEMMA ProcessSound ==
    ASSUME Sound, Stop \/ Exit \/ Start PROVE Sound' /\ KeepsBorn
<1>1. StoreSound' /\ KeepsBorn
  BY StoreKept DEF Stop, Exit, Start, Sound
<1>2. UNCHANGED passVars /\ ctl' \in {"up", "stopping", "down"}
  BY DEF Stop, Exit, Start
<1>3. PassSound'
  BY <1>1, <1>2 DEF Sound, PassSound, Handling, Born, KeepsBorn, passVars
<1>4. PostSound'
  BY <1>1 DEF Stop, Exit, Start, Sound, PostSound, Born, KeepsBorn
<1> QED BY <1>1, <1>3, <1>4 DEF Sound

LEMMA SoundInit == Init => Sound
BY LockAssumption, BoundsAssumption, DispatchBounds
   DEF Init, ScheduleInit, Idle, NoPut, Sound, StoreSound, RowTypes,
       PassSound, PostSound, Handling, Live, Stored

LEMMA SoundStep == ASSUME Sound, [Next]_vars PROVE Sound' /\ KeepsBorn
<1>1. CASE UNCHANGED vars
  BY <1>1, StoreKept, PassKept, PostKept DEF vars, Sound, PostSound
<1>2. CASE Next
  BY <1>2, TimeSound, ApiSound, PostStepSound, TimeoutSound, RunNowSound,
     TickSound, EndPassSound, NextRunSound, SendSound, AnsweredSound,
     FinishLockSound, FinishCommitSound, FinishFailsSound,
     ControllerCrashSound, ServerCrashSound, ProcessSound
     DEF Next, ControllerStep
<1> QED BY <1>1, <1>2

(* Every variable of the store, the controller and the requests keeps its   *)
(* type, and whatever they point at is a run that was created, in every     *)
(* reachable state of any instance.                                         *)
THEOREM ScheduleTypeCorrect == Spec => []TypeOK
<1>1. Spec => []Sound
  BY SoundInit, SoundStep, PTL DEF Spec
<1> QED BY <1>1, SoundTyped, PTL
-----------------------------------------------------------------------------
(* How a step ages the rows: a born row stays as it is or is removed, but   *)
(* for the run a finish commits and the one whose run-now failed; a new row *)
(* is pending, or one of run-now.                                           *)
Ages ==
    /\ \A r \in Run : Born(r) => (r \in manual' <=> r \in manual)
    /\ \A r \in manual' : r \in manual \/ runStatus'[r] = "triggered"
    /\ \A r \in Run : Born(r) =>
          \/ runStatus'[r] \in {runStatus[r], "removed"}
          \/ pass = "commit" /\ pass' = "next" /\ r = item /\ runStatus'[r] = verdict
          \/ \E p \in Post : post[p].pc = "mark" /\ post[p].run = r /\ runStatus'[r] = "failed"
    /\ \A r \in Run : ~Born(r) => runStatus'[r] \in {"unborn", "scheduled"} \/ r \in manual'

LEMMA AgesUnchanged == ASSUME Sound, UNCHANGED rowVars PROVE Ages
BY DEF Ages, Born, rowVars

LEMMA AgesSync ==
    ASSUME Sound, NEW s \in Schedule, NEW st \in Live, NEW c \in Cron,
           NEW t \in Nat, SyncPendingRun(s, st, c, t)
    PROVE  Ages
<1>1. RowTypes
  BY DEF Sound, StoreSound
<1>2. CASE st # "active"
  <2>1. runStatus' = Swept(s) /\ UNCHANGED <<runOf, scheduledFor, manual>>
    BY <1>2 DEF SyncPendingRun
  <2> QED BY <1>1, <2>1, SweptMoved DEF Ages, Born
<1>3. CASE st = "active"
  <2>1. InsertRun(Swept(s), s, NextTrigger(c, t), "scheduled")
    BY <1>3 DEF SyncPendingRun
  <2>2. NextTrigger(c, t) \in Nat /\ "scheduled" \in Stored
    BY NextTriggerLater DEF Stored
  <2>3. \E r \in Run : Adds(Swept(s), r, s, NextTrigger(c, t), "scheduled")
    BY <1>1, <2>1, <2>2, SweptMoved, Inserted
  <2> QED BY <1>1, <2>3, SweptMoved DEF Adds, Moved, Ages, Born
<1> QED BY <1>2, <1>3

LEMMA AgesApi == ASSUME Sound, Api PROVE Ages
<1>1. ASSUME NEW s \in Schedule, NEW st \in Live, NEW c \in Cron,
             CreateSchedule(s, st, c)
      PROVE  Ages
  <2>1. clock \in Nat
    BY BoundsAssumption DEF Sound, StoreSound
  <2> QED BY <1>1, <2>1, AgesSync DEF CreateSchedule
<1>2. ASSUME NEW s \in Schedule, DeleteSchedule(s) PROVE Ages
  BY <1>2, LockAssumption
     DEF DeleteSchedule, Ages, Born, Sound, StoreSound, RowTypes
<1>3. ASSUME NEW w \in Writer, PutCommit(w) PROVE Ages
  <2>1. /\ put[w].schedule \in Schedule /\ put[w].status \in Live
        /\ put[w].cron \in Cron /\ put[w].from \in Nat
    BY <1>3 DEF PutCommit, Sound, StoreSound
  <2> QED BY <1>3, <2>1, AgesSync, AgesUnchanged DEF PutCommit
<1>4. ASSUME NEW w \in Writer, PutLock(w) \/ PutConflict(w) \/ PutFails(w)
      PROVE  Ages
  BY <1>4, AgesUnchanged DEF PutLock, PutConflict, PutFails
<1>5. ASSUME NEW w \in Writer, NEW s \in Schedule, NEW st \in Live,
             NEW c \in Cron, PutBegin(w, s, st, c)
      PROVE  Ages
  BY <1>5, AgesUnchanged DEF PutBegin
<1> QED BY <1>1, <1>2, <1>3, <1>4, <1>5 DEF Api, PutStep

LEMMA AgesCommit == ASSUME Sound, FinishCommit PROVE Ages
<1>1. /\ pass = "commit" /\ pass' = "next" /\ RowTypes
      /\ item \in Run /\ runStatus[item] # "unborn"
  BY Finishing DEF FinishCommit, Release, Sound, PassSound, Handling, Born
<1>2. CASE UNCHANGED rowVars
  BY <1>2, AgesUnchanged
<1>3. CASE runStatus' = Done /\ UNCHANGED <<runOf, scheduledFor, manual>>
  BY <1>1, <1>3 DEF Done, Ages, Born, RowTypes
<1>4. CASE \E r \in Run : Adds(Done, r, runOf[item], Upcoming, "scheduled")
  BY <1>1, <1>4 DEF Adds, Done, Ages, Born, RowTypes
<1> QED BY <1>2, <1>3, <1>4, Committed

LEMMA AgesStep == ASSUME Sound, [Next]_vars PROVE Ages
<1>1. ASSUME NEW p \in Post, NEW s \in Schedule, RunNow(p, s) PROVE Ages
  <2>1. \E r \in Run : Adds(runStatus, r, s, clock, "triggered")
    BY <1>1, RunNowAdds
  <2> QED BY <2>1 DEF Adds, Ages, Born, Sound, StoreSound, RowTypes
<1>2. ASSUME NEW p \in Post, RunNowFailed(p) PROVE Ages
  <2>1. Born(post[p].run) /\ post[p].pc = "mark" /\ UNCHANGED manual
    BY <1>2 DEF RunNowFailed, Sound, PostSound
  <2>2. \A r \in Run : runStatus'[r] \in {runStatus[r], "failed"}
    BY <1>2 DEF RunNowFailed, Sound, StoreSound, RowTypes
  <2>3. \A r \in Run \ {post[p].run} : runStatus'[r] = runStatus[r]
    BY <1>2 DEF RunNowFailed, Sound, StoreSound, RowTypes
  <2> QED BY <2>1, <2>2, <2>3 DEF Ages, Born
<1>3. ASSUME NEW p \in Post,
             \/ PostLoad(p) \/ PostListTurns(p) \/ PostStart(p) \/ PostDone(p)
             \/ PostFails(p) \/ Timeout(p) \/ Answered(p)
      PROVE  UNCHANGED rowVars
  BY <1>3 DEF PostLoad, PostListTurns, PostStart, PostDone, PostFails, Timeout,
              Answered, storeVars
<1>4. ASSUME \/ TimePasses \/ Tick \/ EndPass \/ NextRun \/ Send \/ FinishLock
             \/ FinishFails \/ Stop \/ Exit \/ ControllerCrash \/ ServerCrash
             \/ Start \/ UNCHANGED vars
      PROVE  UNCHANGED rowVars
  BY <1>4 DEF TimePasses, Tick, EndPass, NextRun, Send, FinishLock, FinishFails,
              Stop, Exit, ControllerCrash, ServerCrash, Start, vars, storeVars
<1> QED BY <1>1, <1>2, <1>3, <1>4, AgesApi, AgesCommit, AgesUnchanged
        DEF Next, ControllerStep, PostStep

-----------------------------------------------------------------------------
(* Who works on which run: a pass on cron runs that were due at its reading *)
(* of the clock and are still pending or withdrawn, run-now on its own, and *)
(* the controller waits for one request at most.                            *)
Dispatchable(r) == /\ r \notin manual
                   /\ runStatus[r] \in {"scheduled", "removed"}
                   /\ scheduledFor[r] <= passNow

(* Which requests there are, and whose.                                     *)
PostRoles ==
    /\ \A p \in Post :
          /\ post[p].from = "user" =>
                /\ post[p].run \in manual
                /\ post[p].pc \in {"session", "start", "started", "mark"}
          /\ post[p].pc = "mark" => post[p].from = "user"
          /\ post[p].pc \in {"ok", "missing", "error"} => post[p].from = "controller"
          /\ post[p].from = "controller" =>
                /\ pass = "wait" /\ post[p].run = item
                /\ post[p].pc # "idle"
    /\ \A p, q \in Post :
          post[p].from = "controller" /\ post[q].from = "controller" => p = q

PassRoles ==
    /\ \A r \in batch : Dispatchable(r)
    /\ Handling => Dispatchable(item) /\ item \notin batch

ManualKept == \A r \in manual : runStatus[r] \notin {"unborn", "scheduled"}

Roles == ManualKept /\ PassRoles /\ PostRoles

LEMMA RolesInit == Init => Roles
BY DEF Init, ScheduleInit, Idle, Roles, PostRoles, PassRoles, ManualKept,
       Handling

(* The rows part of it, for a step that leaves the runs under way alone.    *)
LEMMA StillDispatchable ==
    ASSUME Sound, Roles, Ages, KeepsBorn, passNow' = passNow, NEW r \in Run,
           Born(r), Dispatchable(r), pass = "commit" /\ pass' = "next" => r # item
    PROVE  Dispatchable(r)'
BY DEF Roles, PostRoles, PassRoles, ManualKept, Ages, KeepsBorn, Born,
       Dispatchable

LEMMA ManualAged ==
    ASSUME Sound, Roles, Ages
    PROVE  /\ ManualKept'
           /\ manual \subseteq manual'
<1>1. manual \subseteq Run /\ manual' \subseteq manual' 
  BY DEF Sound, StoreSound, RowTypes
<1>2. \A r \in manual : Born(r)
  BY <1>1 DEF Roles, PostRoles, PassRoles, ManualKept, Born
<1>3. \A r \in manual : r \in manual'
  BY <1>1, <1>2 DEF Ages
<1>4. \A r \in manual : runStatus'[r] \notin {"unborn", "scheduled"}
  BY <1>1, <1>2
     DEF Ages, Roles, PostRoles, PassRoles, ManualKept, Sound, PassSound,
         Dispatchable, Handling
<1>5. \A r \in manual' : runStatus'[r] \notin {"unborn", "scheduled"}
  BY <1>3, <1>4 DEF Ages
<1> QED BY <1>3, <1>5 DEF ManualKept

LEMMA RolesQuiet ==
    ASSUME Sound, Roles, Ages, KeepsBorn, UNCHANGED <<passVars, post>>
    PROVE  Roles'
<1>1. /\ \A r \in batch : Dispatchable(r)'
      /\ Handling => Dispatchable(item)'
  BY StillDispatchable
     DEF Roles, PostRoles, PassRoles, ManualKept, Sound, PassSound, passVars,
         Born
<1> QED BY <1>1, ManualAged
           DEF Roles, PostRoles, PassRoles, ManualKept, Handling, passVars
(* A step of the controller that goes on with runs it already had.          *)
LEMMA PassRolesAfter ==
    ASSUME Sound, Roles, Ages, KeepsBorn, batch' \subseteq batch,
           pass # "commit", passNow' = passNow,
           Handling' => \/ Handling /\ item' = item
                        \/ item' \in batch /\ item' \notin batch'
    PROVE  PassRoles'
<1>1. \A r \in batch : Dispatchable(r)'
  BY StillDispatchable
     DEF Roles, PostRoles, PassRoles, ManualKept, Sound, PassSound, Born
<1>2. ASSUME NEW r \in Run, Handling, r = item PROVE Dispatchable(r)'
  <2>1. Born(r) /\ Dispatchable(r)
    BY <1>2 DEF Roles, PassRoles, Sound, PassSound
  <2> QED BY <2>1, StillDispatchable
<1>3. \A r \in batch' : Dispatchable(r)'
  BY <1>1
<1>4. ASSUME Handling' PROVE Dispatchable(item)' /\ item' \notin batch'
  <2>1. CASE Handling /\ item' = item
    <3>1. item \in Run
      BY <2>1 DEF Sound, PassSound, Born
    <3>2. item' \notin batch'
      BY <2>1 DEF Roles, PassRoles
    <3> QED BY <1>2, <2>1, <3>1, <3>2 DEF Dispatchable
  <2>2. CASE item' \in batch /\ item' \notin batch'
    BY <1>1, <2>2 DEF Dispatchable
  <2> QED BY <1>4, <2>1, <2>2
<1> QED BY <1>3, <1>4 DEF PassRoles

LEMMA RolesPostStep ==
    ASSUME Sound, Roles, Ages, KeepsBorn, NEW p \in Post,
           PostStep(p) \/ PostFails(p)
    PROVE  Roles'
<1>1. /\ post \in [Post -> PostType] /\ post' \in [Post -> PostType]
      /\ \A q \in Post \ {p} : post'[q] = post[q]
      /\ UNCHANGED passVars
  BY PostMoves DEF PostStep, PostLoad, PostListTurns, PostStart, PostDone,
                   RunNowFailed, PostFails, Sound, PostSound, PostType
<1>2. \/ post'[p] = Idle
      \/ /\ post'[p].from = post[p].from /\ post'[p].run = post[p].run
         /\ \/ /\ post'[p].pc \in {"session", "start", "started"}
            \/ post'[p].pc \in {"ok", "missing", "error"} /\ post[p].from = "controller"
            \/ post'[p].pc = "mark" /\ post[p].from = "user"
  <2>1. ASSUME NEW res \in {"ok", "missing", "error"}, Respond(p, res)
        PROVE  \/ post'[p] = Idle
               \/ /\ post'[p].from = post[p].from /\ post'[p].run = post[p].run
                  /\ \/ post'[p].pc \in {"ok", "missing", "error"} /\ post[p].from = "controller"
                     \/ post'[p].pc = "mark" /\ post[p].from = "user"
    BY <1>1, <2>1, Responded DEF PostType
  <2>2. ASSUME NEW pc \in {"session", "start", "started"},
               post' = [post EXCEPT ![p].pc = pc]
        PROVE  /\ post'[p].pc = pc
               /\ post'[p].run = post[p].run /\ post'[p].from = post[p].from
    BY <1>1, <2>2 DEF PostType
  <2>3. CASE PostLoad(p)
    BY <2>1, <2>2, <2>3 DEF PostLoad
  <2>4. CASE PostListTurns(p)
    BY <2>1, <2>2, <2>4 DEF PostListTurns
  <2>5. CASE PostStart(p)
    BY <2>2, <2>5 DEF PostStart
  <2>6. CASE PostDone(p)
    BY <2>1, <2>6 DEF PostDone
  <2>7. CASE PostFails(p)
    BY <2>1, <2>7 DEF PostFails
  <2>8. CASE RunNowFailed(p)
    BY <1>1, <2>8 DEF RunNowFailed
  <2> QED BY <2>3, <2>4, <2>5, <2>6, <2>7, <2>8 DEF PostStep
<1>3. PostRoles'
  <2>1. manual \subseteq manual'
    BY ManualAged
  <2>2. Idle.from = "nobody" /\ Idle.pc = "idle"
    BY DEF Idle
  <2>3. pass' = pass /\ item' = item /\ PostRoles
    BY <1>1 DEF passVars, Roles
  <2>4. \A q \in Post : post'[q].from \in {post[q].from, "nobody"}
    BY <1>1, <1>2, <2>2
  <2>5. ASSUME NEW q \in Post
        PROVE /\ post'[q].from = "user" =>
                   /\ post'[q].run \in manual'
                   /\ post'[q].pc \in {"session", "start", "started", "mark"}
              /\ post'[q].pc = "mark" => post'[q].from = "user"
              /\ post'[q].pc \in {"ok", "missing", "error"} => post'[q].from = "controller"
              /\ post'[q].from = "controller" =>
                   /\ pass' = "wait" /\ post'[q].run = item'
                   /\ post'[q].pc # "idle"
    <3>1. CASE q # p
      BY <1>1, <2>1, <2>3, <3>1 DEF PostRoles
    <3>2. CASE q = p /\ post'[p] = Idle
      BY <2>2, <3>2
    <3>3. CASE q = p /\ post'[p] # Idle
      BY <1>1, <1>2, <2>1, <2>3, <3>3 DEF PostRoles
    <3> QED BY <3>1, <3>2, <3>3
  <2> QED BY <2>3, <2>4, <2>5 DEF PostRoles
<1>4. PassRoles'
  <2>1. /\ \A r \in batch : Dispatchable(r)'
        /\ Handling => Dispatchable(item)'
    BY <1>1, StillDispatchable
       DEF Roles, PostRoles, PassRoles, ManualKept, Sound, PassSound, passVars,
           Born
  <2> QED BY <1>1, <2>1
             DEF PassRoles, Roles, PostRoles, ManualKept, Handling, passVars
<1> QED BY <1>3, <1>4, ManualAged DEF Roles

LEMMA RolesRunNow ==
    ASSUME Sound, Roles, Ages, KeepsBorn, NEW p \in Post, NEW s \in Schedule,
           RunNow(p, s)
    PROVE  Roles'
<1>1. PICK r \in Run :
             /\ Adds(runStatus, r, s, clock, "triggered")
             /\ post' = [post EXCEPT ![p] = [pc |-> "session", run |-> r,
                                             from |-> "user"]]
  BY RunNowAdds
<1>2. r \in manual' /\ UNCHANGED passVars
  BY <1>1 DEF Adds, RunNow
<1>3. PostRoles'
  BY <1>1, <1>2, ManualAged
     DEF Roles, PassRoles, ManualKept, PostRoles, Sound, PostSound, passVars
<1>4. PassRoles'
  <2>1. /\ \A q \in batch : Dispatchable(q)'
        /\ Handling => Dispatchable(item)'
    BY <1>2, StillDispatchable
       DEF Roles, PostRoles, PassRoles, ManualKept, Sound, PassSound, passVars,
           Born
  <2> QED BY <1>2, <2>1
             DEF PassRoles, Roles, PostRoles, ManualKept, Handling, passVars
<1> QED BY <1>3, <1>4, ManualAged DEF Roles

LEMMA RolesStep == ASSUME Sound, Roles, [Next]_vars PROVE Roles'
<1>1. Ages /\ KeepsBorn /\ Sound'
  BY AgesStep, SoundStep
<1>2. ManualKept'
  BY <1>1, ManualAged
<1>3. ASSUME \/ TimePasses \/ (Api /\ ElseUnchanged) \/ Stop \/ Exit
             \/ Start \/ UNCHANGED vars
      PROVE  Roles'
  BY <1>1, <1>3, RolesQuiet
     DEF TimePasses, ElseUnchanged, Stop, Exit, Start, vars
<1>4. CASE Tick
  <2>1. PassRoles'
    BY <1>4
       DEF Tick, PassRoles, Roles, PostRoles, ManualKept, Handling, Due,
           Dispatchable, storeVars, rowVars, Sound, StoreSound, RowTypes
  <2>2. PostRoles'
    BY <1>4
       DEF Tick, PostRoles, Roles, PassRoles, ManualKept, storeVars, rowVars
  <2> QED BY <1>2, <2>1, <2>2 DEF Roles
<1>5. CASE EndPass
  <2>1. PassRoles'
    BY <1>5 DEF EndPass, NoPass, PassRoles, Handling
  <2>2. PostRoles'
    BY <1>5
       DEF EndPass, NoPass, PostRoles, Roles, PassRoles, ManualKept, storeVars,
           rowVars
  <2> QED BY <1>2, <2>1, <2>2 DEF Roles
<1>6. CASE NextRun
  <2>1. PassRoles'
    BY <1>1, <1>6, PassRolesAfter DEF NextRun, Handling
  <2>2. PostRoles'
    BY <1>6
       DEF NextRun, PostRoles, Roles, PassRoles, ManualKept, storeVars, rowVars
  <2> QED BY <1>2, <2>1, <2>2 DEF Roles
<1>7. CASE Send
  <2>1. PassRoles'
    BY <1>1, <1>7, PassRolesAfter DEF Send, Handling
  <2>2. PostRoles'
    BY <1>7
       DEF Send, PostRoles, Roles, PassRoles, ManualKept, Sound, PostSound,
           storeVars, rowVars
  <2> QED BY <1>2, <2>1, <2>2 DEF Roles
<1>8. ASSUME NEW p \in Post, Timeout(p) PROVE Roles'
  <2>1. PassRoles'
    BY <1>1, <1>8, PassRolesAfter DEF Timeout, Handling
  <2>2. PostRoles'
    BY <1>8
       DEF Timeout, PostRoles, Roles, PassRoles, ManualKept, Sound, PostSound,
           storeVars, rowVars
  <2> QED BY <1>2, <2>1, <2>2 DEF Roles
<1>9. ASSUME NEW p \in Post, Answered(p) PROVE Roles'
  <2>1. PassRoles'
    BY <1>1, <1>9, PassRolesAfter DEF Answered, Handling
  <2>2. PostRoles'
    BY <1>9
       DEF Answered, Idle, PostRoles, Roles, PassRoles, ManualKept, Sound,
           PostSound, storeVars, rowVars
  <2> QED BY <1>2, <2>1, <2>2 DEF Roles
<1>10. CASE FinishLock
  <2>1. PassRoles'
    BY <1>1, <1>10, PassRolesAfter DEF FinishLock, Handling
  <2>2. PostRoles'
    BY <1>10 DEF FinishLock, PostRoles, Roles, PassRoles, ManualKept, rowVars
  <2> QED BY <1>2, <2>1, <2>2 DEF Roles
<1>11. CASE FinishCommit \/ FinishFails
  <2>1. /\ pass = "commit" /\ pass' = "next" /\ passNow' = passNow
        /\ batch' = batch /\ post' = post
    BY <1>11 DEF FinishCommit, FinishFails, Release
  <2>2. \A r \in batch : Dispatchable(r)'
    BY <1>1, <2>1, StillDispatchable
       DEF Roles, PostRoles, PassRoles, ManualKept, Sound, PassSound, Born,
           Handling
  <2>3. PassRoles'
    BY <2>1, <2>2 DEF PassRoles, Handling
  <2>4. PostRoles'
    BY <2>1, <1>1, ManualAged DEF PostRoles, Roles, PassRoles, ManualKept
  <2> QED BY <1>2, <2>3, <2>4 DEF Roles
<1>12. CASE ControllerCrash
  <2>1. PassRoles'
    BY <1>12 DEF ControllerCrash, NoPass, PassRoles, Handling
  <2>2. PostRoles'
    <3>1. CASE Standalone
      BY <1>12, <3>1 DEF ControllerCrash, Idle, PostRoles
    <3>2. CASE ~Standalone
      BY <1>12, <3>2
         DEF ControllerCrash, Idle, PostRoles, Roles, PassRoles, ManualKept,
             Sound, PostSound, rowVars
    <3> QED BY <3>1, <3>2
  <2> QED BY <1>2, <2>1, <2>2 DEF Roles
<1>13. CASE ServerCrash
  <2>1. PassRoles'
    BY <1>13, PassRolesAfter, <1>1, StillDispatchable
       DEF ServerCrash, PassRoles, Roles, PostRoles, ManualKept, Handling, Dispatchable, rowVars
  <2>2. PostRoles'
    BY <1>13 DEF ServerCrash, Idle, PostRoles
  <2> QED BY <1>2, <2>1, <2>2 DEF Roles
<1>14. ASSUME NEW p \in Post, PostStep(p) \/ PostFails(p) PROVE Roles'
  BY <1>1, <1>14, RolesPostStep
<1>15. ASSUME NEW p \in Post, NEW s \in Schedule, RunNow(p, s) PROVE Roles'
  BY <1>1, <1>15, RolesRunNow
<1>16. CASE Next
  <2>1. CASE ControllerStep
    BY <1>4, <1>5, <1>6, <1>7, <1>9, <1>10, <1>11, <2>1 DEF ControllerStep
  <2>2. CASE \E p \in Post : PostStep(p) \/ PostFails(p) \/ Timeout(p)
    BY <1>8, <1>14, <2>2
  <2>3. CASE \E p \in Post, s \in Schedule : RunNow(p, s)
    BY <1>15, <2>3
  <2>4. CASE TimePasses \/ (Api /\ ElseUnchanged) \/ Stop \/ Exit \/ Start
    BY <1>3, <2>4
  <2>5. CASE FinishFails \/ ControllerCrash \/ ServerCrash
    BY <1>11, <1>12, <1>13, <2>5
  <2> QED BY <1>16, <2>1, <2>2, <2>3, <2>4, <2>5 DEF Next
<1> QED BY <1>3, <1>16
-----------------------------------------------------------------------------
(* Who holds a row lock: a PUT from its lock to its end, the controller     *)
(* from the first statement of a finish to its commit; what the finish read *)
(* stays true so long.                                                      *)
Locked ==
    /\ pass = "commit" => /\ lock[runOf[item]] = Controller
                          /\ seen = status[runOf[item]]
    /\ \A w \in Writer : put[w].pc = "locked" => lock[put[w].schedule] = w

LEMMA LockedInit == Init => Locked
BY DEF Init, ScheduleInit, NoPut, Locked

(* A step that lets go of no lock and touches no locked schedule.           *)
LEMMA LockedKept ==
    ASSUME Sound, Locked, KeepsBorn, UNCHANGED <<passVars, put, lock>>,
           \A s \in Schedule : lock[s] # None => status'[s] = status[s]
    PROVE  Locked'
<1>1. ASSUME pass = "commit"
      PROVE  /\ lock[runOf[item]] = Controller /\ runOf[item] \in Schedule
             /\ runOf'[item] = runOf[item]
             /\ seen = status[runOf[item]]
  BY <1>1, Finishing DEF Locked, Sound, PassSound, Handling, Born, KeepsBorn
<1> QED BY <1>1, LockAssumption DEF Locked, passVars

LEMMA LockedApi ==
    ASSUME Sound, Locked, KeepsBorn, Api, ElseUnchanged
    PROVE  Locked'
<1>1. ASSUME pass = "commit"
      PROVE  /\ lock[runOf[item]] = Controller /\ runOf[item] \in Schedule
             /\ runOf'[item] = runOf[item] /\ item' = item /\ seen' = seen
             /\ seen = status[runOf[item]]
             /\ status[runOf[item]] # "none"
             /\ pass' = "commit"
  BY <1>1, Finishing, LockAssumption
     DEF Locked, Sound, StoreSound, PassSound, Handling, Born, KeepsBorn,
         ElseUnchanged, passVars
<1>2. pass' = pass
  BY DEF ElseUnchanged, passVars
<1>3. Controller # None /\ Controller \notin Writer /\ None \notin Writer
  BY LockAssumption
<1>4. ASSUME NEW s \in Schedule, NEW st \in Live, NEW c \in Cron,
             CreateSchedule(s, st, c)
      PROVE  Locked'
  <2>1. /\ UNCHANGED <<lock, put>> /\ status[s] = "none"
        /\ \A u \in Schedule \ {s} : status'[u] = status[u]
    BY <1>4 DEF CreateSchedule, Sound, StoreSound
  <2> QED BY <1>1, <1>2, <2>1 DEF Locked
<1>5. ASSUME NEW s \in Schedule, DeleteSchedule(s) PROVE Locked'
  <2>1. /\ UNCHANGED <<lock, put>> /\ lock[s] = None
        /\ \A u \in Schedule \ {s} : status'[u] = status[u]
    BY <1>5 DEF DeleteSchedule, Sound, StoreSound
  <2> QED BY <1>1, <1>2, <1>3, <2>1 DEF Locked
<1>6. ASSUME NEW w \in Writer, NEW s \in Schedule, NEW st \in Live,
             NEW c \in Cron, PutBegin(w, s, st, c)
      PROVE  Locked'
  <2>1. /\ UNCHANGED <<lock, status>>
        /\ \A v \in Writer : put'[v].pc = "locked" => put'[v] = put[v]
    BY <1>6 DEF PutBegin, Sound, StoreSound
  <2> QED BY <1>1, <1>2, <2>1 DEF Locked
<1>7. ASSUME NEW w \in Writer, PutLock(w) PROVE Locked'
  <2> DEFINE s == put[w].schedule
  <2>1. CASE status[s] \in Live
    <3>1. /\ s \in Schedule /\ lock[s] = None /\ lock' = [lock EXCEPT ![s] = w]
          /\ UNCHANGED status
          /\ put' = [put EXCEPT ![w].pc = "locked"]
      BY <1>7, <2>1 DEF PutLock, Sound, StoreSound
    <3>2. lock'[s] = w /\ \A u \in Schedule \ {s} : lock'[u] = lock[u]
      BY <3>1 DEF Sound, StoreSound
    <3>3. /\ put'[w].schedule = s
          /\ \A v \in Writer \ {w} : put'[v] = put[v]
      BY <3>1 DEF Sound, StoreSound
    <3>4. pass = "commit" => runOf[item] # s
      BY <1>1, <1>3, <3>1
    <3>5. \A v \in Writer \ {w} : put[v].pc = "locked" =>
              put[v].schedule \in Schedule \ {s}
      BY <1>3, <3>1 DEF Locked, Sound, StoreSound
    <3> QED BY <1>1, <1>2, <3>1, <3>2, <3>3, <3>4, <3>5 DEF Locked
  <2>2. CASE status[s] \notin Live
    <3>1. /\ UNCHANGED <<lock, status>>
          /\ \A v \in Writer : put'[v].pc = "locked" => put'[v] = put[v]
      BY <1>7, <2>2 DEF PutLock, Served, NoPut, Sound, StoreSound
    <3> QED BY <1>1, <1>2, <3>1 DEF Locked
  <2> QED BY <2>1, <2>2
<1>8. ASSUME NEW w \in Writer, put[w].pc = "locked", PutEnds(w),
             \A u \in Schedule \ {put[w].schedule} : status'[u] = status[u]
      PROVE  Locked'
  <2> DEFINE s == put[w].schedule
  <2>1. s \in Schedule /\ lock[s] = w
    BY <1>8 DEF Locked, Sound, StoreSound
  <2>2. \A u \in Schedule \ {s} : lock'[u] = lock[u]
    BY <1>8, <2>1 DEF PutEnds, Sound, StoreSound
  <2>3. \A v \in Writer : put'[v].pc = "locked" => v # w /\ put'[v] = put[v]
    BY <1>8 DEF PutEnds, Served, NoPut, Sound, StoreSound
  <2>4. \A v \in Writer \ {w} : put[v].pc = "locked" =>
            put[v].schedule \in Schedule \ {s}
    BY <2>1 DEF Locked, Sound, StoreSound
  <2>5. pass = "commit" => runOf[item] # s
    BY <1>1, <1>3, <2>1
  <2> QED BY <1>1, <1>2, <1>8, <2>2, <2>3, <2>4, <2>5 DEF Locked
<1>9. ASSUME NEW w \in Writer, PutCommit(w) \/ PutConflict(w) \/ PutFails(w)
      PROVE  Locked'
  <2>1. /\ put[w].pc = "locked" /\ PutEnds(w)
        /\ \A u \in Schedule \ {put[w].schedule} : status'[u] = status[u]
    BY <1>9 DEF PutCommit, PutConflict, PutFails, Sound, StoreSound
  <2> QED BY <1>8, <2>1
<1> QED BY <1>4, <1>5, <1>6, <1>7, <1>9 DEF Api, PutStep

LEMMA LockedStep == ASSUME Sound, Locked, [Next]_vars PROVE Locked'
<1>1. KeepsBorn
  BY SoundStep
<1>2. Controller # None /\ Controller \notin Writer /\ None \notin Writer
  BY LockAssumption
<1>3. CASE Api /\ ElseUnchanged
  BY <1>1, <1>3, LockedApi
<1>4. ASSUME \/ \E p \in Post : \/ PostStep(p) \/ PostFails(p)
             \/ \E p \in Post, s \in Schedule : RunNow(p, s)
             \/ TimePasses \/ Stop \/ Exit \/ Start \/ UNCHANGED vars
      PROVE  Locked'
  <2>1. UNCHANGED <<passVars, put, lock, status>>
    BY <1>4 DEF PostStep, PostLoad, PostListTurns, PostStart, PostDone,
                RunNowFailed, PostFails, RunNow, TimePasses, Stop, Exit, Start,
                vars, storeVars
  <2> QED BY <1>1, <2>1, LockedKept
<1>5. ASSUME \/ Tick \/ EndPass \/ NextRun \/ Send
             \/ \E p \in Post : Answered(p) \/ Timeout(p)
      PROVE  Locked'
  BY <1>5 DEF Tick, EndPass, NoPass, NextRun, Send, Answered, Timeout,
              storeVars, rowVars, Locked
<1>6. CASE FinishLock
  <2> DEFINE s == runOf[item]
  <2>1. s \in Schedule /\ lock[s] = None
    BY <1>6
       DEF FinishLock, Sound, StoreSound, RowTypes, PassSound, Handling, Born
  <2>2. /\ lock'[s] = Controller /\ \A u \in Schedule \ {s} : lock'[u] = lock[u]
        /\ seen' = status[s] /\ UNCHANGED <<put, item, runOf, status>>
    BY <1>6, <2>1 DEF FinishLock, rowVars, Sound, StoreSound
  <2>3. \A v \in Writer : put[v].pc = "locked" =>
            put[v].schedule \in Schedule \ {s}
    BY <1>2, <2>1 DEF Locked, Sound, StoreSound
  <2> QED BY <2>2, <2>3 DEF Locked
<1>7. CASE FinishCommit \/ FinishFails
  <2>1. pass = "commit" /\ Release
    BY <1>7 DEF FinishCommit, FinishFails
  <2>2. \A u \in Schedule \ {runOf[item]} : lock'[u] = lock[u]
    BY <2>1, Finishing DEF Release, Sound, StoreSound
  <2>3. \A v \in Writer : put[v].pc = "locked" =>
            put[v].schedule \in Schedule \ {runOf[item]}
    BY <1>2, <2>1 DEF Locked, Sound, StoreSound
  <2> QED BY <2>1, <2>2, <2>3 DEF Locked, Release
<1>8. CASE ControllerCrash
  <2>1. pass' = "idle"
    BY <1>8 DEF ControllerCrash, NoPass
  <2>2. CASE Standalone
    <3>1. \A w \in Writer : put'[w].pc # "locked"
      BY <1>8, <2>2 DEF ControllerCrash, DropPuts, Served, NoPut
    <3> QED BY <2>1, <3>1 DEF Locked
  <2>3. CASE ~Standalone
    <3>1. UNCHANGED put /\ FreeLocks({Controller})
      BY <1>8, <2>3 DEF ControllerCrash
    <3>2. \A v \in Writer : put[v].pc = "locked" => lock'[put[v].schedule] = v
      BY <1>2, <3>1 DEF FreeLocks, Locked, Sound, StoreSound
    <3> QED BY <2>1, <3>1, <3>2 DEF Locked
  <2> QED BY <2>2, <2>3
<1>9. CASE ServerCrash
  <2>1. \A w \in Writer : put'[w].pc # "locked"
    BY <1>9 DEF ServerCrash, DropPuts, Served, NoPut
  <2>2. ASSUME pass' = "commit" PROVE pass = "commit"
    BY <1>9, <2>2 DEF ServerCrash
  <2>3. ASSUME pass = "commit"
        PROVE  lock'[runOf[item]] = Controller /\ seen = status[runOf[item]]
    BY <1>2, <1>9, <2>3, Finishing DEF ServerCrash, FreeLocks, Locked
  <2>4. UNCHANGED <<status, runOf, item, seen>>
    BY <1>9 DEF ServerCrash, rowVars
  <2> QED BY <2>1, <2>2, <2>3, <2>4 DEF Locked
<1>10. CASE Next
  <2>1. CASE ControllerStep
    BY <1>5, <1>6, <1>7, <2>1 DEF ControllerStep
  <2>2. CASE \E p \in Post : PostStep(p) \/ PostFails(p) \/ Timeout(p)
    BY <1>4, <1>5, <2>2
  <2>3. CASE \E p \in Post, s \in Schedule : RunNow(p, s)
    BY <1>4, <2>3
  <2>4. CASE TimePasses \/ Stop \/ Exit \/ Start
    BY <1>4, <2>4
  <2> QED BY <1>3, <1>7, <1>8, <1>9, <1>10, <2>1, <2>2, <2>3, <2>4 DEF Next
<1> QED BY <1>4, <1>10
-----------------------------------------------------------------------------
(* Pending runs.                                                            *)

(* An insertion adds its row to the pending ones of its schedule, if it is  *)
(* pending.                                                                 *)
LEMMA PendingAdds ==
    ASSUME RowTypes, NEW rows, Moved(rows), NEW s \in Schedule, NEW t \in Nat,
           NEW st \in Stored, NEW r \in Run, Adds(rows, r, s, t, st),
           NEW u \in Schedule
    PROVE  {q \in Run : runOf'[q] = u /\ runStatus'[q] = "scheduled"} =
           IF u = s /\ st = "scheduled" THEN Pending(rows, u) \cup {r}
           ELSE Pending(rows, u)
<1>1. runOf[r] = None /\ rows[r] = "unborn" /\ u # None
  BY LockAssumption DEF Adds, Moved
<1>2. /\ runOf'[r] = s /\ runStatus'[r] = st
      /\ \A q \in Run \ {r} : runOf'[q] = runOf[q] /\ runStatus'[q] = rows[q]
  BY DEF Adds, RowTypes, Moved
<1> QED BY <1>1, <1>2 DEF Pending

LEMMA PendingSwept ==
    ASSUME RowTypes, NEW s \in Schedule
    PROVE  /\ Pending(Swept(s), s) = {}
           /\ \A u \in Schedule \ {s} :
                 Pending(Swept(s), u) = Pending(runStatus, u)
BY SweptMoved DEF Pending

LEMMA PendingSync ==
    ASSUME RowTypes, NEW s \in Schedule, NEW st \in Live, NEW c \in Cron,
           NEW t \in Nat, SyncPendingRun(s, st, c, t), NEW u \in Schedule
    PROVE  LET P == {q \in Run : runOf'[q] = u /\ runStatus'[q] = "scheduled"}
           IN  IF u # s THEN P = Pending(runStatus, u)
               ELSE IF st = "active" THEN \E r \in Run : P = {r}
               ELSE P = {}
<1>1. CASE st # "active"
  <2>1. runStatus' = Swept(s) /\ UNCHANGED runOf
    BY <1>1 DEF SyncPendingRun
  <2>2. {q \in Run : runOf'[q] = u /\ runStatus'[q] = "scheduled"} =
        Pending(Swept(s), u)
    BY <2>1 DEF Pending
  <2> QED BY <1>1, <2>2, PendingSwept
<1>2. CASE st = "active"
  <2>1. InsertRun(Swept(s), s, NextTrigger(c, t), "scheduled")
    BY <1>2 DEF SyncPendingRun
  <2>2. NextTrigger(c, t) \in Nat /\ "scheduled" \in Stored
    BY NextTriggerLater DEF Stored
  <2>3. PICK r \in Run : Adds(Swept(s), r, s, NextTrigger(c, t), "scheduled")
    BY <2>1, <2>2, SweptMoved, Inserted
  <2>4. {q \in Run : runOf'[q] = u /\ runStatus'[q] = "scheduled"} =
        IF u = s THEN Pending(Swept(s), u) \cup {r} ELSE Pending(Swept(s), u)
    BY <2>2, <2>3, SweptMoved, PendingAdds
  <2> QED BY <1>2, <2>4, PendingSwept
<1> QED BY <1>1, <1>2

LEMMA PendingInit == Init => PendingMatchesStatus
BY DEF Init, ScheduleInit, PendingMatchesStatus, Pending

(* Nothing changes for schedules whose status and rows stay.                *)
LEMMA PendingKept ==
    ASSUME PendingMatchesStatus, status' = status, runOf' = runOf,
           \A r \in Run : runStatus'[r] = "scheduled" <=> runStatus[r] = "scheduled"
    PROVE  PendingMatchesStatus'
BY DEF PendingMatchesStatus, Pending

LEMMA PendingApi ==
    ASSUME Sound, PendingMatchesStatus, Api
    PROVE  PendingMatchesStatus'
<1>1. RowTypes
  BY DEF Sound, StoreSound
<1>2. ASSUME NEW s \in Schedule, NEW st \in Live, NEW c \in Cron, NEW t \in Nat,
             SyncPendingRun(s, st, c, t), status' = [status EXCEPT ![s] = st]
      PROVE  PendingMatchesStatus'
  <2>1. status'[s] = st /\ \A u \in Schedule \ {s} : status'[u] = status[u]
    BY <1>2 DEF Sound, StoreSound
  <2> QED BY <1>1, <1>2, <2>1, PendingSync DEF PendingMatchesStatus, Pending
<1>3. ASSUME NEW s \in Schedule, NEW st \in Live, NEW c \in Cron,
             CreateSchedule(s, st, c)
      PROVE  PendingMatchesStatus'
  <2>1. clock \in Nat
    BY BoundsAssumption DEF Sound, StoreSound
  <2> QED BY <1>2, <1>3, <2>1 DEF CreateSchedule
<1>4. ASSUME NEW w \in Writer, PutCommit(w) PROVE PendingMatchesStatus'
  <2> DEFINE s == put[w].schedule
  <2>1. /\ s \in Schedule /\ put[w].status \in Live
        /\ put[w].cron \in Cron /\ put[w].from \in Nat
    BY <1>4 DEF PutCommit, Sound, StoreSound
  <2>2. status' = [status EXCEPT ![s] = put[w].status]
    BY <1>4 DEF PutCommit
  <2>3. CASE ShouldSync(w)
    <3>1. SyncPendingRun(s, put[w].status, put[w].cron, put[w].from)
      BY <1>4, <2>3 DEF PutCommit
    <3> QED BY <1>2, <2>1, <2>2, <3>1
  <2>4. CASE ~ShouldSync(w)
    <3>1. UNCHANGED rowVars
      BY <1>4, <2>4 DEF PutCommit
    <3>2. status' = status
      BY <2>1, <2>2, <2>4 DEF ShouldSync, Sound, StoreSound
    <3> QED BY <3>1, <3>2, PendingKept DEF rowVars
  <2> QED BY <2>3, <2>4
<1>5. ASSUME NEW s \in Schedule, DeleteSchedule(s) PROVE PendingMatchesStatus'
  <2>1. /\ status'[s] = "gone" /\ runOf' = runOf
        /\ \A u \in Schedule \ {s} : status'[u] = status[u]
        /\ \A r \in Run : runStatus'[r] =
              IF runOf[r] = s THEN "removed" ELSE runStatus[r]
    BY <1>5 DEF DeleteSchedule, Sound, StoreSound
  <2> QED BY <2>1 DEF PendingMatchesStatus, Pending
<1>6. ASSUME NEW w \in Writer, PutLock(w) \/ PutConflict(w) \/ PutFails(w)
      PROVE  PendingMatchesStatus'
  BY <1>6, PendingKept DEF PutLock, PutConflict, PutFails, rowVars
<1>7. ASSUME NEW w \in Writer, NEW s \in Schedule, NEW st \in Live,
             NEW c \in Cron, PutBegin(w, s, st, c)
      PROVE  PendingMatchesStatus'
  BY <1>7, PendingKept DEF PutBegin, rowVars
<1> QED BY <1>3, <1>4, <1>5, <1>6, <1>7 DEF Api, PutStep

LEMMA PendingCommit ==
    ASSUME Sound, Roles, Locked, PendingMatchesStatus, FinishCommit
    PROVE  PendingMatchesStatus'
<1> DEFINE s == runOf[item]
<1>1. /\ pass = "commit" /\ status' = status
      /\ item \in Run /\ s \in Schedule /\ seen = status[s]
      /\ verdict \in {"triggered", "failed"}
      /\ RowTypes /\ Moved(Done) /\ Upcoming \in Nat
  BY Finishing DEF FinishCommit, Release, Locked
<1>2. /\ Done[item] = verdict
      /\ \A r \in Run \ {item} : Done[r] = runStatus[r]
  BY <1>1 DEF Done, RowTypes
<1>3. CASE UNCHANGED rowVars
  BY <1>1, <1>3, PendingKept DEF rowVars
<1>4. CASE /\ seen # "active" /\ runStatus' = Done
           /\ UNCHANGED <<runOf, scheduledFor, manual>>
  BY <1>1, <1>2, <1>4 DEF PendingMatchesStatus, Pending
<1>5. CASE /\ seen = "active" /\ Insertable(Done, s, Upcoming)
           /\ \E r \in Run : Adds(Done, r, s, Upcoming, "scheduled")
  <2>1. PICK r \in Run : Adds(Done, r, s, Upcoming, "scheduled")
    BY <1>5
  <2>2. "scheduled" \in Stored
    BY DEF Stored
  <2>3. \A u \in Schedule :
           {q \in Run : runOf'[q] = u /\ runStatus'[q] = "scheduled"} =
           IF u = s THEN Pending(Done, u) \cup {r} ELSE Pending(Done, u)
    BY <1>1, <2>1, <2>2, PendingAdds
  <2>4. \A u \in Schedule \ {s} : Pending(Done, u) = Pending(runStatus, u)
    BY <1>1, <1>2 DEF Pending
  <2>5. Pending(Done, s) = {}
    BY <1>5 DEF Insertable
  <2> DEFINE P(u) == {q \in Run : runOf'[q] = u /\ runStatus'[q] = "scheduled"}
  <2>6. P(s) = {r} /\ status'[s] = "active"
    BY <1>1, <1>5, <2>3, <2>5
  <2>7. \A u \in Schedule \ {s} : P(u) = Pending(runStatus, u)
    BY <2>3, <2>4
  <2>8. \A u \in Schedule : IF status'[u] = "active"
                             THEN \E q \in Run : P(u) = {q} ELSE P(u) = {}
    <3> HIDE DEF P
    <3> QED BY <1>1, <2>6, <2>7 DEF PendingMatchesStatus
  <2> QED BY <2>8 DEF PendingMatchesStatus, Pending
<1> QED BY <1>3, <1>4, <1>5, Committed

LEMMA PendingStep ==
    ASSUME Sound, Roles, Locked, PendingMatchesStatus, [Next]_vars
    PROVE  PendingMatchesStatus'
<1>1. ASSUME NEW p \in Post, RunNowFailed(p) PROVE PendingMatchesStatus'
  <2>1. post[p].run \in Run /\ runStatus[post[p].run] # "scheduled"
    BY <1>1 DEF RunNowFailed, Sound, StoreSound, RowTypes, Roles, PostRoles,
                ManualKept
  <2>2. \A r \in Run : runStatus'[r] = "scheduled" <=> runStatus[r] = "scheduled"
    BY <1>1, <2>1 DEF RunNowFailed, Sound, StoreSound, RowTypes
  <2>3. status' = status /\ runOf' = runOf
    BY <1>1 DEF RunNowFailed
  <2> QED BY <2>2, <2>3, PendingKept
<1>2. ASSUME NEW p \in Post, NEW s \in Schedule, RunNow(p, s)
      PROVE  PendingMatchesStatus'
  <2>1. PICK r \in Run : Adds(runStatus, r, s, clock, "triggered")
    BY <1>2, RunNowAdds
  <2>2. /\ RowTypes /\ Moved(runStatus) /\ clock \in Nat
        /\ "triggered" \in Stored
    BY BoundsAssumption DEF Sound, StoreSound, RowTypes, Moved, Stored
  <2>3. \A u \in Schedule :
           {q \in Run : runOf'[q] = u /\ runStatus'[q] = "scheduled"} =
           Pending(runStatus, u)
    BY <2>1, <2>2, PendingAdds
  <2>4. status' = status
    BY <1>2 DEF RunNow
  <2> QED BY <2>3, <2>4 DEF PendingMatchesStatus, Pending
<1>3. ASSUME \/ \E p \in Post : \/ PostLoad(p) \/ PostListTurns(p)
                                \/ PostStart(p) \/ PostDone(p) \/ PostFails(p)
                                \/ Timeout(p) \/ Answered(p)
             \/ TimePasses \/ Tick \/ EndPass \/ NextRun \/ Send \/ FinishLock
             \/ FinishFails \/ Stop \/ Exit \/ ControllerCrash \/ ServerCrash
             \/ Start \/ UNCHANGED vars
      PROVE  PendingMatchesStatus'
  <2>1. UNCHANGED <<status, rowVars>>
    BY <1>3
       DEF PostLoad, PostListTurns, PostStart, PostDone, PostFails, Timeout,
           Answered, TimePasses, Tick, EndPass, NextRun, Send, FinishLock,
           FinishFails, Release, Stop, Exit, ControllerCrash, ServerCrash, Start,
           vars, storeVars
  <2> QED BY <2>1, PendingKept DEF rowVars
<1>4. CASE Next
  <2>1. CASE ControllerStep
    BY <1>3, <2>1, PendingCommit DEF ControllerStep
  <2>2. CASE \E p \in Post : PostStep(p) \/ PostFails(p) \/ Timeout(p)
    BY <1>1, <1>3, <2>2 DEF PostStep
  <2>3. CASE \E p \in Post, s \in Schedule : RunNow(p, s)
    BY <1>2, <2>3
  <2>4. CASE \/ TimePasses \/ FinishFails \/ Stop \/ Exit \/ ControllerCrash
             \/ ServerCrash \/ Start
    BY <1>3, <2>4
  <2> QED BY <1>4, <2>1, <2>2, <2>3, <2>4, PendingApi DEF Next
<1> QED BY <1>3, <1>4

-----------------------------------------------------------------------------
(* A cron run that was handed off was due: its time has come, and came      *)
(* before the reading of the clock of the pass in flight.                   *)
Timely ==
    /\ passNow <= clock
    /\ \A r \in Run \ manual : runStatus[r] \in {"triggered", "failed"} =>
           /\ scheduledFor[r] <= clock
           /\ pass # "idle" => scheduledFor[r] <= passNow

LEMMA TimelyInit == Init => Timely
BY DEF Init, ScheduleInit, Timely

LEMMA TimelyStep ==
    ASSUME Sound, Roles, Timely, [Next]_vars
    PROVE  Timely'
<1>1. Ages /\ KeepsBorn /\ Sound'
  BY AgesStep, SoundStep
<1>2. /\ clock \in Nat /\ clock' \in Nat /\ passNow \in Nat
      /\ scheduledFor \in [Run -> Nat] /\ scheduledFor' \in [Run -> Nat]
      /\ runStatus' \in [Run -> Stored \cup {"unborn", "removed"}]
  BY <1>1, BoundsAssumption DEF Sound, StoreSound, RowTypes, PassSound
<1>3. clock' >= clock
  <2>1. CASE TimePasses
    BY <1>2, <2>1 DEF TimePasses
  <2>2. CASE Api
    BY <1>2, <2>2
       DEF Api, PutStep, CreateSchedule, PutBegin, PutLock, PutCommit,
           PutConflict, PutFails, DeleteSchedule
  <2>3. ASSUME NEW p \in Post,
               \/ PostStep(p) \/ PostFails(p) \/ Timeout(p) \/ Answered(p)
               \/ \E s \in Schedule : RunNow(p, s)
        PROVE  clock' = clock
    BY <2>3 DEF PostStep, PostLoad, PostListTurns, PostStart, PostDone,
                RunNowFailed, PostFails, Timeout, Answered, RunNow, storeVars
  <2>4. ASSUME \/ Tick \/ EndPass \/ NextRun \/ Send \/ FinishLock
               \/ FinishCommit \/ FinishFails \/ Stop \/ Exit
               \/ ControllerCrash \/ ServerCrash \/ Start \/ UNCHANGED vars
        PROVE  clock' = clock
    BY <2>4 DEF Tick, EndPass, NextRun, Send, FinishLock, FinishCommit,
                FinishFails, Release, Stop, Exit, ControllerCrash, ServerCrash,
                Start, vars, storeVars
  <2>5. CASE ControllerStep
    BY <1>2, <2>3, <2>4, <2>5 DEF ControllerStep
  <2>6. CASE Next
    BY <1>2, <2>1, <2>2, <2>3, <2>4, <2>5, <2>6 DEF Next
  <2> QED BY <1>2, <2>4, <2>6
<1>4. \/ passNow' = passNow /\ (pass = "idle" => pass' = "idle")
      \/ passNow' = clock /\ clock' = clock
      \/ passNow' = 0 /\ pass' = "idle"
  <2>1. ASSUME NEW p \in Post,
               \/ PostStep(p) \/ PostFails(p) \/ Timeout(p) \/ Answered(p)
               \/ \E s \in Schedule : RunNow(p, s)
        PROVE  passNow' = passNow /\ (pass = "idle" => pass' = "idle")
    BY <2>1 DEF PostStep, PostLoad, PostListTurns, PostStart, PostDone,
                RunNowFailed, PostFails, Timeout, Answered, RunNow, passVars
  <2>2. ASSUME \/ NextRun \/ Send \/ FinishLock
               \/ FinishCommit \/ FinishFails \/ Stop \/ Exit
               \/ ServerCrash \/ Start \/ TimePasses \/ (Api /\ ElseUnchanged)
               \/ UNCHANGED vars
        PROVE  passNow' = passNow /\ (pass = "idle" => pass' = "idle")
    BY <2>2 DEF NextRun, Send, FinishLock, FinishCommit,
                FinishFails, Release, Stop, Exit, ServerCrash, TimePasses,
                ElseUnchanged, Start, vars, passVars
  <2>3. CASE Tick
    BY <2>3 DEF Tick, storeVars
  <2>4. CASE EndPass \/ ControllerCrash
    BY <2>4 DEF EndPass, ControllerCrash, NoPass
  <2>5. CASE ControllerStep
    BY <2>1, <2>2, <2>3, <2>4, <2>5 DEF ControllerStep
  <2>6. CASE Next
    BY <2>1, <2>2, <2>4, <2>5, <2>6 DEF Next
  <2> QED BY <2>2, <2>6
<1>5. passNow' <= clock'
  BY <1>2, <1>3, <1>4 DEF Timely
<1>6. ASSUME NEW r \in Run \ manual',
             runStatus'[r] \in {"triggered", "failed"}
      PROVE  /\ scheduledFor'[r] <= clock'
             /\ pass' # "idle" => scheduledFor'[r] <= passNow'
  <2>1. Born(r) /\ r \notin manual
    BY <1>1, <1>6 DEF Ages, Born
  <2>2. scheduledFor'[r] = scheduledFor[r]
    BY <1>1, <2>1 DEF KeepsBorn, Born
  <2>3. CASE runStatus[r] \in {"triggered", "failed"}
    BY <1>2, <1>3, <1>4, <2>1, <2>2, <2>3 DEF Timely
  <2>4. CASE /\ pass = "commit" /\ pass' = "next" /\ r = item
    <3>1. scheduledFor[r] <= passNow
      BY <2>4 DEF Roles, PassRoles, Handling, Dispatchable
    <3> QED BY <1>2, <1>3, <1>4, <2>2, <2>4, <3>1 DEF Timely
  <2>5. ~ \E p \in Post : post[p].pc = "mark" /\ post[p].run = r
    BY <2>1 DEF Roles, PostRoles
  <2> QED BY <1>1, <1>6, <2>1, <2>3, <2>4, <2>5 DEF Ages
<1> QED BY <1>5, <1>6 DEF Timely

(* A finish never meets a run with the name or in the place of its next     *)
(* one: the run it finishes was the only pending one, and every other cron  *)
(* run of the schedule was due before the time it plans from.               *)
LEMMA FinishHasRoom ==
    ASSUME Sound, Roles, Locked, PendingMatchesStatus, Timely
    PROVE  NextNeverConflicts
<1> SUFFICES ASSUME pass = "commit", runStatus[item] \in Stored, seen = "active"
             PROVE  Insertable(Done, runOf[item], Upcoming)
  BY DEF NextNeverConflicts, Done, Upcoming, From
<1> DEFINE s == runOf[item]
<1>1. /\ item \in Run /\ s \in Schedule /\ status[s] = "active"
      /\ verdict \in {"triggered", "failed"}
      /\ From \in Nat /\ Upcoming \in Nat /\ Upcoming > From
      /\ RowTypes
  BY Finishing DEF Locked
<1>2. /\ item \notin manual /\ runStatus[item] = "scheduled"
      /\ scheduledFor[item] <= passNow
  BY DEF Roles, PassRoles, Handling, Dispatchable, Stored
<1>3. /\ Done[item] = verdict
      /\ \A r \in Run \ {item} : Done[r] = runStatus[r]
  BY <1>1 DEF Done, RowTypes
<1>4. \A r \in Run : runOf[r] = s /\ runStatus[r] = "scheduled" => r = item
  <2>1. \E q \in Run : Pending(runStatus, s) = {q}
    BY <1>1 DEF PendingMatchesStatus
  <2>2. item \in Pending(runStatus, s)
    BY <1>1, <1>2 DEF Pending
  <2> QED BY <2>1, <2>2 DEF Pending
<1>5. Pending(Done, s) = {}
  BY <1>1, <1>3, <1>4 DEF Pending
<1>6. ASSUME NEW r \in Run \ manual, runOf[r] = s, Done[r] \in Stored,
             scheduledFor[r] = Upcoming
      PROVE  FALSE
  <2>1. passNow \in Nat /\ scheduledFor[r] \in Nat /\ scheduledFor[item] \in Nat
    BY <1>1, BoundsAssumption DEF Sound, PassSound, RowTypes
  <2>2. From >= passNow /\ From >= scheduledFor[item]
    BY <2>1 DEF From
  <2>3. CASE r = item
    BY <1>1, <1>6, <2>1, <2>2, <2>3
  <2>4. CASE r # item
    <3>1. runStatus[r] \in {"triggered", "failed"}
      BY <1>3, <1>4, <1>6, <2>4 DEF Stored
    <3>2. scheduledFor[r] <= passNow
      BY <3>1 DEF Timely
    <3> QED BY <1>1, <1>6, <2>1, <2>2, <3>2
  <2> QED BY <2>3, <2>4
<1> QED BY <1>5, <1>6 DEF Insertable, NameTaken

(* The invariant of the schedules: sound data, each actor in its role, row  *)
(* locks held as long as what was read under them is used, one pending run, *)
(* and no hand-off ahead of time.                                           *)
ScheduleInv == Sound /\ Roles /\ Locked /\ PendingMatchesStatus /\ Timely

LEMMA ScheduleInvariant == Spec => []ScheduleInv
<1>1. Init => ScheduleInv
  BY SoundInit, RolesInit, LockedInit, PendingInit, TimelyInit DEF ScheduleInv
<1>2. ScheduleInv /\ [Next]_vars => ScheduleInv'
  BY SoundStep, RolesStep, LockedStep, PendingStep, TimelyStep DEF ScheduleInv
<1> QED BY <1>1, <1>2, PTL DEF Spec

(* An active schedule has exactly one pending run and any other none,       *)
(* whatever PUTs, deletions, hand-offs and crashes interleave: the row lock *)
(* makes what a finish read of the schedule true when it commits.           *)
THEOREM OnePendingRun == Spec => []PendingMatchesStatus
<1>1. ScheduleInv => PendingMatchesStatus
  BY DEF ScheduleInv
<1> QED BY <1>1, ScheduleInvariant, PTL

(* The next run a finish plans collides with no run that is there, so that  *)
(* no run is handed off for ever because its finish cannot commit.          *)
THEOREM AdvanceNeverConflicts == Spec => []NextNeverConflicts
<1>1. ScheduleInv => NextNeverConflicts
  BY FinishHasRoom DEF ScheduleInv
<1> QED BY <1>1, ScheduleInvariant, PTL
-----------------------------------------------------------------------------
(* Turns.                                                                   *)

(* A step of a request starts its turn, goes on towards it only while there *)
(* is none, says "ok" only when there is one, or gives up.                  *)
LEMMA PostGoesOn ==
    ASSUME Sound, NEW p \in Post, PostStep(p) \/ PostFails(p)
    PROVE  LET r == post[p].run IN
           /\ \A q \in Post \ {p} : post'[q] = post[q]
           /\ r \in Run
           /\ overlapped' = overlapped /\ UNCHANGED passVars
           /\ IF PostStart(p)
              THEN /\ post[p].pc = "start" /\ post'[p].pc = "started"
                   /\ turns' = [turns EXCEPT ![r] = @ + 1]
              ELSE turns' = turns
           /\ \/ post'[p] = Idle
              \/ /\ post'[p].run = r /\ post'[p].from = post[p].from
                 /\ \/ /\ post'[p].pc = "session" /\ post[p].pc = "load"
                       /\ runStatus[r] \in Stored
                    \/ post'[p].pc = "start" /\ turns[r] = 0 /\ post[p].pc = "session"
                    \/ PostStart(p)
                    \/ /\ post'[p].pc = "ok"
                       /\ post[p].pc = "started" \/ (turns[r] > 0 /\ post[p].pc = "session")
                    \/ post'[p].pc \in {"missing", "error"}
                    \/ post'[p].pc = "mark" /\ post[p].from = "user"
<1> DEFINE r == post[p].run
<1>1. /\ post \in [Post -> PostType] /\ post' \in [Post -> PostType]
      /\ \A q \in Post \ {p} : post'[q] = post[q]
      /\ UNCHANGED <<overlapped, passVars>>
      /\ r \in Run /\ turns[r] \in Nat
  BY PostMoves DEF PostStep, PostLoad, PostListTurns, PostStart, PostDone,
                   RunNowFailed, PostFails, Sound, PostSound, PostType, Born
<1>2. ASSUME NEW res \in {"ok", "missing", "error"}, Respond(p, res)
      PROVE  \/ post'[p] = Idle
             \/ /\ post'[p].from = post[p].from /\ post'[p].run = post[p].run
                /\ \/ post'[p].pc = res
                   \/ post'[p].pc = "mark" /\ post[p].from = "user"
  BY <1>1, <1>2, Responded DEF PostType
<1>3. ASSUME NEW pc \in {"session", "start", "started"},
             post' = [post EXCEPT ![p].pc = pc]
      PROVE  /\ post'[p].pc = pc
             /\ post'[p].run = post[p].run /\ post'[p].from = post[p].from
  BY <1>1, <1>3 DEF PostType
<1>4. CASE PostLoad(p)
  <2>1. turns' = turns /\ post[p].pc = "load" /\ ~PostStart(p)
    BY <1>4 DEF PostLoad, PostStart
  <2> QED BY <1>1, <1>2, <1>3, <1>4, <2>1 DEF PostLoad
<1>5. CASE PostListTurns(p)
  <2>1. turns' = turns /\ post[p].pc = "session" /\ ~PostStart(p)
    BY <1>5 DEF PostListTurns, PostStart
  <2>2. CASE turns[r] > 0
    BY <1>1, <1>2, <1>5, <2>1, <2>2 DEF PostListTurns
  <2>3. CASE ~(turns[r] > 0)
    <3>1. turns[r] = 0
      BY <1>1, <2>3
    <3> QED BY <1>1, <1>3, <1>5, <2>1, <2>3, <3>1 DEF PostListTurns
  <2> QED BY <2>2, <2>3
<1>6. CASE PostStart(p)
  <2>1. /\ post[p].pc = "start" /\ post' = [post EXCEPT ![p].pc = "started"]
        /\ turns' = [turns EXCEPT ![r] = @ + 1]
    BY <1>6 DEF PostStart
  <2> QED BY <1>1, <1>3, <1>6, <2>1
<1>7. CASE PostDone(p)
  <2>1. turns' = turns /\ post[p].pc = "started" /\ ~PostStart(p) /\ Respond(p, "ok")
    BY <1>7 DEF PostDone, PostStart
  <2> QED BY <1>1, <1>2, <2>1
<1>8. CASE PostFails(p) /\ ~PostStart(p)
  <2>1. turns' = turns /\ Respond(p, "error")
    BY <1>8 DEF PostFails
  <2> QED BY <1>1, <1>2, <1>8, <2>1
<1>9. CASE RunNowFailed(p)
  <2>1. turns' = turns /\ ~PostStart(p) /\ post'[p] = Idle
    BY <1>1, <1>9 DEF RunNowFailed, PostStart
  <2> QED BY <1>1, <2>1
<1> QED BY <1>4, <1>5, <1>6, <1>7, <1>8, <1>9 DEF PostStep

(* The other steps start no turn, and but for a hand-off and a run-now they *)
(* only answer, abandon or end requests.                                    *)
LEMMA PostsElse ==
    ASSUME Sound,
           \/ TimePasses \/ (Api /\ ElseUnchanged) \/ Stop \/ Exit \/ Start
           \/ Tick \/ EndPass \/ NextRun \/ FinishLock \/ FinishCommit
           \/ FinishFails \/ ControllerCrash \/ ServerCrash
           \/ (\E p \in Post : Timeout(p) \/ Answered(p)) \/ UNCHANGED vars
    PROVE  /\ UNCHANGED <<turns, overlapped>>
           /\ \A q \in Post : \/ post'[q] = Idle
                              \/ /\ post'[q].pc = post[q].pc
                                 /\ post'[q].run = post[q].run
<1>1. CASE \/ TimePasses \/ (Api /\ ElseUnchanged) \/ Stop \/ Exit \/ Start
           \/ Tick \/ EndPass \/ NextRun \/ FinishLock \/ FinishCommit
           \/ FinishFails \/ UNCHANGED vars
  BY <1>1 DEF TimePasses, ElseUnchanged, Stop, Exit, Start, Tick, EndPass,
              NextRun, FinishLock, FinishCommit, FinishFails, Release, vars
<1>2. ASSUME NEW p \in Post, Timeout(p) \/ Answered(p)
      PROVE  /\ UNCHANGED <<turns, overlapped>>
             /\ \A q \in Post : \/ post'[q] = Idle
                                \/ /\ post'[q].pc = post[q].pc
                                   /\ post'[q].run = post[q].run
  BY <1>2 DEF Timeout, Answered, Sound, PostSound
<1>3. CASE ControllerCrash
  <2>1. CASE Standalone
    BY <1>3, <2>1 DEF ControllerCrash
  <2>2. CASE ~Standalone
    BY <1>3, <2>2 DEF ControllerCrash, Sound, PostSound
  <2> QED BY <2>1, <2>2
<1>4. CASE ServerCrash
  BY <1>4 DEF ServerCrash
<1> QED BY <1>1, <1>2, <1>3, <1>4

LEMMA PostsSend ==
    ASSUME Sound, Send
    PROVE  /\ turns' = turns
           /\ \/ UNCHANGED <<post, overlapped>>
              \/ \E p \in Post :
                    /\ post'[p].pc = "load" /\ post'[p].run = item
                    /\ \A q \in Post \ {p} : post'[q] = post[q]
                    /\ overlapped' = IF InServer(item) = {} THEN overlapped
                                     ELSE overlapped \cup {item}
BY DEF Send, Sound, PostSound

LEMMA PostsRunNow ==
    ASSUME Sound, NEW p \in Post, NEW s \in Schedule, RunNow(p, s)
    PROVE  /\ UNCHANGED <<turns, overlapped, passVars>>
           /\ \A q \in Post \ {p} : post'[q] = post[q]
           /\ post'[p].pc = "session"
           /\ post'[p].run \in Run /\ ~Born(post'[p].run)
<1>1. PICK r \in Run :
             /\ Adds(runStatus, r, s, clock, "triggered")
             /\ post' = [post EXCEPT ![p] = [pc |-> "session", run |-> r,
                                             from |-> "user"]]
  BY RunNowAdds
<1> QED BY <1>1 DEF RunNow, Adds, Born, Sound, PostSound

(* A step is one of these.                                                  *)
LEMMA StepKinds ==
    ASSUME [Next]_vars
    PROVE  \/ \E p \in Post : PostStep(p) \/ PostFails(p)
           \/ \E p \in Post, s \in Schedule : RunNow(p, s)
           \/ Send
           \/ (\/ TimePasses \/ (Api /\ ElseUnchanged) \/ Stop \/ Exit \/ Start
               \/ Tick \/ EndPass \/ NextRun \/ FinishLock \/ FinishCommit
               \/ FinishFails \/ ControllerCrash \/ ServerCrash
               \/ (\E p \in Post : Timeout(p) \/ Answered(p)) \/ UNCHANGED vars)
<1>1. CASE Next
  BY <1>1 DEF Next, ControllerStep
<1> QED BY <1>1

-----------------------------------------------------------------------------
(* Two turns of one run need two requests for it in the server: as long as  *)
(* a run never had two, the request that found no turn is the only one that *)
(* can start it.                                                            *)
Single ==
    \A r \in Run \ overlapped :
        /\ \A p, q \in Post : p \in InServer(r) /\ q \in InServer(r) => p = q
        /\ turns[r] <= 1
        /\ \A p \in Post : post[p].pc = "start" /\ post[p].run = r => turns[r] = 0

LEMMA SingleInit == Init => Single
BY DEF Init, Idle, Single, InServer

LEMMA SingleStep == ASSUME Sound, Single, [Next]_vars PROVE Single'
<1>0. Idle.pc = "idle" /\ turns \in [Run -> Nat]
  BY DEF Idle, Sound, PostSound
<1>1. ASSUME NEW p \in Post, PostStep(p) \/ PostFails(p) PROVE Single'
  <2>1. /\ \A q \in Post \ {p} : post'[q] = post[q]
        /\ post[p].run \in Run
        /\ overlapped' = overlapped
        /\ \/ post'[p] = Idle
           \/ post'[p].run = post[p].run
        /\ post[p].pc # "idle"
    BY <1>1, PostGoesOn, PostMoves DEF PostStep
  <2>2. \A r \in Run : InServer(r)' \subseteq InServer(r)
    BY <1>0, <2>1 DEF InServer
  <2>3. CASE PostStart(p)
    <3>1. /\ post[p].pc = "start" /\ post'[p].pc = "started"
          /\ turns' = [turns EXCEPT ![post[p].run] = @ + 1]
      BY <1>1, <2>3, PostGoesOn
    <3>2. ASSUME NEW r \in Run \ overlapped
          PROVE  /\ turns'[r] <= 1
                 /\ \A q \in Post : post'[q].pc = "start" /\ post'[q].run = r
                                     => turns'[r] = 0
      <4>1. CASE r = post[p].run
        <5>1. turns[r] = 0 /\ turns'[r] = 1
          BY <1>0, <3>1, <4>1 DEF Single
        <5>2. ASSUME NEW q \in Post, post'[q].pc = "start", post'[q].run = r
              PROVE  FALSE
          <6>1. q # p /\ post[q].pc = "start" /\ post[q].run = r
            BY <2>1, <3>1, <5>2
          <6>2. q \in InServer(r) /\ p \in InServer(r)
            BY <2>1, <4>1, <6>1 DEF InServer
          <6> QED BY <6>1, <6>2 DEF Single
        <5> QED BY <5>1, <5>2
      <4>2. CASE r # post[p].run
        <5>1. turns'[r] = turns[r]
          BY <1>0, <3>1, <4>2
        <5>2. \A q \in Post : post'[q].pc = "start" /\ post'[q].run = r =>
                  post[q].pc = "start" /\ post[q].run = r
          BY <2>1, <3>1
        <5> QED BY <5>1, <5>2 DEF Single
      <4> QED BY <4>1, <4>2
    <3> QED BY <2>1, <2>2, <3>2 DEF Single
  <2>4. CASE ~PostStart(p)
    <3>1. turns' = turns
      BY <1>1, <2>4, PostGoesOn
    <3>2. \A q \in Post : post'[q].pc = "start" =>
              \/ turns[post'[q].run] = 0
              \/ post[q].pc = "start" /\ post[q].run = post'[q].run
      BY <1>0, <1>1, <2>1, <2>4, PostGoesOn
    <3> QED BY <2>1, <2>2, <3>1, <3>2 DEF Single
  <2> QED BY <2>3, <2>4
<1>2. ASSUME NEW p \in Post, NEW s \in Schedule, RunNow(p, s) PROVE Single'
  <2>1. /\ UNCHANGED <<turns, overlapped>>
        /\ \A q \in Post \ {p} : post'[q] = post[q]
        /\ post'[p].pc = "session"
        /\ post'[p].run \in Run /\ ~Born(post'[p].run)
    BY <1>2, PostsRunNow
  <2>2. \A q \in Post : post[q].pc # "idle" => post[q].run # post'[p].run
    BY <2>1 DEF Sound, PostSound
  <2> QED BY <2>1, <2>2 DEF Single, InServer
<1>3. CASE Send
  <2>1. CASE UNCHANGED <<post, overlapped, turns>>
    BY <2>1 DEF Single, InServer
  <2>2. ASSUME NEW p \in Post, turns' = turns,
               post'[p].pc = "load", post'[p].run = item,
               \A q \in Post \ {p} : post'[q] = post[q],
               overlapped' = IF InServer(item) = {} THEN overlapped
                             ELSE overlapped \cup {item}
        PROVE  Single'
    BY <2>2 DEF Single, InServer
  <2> QED BY <1>3, <2>1, <2>2, PostsSend
<1>4. ASSUME /\ UNCHANGED <<turns, overlapped>>
             /\ \A q \in Post : \/ post'[q] = Idle
                                \/ /\ post'[q].pc = post[q].pc
                                   /\ post'[q].run = post[q].run
      PROVE  Single'
  BY <1>0, <1>4 DEF Single, InServer
<1> QED BY <1>1, <1>2, <1>3, <1>4, StepKinds, PostsElse

(* Retries one after the other start one turn: a run has two turns only if  *)
(* two requests for it were in the server at the same time.                 *)
THEOREM RetriesStartOnce == Spec => []RetriedOnce
<1>1. Init => Sound /\ Single
  BY SoundInit, SingleInit
<1>2. Sound /\ Single /\ [Next]_vars => (Sound /\ Single)'
  BY SoundStep, SingleStep
<1>3. Sound /\ Single => RetriedOnce
  BY DEF Single, RetriedOnce
<1> QED BY <1>1, <1>2, <1>3, PTL DEF Spec

-----------------------------------------------------------------------------
(* What says that a turn was started: a request that did it, its answer and *)
(* the verdict of the hand-off.                                             *)
Started ==
    /\ \A p \in Post : post[p].pc \in {"started", "ok"} => turns[post[p].run] > 0
    /\ pass \in {"finish", "commit"} /\ verdict = "triggered" => turns[item] > 0
    /\ TriggeredHasTurn

LEMMA StartedInit == Init => Started
BY DEF Init, ScheduleInit, Idle, Started, TriggeredHasTurn

LEMMA StartedStep ==
    ASSUME Sound, Roles, Started, [Next]_vars
    PROVE  Started'
<1>0. /\ Idle.pc = "idle" /\ turns \in [Run -> Nat]
      /\ Ages /\ KeepsBorn /\ Sound'
  BY AgesStep, SoundStep DEF Idle, Sound, PostSound
<1>1. \A r \in Run : turns[r] > 0 => turns'[r] > 0
  <2>1. ASSUME NEW p \in Post, PostStep(p) \/ PostFails(p)
        PROVE  \A r \in Run : turns[r] > 0 => turns'[r] > 0
    <3>1. CASE PostStart(p)
      BY <1>0, <2>1, <3>1, PostGoesOn
    <3>2. CASE ~PostStart(p)
      BY <2>1, <3>2, PostGoesOn
    <3> QED BY <3>1, <3>2
  <2> QED BY <2>1, StepKinds, PostsElse, PostsSend, PostsRunNow
<1>2. ASSUME NEW q \in Post, post'[q].pc \in {"started", "ok"}
      PROVE  turns'[post'[q].run] > 0
  <2>1. ASSUME post[q].pc \in {"started", "ok"}, post'[q].run = post[q].run
        PROVE  turns'[post'[q].run] > 0
    <3>1. post[q].run \in Run /\ turns[post[q].run] > 0
      BY <2>1 DEF Started, Sound, PostSound, Born
    <3> QED BY <1>1, <2>1, <3>1
  <2>2. ASSUME NEW p \in Post, PostStep(p) \/ PostFails(p)
        PROVE  turns'[post'[q].run] > 0
    <3>1. CASE q # p
      BY <1>2, <2>1, <2>2, <3>1, PostGoesOn
    <3>2. CASE q = p /\ PostStart(p)
      BY <1>0, <1>2, <2>2, <3>2, PostGoesOn
    <3>3. CASE q = p /\ ~PostStart(p)
      <4>1. /\ post'[p].run = post[p].run /\ post[p].run \in Run
            /\ post[p].pc = "started" \/ turns[post[p].run] > 0
        BY <1>0, <1>2, <2>2, <3>3, PostGoesOn
      <4> QED BY <1>1, <2>1, <3>3, <4>1
    <3> QED BY <3>1, <3>2, <3>3
  <2>3. ASSUME NEW p \in Post, NEW s \in Schedule, RunNow(p, s)
        PROVE  turns'[post'[q].run] > 0
    BY <1>2, <2>1, <2>3, PostsRunNow
  <2>4. CASE Send
    BY <1>2, <2>1, <2>4, PostsSend
  <2>5. ASSUME post'[q] = Idle \/ (post'[q].pc = post[q].pc /\ post'[q].run = post[q].run)
        PROVE  turns'[post'[q].run] > 0
    BY <1>0, <1>2, <2>1, <2>5
  <2> QED BY <2>2, <2>3, <2>4, <2>5, StepKinds, PostsElse
<1>3. ASSUME pass' \in {"finish", "commit"}, verdict' = "triggered"
      PROVE  turns'[item'] > 0
  <2>1. ASSUME pass \in {"finish", "commit"}, UNCHANGED <<item, verdict>>
        PROVE  turns'[item'] > 0
    <3>1. item \in Run /\ turns[item] > 0
      BY <1>3, <2>1 DEF Started, Sound, PassSound, Handling, Born
    <3> QED BY <1>1, <2>1, <3>1
  <2>2. ASSUME NEW p \in Post, Answered(p) PROVE turns'[item'] > 0
    <3>1. post[p].pc = "ok" /\ item' = item
      BY <1>3, <2>2 DEF Answered
    <3>2. post[p].run = item /\ item \in Run /\ turns[item] > 0
      BY <2>2, <3>1
         DEF Answered, Roles, PostRoles, Started, Sound, PostSound, Born
    <3> QED BY <1>1, <3>1, <3>2
  <2>3. ASSUME NEW p \in Post,
               \/ PostStep(p) \/ PostFails(p) \/ Timeout(p)
               \/ \E s \in Schedule : RunNow(p, s)
        PROVE  turns'[item'] > 0
    <3>1. UNCHANGED passVars
      BY <1>3, <2>3, PostGoesOn, PostsRunNow DEF Timeout
    <3> QED BY <1>3, <2>1, <3>1 DEF passVars
  <2>4. ASSUME \/ TimePasses \/ (Api /\ ElseUnchanged) \/ Stop \/ Exit \/ Start
               \/ UNCHANGED vars
        PROVE  turns'[item'] > 0
    BY <1>3, <2>1, <2>4 DEF TimePasses, ElseUnchanged, Stop, Exit, Start, vars,
                            passVars
  <2>5. CASE FinishLock
    BY <1>3, <2>1, <2>5 DEF FinishLock
  <2>6. CASE ServerCrash
    BY <1>3, <2>1, <2>6 DEF ServerCrash
  <2>7. ASSUME \/ Tick \/ EndPass \/ NextRun \/ Send \/ FinishCommit
               \/ FinishFails \/ ControllerCrash
        PROVE  FALSE
    BY <1>3, <2>7 DEF Tick, EndPass, NextRun, Send, FinishCommit, FinishFails,
                      Release, NoPass, NoItem, ControllerCrash, Sound, PassSound
  <2> QED BY <2>2, <2>3, <2>4, <2>5, <2>6, <2>7, StepKinds
<1>4. ASSUME NEW r \in Run \ manual', runStatus'[r] = "triggered"
      PROVE  turns'[r] > 0
  <2>1. Born(r) /\ r \notin manual
    BY <1>0, <1>4 DEF Ages, Born
  <2>2. CASE runStatus[r] = "triggered"
    BY <1>1, <2>1, <2>2 DEF Started, TriggeredHasTurn
  <2>3. CASE pass = "commit" /\ r = item /\ runStatus'[r] = verdict
    BY <1>1, <1>4, <2>3 DEF Started
  <2> QED BY <1>0, <1>4, <2>1, <2>2, <2>3 DEF Ages
<1> QED BY <1>2, <1>3, <1>4 DEF Started, TriggeredHasTurn

(* A cron run recorded as triggered has a turn, however its hand-off was    *)
(* retried and whatever crashed meanwhile.                                  *)
THEOREM TriggeredRunsRan == Spec => []TriggeredHasTurn
<1>1. Init => ScheduleInv /\ Started
  BY SoundInit, RolesInit, LockedInit, PendingInit, TimelyInit, StartedInit
     DEF ScheduleInv
<1>2. ScheduleInv /\ Started /\ [Next]_vars => (ScheduleInv /\ Started)'
  BY SoundStep, RolesStep, LockedStep, PendingStep, TimelyStep, StartedStep
     DEF ScheduleInv
<1>3. ScheduleInv /\ Started => TriggeredHasTurn
  BY DEF Started
<1> QED BY <1>1, <1>2, <1>3, PTL DEF Spec

-----------------------------------------------------------------------------
LEMMA StaysWithdrawn ==
    ASSUME Sound, Roles, [Next]_vars, NEW r \in Run, Withdrawn(r)
    PROVE  Withdrawn(r)' /\ turns'[r] = turns[r]
<1>0. /\ Idle.pc = "idle" /\ turns \in [Run -> Nat] /\ Born(r) /\ Ages
      /\ runStatus[r] = "removed" /\ runStatus[r] \notin Stored
  BY AgesStep DEF Idle, Sound, PostSound, Withdrawn, Born, Stored
<1>1. runStatus'[r] = "removed"
  <2>1. ~ \E p \in Post : post[p].pc = "mark" /\ post[p].run = r
    BY DEF Withdrawn
  <2>2. CASE pass = "commit" /\ pass' = "next" /\ r = item
    <3>1. CASE FinishCommit
      <4>1. UNCHANGED rowVars
        BY <1>0, <2>2, <3>1, Committed
      <4> QED BY <1>0, <4>1 DEF rowVars
    <3>2. CASE FinishFails
      BY <1>0, <3>2 DEF FinishFails, rowVars
    <3>3. CASE ~FinishCommit /\ ~FinishFails
      <4>1. ASSUME NEW p \in Post,
                   \/ PostStep(p) \/ PostFails(p)
                   \/ \E s \in Schedule : RunNow(p, s)
            PROVE  FALSE
        BY <2>2, <4>1, PostGoesOn, PostsRunNow DEF passVars
      <4>2. ASSUME \/ TimePasses \/ (Api /\ ElseUnchanged) \/ Stop \/ Exit
                   \/ Start \/ UNCHANGED vars
            PROVE  FALSE
        BY <2>2, <4>2 DEF TimePasses, ElseUnchanged, Stop, Exit, Start, vars,
                          passVars
      <4>3. ASSUME \/ Tick \/ EndPass \/ NextRun \/ Send \/ FinishLock
                   \/ ControllerCrash \/ ServerCrash
                   \/ \E p \in Post : Timeout(p) \/ Answered(p)
            PROVE  FALSE
        BY <2>2, <4>3 DEF Tick, EndPass, NextRun, Send, FinishLock, NoPass,
                          ControllerCrash, ServerCrash, Timeout, Answered
      <4> QED BY <3>3, <4>1, <4>2, <4>3, StepKinds
    <3> QED BY <3>1, <3>2, <3>3
  <2> QED BY <1>0, <2>1, <2>2 DEF Ages
<1>2. /\ turns'[r] = turns[r]
      /\ \A q \in Post : post'[q].run = r =>
             post'[q].pc \in {"idle", "load", "missing", "error"}
  <2>1. ASSUME NEW p \in Post, PostStep(p) \/ PostFails(p)
        PROVE  /\ turns'[r] = turns[r]
               /\ \A q \in Post : post'[q].run = r =>
                      post'[q].pc \in {"idle", "load", "missing", "error"}
    <3>1. CASE post[p].run = r
      <4>1. /\ post[p].pc \in {"idle", "load", "missing", "error"}
            /\ post[p].from # "user"
        BY <3>1 DEF Withdrawn, Roles, PostRoles
      <4> QED BY <1>0, <2>1, <3>1, <4>1, PostGoesOn DEF Withdrawn
    <3>2. CASE post[p].run # r
      <4>1. turns'[r] = turns[r]
        BY <1>0, <2>1, <3>2, PostGoesOn
      <4>2. post'[p] = Idle \/ post'[p].run # r
        BY <2>1, <3>2, PostGoesOn
      <4> QED BY <1>0, <2>1, <4>1, <4>2, PostGoesOn DEF Withdrawn
    <3> QED BY <3>1, <3>2
  <2>2. ASSUME NEW p \in Post, NEW s \in Schedule, RunNow(p, s)
        PROVE  /\ turns'[r] = turns[r]
               /\ \A q \in Post : post'[q].run = r =>
                      post'[q].pc \in {"idle", "load", "missing", "error"}
    BY <1>0, <2>2, PostsRunNow DEF Withdrawn
  <2>3. CASE Send
    BY <2>3, PostsSend DEF Withdrawn
  <2>4. ASSUME /\ UNCHANGED <<turns, overlapped>>
               /\ \A q \in Post : \/ post'[q] = Idle
                                  \/ /\ post'[q].pc = post[q].pc
                                     /\ post'[q].run = post[q].run
        PROVE  /\ turns'[r] = turns[r]
               /\ \A q \in Post : post'[q].run = r =>
                      post'[q].pc \in {"idle", "load", "missing", "error"}
    BY <1>0, <2>4 DEF Withdrawn
  <2> QED BY <2>1, <2>2, <2>3, <2>4, StepKinds, PostsElse
<1> QED BY <1>1, <1>2 DEF Withdrawn

(* A run withdrawn before a request loaded it never gets a turn, although   *)
(* the pass read it while it was pending.                                   *)
THEOREM WithdrawnStaysSilent == Spec => WithdrawnNeverRuns
<1>1. ScheduleInv /\ [Next]_vars =>
         [\A r \in Run : Withdrawn(r) => Withdrawn(r)' /\ turns'[r] = turns[r]]_vars
  BY StaysWithdrawn DEF ScheduleInv
<1> QED BY <1>1, ScheduleInvariant, PTL DEF Spec, WithdrawnNeverRuns
=============================================================================
