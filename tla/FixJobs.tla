------------------------------- MODULE FixJobs -------------------------------
(***************************************************************************)
(* Patch attempts of ResolveForge: reproduce_issue, start_fix and          *)
(* cancel_fix calls against one tools process, as ResolveForgeService,     *)
(* JobManager and EvidenceStore execute them.  Calls interleave at every   *)
(* await; a worker edits its worktree until its completion settles.        *)
(*                                                                         *)
(* A start_fix call and the job it creates share one identity j:           *)
(*   idle -> reading -> worktree -> saving -> launching -> returned        *)
(*                 \-> refused  \--------\-----------\---> failed          *)
(* Evidence is abstracted to what the gate says of it: "allowed", or       *)
(* "held" (blocked, or clarification needed).                              *)
(***************************************************************************)
EXTENDS Naturals, FiniteSets

CONSTANTS Case,              \* triaged cases
          Job,               \* start_fix calls; job ids are minted once
          Canceller,         \* cancel_fix calls
          Patch,             \* contents of a worktree
          Clean,             \* the content a worktree is created with
          MaxPatchAttempts   \* RESOLVEFORGE_MAX_PATCH_ATTEMPTS

ASSUME JobsAssumption == IsFiniteSet(Job)
ASSUME LimitAssumption == MaxPatchAttempts \in Nat \ {0}
ASSUME CleanAssumption == Clean \in Patch

VARIABLES spc,       \* control point of every start_fix call
          caseOf,    \* its case_id, which the caller chose
          job,       \* state.kind of its record in jobs, or "none"
          attempt,   \* patch_attempt of the record
          pending,   \* pendingAttempts
          running,   \* the job has an entry in the running map
          working,   \* its worker has not settled its completion
          worktree,  \* content of its worktree
          evidence,  \* evidence.json of every case
          kpc, kjob  \* cancel_fix calls and the job each names

startVars  == <<spc, caseOf, attempt, pending>>
jobVars    == <<job, running, working, worktree>>
caseVars   == <<evidence>>
cancelVars == <<kpc, kjob>>
fixVars    == <<startVars, jobVars, caseVars, cancelVars>>

FixInit ==
    /\ spc = [j \in Job |-> "idle"]
    /\ caseOf \in [Job -> Case]
    /\ job = [j \in Job |-> "none"]
    /\ attempt = [j \in Job |-> 0]
    /\ pending = [c \in Case |-> 0]
    /\ running = [j \in Job |-> FALSE]
    /\ working = [j \in Job |-> FALSE]
    /\ worktree = [j \in Job |-> Clean]
    /\ evidence = [c \in Case |-> "none"]
    /\ kpc = [k \in Canceller |-> "idle"]
    /\ kjob \in [Canceller -> Job]

Goto(j, l) == spc' = [spc EXCEPT ![j] = l]

Recorded(c)  == {j \in Job : caseOf[j] = c /\ job[j] # "none"}
InFlight     == {"worktree", "saving", "launching"}
Reserving(c) == {j \in Job : caseOf[j] = c /\ spc[j] \in InFlight}

Reserve(j) == pending' = [pending EXCEPT ![caseOf[j]] = @ + 1]

Release(j) == pending' = [pending EXCEPT ![caseOf[j]] = @ - 1]

-----------------------------------------------------------------------------
(* reproduce_issue records what it observed, replacing earlier evidence.    *)
Reproduce(c) ==
    \E e \in {"allowed", "held"} :
        /\ evidence' = [evidence EXCEPT ![c] = e]
        /\ UNCHANGED <<startVars, jobVars, cancelVars>>

StartFix(j) ==
    /\ spc[j] = "idle"
    /\ Goto(j, "reading")
    /\ UNCHANGED <<caseOf, attempt, pending, jobVars, caseVars, cancelVars>>

(* Fault: reservations of calls still in flight are not counted.            *)
MayStartIgnoringReserved(c) == Cardinality(Recorded(c)) < MaxPatchAttempts

(* mayStartPatchAttempt: records and reservations of the case.              *)
MayStart(c) == Cardinality(Recorded(c)) + pending[c] < MaxPatchAttempts

(* The evidence is read; then, in one go, the gate is evaluated, the limit  *)
(* checked and the attempt reserved.                                        *)
Admit(j) ==
    /\ spc[j] = "reading"
    /\ evidence[caseOf[j]] = "allowed"
    /\ MayStart(caseOf[j])
    /\ Reserve(j)
    /\ Goto(j, "worktree")
    /\ UNCHANGED <<caseOf, attempt, jobVars, caseVars, cancelVars>>

Refuse(j) ==
    /\ spc[j] = "reading"
    /\ evidence[caseOf[j]] = "allowed" => ~MayStart(caseOf[j])
    /\ Goto(j, "refused")
    /\ UNCHANGED <<caseOf, attempt, pending, jobVars, caseVars, cancelVars>>

(* createWorktree and the two hashes were awaited; the job is recorded and  *)
(* numbered.                                                                *)
CreateRecord(j) ==
    /\ spc[j] = "worktree"
    /\ job' = [job EXCEPT ![j] = "queued"]
    /\ attempt' = [attempt EXCEPT ![j] = Cardinality(Recorded(caseOf[j])) + 1]
    /\ Goto(j, "saving")
    /\ UNCHANGED <<caseOf, pending, running, working, worktree, caseVars,
                   cancelVars>>

(* The evidence the call read is written back for the worker.               *)
SaveEvidence(j) ==
    /\ spc[j] = "saving"
    /\ evidence' = [evidence EXCEPT ![caseOf[j]] = "allowed"]
    /\ Goto(j, "launching")
    /\ UNCHANGED <<caseOf, attempt, pending, jobVars, cancelVars>>

(* fixClient.start returned a run; the job is running, the reservation is   *)
(* released and the job id returned.                                        *)
Launch(j) ==
    /\ spc[j] = "launching"
    /\ running' = [running EXCEPT ![j] = TRUE]
    /\ working' = [working EXCEPT ![j] = TRUE]
    /\ job' = [job EXCEPT ![j] = "running"]
    /\ Release(j)
    /\ Goto(j, "returned")
    /\ UNCHANGED <<caseOf, attempt, worktree, caseVars, cancelVars>>

(* git, the evidence file or the launch of the worker fails.  The record,   *)
(* if there is one, stays queued.                                           *)
StartFails(j) ==
    /\ spc[j] \in InFlight
    /\ Release(j)
    /\ Goto(j, "failed")
    /\ UNCHANGED <<caseOf, attempt, jobVars, caseVars, cancelVars>>

-----------------------------------------------------------------------------
Work(j) ==
    /\ working[j]
    /\ \E p \in Patch : worktree' = [worktree EXCEPT ![j] = p]
    /\ UNCHANGED <<startVars, job, running, working, caseVars, cancelVars>>

(* Fault: the completion handler forgets that the job was cancelled.        *)
WorkerEndsAnyway(j) ==
    /\ working[j]
    /\ working' = [working EXCEPT ![j] = FALSE]
    /\ \E s \in {"completed", "failed"} : job' = [job EXCEPT ![j] = s]
    /\ running' = [running EXCEPT ![j] = FALSE]
    /\ UNCHANGED <<startVars, worktree, caseVars, cancelVars>>

(* run.completion settles.                                                  *)
WorkerEnds(j) ==
    /\ working[j]
    /\ working' = [working EXCEPT ![j] = FALSE]
    /\ \E s \in {"completed", "failed"} :
          job' = [job EXCEPT ![j] = IF @ = "cancelled" THEN @ ELSE s]
    /\ running' = [running EXCEPT ![j] = FALSE]
    /\ UNCHANGED <<startVars, worktree, caseVars, cancelVars>>

(* cancel_fix: a run in the map is asked to cancel and awaited; without one *)
(* the job is marked at once.  Only a start_fix that returned gave the id.  *)
CancelFix(k) ==
    LET j == kjob[k] IN
    /\ kpc[k] = "idle"
    /\ spc[j] = "returned"
    /\ \/ /\ running[j]
          /\ kpc' = [kpc EXCEPT ![k] = "cancelling"]
          /\ UNCHANGED job
       \/ /\ ~running[j]
          /\ kpc' = [kpc EXCEPT ![k] = "done"]
          /\ job' = [job EXCEPT ![j] = "cancelled"]
    /\ UNCHANGED <<startVars, running, working, worktree, caseVars, kjob>>

CancelDone(k) ==
    /\ kpc[k] = "cancelling"
    /\ running' = [running EXCEPT ![kjob[k]] = FALSE]
    /\ job' = [job EXCEPT ![kjob[k]] = "cancelled"]
    /\ kpc' = [kpc EXCEPT ![k] = "done"]
    /\ UNCHANGED <<startVars, working, worktree, caseVars, kjob>>

(* run.cancel() rejects, for instance because the client is closed.         *)
CancelFails(k) ==
    /\ kpc[k] = "cancelling"
    /\ kpc' = [kpc EXCEPT ![k] = "failed"]
    /\ UNCHANGED <<startVars, jobVars, caseVars, kjob>>

StartStep(j) ==
    \/ StartFix(j) \/ Admit(j) \/ Refuse(j) \/ CreateRecord(j)
    \/ SaveEvidence(j) \/ Launch(j) \/ StartFails(j)

FixNext ==
    \/ \E c \in Case : Reproduce(c)
    \/ \E j \in Job : StartStep(j) \/ Work(j) \/ WorkerEnds(j)
    \/ \E k \in Canceller : CancelFix(k) \/ CancelDone(k) \/ CancelFails(k)

FixSpec == FixInit /\ [][FixNext]_fixVars

-----------------------------------------------------------------------------
FixTypeOK ==
    /\ spc \in [Job -> {"idle", "reading", "returned", "refused", "failed"}
                       \cup InFlight]
    /\ caseOf \in [Job -> Case]
    /\ job \in [Job -> {"none", "queued", "running", "completed", "failed",
                        "cancelled"}]
    /\ attempt \in [Job -> Nat]
    /\ pending \in [Case -> Nat]
    /\ running \in [Job -> BOOLEAN]
    /\ working \in [Job -> BOOLEAN]
    /\ worktree \in [Job -> Patch]
    /\ evidence \in [Case -> {"none", "allowed", "held"}]
    /\ kpc \in [Canceller -> {"idle", "cancelling", "done", "failed"}]
    /\ kjob \in [Canceller -> Job]

(* Attempts of a case: its records, and calls about to insert theirs.       *)
Attempts(c) == Recorded(c) \cup
               {j \in Job : caseOf[j] = c /\ spc[j] = "worktree"}

(* However many start_fix calls run at once, and wherever they wait, a case *)
(* never has more patch attempts than the limit: JobManager.start reserves  *)
(* before its first await.                                                  *)
AttemptsBounded ==
    \A c \in Case : Cardinality(Attempts(c)) <= MaxPatchAttempts

(* Every reservation belongs to a call in flight and every call in flight   *)
(* holds one: none is leaked by a failing start, none released twice.       *)
ReservationsHeld ==
    \A c \in Case : pending[c] = Cardinality(Reserving(c))

(* The attempts of a case carry different numbers, none above the limit,    *)
(* although worktrees may be ready in another order than the calls came.    *)
AttemptsNumbered ==
    \A i, j \in Job :
        (job[i] # "none" /\ job[j] # "none" /\ caseOf[i] = caseOf[j]) =>
            /\ attempt[i] \in 1..MaxPatchAttempts
            /\ attempt[i] = attempt[j] => i = j

(* A cancelled job stays cancelled: the completion of its worker, which may *)
(* come later or race with run.cancel(), does not revive it.                *)
CancelledIsFinal ==
    [][\A j \in Job : job[j] = "cancelled" => job'[j] = "cancelled"]_fixVars
=============================================================================
