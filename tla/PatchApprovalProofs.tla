------------------------- MODULE PatchApprovalProofs -------------------------
(***************************************************************************)
(* Proofs about PatchApproval for any finite set of jobs, any patches and  *)
(* any numbers of verify_fix and review_patch calls.                       *)
(***************************************************************************)
EXTENDS PatchApproval, FixJobsProofs

Fixes == FixNext /\ UNCHANGED <<verifyVars, reports, reviewVars, edits>>

(* A job that completed has no worker, and one that returned without a      *)
(* worker never gets another: its worktree is at rest but for edits.        *)
AtRest(j) == spc[j] = "returned" /\ ~working[j]
CompletedAtRest == \A j \in Job : job[j] = "completed" => AtRest(j)

Jobs == FixInv /\ JobFollowsCall /\ CompletedAtRest

LEMMA JobsInit == FixInit => Jobs
BY FixInvInit, FollowsInit DEF FixInit, CompletedAtRest, Jobs

(* A step of the jobs leaves a worktree at rest alone, and at rest.         *)
LEMMA RestStep ==
    ASSUME Jobs, [FixNext]_fixVars
    PROVE  /\ Jobs'
           /\ \A j \in Job : AtRest(j) => AtRest(j)' /\ worktree'[j] = worktree[j]
<1>1. FixTypeOK /\ JobFollowsCall /\ FixInv' /\ JobFollowsCall'
  BY FixInvNext, FollowsNext DEF Jobs, FixInv
<1> DEFINE Rest == /\ CompletedAtRest'
                   /\ \A j \in Job : AtRest(j) => AtRest(j)' /\ worktree'[j] = worktree[j]
<1> USE DEF startVars, jobVars, caseVars, cancelVars, FixTypeOK, CompletedAtRest,
            AtRest, Goto
<1>2. CompletedAtRest
  BY DEF Jobs
<1>3. ASSUME NEW c \in Case, Reproduce(c) PROVE Rest
  BY <1>2, <1>3 DEF Reproduce
<1>4. ASSUME NEW j \in Job, StartFix(j) \/ Admit(j) \/ Refuse(j) PROVE Rest
  BY <1>1, <1>2, <1>4 DEF StartFix, Admit, Refuse
<1>5. ASSUME NEW j \in Job, CreateRecord(j) \/ SaveEvidence(j) PROVE Rest
  BY <1>1, <1>2, <1>5 DEF CreateRecord, SaveEvidence
<1>6. ASSUME NEW j \in Job, Launch(j) PROVE Rest
  BY <1>1, <1>2, <1>6 DEF Launch
<1>7. ASSUME NEW j \in Job, StartFails(j) PROVE Rest
  BY <1>1, <1>2, <1>7 DEF StartFails, InFlight
<1>8. ASSUME NEW j \in Job, Work(j) PROVE Rest
  BY <1>1, <1>2, <1>8 DEF Work
<1>9. ASSUME NEW j \in Job, WorkerEnds(j) PROVE Rest
  <2>1. /\ spc[j] = "returned" /\ working' = [working EXCEPT ![j] = FALSE]
        /\ UNCHANGED <<spc, worktree>>
        /\ \A i \in Job \ {j} : job'[i] = job[i]
    BY <1>1, <1>9 DEF WorkerEnds, JobFollowsCall
  <2> QED BY <1>1, <1>2, <2>1
<1>10. ASSUME NEW k \in Canceller, CancelFix(k) \/ CancelDone(k) \/ CancelFails(k)
       PROVE  Rest
  <2>1. UNCHANGED <<spc, working, worktree>>
    BY <1>10 DEF CancelFix, CancelDone, CancelFails
  <2>2. \A i \in Job : job'[i] = "completed" => job[i] = "completed"
    <3>1. CASE CancelFix(k)
      BY <1>1, <3>1 DEF CancelFix
    <3>2. CASE CancelDone(k)
      BY <1>1, <3>2 DEF CancelDone
    <3>3. CASE CancelFails(k)
      BY <3>3 DEF CancelFails
    <3> QED BY <1>10, <3>1, <3>2, <3>3
  <2> QED BY <1>2, <2>1, <2>2
<1>11. ASSUME UNCHANGED fixVars PROVE Rest
  BY <1>2, <1>11 DEF fixVars
<1>12. Rest
  <2> HIDE DEF Rest, FixTypeOK, CompletedAtRest, AtRest
  <2>1. CASE FixNext
    BY <1>3, <1>4, <1>5, <1>6, <1>7, <1>8, <1>9, <1>10, <2>1
       DEF FixNext, StartStep
  <2>2. CASE UNCHANGED fixVars
    BY <1>11, <2>2
  <2> QED BY <2>1, <2>2
<1> QED BY <1>1, <1>12 DEF Jobs

-----------------------------------------------------------------------------
(* An edit changes one worktree; what it says of the jobs stays.            *)
LEMMA EditJobs ==
    ASSUME Jobs, NEW j \in Job, Edit(j)
    PROVE  /\ Jobs'
           /\ \A i \in Job : AtRest(i) => AtRest(i)'
           /\ \A i \in Job \ {j} : worktree'[i] = worktree[i]
<1>1. PICK p \in Patch : worktree' = [worktree EXCEPT ![j] = p]
  BY DEF Edit
<1>2. FixTypeOK'
  BY <1>1 DEF Edit, Jobs, FixInv, FixTypeOK, startVars, caseVars, cancelVars
<1>3. ReservationsHeld' /\ JobFollowsCall' /\ CompletedAtRest'
  BY DEF Edit, Jobs, FixInv, ReservationsHeld, Reserving, JobFollowsCall,
         CompletedAtRest, AtRest, startVars, caseVars, cancelVars
<1> QED BY <1>1, <1>2, <1>3
        DEF Edit, Jobs, FixInv, FixTypeOK, AtRest, startVars

(* TypeOK but for the jobs.                                                 *)
CallTypes ==
    /\ vpc \in [Verifier -> {"idle", "status", "diff", "accept", "hash", "report",
                             "done", "failed"}]
    /\ vjob \in [Verifier -> Job]
    /\ vstatus \in [Verifier -> SUBSET File]
    /\ vdiff \in [Verifier -> Text]
    /\ vpassed \in [Verifier -> BOOLEAN]
    /\ vduring \in [Verifier -> SUBSET Patch]
    /\ reports \in [Job -> ReportType]
    /\ rpc \in [Reviewer -> {"idle", "status", "diff", "review", "approve",
                             "revise", "handoff", "failed"}]
    /\ rjob \in [Reviewer -> Job]
    /\ rreport \in [Reviewer -> ReportType]
    /\ rstatus \in [Reviewer -> SUBSET File]
    /\ rduring \in [Reviewer -> SUBSET Patch]
    /\ approved \subseteq [patch : Patch, report : ReportType, during : SUBSET Patch]
    /\ edits \in 0..MaxEdits

LEMMA CallTypesInit == Init => CallTypes
<1>1. Diff[Clean] \in Text /\ NoReport \in ReportType
  BY CleanAssumption DEF Text, NoReport, Report, ReportType
<1> QED BY <1>1, EditAssumption DEF Init, CallTypes

(* One step of a call.                                                      *)
LEMMA CallTypesStep ==
    ASSUME Jobs, CallTypes, [Next]_vars
    PROVE  CallTypes'
<1>1. /\ \A j \in Job : worktree[j] \in Patch
      /\ \A p \in Patch : Status[p] \in SUBSET File /\ Diff[p] \in Text
  BY ShownAssumption DEF Jobs, FixInv, FixTypeOK, Text
<1> USE DEF CallTypes, VGoto, RGoto, verifyVars, reviewVars
<1>2. ASSUME NEW v \in Verifier, VerifyFix(v) \/ VerifyFails(v) PROVE CallTypes'
  BY <1>2 DEF VerifyFix, VerifyFails
<1>3. ASSUME NEW v \in Verifier, InspectStatus(v) PROVE CallTypes'
  BY <1>1, <1>3 DEF InspectStatus
<1>4. ASSUME NEW v \in Verifier, InspectDiff(v) PROVE CallTypes'
  BY <1>1, <1>4 DEF InspectDiff
<1>5. ASSUME NEW v \in Verifier, Accept(v) \/ HashTests(v) PROVE CallTypes'
  BY <1>5 DEF Accept, HashTests
<1>6. ASSUME NEW v \in Verifier, KeepReport(v) PROVE CallTypes'
  <2>1. Report(vstatus[v], vdiff[v], vpassed[v], vduring[v]) \in ReportType
    BY DEF Report, ReportType
  <2> QED BY <1>6, <2>1 DEF KeepReport
<1>7. ASSUME NEW r \in Reviewer, ReviewPatch(r) PROVE CallTypes'
  BY <1>7 DEF ReviewPatch
<1>8. ASSUME NEW r \in Reviewer, ReviewStatus(r) PROVE CallTypes'
  BY <1>1, <1>8 DEF ReviewStatus
<1>9. ASSUME NEW r \in Reviewer, CompareFingerprint(r) \/ ReviewFails(r)
      PROVE  CallTypes'
  BY <1>9 DEF CompareFingerprint, ReviewFails
<1>10. ASSUME NEW r \in Reviewer, Review(r) PROVE CallTypes'
  <2>1. [patch |-> worktree[rjob[r]], report |-> rreport[r], during |-> rduring[r]]
          \in [patch : Patch, report : ReportType, during : SUBSET Patch]
    BY <1>1
  <2> QED BY <1>10, <2>1 DEF Review
<1>11. ASSUME NEW j \in Job, Edit(j) PROVE CallTypes'
  <2>1. vduring' \in [Verifier -> SUBSET Patch] /\ rduring' \in [Reviewer -> SUBSET Patch]
    BY <1>11 DEF Edit
  <2> QED BY <1>11, <2>1, EditAssumption DEF Edit
<1>12. CASE Fixes \/ UNCHANGED vars
  BY <1>12 DEF Fixes, vars
<1> QED BY <1>2, <1>3, <1>4, <1>5, <1>6, <1>7, <1>8, <1>9, <1>10, <1>11, <1>12
        DEF Next, VerifyStep, ReviewStep, Fixes

LEMMA CallsLeaveJobs ==
    ASSUME \/ \E v \in Verifier : VerifyStep(v)
           \/ \E r \in Reviewer : ReviewStep(r)
           \/ UNCHANGED vars
    PROVE  UNCHANGED fixVars
BY DEF VerifyStep, VerifyFix, InspectStatus, InspectDiff, Accept, HashTests,
       KeepReport, VerifyFails, ReviewStep, ReviewPatch, ReviewStatus,
       CompareFingerprint, Review, ReviewFails, vars

LEMMA JobsStep == ASSUME Jobs, [Next]_vars PROVE Jobs'
<1>1. ASSUME NEW j \in Job, Edit(j) PROVE Jobs'
  BY <1>1, EditJobs
<1>2. CASE [FixNext]_fixVars
  BY <1>2, RestStep
<1> QED BY <1>1, <1>2, CallsLeaveJobs DEF Next

(* The calls of PatchApproval keep their types, whatever the jobs do.       *)
THEOREM ApprovalTypeCorrect == Spec => []TypeOK
<1>1. Init => Jobs /\ CallTypes
  BY JobsInit, CallTypesInit DEF Init
<1>2. Jobs /\ CallTypes /\ [Next]_vars => (Jobs /\ CallTypes)'
  BY JobsStep, CallTypesStep
<1>3. Jobs /\ CallTypes => TypeOK
  BY DEF Jobs, FixInv, CallTypes, TypeOK
<1> QED BY <1>1, <1>2, <1>3, PTL DEF Spec

-----------------------------------------------------------------------------
(* What a verification has found is true of contents it met.                *)
FoundStatus(v)   == \E s \in vduring[v] : vstatus[v] = Status[s]
FoundDiff(v)     == \E d \in vduring[v] : vdiff[v] = Diff[d]
FoundScenario(v) == \E a \in vduring[v] :
                       vpassed[v] <=> vstatus[v] \subseteq Scope /\ a \in Sound
FoundVerdict(v)  == \E a, h \in vduring[v] :
                       vpassed[v] <=> /\ vstatus[v] \subseteq Scope
                                      /\ a \in Sound /\ h \in Guarded

(* A verification, until its last read, is of a worktree that only edits    *)
(* change, and it has met what the worktree is now.                         *)
Sees(v) ==
    /\ vpc[v] = "status" \/ Verifying(v) => AtRest(vjob[v])
    /\ Verifying(v) => worktree[vjob[v]] \in vduring[v]
    /\ vpc[v] \in {"diff", "accept", "hash", "report"} => FoundStatus(v)
    /\ vpc[v] \in {"accept", "hash", "report"} => FoundDiff(v)
    /\ vpc[v] = "hash" => FoundScenario(v)
    /\ vpc[v] = "report" => FoundVerdict(v)

VerifyInv == (\A v \in Verifier : Sees(v)) /\ ReportIsTrue

(* A step at which a verification keeps what it found, and may meet more.   *)
Keeps(v) ==
    /\ UNCHANGED <<vpc[v], vjob[v], vstatus[v], vdiff[v], vpassed[v]>>
    /\ vduring[v] \subseteq vduring'[v]
    /\ AtRest(vjob[v]) => AtRest(vjob[v])'
    /\ Verifying(v) => \/ worktree'[vjob[v]] = worktree[vjob[v]]
                        \/ worktree'[vjob[v]] \in vduring'[v]

LEMMA SeesStill ==
    ASSUME NEW v \in Verifier, Sees(v), Keeps(v)
    PROVE  Sees(v)'
<1>1. /\ FoundStatus(v) => FoundStatus(v)'
      /\ FoundDiff(v) => FoundDiff(v)'
  BY DEF Keeps, FoundStatus, FoundDiff
<1>2. /\ FoundScenario(v) => FoundScenario(v)'
      /\ FoundVerdict(v) => FoundVerdict(v)'
  BY DEF Keeps, FoundScenario, FoundVerdict
<1>3. Verifying(v)' <=> Verifying(v)
  BY DEF Keeps, Verifying
<1> QED BY <1>1, <1>2, <1>3 DEF Keeps, Sees, Verifying, AtRest

(* Steps of others let every verification keep what it found.               *)
LEMMA RestKeeps ==
    ASSUME CallTypes, UNCHANGED verifyVars, VerifyInv, [FixNext]_fixVars, Jobs
    PROVE  \A v \in Verifier : Sees(v)'
<1>1. \A j \in Job : AtRest(j) => AtRest(j)' /\ worktree'[j] = worktree[j]
  BY RestStep
<1> SUFFICES ASSUME NEW v \in Verifier PROVE Sees(v)'
  OBVIOUS
<1>2. Sees(v) /\ vjob[v] \in Job
  BY DEF VerifyInv, CallTypes
<1>3. Keeps(v)
  BY <1>1, <1>2 DEF Keeps, Sees, verifyVars, AtRest
<1> QED BY <1>2, <1>3, SeesStill

LEMMA EditKeeps ==
    ASSUME Jobs, CallTypes, VerifyInv, NEW j \in Job, Edit(j)
    PROVE  \A v \in Verifier : Sees(v)'
<1> SUFFICES ASSUME NEW v \in Verifier PROVE Sees(v)'
  OBVIOUS
<1>1. Sees(v) /\ vjob[v] \in Job
  BY DEF VerifyInv, CallTypes
<1>2. PICK p \in Patch :
         /\ worktree' = [worktree EXCEPT ![j] = p]
         /\ vduring' = [u \in Verifier |->
                           vduring[u] \cup {q \in {p} : Verifying(u) /\ vjob[u] = j}]
  BY DEF Edit
<1>3. worktree \in [Job -> Patch]
  BY DEF Jobs, FixInv, FixTypeOK
<1>4. vduring'[v] = vduring[v] \cup {q \in {p} : Verifying(v) /\ vjob[v] = j}
  BY <1>2
<1>5. AtRest(vjob[v]) => AtRest(vjob[v])'
  BY <1>1, EditJobs DEF Edit, AtRest
<1>6. CASE vjob[v] = j
  BY <1>2, <1>3, <1>4, <1>5, <1>6, <1>1, SeesStill DEF Keeps, Edit, AtRest
<1>7. CASE vjob[v] # j
  BY <1>1, <1>2, <1>3, <1>4, <1>5, <1>7, SeesStill DEF Keeps, Edit, AtRest
<1> QED BY <1>6, <1>7

LEMMA ReportsStand ==
    ASSUME ReportIsTrue, UNCHANGED reports
    PROVE  ReportIsTrue'
<1>1. NoReport' = NoReport
  BY DEF NoReport, Report
<1> QED BY <1>1 DEF ReportIsTrue, Tells

LEMMA VerifyStepInv ==
    ASSUME Jobs, CallTypes, VerifyInv, [Next]_vars
    PROVE  VerifyInv'
<1> USE DEF VGoto
<1>0. ASSUME NEW v \in Verifier, VerifyStep(v)
      PROVE  /\ UNCHANGED <<spc, working, worktree>>
             /\ \A u \in Verifier \ {v} : Sees(u)'
  <2>1. UNCHANGED <<spc, working, worktree>>
    BY <1>0, CallsLeaveJobs DEF fixVars, startVars, jobVars
  <2>2. ASSUME NEW u \in Verifier \ {v} PROVE Keeps(u)
    <3>1. /\ UNCHANGED <<vpc[u], vjob[u], vstatus[u], vdiff[u], vpassed[u]>>
          /\ UNCHANGED <<vduring[u]>>
      BY <1>0 DEF VerifyStep, VerifyFix, InspectStatus, InspectDiff, Accept,
                  HashTests, KeepReport, VerifyFails, CallTypes
    <3> QED BY <2>1, <3>1 DEF Keeps, AtRest
  <2> QED BY <2>1, <2>2, SeesStill DEF VerifyInv
<1>1. ASSUME NEW v \in Verifier, VerifyFix(v) PROVE VerifyInv'
  <2>1. AtRest(vjob[v]) /\ vpc'[v] = "status" /\ UNCHANGED <<vjob, reports>>
    BY <1>1 DEF VerifyFix, Jobs, CompletedAtRest, CallTypes
  <2>2. Sees(v)'
    BY <1>0, <1>1, <2>1 DEF VerifyStep, Sees, Verifying, AtRest
  <2> QED BY <1>0, <1>1, <2>1, <2>2, ReportsStand DEF VerifyStep, VerifyInv
<1>2. ASSUME NEW v \in Verifier, InspectStatus(v) PROVE VerifyInv'
  <2>1. /\ vpc[v] = "status" /\ vpc'[v] = "diff" /\ UNCHANGED <<vjob, reports>>
        /\ vstatus'[v] = Status[worktree[vjob[v]]]
        /\ vduring'[v] = {worktree[vjob[v]]}
    BY <1>2 DEF InspectStatus, CallTypes
  <2>2. AtRest(vjob[v])
    BY <2>1 DEF VerifyInv, Sees
  <2>3. Sees(v)'
    BY <1>0, <1>2, <2>1, <2>2 DEF VerifyStep, Sees, Verifying, AtRest, FoundStatus
  <2> QED BY <1>0, <1>2, <2>1, <2>3, ReportsStand DEF VerifyStep, VerifyInv
<1>3. ASSUME NEW v \in Verifier, InspectDiff(v) PROVE VerifyInv'
  <2>1. /\ vpc[v] = "diff" /\ vpc'[v] = "accept"
        /\ UNCHANGED <<vjob, reports, vstatus, vduring>>
        /\ vdiff'[v] = Diff[worktree[vjob[v]]]
    BY <1>3 DEF InspectDiff, CallTypes
  <2>2. AtRest(vjob[v]) /\ FoundStatus(v) /\ worktree[vjob[v]] \in vduring[v]
    BY <2>1 DEF VerifyInv, Sees, Verifying
  <2>3. Sees(v)'
    BY <1>0, <1>3, <2>1, <2>2
       DEF VerifyStep, Sees, Verifying, AtRest, FoundStatus, FoundDiff
  <2> QED BY <1>0, <1>3, <2>1, <2>3, ReportsStand DEF VerifyStep, VerifyInv
<1>4. ASSUME NEW v \in Verifier, Accept(v) PROVE VerifyInv'
  <2>1. /\ vpc[v] = "accept" /\ vpc'[v] = "hash"
        /\ UNCHANGED <<vjob, reports, vstatus, vdiff, vduring>>
    BY <1>4 DEF Accept, CallTypes
  <2>2. vpassed'[v] <=> vstatus[v] \subseteq Scope /\ worktree[vjob[v]] \in Sound
    BY <1>4 DEF Accept, CallTypes
  <2>3. /\ AtRest(vjob[v]) /\ FoundStatus(v) /\ FoundDiff(v)
        /\ worktree[vjob[v]] \in vduring[v]
    BY <2>1 DEF VerifyInv, Sees, Verifying
  <2>4. FoundScenario(v)'
    BY <2>1, <2>2, <2>3 DEF FoundScenario
  <2>5. Sees(v)'
    BY <1>0, <1>4, <2>1, <2>3, <2>4
       DEF VerifyStep, Sees, Verifying, AtRest, FoundStatus, FoundDiff
  <2> QED BY <1>0, <1>4, <2>1, <2>5, ReportsStand DEF VerifyStep, VerifyInv
<1>5. ASSUME NEW v \in Verifier, HashTests(v) PROVE VerifyInv'
  <2>1. /\ vpc[v] = "hash" /\ vpc'[v] = "report"
        /\ UNCHANGED <<vjob, reports, vstatus, vdiff, vduring>>
    BY <1>5 DEF HashTests, CallTypes
  <2>2. vpassed'[v] <=> vpassed[v] /\ worktree[vjob[v]] \in Guarded
    BY <1>5 DEF HashTests, CallTypes
  <2>3. /\ FoundStatus(v) /\ FoundDiff(v) /\ FoundScenario(v)
        /\ worktree[vjob[v]] \in vduring[v]
    BY <2>1 DEF VerifyInv, Sees, Verifying
  <2>4. PICK a \in vduring[v] :
           vpassed[v] <=> vstatus[v] \subseteq Scope /\ a \in Sound
    BY <2>3 DEF FoundScenario
  <2>5. FoundVerdict(v)'
    BY <2>1, <2>2, <2>3, <2>4 DEF FoundVerdict
  <2>6. Sees(v)'
    BY <1>0, <1>5, <2>1, <2>3, <2>5
       DEF VerifyStep, Sees, Verifying, AtRest, FoundStatus, FoundDiff
  <2> QED BY <1>0, <1>5, <2>1, <2>6, ReportsStand DEF VerifyStep, VerifyInv
<1>6. ASSUME NEW v \in Verifier, KeepReport(v) PROVE VerifyInv'
  <2>1. /\ vpc[v] = "report" /\ vpc'[v] = "done"
        /\ reports' = [reports EXCEPT ![vjob[v]] =
                          Report(vstatus[v], vdiff[v], vpassed[v], vduring[v])]
    BY <1>6 DEF KeepReport, CallTypes
  <2>2. FoundStatus(v) /\ FoundDiff(v) /\ FoundVerdict(v)
    BY <2>1 DEF VerifyInv, Sees
  <2>3. PICK a, h \in vduring[v] :
           vpassed[v] <=> vstatus[v] \subseteq Scope /\ a \in Sound /\ h \in Guarded
    BY <2>2 DEF FoundVerdict
  <2>4. Tells(Report(vstatus[v], vdiff[v], vpassed[v], vduring[v]))
    BY <2>2, <2>3 DEF FoundStatus, FoundDiff, Tells, Report
  <2>5. ReportIsTrue'
    <3> SUFFICES ASSUME NEW j \in Job, reports'[j] # NoReport' PROVE Tells(reports'[j])
      BY DEF ReportIsTrue, Tells
    <3>1. reports'[j] # NoReport
      BY DEF NoReport, Report
    <3>2. CASE j = vjob[v]
      BY <2>1, <2>4, <3>2 DEF CallTypes
    <3>3. CASE j # vjob[v]
      BY <2>1, <3>1, <3>3 DEF CallTypes, VerifyInv, ReportIsTrue
    <3> QED BY <3>2, <3>3
  <2>6. Sees(v)'
    BY <2>1 DEF Sees, Verifying
  <2> QED BY <1>0, <1>6, <2>5, <2>6 DEF VerifyStep, VerifyInv
<1>7. ASSUME NEW v \in Verifier, VerifyFails(v) PROVE VerifyInv'
  <2>1. vpc'[v] = "failed" /\ UNCHANGED reports
    BY <1>7 DEF VerifyFails, CallTypes
  <2>2. Sees(v)'
    BY <2>1 DEF Sees, Verifying
  <2> QED BY <1>0, <1>7, <2>1, <2>2, ReportsStand DEF VerifyStep, VerifyInv
<1>8. ASSUME NEW r \in Reviewer, ReviewStep(r) PROVE VerifyInv'
  <2>1. UNCHANGED fixVars /\ UNCHANGED <<verifyVars, reports>>
    BY <1>8, CallsLeaveJobs
       DEF ReviewStep, ReviewPatch, ReviewStatus, CompareFingerprint, Review, ReviewFails
  <2> QED BY <2>1, RestKeeps, ReportsStand DEF VerifyInv
<1>9. ASSUME NEW j \in Job, Edit(j) PROVE VerifyInv'
  <2>1. UNCHANGED reports
    BY <1>9 DEF Edit
  <2> QED BY <1>9, <2>1, EditKeeps, ReportsStand DEF VerifyInv
<1>10. CASE Fixes \/ UNCHANGED vars
  <2>1. [FixNext]_fixVars /\ UNCHANGED <<verifyVars, reports>>
    BY <1>10 DEF Fixes, vars
  <2> QED BY <2>1, RestKeeps, ReportsStand DEF VerifyInv
<1> QED BY <1>1, <1>2, <1>3, <1>4, <1>5, <1>6, <1>7, <1>8, <1>9, <1>10
        DEF Next, VerifyStep, Fixes

(* The invariant of the verifications.                                      *)
LEMMA VerifyInvariant == Spec => [](Jobs /\ CallTypes /\ VerifyInv)
<1>1. Init => VerifyInv
  BY DEF Init, VerifyInv, Sees, Verifying, ReportIsTrue
<1>2. Init => Jobs /\ CallTypes
  BY JobsInit, CallTypesInit DEF Init
<1>3. Jobs /\ CallTypes /\ VerifyInv /\ [Next]_vars
      => (Jobs /\ CallTypes /\ VerifyInv)'
  BY JobsStep, CallTypesStep, VerifyStepInv
<1> QED BY <1>1, <1>2, <1>3, PTL DEF Spec

(* A kept report is true of contents its worktree had while it was made,    *)
(* however verifications overlap and whoever edits the worktree when; a     *)
(* report made while nobody edited it is the verdict on what it had.        *)
THEOREM ReportsAreTrue == Spec => []ReportIsTrue
<1>1. VerifyInv => ReportIsTrue
  BY DEF VerifyInv
<1> QED BY <1>1, VerifyInvariant, PTL

-----------------------------------------------------------------------------
MatchedStatus(r) == \E s \in rduring[r] : rstatus[r] = Status[s]

(* The fingerprint that matched was put together from contents met.         *)
Matched(rep, D) ==
    (\E s \in D : rep.status = Status[s]) /\ (\E d \in D : rep.diff = Diff[d])

(* A review works with a true report, on a worktree that only edits change, *)
(* and has met what the worktree is now.                                    *)
Judges(r) ==
    /\ rreport[r] # NoReport => Tells(rreport[r])
    /\ rpc[r] \in {"status", "diff", "review"} =>
          AtRest(rjob[r]) /\ rreport[r] # NoReport
    /\ Reviewing(r) => worktree[rjob[r]] \in rduring[r]
    /\ rpc[r] = "diff" => MatchedStatus(r)
    /\ rpc[r] = "review" => Matched(rreport[r], rduring[r])

(* An approval comes of a passed, true report that matched.                 *)
Founded(a) ==
    a.report.passed /\ Tells(a.report) /\ Matched(a.report, a.during)

ReviewInv ==
    /\ \A r \in Reviewer : Judges(r)
    /\ \A a \in approved : Founded(a)

(* A step at which a review keeps what it read, and may meet more.          *)
Waits(r) ==
    /\ UNCHANGED <<rpc[r], rjob[r], rreport[r], rstatus[r]>>
    /\ rduring[r] \subseteq rduring'[r]
    /\ AtRest(rjob[r]) => AtRest(rjob[r])'
    /\ Reviewing(r) => \/ worktree'[rjob[r]] = worktree[rjob[r]]
                        \/ worktree'[rjob[r]] \in rduring'[r]

LEMMA JudgesStill ==
    ASSUME NEW r \in Reviewer, Judges(r), Waits(r)
    PROVE  Judges(r)'
<1>1. /\ MatchedStatus(r) => MatchedStatus(r)'
      /\ Matched(rreport[r], rduring[r]) => Matched(rreport[r], rduring[r])'
  BY DEF Waits, MatchedStatus, Matched
<1>2. Tells(rreport[r]) => Tells(rreport[r])'
  BY DEF Waits, Tells
<1>3. NoReport' = NoReport
  BY DEF NoReport, Report
<1> QED BY <1>1, <1>2, <1>3 DEF Waits, Judges, Reviewing, AtRest

LEMMA RestWaits ==
    ASSUME CallTypes, UNCHANGED <<rpc, rjob, rreport, rstatus, rduring>>, ReviewInv,
           [FixNext]_fixVars, Jobs
    PROVE  \A r \in Reviewer : Judges(r)'
<1>1. \A j \in Job : AtRest(j) => AtRest(j)' /\ worktree'[j] = worktree[j]
  BY RestStep
<1> SUFFICES ASSUME NEW r \in Reviewer PROVE Judges(r)'
  OBVIOUS
<1>2. Judges(r) /\ rjob[r] \in Job
  BY DEF ReviewInv, CallTypes
<1>3. Waits(r)
  BY <1>1, <1>2 DEF Waits, Judges, Reviewing, AtRest
<1> QED BY <1>2, <1>3, JudgesStill

LEMMA EditWaits ==
    ASSUME Jobs, CallTypes, ReviewInv, NEW j \in Job, Edit(j)
    PROVE  \A r \in Reviewer : Judges(r)'
<1> SUFFICES ASSUME NEW r \in Reviewer PROVE Judges(r)'
  OBVIOUS
<1>1. Judges(r) /\ rjob[r] \in Job
  BY DEF ReviewInv, CallTypes
<1>2. PICK p \in Patch :
         /\ worktree' = [worktree EXCEPT ![j] = p]
         /\ rduring' = [u \in Reviewer |->
                           rduring[u] \cup {q \in {p} : Reviewing(u) /\ rjob[u] = j}]
  BY DEF Edit
<1>3. worktree \in [Job -> Patch]
  BY DEF Jobs, FixInv, FixTypeOK
<1>4. rduring'[r] = rduring[r] \cup {q \in {p} : Reviewing(r) /\ rjob[r] = j}
  BY <1>2
<1>5. AtRest(rjob[r]) => AtRest(rjob[r])'
  BY <1>1, EditJobs DEF Edit, AtRest
<1>6. CASE rjob[r] = j
  BY <1>2, <1>3, <1>4, <1>5, <1>6, <1>1, JudgesStill DEF Waits, Edit, AtRest
<1>7. CASE rjob[r] # j
  BY <1>1, <1>2, <1>3, <1>4, <1>5, <1>7, JudgesStill DEF Waits, Edit, AtRest
<1> QED BY <1>6, <1>7

(* What an approval rests on is part of it.                                 *)
LEMMA FoundedStays == ASSUME ReviewInv PROVE \A a \in approved : Founded(a)'
BY DEF ReviewInv, Founded, Tells, Matched

LEMMA ReviewStepInv ==
    ASSUME Jobs, CallTypes, VerifyInv, ReviewInv, [Next]_vars
    PROVE  ReviewInv'
<1> USE DEF RGoto
<1>0. ASSUME NEW r \in Reviewer, ReviewStep(r)
      PROVE  /\ UNCHANGED <<spc, working, worktree>>
             /\ \A q \in Reviewer \ {r} : Judges(q)'
  <2>1. UNCHANGED <<spc, working, worktree>>
    BY <1>0, CallsLeaveJobs DEF fixVars, startVars, jobVars
  <2>2. ASSUME NEW q \in Reviewer \ {r} PROVE Waits(q)
    <3>1. UNCHANGED <<rpc[q], rjob[q], rreport[q], rstatus[q], rduring[q]>>
      BY <1>0 DEF ReviewStep, ReviewPatch, ReviewStatus, CompareFingerprint, Review,
                  ReviewFails, CallTypes
    <3> QED BY <2>1, <3>1 DEF Waits, AtRest
  <2> QED BY <2>1, <2>2, JudgesStill DEF ReviewInv
<1>00. NoReport' = NoReport
  BY DEF NoReport, Report
<1>1. ASSUME NEW r \in Reviewer, ReviewPatch(r) PROVE ReviewInv'
  <2>1. /\ UNCHANGED <<rjob, approved>>
        /\ rreport'[r] = reports[rjob[r]] /\ reports[rjob[r]] # NoReport
        /\ rpc'[r] \in {"status", "revise"}
        /\ rpc'[r] = "status" => AtRest(rjob[r])
    BY <1>1 DEF ReviewPatch, Jobs, CompletedAtRest, CallTypes
  <2>2. Tells(reports[rjob[r]])
    BY <2>1 DEF VerifyInv, ReportIsTrue, CallTypes
  <2>3. Tells(rreport[r])'
    BY <2>1, <2>2 DEF Tells
  <2>4. Judges(r)'
    BY <1>0, <1>1, <1>00, <2>1, <2>3 DEF ReviewStep, Judges, Reviewing, AtRest
  <2> QED BY <1>0, <1>1, <2>1, <2>4, FoundedStays DEF ReviewStep, ReviewInv
<1>2. ASSUME NEW r \in Reviewer, ReviewStatus(r) PROVE ReviewInv'
  <2>1. /\ UNCHANGED <<rjob, rreport, approved>>
        /\ rpc[r] = "status" /\ rpc'[r] = "diff"
        /\ rstatus'[r] = Status[worktree[rjob[r]]]
        /\ rduring'[r] = {worktree[rjob[r]]}
    BY <1>2 DEF ReviewStatus, CallTypes
  <2>2. AtRest(rjob[r]) /\ rreport[r] # NoReport /\ Tells(rreport[r])
    BY <2>1 DEF ReviewInv, Judges
  <2>3. Tells(rreport[r])' /\ MatchedStatus(r)'
    BY <1>0, <1>2, <2>1, <2>2 DEF ReviewStep, Tells, MatchedStatus
  <2>4. Judges(r)'
    BY <1>0, <1>2, <1>00, <2>1, <2>2, <2>3 DEF ReviewStep, Judges, Reviewing, AtRest
  <2> QED BY <1>0, <1>2, <2>1, <2>4, FoundedStays DEF ReviewStep, ReviewInv
<1>3. ASSUME NEW r \in Reviewer, CompareFingerprint(r) PROVE ReviewInv'
  <2>1. /\ UNCHANGED <<rjob, rreport, rstatus, rduring, approved>>
        /\ rpc[r] = "diff" /\ rpc'[r] \in {"review", "revise"}
        /\ rpc'[r] = "review" => /\ rstatus[r] = rreport[r].status
                                 /\ Diff[worktree[rjob[r]]] = rreport[r].diff
    BY <1>3 DEF CompareFingerprint, CallTypes
  <2>2. /\ AtRest(rjob[r]) /\ rreport[r] # NoReport /\ Tells(rreport[r])
        /\ worktree[rjob[r]] \in rduring[r] /\ MatchedStatus(r)
    BY <2>1 DEF ReviewInv, Judges, Reviewing
  <2>3. rpc'[r] = "review" => Matched(rreport[r], rduring[r])
    BY <2>1, <2>2 DEF Matched, MatchedStatus
  <2>4. /\ Tells(rreport[r])'
        /\ rpc'[r] = "review" => Matched(rreport[r], rduring[r])'
    BY <2>1, <2>2, <2>3 DEF Tells, Matched
  <2>5. Judges(r)'
    BY <1>0, <1>3, <1>00, <2>1, <2>2, <2>4 DEF ReviewStep, Judges, Reviewing, AtRest
  <2> QED BY <1>0, <1>3, <2>1, <2>5, FoundedStays DEF ReviewStep, ReviewInv
<1>4. ASSUME NEW r \in Reviewer, Review(r) PROVE ReviewInv'
  <2>1. /\ UNCHANGED <<rjob, rreport>>
        /\ rpc[r] = "review" /\ rpc'[r] \in {"approve", "revise", "handoff"}
    BY <1>4 DEF Review, CallTypes
  <2>2. Tells(rreport[r]) /\ Matched(rreport[r], rduring[r])
    BY <2>1 DEF ReviewInv, Judges
  <2>3. \A a \in approved' : Founded(a)
    <3> DEFINE new == [patch |-> worktree[rjob[r]], report |-> rreport[r],
                       during |-> rduring[r]]
    <3>1. rreport[r].passed => Founded(new)
      BY <2>2 DEF Founded
    <3>2. approved' = approved \/ (rreport[r].passed /\ approved' = approved \cup {new})
      BY <1>4 DEF Review
    <3> HIDE DEF new
    <3> QED BY <3>1, <3>2 DEF ReviewInv
  <2>4. \A a \in approved' : Founded(a)'
    BY <2>3 DEF Founded, Tells, Matched
  <2>5. Tells(rreport[r])'
    BY <2>1, <2>2 DEF Tells
  <2>6. Judges(r)'
    BY <1>00, <2>1, <2>5 DEF Judges, Reviewing
  <2> QED BY <1>0, <1>4, <2>4, <2>6 DEF ReviewStep, ReviewInv
<1>5. ASSUME NEW r \in Reviewer, ReviewFails(r) PROVE ReviewInv'
  <2>1. UNCHANGED <<rreport, approved>> /\ rpc'[r] = "failed"
    BY <1>5 DEF ReviewFails, CallTypes
  <2>2. Tells(rreport[r]) => Tells(rreport[r])'
    BY <2>1 DEF Tells
  <2>3. Judges(r)'
    BY <1>00, <2>1, <2>2 DEF ReviewInv, Judges, Reviewing
  <2> QED BY <1>0, <1>5, <2>1, <2>3, FoundedStays DEF ReviewStep, ReviewInv
<1>6. ASSUME NEW v \in Verifier, VerifyStep(v) PROVE ReviewInv'
  <2>1. UNCHANGED fixVars /\ UNCHANGED reviewVars
    BY <1>6, CallsLeaveJobs
       DEF VerifyStep, VerifyFix, InspectStatus, InspectDiff, Accept, HashTests,
           KeepReport, VerifyFails
  <2> QED BY <2>1, RestWaits, FoundedStays DEF ReviewInv, reviewVars
<1>7. ASSUME NEW j \in Job, Edit(j) PROVE ReviewInv'
  <2>1. UNCHANGED approved
    BY <1>7 DEF Edit
  <2> QED BY <1>7, <2>1, EditWaits, FoundedStays DEF ReviewInv
<1>8. CASE Fixes \/ UNCHANGED vars
  <2>1. [FixNext]_fixVars /\ UNCHANGED reviewVars
    BY <1>8 DEF Fixes, vars
  <2> QED BY <2>1, RestWaits, FoundedStays DEF ReviewInv, reviewVars
<1> QED BY <1>1, <1>2, <1>3, <1>4, <1>5, <1>6, <1>7, <1>8
        DEF Next, ReviewStep, Fixes

(* An approved patch shows as a content that was verified and is fit, with  *)
(* edits, verifications and cancels at any time: what is excepted are just  *)
(* the approvals whose own verification or review was edited under.         *)
THEOREM ApprovedPatchesAreVerified == Spec => []ApprovedIsVerified
<1>1. Init => ReviewInv
  BY DEF Init, ReviewInv, Judges, Reviewing
<1>2. Jobs /\ CallTypes /\ VerifyInv /\ ReviewInv /\ [Next]_vars => ReviewInv'
  BY ReviewStepInv
<1>3. Spec => [](Jobs /\ CallTypes /\ VerifyInv)
  BY VerifyInvariant
<1>4. ReviewInv => ApprovedIsVerified
  <2> SUFFICES ASSUME ReviewInv, NEW a \in approved, a.during = {a.patch},
                      NEW q \in Patch, a.report.during = {q}
               PROVE  Fit(q) /\ ShowsAs(a.patch, q)
    BY DEF ApprovedIsVerified
  <2>1. Founded(a)
    BY DEF ReviewInv
  <2>2. Fit(q) /\ a.report.status = Status[q] /\ a.report.diff = Diff[q]
    BY <2>1 DEF Founded, Tells, Fit
  <2>3. a.report.status = Status[a.patch] /\ a.report.diff = Diff[a.patch]
    BY <2>1 DEF Founded, Matched
  <2> QED BY <2>2, <2>3 DEF ShowsAs
<1> QED BY <1>1, <1>2, <1>3, <1>4, PTL DEF Spec
=============================================================================
