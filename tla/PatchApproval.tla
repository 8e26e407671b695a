---------------------------- MODULE PatchApproval ----------------------------
(***************************************************************************)
(* verify_fix and review_patch calls on the jobs of FixJobs:               *)
(* ResolveForgeService.verifyFix and reviewPatch, IndependentVerifier and  *)
(* the semantic review clients.  Both calls work on the job record they    *)
(* read when they began and read the worktree again at later awaits.       *)
(*                                                                         *)
(* A worktree is abstracted to its content.  What the code knows of it is   *)
(* what git shows: Status, the files that differ from HEAD, and Diff, the   *)
(* patch text.  Neither says anything of commits the worker made or of      *)
(* ignored files, so different contents may show the same.  The acceptance  *)
(* scenario and the hash of the protected tests are of the content itself.  *)
(***************************************************************************)
EXTENDS FixJobs

CONSTANTS Verifier,        \* verify_fix calls
          Reviewer,        \* review_patch calls
          File, Scope,     \* paths, and those below the allowed scope
          Status, Diff,    \* what git shows of a content
          Sound,           \* contents that pass the acceptance scenario
          Guarded,         \* contents whose protected tests are unchanged
          MaxEdits         \* bound: edits by somebody else than the worker

ASSUME ShownAssumption == Status \in [Patch -> SUBSET File] /\ DOMAIN Diff = Patch
ASSUME EditAssumption == MaxEdits \in Nat

VARIABLES vpc, vjob,         \* verify_fix calls and the job each names
          vstatus, vdiff,    \* its snapshot, of which the fingerprint is a hash
          vpassed,           \* the tests_passed it has found so far
          reports,           \* the reports kept: at most one for every job
          rpc, rjob,         \* review_patch calls and the job each names
          rreport, rstatus,  \* the report it read, the status it reads now
          approved,          \* patches a reviewer approved, with the report
          edits,
          vduring, rduring   \* history: contents between its first read and last

verifyVars == <<vpc, vjob, vstatus, vdiff, vpassed, vduring>>
reviewVars == <<rpc, rjob, rreport, rstatus, approved, rduring>>
vars == <<fixVars, verifyVars, reports, reviewVars, edits>>

Report(s, d, passed, during) ==
    [status |-> s, diff |-> d, passed |-> passed, during |-> during]

(* Before the first report of a job: no content was verified.               *)
NoReport == Report({}, Diff[Clean], FALSE, {})

Init ==
    /\ FixInit
    /\ vpc = [v \in Verifier |-> "idle"]
    /\ vjob \in [Verifier -> Job]
    /\ vstatus = [v \in Verifier |-> {}]
    /\ vdiff = [v \in Verifier |-> Diff[Clean]]
    /\ vpassed = [v \in Verifier |-> FALSE]
    /\ vduring = [v \in Verifier |-> {}]
    /\ reports = [j \in Job |-> NoReport]
    /\ rpc = [r \in Reviewer |-> "idle"]
    /\ rjob \in [Reviewer -> Job]
    /\ rreport = [r \in Reviewer |-> NoReport]
    /\ rstatus = [r \in Reviewer |-> {}]
    /\ rduring = [r \in Reviewer |-> {}]
    /\ approved = {}
    /\ edits = 0

VGoto(v, l) == vpc' = [vpc EXCEPT ![v] = l]
RGoto(r, l) == rpc' = [rpc EXCEPT ![r] = l]

(* Between its first and its last read of the worktree.                     *)
Verifying(v) == vpc[v] \in {"diff", "accept", "hash"}
Reviewing(r) == rpc[r] \in {"diff", "review"}

-----------------------------------------------------------------------------
(* Any other job, or one that has not completed, is an error at once.       *)
VerifyFix(v) ==
    /\ vpc[v] = "idle"
    /\ job[vjob[v]] = "completed"
    /\ VGoto(v, "status")
    /\ UNCHANGED <<fixVars, vjob, vstatus, vdiff, vpassed, vduring, reports,
                   reviewVars, edits>>

(* inspectPatch: changedFiles ...                                           *)
InspectStatus(v) ==
    /\ vpc[v] = "status"
    /\ vstatus' = [vstatus EXCEPT ![v] = Status[worktree[vjob[v]]]]
    /\ vduring' = [vduring EXCEPT ![v] = {worktree[vjob[v]]}]
    /\ VGoto(v, "diff")
    /\ UNCHANGED <<fixVars, vjob, vdiff, vpassed, reports, reviewVars, edits>>

(* ... and, git being asked again, patchText.                               *)
InspectDiff(v) ==
    /\ vpc[v] = "diff"
    /\ vdiff' = [vdiff EXCEPT ![v] = Diff[worktree[vjob[v]]]]
    /\ VGoto(v, "accept")
    /\ UNCHANGED <<fixVars, vjob, vstatus, vpassed, vduring, reports, reviewVars, edits>>

(* The scope is judged on the snapshot, the scenario runs on the worktree.  *)
Accept(v) ==
    /\ vpc[v] = "accept"
    /\ vpassed' = [vpassed EXCEPT ![v] =
                      vstatus[v] \subseteq Scope /\ worktree[vjob[v]] \in Sound]
    /\ VGoto(v, "hash")
    /\ UNCHANGED <<fixVars, vjob, vstatus, vdiff, vduring, reports, reviewVars, edits>>

(* afterProtectedHash.                                                      *)
HashTests(v) ==
    /\ vpc[v] = "hash"
    /\ vpassed' = [vpassed EXCEPT ![v] = @ /\ worktree[vjob[v]] \in Guarded]
    /\ VGoto(v, "report")
    /\ UNCHANGED <<fixVars, vjob, vstatus, vdiff, vduring, reports, reviewVars, edits>>

(* Fault: the fingerprint is taken last, when the tests have run.           *)
KeepReportFingerprintLast(v) ==
    /\ vpc[v] = "report"
    /\ LET p == worktree[vjob[v]] IN
       reports' = [reports EXCEPT ![vjob[v]] =
                      Report(Status[p], Diff[p], vpassed[v], vduring[v])]
    /\ VGoto(v, "done")
    /\ UNCHANGED <<fixVars, vjob, vstatus, vdiff, vpassed, vduring, reviewVars, edits>>

(* The log was saved; the last report to be finished is kept.               *)
KeepReport(v) ==
    /\ vpc[v] = "report"
    /\ reports' = [reports EXCEPT ![vjob[v]] =
                      Report(vstatus[v], vdiff[v], vpassed[v], vduring[v])]
    /\ VGoto(v, "done")
    /\ UNCHANGED <<fixVars, vjob, vstatus, vdiff, vpassed, vduring, reviewVars, edits>>

(* git, a file or the log fails: no report is kept.                         *)
VerifyFails(v) ==
    /\ vpc[v] \in {"status", "diff", "accept", "hash", "report"}
    /\ VGoto(v, "failed")
    /\ UNCHANGED <<fixVars, vjob, vstatus, vdiff, vpassed, vduring, reports,
                   reviewVars, edits>>

-----------------------------------------------------------------------------
(* Without a report the call is an error; a job that is no longer completed *)
(* is to be revised.                                                        *)
ReviewPatch(r) ==
    /\ rpc[r] = "idle"
    /\ reports[rjob[r]] # NoReport
    /\ rreport' = [rreport EXCEPT ![r] = reports[rjob[r]]]
    /\ RGoto(r, IF job[rjob[r]] = "completed" THEN "status" ELSE "revise")
    /\ UNCHANGED <<fixVars, verifyVars, reports, rjob, rstatus, approved, rduring, edits>>

(* The fingerprint of the worktree as it is now: status, then patch text.   *)
ReviewStatus(r) ==
    /\ rpc[r] = "status"
    /\ rstatus' = [rstatus EXCEPT ![r] = Status[worktree[rjob[r]]]]
    /\ rduring' = [rduring EXCEPT ![r] = {worktree[rjob[r]]}]
    /\ RGoto(r, "diff")
    /\ UNCHANGED <<fixVars, verifyVars, reports, rjob, rreport, approved, edits>>

(* Fault: the worktree is not compared with the verified one.               *)
CompareFingerprintNot(r) ==
    /\ rpc[r] = "diff"
    /\ RGoto(r, "review")
    /\ UNCHANGED <<fixVars, verifyVars, reports, rjob, rreport, rstatus, approved,
                   rduring, edits>>

(* A worktree that shows another patch is to be revised.                    *)
CompareFingerprint(r) ==
    /\ rpc[r] = "diff"
    /\ \/ /\ rstatus[r] = rreport[r].status
          /\ Diff[worktree[rjob[r]]] = rreport[r].diff
          /\ RGoto(r, "review")
       \/ /\ \/ rstatus[r] # rreport[r].status
             \/ Diff[worktree[rjob[r]]] # rreport[r].diff
          /\ RGoto(r, "revise")
    /\ UNCHANGED <<fixVars, verifyVars, reports, rjob, rreport, rstatus, approved,
                   rduring, edits>>

(* The patch text is read again and reviewed: a failed verification is      *)
(* never approved, any other patch may be.                                  *)
Review(r) ==
    /\ rpc[r] = "review"
    /\ \/ /\ rreport[r].passed
          /\ approved' = approved \cup {[patch |-> worktree[rjob[r]],
                                        report |-> rreport[r],
                                        during |-> rduring[r]]}
          /\ RGoto(r, "approve")
       \/ /\ RGoto(r, "revise")
          /\ UNCHANGED approved
       \/ /\ rreport[r].passed
          /\ RGoto(r, "handoff")
          /\ UNCHANGED approved
    /\ UNCHANGED <<fixVars, verifyVars, reports, rjob, rreport, rstatus, rduring, edits>>

(* git or the review service fails.                                         *)
ReviewFails(r) ==
    /\ rpc[r] \in {"status", "diff", "review"}
    /\ RGoto(r, "failed")
    /\ UNCHANGED <<fixVars, verifyVars, reports, rjob, rreport, rstatus, approved,
                   rduring, edits>>

-----------------------------------------------------------------------------
(* Somebody else edits a worktree its worker is done with, at any time: the *)
(* fingerprint exists to notice it.                                         *)
Edit(j) ==
    /\ edits < MaxEdits
    /\ spc[j] = "returned"
    /\ ~working[j]
    /\ edits' = edits + 1
    /\ \E p \in Patch :
          /\ worktree' = [worktree EXCEPT ![j] = p]
          /\ vduring' = [v \in Verifier |->
                            vduring[v] \cup {q \in {p} : Verifying(v) /\ vjob[v] = j}]
          /\ rduring' = [r \in Reviewer |->
                            rduring[r] \cup {q \in {p} : Reviewing(r) /\ rjob[r] = j}]
    /\ UNCHANGED <<startVars, job, running, working, caseVars, cancelVars, vpc,
                   vjob, vstatus, vdiff, vpassed, reports, rpc, rjob, rreport,
                   rstatus, approved>>

VerifyStep(v) ==
    \/ VerifyFix(v) \/ InspectStatus(v) \/ InspectDiff(v) \/ Accept(v)
    \/ HashTests(v) \/ KeepReport(v) \/ VerifyFails(v)
ReviewStep(r) ==
    \/ ReviewPatch(r) \/ ReviewStatus(r) \/ CompareFingerprint(r)
    \/ Review(r) \/ ReviewFails(r)

Next ==
    \/ FixNext /\ UNCHANGED <<verifyVars, reports, reviewVars, edits>>
    \/ \E v \in Verifier : VerifyStep(v)
    \/ \E r \in Reviewer : ReviewStep(r)
    \/ \E j \in Job : Edit(j)

Spec == Init /\ [][Next]_vars

-----------------------------------------------------------------------------
Text == {Diff[p] : p \in Patch}
ReportType == [status : SUBSET File, diff : Text, passed : BOOLEAN, during : SUBSET Patch]

TypeOK ==
    /\ FixTypeOK
    /\ vpc \in [Verifier -> {"idle", "status", "diff", "accept", "hash", "report",
                             "done", "failed"}]
    /\ vjob \in [Verifier -> Job]
    /\ vstatus \in [Verifier -> SUBSET File]
    /\ vdiff \in [Verifier -> Text]
    /\ vpassed \in [Verifier -> BOOLEAN]
    /\ vduring \in [Verifier -> SUBSET Patch]
    /\ reports \in [Job -> ReportType]
    /\ rpc \in [Reviewer -> {"idle", "status", "diff", "review", "approve",
                             "revise", "handoff", "failed"}]
    /\ rjob \in [Reviewer -> Job]
    /\ rreport \in [Reviewer -> ReportType]
    /\ rstatus \in [Reviewer -> SUBSET File]
    /\ rduring \in [Reviewer -> SUBSET Patch]
    /\ approved \subseteq [patch : Patch, report : ReportType, during : SUBSET Patch]
    /\ edits \in 0..MaxEdits

(* What verification is to establish of a content.                          *)
Fit(p) == Status[p] \subseteq Scope /\ p \in Sound \cap Guarded

(* What a fingerprint tells apart.                                          *)
ShowsAs(p, q) == Status[p] = Status[q] /\ Diff[p] = Diff[q]

(* Every part of a report is that of a content met while it was made.       *)
Tells(rep) ==
    \E s, d, a, h \in rep.during :
        /\ rep.status = Status[s] /\ rep.diff = Diff[d]
        /\ rep.passed <=> Status[s] \subseteq Scope /\ a \in Sound /\ h \in Guarded

(* A report puts together what four reads of the worktree found, with edits *)
(* and other verifications between them: each part was true of a content    *)
(* the worktree had while the report was made, and with one content all     *)
(* that time the report is its verdict.                                     *)
ReportIsTrue == \A j \in Job : reports[j] # NoReport => Tells(reports[j])

(* "Stale verification" is rejected "before approval": whatever was edited, *)
(* verified again or cancelled between the calls, and whichever of several  *)
(* verifications was the last to end, an approved patch shows as a content  *)
(* that was verified and is fit - unless the worktree was edited while it   *)
(* was being verified or reviewed.                                          *)
ApprovedIsVerified ==
    \A a \in approved :
        a.during = {a.patch} =>
            \A q \in Patch : a.report.during = {q} => Fit(q) /\ ShowsAs(a.patch, q)

(* README.md: ResolveForge "rejects out-of-scope files, changed tests,      *)
(* stale verification ... before approval", with no exception.              *)
ApprovedIsFit == \A a \in approved : Fit(a.patch)
=============================================================================
