---------------------------- MODULE FixJobsProofs ----------------------------
(***************************************************************************)
(* Proofs about FixJobs for any finite set of start_fix calls.             *)
(***************************************************************************)
EXTENDS FixJobs, FiniteSetTheorems, TLAPS

(* Cardinalities of subsets of Job are natural numbers and monotone.        *)
LEMMA JobSets ==
    ASSUME NEW S \in SUBSET Job
    PROVE  /\ IsFiniteSet(S)
           /\ Cardinality(S) \in Nat
           /\ \A T \in SUBSET S : Cardinality(T) <= Cardinality(S)
<1>1. IsFiniteSet(S)
  BY JobsAssumption, FS_Subset
<1>2. Cardinality(S) \in Nat
  BY <1>1, FS_CardinalityType
<1>3. ASSUME NEW T \in SUBSET S PROVE Cardinality(T) <= Cardinality(S)
  BY <1>1, FS_Subset
<1> QED BY <1>1, <1>2, <1>3

(* Two sets of calls together are at most as many as both counted.          *)
LEMMA JobUnion ==
    ASSUME NEW S \in SUBSET Job, NEW T \in SUBSET Job
    PROVE  Cardinality(S \cup T) <= Cardinality(S) + Cardinality(T)
<1>1. IsFiniteSet(S) /\ IsFiniteSet(T) /\ S \cap T \in SUBSET Job
  BY JobSets
<1>2. Cardinality(S \cup T)
        = Cardinality(S) + Cardinality(T) - Cardinality(S \cap T)
  BY <1>1, FS_Union
<1>3. /\ Cardinality(S) \in Nat
      /\ Cardinality(T) \in Nat
      /\ Cardinality(S \cap T) \in Nat
  BY <1>1, JobSets
<1> QED BY <1>2, <1>3

(* Each case's count changes by one exactly when a call joins or leaves it. *)
LEMMA JobJoins ==
    ASSUME NEW S \in SUBSET Job, NEW j \in Job, j \notin S
    PROVE  Cardinality(S \cup {j}) = Cardinality(S) + 1
BY JobSets, FS_AddElement

LEMMA JobLeaves ==
    ASSUME NEW S \in SUBSET Job, NEW j \in S
    PROVE  Cardinality(S \ {j}) = Cardinality(S) - 1
BY JobSets, FS_RemoveElement

-----------------------------------------------------------------------------
(* Type correctness and the reservations go together: a release never takes *)
(* a counter below zero because the call that releases holds a reservation. *)
FixInv == FixTypeOK /\ ReservationsHeld

(* Counting the calls in flight of one case when call j enters or leaves.   *)
LEMMA EnterFlight ==
    ASSUME FixTypeOK, ReservationsHeld, NEW j \in Job,
           spc[j] = "reading", Reserve(j), Goto(j, "worktree"), caseOf' = caseOf
    PROVE  ReservationsHeld' /\ pending' \in [Case -> Nat]
<1>1. caseOf[j] \in Case /\ j \notin Reserving(caseOf[j])
  BY DEF FixTypeOK, Reserving, InFlight
<1>2. Reserving(caseOf[j])' = Reserving(caseOf[j]) \cup {j}
  BY DEF FixTypeOK, Goto, Reserving, InFlight
<1>3. ASSUME NEW c \in Case, c # caseOf[j] PROVE Reserving(c)' = Reserving(c)
  BY <1>3 DEF FixTypeOK, Goto, Reserving, InFlight
<1>4. \A c \in Case : Reserving(c) \in SUBSET Job
  BY DEF Reserving
<1>5. ASSUME NEW c \in Case
      PROVE  pending'[c] = Cardinality(Reserving(c)') /\ pending'[c] \in Nat
  <2>1. CASE c = caseOf[j]
    <3>1. Cardinality(Reserving(c)') = Cardinality(Reserving(c)) + 1
      BY <1>1, <1>2, <1>4, <2>1, JobJoins
    <3>2. pending'[c] = pending[c] + 1
      BY <2>1, <1>1 DEF Reserve, FixTypeOK
    <3> QED BY <3>1, <3>2 DEF ReservationsHeld, FixTypeOK
  <2>2. CASE c # caseOf[j]
    <3>1. pending'[c] = pending[c]
      BY <2>2 DEF Reserve, FixTypeOK
    <3> QED BY <3>1, <2>2, <1>3 DEF ReservationsHeld, FixTypeOK
  <2> QED BY <2>1, <2>2
<1>6. pending' \in [Case -> Nat]
  <2>1. pending' = [c \in Case |-> pending'[c]]
    BY DEF Reserve, FixTypeOK
  <2> QED BY <2>1, <1>5
<1> QED BY <1>5, <1>6 DEF ReservationsHeld

LEMMA LeaveFlight ==
    ASSUME FixTypeOK, ReservationsHeld, NEW j \in Job,
           spc[j] \in InFlight, Release(j), caseOf' = caseOf,
           NEW l \in {"returned", "failed"}, Goto(j, l)
    PROVE  ReservationsHeld' /\ pending' \in [Case -> Nat]
<1>1. caseOf[j] \in Case /\ j \in Reserving(caseOf[j])
  BY DEF FixTypeOK, Reserving
<1>2. Reserving(caseOf[j])' = Reserving(caseOf[j]) \ {j}
  BY DEF FixTypeOK, Goto, Reserving, InFlight
<1>3. ASSUME NEW c \in Case, c # caseOf[j] PROVE Reserving(c)' = Reserving(c)
  BY <1>3 DEF FixTypeOK, Goto, Reserving, InFlight
<1>4. \A c \in Case : Reserving(c) \in SUBSET Job
  BY DEF Reserving
<1>5. ASSUME NEW c \in Case
      PROVE  pending'[c] = Cardinality(Reserving(c)') /\ pending'[c] \in Nat
  <2>1. CASE c = caseOf[j]
    <3>1. Cardinality(Reserving(c)') = Cardinality(Reserving(c)) - 1
      BY <1>1, <1>2, <1>4, <2>1, JobLeaves
    <3>2. pending'[c] = pending[c] - 1
      BY <2>1, <1>1 DEF Release, FixTypeOK
    <3>3. Reserving(c)' \in SUBSET Job
      BY DEF Reserving
    <3>4. Cardinality(Reserving(c)') \in Nat
      BY <3>3, JobSets
    <3> QED BY <3>1, <3>2, <3>4 DEF ReservationsHeld
  <2>2. CASE c # caseOf[j]
    <3>1. pending'[c] = pending[c]
      BY <2>2 DEF Release, FixTypeOK
    <3> QED BY <3>1, <2>2, <1>3 DEF ReservationsHeld, FixTypeOK
  <2> QED BY <2>1, <2>2
<1>6. pending' \in [Case -> Nat]
  <2>1. pending' = [c \in Case |-> pending'[c]]
    BY DEF Release, FixTypeOK
  <2> QED BY <2>1, <1>5
<1> QED BY <1>5, <1>6 DEF ReservationsHeld
-----------------------------------------------------------------------------
(* A step that moves no call into or out of flight keeps the count.         *)
LEMMA SameFlight ==
    ASSUME ReservationsHeld, pending' = pending,
           \A c \in Case : Reserving(c)' = Reserving(c)
    PROVE  ReservationsHeld'
BY DEF ReservationsHeld

LEMMA FixInvInit == FixInit => FixInv
<1> SUFFICES ASSUME FixInit PROVE FixTypeOK /\ ReservationsHeld
  BY DEF FixInv
<1>1. FixTypeOK
  BY CleanAssumption DEF FixInit, FixTypeOK
<1>2. ASSUME NEW c \in Case PROVE pending[c] = Cardinality(Reserving(c))
  <2>1. Reserving(c) = {}
    BY DEF FixInit, Reserving, InFlight
  <2> QED BY <2>1, FS_EmptySet DEF FixInit
<1> QED BY <1>1, <1>2 DEF ReservationsHeld

(* One step per action; the actions that neither reserve nor release keep   *)
(* the set of calls in flight.                                              *)
LEMMA FixInvNext == FixInv /\ [FixNext]_fixVars => FixInv'
<1> SUFFICES ASSUME FixTypeOK, ReservationsHeld, [FixNext]_fixVars
             PROVE  FixTypeOK' /\ ReservationsHeld'
  BY DEF FixInv
<1> USE DEF startVars, jobVars, caseVars, cancelVars
<1>1. ASSUME NEW c \in Case, Reproduce(c) PROVE FixTypeOK' /\ ReservationsHeld'
  <2>1. FixTypeOK'
    BY <1>1 DEF Reproduce, FixTypeOK
  <2>2. pending' = pending /\ \A d \in Case : Reserving(d)' = Reserving(d)
    BY <1>1 DEF Reproduce, Reserving
  <2> QED BY <2>1, <2>2, SameFlight
<1>2. ASSUME NEW j \in Job, StartFix(j) PROVE FixTypeOK' /\ ReservationsHeld'
  <2>1. FixTypeOK'
    BY <1>2 DEF StartFix, Goto, FixTypeOK
  <2>2. pending' = pending /\ \A c \in Case : Reserving(c)' = Reserving(c)
    BY <1>2 DEF StartFix, Goto, Reserving, InFlight, FixTypeOK
  <2> QED BY <2>1, <2>2, SameFlight
<1>3. ASSUME NEW j \in Job, Admit(j) PROVE FixTypeOK' /\ ReservationsHeld'
  <2>1. ReservationsHeld' /\ pending' \in [Case -> Nat]
    BY <1>3, EnterFlight DEF Admit
  <2>2. spc' \in [Job -> {"idle", "reading", "returned", "refused", "failed"}
                         \cup InFlight]
    BY <1>3 DEF Admit, Goto, InFlight, FixTypeOK
  <2> QED BY <1>3, <2>1, <2>2 DEF Admit, FixTypeOK
<1>4. ASSUME NEW j \in Job, Refuse(j) PROVE FixTypeOK' /\ ReservationsHeld'
  <2>1. FixTypeOK'
    BY <1>4 DEF Refuse, Goto, FixTypeOK
  <2>2. pending' = pending /\ \A c \in Case : Reserving(c)' = Reserving(c)
    BY <1>4 DEF Refuse, Goto, Reserving, InFlight, FixTypeOK
  <2> QED BY <2>1, <2>2, SameFlight
<1>5. ASSUME NEW j \in Job, CreateRecord(j) PROVE FixTypeOK' /\ ReservationsHeld'
  <2>1. Cardinality(Recorded(caseOf[j])) + 1 \in Nat
    <3>1. Recorded(caseOf[j]) \in SUBSET Job
      BY DEF Recorded
    <3> QED BY <3>1, JobSets
  <2>2. FixTypeOK'
    BY <1>5, <2>1 DEF CreateRecord, Goto, InFlight, FixTypeOK
  <2>3. pending' = pending /\ \A c \in Case : Reserving(c)' = Reserving(c)
    BY <1>5 DEF CreateRecord, Goto, Reserving, InFlight, FixTypeOK
  <2> QED BY <2>2, <2>3, SameFlight
<1>6. ASSUME NEW j \in Job, SaveEvidence(j) PROVE FixTypeOK' /\ ReservationsHeld'
  <2>1. FixTypeOK'
    BY <1>6 DEF SaveEvidence, Goto, InFlight, FixTypeOK
  <2>2. pending' = pending /\ \A c \in Case : Reserving(c)' = Reserving(c)
    BY <1>6 DEF SaveEvidence, Goto, Reserving, InFlight, FixTypeOK
  <2> QED BY <2>1, <2>2, SameFlight
<1>7. ASSUME NEW j \in Job, Launch(j) PROVE FixTypeOK' /\ ReservationsHeld'
  <2>1. ReservationsHeld' /\ pending' \in [Case -> Nat]
    BY <1>7, LeaveFlight DEF Launch, InFlight
  <2>2. spc' \in [Job -> {"idle", "reading", "returned", "refused", "failed"}
                         \cup InFlight]
    BY <1>7 DEF Launch, Goto, FixTypeOK
  <2> QED BY <1>7, <2>1, <2>2 DEF Launch, FixTypeOK
<1>8. ASSUME NEW j \in Job, StartFails(j) PROVE FixTypeOK' /\ ReservationsHeld'
  <2>1. ReservationsHeld' /\ pending' \in [Case -> Nat]
    BY <1>8, LeaveFlight DEF StartFails
  <2>2. spc' \in [Job -> {"idle", "reading", "returned", "refused", "failed"}
                         \cup InFlight]
    BY <1>8 DEF StartFails, Goto, FixTypeOK
  <2> QED BY <1>8, <2>1, <2>2 DEF StartFails, FixTypeOK
<1>9. ASSUME NEW j \in Job, Work(j) \/ WorkerEnds(j)
      PROVE  FixTypeOK' /\ ReservationsHeld'
  <2>1. CASE Work(j)
    <3>1. FixTypeOK'
      BY <2>1 DEF Work, FixTypeOK
    <3>2. pending' = pending /\ \A c \in Case : Reserving(c)' = Reserving(c)
      BY <2>1 DEF Work, Reserving
    <3> QED BY <3>1, <3>2, SameFlight
  <2>2. CASE WorkerEnds(j)
    <3>1. PICK s \in {"completed", "failed"} :
             job' = [job EXCEPT ![j] = IF @ = "cancelled" THEN @ ELSE s]
      BY <2>2 DEF WorkerEnds
    <3>2. job' \in [Job -> {"none", "queued", "running", "completed", "failed",
                            "cancelled"}]
      BY <3>1 DEF FixTypeOK
    <3>3. FixTypeOK'
      BY <2>2, <3>2 DEF WorkerEnds, FixTypeOK
    <3>4. pending' = pending /\ \A c \in Case : Reserving(c)' = Reserving(c)
      BY <2>2 DEF WorkerEnds, Reserving
    <3> QED BY <3>3, <3>4, SameFlight
  <2> QED BY <1>9, <2>1, <2>2
<1>10. ASSUME NEW k \in Canceller, CancelFix(k) \/ CancelDone(k) \/ CancelFails(k)
       PROVE  FixTypeOK' /\ ReservationsHeld'
  <2>1. FixTypeOK'
    BY <1>10 DEF CancelFix, CancelDone, CancelFails, FixTypeOK
  <2>2. pending' = pending /\ \A c \in Case : Reserving(c)' = Reserving(c)
    BY <1>10 DEF CancelFix, CancelDone, CancelFails, Reserving
  <2> QED BY <2>1, <2>2, SameFlight
<1>11. CASE UNCHANGED fixVars
  <2>1. FixTypeOK'
    BY <1>11 DEF fixVars, FixTypeOK
  <2>2. pending' = pending /\ \A c \in Case : Reserving(c)' = Reserving(c)
    BY <1>11 DEF fixVars, Reserving
  <2> QED BY <2>1, <2>2, SameFlight
<1> QED BY <1>1, <1>2, <1>3, <1>4, <1>5, <1>6, <1>7, <1>8, <1>9, <1>10, <1>11
        DEF FixNext, StartStep

(* Type correctness of the jobs, the evidence and the calls.                *)
THEOREM FixTypeCorrect == FixSpec => []FixTypeOK
<1>1. FixInv => FixTypeOK
  BY DEF FixInv
<1> QED BY <1>1, FixInvInit, FixInvNext, PTL DEF FixSpec

(* JobManager.start: every call in flight holds one reservation, whichever  *)
(* calls fail, and nobody else holds any.                                   *)
THEOREM ReservationsHeldHolds == FixSpec => []ReservationsHeld
<1>1. FixInv => ReservationsHeld
  BY DEF FixInv
<1> QED BY <1>1, FixInvInit, FixInvNext, PTL DEF FixSpec

-----------------------------------------------------------------------------
(* Admission is the only step that adds an attempt, and it may only when    *)
(* records and reservations leave room.                                     *)
LEMMA AdmitBounded ==
    ASSUME FixInv, AttemptsBounded, NEW j \in Job, Admit(j)
    PROVE  AttemptsBounded'
<1>1. PICK c \in Case : c = caseOf[j]
  BY DEF FixInv, FixTypeOK
<1>2. Attempts(c)' = Attempts(c) \cup {j}
  BY <1>1 DEF Admit, Goto, Attempts, Recorded, FixInv, FixTypeOK, jobVars
<1>3. /\ Recorded(c) \in SUBSET Job
      /\ Reserving(c) \in SUBSET Job
      /\ Attempts(c) \in SUBSET (Recorded(c) \cup Reserving(c))
      /\ Attempts(c) \in SUBSET Job
  BY DEF Attempts, Recorded, Reserving, InFlight
<1>4. /\ Cardinality(Recorded(c)) \in Nat
      /\ Cardinality(Reserving(c)) \in Nat
      /\ Cardinality(Attempts(c)) \in Nat
      /\ Cardinality(Attempts(c)) <= Cardinality(Recorded(c) \cup Reserving(c))
      /\ Cardinality(Recorded(c) \cup Reserving(c)) \in Nat
  <2>1. Recorded(c) \cup Reserving(c) \in SUBSET Job
    BY <1>3
  <2> QED BY <1>3, <2>1, JobSets
<1>5. Cardinality(Recorded(c)) + Cardinality(Reserving(c)) < MaxPatchAttempts
  BY <1>1 DEF Admit, MayStart, FixInv, ReservationsHeld, FixTypeOK
<1>6. Cardinality(Attempts(c)) < MaxPatchAttempts
  <2>1. Cardinality(Recorded(c) \cup Reserving(c))
          <= Cardinality(Recorded(c)) + Cardinality(Reserving(c))
    BY <1>3, JobUnion
  <2> QED BY <1>4, <1>5, <2>1, LimitAssumption
<1>7. Cardinality(Attempts(c) \cup {j}) <= MaxPatchAttempts
  <2>1. CASE j \in Attempts(c)
    <3>1. Attempts(c) \cup {j} = Attempts(c)
      BY <2>1
    <3> QED BY <3>1, <1>4, <1>6, LimitAssumption
  <2>2. CASE j \notin Attempts(c)
    <3>1. Cardinality(Attempts(c) \cup {j}) = Cardinality(Attempts(c)) + 1
      BY <2>2, <1>3, JobJoins
    <3> QED BY <3>1, <1>4, <1>6, LimitAssumption
  <2> QED BY <2>1, <2>2
<1>8. ASSUME NEW d \in Case, d # c PROVE Attempts(d)' = Attempts(d)
  BY <1>1, <1>8 DEF Admit, Goto, Attempts, Recorded, FixInv, FixTypeOK, jobVars
<1> QED BY <1>2, <1>7, <1>8 DEF AttemptsBounded

(* Any other step leaves the attempts of every case alone or takes one away.*)
LEMMA NoNewAttempt ==
    ASSUME AttemptsBounded, \A c \in Case : Attempts(c)' \in SUBSET Attempts(c)
    PROVE  AttemptsBounded'
<1>1. ASSUME NEW c \in Case PROVE Cardinality(Attempts(c)') <= MaxPatchAttempts
  <2>1. Attempts(c) \in SUBSET Job /\ Attempts(c)' \in SUBSET Job
    BY DEF Attempts, Recorded
  <2>2. Cardinality(Attempts(c)') <= Cardinality(Attempts(c))
    BY <2>1, JobSets
  <2>3. Cardinality(Attempts(c)) \in Nat /\ Cardinality(Attempts(c)') \in Nat
    BY <2>1, JobSets
  <2> QED BY <2>2, <2>3, LimitAssumption DEF AttemptsBounded
<1> QED BY <1>1 DEF AttemptsBounded

(* The state of a job follows the call that creates it; only a call that    *)
(* returned has a worker or gave anybody its job id.                        *)
JobFollowsCall ==
    /\ \A j \in Job :
          /\ spc[j] \in {"idle", "reading", "refused", "worktree"} => job[j] = "none"
          /\ spc[j] \in {"saving", "launching"} => job[j] = "queued"
          /\ spc[j] = "returned" => job[j] # "none"
          /\ working[j] \/ running[j] => spc[j] = "returned"
    /\ \A k \in Canceller : kpc[k] = "cancelling" => spc[kjob[k]] = "returned"

LEMMA FollowsInit == FixInit => JobFollowsCall
BY DEF FixInit, JobFollowsCall

LEMMA FollowsNext ==
    FixTypeOK /\ JobFollowsCall /\ [FixNext]_fixVars => JobFollowsCall'
<1> SUFFICES ASSUME FixTypeOK, JobFollowsCall, [FixNext]_fixVars
             PROVE  JobFollowsCall'
  OBVIOUS
<1> USE DEF startVars, jobVars, caseVars, cancelVars, FixTypeOK, JobFollowsCall
<1>1. ASSUME NEW c \in Case, Reproduce(c) PROVE JobFollowsCall'
  BY <1>1 DEF Reproduce
<1>2. ASSUME NEW j \in Job, StartFix(j) \/ Admit(j) \/ Refuse(j)
      PROVE  JobFollowsCall'
  BY <1>2 DEF StartFix, Admit, Refuse, Goto
<1>3. ASSUME NEW j \in Job, CreateRecord(j) PROVE JobFollowsCall'
  BY <1>3 DEF CreateRecord, Goto
<1>4. ASSUME NEW j \in Job, SaveEvidence(j) PROVE JobFollowsCall'
  BY <1>4 DEF SaveEvidence, Goto
<1>5. ASSUME NEW j \in Job, Launch(j) PROVE JobFollowsCall'
  BY <1>5 DEF Launch, Goto
<1>6. ASSUME NEW j \in Job, StartFails(j) PROVE JobFollowsCall'
  BY <1>6 DEF StartFails, Goto, InFlight
<1>7. ASSUME NEW j \in Job, Work(j) PROVE JobFollowsCall'
  BY <1>7 DEF Work
<1>8. ASSUME NEW j \in Job, WorkerEnds(j) PROVE JobFollowsCall'
  BY <1>8 DEF WorkerEnds
<1>9. ASSUME NEW k \in Canceller, CancelFix(k) PROVE JobFollowsCall'
  BY <1>9 DEF CancelFix
<1>10. ASSUME NEW k \in Canceller, CancelDone(k) PROVE JobFollowsCall'
  BY <1>10 DEF CancelDone
<1>11. ASSUME NEW k \in Canceller, CancelFails(k) PROVE JobFollowsCall'
  BY <1>11 DEF CancelFails
<1>12. CASE UNCHANGED fixVars
  BY <1>12 DEF fixVars
<1> QED BY <1>1, <1>2, <1>3, <1>4, <1>5, <1>6, <1>7, <1>8, <1>9, <1>10, <1>11,
           <1>12 DEF FixNext, StartStep

LEMMA AttemptsNext ==
    /\ FixInv /\ JobFollowsCall /\ AttemptsBounded
    /\ [FixNext]_fixVars
    => AttemptsBounded'
<1> SUFFICES ASSUME FixInv, JobFollowsCall, AttemptsBounded,
                    [FixNext]_fixVars
             PROVE  AttemptsBounded'
  OBVIOUS
<1>1. ASSUME NEW j \in Job, Admit(j) PROVE AttemptsBounded'
  BY <1>1, AdmitBounded
<1>2. SUFFICES ASSUME [FixNext /\ \A j \in Job : ~Admit(j)]_fixVars
               PROVE  \A c \in Case : Attempts(c)' \in SUBSET Attempts(c)
  BY <1>1, NoNewAttempt
<1> USE DEF startVars, jobVars, caseVars, cancelVars, Goto, Attempts, Recorded,
            FixInv, FixTypeOK
<1> DEFINE NoMore == \A c \in Case : Attempts(c)' \in SUBSET Attempts(c)
<1>3. ASSUME NEW c \in Case, Reproduce(c) PROVE NoMore
  BY <1>3 DEF Reproduce
<1>4. ASSUME NEW j \in Job, StartFix(j) \/ Refuse(j) PROVE NoMore
  BY <1>4 DEF StartFix, Refuse
<1>5. ASSUME NEW j \in Job, CreateRecord(j) PROVE NoMore
  BY <1>5 DEF CreateRecord
<1>6. ASSUME NEW j \in Job, SaveEvidence(j) \/ StartFails(j) PROVE NoMore
  BY <1>6 DEF SaveEvidence, StartFails
<1>7. ASSUME NEW j \in Job, Launch(j) PROVE NoMore
  BY <1>7 DEF Launch, JobFollowsCall
<1>8. ASSUME NEW j \in Job, Work(j) \/ WorkerEnds(j) PROVE NoMore
  BY <1>8 DEF Work, WorkerEnds, JobFollowsCall
<1>9. ASSUME NEW k \in Canceller, CancelFix(k) PROVE NoMore
  BY <1>9 DEF CancelFix, JobFollowsCall
<1>10. ASSUME NEW k \in Canceller, CancelDone(k) \/ CancelFails(k) PROVE NoMore
  BY <1>10 DEF CancelDone, CancelFails, JobFollowsCall
<1>11. CASE UNCHANGED fixVars
  BY <1>11 DEF fixVars
<1> QED BY <1>2, <1>3, <1>4, <1>5, <1>6, <1>7, <1>8, <1>9, <1>10, <1>11
        DEF FixNext, StartStep

(* JobManager.start counts the records and the reservations of the case     *)
(* before its first await: no interleaving of start_fix calls exceeds the   *)
(* limit, however many there are.                                           *)
THEOREM AttemptsBoundedHolds == FixSpec => []AttemptsBounded
<1>1. FixInit => AttemptsBounded
  <2> SUFFICES ASSUME FixInit, NEW c \in Case
               PROVE  Cardinality(Attempts(c)) <= MaxPatchAttempts
    BY DEF AttemptsBounded
  <2>1. Attempts(c) = {}
    BY DEF FixInit, Attempts, Recorded
  <2> QED BY <2>1, FS_EmptySet, LimitAssumption
<1>2. FixInv => FixTypeOK
  BY DEF FixInv
<1> QED BY <1>1, <1>2, FixInvInit, FixInvNext, FollowsInit, FollowsNext,
           AttemptsNext, PTL DEF FixSpec

-----------------------------------------------------------------------------
(* Records are only added, so the number given to the next one is new.      *)
Numbered ==
    /\ \A i \in Job : job[i] # "none" =>
          attempt[i] \in 1..Cardinality(Recorded(caseOf[i]))
    /\ \A i, j \in Job :
          (job[i] # "none" /\ job[j] # "none" /\ caseOf[i] = caseOf[j]
             /\ attempt[i] = attempt[j]) => i = j

LEMMA CreateNumbered ==
    ASSUME FixTypeOK, JobFollowsCall, Numbered, NEW j \in Job, CreateRecord(j)
    PROVE  Numbered'
<1>1. PICK c \in Case : c = caseOf[j]
  BY DEF FixTypeOK
<1>2. Recorded(c) \in SUBSET Job /\ j \notin Recorded(c)
  BY DEF Recorded, JobFollowsCall, CreateRecord
<1>3. PICK n \in Nat : n = Cardinality(Recorded(c))
  BY <1>2, JobSets
<1>4. Recorded(c)' = Recorded(c) \cup {j}
  BY <1>1 DEF CreateRecord, Recorded, FixTypeOK
<1>5. Cardinality(Recorded(c)') = n + 1
  BY <1>2, <1>3, <1>4, JobJoins
<1>6. ASSUME NEW d \in Case, d # c PROVE Recorded(d)' = Recorded(d)
  BY <1>1, <1>6 DEF CreateRecord, Recorded, FixTypeOK
<1>7. attempt' = [attempt EXCEPT ![j] = n + 1] /\ caseOf' = caseOf
  BY <1>1, <1>3 DEF CreateRecord
<1>8. \A i \in Job \ {j} : job'[i] = job[i] /\ attempt'[i] = attempt[i]
  BY <1>7 DEF CreateRecord, FixTypeOK
<1>9. attempt'[j] = n + 1
  BY <1>7 DEF FixTypeOK
<1>10. ASSUME NEW i \in Job \ {j}, job[i] # "none", caseOf[i] = c
       PROVE  attempt[i] \in 1..n
  BY <1>3, <1>10 DEF Numbered
<1>11. ASSUME NEW i \in Job, job'[i] # "none", NEW d \in Case, caseOf[i] = d
       PROVE  attempt'[i] \in 1..Cardinality(Recorded(d)')
  <2>1. CASE i = j
    BY <2>1, <1>1, <1>5, <1>9, <1>11
  <2>2. CASE i # j /\ d = c
    <3>1. attempt'[i] \in 1..n
      BY <2>2, <1>8, <1>10, <1>11
    <3> QED BY <3>1, <2>2, <1>5
  <2>3. CASE i # j /\ d # c
    <3>1. attempt[i] \in 1..Cardinality(Recorded(d))
      BY <2>3, <1>8, <1>11 DEF Numbered
    <3> QED BY <3>1, <2>3, <1>6, <1>8
  <2> QED BY <2>1, <2>2, <2>3
<1>12. ASSUME NEW i \in Job, NEW k \in Job, job'[i] # "none", job'[k] # "none",
              caseOf[i] = caseOf[k], attempt'[i] = attempt'[k]
       PROVE  i = k
  <2>1. CASE i # j /\ k # j
    BY <2>1, <1>8, <1>12 DEF Numbered
  <2>2. ASSUME NEW m \in Job \ {j}, job'[m] # "none", caseOf[m] = c
        PROVE  attempt'[m] # attempt'[j]
    BY <2>2, <1>8, <1>9, <1>10
  <2> QED BY <2>1, <2>2, <1>1, <1>12
<1>13. \A i \in Job : caseOf[i] \in Case /\ caseOf'[i] = caseOf[i]
  BY <1>7 DEF FixTypeOK
<1> QED BY <1>11, <1>12, <1>13 DEF Numbered

(* Every other step leaves the records of all cases and their numbers alone.*)
LEMMA SameNumbers ==
    ASSUME FixTypeOK, Numbered, attempt' = attempt, caseOf' = caseOf,
           \A j \in Job : job'[j] = "none" <=> job[j] = "none"
    PROVE  Numbered'
<1>1. ASSUME NEW c \in Case PROVE Recorded(c)' = Recorded(c)
  BY DEF Recorded
<1>2. \A j \in Job : caseOf[j] \in Case
  BY DEF FixTypeOK
<1> QED BY <1>1, <1>2 DEF Numbered

LEMMA NumberedNext ==
    FixTypeOK /\ JobFollowsCall /\ Numbered /\ [FixNext]_fixVars => Numbered'
<1> SUFFICES ASSUME FixTypeOK, JobFollowsCall, Numbered, [FixNext]_fixVars
             PROVE  Numbered'
  OBVIOUS
<1>1. ASSUME NEW j \in Job, CreateRecord(j) PROVE Numbered'
  BY <1>1, CreateNumbered
<1>2. SUFFICES ASSUME [FixNext /\ \A j \in Job : ~CreateRecord(j)]_fixVars
               PROVE  /\ attempt' = attempt
                      /\ caseOf' = caseOf
                      /\ \A j \in Job : job'[j] = "none" <=> job[j] = "none"
  BY <1>1, SameNumbers
<1> USE DEF startVars, jobVars, caseVars, cancelVars, FixTypeOK
<1> DEFINE Same == /\ attempt' = attempt
                   /\ caseOf' = caseOf
                   /\ \A j \in Job : job'[j] = "none" <=> job[j] = "none"
<1>3. ASSUME NEW c \in Case, Reproduce(c) PROVE Same
  BY <1>3 DEF Reproduce
<1>4. ASSUME NEW j \in Job, StartFix(j) \/ Admit(j) \/ Refuse(j) PROVE Same
  BY <1>4 DEF StartFix, Admit, Refuse
<1>5. ASSUME NEW j \in Job, SaveEvidence(j) \/ StartFails(j) PROVE Same
  BY <1>5 DEF SaveEvidence, StartFails
<1>6. ASSUME NEW j \in Job, Launch(j) PROVE Same
  BY <1>6 DEF Launch, JobFollowsCall
<1>7. ASSUME NEW j \in Job, Work(j) \/ WorkerEnds(j) PROVE Same
  BY <1>7 DEF Work, WorkerEnds, JobFollowsCall
<1>8. ASSUME NEW k \in Canceller, CancelFix(k) PROVE Same
  BY <1>8 DEF CancelFix, JobFollowsCall
<1>9. ASSUME NEW k \in Canceller, CancelDone(k) \/ CancelFails(k) PROVE Same
  BY <1>9 DEF CancelDone, CancelFails, JobFollowsCall
<1>10. CASE UNCHANGED fixVars
  BY <1>10 DEF fixVars
<1> QED BY <1>2, <1>3, <1>4, <1>5, <1>6, <1>7, <1>8, <1>9, <1>10
        DEF FixNext, StartStep

(* JobManager.start numbers the attempts of a case 1, 2, ... in the order   *)
(* their worktrees are ready: no two share a number and none exceeds the    *)
(* limit.                                                                   *)
THEOREM AttemptsNumberedHolds == FixSpec => []AttemptsNumbered
<1>1. FixInit => Numbered
  BY DEF FixInit, Numbered
<1>2. ASSUME FixTypeOK, AttemptsBounded, Numbered PROVE AttemptsNumbered
  <2>1. ASSUME NEW i \in Job, job[i] # "none"
        PROVE  attempt[i] \in 1..MaxPatchAttempts
    <3>1. PICK c \in Case : c = caseOf[i]
      BY <1>2 DEF FixTypeOK
    <3>2. Recorded(c) \in SUBSET Attempts(c) /\ Attempts(c) \in SUBSET Job
      BY DEF Attempts, Recorded
    <3>3. /\ Cardinality(Recorded(c)) <= Cardinality(Attempts(c))
          /\ Cardinality(Recorded(c)) \in Nat
          /\ Cardinality(Attempts(c)) \in Nat
      BY <3>2, JobSets
    <3>4. Cardinality(Attempts(c)) <= MaxPatchAttempts
      BY <1>2 DEF AttemptsBounded
    <3>5. attempt[i] \in 1..Cardinality(Recorded(c))
      BY <1>2, <2>1, <3>1 DEF Numbered
    <3> QED BY <3>3, <3>4, <3>5, LimitAssumption
  <2> QED BY <1>2, <2>1 DEF AttemptsNumbered, Numbered
<1>3. FixInv => FixTypeOK
  BY DEF FixInv
<1> QED BY <1>1, <1>2, <1>3, FixInvInit, FixInvNext, FollowsInit, FollowsNext,
           NumberedNext, AttemptsBoundedHolds, PTL DEF FixSpec

(* cancel_fix is final: only a call that launches, or a worker that ends,   *)
(* changes the state of a recorded job, and neither touches a cancelled one.*)
THEOREM CancelledIsFinalHolds == FixSpec => CancelledIsFinal
<1> DEFINE Final == \A j \in Job : job[j] = "cancelled" => job'[j] = "cancelled"
<1>1. ASSUME FixTypeOK, JobFollowsCall, FixNext PROVE Final
  <2> USE <1>1 DEF FixTypeOK, startVars, jobVars, caseVars, cancelVars
  <2>1. ASSUME NEW c \in Case, Reproduce(c) PROVE Final
    BY <2>1 DEF Reproduce
  <2>2. ASSUME NEW j \in Job, StartFix(j) \/ Admit(j) \/ Refuse(j) PROVE Final
    BY <2>2 DEF StartFix, Admit, Refuse
  <2>3. ASSUME NEW j \in Job, CreateRecord(j) \/ Launch(j) PROVE Final
    BY <2>3 DEF CreateRecord, Launch, JobFollowsCall
  <2>4. ASSUME NEW j \in Job, SaveEvidence(j) \/ StartFails(j) PROVE Final
    BY <2>4 DEF SaveEvidence, StartFails
  <2>5. ASSUME NEW j \in Job, Work(j) \/ WorkerEnds(j) PROVE Final
    BY <2>5 DEF Work, WorkerEnds
  <2>6. ASSUME NEW k \in Canceller, CancelFix(k) PROVE Final
    BY <2>6 DEF CancelFix
  <2>7. ASSUME NEW k \in Canceller, CancelDone(k) \/ CancelFails(k) PROVE Final
    BY <2>7 DEF CancelDone, CancelFails
  <2> QED BY <2>1, <2>2, <2>3, <2>4, <2>5, <2>6, <2>7 DEF FixNext, StartStep
<1>2. FixTypeOK /\ JobFollowsCall /\ [FixNext]_fixVars => [Final]_fixVars
  BY <1>1
<1>3. FixInv => FixTypeOK
  BY DEF FixInv
<1>4. FixSpec => [](FixTypeOK /\ JobFollowsCall)
  BY <1>3, FixInvInit, FixInvNext, FollowsInit, FollowsNext, PTL DEF FixSpec
<1> QED BY <1>2, <1>4, PTL DEF FixSpec, CancelledIsFinal
=============================================================================
