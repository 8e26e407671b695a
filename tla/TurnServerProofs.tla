-------------------------- MODULE TurnServerProofs --------------------------
(***************************************************************************)
(* The server proved for any number of turns, executors, cancel requests,  *)
(* faults and crashes: it keeps the store contract, and with it what the   *)
(* contract promises, and tells its clients what is stored.                *)
(***************************************************************************)
EXTENDS TurnServer, TurnStoreProofs

(* What the code that follows a control point relies on.                    *)
RequestPlaced(t) ==
    /\ pc[t] \in InRequest => host[t] \in Executor
    /\ pc[t] = "freeze" => parent[t] \in Turn
    /\ (pc[t] \in {"freeze", "resolve"} /\ sessionExists /\ parent[t] # None) =>
          Known(parent[t])
    /\ pc[t] \in {"settling", "announcing", "frozen"} => verdict[t] \in Settled

CancelPlaced(c) ==
    /\ cpc[c] \in {"look", "route", "asked", "freeze"} => cturn[c] \in Turn
    /\ mail[c] # "unsent" => cturn[c] \in Turn
    /\ cpc[c] = "idle" => cturn[c] = None

Placed ==
    /\ \A t \in Turn : RequestPlaced(t)
    /\ \A c \in Canceller : CancelPlaced(c)

TypeInv == TypeOK /\ TipIsCommitted /\ Placed

-----------------------------------------------------------------------------
(* Every step of the server is a step of the store contract or leaves the   *)
(* store alone.                                                             *)
LEMMA LoggedWithinLength ==
  ASSUME StoreTypeOK, NEW t \in Turn, Len(log[t]) < MaxEvents
  PROVE  Logged(t) < MaxEvents
  <1> DEFINE n == Len(log[t])
             E == {i \in 1..n : log[t][i] # "turn.done"}
  <1>1. n \in Nat
    BY DEF StoreTypeOK
  <1> HIDE DEF n
  <1>2. IsFiniteSet(1..n) /\ Cardinality(1..n) = n
    BY <1>1, FS_Interval
  <1>3. IsFiniteSet(E) /\ Cardinality(E) <= Cardinality(1..n)
    BY <1>2, FS_Subset
  <1>4. Cardinality(E) \in Nat
    BY <1>3, FS_CardinalityType
  <1>5. Cardinality(E) = Logged(t)
    BY DEF Logged, n
  <1>6. n < MaxEvents
    BY DEF n
  <1> QED
    BY <1>1, <1>2, <1>3, <1>4, <1>5, <1>6, BoundAssumption

LEMMA FreezeIsStoreStep ==
  ASSUME NEW t \in Turn, NEW r \in Reason, FreezeAndGetTurn(t, r)
  PROVE  StoreNext
  BY DEF StoreNext

LEMMA RunKeepsStore ==
  ASSUME TypeInv, NEW t \in Turn, RunStep(t)
  PROVE  [StoreNext]_storeVars
  <1> USE DEF TypeInv, Placed, RequestPlaced
  <1>1. CASE FreezeParent(t)
    BY <1>1, FreezeIsStoreStep DEF FreezeParent, Reason
  <1>2. CASE Commit(t)
    <2>1. /\ sessionExists /\ CreateTurn(t, parent[t], host[t])
          /\ host[t] \in Executor /\ parent[t] \in Turn \cup {None}
          /\ parent[t] # None => Known(parent[t])
      BY <1>2 DEF Commit, CreateTurn, InRequest, TypeOK, RunTypeOK
    <2> QED
      BY <2>1 DEF StoreNext
  <1>3. CASE AppendCreated(t)
    BY <1>3, LoggedWithinLength DEF AppendCreated, StoreNext, TypeOK
  <1>4. CASE PersistSnapshot(t)
    BY <1>4 DEF PersistSnapshot, StoreNext
  <1>5. CASE PersistEvent(t)
    BY <1>5, LoggedWithinLength DEF PersistEvent, StoreNext, TypeOK
  <1>6. CASE SettleTurn(t)
    <2>1. verdict[t] \in Settled
      BY <1>6 DEF SettleTurn
    <2> QED
      BY <1>6, <2>1 DEF SettleTurn, StoreNext
  <1>7. CASE Reject(t) \/ Track(t) \/ Publish(t) \/ StreamOutput(t) \/ FenceRefuses(t)
             \/ ExecutionEnds(t) \/ Decide(t) \/ Announce(t)
    BY <1>7 DEF Reject, Track, Publish, StreamOutput, FenceRefuses, ExecutionEnds, Decide, Announce
  <1>8. CASE StoreFault(t) \/ StoreRefuses(t) \/ PutFault(t) \/ TimeLimit(t)
    BY <1>8 DEF StoreFault, StoreRefuses, PutFault, TimeLimit, Throw
  <1> QED
    BY <1>1, <1>2, <1>3, <1>4, <1>5, <1>6, <1>7, <1>8 DEF RunStep

LEMMA ServerKeepsStore ==
  ASSUME TypeInv, [Next]_vars
  PROVE  [StoreNext]_storeVars
  <1>1. ASSUME NEW t \in Turn, NEW x \in Executor, NEW p \in Turn \cup {None},
               Arrive(t, x, p)
        PROVE  [StoreNext]_storeVars
    BY <1>1 DEF Arrive
  <1>2. ASSUME NEW t \in Turn, RunStep(t)
        PROVE  [StoreNext]_storeVars
    BY <1>2, RunKeepsStore
  <1>3. ASSUME NEW c \in Canceller, CancelFreezes(c)
        PROVE  [StoreNext]_storeVars
    <2>1. cturn[c] \in Turn
      BY <1>3 DEF CancelFreezes, TypeInv, Placed, CancelPlaced
    <2> QED
      BY <1>3, <2>1, FreezeIsStoreStep DEF CancelFreezes, Reason
  <1>4. ASSUME NEW c \in Canceller,
               CancelLook(c) \/ CancelLocally(c) \/ CancelAskPeer(c) \/ PeerCancels(c)
               \/ CancelConfirmed(c) \/ CancelUnconfirmed(c) \/ CancelFault(c)
        PROVE  [StoreNext]_storeVars
    BY <1>4 DEF CancelLook, CancelLocally, CancelAskPeer, PeerCancels,
                CancelConfirmed, CancelUnconfirmed, CancelFault, turnVars
  <1>5. ASSUME NEW c \in Canceller, NEW x \in Executor, CancelRequest(c, x)
        PROVE  [StoreNext]_storeVars
    BY <1>5 DEF CancelRequest, turnVars
  <1>6. CASE Delete
    BY <1>6 DEF Delete, StoreNext
  <1>7. ASSUME NEW t \in Turn, Disconnect(t)
        PROVE  [StoreNext]_storeVars
    BY <1>7 DEF Disconnect, turnVars
  <1>8. ASSUME NEW x \in Executor,
               CloseServer(x) \/ BeginDrain(x) \/ Drained(x) \/ Exit(x)
               \/ Crash(x) \/ Restart(x)
        PROVE  [StoreNext]_storeVars
    BY <1>8 DEF CloseServer, BeginDrain, Drained, Exit, Crash, Restart, Kill
  <1>9. CASE UNCHANGED vars
    BY <1>9 DEF vars, turnVars
  <1>10. ASSUME NEW c \in Canceller, CancelStep(c)
         PROVE  [StoreNext]_storeVars
    BY <1>3, <1>4, <1>10 DEF CancelStep
  <1>11. CASE Next
    BY <1>1, <1>2, <1>5, <1>6, <1>7, <1>8, <1>10, <1>11 DEF Next
  <1> QED
    BY <1>9, <1>11

-----------------------------------------------------------------------------
(* Types.                                                                   *)
LEMMA TypeInit == Init => TypeOK
  <1>1. << >> \in Seq({"turn.created", "event", "delta"} \cup Settled)
    OBVIOUS
  <1>2. Init => StoreTypeOK
    BY StoreTypeInit DEF Init
  <1> QED
    BY <1>1, <1>2, FaultAssumption, SwitchAssumption
    DEF Init, RunInit, TypeOK, RunTypeOK, InRequest, InStream, Over

LEMMA LiveGrows ==
  ASSUME NEW l \in Seq({"turn.created", "event", "delta"} \cup Settled),
         NEW e \in {"turn.created", "event", "delta"} \cup Settled
  PROVE  Append(l, e) \in Seq({"turn.created", "event", "delta"} \cup Settled)
  OBVIOUS

(* What Publish appends.                                                    *)
LEMMA HandedIs ==
  ASSUME NEW t \in Turn, pc[t] \in {"created", "streaming", "yielding"}
  PROVE  /\ Handed(t) \in {"turn.created", "event", "delta"}
         /\ Handed(t) = "delta" <=> pc[t] = "streaming"
  BY DEF Handed

LEMMA AbortType ==
  ASSUME RunTypeOK, NEW T, NEW r \in Reason, Abort(T, r)
  PROVE  abortReason' \in [Turn -> Reason \cup {"none"}]
  BY DEF RunTypeOK, Abort

(* The control points of a run are those of RunTypeOK.                      *)
LEMMA GotoType ==
  ASSUME RunTypeOK, NEW t \in Turn,
         NEW l \in {"idle"} \cup InRequest \cup InStream \cup Over, Goto(t, l)
  PROVE  pc' \in [Turn -> {"idle"} \cup InRequest \cup InStream \cup Over]
  BY DEF RunTypeOK, Goto

LEMMA ThrowType ==
  ASSUME RunTypeOK, NEW t \in Turn, Throw(t)
  PROVE  /\ pc' \in [Turn -> {"idle"} \cup InRequest \cup InStream \cup Over]
         /\ verdict' \in [Turn -> Settled \cup {"absent"}]
         /\ registered' \in [Turn -> BOOLEAN]
         /\ UNCHANGED <<storeVars, host, parent, seen, abortReason, reading,
                        live, kept, phase, putFaults>>
  <1>1. {"failed", "finalize", "ended"} \subseteq {"idle"} \cup InRequest \cup InStream \cup Over
    BY DEF InStream, Over
  <1> QED
    BY <1>1, GotoType DEF Throw, RunTypeOK, Complete, Settled

LEMMA RunType ==
  ASSUME TypeInv, NEW t \in Turn, RunStep(t)
  PROVE  RunTypeOK'
  <1> USE DEF TypeInv, TypeOK
  <1>0. {"freeze", "resolve", "committed", "opening", "created", "executing",
         "streaming", "appending", "yielding", "frozen", "finalize", "settling", "announcing",
         "ended", "failed", "suspended", "lost"}
           \subseteq {"idle"} \cup InRequest \cup InStream \cup Over
    BY DEF InRequest, InStream, Over
  <1>1. CASE FreezeParent(t)
    <2>1. snapshot[parent[t]] \in Nat
      BY <1>1 DEF FreezeParent, Placed, RequestPlaced, StoreTypeOK
    <2> QED
      BY <1>0, <1>1, <2>1, GotoType DEF FreezeParent, RunTypeOK
  <1>2. CASE Reject(t)
    BY <1>0, <1>2, GotoType DEF Reject, RunTypeOK
  <1>3. CASE Commit(t)
    BY <1>0, <1>3, GotoType DEF Commit, RunTypeOK
  <1>4. CASE Track(t)
    BY <1>0, <1>4, GotoType, AbortType DEF Track, RunTypeOK, Reason
  <1>5. CASE AppendCreated(t)
    BY <1>0, <1>5, GotoType DEF AppendCreated, RunTypeOK, Settled
  <1>6. CASE Publish(t)
    <2>1. Append(live[t], Handed(t)) \in Seq({"turn.created", "event", "delta"} \cup Settled)
      BY <1>6, HandedIs, LiveGrows DEF Publish, RunTypeOK
    <2> QED
      BY <1>0, <1>6, <2>1, GotoType DEF Publish, RunTypeOK
  <1>7. CASE PersistSnapshot(t) \/ StreamOutput(t)
    BY <1>0, <1>7, GotoType DEF PersistSnapshot, StreamOutput, RunTypeOK
  <1>8. CASE PersistEvent(t)
    <2>1. kept' \in [Turn -> Nat]
      <3>1. kept \in [Turn -> Nat] /\ kept[t] + 1 \in Nat
        BY DEF RunTypeOK
      <3>2. kept' = kept \/ kept' = [kept EXCEPT ![t] = kept[t] + 1]
        BY <1>8 DEF PersistEvent
      <3> QED
        BY <3>1, <3>2
    <2> QED
      BY <1>0, <1>8, <2>1, GotoType DEF PersistEvent, RunTypeOK
  <1>9. CASE FenceRefuses(t)
    BY <1>0, <1>9, GotoType DEF FenceRefuses, RunTypeOK, IsSettled
  <1>10. CASE ExecutionEnds(t)
    BY <1>0, <1>10, GotoType DEF ExecutionEnds, RunTypeOK, Settled
  <1>11. CASE Decide(t)
    <2>1. (IF abortReason[t] # "none" THEN abortReason[t]
           ELSE IF verdict[t] = "absent" THEN "client-cancelled" ELSE verdict[t]) \in Settled
      BY DEF RunTypeOK, Settled, Reason
    <2>2. verdict' = [verdict EXCEPT ![t] =
                        IF abortReason[t] # "none" THEN abortReason[t]
                        ELSE IF verdict[t] = "absent" THEN "client-cancelled" ELSE verdict[t]]
      BY <1>11 DEF Decide
    <2>3. verdict' \in [Turn -> Settled \cup {"absent"}]
      BY <2>1, <2>2 DEF RunTypeOK
    <2> QED
      BY <1>0, <1>11, <2>3, GotoType DEF Decide, RunTypeOK
  <1>12. CASE SettleTurn(t)
    <2>1. pc' \in [Turn -> {"idle"} \cup InRequest \cup InStream \cup Over]
      BY <1>0, <1>12, GotoType DEF SettleTurn
    <2>2. verdict' \in [Turn -> Settled \cup {"absent"}]
      BY <1>12 DEF SettleTurn, RunTypeOK, IsSettled
    <2> QED
      BY <1>12, <2>1, <2>2 DEF SettleTurn, RunTypeOK
  <1>13. CASE Announce(t)
    <2>1. Append(live[t], verdict[t]) \in Seq({"turn.created", "event", "delta"} \cup Settled)
      BY <1>13, LiveGrows DEF Announce, RunTypeOK, Placed, RequestPlaced
    <2> QED
      BY <1>0, <1>13, <2>1, GotoType DEF Announce, Complete, RunTypeOK
  <1>14. CASE StoreFault(t)
    BY <1>14, ThrowType, FaultAssumption DEF StoreFault, RunTypeOK
  <1>15. CASE StoreRefuses(t)
    BY <1>15, ThrowType DEF StoreRefuses, RunTypeOK
  <1>16. CASE PutFault(t)
    <2>1. pc' \in [Turn -> {"idle"} \cup InRequest \cup InStream \cup Over]
      BY <1>0, <1>16, GotoType DEF PutFault
    <2>2. /\ verdict' \in [Turn -> Settled \cup {"absent"}]
          /\ registered' \in [Turn -> BOOLEAN]
          /\ reading' \in [Turn -> BOOLEAN]
      BY <1>16 DEF PutFault, Complete, RunTypeOK
    <2>3. putFaults' \in 0..MaxPutFaults
      BY <1>16, FaultAssumption DEF PutFault, RunTypeOK
    <2> QED
      BY <1>16, <2>1, <2>2, <2>3 DEF PutFault, RunTypeOK
  <1>17. CASE TimeLimit(t)
    BY <1>17, AbortType DEF TimeLimit, RunTypeOK, Reason
  <1> QED
    BY <1>1, <1>2, <1>3, <1>4, <1>5, <1>6, <1>7, <1>8, <1>9, <1>10, <1>11, <1>12,
       <1>13, <1>14, <1>15, <1>16, <1>17 DEF RunStep

LEMMA KillType ==
  ASSUME TypeOK, NEW x \in Executor, Kill(x)
  PROVE  /\ pc' \in [Turn -> {"idle"} \cup InRequest \cup InStream \cup Over]
         /\ registered' \in [Turn -> BOOLEAN]
         /\ cpc' \in [Canceller -> {"idle", "look", "route", "asked", "freeze",
                                    "done", "failed", "lost"}]
  BY DEF Kill, TypeOK, RunTypeOK, Over

(* The variables besides the store's keep their types.                      *)
LEMMA ServerType ==
  ASSUME TypeInv, [Next]_vars
  PROVE  TypeOK'
  <1> DEFINE CancelTypes ==
                /\ cpc \in [Canceller -> {"idle", "look", "route", "asked", "freeze",
                                          "done", "failed", "lost"}]
                /\ chost \in [Canceller -> Executor \cup {None}]
                /\ cturn \in [Canceller -> Turn \cup {None}]
                /\ mail \in [Canceller -> {"unsent", "sent", "200", "412"}]
             RestTypes ==
                /\ gone \in [Turn -> BOOLEAN]
                /\ crashes \in 0..MaxCrashes
  <1>a. RunTypeOK /\ StoreTypeOK /\ CancelTypes /\ RestTypes
    BY DEF TypeInv, TypeOK
  <1>b. SUFFICES RunTypeOK' /\ CancelTypes' /\ RestTypes'
    BY ServerKeepsStore, <1>a, StoreTypeStep DEF TypeOK
  <1>c. (UNCHANGED runVars) => RunTypeOK'
    BY <1>a DEF RunTypeOK, runVars
  <1>d. (UNCHANGED cancelVars) => CancelTypes'
    BY <1>a DEF cancelVars
  <1>e. (UNCHANGED <<gone, crashes>>) => RestTypes'
    BY <1>a
  <1> HIDE DEF CancelTypes, RestTypes
  <1>1. ASSUME NEW t \in Turn, NEW x \in Executor, NEW p \in Turn \cup {None},
               Arrive(t, x, p), UNCHANGED <<cancelVars, gone, crashes>>
        PROVE  RunTypeOK' /\ CancelTypes' /\ RestTypes'
    <2>1. (IF p = None THEN "resolve" ELSE "freeze")
             \in {"idle"} \cup InRequest \cup InStream \cup Over
      BY DEF InRequest
    <2>2. pc' \in [Turn -> {"idle"} \cup InRequest \cup InStream \cup Over]
      BY <1>1, <1>a, <2>1, GotoType DEF Arrive
    <2>3. RunTypeOK'
      BY <1>1, <1>a, <2>2 DEF Arrive, RunTypeOK
    <2> QED
      BY <1>1, <1>d, <1>e, <2>3
  <1>2. ASSUME NEW t \in Turn, RunStep(t), UNCHANGED <<cancelVars, gone, crashes>>
        PROVE  RunTypeOK' /\ CancelTypes' /\ RestTypes'
    BY <1>2, <1>d, <1>e, RunType
  <1>3. ASSUME NEW c \in Canceller, NEW x \in Executor, CancelRequest(c, x)
        PROVE  RunTypeOK' /\ CancelTypes' /\ RestTypes'
    <2>1. CancelTypes'
      BY <1>3, <1>a DEF CancelRequest, CGoto, CancelTypes, StoreTypeOK
    <2> QED
      BY <1>3, <1>c, <1>e, <2>1 DEF CancelRequest, turnVars
  <1>4. ASSUME NEW c \in Canceller, CancelStep(c)
        PROVE  RunTypeOK' /\ CancelTypes' /\ RestTypes'
    <2>1. CASE CancelLocally(c) \/ PeerCancels(c)
      <3>1. abortReason' \in [Turn -> Reason \cup {"none"}]
        BY <2>1, <1>a, AbortType DEF CancelLocally, PeerCancels, Reason
      <3>2. CancelTypes'
        BY <2>1, <1>a DEF CancelLocally, PeerCancels, CGoto, CancelTypes
      <3>3. RunTypeOK'
        BY <2>1, <1>a, <3>1 DEF CancelLocally, PeerCancels, runButAbort, RunTypeOK
      <3> QED
        BY <2>1, <1>e, <3>2, <3>3 DEF CancelLocally, PeerCancels
    <2>2. CASE CancelFault(c)
      <3>1. RunTypeOK'
        BY <2>2, <1>a, FaultAssumption DEF CancelFault, RunTypeOK
      <3>2. CancelTypes'
        BY <2>2, <1>a DEF CancelFault, CGoto, CancelTypes
      <3> QED
        BY <2>2, <1>e, <3>1, <3>2 DEF CancelFault
    <2>3. CASE CancelLook(c) \/ CancelAskPeer(c) \/ CancelConfirmed(c)
               \/ CancelUnconfirmed(c) \/ CancelFreezes(c)
      <3>1. CancelTypes'
        BY <2>3, <1>a DEF CancelLook, CancelAskPeer, CancelConfirmed, CancelUnconfirmed,
                          CancelFreezes, CGoto, CancelTypes
      <3>2. (UNCHANGED runVars) /\ UNCHANGED <<gone, crashes>>
        BY <2>3 DEF CancelLook, CancelAskPeer, CancelConfirmed, CancelUnconfirmed,
                    CancelFreezes, turnVars
      <3> QED
        BY <1>c, <1>e, <3>1, <3>2
    <2> QED
      BY <1>4, <2>1, <2>2, <2>3 DEF CancelStep
  <1>5. CASE Delete
    BY <1>5, <1>c, <1>d, <1>e DEF Delete
  <1>6. ASSUME NEW t \in Turn, Disconnect(t)
        PROVE  RunTypeOK' /\ CancelTypes' /\ RestTypes'
    <2>1. RestTypes'
      BY <1>6, <1>a DEF Disconnect, RestTypes
    <2> QED
      BY <1>6, <1>c, <1>d, <2>1 DEF Disconnect, turnVars
  <1>7. ASSUME NEW x \in Executor, CloseServer(x) \/ Drained(x) \/ Restart(x)
        PROVE  RunTypeOK' /\ CancelTypes' /\ RestTypes'
    <2>1. RunTypeOK'
      BY <1>7, <1>a DEF CloseServer, Drained, Restart, runButPhase, RunTypeOK
    <2> QED
      BY <1>7, <1>d, <1>e, <2>1 DEF CloseServer, Drained, Restart
  <1>8. ASSUME NEW x \in Executor, BeginDrain(x)
        PROVE  RunTypeOK' /\ CancelTypes' /\ RestTypes'
    <2>1. abortReason' \in [Turn -> Reason \cup {"none"}]
      BY <1>8, <1>a, AbortType DEF BeginDrain, Reason
    <2>2. RunTypeOK'
      BY <1>8, <1>a, <2>1 DEF BeginDrain, runButPhase, RunTypeOK
    <2> QED
      BY <1>8, <1>d, <1>e, <2>2 DEF BeginDrain
  <1>9. ASSUME NEW x \in Executor, Exit(x) \/ Crash(x)
        PROVE  RunTypeOK' /\ CancelTypes' /\ RestTypes'
    <2>1. Kill(x) /\ TypeOK
      BY <1>9 DEF Exit, Crash, TypeInv
    <2>2. phase' \in [Executor -> {"serving", "closing", "draining", "drained",
                                   "exited", "down"}]
      BY <1>9, <1>a DEF Exit, Crash, RunTypeOK
    <2>3. RunTypeOK'
      BY <2>1, <2>2, <1>a, KillType DEF Kill, RunTypeOK
    <2>4. CancelTypes'
      BY <2>1, <1>a, KillType DEF Kill, CancelTypes
    <2>5. RestTypes'
      BY <1>9, <2>1, <1>a, SwitchAssumption DEF Exit, Crash, Kill, RestTypes
    <2> QED
      BY <2>3, <2>4, <2>5
  <1>10. CASE UNCHANGED vars
    BY <1>10, <1>c, <1>d, <1>e DEF vars, turnVars
  <1>11. CASE Next
    BY <1>1, <1>2, <1>3, <1>4, <1>5, <1>6, <1>7, <1>8, <1>9, <1>11 DEF Next
  <1> QED
    BY <1>10, <1>11

-----------------------------------------------------------------------------
(* Who moves.  A step that is not of a turn's own request or run leaves     *)
(* them where they are, or kills them, and at most aborts the run ...       *)
Resting(u) ==
    /\ \/ pc'[u] = pc[u] /\ (registered'[u] => registered[u])
       \/ pc'[u] = "lost" /\ pc[u] # "ended" /\ ~registered'[u]
    /\ host'[u] = host[u] /\ parent'[u] = parent[u] /\ seen'[u] = seen[u]
    /\ verdict'[u] = verdict[u] /\ live'[u] = live[u] /\ kept'[u] = kept[u]
    /\ abortReason[u] # "none" => abortReason'[u] = abortReason[u]

(* ... and leaves its row alone, settles it, or deletes the session.        *)
RowResting(u) ==
    \/ /\ state'[u] = state[u] /\ log'[u] = log[u]
       /\ snapshot'[u] = snapshot[u] /\ base'[u] = base[u]
       /\ sessionExists' = sessionExists
    \/ /\ IsRunning(u) /\ state'[u] \in Settled
       /\ log'[u] = Append(log[u], "turn.done")
       /\ snapshot'[u] = snapshot[u] /\ base'[u] = base[u]
       /\ sessionExists' = sessionExists
    \/ ~sessionExists'

CancelResting(c) ==
    /\ cpc'[c] = cpc[c] \/ cpc'[c] = "lost"
    /\ cturn'[c] = cturn[c]
    /\ mail'[c] = mail[c]

LEMMA FreezeRests ==
  ASSUME StoreTypeOK, NEW t \in Turn, NEW r \in Reason, FreezeAndGetTurn(t, r),
         NEW u \in Turn
  PROVE  RowResting(u)
  BY DEF FreezeAndGetTurn, Settle, StoreTypeOK, RowResting, IsRunning, Settled, storeVars

LEMMA OtherRunsRest ==
  ASSUME TypeInv, NEW t \in Turn, RunStep(t), NEW u \in Turn, u # t
  PROVE  Resting(u) /\ RowResting(u)
  <1> USE DEF TypeInv, TypeOK, RunTypeOK, Goto, Resting
  <1>r. (UNCHANGED storeVars) => RowResting(u)
    BY DEF storeVars, RowResting
  <1>1. CASE FreezeParent(t)
    <2>1. parent[t] \in Turn
      BY <1>1 DEF FreezeParent, Placed, RequestPlaced
    <2>2. RowResting(u)
      BY <1>1, <2>1, FreezeRests DEF FreezeParent, Reason
    <2> QED
      BY <1>1, <2>2 DEF FreezeParent
  <1>2. CASE Commit(t)
    <2>1. RowResting(u)
      BY <1>2 DEF Commit, CreateTurn, InsertRow, RowResting, StoreTypeOK
    <2> QED
      BY <1>2, <2>1 DEF Commit
  <1>3. CASE AppendCreated(t)
    <2>1. RowResting(u)
      BY <1>3, <1>r DEF AppendCreated, AppendToEvents, LogEvent, RowResting, StoreTypeOK
    <2> QED
      BY <1>3, <2>1 DEF AppendCreated
  <1>4. CASE PersistSnapshot(t)
    <2>1. RowResting(u)
      BY <1>4 DEF PersistSnapshot, WriteSnapshot, BumpSnapshot, RowResting, StoreTypeOK
    <2> QED
      BY <1>4, <2>1 DEF PersistSnapshot
  <1>5. CASE PersistEvent(t)
    <2>1. RowResting(u)
      BY <1>5 DEF PersistEvent, AppendToEvents, LogEvent, RowResting, StoreTypeOK
    <2> QED
      BY <1>5, <2>1 DEF PersistEvent
  <1>6. CASE SettleTurn(t)
    <2>1. RowResting(u)
      BY <1>6, <1>r DEF SettleTurn, UpdateTurnState, Settle, RowResting, StoreTypeOK
    <2> QED
      BY <1>6, <2>1 DEF SettleTurn
  <1>7. CASE Reject(t) \/ Track(t) \/ Publish(t) \/ StreamOutput(t) \/ FenceRefuses(t)
             \/ ExecutionEnds(t) \/ Decide(t) \/ Announce(t)
    <2>1. UNCHANGED storeVars
      BY <1>7 DEF Reject, Track, Publish, StreamOutput, FenceRefuses, ExecutionEnds, Decide, Announce
    <2>2. Resting(u)
      BY <1>7 DEF Reject, Track, Publish, StreamOutput, FenceRefuses, ExecutionEnds, Decide,
                  Announce, Complete, Abort
    <2> QED
      BY <1>r, <2>1, <2>2
  <1>8. CASE StoreFault(t) \/ StoreRefuses(t) \/ PutFault(t) \/ TimeLimit(t)
    <2>1. UNCHANGED storeVars
      BY <1>8 DEF StoreFault, StoreRefuses, PutFault, TimeLimit, Throw
    <2>2. Resting(u)
      BY <1>8 DEF StoreFault, StoreRefuses, PutFault, TimeLimit, Throw, Complete, Abort
    <2> QED
      BY <1>r, <2>1, <2>2
  <1> QED
    BY <1>1, <1>2, <1>3, <1>4, <1>5, <1>6, <1>7, <1>8 DEF RunStep

LEMMA RestOrRun ==
  ASSUME TypeInv, [Next]_vars, NEW u \in Turn
  PROVE  \/ Resting(u) /\ RowResting(u)
         \/ RunStep(u)
         \/ \E x \in Executor, p \in Turn \cup {None} : Arrive(u, x, p)
  <1> USE DEF TypeInv, TypeOK, RunTypeOK
  <1>r. (UNCHANGED storeVars) => RowResting(u)
    BY DEF storeVars, RowResting
  <1>s. (UNCHANGED runVars) => Resting(u)
    BY DEF runVars, Resting
  <1>1. ASSUME NEW t \in Turn, NEW x \in Executor, NEW p \in Turn \cup {None},
               Arrive(t, x, p), t # u
        PROVE  Resting(u) /\ RowResting(u)
    BY <1>1, <1>r DEF Arrive, Resting, Goto
  <1>2. ASSUME NEW c \in Canceller, CancelFreezes(c)
        PROVE  Resting(u) /\ RowResting(u)
    <2>1. cturn[c] \in Turn
      BY <1>2 DEF CancelFreezes, Placed, CancelPlaced
    <2>2. RowResting(u)
      BY <1>2, <1>r, <2>1, FreezeRests DEF CancelFreezes, Reason
    <2> QED
      BY <1>2, <1>s, <2>2 DEF CancelFreezes
  <1>3. ASSUME NEW c \in Canceller, CancelLocally(c) \/ PeerCancels(c)
        PROVE  Resting(u) /\ RowResting(u)
    BY <1>3, <1>r DEF CancelLocally, PeerCancels, Abort, runButAbort, Resting
  <1>4. ASSUME NEW c \in Canceller,
               CancelLook(c) \/ CancelAskPeer(c) \/ CancelConfirmed(c)
               \/ CancelUnconfirmed(c)
        PROVE  Resting(u) /\ RowResting(u)
    BY <1>4, <1>r, <1>s DEF CancelLook, CancelAskPeer, CancelConfirmed,
                            CancelUnconfirmed, turnVars
  <1>5. ASSUME NEW c \in Canceller, CancelFault(c)
        PROVE  Resting(u) /\ RowResting(u)
    BY <1>5, <1>r DEF CancelFault, Resting
  <1>6. ASSUME NEW c \in Canceller, NEW x \in Executor, CancelRequest(c, x)
        PROVE  Resting(u) /\ RowResting(u)
    BY <1>6, <1>r, <1>s DEF CancelRequest, turnVars
  <1>7. CASE Delete
    BY <1>7, <1>s DEF Delete, DeleteSession, RowResting
  <1>8. ASSUME NEW t \in Turn, Disconnect(t)
        PROVE  Resting(u) /\ RowResting(u)
    BY <1>8, <1>r, <1>s DEF Disconnect, turnVars
  <1>9. ASSUME NEW x \in Executor,
               CloseServer(x) \/ BeginDrain(x) \/ Drained(x) \/ Restart(x)
        PROVE  Resting(u) /\ RowResting(u)
    BY <1>9, <1>r DEF CloseServer, BeginDrain, Drained, Restart, Abort,
                      runButPhase, Resting
  <1>10. ASSUME NEW x \in Executor, Exit(x) \/ Crash(x)
         PROVE  Resting(u) /\ RowResting(u)
    <2>1. Kill(x)
      BY <1>10 DEF Exit, Crash
    <2>0. "ended" \notin InRequest \cup InStream \cup {"suspended"}
      BY DEF InRequest, InStream
    <2>2. /\ pc'[u] = pc[u] \/ (pc'[u] = "lost" /\ pc[u] # "ended" /\ host[u] = x)
          /\ registered'[u] <=> registered[u] /\ host[u] # x
      BY <2>0, <2>1 DEF Kill
    <2>3. UNCHANGED <<storeVars, host, parent, seen, abortReason, verdict, live, kept>>
      BY <2>1 DEF Kill
    <2> QED
      BY <1>r, <2>2, <2>3 DEF Resting
  <1>11. CASE UNCHANGED vars
    BY <1>11, <1>r, <1>s DEF vars, turnVars
  <1>12. ASSUME NEW c \in Canceller, CancelStep(c)
         PROVE  Resting(u) /\ RowResting(u)
    BY <1>2, <1>3, <1>4, <1>5, <1>12 DEF CancelStep
  <1>13. CASE Next
    BY <1>1, <1>6, <1>7, <1>8, <1>9, <1>10, <1>12, <1>13, OtherRunsRest DEF Next
  <1> QED
    BY <1>11, <1>13

LEMMA RestOrCancel ==
  ASSUME TypeInv, [Next]_vars, NEW c \in Canceller
  PROVE  \/ CancelResting(c)
         \/ CancelStep(c)
         \/ \E x \in Executor : CancelRequest(c, x)
  <1> USE DEF TypeInv, TypeOK, CancelResting
  <1>s. (UNCHANGED cancelVars) => CancelResting(c)
    BY DEF cancelVars
  <1>1. ASSUME NEW d \in Canceller, CancelStep(d), d # c
        PROVE  CancelResting(c)
    BY <1>1 DEF CancelStep, CancelLook, CancelLocally, CancelAskPeer, PeerCancels,
                CancelConfirmed, CancelUnconfirmed, CancelFreezes, CancelFault, CGoto
  <1>2. ASSUME NEW d \in Canceller, NEW x \in Executor, CancelRequest(d, x), d # c
        PROVE  CancelResting(c)
    BY <1>2 DEF CancelRequest, CGoto
  <1>3. ASSUME NEW x \in Executor, Exit(x) \/ Crash(x)
        PROVE  CancelResting(c)
    BY <1>3 DEF Exit, Crash, Kill
  <1>4. ASSUME NEW x \in Executor,
               CloseServer(x) \/ BeginDrain(x) \/ Drained(x) \/ Restart(x)
        PROVE  CancelResting(c)
    BY <1>4, <1>s DEF CloseServer, BeginDrain, Drained, Restart
  <1>5. CASE Delete
    BY <1>5, <1>s DEF Delete
  <1>6. ASSUME NEW t \in Turn, Disconnect(t)
        PROVE  CancelResting(c)
    BY <1>6, <1>s DEF Disconnect
  <1>7. CASE UNCHANGED vars
    BY <1>7, <1>s DEF vars
  <1>8. CASE Next
    BY <1>s, <1>1, <1>2, <1>3, <1>4, <1>5, <1>6, <1>8 DEF Next
  <1> QED
    BY <1>7, <1>8

-----------------------------------------------------------------------------
(* A session is not created again, its turns stay, and a turn that stopped  *)
(* running never runs again.                                                *)
LEMMA RowsStay ==
  ASSUME StoreTypeOK, [StoreNext]_storeVars, NEW p \in Turn
  PROVE  /\ sessionExists' => sessionExists
         /\ (sessionExists' /\ Known(p)) => Known(p)'
         /\ (~IsRunning(p) /\ (sessionExists => Known(p))) => ~IsRunning(p)'
  <1> DEFINE Stays == /\ sessionExists' => sessionExists
                      /\ (sessionExists' /\ Known(p)) => Known(p)'
                      /\ (~IsRunning(p) /\ (sessionExists => Known(p))) => ~IsRunning(p)'
  <1>1. ASSUME NEW t \in Turn, NEW q \in Turn \cup {None}, NEW x \in Executor,
               CreateTurn(t, q, x)
        PROVE  Stays
    BY <1>1 DEF CreateTurn, InsertRow, StoreTypeOK, Known, IsRunning
  <1>2. ASSUME NEW t \in Turn, NEW s \in Settled, Settle(t, s)
        PROVE  Stays
    <2>1. s # "running" /\ s # "absent"
      BY DEF Settled, Reason
    <2> QED
      BY <1>2, <2>1 DEF Settle, StoreTypeOK, Known, IsRunning
  <1>3. (UNCHANGED <<sessionExists, state>>) => Stays
    BY DEF Known, IsRunning
  <1>4. ASSUME NEW t \in Turn, NEW r \in Reason, FreezeAndGetTurn(t, r)
        PROVE  Stays
    BY <1>2, <1>3, <1>4 DEF FreezeAndGetTurn, Settled, storeVars
  <1>5. ASSUME NEW t \in Turn, NEW s \in Settled, UpdateTurnState(t, s)
        PROVE  Stays
    BY <1>2, <1>5 DEF UpdateTurnState
  <1>6. ASSUME NEW t \in Turn, NEW e \in {"turn.created", "event"},
               AppendToEvents(t, e) \/ WriteSnapshot(t)
        PROVE  Stays
    BY <1>3, <1>6 DEF AppendToEvents, LogEvent, WriteSnapshot, BumpSnapshot
  <1>7. CASE DeleteSession
    BY <1>7 DEF DeleteSession, IsRunning
  <1>8. CASE UNCHANGED storeVars
    BY <1>3, <1>8 DEF storeVars
  <1>9. ASSUME NEW t \in Turn, WriteSnapshot(t)
        PROVE  Stays
    BY <1>3, <1>9 DEF WriteSnapshot, BumpSnapshot
  <1> QED
    BY <1>1, <1>4, <1>5, <1>6, <1>7, <1>8, <1>9 DEF StoreNext

LEMMA RunStaysPlaced ==
  ASSUME TypeInv, NEW t \in Turn, RunStep(t)
  PROVE  RequestPlaced(t)'
  <1> USE DEF TypeInv, TypeOK, RunTypeOK, Goto
  <1>1. RequestPlaced(t)
    BY DEF Placed
  <1>2. CASE FreezeParent(t)
    <2>1. StoreTypeOK /\ [StoreNext]_storeVars /\ parent[t] \in Turn
      BY <1>1, <1>2, RunKeepsStore DEF FreezeParent, RequestPlaced
    <2>2. (sessionExists' /\ Known(parent[t])) => state'[parent[t]] # "absent"
      BY <2>1, RowsStay DEF Known
    <2>3. sessionExists' => sessionExists
      BY <2>1, RowsStay
    <2> QED
      BY <1>1, <1>2, <2>2, <2>3 DEF FreezeParent, RequestPlaced, InRequest, Known
  <1>3. CASE FenceRefuses(t)
    BY <1>3 DEF FenceRefuses, RequestPlaced, InRequest, IsSettled
  <1>4. CASE Decide(t)
    <2>1. (IF abortReason[t] # "none" THEN abortReason[t]
           ELSE IF verdict[t] = "absent" THEN "client-cancelled" ELSE verdict[t]) \in Settled
      BY DEF Settled, Reason
    <2>2. verdict'[t] \in Settled /\ pc'[t] = "settling"
      BY <1>4, <2>1 DEF Decide
    <2> QED
      BY <2>2 DEF RequestPlaced, InRequest
  <1>5. CASE SettleTurn(t)
    BY <1>1, <1>5 DEF SettleTurn, RequestPlaced, InRequest, IsSettled
  <1>6. CASE Commit(t) \/ Reject(t) \/ Track(t)
    BY <1>1, <1>6 DEF Commit, Reject, Track, RequestPlaced, InRequest
  <1>7. CASE AppendCreated(t) \/ Publish(t) \/ StreamOutput(t)
             \/ PersistSnapshot(t) \/ PersistEvent(t)
             \/ ExecutionEnds(t) \/ Announce(t)
    BY <1>7 DEF AppendCreated, Publish, StreamOutput, PersistSnapshot, PersistEvent, ExecutionEnds,
                Announce, RequestPlaced, InRequest
  <1>8. CASE StoreFault(t) \/ StoreRefuses(t) \/ PutFault(t)
    BY <1>8 DEF StoreFault, StoreRefuses, PutFault, Throw, RequestPlaced, InRequest
  <1>9. CASE TimeLimit(t)
    BY <1>1, <1>9 DEF TimeLimit, RequestPlaced, InRequest, InStream, storeVars, Known
  <1> QED
    BY <1>2, <1>3, <1>4, <1>5, <1>6, <1>7, <1>8, <1>9 DEF RunStep

LEMMA StaysPlaced ==
  ASSUME TypeInv, [Next]_vars
  PROVE  Placed'
  <1>s. StoreTypeOK /\ [StoreNext]_storeVars
    BY ServerKeepsStore DEF TypeInv, TypeOK
  <1>1. ASSUME NEW u \in Turn PROVE RequestPlaced(u)'
    <2>1. CASE Resting(u) /\ RowResting(u)
      <3>1. RequestPlaced(u) /\ parent[u] \in Turn \cup {None}
        BY DEF TypeInv, Placed, TypeOK, RunTypeOK
      <3>2. (parent[u] # None /\ sessionExists' /\ Known(parent[u])) =>
               state'[parent[u]] # "absent"
        BY <1>s, <3>1, RowsStay DEF Known
      <3>3. sessionExists' => sessionExists
        BY <1>s, RowsStay
      <3> QED
        BY <2>1, <3>1, <3>2, <3>3 DEF Resting, RequestPlaced, InRequest, Known
    <2>2. ASSUME NEW x \in Executor, NEW p \in Turn \cup {None}, Arrive(u, x, p)
          PROVE  RequestPlaced(u)'
      <3>1. p # None => p \in Turn /\ Known(p)
        BY <2>2 DEF Arrive, TypeInv, TipIsCommitted
      <3>2. /\ host'[u] = x /\ parent'[u] = p /\ state' = state
            /\ pc'[u] = IF p = None THEN "resolve" ELSE "freeze"
        BY <2>2 DEF Arrive, Goto, TypeInv, TypeOK, RunTypeOK, storeVars
      <3> QED
        BY <3>1, <3>2, NoneAssumption DEF RequestPlaced, Known, InRequest
    <2> QED
      BY <2>1, <2>2, RestOrRun, RunStaysPlaced
  <1>2. ASSUME NEW c \in Canceller PROVE CancelPlaced(c)'
    <2>0. CancelPlaced(c)
      BY DEF TypeInv, Placed
    <2>1. CASE CancelResting(c)
      BY <2>0, <2>1 DEF CancelResting, CancelPlaced
    <2>2. CASE CancelStep(c)
      BY <2>0, <2>2 DEF CancelStep, CancelLook, CancelLocally, CancelAskPeer,
           PeerCancels, CancelConfirmed, CancelUnconfirmed, CancelFreezes, CancelFault,
           CGoto, TypeInv, TypeOK, CancelPlaced
    <2>3. ASSUME NEW x \in Executor, CancelRequest(c, x)
          PROVE  CancelPlaced(c)'
      BY <2>0, <2>3 DEF CancelRequest, CGoto, TypeInv, TypeOK, StoreTypeOK, CancelPlaced
    <2> QED
      BY <2>1, <2>2, <2>3, RestOrCancel
  <1> QED
    BY <1>1, <1>2 DEF Placed

LEMMA TypeInvInit == Init => TypeInv
  <1>1. Init => Placed
    BY DEF Init, RunInit, Placed, RequestPlaced, CancelPlaced, InRequest
  <1>2. Init => TipIsCommitted
    BY DEF Init, StoreInit, TipIsCommitted, Known
  <1> QED
    BY <1>1, <1>2, TypeInit DEF TypeInv

LEMMA TypeInvStep == TypeInv /\ [Next]_vars => TypeInv'
  <1> SUFFICES ASSUME TypeInv, [Next]_vars PROVE TypeInv'
    OBVIOUS
  <1>1. StoreTypeOK /\ TipIsCommitted /\ [StoreNext]_storeVars
    BY ServerKeepsStore DEF TypeInv, TypeOK
  <1>2. TipIsCommitted'
    BY <1>1, TipStep
  <1> QED
    BY <1>2, ServerType, StaysPlaced DEF TypeInv

LEMMA TypeInvHolds == Spec => []TypeInv
  BY TypeInvInit, TypeInvStep, PTL DEF Spec

(* Requests, runs, cancels and processes are well typed in every reachable  *)
(* state.                                                                   *)
THEOREM ServerTypeCorrect == Spec => []TypeOK
  <1>1. TypeInv => TypeOK
    BY DEF TypeInv
  <1> QED
    BY <1>1, TypeInvHolds, PTL

(* With all its requests, runs, cancels, faults and crashes the server uses *)
(* the store within its contract, so that all that is proved of the         *)
(* contract holds of the server's store.                                    *)
THEOREM ServerKeepsStoreContract == Spec => StoreSpec
  <1>1. Init => StoreInit
    BY DEF Init
  <1>2. TypeInv /\ [Next]_vars => [StoreNext]_storeVars
    BY ServerKeepsStore
  <1> QED
    BY <1>1, <1>2, TypeInvHolds, PTL DEF Spec, StoreSpec

-----------------------------------------------------------------------------
(* What a run works with: the version its createTurn read is the version    *)
(* its row inherits, at every control point of the request.                 *)
ReadFinal(t) ==
    sessionExists =>
        /\ pc[t] \in {"idle", "freeze", "resolve"} => ~Known(t)
        /\ (pc[t] = "freeze" \/ (pc[t] = "resolve" /\ parent[t] = None)) => seen[t] = 0
        /\ (pc[t] = "resolve" /\ parent[t] # None) =>
              IsSettled(parent[t]) /\ seen[t] = snapshot[parent[t]]
        /\ pc[t] = "idle" => seen[t] = 0
        /\ Known(t) => seen[t] = base[t]

LEMMA SettledStay ==
  ASSUME TypeInv, [Next]_vars, NEW p \in Turn, sessionExists', IsSettled(p)
  PROVE  IsSettled(p)' /\ snapshot'[p] = snapshot[p]
  <1>1. StoreTypeOK /\ [StoreNext]_storeVars
    BY ServerKeepsStore DEF TypeInv, TypeOK
  <1> QED
    BY <1>1, SettledIsFinalStep DEF IsSettled

LEMMA ReadFinalRun ==
  ASSUME TypeInv, NEW t \in Turn, RunStep(t), ReadFinal(t),
         \A p \in Turn : (sessionExists' /\ IsSettled(p)) =>
                            IsSettled(p)' /\ snapshot'[p] = snapshot[p]
  PROVE  ReadFinal(t)'
  <1> USE DEF TypeInv, TypeOK, RunTypeOK, Goto
  <1>1. CASE FreezeParent(t)
    <2>1. parent[t] \in Turn /\ parent[t] # None
      BY <1>1, NoneAssumption DEF FreezeParent, Placed, RequestPlaced
    <2>2. pc'[t] = "resolve" /\ parent' = parent /\ seen'[t] = snapshot[parent[t]]
      BY <1>1 DEF FreezeParent
    <2>3. /\ FreezeAndGetTurn(parent[t], "cancelled-for-next-turn")
          /\ pc[t] = "freeze"
      BY <1>1 DEF FreezeParent
    <2>4. state'[parent[t]] \in Settled /\ snapshot' = snapshot /\ sessionExists' = sessionExists
      BY <2>1, <2>3 DEF FreezeAndGetTurn, Settle, StoreTypeOK, Known, IsRunning,
                        Settled, Reason, storeVars
    <2>5. ~Known(t) => ~Known(t)'
      BY <2>1, <2>3 DEF FreezeAndGetTurn, Settle, StoreTypeOK, Known, IsRunning, storeVars
    <2> QED
      BY <2>1, <2>2, <2>3, <2>4, <2>5 DEF ReadFinal, IsSettled
  <1>2. CASE Commit(t)
    <2>1. /\ sessionExists /\ ~Known(t) /\ base'[t] = Inherited(parent[t])
          /\ pc[t] = "resolve" /\ pc'[t] = "committed" /\ seen'[t] = seen[t]
      BY <1>2 DEF Commit, CreateTurn, InsertRow, StoreTypeOK
    <2>2. seen[t] = Inherited(parent[t])
      BY <2>1 DEF ReadFinal, Inherited, Placed, RequestPlaced
    <2> QED
      BY <2>1, <2>2 DEF ReadFinal
  <1>3. CASE AppendCreated(t) \/ PersistEvent(t) \/ PersistSnapshot(t)
    <2>1. UNCHANGED <<state, base, seen, sessionExists>>
      BY <1>3 DEF AppendCreated, PersistEvent, PersistSnapshot, AppendToEvents,
                  LogEvent, WriteSnapshot, BumpSnapshot, storeVars
    <2>2. pc'[t] \notin {"idle", "freeze", "resolve"}
      BY <1>3 DEF AppendCreated, PersistEvent, PersistSnapshot
    <2> QED
      BY <2>1, <2>2 DEF ReadFinal, Known
  <1>4. CASE SettleTurn(t)
    <2>1. UNCHANGED <<base, seen, sessionExists>>
      BY <1>4 DEF SettleTurn, UpdateTurnState, Settle, storeVars
    <2>2. pc'[t] \notin {"idle", "freeze", "resolve"} /\ Known(t)
      BY <1>4 DEF SettleTurn, UpdateTurnState, Known, IsRunning, IsSettled, Settled, Reason
    <2> QED
      BY <2>1, <2>2 DEF ReadFinal
  <1>5. CASE Reject(t) \/ Track(t) \/ Publish(t) \/ StreamOutput(t) \/ FenceRefuses(t)
             \/ ExecutionEnds(t) \/ Decide(t) \/ Announce(t)
             \/ StoreFault(t) \/ StoreRefuses(t) \/ PutFault(t)
    <2>1. UNCHANGED <<state, base, seen, sessionExists>>
      BY <1>5 DEF Reject, Track, Publish, StreamOutput, FenceRefuses, ExecutionEnds, Decide, Announce,
                  StoreFault, StoreRefuses, PutFault, Throw, storeVars
    <2>2. pc'[t] \notin {"idle", "freeze", "resolve"}
      BY <1>5 DEF Reject, Track, Publish, StreamOutput, FenceRefuses, ExecutionEnds, Decide, Announce,
                  StoreFault, StoreRefuses, PutFault, Throw
    <2> QED
      BY <2>1, <2>2 DEF ReadFinal, Known
  <1>6. CASE TimeLimit(t)
    BY <1>6 DEF TimeLimit, ReadFinal, Known, IsSettled, storeVars
  <1> QED
    BY <1>1, <1>2, <1>3, <1>4, <1>5, <1>6 DEF RunStep

LEMMA ReadFinalStep ==
  ASSUME TypeInv, [Next]_vars, \A t \in Turn : ReadFinal(t)
  PROVE  \A t \in Turn : ReadFinal(t)'
  <1>s. StoreTypeOK /\ [StoreNext]_storeVars
    BY ServerKeepsStore DEF TypeInv, TypeOK
  <1>0. sessionExists' => sessionExists
    <2>1. CASE Turn = {}
      BY <1>s, <2>1 DEF StoreNext, storeVars, DeleteSession, StoreTypeOK
    <2>2. CASE Turn # {}
      BY <1>s, <2>2, RowsStay
    <2> QED
      BY <2>1, <2>2
  <1>1. \A p \in Turn : (sessionExists' /\ IsSettled(p)) =>
                           IsSettled(p)' /\ snapshot'[p] = snapshot[p]
    BY SettledStay
  <1> TAKE u \in Turn
  <1>2. CASE Resting(u) /\ RowResting(u)
    <2>1. SUFFICES ASSUME sessionExists' PROVE ReadFinal(u)'
      BY DEF ReadFinal
    <2>2. sessionExists /\ ReadFinal(u) /\ parent[u] \in Turn \cup {None}
      BY <1>0, <2>1 DEF TypeInv, TypeOK, RunTypeOK
    <2>3. /\ Known(u)' <=> Known(u)
          /\ base'[u] = base[u]
      BY <1>2, <2>1 DEF RowResting, Known, IsRunning, Settled, Reason
    <2>4. (parent[u] # None /\ IsSettled(parent[u])) =>
             state'[parent[u]] \in Settled /\ snapshot'[parent[u]] = snapshot[parent[u]]
      BY <1>1, <2>1, <2>2 DEF IsSettled
    <2>5. /\ pc'[u] \in {pc[u], "lost"}
          /\ seen'[u] = seen[u] /\ parent'[u] = parent[u]
      BY <1>2 DEF Resting
    <2> QED
      BY <2>2, <2>3, <2>4, <2>5 DEF ReadFinal, IsSettled
  <1>3. ASSUME NEW x \in Executor, NEW p \in Turn \cup {None}, Arrive(u, x, p)
        PROVE  ReadFinal(u)'
    <2>1. /\ pc[u] = "idle" /\ parent'[u] = p /\ seen'[u] = seen[u]
          /\ pc'[u] = IF p = None THEN "resolve" ELSE "freeze"
          /\ UNCHANGED <<state, base, sessionExists>>
      BY <1>3 DEF Arrive, Goto, TypeInv, TypeOK, RunTypeOK, storeVars
    <2> QED
      BY <2>1 DEF ReadFinal, Known
  <1> QED
    BY <1>1, <1>2, <1>3, RestOrRun, ReadFinalRun

LEMMA ReadFinalInit == Init => \A t \in Turn : ReadFinal(t)
  BY DEF Init, StoreInit, RunInit, ReadFinal, Known

(* A run works with the snapshot its row inherits, whatever other requests  *)
(* do between its read of the parent and its commit.                        *)
THEOREM RunsOnWhatItInheritedHolds == Spec => []RunsOnWhatItInherited
  <1> DEFINE Inv == \A t \in Turn : ReadFinal(t)
  <1>1. Init => Inv
    BY ReadFinalInit
  <1>2. TypeInv /\ Inv /\ [Next]_vars => Inv'
    BY ReadFinalStep
  <1>3. Inv => RunsOnWhatItInherited
    BY DEF ReadFinal, RunsOnWhatItInherited
  <1> HIDE DEF Inv
  <1> QED
    BY <1>1, <1>2, <1>3, TypeInvHolds, PTL DEF Spec

-----------------------------------------------------------------------------
(* Aborts and cancels.  An abort signal that fired stays fired.             *)
LEMMA AbortSticks ==
  ASSUME TypeInv, [Next]_vars, NEW u \in Turn, abortReason[u] # "none"
  PROVE  abortReason'[u] = abortReason[u]
  <1> USE DEF TypeInv, TypeOK, RunTypeOK
  <1>1. ASSUME RunStep(u) PROVE abortReason'[u] = abortReason[u]
    <2>1. CASE Track(u) \/ TimeLimit(u)
      BY <2>1 DEF Track, TimeLimit, Abort
    <2>2. CASE ~(Track(u) \/ TimeLimit(u))
      <3>1. UNCHANGED abortReason
        BY <1>1, <2>2 DEF RunStep, FreezeParent, Reject, Commit, AppendCreated, Publish,
             StreamOutput, PersistSnapshot, PersistEvent, FenceRefuses, ExecutionEnds, Decide,
             SettleTurn, Announce, StoreFault, StoreRefuses, PutFault, Throw
      <3> QED
        BY <3>1
    <2> QED
      BY <2>1, <2>2
  <1>2. ASSUME NEW x \in Executor, NEW p \in Turn \cup {None}, Arrive(u, x, p)
        PROVE  abortReason'[u] = abortReason[u]
    BY <1>2 DEF Arrive
  <1> QED
    BY <1>1, <1>2, RestOrRun DEF Resting

(* The turn has settled, or its run has been told to end.                   *)
Reached(t) == ~IsRunning(t) \/ abortReason[t] # "none"

CancelTold(c) ==
    /\ (cturn[c] # None /\ sessionExists) => Known(cturn[c])
    /\ (cpc[c] = "done" /\ cturn[c] # None) => Reached(cturn[c])
    /\ mail[c] = "200" => abortReason[cturn[c]] # "none"

LEMMA ReachedSticks ==
  ASSUME TypeInv, [Next]_vars, NEW u \in Turn, sessionExists => Known(u), Reached(u)
  PROVE  ~(state'[u] = "running") \/ abortReason'[u] # "none"
  <1>s. StoreTypeOK /\ [StoreNext]_storeVars
    BY ServerKeepsStore DEF TypeInv, TypeOK
  <1>1. ~IsRunning(u) => ~(state'[u] = "running")
    BY <1>s, RowsStay DEF IsRunning
  <1> QED
    BY <1>1, AbortSticks DEF Reached

LEMMA CancelTells ==
  ASSUME TypeInv, [Next]_vars, NEW c \in Canceller, CancelTold(c), CancelStep(c)
  PROVE  CancelTold(c)'
  <1> USE DEF TypeInv, TypeOK, RunTypeOK, CGoto
  <1>s. StoreTypeOK /\ [StoreNext]_storeVars
    BY ServerKeepsStore
  <1>p. CancelPlaced(c)
    BY DEF Placed
  <1>1. /\ cpc[c] # "done" \/ mail[c] = "sent"
        /\ cturn' = cturn /\ cturn[c] \in Turn
    BY <1>p DEF CancelStep, CancelLook, CancelLocally, CancelAskPeer, PeerCancels,
           CancelConfirmed, CancelUnconfirmed, CancelFreezes, CancelFault, CancelPlaced
  <1>2. PICK t \in Turn : t = cturn[c]
    BY <1>1
  <1>3. t # None /\ cturn'[c] = t
    BY <1>1, <1>2, NoneAssumption
  <1>4. sessionExists' => state'[t] # "absent"
    <2>1. sessionExists' => sessionExists
      BY <1>s, RowsStay
    <2>2. (sessionExists' /\ Known(t)) => Known(t)'
      BY <1>s, RowsStay
    <2> QED
      BY <1>2, <1>3, <2>1, <2>2 DEF CancelTold, Known
  <1>5. mail[c] = "200" => abortReason'[t] # "none"
    BY <1>2, AbortSticks DEF CancelTold
  <1>6. (cpc[c] = "done") => (state'[t] # "running" \/ abortReason'[t] # "none")
    BY <1>2, <1>3, ReachedSticks DEF CancelTold
  <1>7. /\ cpc'[c] = "done" => (state'[t] # "running" \/ abortReason'[t] # "none")
        /\ mail'[c] = "200" => abortReason'[t] # "none"
    <2>1. CASE CancelLook(c)
      BY <1>2, <1>5, <2>1 DEF CancelLook, turnVars, storeVars, IsRunning
    <2>2. CASE CancelLocally(c)
      BY <1>2, <1>5, <2>2 DEF CancelLocally, Abort
    <2>3. CASE CancelAskPeer(c)
      BY <2>3 DEF CancelAskPeer
    <2>4. CASE PeerCancels(c)
      <3>1. mail'[c] = "200" => abortReason'[t] # "none"
        BY <1>2, <2>4 DEF PeerCancels, Abort
      <3>2. cpc'[c] = cpc[c]
        BY <2>4 DEF PeerCancels
      <3> QED
        BY <1>6, <3>1, <3>2
    <2>5. CASE CancelConfirmed(c)
      BY <1>5, <2>5 DEF CancelConfirmed
    <2>6. CASE CancelUnconfirmed(c)
      BY <1>5, <2>6 DEF CancelUnconfirmed
    <2>7. CASE CancelFreezes(c)
      <3>1. state'[t] # "running"
        BY <1>2, <2>7 DEF CancelFreezes, FreezeAndGetTurn, Settle, StoreTypeOK,
                          IsRunning, Known, storeVars
      <3>2. mail'[c] = mail[c]
        BY <2>7 DEF CancelFreezes
      <3> QED
        BY <1>5, <3>1, <3>2
    <2>8. CASE CancelFault(c)
      BY <1>5, <2>8 DEF CancelFault
    <2> QED
      BY <2>1, <2>2, <2>3, <2>4, <2>5, <2>6, <2>7, <2>8 DEF CancelStep
  <1> QED
    BY <1>3, <1>4, <1>7 DEF CancelTold, Reached, Known, IsRunning

LEMMA CancelToldStep ==
  ASSUME TypeInv, [Next]_vars, NEW c \in Canceller, CancelTold(c)
  PROVE  CancelTold(c)'
  <1> USE DEF TypeInv, TypeOK, RunTypeOK
  <1>s. StoreTypeOK /\ [StoreNext]_storeVars
    BY ServerKeepsStore
  <1>1. CASE CancelResting(c)
    <2>1. CASE cturn[c] = None
      <3>1. mail[c] = "unsent"
        BY <2>1, NoneAssumption DEF Placed, CancelPlaced
      <3> QED
        BY <1>1, <2>1, <3>1 DEF CancelResting, CancelTold
    <2>2. CASE cturn[c] # None
      <3>1. PICK t \in Turn : t = cturn[c]
        BY <2>2
      <3>2. sessionExists' => state'[t] # "absent"
        <4>1. (sessionExists' => sessionExists) /\ (sessionExists' /\ Known(t) => Known(t)')
          BY <1>s, RowsStay
        <4> QED
          BY <2>2, <3>1, <4>1 DEF CancelTold, Known
      <3>3. mail[c] = "200" => abortReason'[t] # "none"
        BY <3>1, AbortSticks DEF CancelTold
      <3>4. (cpc[c] = "done") => (state'[t] # "running" \/ abortReason'[t] # "none")
        BY <2>2, <3>1, ReachedSticks DEF CancelTold
      <3>5. cturn'[c] = t
        BY <1>1, <3>1 DEF CancelResting
      <3> QED
        BY <1>1, <3>2, <3>3, <3>4, <3>5 DEF CancelResting, CancelTold, Reached, Known, IsRunning
    <2> QED
      BY <2>1, <2>2
  <1>2. ASSUME NEW x \in Executor, CancelRequest(c, x) PROVE CancelTold(c)'
    <2>1. /\ cturn'[c] = tip /\ mail'[c] = mail[c] /\ cpc[c] = "idle"
          /\ cpc'[c] = IF tip = None THEN "done" ELSE "look"
          /\ UNCHANGED <<state, sessionExists>>
      BY <1>2 DEF CancelRequest, CGoto, turnVars, storeVars
    <2>2. mail[c] = "unsent"
      BY <2>1, NoneAssumption DEF Placed, CancelPlaced
    <2> QED
      BY <2>1, <2>2 DEF CancelTold, TipIsCommitted, Known
  <1> QED
    BY <1>1, <1>2, CancelTells, RestOrCancel

(* A cancel request that was answered has reached its turn: it is settled   *)
(* or its abort signal has fired.                                           *)
THEOREM CancelReachesTurnHolds == Spec => []CancelReachesTurn
  <1> DEFINE Inv == \A c \in Canceller : CancelTold(c)
  <1>1. Init => Inv
    BY DEF Init, CancelTold
  <1>2. TypeInv /\ Inv /\ [Next]_vars => Inv'
    BY CancelToldStep
  <1>3. Inv => CancelReachesTurn
    BY DEF CancelTold, Reached, CancelReachesTurn
  <1> HIDE DEF Inv
  <1> QED
    BY <1>1, <1>2, <1>3, TypeInvHolds, PTL DEF Spec

-----------------------------------------------------------------------------
(* Shutdown.                                                                *)
Aborted(t) ==
    /\ registered[t] => pc[t] \in InStream \cup {"suspended"} /\ host[t] \in Executor
    /\ (registered[t] /\ ShutDown(host[t])) => abortReason[t] # "none"

(* Who changes the phase of a process: only BeginDrain starts its shutdown. *)
LEMMA WhoChangesPhase ==
  ASSUME TypeInv, [Next]_vars, NEW x \in Executor, phase'[x] # phase[x]
  PROVE  CloseServer(x) \/ BeginDrain(x) \/ Drained(x) \/ Exit(x) \/ Crash(x) \/ Restart(x)
  <1> USE DEF TypeInv, TypeOK, RunTypeOK
  <1>1. ASSUME NEW y \in Executor,
               CloseServer(y) \/ BeginDrain(y) \/ Drained(y) \/ Exit(y)
               \/ Crash(y) \/ Restart(y)
        PROVE  x = y
    BY <1>1 DEF CloseServer, BeginDrain, Drained, Exit, Crash, Restart
  <1>2. ASSUME NEW t \in Turn, RunStep(t) PROVE UNCHANGED phase
    BY <1>2 DEF RunStep, FreezeParent, Reject, Commit, Track, AppendCreated, Publish,
             StreamOutput, PersistSnapshot, PersistEvent, FenceRefuses, ExecutionEnds, Decide,
             SettleTurn, Announce, StoreFault, StoreRefuses, PutFault, Throw, TimeLimit
  <1>3. ASSUME NEW c \in Canceller, CancelStep(c) PROVE UNCHANGED phase
    BY <1>3 DEF CancelStep, CancelLook, CancelLocally, CancelAskPeer, PeerCancels,
           CancelConfirmed, CancelUnconfirmed, CancelFreezes, CancelFault, runButAbort,
           turnVars, runVars
  <1>4. CASE Next
    BY <1>1, <1>2, <1>3, <1>4
    DEF Next, Arrive, CancelRequest, Delete, Disconnect, turnVars, runVars
  <1>5. CASE UNCHANGED vars
    BY <1>5 DEF vars, turnVars, runVars
  <1> QED
    BY <1>4, <1>5

LEMMA ShutDownBegins ==
  ASSUME TypeInv, [Next]_vars, NEW x \in Executor, ShutDown(x)', ~ShutDown(x)
  PROVE  BeginDrain(x)
  <1>1. phase'[x] # phase[x]
    BY DEF ShutDown
  <1> QED
    BY <1>1, WhoChangesPhase
    DEF CloseServer, Drained, Exit, Crash, Restart, ShutDown, TypeInv, TypeOK, RunTypeOK

LEMMA AbortedRun ==
  ASSUME TypeInv, NEW t \in Turn, Aborted(t), RunStep(t)
  PROVE  Aborted(t)'
  <1> USE DEF TypeInv, TypeOK, RunTypeOK, Goto, Complete, Aborted, ShutDown
  <1>0. pc[t] \in InStream <=> pc[t] \in {"opening", "created", "executing", "streaming", "appending",
                      "yielding", "frozen", "finalize", "settling", "announcing"}
    BY DEF InStream
  <1>1. CASE Track(t)
    <2>1. host[t] \in Executor /\ pc'[t] \in InStream /\ UNCHANGED <<host, phase>>
      BY <1>1 DEF Track, Placed, RequestPlaced, InRequest, InStream
    <2>2. ShutDown(host[t]) => abortReason'[t] # "none"
      BY <1>1 DEF Track, Abort
    <2> QED
      BY <2>1, <2>2
  <1>2. CASE TimeLimit(t)
    BY <1>2 DEF TimeLimit, Abort
  <1>3. CASE FreezeParent(t) \/ Reject(t) \/ Commit(t)
    BY <1>3 DEF FreezeParent, Reject, Commit, InStream
  <1>4. CASE AppendCreated(t) \/ Publish(t) \/ StreamOutput(t)
             \/ PersistSnapshot(t) \/ PersistEvent(t)
    BY <1>4 DEF AppendCreated, Publish, StreamOutput, PersistSnapshot, PersistEvent, InStream
  <1>5. CASE FenceRefuses(t) \/ ExecutionEnds(t) \/ Decide(t) \/ SettleTurn(t)
    BY <1>5 DEF FenceRefuses, ExecutionEnds, Decide, SettleTurn, InStream
  <1>6. CASE Announce(t)
    <2>1. ~registered'[t]
      BY <1>6 DEF Announce
    <2> QED
      BY <2>1
  <1>7. CASE StoreFault(t) \/ StoreRefuses(t)
    <2>1. Throw(t) /\ UNCHANGED <<host, phase, abortReason>>
      BY <1>7 DEF StoreFault, StoreRefuses, Throw
    <2>2. \/ pc[t] \in InRequest /\ registered' = registered
          \/ pc'[t] = "finalize" /\ registered' = registered
          \/ ~registered'[t]
      BY <2>1 DEF Throw
    <2>3. registered[t] => pc[t] \notin InRequest
      BY <1>0 DEF InRequest
    <2> QED
      BY <2>1, <2>2, <2>3 DEF InStream
  <1>8. CASE PutFault(t)
    <2>1. UNCHANGED <<host, phase, abortReason>>
      BY <1>8 DEF PutFault
    <2>2. \/ pc'[t] = "finalize" /\ registered' = registered
          \/ ~registered'[t]
      BY <1>8 DEF PutFault
    <2> QED
      BY <2>1, <2>2 DEF InStream
  <1> QED
    BY <1>1, <1>2, <1>3, <1>4, <1>5, <1>6, <1>7, <1>8 DEF RunStep

LEMMA AbortedStep ==
  ASSUME TypeInv, [Next]_vars, \A t \in Turn : Aborted(t)
  PROVE  \A t \in Turn : Aborted(t)'
  <1> USE DEF TypeInv, TypeOK, RunTypeOK
  <1> TAKE u \in Turn
  <1>1. CASE Resting(u) /\ RowResting(u)
    <2>1. SUFFICES ASSUME registered'[u] PROVE Aborted(u)'
      BY DEF Aborted
    <2>2. /\ registered[u] /\ pc'[u] = pc[u] /\ host'[u] = host[u]
          /\ host[u] \in Executor /\ pc[u] \in InStream \cup {"suspended"}
      BY <1>1, <2>1 DEF Resting, Aborted
    <2>3. PICK x \in Executor : x = host[u]
      BY <2>2
    <2>4. ShutDown(x)' => abortReason'[u] # "none"
      <3>1. CASE ShutDown(x)
        BY <2>2, <2>3, <3>1, AbortSticks DEF Aborted
      <3>2. CASE ShutDown(x)' /\ ~ShutDown(x)
        <4>1. BeginDrain(x)
          BY <3>2, ShutDownBegins
        <4> QED
          BY <2>2, <2>3, <4>1 DEF BeginDrain, Abort, RunsHere
      <3> QED
        BY <3>1, <3>2
    <2> QED
      BY <2>2, <2>3, <2>4 DEF Aborted, ShutDown
  <1>2. ASSUME NEW x \in Executor, NEW p \in Turn \cup {None}, Arrive(u, x, p)
        PROVE  Aborted(u)'
    <2>1. ~registered[u]
      BY <1>2 DEF Arrive, Aborted, InStream
    <2> QED
      BY <1>2, <2>1 DEF Arrive, Aborted
  <1> QED
    BY <1>1, <1>2, RestOrRun, AbortedRun

(* Once shutdown has begun no registered run of the process goes on         *)
(* unaborted, whenever it was registered.                                   *)
THEOREM NoRunOutlivesShutdownHolds == Spec => []NoRunOutlivesShutdown
  <1> DEFINE Inv == \A t \in Turn : Aborted(t)
  <1>1. Init => Inv
    BY DEF Init, RunInit, Aborted
  <1>2. TypeInv /\ Inv /\ [Next]_vars => Inv'
    BY AbortedStep
  <1>3. Inv => NoRunOutlivesShutdown
    BY DEF Aborted, NoRunOutlivesShutdown
  <1> HIDE DEF Inv
  <1> QED
    BY <1>1, <1>2, <1>3, TypeInvHolds, PTL DEF Spec

-----------------------------------------------------------------------------
(* What subscribers are told.                                               *)
Live == Seq({"turn.created", "event", "delta"} \cup Settled)

NoEnd(l) == \A i \in 1..Len(l) : l[i] \notin Settled
EndsWith(l, v) == \A i \in 1..Len(l) : l[i] \in Settled => i = Len(l) /\ l[i] = v

LEMMA NoEndGrows ==
  ASSUME NEW l \in Live, NoEnd(l), NEW e \in {"turn.created", "event", "delta"}
  PROVE  NoEnd(Append(l, e))
  <1>1. e \notin Settled
    BY DEF Settled, Reason
  <1> QED
    BY <1>1 DEF Live, NoEnd

LEMMA EndComes ==
  ASSUME NEW l \in Live, NoEnd(l), NEW v \in Settled
  PROVE  EndsWith(Append(l, v), v)
  BY DEF Live, NoEnd, EndsWith

Tells(t) ==
    /\ (pc[t] \in {"announcing", "frozen"} /\ sessionExists) => state[t] = verdict[t]
    /\ \/ NoEnd(live[t])
       \/ /\ pc[t] = "ended"
          /\ EndsWith(live[t], verdict[t])
          /\ verdict[t] \in Settled
          /\ sessionExists => state[t] = verdict[t]

LEMMA TellsRun ==
  ASSUME TypeInv, NEW t \in Turn, Tells(t), RunStep(t)
  PROVE  Tells(t)'
  <1> USE DEF TypeInv, TypeOK, RunTypeOK, Goto
  <1>0. "ended" \notin InStream \cup InRequest
    BY DEF InStream, InRequest
  <1>1. pc[t] # "ended"
    BY <1>0 DEF RunStep, FreezeParent, Reject, Commit, Track, AppendCreated, Publish,
             StreamOutput, PersistSnapshot, PersistEvent, FenceRefuses, ExecutionEnds, Decide,
             SettleTurn, Announce, StoreFault, StoreRefuses, PutFault, Throw, TimeLimit
  <1>2. NoEnd(live[t])
    BY <1>1 DEF Tells
  <1>3. CASE Publish(t)
    <2>1. live[t] \in Live
      BY DEF Live
    <2>2. NoEnd(Append(live[t], Handed(t)))
      BY <1>2, <1>3, <2>1, HandedIs, NoEndGrows DEF Publish
    <2> QED
      BY <1>3, <2>2 DEF Publish, Tells
  <1>4. CASE Announce(t)
    <2>1. verdict[t] \in Settled /\ live[t] \in Live
      BY <1>4 DEF Announce, Placed, RequestPlaced, Live
    <2>2. EndsWith(Append(live[t], verdict[t]), verdict[t])
      BY <1>2, <2>1, EndComes
    <2> QED
      BY <1>4, <2>1, <2>2 DEF Announce, Tells, storeVars
  <1>5. CASE SettleTurn(t)
    <2>1. live' = live /\ state'[t] = verdict'[t]
      BY <1>5 DEF SettleTurn, UpdateTurnState, Settle, StoreTypeOK, storeVars
    <2> QED
      BY <1>2, <2>1 DEF Tells
  <1>6. CASE FenceRefuses(t)
    BY <1>2, <1>6 DEF FenceRefuses, Tells, storeVars
  <1>7. CASE FreezeParent(t) \/ Reject(t) \/ Commit(t) \/ Track(t) \/ AppendCreated(t)
             \/ StreamOutput(t) \/ PersistSnapshot(t) \/ PersistEvent(t)
             \/ ExecutionEnds(t) \/ Decide(t)
    BY <1>2, <1>7 DEF FreezeParent, Reject, Commit, Track, AppendCreated,
             StreamOutput, PersistSnapshot, PersistEvent, ExecutionEnds, Decide, Tells
  <1>8. CASE StoreFault(t) \/ StoreRefuses(t) \/ PutFault(t)
    BY <1>2, <1>8 DEF StoreFault, StoreRefuses, PutFault, Throw, Tells
  <1>9. CASE TimeLimit(t)
    BY <1>2, <1>9 DEF TimeLimit, Tells, storeVars
  <1> QED
    BY <1>3, <1>4, <1>5, <1>6, <1>7, <1>8, <1>9 DEF RunStep

LEMMA TellsStep ==
  ASSUME TypeInv, [Next]_vars, NEW u \in Turn, Tells(u)
  PROVE  Tells(u)'
  <1> USE DEF TypeInv, TypeOK, RunTypeOK
  <1>0. sessionExists' => sessionExists
    BY ServerKeepsStore, RowsStay
  <1>1. CASE Resting(u) /\ RowResting(u)
    <2>1. (sessionExists' /\ state[u] = verdict[u] /\ verdict[u] \in Settled) =>
             state'[u] = verdict[u]
      BY <1>1 DEF RowResting, IsRunning, Settled, Reason
    <2>2. pc[u] \in {"announcing", "frozen"} => verdict[u] \in Settled
      BY DEF Placed, RequestPlaced
    <2> QED
      BY <1>0, <1>1, <2>1, <2>2 DEF Resting, Tells
  <1>2. ASSUME NEW x \in Executor, NEW p \in Turn \cup {None}, Arrive(u, x, p)
        PROVE  Tells(u)'
    BY <1>2 DEF Arrive, Goto, Tells
  <1> QED
    BY <1>1, <1>2, RestOrRun, TellsRun

(* The turn.done of a live stream is its last event and carries the state   *)
(* that is stored, whoever settled the turn.                                *)
THEOREM ToldWhatIsStoredHolds == Spec => []ToldWhatIsStored
  <1> DEFINE Inv == \A t \in Turn : Tells(t)
  <1>1. Init => Inv
    <2>1. Len(<< >>) = 0
      OBVIOUS
    <2> QED
      BY <2>1 DEF Init, RunInit, Tells, NoEnd
  <1>2. TypeInv /\ Inv /\ [Next]_vars => Inv'
    BY TellsStep
  <1>3. Inv => ToldWhatIsStored
    BY DEF Tells, NoEnd, EndsWith, ToldWhatIsStored
  <1> HIDE DEF Inv
  <1> QED
    BY <1>1, <1>2, <1>3, TypeInvHolds, PTL DEF Spec

-----------------------------------------------------------------------------
(* What subscribers got, but model output, is in the log.  An event waiting *)
(* to be published and a turn.done that is not announced yet are each one   *)
(* ahead in the log.                                                        *)
Size(s) == Len(s)
Shown(l) == Cardinality(Durably(l))

LEMMA SizeGrows ==
  ASSUME NEW S, NEW s \in Seq(S), NEW e \in S
  PROVE  Size(s) \in Nat /\ Size(Append(s, e)) = Size(s) + 1
  BY DEF Size

LEMMA ShownGrows ==
  ASSUME NEW S, NEW l \in Seq(S), NEW e \in S
  PROVE  /\ Shown(l) \in Nat
         /\ e = "delta" => Shown(Append(l, e)) = Shown(l)
         /\ e # "delta" => Shown(Append(l, e)) = Shown(l) + 1
  <1>1. IsFiniteSet(1..Len(l))
    BY FS_Interval
  <1>2. IsFiniteSet(Durably(l)) /\ Len(l) + 1 \notin Durably(l)
    BY <1>1, FS_Subset DEF Durably
  <1>3. /\ e = "delta" => Durably(Append(l, e)) = Durably(l)
        /\ e # "delta" => Durably(Append(l, e)) = Durably(l) \cup {Len(l) + 1}
    BY DEF Durably
  <1> QED
    BY <1>2, <1>3, FS_CardinalityType, FS_AddElement DEF Shown

LEMMA NothingShown == Shown(<< >>) = 0
  <1>1. Durably(<< >>) = {}
    BY DEF Durably
  <1> QED
    BY <1>1, FS_EmptySet DEF Shown

Owed(p, s) == IF p /\ s THEN 2 ELSE IF p \/ s THEN 1 ELSE 0

LEMMA OwesLess ==
  ASSUME NEW l \in Nat, NEW m \in Nat, NEW p \in BOOLEAN, NEW s \in BOOLEAN,
         NEW p2 \in BOOLEAN, NEW s2 \in BOOLEAN,
         m + Owed(p, s) <= l, p2 => p, s2 => s
  PROVE  m + Owed(p2, s2) <= l
  BY DEF Owed

LEMMA OwesOneMore ==
  ASSUME NEW l \in Nat, NEW m \in Nat, NEW p \in BOOLEAN, NEW s \in BOOLEAN,
         NEW p2 \in BOOLEAN, NEW s2 \in BOOLEAN,
         m + Owed(p, s) <= l, (p2 => p) \/ (s2 => s)
  PROVE  m + Owed(p2, s2) <= l + 1
  BY DEF Owed

LEMMA PaysOne ==
  ASSUME NEW l \in Nat, NEW m \in Nat, NEW p \in BOOLEAN, NEW s \in BOOLEAN,
         NEW p2 \in BOOLEAN, NEW s2 \in BOOLEAN,
         m + Owed(p, s) <= l, p2 => p, s2 => s, (p /\ ~p2) \/ (s /\ ~s2)
  PROVE  m + 1 + Owed(p2, s2) <= l
  BY DEF Owed

Waiting(t) == pc[t] \in {"created", "yielding"}
Unannounced(t) == IsSettled(t) /\ pc[t] # "ended"

Due(t) == Shown(live[t]) + kept[t]
Behind(t) == Due(t) + Owed(Waiting(t), Unannounced(t)) <= Size(log[t])

Opened(t) == IsSettled(t) \/ (log[t] # << >> /\ log[t][1] = "turn.created")

Durable(t) ==
    sessionExists =>
        /\ pc[t] \in {"idle", "freeze", "resolve", "committed", "opening"} =>
              live[t] = << >> /\ kept[t] = 0
        /\ (pc[t] \in {"committed", "opening"} /\ IsRunning(t)) => log[t] = << >>
        /\ (pc[t] \in {"created", "executing", "streaming", "appending",
                      "yielding"} \/ live[t] # << >>) => Opened(t)
        /\ Behind(t)

LEMMA BehindTypes ==
  ASSUME TypeOK, NEW t \in Turn
  PROVE  /\ Due(t) \in Nat /\ Shown(live[t]) \in Nat /\ kept[t] \in Nat
         /\ Size(log[t]) \in Nat
         /\ Waiting(t) \in BOOLEAN /\ Unannounced(t) \in BOOLEAN
         /\ live[t] \in Seq({"turn.created", "event", "delta"} \cup Settled)
         /\ log[t] \in Seq(Event)
  <1>1. /\ live[t] \in Seq({"turn.created", "event", "delta"} \cup Settled)
        /\ log[t] \in Seq(Event) /\ kept[t] \in Nat
    BY DEF TypeOK, StoreTypeOK, RunTypeOK
  <1>2. Shown(live[t]) \in Nat
    BY <1>1, ShownGrows
  <1> QED
    BY <1>1, <1>2 DEF Due, Size, Waiting, Unannounced, IsSettled

LEMMA LogFirst ==
  ASSUME NEW l \in Seq(Event), NEW e \in Event
  PROVE  /\ Append(l, e) # << >>
         /\ l = << >> => Append(l, e)[1] = e
         /\ l # << >> => Append(l, e)[1] = l[1]
  OBVIOUS

(* A step that moves the run on and writes nothing about it.                *)
LEMMA RunMovesOn ==
  ASSUME TypeOK, NEW t \in Turn, Durable(t),
         live'[t] = live[t], kept'[t] = kept[t],
         log'[t] = log[t], state'[t] = state[t],
         sessionExists' = sessionExists,
         pc'[t] \in {"idle", "freeze", "resolve", "committed", "opening"} =>
            pc[t] \in {"idle", "freeze", "resolve", "committed", "opening"},
         pc'[t] \in {"committed", "opening"} => pc[t] \in {"committed", "opening"},
         pc'[t] \in {"created", "executing", "streaming", "appending", "yielding"} =>
            pc[t] \in {"created", "executing", "streaming", "appending", "yielding"},
         pc'[t] \in {"created", "yielding"} => pc[t] \in {"created", "yielding"},
         pc[t] = "ended" => pc'[t] = "ended"
  PROVE  Durable(t)'
  <1>0. SUFFICES ASSUME sessionExists PROVE Durable(t)'
    BY DEF Durable
  <1>1. Waiting(t)' \in BOOLEAN /\ Unannounced(t)' \in BOOLEAN
    BY DEF Waiting, Unannounced
  <1>2. (Waiting(t)' => Waiting(t)) /\ (Unannounced(t)' => Unannounced(t))
    BY DEF Waiting, Unannounced, IsSettled
  <1>3. Due(t) + Owed(Waiting(t)', Unannounced(t)') <= Size(log[t])
    BY <1>0, <1>1, <1>2, OwesLess, BehindTypes DEF Durable, Behind
  <1>4. Behind(t)'
    BY <1>3 DEF Behind, Due
  <1> QED
    BY <1>0, <1>4 DEF Durable, Opened, IsSettled, IsRunning

(* An event is appended to the log of the running turn.                     *)
LEMMA RunLogs ==
  ASSUME TypeOK, NEW t \in Turn, Durable(t), NEW e \in {"turn.created", "event"},
         AppendToEvents(t, e), live' = live,
         \/ /\ pc[t] = "opening" /\ e = "turn.created" /\ pc'[t] = "created"
            /\ kept'[t] = kept[t]
         \/ /\ pc[t] \in {"executing", "appending"}
            /\ \/ pc'[t] = "yielding" /\ kept'[t] = kept[t]
               \/ pc'[t] = "executing" /\ kept'[t] = kept[t] + 1
  PROVE  Durable(t)'
  <1>0. SUFFICES ASSUME sessionExists PROVE Durable(t)'
    BY DEF Durable, AppendToEvents, LogEvent
  <1>1. /\ IsRunning(t) /\ state' = state /\ sessionExists' = sessionExists
        /\ log'[t] = Append(log[t], e) /\ e \in Event
    BY DEF AppendToEvents, LogEvent, TypeOK, StoreTypeOK, Event
  <1>2. Waiting(t)' \in BOOLEAN /\ Unannounced(t)' \in BOOLEAN
    BY DEF Waiting, Unannounced
  <1>3. Unannounced(t)' => Unannounced(t)
    BY <1>1 DEF Unannounced, IsSettled, IsRunning, Settled, Reason
  <1>4. Due(t)' + Owed(Waiting(t)', Unannounced(t)') <= Size(log[t]) + 1
    <2>1. CASE kept'[t] = kept[t]
      <3>1. Due(t) + Owed(Waiting(t)', Unannounced(t)') <= Size(log[t]) + 1
        BY <1>0, <1>2, <1>3, OwesOneMore, BehindTypes DEF Durable, Behind
      <3> QED
        BY <2>1, <3>1 DEF Due
    <2>2. CASE kept'[t] = kept[t] + 1 /\ pc'[t] = "executing"
      <3>1. Due(t) + Owed(Waiting(t)', Unannounced(t)') <= Size(log[t])
        BY <1>0, <1>2, <1>3, <2>2, OwesLess, BehindTypes DEF Durable, Behind, Waiting
      <3>2. Due(t)' = Due(t) + 1
        BY <2>2, BehindTypes DEF Due
      <3>3. Owed(Waiting(t)', Unannounced(t)') \in Nat
        BY <1>2 DEF Owed
      <3> QED
        BY <3>1, <3>2, <3>3, BehindTypes
    <2> QED
      BY <2>1, <2>2
  <1>5. Size(log'[t]) = Size(log[t]) + 1
    BY <1>1, SizeGrows, BehindTypes
  <1>6. Behind(t)'
    BY <1>4, <1>5 DEF Behind
  <1>7. Opened(t)'
    <2>1. CASE pc[t] = "opening"
      BY <1>0, <1>1, <2>1, LogFirst, BehindTypes DEF Durable, Opened
    <2>2. CASE pc[t] \in {"executing", "appending"}
      BY <1>0, <1>1, <2>2, LogFirst, BehindTypes
      DEF Durable, Opened, IsSettled, IsRunning, Settled, Reason
    <2> QED
      BY <2>1, <2>2
  <1> QED
    BY <1>0, <1>6, <1>7 DEF Durable

(* The row of t rests or is settled while its run stays or goes from "freeze"  *)
(* or "settling" on.                                                        *)
LEMMA RunOfSettledRow ==
  ASSUME TypeOK, NEW t \in Turn, Durable(t), RowResting(t), live'[t] = live[t],
         kept'[t] = kept[t], sessionExists' => sessionExists,
         \/ pc'[t] = pc[t]
         \/ pc[t] = "freeze" /\ pc'[t] = "resolve"
         \/ pc[t] = "settling" /\ pc'[t] \in {"announcing", "suspended"}
         \/ pc[t] # "ended" /\ pc'[t] = "lost"
  PROVE  Durable(t)'
  <1>0. SUFFICES ASSUME sessionExists', sessionExists PROVE Durable(t)'
    BY DEF Durable
  <1>1. CASE state'[t] = state[t] /\ log'[t] = log[t]
    BY <1>0, <1>1, RunMovesOn
  <1>2. CASE /\ IsRunning(t) /\ state'[t] \in Settled
             /\ log'[t] = Append(log[t], "turn.done")
    <2>1. Waiting(t)' \in BOOLEAN /\ Unannounced(t)' \in BOOLEAN
      BY DEF Waiting, Unannounced
    <2>2. Waiting(t)' => Waiting(t)
      BY DEF Waiting
    <2>3. Due(t) + Owed(Waiting(t)', Unannounced(t)') <= Size(log[t]) + 1
      BY <1>0, <2>1, <2>2, OwesOneMore, BehindTypes DEF Durable, Behind
    <2>4. Size(log'[t]) = Size(log[t]) + 1
      BY <1>2, SizeGrows, BehindTypes DEF Event
    <2>5. Behind(t)'
      BY <2>3, <2>4 DEF Behind, Due
    <2>6. IsSettled(t)' /\ ~IsRunning(t)'
      BY <1>2 DEF IsSettled, IsRunning, Settled, Reason
    <2> QED
      BY <1>0, <2>5, <2>6 DEF Durable, Opened
  <1> QED
    BY <1>0, <1>1, <1>2 DEF RowResting

(* An event or the verdict reaches the subscribers.                         *)
LEMMA RunPublishes ==
  ASSUME TypeOK, NEW t \in Turn, Durable(t), UNCHANGED storeVars,
         NEW e \in {"turn.created", "event"} \cup Settled,
         live'[t] = Append(live[t], e), kept'[t] = kept[t],
         \/ Waiting(t) /\ pc'[t] = "executing"
         \/ pc[t] \in {"announcing", "frozen"} /\ pc'[t] = "ended"
            /\ (sessionExists => IsSettled(t))
  PROVE  Durable(t)'
  <1>0. SUFFICES ASSUME sessionExists PROVE Durable(t)'
    BY DEF Durable, storeVars
  <1>1. Waiting(t)' \in BOOLEAN /\ Unannounced(t)' \in BOOLEAN
    BY DEF Waiting, Unannounced
  <1>2. state' = state /\ log' = log /\ sessionExists' = sessionExists
    BY DEF storeVars
  <1>3. /\ Waiting(t)' => Waiting(t)
        /\ Unannounced(t)' => Unannounced(t)
        /\ \/ Waiting(t) /\ ~Waiting(t)'
           \/ Unannounced(t) /\ ~Unannounced(t)'
    BY <1>0, <1>2 DEF Waiting, Unannounced, IsSettled
  <1>4. Due(t) + 1 + Owed(Waiting(t)', Unannounced(t)') <= Size(log[t])
    BY <1>0, <1>1, <1>3, PaysOne, BehindTypes DEF Durable, Behind
  <1>5. Due(t)' = Due(t) + 1
    <2>1. e # "delta" /\ e \in {"turn.created", "event", "delta"} \cup Settled
      BY DEF Settled, Reason
    <2>2. Shown(live'[t]) = Shown(live[t]) + 1
      BY <2>1, ShownGrows, BehindTypes
    <2> QED
      BY <2>2, BehindTypes DEF Due
  <1>6. Behind(t)'
    BY <1>2, <1>4, <1>5 DEF Behind
  <1>7. Opened(t)
    BY <1>0 DEF Durable, Waiting, Opened
  <1> QED
    BY <1>0, <1>2, <1>6, <1>7 DEF Durable, Opened, IsSettled

(* Model output reaches them.                                               *)
LEMMA RunStreams ==
  ASSUME TypeOK, NEW t \in Turn, Durable(t), UNCHANGED storeVars,
         live'[t] = Append(live[t], "delta"), kept'[t] = kept[t],
         pc[t] = "streaming", pc'[t] = "executing"
  PROVE  Durable(t)'
  <1>0. SUFFICES ASSUME sessionExists PROVE Durable(t)'
    BY DEF Durable, storeVars
  <1>1. state' = state /\ log' = log /\ sessionExists' = sessionExists
    BY DEF storeVars
  <1>2. Waiting(t)' = Waiting(t) /\ Unannounced(t)' = Unannounced(t)
    BY <1>1 DEF Waiting, Unannounced, IsSettled
  <1>3. Shown(live'[t]) = Shown(live[t])
    BY ShownGrows, BehindTypes
  <1>4. Behind(t)'
    BY <1>0, <1>1, <1>2, <1>3 DEF Durable, Behind, Due
  <1>5. Opened(t)
    BY <1>0 DEF Durable
  <1> QED
    BY <1>0, <1>1, <1>4, <1>5 DEF Durable, Opened, IsSettled

LEMMA DurableRun ==
  ASSUME TypeInv, NEW t \in Turn, Tells(t), Durable(t), RunStep(t)
  PROVE  Durable(t)'
  <1> USE DEF TypeInv, Goto
  <1>t. /\ TypeOK
        /\ \A l : Goto(t, l) => pc'[t] = l
    BY DEF TypeOK, RunTypeOK
  <1>1. CASE FreezeParent(t)
    <2>1. parent[t] \in Turn
      BY <1>1 DEF FreezeParent, Placed, RequestPlaced
    <2>2. RowResting(t)
      BY <1>1, <1>t, <2>1, FreezeRests DEF FreezeParent, Reason, TypeOK
    <2>3. live' = live /\ kept' = kept /\ pc[t] = "freeze" /\ pc'[t] = "resolve"
      BY <1>1, <1>t DEF FreezeParent
    <2>4. sessionExists' => sessionExists
      BY <1>1 DEF FreezeParent, FreezeAndGetTurn, Settle, storeVars
    <2> QED
      BY <1>t, <2>2, <2>3, <2>4, RunOfSettledRow
  <1>2. CASE Commit(t)
    <2>1. /\ sessionExists /\ pc[t] = "resolve" /\ pc'[t] = "committed"
          /\ live' = live /\ kept' = kept /\ log'[t] = << >> /\ state'[t] = "running"
      BY <1>2, <1>t DEF Commit, CreateTurn, InsertRow, TypeOK, StoreTypeOK
    <2>2. live'[t] = << >> /\ kept'[t] = 0
      BY <2>1 DEF Durable
    <2>3. ~Waiting(t)' /\ ~Unannounced(t)'
      BY <2>1 DEF Waiting, Unannounced, IsSettled, Settled, Reason
    <2>4. Size(<< >>) = 0 /\ Shown(<< >>) = 0
      BY NothingShown DEF Size
    <2>5. Behind(t)'
      BY <2>1, <2>2, <2>3, <2>4 DEF Behind, Due, Owed
    <2> QED
      BY <2>1, <2>2, <2>5 DEF Durable
  <1>3. CASE AppendCreated(t)
    <2>1. CASE AppendToEvents(t, "turn.created") /\ Goto(t, "created")
      BY <1>3, <1>t, <2>1, RunLogs DEF AppendCreated
    <2>2. CASE (UNCHANGED storeVars) /\ Goto(t, "finalize")
      BY <1>3, <1>t, <2>2, RunMovesOn DEF AppendCreated, storeVars
    <2> QED
      BY <1>3, <2>1, <2>2 DEF AppendCreated
  <1>4. CASE PersistEvent(t)
    <2>1. /\ pc[t] \in {"executing", "appending"}
          /\ \/ pc'[t] = "yielding" /\ kept'[t] = kept[t]
             \/ pc'[t] = "executing" /\ kept'[t] = kept[t] + 1
          /\ AppendToEvents(t, "event") /\ live' = live
      BY <1>4, <1>t DEF PersistEvent, TypeOK, RunTypeOK
    <2> QED
      BY <1>t, <2>1, RunLogs
  <1>5. CASE PersistSnapshot(t)
    BY <1>5, <1>t, RunMovesOn DEF PersistSnapshot, WriteSnapshot, BumpSnapshot
  <1>6. CASE SettleTurn(t)
    <2>1. RowResting(t)
      BY <1>6, <1>t DEF SettleTurn, UpdateTurnState, Settle, RowResting, TypeOK,
                        StoreTypeOK, storeVars, Placed, RequestPlaced
    <2>2. live' = live /\ kept' = kept /\ pc[t] = "settling" /\ pc'[t] \in {"announcing", "suspended"}
      BY <1>6, <1>t DEF SettleTurn
    <2>3. sessionExists' => sessionExists
      BY <1>6 DEF SettleTurn, UpdateTurnState, Settle, storeVars
    <2> QED
      BY <1>t, <2>1, <2>2, <2>3, RunOfSettledRow
  <1>7. CASE Publish(t)
    <2>1. /\ live'[t] = Append(live[t], Handed(t)) /\ kept'[t] = kept[t]
          /\ pc[t] \in {"created", "streaming", "yielding"} /\ pc'[t] = "executing"
          /\ UNCHANGED storeVars
      BY <1>7, <1>t DEF Publish, TypeOK, RunTypeOK
    <2>2. CASE pc[t] = "streaming"
      <3>1. Handed(t) = "delta"
        BY <2>1, <2>2, HandedIs
      <3> QED
        BY <1>t, <2>1, <2>2, <3>1, RunStreams
    <2>3. CASE Waiting(t)
      <3>1. Handed(t) \in {"turn.created", "event"}
        BY <2>1, <2>3, HandedIs DEF Waiting
      <3> QED
        BY <1>t, <2>1, <2>3, <3>1, RunPublishes
    <2> QED
      BY <2>1, <2>2, <2>3 DEF Waiting
  <1>8. CASE Announce(t)
    <2>1. verdict[t] \in Settled /\ (sessionExists => IsSettled(t))
      BY <1>8 DEF Announce, Tells, Placed, RequestPlaced, IsSettled
    <2>2. /\ live'[t] = Append(live[t], verdict[t]) /\ kept'[t] = kept[t]
          /\ pc[t] \in {"announcing", "frozen"} /\ pc'[t] = "ended"
          /\ UNCHANGED storeVars
      BY <1>8, <1>t DEF Announce, TypeOK, RunTypeOK
    <2> QED
      BY <1>t, <2>1, <2>2, RunPublishes
  <1>9. CASE Reject(t) \/ Track(t) \/ StreamOutput(t) \/ FenceRefuses(t)
             \/ ExecutionEnds(t) \/ Decide(t)
    BY <1>9, <1>t, RunMovesOn DEF Reject, Track, StreamOutput, FenceRefuses,
                                  ExecutionEnds, Decide, storeVars
  <1>10. CASE StoreFault(t) \/ StoreRefuses(t)
    <2>1. /\ pc'[t] \in {"failed", "finalize", "ended"} /\ pc[t] # "ended"
          /\ UNCHANGED <<storeVars, live, kept>>
      BY <1>10, <1>t DEF StoreFault, StoreRefuses, Throw, InRequest
    <2> QED
      BY <1>t, <2>1, RunMovesOn DEF storeVars
  <1>11. CASE PutFault(t)
    BY <1>11, <1>t, RunMovesOn DEF PutFault, storeVars
  <1>12. CASE TimeLimit(t)
    BY <1>12, <1>t, RunMovesOn DEF TimeLimit, storeVars
  <1> QED
    BY <1>1, <1>2, <1>3, <1>4, <1>5, <1>6, <1>7, <1>8, <1>9, <1>10, <1>11, <1>12
    DEF RunStep

LEMMA DurableStep ==
  ASSUME TypeInv, [Next]_vars, NEW u \in Turn, Tells(u), Durable(u)
  PROVE  Durable(u)'
  <1>0. sessionExists' => sessionExists
    BY ServerKeepsStore, RowsStay DEF TypeInv, TypeOK
  <1>1. CASE Resting(u) /\ RowResting(u)
    BY <1>0, <1>1, RunOfSettledRow DEF Resting, TypeInv
  <1>2. ASSUME NEW x \in Executor, NEW p \in Turn \cup {None}, Arrive(u, x, p)
        PROVE  Durable(u)'
    <2>1. /\ pc[u] = "idle" /\ pc'[u] \in {"resolve", "freeze"}
          /\ UNCHANGED <<storeVars, live, kept>>
      BY <1>2 DEF Arrive, Goto, TypeInv, TypeOK, RunTypeOK
    <2> QED
      BY <2>1, RunMovesOn DEF storeVars, TypeInv
  <1> QED
    BY <1>1, <1>2, RestOrRun, DurableRun

(* Whatever a subscriber received beside model output, the durable log      *)
(* holds: a client that reconnects and reads the log misses only deltas.    *)
THEOREM PublishedIsDurableHolds == Spec => []PublishedIsDurable
  <1> DEFINE Inv == \A t \in Turn : Tells(t) /\ Durable(t)
  <1>1. Init => Inv
    <2>1. Len(<< >>) = 0 /\ Size(<< >>) = 0 /\ Shown(<< >>) = 0
      BY NothingShown DEF Size
    <2>2. ASSUME Init, NEW t \in Turn
          PROVE  Tells(t) /\ Durable(t)
      <3>1. /\ live[t] = << >> /\ log[t] = << >> /\ pc[t] = "idle" /\ state[t] = "absent"
            /\ kept[t] = 0
        BY <2>2 DEF Init, RunInit, StoreInit
      <3>2. ~Waiting(t) /\ ~Unannounced(t)
        BY <3>1 DEF Waiting, Unannounced, IsSettled, Settled, Reason
      <3>3. Behind(t)
        BY <2>1, <3>1, <3>2 DEF Behind, Due, Owed
      <3> QED
        BY <2>1, <3>1, <3>3 DEF Tells, NoEnd, Durable
    <2> QED
      BY <2>2
  <1>2. TypeInv /\ Inv /\ [Next]_vars => Inv'
    BY TellsStep, DurableStep
  <1>3. TypeInv /\ Inv => PublishedIsDurable
    <2>1. ASSUME TypeInv, Inv, sessionExists, NEW t \in Turn
          PROVE  Cardinality(Durably(live[t])) + kept[t] <= Len(log[t])
      <3>1. /\ Due(t) \in Nat /\ Size(log[t]) \in Nat
            /\ Owed(Waiting(t), Unannounced(t)) \in Nat
        BY <2>1, BehindTypes DEF TypeInv, Owed
      <3>2. Due(t) <= Size(log[t])
        BY <2>1, <3>1 DEF Durable, Behind
      <3> QED
        BY <3>2 DEF Size, Due, Shown
    <2> QED
      BY <2>1 DEF PublishedIsDurable, Durable, Opened
  <1> HIDE DEF Inv
  <1> QED
    BY <1>1, <1>2, <1>3, TypeInvHolds, PTL DEF Spec

-----------------------------------------------------------------------------
(* Why a turn was cancelled.  The cause of a reason, once there, stays.     *)
Cause(t, r) ==
    /\ r = "abandoned" =>
          host[t] \in Executor /\ phase[host[t]] \notin {"serving", "closing"}
    /\ r = "cancelled-for-next-turn" => \E u \in Turn : parent[u] = t
    /\ r = "client-cancelled" => ~reading[t] \/ \E c \in Canceller : cturn[c] = t

Rooted(t) ==
    /\ pc[t] = "idle" => /\ parent[t] = None /\ state[t] = "absent"
                         /\ abortReason[t] = "none" /\ verdict[t] = "absent"
    /\ pc[t] \in {"idle", "freeze", "resolve"} => ~Known(t)
    /\ Known(t) => owner[t] = host[t]

Caused(t) ==
    /\ Rooted(t)
    /\ (pc[t] = "finalize" /\ verdict[t] = "absent") => ~reading[t]
    /\ \A r \in Reason : r \in {state[t], abortReason[t], verdict[t]} => Cause(t, r)

(* A run keeps its process and its parent ...                               *)
LEMMA RequestStays ==
  ASSUME TypeInv, [Next]_vars, NEW t \in Turn, pc[t] # "idle"
  PROVE  host'[t] = host[t] /\ parent'[t] = parent[t]
  <1>1. CASE RunStep(t)
    BY <1>1 DEF RunStep, FreezeParent, Reject, Commit, Track, AppendCreated, Publish,
           StreamOutput, PersistSnapshot, PersistEvent, FenceRefuses, ExecutionEnds, Decide,
           SettleTurn, Announce, StoreFault, StoreRefuses, PutFault, Throw, TimeLimit
  <1>2. CASE \E x \in Executor, p \in Turn \cup {None} : Arrive(t, x, p)
    BY <1>2 DEF Arrive
  <1> QED
    BY <1>1, <1>2, RestOrRun DEF Resting

(* ... a cancel request its turn, a consumer that left does not return, a   *)
(* process that shut down stays down.                                       *)
LEMMA CausesStay ==
  ASSUME TypeInv, [Next]_vars, ~Restarts
  PROVE  /\ \A t \in Turn : ~reading[t] => ~reading'[t]
         /\ \A c \in Canceller : cturn[c] # None => cturn'[c] = cturn[c]
         /\ \A x \in Executor : phase[x] \notin {"serving", "closing"} =>
                                   phase'[x] \notin {"serving", "closing"}
  <1> USE DEF TypeInv, TypeOK, RunTypeOK
  <1>1. ASSUME NEW c \in Canceller, cturn[c] # None
        PROVE  cturn'[c] = cturn[c]
    <2>1. CASE CancelStep(c)
      BY <2>1 DEF CancelStep, CancelLook, CancelLocally, CancelAskPeer, PeerCancels,
             CancelConfirmed, CancelUnconfirmed, CancelFreezes, CancelFault
    <2>2. CASE \E x \in Executor : CancelRequest(c, x)
      BY <1>1, <2>2 DEF CancelRequest, Placed, CancelPlaced
    <2> QED
      BY <2>1, <2>2, RestOrCancel DEF CancelResting
  <1>2. /\ \A t \in Turn : ~reading[t] => ~reading'[t]
        /\ \A x \in Executor : phase[x] \notin {"serving", "closing"} =>
                                  phase'[x] \notin {"serving", "closing"}
    <2>1. ASSUME NEW t \in Turn, RunStep(t)
          PROVE  phase' = phase /\ (reading' = reading \/ reading' = [reading EXCEPT ![t] = FALSE])
      BY <2>1 DEF RunStep, FreezeParent, Reject, Commit, Track, AppendCreated, Publish,
             StreamOutput, PersistSnapshot, PersistEvent, FenceRefuses, ExecutionEnds, Decide,
             SettleTurn, Announce, StoreFault, StoreRefuses, PutFault, Throw, TimeLimit
    <2>2. ASSUME NEW c \in Canceller, CancelStep(c) PROVE UNCHANGED <<phase, reading>>
      BY <2>2 DEF CancelStep, CancelLook, CancelLocally, CancelAskPeer, PeerCancels,
             CancelConfirmed, CancelUnconfirmed, CancelFreezes, CancelFault, runButAbort,
             turnVars, runVars
    <2>3. ASSUME NEW x \in Executor,
                 CloseServer(x) \/ BeginDrain(x) \/ Drained(x) \/ Exit(x)
                 \/ Crash(x) \/ Restart(x)
          PROVE  /\ reading' = reading
                 /\ \A y \in Executor : phase[y] \notin {"serving", "closing"} =>
                                           phase'[y] \notin {"serving", "closing"}
      BY <2>3 DEF CloseServer, BeginDrain, Drained, Exit, Crash, Restart, Kill, runButPhase
    <2>4. ASSUME NEW t \in Turn, NEW x \in Executor, NEW p \in Turn \cup {None},
                 Arrive(t, x, p)
          PROVE  UNCHANGED <<phase, reading>>
      BY <2>4 DEF Arrive
    <2>5. ASSUME NEW c \in Canceller, NEW x \in Executor, CancelRequest(c, x)
          PROVE  UNCHANGED <<phase, reading>>
      BY <2>5 DEF CancelRequest, turnVars, runVars
    <2>6. ASSUME NEW t \in Turn, Disconnect(t) PROVE UNCHANGED <<phase, reading>>
      BY <2>6 DEF Disconnect, turnVars, runVars
    <2>7. Delete \/ (UNCHANGED vars) => UNCHANGED <<phase, reading>>
      BY DEF Delete, vars, turnVars, runVars
    <2> QED
      BY <2>1, <2>2, <2>3, <2>4, <2>5, <2>6, <2>7 DEF Next
  <1> QED
    BY <1>1, <1>2

LEMMA CauseStays ==
  ASSUME TypeInv, [Next]_vars, ~Restarts, \A u \in Turn : Caused(u),
         NEW t \in Turn, pc[t] # "idle", NEW r \in Reason, Cause(t, r)
  PROVE  Cause(t, r)'
  <1>0. t # None
    BY NoneAssumption
  <1>1. r = "abandoned" => host'[t] \in Executor /\ phase'[host'[t]] \notin {"serving", "closing"}
    BY RequestStays, CausesStay DEF Cause
  <1>2. ASSUME r = "cancelled-for-next-turn" PROVE \E u \in Turn : parent'[u] = t
    <2>1. PICK u \in Turn : parent[u] = t
      BY <1>2 DEF Cause
    <2>2. pc[u] # "idle"
      BY <1>0, <2>1 DEF Caused, Rooted
    <2> QED
      BY <2>1, <2>2, RequestStays
  <1>3. r = "client-cancelled" => ~reading'[t] \/ \E c \in Canceller : cturn'[c] = t
    BY <1>0, CausesStay DEF Cause
  <1> QED
    BY <1>1, <1>2, <1>3 DEF Cause

Reasons(t) == {state[t], abortReason[t], verdict[t]}

(* Where a reason comes from: one the turn had, or from its cause.          *)
LEMMA RunHasCause ==
  ASSUME TypeInv, NEW t \in Turn, RunStep(t), Caused(t), Aborted(t),
         NEW r \in Reason, r \in Reasons(t)'
  PROVE  r \in Reasons(t) \/ Cause(t, r)'
  <1> USE DEF TypeInv, TypeOK, RunTypeOK, Goto, Reasons
  <1>0. r \notin {"absent", "running", "none", "done", "error"}
    BY DEF Reason
  <1>1. CASE FreezeParent(t)
    <2>1. parent[t] \in Turn /\ UNCHANGED <<abortReason, verdict, parent>>
      BY <1>1 DEF FreezeParent, Placed, RequestPlaced
    <2>2. state'[t] = state[t] \/ (state'[t] = "cancelled-for-next-turn" /\ parent[t] = t)
      BY <1>1, <2>1 DEF FreezeParent, FreezeAndGetTurn, Settle, StoreTypeOK, storeVars
    <2> QED
      BY <2>1, <2>2 DEF Cause
  <1>2. CASE Commit(t)
    BY <1>0, <1>2 DEF Commit, CreateTurn, InsertRow, StoreTypeOK
  <1>3. CASE Track(t)
    <2>1. host[t] \in Executor /\ UNCHANGED <<state, verdict, host, phase>>
      BY <1>3 DEF Track, Placed, RequestPlaced, InRequest, storeVars
    <2>2. \/ abortReason'[t] = abortReason[t]
          \/ abortReason'[t] = "abandoned" /\ ShutDown(host[t])
      BY <1>3 DEF Track, Abort
    <2> QED
      BY <2>1, <2>2 DEF Cause, ShutDown
  <1>4. CASE TimeLimit(t)
    <2>1. abortReason'[t] \in {abortReason[t], "server-execution-timeout"}
      BY <1>4 DEF TimeLimit, Abort
    <2> QED
      BY <1>4, <2>1 DEF TimeLimit, Cause, storeVars
  <1>5. CASE Decide(t)
    <2>1. \/ verdict'[t] \in {abortReason[t], verdict[t]}
          \/ verdict'[t] = "client-cancelled" /\ ~reading'[t]
      BY <1>5 DEF Decide, Caused
    <2> QED
      BY <1>5, <2>1 DEF Decide, Cause, storeVars
  <1>6. CASE SettleTurn(t)
    <2>1. state'[t] \in {state[t], verdict[t]} /\ verdict'[t] \in {state[t], verdict[t]}
      BY <1>6 DEF SettleTurn, UpdateTurnState, Settle, StoreTypeOK, storeVars
    <2> QED
      BY <1>6, <2>1 DEF SettleTurn
  <1>7. CASE FenceRefuses(t)
    BY <1>7 DEF FenceRefuses, storeVars
  <1>8. CASE AppendCreated(t) \/ PersistEvent(t) \/ PersistSnapshot(t)
    <2>1. state' = state /\ abortReason' = abortReason
      BY <1>8 DEF AppendCreated, PersistEvent, PersistSnapshot, AppendToEvents, LogEvent,
                  WriteSnapshot, BumpSnapshot, storeVars
    <2>2. verdict'[t] \in {verdict[t], "error"}
      BY <1>8 DEF AppendCreated, PersistEvent, PersistSnapshot
    <2> QED
      BY <1>0, <2>1, <2>2
  <1>9. CASE Reject(t) \/ Publish(t) \/ StreamOutput(t) \/ ExecutionEnds(t) \/ Announce(t)
             \/ StoreFault(t) \/ StoreRefuses(t) \/ PutFault(t)
    <2>1. state' = state /\ abortReason' = abortReason
      BY <1>9 DEF Reject, Publish, StreamOutput, ExecutionEnds, Announce, StoreFault, StoreRefuses,
                  PutFault, Throw, storeVars
    <2>2. verdict'[t] \in {verdict[t], "done", "error", "absent"}
      BY <1>9 DEF Reject, Publish, StreamOutput, ExecutionEnds, Announce, StoreFault, StoreRefuses,
                  PutFault, Throw
    <2> QED
      BY <1>0, <2>1, <2>2
  <1> QED
    BY <1>1, <1>2, <1>3, <1>4, <1>5, <1>6, <1>7, <1>8, <1>9 DEF RunStep

LEMMA OthersHaveCause ==
  ASSUME TypeInv, [Next]_vars, NEW t \in Turn, ~RunStep(t), Caused(t), Aborted(t),
         NEW r \in Reason, r \in Reasons(t)'
  PROVE  r \in Reasons(t) \/ Cause(t, r)'
  <1> USE DEF TypeInv, TypeOK, RunTypeOK, Reasons
  <1>0. r \notin {"absent", "running", "none", "done", "error"}
    BY DEF Reason
  <1>1. ASSUME NEW u \in Turn, RunStep(u) PROVE r \in Reasons(t) \/ Cause(t, r)'
    <2>1. u # t
      BY <1>1
    <2>2. CASE FreezeParent(u)
      <3>1. parent[u] \in Turn /\ UNCHANGED <<abortReason, verdict, parent>>
        BY <2>2 DEF FreezeParent, Placed, RequestPlaced
      <3>2. state'[t] = state[t] \/ (state'[t] = "cancelled-for-next-turn" /\ parent[u] = t)
        BY <2>2, <3>1 DEF FreezeParent, FreezeAndGetTurn, Settle, StoreTypeOK, storeVars
      <3> QED
        BY <3>1, <3>2 DEF Cause
    <2>3. CASE ~FreezeParent(u)
      <3>1. state'[t] = state[t]
        BY <1>1, <2>1, <2>3 DEF RunStep, Reject, Commit, CreateTurn, InsertRow, Track,
             AppendCreated, AppendToEvents, LogEvent, Publish, StreamOutput, PersistSnapshot,
             WriteSnapshot, BumpSnapshot, PersistEvent, FenceRefuses, ExecutionEnds,
             Decide, SettleTurn, UpdateTurnState, Settle, Announce, StoreFault,
             StoreRefuses, PutFault, Throw, TimeLimit, StoreTypeOK, storeVars
      <3>2. abortReason'[t] = abortReason[t]
        BY <1>1, <2>1, <2>3 DEF RunStep, Reject, Commit, Track, AppendCreated, Publish,
             StreamOutput, PersistSnapshot, PersistEvent, FenceRefuses, ExecutionEnds, Decide, SettleTurn,
             Announce, StoreFault, StoreRefuses, PutFault, Throw, TimeLimit, Abort
      <3>3. verdict'[t] = verdict[t]
        BY <2>1, <1>1, OtherRunsRest DEF Resting
      <3> QED
        BY <3>1, <3>2, <3>3
    <2> QED
      BY <2>2, <2>3
  <1>2. ASSUME NEW c \in Canceller, CancelLocally(c) \/ PeerCancels(c)
        PROVE  r \in Reasons(t) \/ Cause(t, r)'
    <2>1. UNCHANGED <<state, verdict, cturn>>
      BY <1>2 DEF CancelLocally, PeerCancels, runButAbort, storeVars
    <2>2. abortReason'[t] = abortReason[t] \/ (abortReason'[t] = "client-cancelled" /\ cturn[c] = t)
      BY <1>2 DEF CancelLocally, PeerCancels, Abort
    <2> QED
      BY <2>1, <2>2 DEF Cause
  <1>3. ASSUME NEW c \in Canceller, CancelFreezes(c)
        PROVE  r \in Reasons(t) \/ Cause(t, r)'
    <2>1. cturn[c] \in Turn /\ UNCHANGED <<abortReason, verdict, cturn>>
      BY <1>3 DEF CancelFreezes, Placed, CancelPlaced, runVars
    <2>2. state'[t] = state[t] \/ (state'[t] = "client-cancelled" /\ cturn[c] = t)
      BY <1>3, <2>1 DEF CancelFreezes, FreezeAndGetTurn, Settle, StoreTypeOK, storeVars
    <2> QED
      BY <2>1, <2>2 DEF Cause
  <1>4. ASSUME NEW x \in Executor, BeginDrain(x)
        PROVE  r \in Reasons(t) \/ Cause(t, r)'
    <2>1. UNCHANGED <<state, verdict, host>> /\ phase'[x] = "draining"
      BY <1>4 DEF BeginDrain, runButPhase, storeVars
    <2>2. abortReason'[t] = abortReason[t] \/ (abortReason'[t] = "abandoned" /\ host[t] = x)
      BY <1>4 DEF BeginDrain, Abort, RunsHere
    <2> QED
      BY <2>1, <2>2 DEF Cause
  <1>5. CASE UNCHANGED <<state, abortReason, verdict>>
    BY <1>5
  <1>6. CASE Delete
    BY <1>0, <1>6 DEF Delete, DeleteSession, runVars
  <1>7. ASSUME NEW c \in Canceller, CancelStep(c)
        PROVE  r \in Reasons(t) \/ Cause(t, r)'
    <2>1. CASE CancelLook(c) \/ CancelAskPeer(c) \/ CancelConfirmed(c)
               \/ CancelUnconfirmed(c) \/ CancelFault(c)
      BY <1>5, <2>1 DEF CancelLook, CancelAskPeer, CancelConfirmed, CancelUnconfirmed,
                        CancelFault, turnVars, runVars, storeVars
    <2> QED
      BY <1>2, <1>3, <1>7, <2>1 DEF CancelStep
  <1>8. ASSUME NEW x \in Executor,
               CloseServer(x) \/ Drained(x) \/ Exit(x) \/ Crash(x) \/ Restart(x)
        PROVE  UNCHANGED <<state, abortReason, verdict>>
    BY <1>8 DEF CloseServer, Drained, Exit, Crash, Restart, Kill, runButPhase, storeVars
  <1>9. ASSUME NEW u \in Turn, NEW x \in Executor, NEW p \in Turn \cup {None},
               Arrive(u, x, p)
        PROVE  UNCHANGED <<state, abortReason, verdict>>
    BY <1>9 DEF Arrive, storeVars
  <1>10. ASSUME NEW c \in Canceller, NEW x \in Executor, CancelRequest(c, x)
         PROVE  UNCHANGED <<state, abortReason, verdict>>
    BY <1>10 DEF CancelRequest, turnVars, runVars, storeVars
  <1>11. ASSUME NEW u \in Turn, Disconnect(u)
         PROVE  UNCHANGED <<state, abortReason, verdict>>
    BY <1>11 DEF Disconnect, turnVars, runVars, storeVars
  <1>12. (UNCHANGED vars) => UNCHANGED <<state, abortReason, verdict>>
    BY DEF vars, turnVars, runVars, storeVars
  <1> QED
    BY <1>1, <1>4, <1>5, <1>6, <1>7, <1>8, <1>9, <1>10, <1>11, <1>12 DEF Next

(* Only its own commit brings a turn to the store, with its process.        *)
LEMMA OnlyCommitBrings ==
  ASSUME TypeInv, [Next]_vars, NEW u \in Turn, ~Commit(u)
  PROVE  (~Known(u) => ~Known(u)') /\ owner'[u] = owner[u]
  <1> USE DEF TypeInv, TypeOK, RunTypeOK, Known
  <1> DEFINE Stays == (state[u] = "absent" => state'[u] = "absent") /\ owner'[u] = owner[u]
  <1>0. (UNCHANGED storeVars) => Stays
    BY DEF storeVars
  <1>1. ASSUME NEW t \in Turn, NEW r \in Settled, FreezeAndGetTurn(t, r) PROVE Stays
    BY <1>0, <1>1 DEF FreezeAndGetTurn, Settle, StoreTypeOK
  <1>2. ASSUME NEW t \in Turn, RunStep(t) PROVE Stays
    <2>1. CASE FreezeParent(t)
      BY <1>1, <2>1 DEF FreezeParent, Placed, RequestPlaced, Settled, Reason
    <2>2. CASE Commit(t)
      <3>1. t # u
        BY <2>2
      <3> QED
        BY <2>2, <3>1 DEF Commit, CreateTurn, InsertRow, StoreTypeOK
    <2>3. CASE AppendCreated(t) \/ PersistEvent(t) \/ PersistSnapshot(t)
      BY <1>0, <2>3 DEF AppendCreated, PersistEvent, PersistSnapshot, AppendToEvents,
                        LogEvent, WriteSnapshot, BumpSnapshot
    <2>4. CASE SettleTurn(t)
      BY <1>0, <2>4 DEF SettleTurn, UpdateTurnState, Settle, StoreTypeOK, IsRunning
    <2>5. CASE Reject(t) \/ Track(t) \/ Publish(t) \/ StreamOutput(t) \/ FenceRefuses(t) \/ ExecutionEnds(t)
               \/ Decide(t) \/ Announce(t) \/ StoreFault(t) \/ StoreRefuses(t)
               \/ PutFault(t) \/ TimeLimit(t)
      BY <1>0, <2>5 DEF Reject, Track, Publish, StreamOutput, FenceRefuses, ExecutionEnds, Decide,
                        Announce, StoreFault, StoreRefuses, PutFault, TimeLimit, Throw
    <2> QED
      BY <1>2, <2>1, <2>2, <2>3, <2>4, <2>5 DEF RunStep
  <1>3. ASSUME NEW c \in Canceller, CancelStep(c) PROVE Stays
    <2>1. CASE CancelFreezes(c)
      BY <1>0, <1>1, <2>1 DEF CancelFreezes, Placed, CancelPlaced, Settled, Reason
    <2> QED
      BY <1>0, <1>3, <2>1 DEF CancelStep, CancelLook, CancelLocally, CancelAskPeer,
           PeerCancels, CancelConfirmed, CancelUnconfirmed, CancelFault, turnVars
  <1>4. CASE Delete
    BY <1>4 DEF Delete, DeleteSession
  <1>5. CASE Next
    BY <1>0, <1>2, <1>3, <1>4, <1>5
    DEF Next, Arrive, CancelRequest, Disconnect, CloseServer, BeginDrain, Drained,
        Exit, Crash, Restart, Kill, turnVars
  <1>6. CASE UNCHANGED vars
    BY <1>0, <1>6 DEF vars, turnVars
  <1> QED
    BY <1>5, <1>6

(* Only a run in the registry, or the run itself, is aborted.               *)
LEMMA OnlyRunsAbort ==
  ASSUME TypeInv, [Next]_vars, NEW u \in Turn, ~registered[u], ~RunStep(u)
  PROVE  abortReason'[u] = abortReason[u]
  <1> USE DEF TypeInv, TypeOK, RunTypeOK
  <1>1. ASSUME NEW t \in Turn, RunStep(t) PROVE abortReason'[u] = abortReason[u]
    <2>1. t # u
      BY <1>1
    <2> QED
      BY <1>1, <2>1 DEF RunStep, FreezeParent, Reject, Commit, Track, AppendCreated,
           Publish, StreamOutput, PersistSnapshot, PersistEvent, FenceRefuses, ExecutionEnds, Decide,
           SettleTurn, Announce, StoreFault, StoreRefuses, PutFault, Throw, TimeLimit, Abort
  <1>2. ASSUME NEW c \in Canceller, CancelStep(c) PROVE abortReason'[u] = abortReason[u]
    BY <1>2 DEF CancelStep, CancelLook, CancelLocally, CancelAskPeer, PeerCancels,
         CancelConfirmed, CancelUnconfirmed, CancelFreezes, CancelFault, Abort, RunsHere,
         turnVars, runVars
  <1>3. ASSUME NEW x \in Executor,
               CloseServer(x) \/ BeginDrain(x) \/ Drained(x) \/ Exit(x)
               \/ Crash(x) \/ Restart(x)
        PROVE  abortReason'[u] = abortReason[u]
    BY <1>3 DEF CloseServer, BeginDrain, Drained, Exit, Crash, Restart, Kill, Abort, RunsHere
  <1>4. CASE Next
    BY <1>1, <1>2, <1>3, <1>4 DEF Next, Arrive, CancelRequest, Delete, Disconnect,
                                   turnVars, runVars
  <1>5. CASE UNCHANGED vars
    BY <1>5 DEF vars, turnVars, runVars
  <1> QED
    BY <1>4, <1>5

(* Where the control point of a run comes from.                             *)
LEMMA RunLeaves ==
  ASSUME TypeInv, NEW t \in Turn, RunStep(t)
  PROVE  /\ pc[t] # "idle" /\ pc'[t] # "idle"
         /\ (pc'[t] \in {"freeze", "resolve"} => pc[t] = "freeze") /\ host'[t] = host[t]
         /\ (pc'[t] = "finalize" /\ verdict'[t] = "absent") =>
               \/ ~reading'[t]
               \/ pc[t] = "finalize" /\ verdict[t] = "absent"
         /\ Commit(t) => pc'[t] = "committed" /\ owner'[t] = host[t]
  <1> USE DEF TypeInv, TypeOK, RunTypeOK, Goto
  <1>1. CASE FreezeParent(t)
    BY <1>1 DEF FreezeParent, Commit
  <1>2. CASE Reject(t) \/ Track(t) \/ Publish(t) \/ StreamOutput(t) \/ Announce(t)
    BY <1>2 DEF Reject, Track, Publish, StreamOutput, Announce, Commit
  <1>3. CASE Commit(t)
    BY <1>3 DEF Commit, CreateTurn, InsertRow, StoreTypeOK
  <1>4. CASE AppendCreated(t) \/ PersistSnapshot(t) \/ PersistEvent(t)
    BY <1>4 DEF AppendCreated, PersistSnapshot, PersistEvent, Commit
  <1>5. CASE FenceRefuses(t) \/ ExecutionEnds(t) \/ Decide(t) \/ SettleTurn(t)
    BY <1>5 DEF FenceRefuses, ExecutionEnds, Decide, SettleTurn, Commit
  <1>6. CASE StoreFault(t) \/ StoreRefuses(t)
    <2>1. Throw(t)
      BY <1>6 DEF StoreFault, StoreRefuses
    <2>2. /\ pc[t] # "idle" /\ pc'[t] \in {"failed", "finalize", "ended"} /\ host' = host
          /\ pc'[t] = "finalize" => verdict'[t] = "error"
      BY <2>1 DEF Throw, InRequest
    <2> QED
      BY <2>2 DEF Commit
  <1>7. CASE PutFault(t)
    <2>1. pc[t] # "idle" /\ pc'[t] \in {"finalize", "ended"} /\ host' = host /\ ~reading'[t]
      BY <1>7 DEF PutFault
    <2> QED
      BY <2>1 DEF Commit
  <1>8. CASE TimeLimit(t)
    <2>1. pc[t] # "idle" /\ pc[t] # "resolve" /\ pc[t] # "freeze" /\ UNCHANGED <<pc, host, verdict>>
      BY <1>8 DEF TimeLimit, InStream
    <2> QED
      BY <2>1 DEF Commit
  <1> QED
    BY <1>1, <1>2, <1>3, <1>4, <1>5, <1>6, <1>7, <1>8 DEF RunStep

LEMMA RootedStep ==
  ASSUME TypeInv, [Next]_vars, \A t \in Turn : Rooted(t) /\ Aborted(t)
  PROVE  \A t \in Turn : Rooted(t)'
  <1> TAKE u \in Turn
  <1>a. Rooted(u) /\ Aborted(u)
    OBVIOUS
  <1>1. pc[u] = "idle" => ~registered[u] /\ ~RunStep(u)
    BY RunLeaves DEF Aborted, InStream
  <1>2. pc'[u] = "idle" => /\ parent'[u] = None /\ state'[u] = "absent"
                           /\ abortReason'[u] = "none" /\ verdict'[u] = "absent"
    <2>1. SUFFICES ASSUME pc'[u] = "idle" PROVE pc'[u] = "idle" =>
                          /\ parent'[u] = None /\ state'[u] = "absent"
                          /\ abortReason'[u] = "none" /\ verdict'[u] = "absent"
      OBVIOUS
    <2>2. ~RunStep(u)
      BY <2>1, RunLeaves
    <2>3. ~(\E x \in Executor, p \in Turn \cup {None} : Arrive(u, x, p))
      BY <2>1 DEF Arrive, Goto, TypeInv, TypeOK, RunTypeOK
    <2>4. pc[u] = "idle" /\ parent'[u] = parent[u] /\ verdict'[u] = verdict[u]
      BY <2>1, <2>2, <2>3, RestOrRun DEF Resting
    <2>5. abortReason'[u] = abortReason[u]
      BY <1>1, <2>2, <2>4, OnlyRunsAbort
    <2>6. ~Known(u) => ~Known(u)'
      BY <2>2, OnlyCommitBrings DEF RunStep
    <2> QED
      BY <1>a, <2>4, <2>5, <2>6 DEF Rooted, Known
  <1>3. pc'[u] \in {"idle", "freeze", "resolve"} => ~Known(u)'
    <2>1. pc'[u] \in {"idle", "freeze", "resolve"} =>
             pc[u] \in {"idle", "freeze", "resolve"} /\ ~Commit(u)
      <3>1. CASE RunStep(u)
        BY <3>1, RunLeaves
      <3>2. CASE ~RunStep(u)
        BY <3>2, RestOrRun DEF RunStep, Resting, Arrive
      <3> QED
        BY <3>1, <3>2
    <2>2. ~Commit(u) => (~Known(u) => ~Known(u)')
      BY OnlyCommitBrings
    <2> QED
      BY <1>a, <2>1, <2>2 DEF Rooted
  <1>4. Known(u)' => owner'[u] = host'[u]
    <2>1. CASE Commit(u)
      BY <2>1, RunLeaves DEF RunStep
    <2>2. CASE ~Commit(u)
      <3>1. SUFFICES ASSUME Known(u) PROVE owner'[u] = host'[u]
        BY <2>2, OnlyCommitBrings
      <3>2. pc[u] # "idle"
        BY <1>a, <3>1 DEF Rooted
      <3>3. host'[u] = host[u]
        BY <3>2, RequestStays
      <3> QED
        BY <1>a, <2>2, <3>1, <3>3, OnlyCommitBrings DEF Rooted
    <2> QED
      BY <2>1, <2>2
  <1> QED
    BY <1>2, <1>3, <1>4 DEF Rooted

LEMMA CausedStep ==
  ASSUME TypeInv, [Next]_vars, ~Restarts, \A t \in Turn : Caused(t) /\ Aborted(t)
  PROVE  \A t \in Turn : Caused(t)'
  <1> TAKE u \in Turn
  <1>a. Caused(u) /\ Aborted(u)
    OBVIOUS
  <1>1. Rooted(u)'
    BY RootedStep DEF Caused
  <1>2. (pc'[u] = "finalize" /\ verdict'[u] = "absent") => ~reading'[u]
    <2>1. ~reading[u] => ~reading'[u]
      BY CausesStay
    <2>2. CASE RunStep(u)
      BY <1>a, <2>1, <2>2, RunLeaves DEF Caused
    <2>3. CASE ~RunStep(u)
      <3>1. pc'[u] = "finalize" => pc[u] = "finalize" /\ verdict'[u] = verdict[u]
        <4>1. ASSUME NEW x \in Executor, NEW p \in Turn \cup {None}, Arrive(u, x, p)
              PROVE  pc'[u] # "finalize"
          BY <4>1 DEF Arrive, Goto, TypeInv, TypeOK, RunTypeOK
        <4> QED
          BY <2>3, <4>1, RestOrRun DEF Resting
      <3> QED
        BY <1>a, <2>1, <3>1 DEF Caused
    <2> QED
      BY <2>2, <2>3
  <1>3. ASSUME NEW r \in Reason, r \in Reasons(u)' PROVE Cause(u, r)'
    <2>1. r \in Reasons(u) \/ Cause(u, r)'
      BY <1>a, <1>3, RunHasCause, OthersHaveCause
    <2>2. ASSUME r \in Reasons(u) PROVE Cause(u, r)'
      <3>1. Cause(u, r)
        BY <1>a, <2>2 DEF Caused, Reasons
      <3>2. pc[u] # "idle"
        BY <1>a, <2>2 DEF Caused, Rooted, Reasons, Reason
      <3> QED
        BY <3>1, <3>2, CauseStays
    <2> QED
      BY <2>1, <2>2
  <1> QED
    BY <1>1, <1>2, <1>3 DEF Caused, Reasons

(* A stored cancellation has the cause its reason names: where executors do *)
(* not come back under their old id, an abandoned turn belongs to a process *)
(* that has shut down.                                                      *)
THEOREM ReasonHasCauseHolds == ASSUME ~Restarts PROVE Spec => []ReasonHasCause
  <1> DEFINE Inv == \A t \in Turn : Caused(t) /\ Aborted(t)
  <1>1. Init => Inv
    BY DEF Init, RunInit, StoreInit, Aborted, Caused, Rooted, Known, Reason
  <1>2. TypeInv /\ Inv /\ [Next]_vars => Inv'
    BY CausedStep, AbortedStep
  <1>3. Inv => ReasonHasCause
    BY DEF Caused, Rooted, Cause, Reason, Known, ReasonHasCause
  <1> HIDE DEF Inv
  <1> QED
    BY <1>1, <1>2, <1>3, TypeInvHolds, PTL DEF Spec

-----------------------------------------------------------------------------
(* What a graceful exit leaves behind.                                      *)
Empty == ~sessionExists => \A t \in Turn : ~Known(t)

Left(t) ==
    /\ pc[t] \in InRequest \cup InStream => host[t] \in Executor /\ Alive(host[t])
    /\ IsRunning(t) =>
          /\ host[t] \in Executor
          /\ pc[t] \in {"committed", "opening", "created", "executing", "streaming",
                        "appending", "yielding", "finalize", "settling", "lost",
                        "failed", "ended"}
          /\ pc[t] \in {"failed", "ended"} => storeFaults > 0
          /\ (pc[t] = "lost" /\ t \notin Detached /\ ~gone[t]) => crashes > 0

LEMMA EmptyStep ==
  ASSUME TypeInv, [Next]_vars, Empty
  PROVE  Empty'
  <1>1. SUFFICES ASSUME ~sessionExists', NEW u \in Turn PROVE ~Known(u)'
    BY DEF Empty
  <1>2. CASE sessionExists
    <2>1. DeleteSession
      BY <1>1, <1>2, ServerKeepsStore
      DEF StoreNext, CreateTurn, InsertRow, FreezeAndGetTurn, UpdateTurnState, Settle,
          AppendToEvents, LogEvent, WriteSnapshot, BumpSnapshot, storeVars
    <2> QED
      BY <2>1 DEF DeleteSession, Known
  <1>3. CASE ~sessionExists
    <2>1. ~Commit(u)
      BY <1>3 DEF Commit, CreateTurn
    <2> QED
      BY <1>3, <2>1, OnlyCommitBrings DEF Empty
  <1> QED
    BY <1>2, <1>3

(* Who kills a run.                                                         *)
LEMMA WhoKills ==
  ASSUME TypeInv, [Next]_vars, NEW u \in Turn, ~RunStep(u),
         pc'[u] = "lost", pc[u] # "lost"
  PROVE  \E x \in Executor : host[u] = x /\ (Exit(x) \/ Crash(x))
  <1> USE DEF TypeInv, TypeOK, RunTypeOK
  <1>1. ASSUME NEW t \in Turn, RunStep(t) PROVE FALSE
    BY <1>1 DEF RunStep, FreezeParent, Reject, Commit, Track, AppendCreated, Publish,
         StreamOutput, PersistSnapshot, PersistEvent, FenceRefuses, ExecutionEnds, Decide, SettleTurn,
         Announce, StoreFault, StoreRefuses, PutFault, Throw, TimeLimit, Goto
  <1>2. ASSUME NEW c \in Canceller, CancelStep(c) PROVE UNCHANGED pc
    BY <1>2 DEF CancelStep, CancelLook, CancelLocally, CancelAskPeer, PeerCancels,
         CancelConfirmed, CancelUnconfirmed, CancelFreezes, CancelFault, runButAbort,
         turnVars, runVars
  <1>3. ASSUME NEW x \in Executor,
               CloseServer(x) \/ BeginDrain(x) \/ Drained(x) \/ Restart(x)
        PROVE  UNCHANGED pc
    BY <1>3 DEF CloseServer, BeginDrain, Drained, Restart, runButPhase
  <1>4. ASSUME NEW t \in Turn, NEW x \in Executor, NEW p \in Turn \cup {None},
               Arrive(t, x, p)
        PROVE  FALSE
    BY <1>4 DEF Arrive, Goto
  <1>5. ASSUME NEW x \in Executor, Exit(x) \/ Crash(x) PROVE host[u] = x
    <2>1. Kill(x)
      BY <1>5 DEF Exit, Crash
    <2> QED
      BY <2>1 DEF Kill
  <1>6. CASE Next
    BY <1>1, <1>2, <1>3, <1>4, <1>5, <1>6
    DEF Next, CancelRequest, Delete, Disconnect, turnVars, runVars
  <1>7. CASE UNCHANGED vars
    BY <1>7 DEF vars, turnVars, runVars
  <1> QED
    BY <1>6, <1>7

LEMMA GoneStays ==
  ASSUME TypeInv, [Next]_vars, NEW u \in Turn, gone[u]
  PROVE  gone'[u]
  <1>1. ASSUME NEW c \in Canceller, CancelStep(c) PROVE UNCHANGED gone
    BY <1>1 DEF CancelStep, CancelLook, CancelLocally, CancelAskPeer, PeerCancels,
           CancelConfirmed, CancelUnconfirmed, CancelFreezes, CancelFault
  <1>2. ASSUME NEW x \in Executor,
               CloseServer(x) \/ BeginDrain(x) \/ Drained(x) \/ Exit(x)
               \/ Crash(x) \/ Restart(x)
        PROVE  UNCHANGED gone
    BY <1>2 DEF CloseServer, BeginDrain, Drained, Exit, Crash, Restart, Kill
  <1>3. ASSUME NEW t \in Turn, Disconnect(t) PROVE gone'[u]
    BY <1>3 DEF Disconnect, TypeInv, TypeOK
  <1>4. CASE Next
    BY <1>1, <1>2, <1>3, <1>4 DEF Next, CancelRequest, Delete
  <1> QED
    BY <1>4 DEF vars

(* What was counted stays counted.                                          *)
LEMMA FaultsCount ==
  ASSUME TypeInv, [Next]_vars
  PROVE  /\ storeFaults > 0 => storeFaults' > 0
         /\ crashes > 0 => crashes' > 0
  <1>0. storeFaults \in Nat /\ crashes \in Nat
    BY FaultAssumption, SwitchAssumption DEF TypeInv, TypeOK, RunTypeOK
  <1>1. ASSUME NEW t \in Turn, RunStep(t)
        PROVE  storeFaults' \in {storeFaults, storeFaults + 1}
    BY <1>1 DEF RunStep, FreezeParent, Reject, Commit, Track, AppendCreated, Publish,
         StreamOutput, PersistSnapshot, PersistEvent, FenceRefuses, ExecutionEnds,
         Decide, SettleTurn, Announce, StoreFault, StoreRefuses, PutFault, Throw,
         TimeLimit
  <1>2. ASSUME NEW c \in Canceller, CancelStep(c)
        PROVE  storeFaults' \in {storeFaults, storeFaults + 1} /\ crashes' = crashes
    BY <1>2 DEF CancelStep, CancelLook, CancelLocally, CancelAskPeer, PeerCancels,
         CancelConfirmed, CancelUnconfirmed, CancelFreezes, CancelFault, runButAbort,
         turnVars, runVars
  <1>3. ASSUME NEW x \in Executor,
               CloseServer(x) \/ BeginDrain(x) \/ Drained(x) \/ Exit(x)
               \/ Crash(x) \/ Restart(x)
        PROVE  storeFaults' = storeFaults /\ crashes' \in {crashes, crashes + 1}
    BY <1>3 DEF CloseServer, BeginDrain, Drained, Exit, Crash, Restart, Kill, runButPhase
  <1>4. CASE Next
    BY <1>0, <1>1, <1>2, <1>3, <1>4
    DEF Next, Arrive, CancelRequest, Delete, Disconnect, turnVars, runVars
  <1>5. CASE UNCHANGED vars
    BY <1>5 DEF vars, turnVars, runVars
  <1> QED
    BY <1>4, <1>5

LEMMA LeftRun ==
  ASSUME TypeInv, NEW t \in Turn, RunStep(t), Left(t), Rooted(t), Rooted(t)', Tells(t),
         Empty, IsRunning(t)' => IsRunning(t) \/ Commit(t)
  PROVE  Left(t)'
  <1> USE DEF TypeInv, TypeOK, RunTypeOK, Goto, Left
  <1>1. UNCHANGED <<host, phase>>
    BY DEF RunStep, FreezeParent, Reject, Commit, Track, AppendCreated, Publish,
         StreamOutput, PersistSnapshot, PersistEvent, FenceRefuses, ExecutionEnds, Decide, SettleTurn,
         Announce, StoreFault, StoreRefuses, PutFault, Throw, TimeLimit
  <1>2. host[t] \in Executor /\ Alive(host[t])
    BY DEF RunStep, FreezeParent, Reject, Commit, Track, AppendCreated, Publish,
         StreamOutput, PersistSnapshot, PersistEvent, FenceRefuses, ExecutionEnds, Decide, SettleTurn,
         Announce, StoreFault, StoreRefuses, PutFault, Throw, TimeLimit, InRequest, InStream
  <1>3. pc[t] \in {"announcing", "frozen"} => ~IsRunning(t)
    BY DEF Empty, Tells, Placed, RequestPlaced, Settled, Reason, IsRunning, Known
  <1>4. IsRunning(t)' =>
           \/ pc'[t] \in {"committed", "opening", "created", "executing", "streaming",
                          "appending", "yielding", "finalize", "settling"}
           \/ pc'[t] \in {"failed", "ended"} /\ storeFaults' > 0
    <2>1. CASE FreezeParent(t)
      BY <2>1 DEF FreezeParent, Rooted, IsRunning, Known
    <2>2. CASE Reject(t)
      BY <2>2 DEF Reject, Rooted, IsRunning, Known, storeVars
    <2>3. CASE Commit(t) \/ Track(t) \/ AppendCreated(t) \/ Publish(t)
               \/ StreamOutput(t)
      BY <2>3 DEF Commit, Track, AppendCreated, Publish, StreamOutput
    <2>4. CASE PersistSnapshot(t) \/ PersistEvent(t) \/ ExecutionEnds(t) \/ Decide(t)
      BY <2>4 DEF PersistSnapshot, PersistEvent, ExecutionEnds, Decide
    <2>5. CASE FenceRefuses(t)
      BY <2>5 DEF FenceRefuses, IsRunning, IsSettled, Settled, Reason, storeVars
    <2>6. CASE SettleTurn(t)
      <3>1. state'[t] \in Settled
        BY <2>6 DEF SettleTurn, UpdateTurnState, Settle, IsSettled, StoreTypeOK, Placed,
                    RequestPlaced, storeVars
      <3> QED
        BY <3>1 DEF IsRunning, Settled, Reason
    <2>7. CASE Announce(t)
      BY <1>3, <2>7 DEF Announce, IsRunning, storeVars
    <2>8. CASE StoreRefuses(t)
      <3>1. ~Known(t) \/ pc'[t] = "finalize"
        BY <2>8 DEF StoreRefuses, Throw, InRequest, Rooted
      <3> QED
        BY <2>8, <3>1 DEF StoreRefuses, Throw, Known, IsRunning, storeVars
    <2>9. CASE PutFault(t)
      BY <1>3, <2>9 DEF PutFault, IsRunning, storeVars
    <2>10. CASE TimeLimit(t)
      <3>1. pc[t] # "lost" /\ pc' = pc /\ state' = state
        BY <2>10 DEF TimeLimit, InStream, storeVars
      <3>2. pc[t] \notin {"failed", "ended"} /\ IsRunning(t)' = IsRunning(t)
        BY <2>10, <3>1 DEF TimeLimit, InStream, IsRunning
      <3> QED
        BY <3>1, <3>2
    <2>11. CASE StoreFault(t)
      <3>1. storeFaults' > 0
        BY <2>11, FaultAssumption DEF StoreFault
      <3>2. pc'[t] \in {"failed", "finalize", "ended"}
        BY <2>11 DEF StoreFault, Throw
      <3> QED
        BY <3>1, <3>2
    <2> QED
      BY <2>1, <2>2, <2>3, <2>4, <2>5, <2>6, <2>7, <2>8, <2>9, <2>10, <2>11
      DEF RunStep
  <1> QED
    BY <1>1, <1>2, <1>4 DEF Alive

LEMMA LeftStep ==
  ASSUME TypeInv, [Next]_vars, Empty,
         \A t \in Turn : Left(t) /\ Rooted(t) /\ Aborted(t) /\ Tells(t)
  PROVE  \A t \in Turn : Left(t)'
  <1> TAKE u \in Turn
  <1>a. Left(u) /\ Rooted(u) /\ Rooted(u)' /\ Tells(u)
    BY RootedStep
  <1>b. IsRunning(u)' => IsRunning(u) \/ Commit(u)
    <2>1. Known(u) /\ ~IsRunning(u) => ~IsRunning(u)'
      BY ServerKeepsStore, RowsStay DEF TypeInv, TypeOK
    <2>2. ~Known(u) /\ ~Commit(u) => ~Known(u)'
      BY OnlyCommitBrings
    <2> QED
      BY <2>1, <2>2 DEF Known, IsRunning
  <1>1. CASE RunStep(u)
    BY <1>1, <1>a, <1>b, LeftRun
  <1>2. ASSUME NEW x \in Executor, NEW p \in Turn \cup {None}, Arrive(u, x, p)
        PROVE  Left(u)'
    <2>1. /\ host'[u] = x /\ phase'[x] = "serving"
          /\ pc'[u] \in {"freeze", "resolve"}
      BY <1>2 DEF Arrive, Goto, TypeInv, TypeOK, RunTypeOK
    <2>2. ~Known(u)'
      BY <1>a, <2>1 DEF Rooted
    <2> QED
      BY <2>1, <2>2 DEF Left, Alive, IsRunning, Known
  <1>3. CASE Resting(u) /\ ~RunStep(u)
    <2>1. /\ host'[u] = host[u] /\ pc'[u] \in {pc[u], "lost"}
          /\ IsRunning(u)' => IsRunning(u)
      BY <1>3, <1>b DEF Resting, RunStep
    <2>2. ASSUME pc[u] \in InRequest \cup InStream, ~Alive(host[u])'
          PROVE  pc'[u] = "lost"
      <3>1. host[u] \in Executor /\ Alive(host[u])
        BY <1>a, <2>2 DEF Left
      <3>2. PICK x \in Executor : x = host[u]
        BY <3>1
      <3>3. phase'[x] # phase[x]
        BY <2>2, <3>1, <3>2, <2>1 DEF Alive
      <3>4. Exit(x) \/ Crash(x)
        BY <2>2, <3>1, <3>2, <3>3, <2>1, WhoChangesPhase
        DEF Alive, CloseServer, BeginDrain, Drained, Restart, TypeInv, TypeOK, RunTypeOK
      <3>5. Kill(x)
        BY <3>4 DEF Exit, Crash
      <3> QED
        BY <2>2, <3>2, <3>5 DEF Kill
    <2>3. ASSUME IsRunning(u), pc'[u] = "lost", u \notin Detached, ~gone'[u]
          PROVE  crashes' > 0
      <3>1. ~gone[u]
        BY <2>3, GoneStays
      <3>2. CASE pc[u] = "lost"
        BY <1>a, <2>3, <3>1, <3>2, FaultsCount DEF Left
      <3>3. CASE pc[u] \in {"failed", "ended"}
        <4>1. PICK x \in Executor : host[u] = x /\ (Exit(x) \/ Crash(x))
          BY <1>3, <2>3, <3>3, WhoKills
        <4>2. PICK y \in Executor : Kill(y)
          BY <4>1 DEF Exit, Crash
        <4> QED
          BY <2>3, <3>3, <4>2 DEF Kill, InRequest, InStream, TypeInv, TypeOK, RunTypeOK
      <3>4. CASE pc[u] \notin {"lost", "failed", "ended"}
        <4>1. PICK x \in Executor : host[u] = x /\ (Exit(x) \/ Crash(x))
          BY <1>3, <2>3, <3>4, WhoKills
        <4>2. Open(u)
          BY <1>a, <2>3, <3>1, <3>4 DEF Left, Open, InRequest, InStream
        <4>3. Crash(x)
          BY <4>1, <4>2 DEF Exit
        <4> QED
          BY <4>3, SwitchAssumption DEF Crash, TypeInv, TypeOK
      <3> QED
        BY <3>2, <3>3, <3>4
    <2>4. IsRunning(u)' => host'[u] \in Executor
      BY <1>a, <2>1 DEF Left
    <2>5. pc'[u] \in InRequest \cup InStream =>
             host'[u] \in Executor /\ phase'[host'[u]] \notin {"exited", "down"}
      BY <1>a, <2>1, <2>2 DEF Left, InRequest, InStream, Alive
    <2>6. (IsRunning(u)' /\ pc'[u] = "lost" /\ u \notin Detached /\ ~gone'[u]) =>
             crashes' > 0
      BY <2>1, <2>3
    <2>7. (IsRunning(u)' /\ pc'[u] \in {"failed", "ended"}) => storeFaults' > 0
      BY <1>a, <2>1, FaultsCount DEF Left
    <2> QED
      BY <1>a, <2>1, <2>4, <2>5, <2>6, <2>7 DEF Left, Alive
  <1> QED
    BY <1>1, <1>2, <1>3, RestOrRun

(* A process that exited gracefully leaves no streamed turn running whose   *)
(* client stayed and whose run was not given up: with any number of         *)
(* requests, shutdowns, faults, crashes and restarts.                       *)
THEOREM GracefulExitSettlesHolds == Spec => []GracefulExitSettles
  <1> DEFINE Inv == /\ Empty
                    /\ \A t \in Turn : Left(t) /\ Rooted(t) /\ Aborted(t) /\ Tells(t)
  <1>1. Init => Inv
    <2>1. Len(<< >>) = 0
      OBVIOUS
    <2> QED
      BY <2>1 DEF Init, RunInit, StoreInit, Empty, Left, Rooted, Aborted, Tells, NoEnd,
                  Known, IsRunning, InRequest, InStream
  <1>2. TypeInv /\ Inv /\ [Next]_vars => Inv'
    BY EmptyStep, LeftStep, RootedStep, AbortedStep, TellsStep
  <1>3. Inv => GracefulExitSettles
    BY DEF Left, Rooted, Alive, InRequest, InStream, Known, IsRunning,
           GracefulExitSettles, GivenUp
  <1> HIDE DEF Inv
  <1> QED
    BY <1>1, <1>2, <1>3, TypeInvHolds, PTL DEF Spec

-----------------------------------------------------------------------------
(* The server implements TurnPromise.                                       *)
Status == [t \in Turn |-> IF Known(t) THEN state[t] ELSE "none"]
Heard == [t \in Turn |-> Told(t)]

LEMMA NothingHeard ==
  ASSUME NEW t \in Turn, live[t] \in Live, NoEnd(live[t])
  PROVE  Told(t) = "nothing"
  <1>1. live[t] # << >> => Len(live[t]) \in 1..Len(live[t])
    BY DEF Live
  <1> QED
    BY <1>1 DEF Told, NoEnd

(* What subscribers get and what is stored change in different steps.       *)
LEMMA PublishesOrStores ==
  ASSUME TypeInv, [Next]_vars
  PROVE  live' = live \/ \E t \in Turn : Publish(t) \/ Announce(t)
  <1>1. ASSUME NEW t \in Turn, RunStep(t)
        PROVE  live' = live \/ Publish(t) \/ Announce(t)
    BY <1>1 DEF RunStep, FreezeParent, Reject, Commit, Track, AppendCreated,
         StreamOutput, PersistSnapshot, PersistEvent, FenceRefuses, ExecutionEnds, Decide, SettleTurn,
         StoreFault, StoreRefuses, PutFault, Throw, TimeLimit
  <1>2. ASSUME NEW c \in Canceller, CancelStep(c) PROVE live' = live
    BY <1>2 DEF CancelStep, CancelLook, CancelLocally, CancelAskPeer, PeerCancels,
         CancelConfirmed, CancelUnconfirmed, CancelFreezes, CancelFault, runButAbort,
         turnVars, runVars
  <1>3. ASSUME NEW x \in Executor,
               CloseServer(x) \/ BeginDrain(x) \/ Drained(x) \/ Exit(x)
               \/ Crash(x) \/ Restart(x)
        PROVE  live' = live
    BY <1>3 DEF CloseServer, BeginDrain, Drained, Exit, Crash, Restart, Kill, runButPhase
  <1>4. CASE Next
    BY <1>1, <1>2, <1>3, <1>4
    DEF Next, Arrive, CancelRequest, Delete, Disconnect, turnVars, runVars
  <1>5. CASE UNCHANGED vars
    BY <1>5 DEF vars, turnVars, runVars
  <1> QED
    BY <1>4, <1>5

LEMMA StorePromises ==
  ASSUME StoreTypeOK, [StoreNext]_storeVars
  PROVE  \/ \E t \in Turn : /\ sessionExists /\ Status[t] = "none"
                            /\ Status' = [Status EXCEPT ![t] = "running"]
                            /\ sessionExists' = sessionExists
         \/ \E t \in Turn, s \in Settled : /\ Status[t] = "running"
                                           /\ Status' = [Status EXCEPT ![t] = s]
                                           /\ sessionExists' = sessionExists
         \/ /\ sessionExists /\ ~sessionExists'
            /\ Status' = [t \in Turn |-> "none"]
         \/ UNCHANGED <<Status, sessionExists>>
  <1> DEFINE P == \/ \E t \in Turn : /\ sessionExists /\ Status[t] = "none"
                                     /\ Status' = [Status EXCEPT ![t] = "running"]
                                     /\ sessionExists' = sessionExists
                  \/ \E t \in Turn, s \in Settled : /\ Status[t] = "running"
                                                    /\ Status' = [Status EXCEPT ![t] = s]
                                                    /\ sessionExists' = sessionExists
                  \/ /\ sessionExists /\ ~sessionExists'
                     /\ Status' = [t \in Turn |-> "none"]
                  \/ UNCHANGED <<Status, sessionExists>>
  <1>1. ASSUME NEW t \in Turn, NEW p \in Turn \cup {None}, NEW x \in Executor,
               CreateTurn(t, p, x)
        PROVE  P
    <2>1. /\ sessionExists /\ ~Known(t) /\ sessionExists' = sessionExists
          /\ state' = [state EXCEPT ![t] = "running"]
      BY <1>1 DEF CreateTurn, InsertRow
    <2>2. Status[t] = "none" /\ Status' = [Status EXCEPT ![t] = "running"]
      BY <2>1 DEF Status, Known, StoreTypeOK
    <2> QED
      BY <2>1, <2>2
  <1>2. ASSUME NEW t \in Turn, NEW s \in Settled, IsRunning(t), Settle(t, s)
        PROVE  P
    <2>1. state' = [state EXCEPT ![t] = s] /\ sessionExists' = sessionExists /\ s # "absent"
      BY <1>2 DEF Settle, Settled, Reason
    <2>2. Status[t] = "running" /\ Status' = [Status EXCEPT ![t] = s]
      BY <1>2, <2>1 DEF Status, Known, IsRunning, StoreTypeOK
    <2> QED
      BY <2>1, <2>2
  <1>3. CASE DeleteSession
    BY <1>3 DEF DeleteSession, Status, Known
  <1>4. CASE UNCHANGED <<state, sessionExists>>
    BY <1>4 DEF Status, Known
  <1>5. ASSUME NEW t \in Turn, NEW r \in Reason, FreezeAndGetTurn(t, r) PROVE P
    BY <1>2, <1>4, <1>5 DEF FreezeAndGetTurn, Settled, storeVars
  <1>6. ASSUME NEW t \in Turn, NEW s \in Settled, UpdateTurnState(t, s) PROVE P
    BY <1>2, <1>6 DEF UpdateTurnState
  <1>7. ASSUME NEW t \in Turn, NEW e \in {"turn.created", "event"}, AppendToEvents(t, e)
        PROVE  P
    BY <1>4, <1>7 DEF AppendToEvents, LogEvent
  <1>8. ASSUME NEW t \in Turn, WriteSnapshot(t) PROVE P
    BY <1>4, <1>8 DEF WriteSnapshot, BumpSnapshot
  <1>9. CASE UNCHANGED storeVars
    BY <1>4, <1>9 DEF storeVars
  <1> HIDE DEF P
  <1> QED
    BY <1>1, <1>3, <1>5, <1>6, <1>7, <1>8, <1>9 DEF StoreNext, P

LEMMA PromiseStep ==
  ASSUME TypeInv, \A t \in Turn : Tells(t), [Next]_vars
  PROVE  [Promise!PromiseNext]_(Promise!promiseVars)
  <1>s. StoreTypeOK /\ [StoreNext]_storeVars
    BY ServerKeepsStore DEF TypeInv, TypeOK
  <1>1. CASE live' = live
    <2>1. Heard' = Heard
      BY <1>1 DEF Heard, Told
    <2>2. ASSUME NEW t \in Turn, sessionExists, Status[t] = "none",
                 Status' = [Status EXCEPT ![t] = "running"], sessionExists' = sessionExists
          PROVE  Promise!PromiseNext
      <3>1. Promise!Begin(t)
        BY <2>1, <2>2 DEF Promise!Begin, Status, Heard
      <3> QED
        BY <3>1 DEF Promise!PromiseNext
    <2>3. ASSUME NEW t \in Turn, NEW s \in Settled, Status[t] = "running",
                 Status' = [Status EXCEPT ![t] = s], sessionExists' = sessionExists
          PROVE  Promise!PromiseNext
      <3>1. Promise!SettleAs(t, s)
        BY <2>1, <2>3 DEF Promise!SettleAs, Status, Heard
      <3> QED
        BY <3>1 DEF Promise!PromiseNext
    <2>4. ASSUME sessionExists, ~sessionExists', Status' = [t \in Turn |-> "none"]
          PROVE  Promise!PromiseNext
      <3>1. sessionExists' = FALSE
        BY <1>s, <2>4, StoreTypeStep DEF StoreTypeOK
      <3>2. Promise!Forget
        BY <2>1, <2>4, <3>1 DEF Promise!Forget, Status, Heard
      <3> QED
        BY <3>2 DEF Promise!PromiseNext
    <2>5. ASSUME UNCHANGED <<Status, sessionExists>>
          PROVE  UNCHANGED Promise!promiseVars
      BY <2>1, <2>5 DEF Promise!promiseVars, Status, Heard
    <2> QED
      BY <1>s, <2>2, <2>3, <2>4, <2>5, StorePromises
  <1>2. ASSUME NEW t \in Turn, Publish(t)
        PROVE  UNCHANGED Promise!promiseVars
    <2>1. live[t] \in Live /\ NoEnd(live[t])
      BY <1>2 DEF Publish, Tells, TypeInv, TypeOK, RunTypeOK, Live
    <2>2. /\ live' = [live EXCEPT ![t] = Append(live[t], Handed(t))]
          /\ Handed(t) \in {"turn.created", "event", "delta"}
          /\ state' = state /\ sessionExists' = sessionExists
      BY <1>2, HandedIs DEF Publish, storeVars
    <2>3. live'[t] \in Live /\ NoEnd(live'[t])
      BY <2>1, <2>2, NoEndGrows, LiveGrows DEF TypeInv, TypeOK, RunTypeOK, Live
    <2>4. Told(t) = "nothing"
      BY <2>1, NothingHeard
    <2>5. live'[t] # << >> => Len(live'[t]) \in 1..Len(live'[t])
      BY <2>3 DEF Live
    <2>6. (IF live'[t] # << >> /\ live'[t][Len(live'[t])] \in Settled
           THEN live'[t][Len(live'[t])] ELSE "nothing") = "nothing"
      BY <2>3, <2>5 DEF NoEnd
    <2>7. \A u \in Turn : u # t => live'[u] = live[u]
      BY <2>2 DEF TypeInv, TypeOK, RunTypeOK
    <2>8. Heard' = Heard
      BY <2>4, <2>6, <2>7 DEF Heard, Told
    <2> QED
      BY <2>2, <2>8 DEF Promise!promiseVars, Heard, Known
  <1>3. ASSUME NEW t \in Turn, Announce(t)
        PROVE  Promise!PromiseNext
    <2>1. live[t] \in Live /\ NoEnd(live[t]) /\ verdict[t] \in Settled
      BY <1>3 DEF Announce, Tells, TypeInv, TypeOK, RunTypeOK, Live, Placed, RequestPlaced
    <2>2. /\ live' = [live EXCEPT ![t] = Append(live[t], verdict[t])]
          /\ state' = state /\ sessionExists' = sessionExists
          /\ sessionExists => state[t] = verdict[t]
      BY <1>3 DEF Announce, storeVars, Tells
    <2>3. Told(t) = "nothing"
      BY <2>1, NothingHeard
    <2>4. live'[t] = Append(live[t], verdict[t])
      BY <2>2 DEF TypeInv, TypeOK, RunTypeOK
    <2>5. live'[t] # << >> /\ live'[t][Len(live'[t])] = verdict[t]
      BY <2>1, <2>4 DEF Live
    <2>6. \A u \in Turn : u # t => live'[u] = live[u]
      BY <2>2 DEF TypeInv, TypeOK, RunTypeOK
    <2>7. Heard' = [Heard EXCEPT ![t] = verdict[t]]
      BY <2>1, <2>5, <2>6 DEF Heard, Told
    <2>8. sessionExists => Status[t] = verdict[t]
      BY <2>1, <2>2 DEF Status, Known, Settled, Reason
    <2>9. Promise!Tell(t, verdict[t])
      BY <2>2, <2>3, <2>7, <2>8 DEF Promise!Tell, Status, Heard, Known
    <2> QED
      BY <2>1, <2>9 DEF Promise!PromiseNext
  <1> QED
    BY <1>1, <1>2, <1>3, PublishesOrStores

(* Whatever requests, peers, runs, faults, crashes and shutdowns do, a      *)
(* client sees only what the API promises.                                  *)
THEOREM ServerKeepsPromise == Spec => KeepsPromise
  <1> DEFINE Inv == \A t \in Turn : Tells(t)
  <1>1. Init => Inv
    <2>1. Len(<< >>) = 0
      OBVIOUS
    <2> QED
      BY <2>1 DEF Init, RunInit, Tells, NoEnd
  <1>2. TypeInv /\ Inv /\ [Next]_vars => Inv'
    BY TellsStep
  <1>3. Init => Promise!PromiseInit
    BY DEF Init, RunInit, StoreInit, Promise!PromiseInit, Told, Known
  <1>4. TypeInv /\ Inv /\ [Next]_vars => [Promise!PromiseNext]_(Promise!promiseVars)
    BY PromiseStep
  <1> HIDE DEF Inv
  <1> QED
    BY <1>1, <1>2, <1>3, <1>4, TypeInvHolds, PTL
    DEF Spec, KeepsPromise, Promise!PromiseSpec
=============================================================================
