-------------------------- MODULE TurnStoreProofs --------------------------
(***************************************************************************)
(* The store contract proved for any number of turns, executors and writes.*)
(***************************************************************************)
EXTENDS TurnStore, FiniteSetTheorems, TLAPS

(* The type invariant is inductive.                                         *)
LEMMA StoreTypeInit == StoreInit => StoreTypeOK
  <1>1. << >> \in Seq(Event)
    OBVIOUS
  <1> QED
    BY <1>1 DEF StoreInit, StoreTypeOK

LEMMA SettleType ==
  ASSUME StoreTypeOK, NEW t \in Turn, NEW s \in Settled, Settle(t, s)
  PROVE  StoreTypeOK'
  <1>1. Append(log[t], "turn.done") \in Seq(Event)
    BY DEF StoreTypeOK, Event
  <1> QED
    BY <1>1 DEF StoreTypeOK, Settle

LEMMA StoreTypeStep ==
  ASSUME StoreTypeOK, [StoreNext]_storeVars
  PROVE  StoreTypeOK'
  <1>1. ASSUME NEW t \in Turn, NEW p \in Turn \cup {None}, NEW x \in Executor,
               CreateTurn(t, p, x)
        PROVE  StoreTypeOK'
    <2>1. << >> \in Seq(Event)
      OBVIOUS
    <2> QED
      BY <1>1, <2>1 DEF StoreTypeOK, CreateTurn, InsertRow, Inherited
  <1>2. ASSUME NEW t \in Turn, NEW r \in Reason, FreezeAndGetTurn(t, r)
        PROVE  StoreTypeOK'
    <2>1. CASE IsRunning(t)
      BY <1>2, <2>1, SettleType DEF FreezeAndGetTurn, Settled
    <2>2. CASE ~IsRunning(t)
      BY <1>2, <2>2 DEF FreezeAndGetTurn, StoreTypeOK, storeVars
    <2> QED
      BY <2>1, <2>2
  <1>3. ASSUME NEW t \in Turn, NEW s \in Settled, UpdateTurnState(t, s)
        PROVE  StoreTypeOK'
    BY <1>3, SettleType DEF UpdateTurnState
  <1>4. ASSUME NEW t \in Turn, NEW e \in {"turn.created", "event"},
               AppendToEvents(t, e)
        PROVE  StoreTypeOK'
    <2>1. Append(log[t], e) \in Seq(Event)
      BY DEF StoreTypeOK, Event
    <2> QED
      BY <1>4, <2>1 DEF StoreTypeOK, AppendToEvents, LogEvent
  <1>5. ASSUME NEW t \in Turn, WriteSnapshot(t)
        PROVE  StoreTypeOK'
    BY <1>5 DEF StoreTypeOK, WriteSnapshot, BumpSnapshot
  <1>6. CASE DeleteSession
    <2>1. << >> \in Seq(Event)
      OBVIOUS
    <2> QED
      BY <1>6, <2>1 DEF StoreTypeOK, DeleteSession
  <1>7. CASE UNCHANGED storeVars
    BY <1>7 DEF StoreTypeOK, storeVars
  <1> QED
    BY <1>1, <1>2, <1>3, <1>4, <1>5, <1>6, <1>7 DEF StoreNext

(* Every variable of the store keeps its type in every reachable state.     *)
THEOREM StoreTypeCorrect == StoreSpec => []StoreTypeOK
  BY StoreTypeInit, StoreTypeStep, PTL DEF StoreSpec

-----------------------------------------------------------------------------
(* How a log grows: appending turn.done to an open log closes it once.      *)
LEMMA CloseLog ==
  ASSUME NEW l \in Seq(Event),
         \A i \in 1..Len(l) : l[i] # "turn.done"
  PROVE  LET m == Append(l, "turn.done")
         IN  /\ m # << >>
             /\ \A i \in 1..Len(m) : m[i] = "turn.done" <=> i = Len(m)
  <1> DEFINE m == Append(l, "turn.done")
  <1>1. "turn.done" \in Event
    BY DEF Event
  <1>2. /\ m \in Seq(Event)
        /\ Len(m) = Len(l) + 1
        /\ Len(l) \in Nat
        /\ \A i \in 1..Len(l) : m[i] = l[i]
        /\ m[Len(l) + 1] = "turn.done"
    BY <1>1
  <1> HIDE DEF m
  <1>3. m # << >>
    <2>1. Len(<< >>) = 0
      OBVIOUS
    <2>2. Len(m) # 0
      BY <1>2
    <2> QED
      BY <2>1, <2>2
  <1>4. ASSUME NEW i \in 1..Len(m)
        PROVE  m[i] = "turn.done" <=> i = Len(m)
    <2>1. CASE i = Len(l) + 1
      BY <1>2, <2>1
    <2>2. CASE i \in 1..Len(l)
      BY <1>2, <2>2
    <2> QED
      BY <1>2, <2>1, <2>2
  <1> QED
    BY <1>3, <1>4 DEF m

(* Appending any other event to an open log leaves it open.                 *)
LEMMA GrowLog ==
  ASSUME NEW l \in Seq(Event), NEW e \in Event, e # "turn.done",
         \A i \in 1..Len(l) : l[i] # "turn.done"
  PROVE  \A i \in 1..Len(Append(l, e)) : Append(l, e)[i] # "turn.done"
  BY DEF Event

LEMMA LogClosedInit == StoreInit => LogClosedOnce
  BY DEF StoreInit, LogClosedOnce, IsRunning, IsSettled, Settled, Reason

LEMMA SettleClosesLog ==
  ASSUME StoreTypeOK, LogClosedOnce,
         NEW t \in Turn, NEW s \in Settled, IsRunning(t), Settle(t, s)
  PROVE  LogClosedOnce'
  <1>1. SUFFICES ASSUME NEW u \in Turn
        PROVE  /\ IsRunning(u)' =>
                    \A i \in 1..Len(log'[u]) : log'[u][i] # "turn.done"
               /\ IsSettled(u)' =>
                    /\ log'[u] # << >>
                    /\ \A i \in 1..Len(log'[u]) :
                          log'[u][i] = "turn.done" <=> i = Len(log'[u])
    BY DEF LogClosedOnce
  <1>2. CASE u = t
    <2>1. log[t] \in Seq(Event) /\ \A i \in 1..Len(log[t]) : log[t][i] # "turn.done"
      BY DEF StoreTypeOK, LogClosedOnce
    <2>2. log'[t] = Append(log[t], "turn.done") /\ state'[t] = s
      BY DEF StoreTypeOK, Settle
    <2>3. ~IsRunning(t)'
      BY <2>2 DEF IsRunning, Settled, Reason
    <2> QED
      BY <1>2, <2>1, <2>2, <2>3, CloseLog
  <1>3. CASE u # t
    <2>1. log'[u] = log[u] /\ state'[u] = state[u]
      BY <1>3 DEF StoreTypeOK, Settle
    <2> QED
      BY <2>1 DEF LogClosedOnce, IsRunning, IsSettled
  <1> QED
    BY <1>2, <1>3

LEMMA LogClosedStep ==
  ASSUME StoreTypeOK, LogClosedOnce, [StoreNext]_storeVars
  PROVE  LogClosedOnce'
  <1>1. ASSUME NEW t \in Turn, NEW p \in Turn \cup {None}, NEW x \in Executor,
               CreateTurn(t, p, x)
        PROVE  LogClosedOnce'
    <2>1. /\ state'[t] = "running" /\ log'[t] = << >>
          /\ \A u \in Turn \ {t} : state'[u] = state[u] /\ log'[u] = log[u]
      BY <1>1 DEF CreateTurn, InsertRow, Inherited, StoreTypeOK
    <2> QED
      BY <2>1 DEF LogClosedOnce, IsRunning, IsSettled, Settled, Reason
  <1>2. ASSUME NEW t \in Turn, NEW r \in Reason, FreezeAndGetTurn(t, r)
        PROVE  LogClosedOnce'
    <2>1. CASE IsRunning(t)
      BY <1>2, <2>1, SettleClosesLog DEF FreezeAndGetTurn, Settled
    <2>2. CASE ~IsRunning(t)
      BY <1>2, <2>2 DEF FreezeAndGetTurn, LogClosedOnce, IsRunning, IsSettled, storeVars
    <2> QED
      BY <2>1, <2>2
  <1>3. ASSUME NEW t \in Turn, NEW s \in Settled, UpdateTurnState(t, s)
        PROVE  LogClosedOnce'
    BY <1>3, SettleClosesLog DEF UpdateTurnState
  <1>4. ASSUME NEW t \in Turn, NEW e \in {"turn.created", "event"},
               AppendToEvents(t, e)
        PROVE  LogClosedOnce'
    <2>1. /\ log[t] \in Seq(Event)
          /\ \A i \in 1..Len(log[t]) : log[t][i] # "turn.done"
      BY <1>4 DEF StoreTypeOK, LogClosedOnce, AppendToEvents, LogEvent
    <2>2. /\ state' = state /\ log'[t] = Append(log[t], e)
          /\ \A u \in Turn \ {t} : log'[u] = log[u]
      BY <1>4 DEF AppendToEvents, LogEvent, StoreTypeOK
    <2>3. \A i \in 1..Len(log'[t]) : log'[t][i] # "turn.done"
      BY <2>1, <2>2, GrowLog DEF Event
    <2>4. ~IsSettled(t)
      BY <1>4 DEF AppendToEvents, LogEvent, IsRunning, IsSettled, Settled, Reason
    <2> QED
      BY <2>2, <2>3, <2>4 DEF LogClosedOnce, IsRunning, IsSettled
  <1>5. ASSUME NEW t \in Turn, WriteSnapshot(t)
        PROVE  LogClosedOnce'
    BY <1>5 DEF WriteSnapshot, BumpSnapshot, LogClosedOnce, IsRunning, IsSettled
  <1>6. CASE DeleteSession
    BY <1>6 DEF DeleteSession, LogClosedOnce, IsRunning, IsSettled, Settled, Reason
  <1>7. CASE UNCHANGED storeVars
    BY <1>7 DEF LogClosedOnce, IsRunning, IsSettled, storeVars
  <1> QED
    BY <1>1, <1>2, <1>3, <1>4, <1>5, <1>6, <1>7 DEF StoreNext

(* Whoever settles a turn, its log gets exactly one turn.done, at its end.  *)
THEOREM LogClosedOnceHolds == StoreSpec => []LogClosedOnce
  <1>1. StoreInit => StoreTypeOK /\ LogClosedOnce
    BY StoreTypeInit, LogClosedInit
  <1>2. StoreTypeOK /\ LogClosedOnce /\ [StoreNext]_storeVars
          => (StoreTypeOK /\ LogClosedOnce)'
    BY StoreTypeStep, LogClosedStep
  <1> QED
    BY <1>1, <1>2, PTL DEF StoreSpec

-----------------------------------------------------------------------------
(* The tip.                                                                 *)
LEMMA TipStep ==
  ASSUME StoreTypeOK, TipIsCommitted, [StoreNext]_storeVars
  PROVE  TipIsCommitted'
  <1>1. ASSUME NEW t \in Turn, NEW p \in Turn \cup {None}, NEW x \in Executor,
               CreateTurn(t, p, x)
        PROVE  TipIsCommitted'
    <2>1. tip' = t /\ tip' # None /\ state'[t] = "running"
      BY <1>1, NoneAssumption DEF CreateTurn, InsertRow, Inherited, StoreTypeOK
    <2> QED
      BY <2>1 DEF TipIsCommitted, Known
  <1>2. ASSUME NEW t \in Turn, NEW s \in Settled, IsRunning(t), Settle(t, s)
        PROVE  TipIsCommitted'
    <2>1. /\ sessionExists' = sessionExists /\ tip' = tip /\ Known(t)
          /\ \A u \in Turn : Known(u)' <=> Known(u)
      BY <1>2 DEF Settle, Known, IsRunning, StoreTypeOK, Settled, Reason
    <2> QED
      BY <2>1 DEF TipIsCommitted, StoreTypeOK, Known
  <1>3. ASSUME NEW t \in Turn, NEW r \in Reason, FreezeAndGetTurn(t, r)
        PROVE  TipIsCommitted'
    BY <1>2, <1>3 DEF FreezeAndGetTurn, Settled, TipIsCommitted, Known, storeVars
  <1>4. ASSUME NEW t \in Turn, NEW s \in Settled, UpdateTurnState(t, s)
        PROVE  TipIsCommitted'
    BY <1>2, <1>4 DEF UpdateTurnState
  <1>5. ASSUME NEW t \in Turn, NEW e \in {"turn.created", "event"},
               AppendToEvents(t, e)
        PROVE  TipIsCommitted'
    BY <1>5 DEF AppendToEvents, LogEvent, TipIsCommitted, Known
  <1>6. ASSUME NEW t \in Turn, WriteSnapshot(t)
        PROVE  TipIsCommitted'
    BY <1>6 DEF WriteSnapshot, BumpSnapshot, TipIsCommitted, Known
  <1>7. CASE DeleteSession
    BY <1>7 DEF DeleteSession, TipIsCommitted
  <1>8. CASE UNCHANGED storeVars
    BY <1>8 DEF TipIsCommitted, Known, storeVars
  <1> QED
    BY <1>1, <1>3, <1>4, <1>5, <1>6, <1>7, <1>8 DEF StoreNext

(* last_turn_id always names a committed turn, and names one as soon as the *)
(* session has any: the atomicity clause of the createTurn contract.        *)
THEOREM TipIsCommittedHolds == StoreSpec => []TipIsCommitted
  <1>1. StoreInit => StoreTypeOK /\ TipIsCommitted
    BY StoreTypeInit DEF StoreInit, TipIsCommitted, Known
  <1>2. StoreTypeOK /\ TipIsCommitted /\ [StoreNext]_storeVars
          => (StoreTypeOK /\ TipIsCommitted)'
    BY StoreTypeStep, TipStep
  <1> QED
    BY <1>1, <1>2, PTL DEF StoreSpec

-----------------------------------------------------------------------------
(* Forks.                                                                   *)
LEMMA ForkStep ==
  ASSUME StoreTypeOK, ForkSeesFinalParent, [StoreNext]_storeVars
  PROVE  ForkSeesFinalParent'
  <1>1. ASSUME NEW t \in Turn, NEW p \in Turn \cup {None}, NEW x \in Executor,
               p # None => Known(p), CreateTurn(t, p, x)
        PROVE  ForkSeesFinalParent'
    <2>1. /\ sessionExists /\ ~Known(t)
          /\ previous'[t] = p
          /\ p # None => p \in Turn /\ base'[t] = snapshot[p]
          /\ \A u \in Turn \ {t} : /\ state'[u] = state[u]
                                   /\ previous'[u] = previous[u]
                                   /\ base'[u] = base[u]
                                   /\ snapshot'[u] = snapshot[u]
      BY <1>1 DEF CreateTurn, InsertRow, Inherited, StoreTypeOK
    <2>2. p # None => p # t /\ IsSettled(p)
      BY <1>1, <2>1 DEF CreateTurn, StoreTypeOK, Known, IsRunning, IsSettled
    <2>3. \A u \in Turn : Known(u) /\ previous[u] # None
                           => previous[u] \in Turn \ {t}
      BY <2>1 DEF ForkSeesFinalParent, StoreTypeOK, Known, IsSettled,
                  Settled, Reason
    <2> QED
      BY <2>1, <2>2, <2>3 DEF ForkSeesFinalParent, IsSettled, Known
  <1>2. ASSUME NEW t \in Turn, NEW s \in Settled, IsRunning(t), Settle(t, s)
        PROVE  ForkSeesFinalParent'
    <2>1. /\ UNCHANGED <<sessionExists, previous, base, snapshot>>
          /\ \A u \in Turn : Known(u)' <=> Known(u)
          /\ \A u \in Turn : IsSettled(u) => IsSettled(u)'
      BY <1>2 DEF Settle, Known, IsRunning, IsSettled, StoreTypeOK, Settled, Reason
    <2> QED
      BY <2>1 DEF ForkSeesFinalParent, StoreTypeOK, Known, IsSettled
  <1>3. ASSUME NEW t \in Turn, NEW r \in Reason, FreezeAndGetTurn(t, r)
        PROVE  ForkSeesFinalParent'
    BY <1>2, <1>3 DEF FreezeAndGetTurn, Settled, ForkSeesFinalParent,
                      Known, IsSettled, storeVars
  <1>4. ASSUME NEW t \in Turn, NEW s \in Settled, UpdateTurnState(t, s)
        PROVE  ForkSeesFinalParent'
    BY <1>2, <1>4 DEF UpdateTurnState
  <1>5. ASSUME NEW t \in Turn, NEW e \in {"turn.created", "event"},
               AppendToEvents(t, e)
        PROVE  ForkSeesFinalParent'
    BY <1>5 DEF AppendToEvents, LogEvent, ForkSeesFinalParent, Known, IsSettled
  <1>6. ASSUME NEW t \in Turn, WriteSnapshot(t)
        PROVE  ForkSeesFinalParent'
    <2>1. ~IsSettled(t)
      BY <1>6 DEF WriteSnapshot, BumpSnapshot, IsRunning, IsSettled, Settled, Reason
    <2>2. /\ UNCHANGED <<sessionExists, state, previous, base>>
          /\ \A u \in Turn \ {t} : snapshot'[u] = snapshot[u]
      BY <1>6 DEF WriteSnapshot, BumpSnapshot, StoreTypeOK
    <2> QED
      BY <2>1, <2>2 DEF ForkSeesFinalParent, StoreTypeOK, Known, IsSettled
  <1>7. CASE DeleteSession
    BY <1>7 DEF DeleteSession, ForkSeesFinalParent
  <1>8. CASE UNCHANGED storeVars
    BY <1>8 DEF ForkSeesFinalParent, Known, IsSettled, storeVars
  <1> QED
    BY <1>1, <1>3, <1>4, <1>5, <1>6, <1>7, <1>8 DEF StoreNext

(* A fork's inherited conversation is its parent's final one, for ever.     *)
THEOREM ForkSeesFinalParentHolds == StoreSpec => []ForkSeesFinalParent
  <1>1. StoreInit => StoreTypeOK /\ ForkSeesFinalParent
    BY StoreTypeInit DEF StoreInit, ForkSeesFinalParent, Known
  <1>2. StoreTypeOK /\ ForkSeesFinalParent /\ [StoreNext]_storeVars
          => (StoreTypeOK /\ ForkSeesFinalParent)'
    BY StoreTypeStep, ForkStep
  <1> QED
    BY <1>1, <1>2, PTL DEF StoreSpec

-----------------------------------------------------------------------------
(* First terminal write wins.                                               *)
LEMMA SettledIsFinalStep ==
  ASSUME StoreTypeOK, [StoreNext]_storeVars, sessionExists',
         NEW u \in Turn, IsSettled(u)
  PROVE  state'[u] = state[u] /\ log'[u] = log[u] /\ snapshot'[u] = snapshot[u]
  <1>0. Known(u) /\ ~IsRunning(u)
    BY DEF IsSettled, Known, IsRunning, Settled, Reason
  <1>1. ASSUME NEW t \in Turn, NEW p \in Turn \cup {None}, NEW x \in Executor,
               CreateTurn(t, p, x)
        PROVE  state'[u] = state[u] /\ log'[u] = log[u] /\ snapshot'[u] = snapshot[u]
    BY <1>0, <1>1 DEF CreateTurn, InsertRow, Inherited, StoreTypeOK
  <1>2. ASSUME NEW t \in Turn, NEW r \in Reason, FreezeAndGetTurn(t, r)
        PROVE  state'[u] = state[u] /\ log'[u] = log[u] /\ snapshot'[u] = snapshot[u]
    BY <1>0, <1>2 DEF FreezeAndGetTurn, Settle, StoreTypeOK, storeVars
  <1>3. ASSUME NEW t \in Turn, NEW s \in Settled, UpdateTurnState(t, s)
        PROVE  state'[u] = state[u] /\ log'[u] = log[u] /\ snapshot'[u] = snapshot[u]
    BY <1>0, <1>3 DEF UpdateTurnState, Settle, StoreTypeOK
  <1>4. ASSUME NEW t \in Turn, NEW e \in {"turn.created", "event"},
               AppendToEvents(t, e)
        PROVE  state'[u] = state[u] /\ log'[u] = log[u] /\ snapshot'[u] = snapshot[u]
    BY <1>0, <1>4 DEF AppendToEvents, LogEvent, StoreTypeOK
  <1>5. ASSUME NEW t \in Turn, WriteSnapshot(t)
        PROVE  state'[u] = state[u] /\ log'[u] = log[u] /\ snapshot'[u] = snapshot[u]
    BY <1>0, <1>5 DEF WriteSnapshot, BumpSnapshot, StoreTypeOK
  <1>6. CASE DeleteSession
    BY <1>6 DEF DeleteSession
  <1>7. CASE UNCHANGED storeVars
    BY <1>7 DEF storeVars
  <1> QED
    BY <1>1, <1>2, <1>3, <1>4, <1>5, <1>6, <1>7 DEF StoreNext

(* No step changes the verdict, the log or the snapshot of a settled turn.  *)
THEOREM SettledIsFinalHolds == StoreSpec => SettledIsFinal
  <1>1. StoreTypeOK /\ [StoreNext]_storeVars =>
          [\A t \in Turn : (IsSettled(t) /\ sessionExists') =>
              /\ state'[t] = state[t]
              /\ log'[t] = log[t]
              /\ snapshot'[t] = snapshot[t]]_storeVars
    BY SettledIsFinalStep
  <1> QED
    BY <1>1, StoreTypeCorrect, PTL DEF StoreSpec, SettledIsFinal

-----------------------------------------------------------------------------
(* The metrics.                                                             *)
KnownTurns == {t \in Turn : Known(t)}
SettledTurns == {t \in Turn : IsSettled(t)}

LEMMA CountOneMore ==
  ASSUME NEW S \in SUBSET Turn, NEW t \in Turn, t \notin S
  PROVE  Cardinality(S \cup {t}) = Cardinality(S) + 1
  BY TurnsAssumption, FS_Subset, FS_AddElement

LEMMA MetricsStep ==
  ASSUME StoreTypeOK, MetricsFoldOnce, [StoreNext]_storeVars
  PROVE  MetricsFoldOnce'
  <1>1. ASSUME NEW t \in Turn, NEW p \in Turn \cup {None}, NEW x \in Executor,
               CreateTurn(t, p, x)
        PROVE  MetricsFoldOnce'
    <2>1. /\ sessionExists /\ ~Known(t) /\ ~IsSettled(t)
          /\ totalTurns' = totalTurns + 1 /\ folded' = folded
          /\ Known(t)' /\ ~IsSettled(t)'
          /\ \A u \in Turn \ {t} : state'[u] = state[u]
      BY <1>1 DEF CreateTurn, InsertRow, StoreTypeOK, Known, IsSettled, Settled, Reason
    <2>2. KnownTurns' = KnownTurns \cup {t} /\ t \notin KnownTurns
      BY <2>1 DEF KnownTurns, Known
    <2>3. SettledTurns' = SettledTurns
      BY <2>1 DEF SettledTurns, IsSettled
    <2>4. Cardinality(KnownTurns') = Cardinality(KnownTurns) + 1
      BY <2>2, CountOneMore DEF KnownTurns
    <2> QED
      BY <2>1, <2>3, <2>4 DEF MetricsFoldOnce, KnownTurns, SettledTurns
  <1>2. ASSUME NEW t \in Turn, NEW s \in Settled, IsRunning(t), Settle(t, s)
        PROVE  MetricsFoldOnce'
    <2>1. /\ sessionExists' = sessionExists
          /\ totalTurns' = totalTurns /\ folded' = folded + 1
          /\ Known(t) /\ ~IsSettled(t) /\ Known(t)' /\ IsSettled(t)'
          /\ \A u \in Turn \ {t} : state'[u] = state[u]
      BY <1>2 DEF Settle, StoreTypeOK, IsRunning, Known, IsSettled, Settled, Reason
    <2>2. SettledTurns' = SettledTurns \cup {t} /\ t \notin SettledTurns
      BY <2>1 DEF SettledTurns, IsSettled
    <2>3. KnownTurns' = KnownTurns
      BY <2>1 DEF KnownTurns, Known
    <2>4. Cardinality(SettledTurns') = Cardinality(SettledTurns) + 1
      BY <2>2, CountOneMore DEF SettledTurns
    <2> QED
      BY <2>1, <2>3, <2>4 DEF MetricsFoldOnce, KnownTurns, SettledTurns
  <1>3. ASSUME UNCHANGED <<sessionExists, totalTurns, folded, state>>
        PROVE  MetricsFoldOnce'
    BY <1>3 DEF MetricsFoldOnce, Known, IsSettled
  <1>4. ASSUME NEW t \in Turn, NEW r \in Reason, FreezeAndGetTurn(t, r)
        PROVE  MetricsFoldOnce'
    BY <1>2, <1>3, <1>4 DEF FreezeAndGetTurn, Settled, storeVars
  <1>5. ASSUME NEW t \in Turn, NEW s \in Settled, UpdateTurnState(t, s)
        PROVE  MetricsFoldOnce'
    BY <1>2, <1>5 DEF UpdateTurnState
  <1>6. ASSUME NEW t \in Turn, NEW e \in {"turn.created", "event"},
               AppendToEvents(t, e)
        PROVE  MetricsFoldOnce'
    BY <1>3, <1>6 DEF AppendToEvents, LogEvent
  <1>7. ASSUME NEW t \in Turn, WriteSnapshot(t)
        PROVE  MetricsFoldOnce'
    BY <1>3, <1>7 DEF WriteSnapshot, BumpSnapshot
  <1>8. CASE DeleteSession
    BY <1>8 DEF DeleteSession, MetricsFoldOnce
  <1>9. CASE UNCHANGED storeVars
    BY <1>3, <1>9 DEF storeVars
  <1> QED
    BY <1>1, <1>4, <1>5, <1>6, <1>7, <1>8, <1>9 DEF StoreNext

(* Every settled turn is folded into the session's metrics exactly once,    *)
(* whichever of its writers settled it, and total_turns counts the turns.   *)
THEOREM MetricsFoldOnceHolds == StoreSpec => []MetricsFoldOnce
  <1>1. StoreInit => StoreTypeOK /\ MetricsFoldOnce
    <2>1. SUFFICES ASSUME StoreInit PROVE MetricsFoldOnce
      BY StoreTypeInit
    <2>2. {t \in Turn : Known(t)} = {} /\ {t \in Turn : IsSettled(t)} = {}
      BY <2>1 DEF StoreInit, Known, IsSettled, Settled, Reason
    <2> QED
      BY <2>1, <2>2, FS_EmptySet DEF StoreInit, MetricsFoldOnce
  <1>2. StoreTypeOK /\ MetricsFoldOnce /\ [StoreNext]_storeVars
          => (StoreTypeOK /\ MetricsFoldOnce)'
    BY StoreTypeStep, MetricsStep
  <1> QED
    BY <1>1, <1>2, PTL DEF StoreSpec
=============================================================================
