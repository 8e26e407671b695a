------------------------ MODULE PgTurnStoreProofs --------------------------
(***************************************************************************)
(* PostgresSessionStore proved to keep the store contract, for any number  *)
(* of turns, connections and failures: what its row locks protect, and why *)
(* each commit is one step of TurnStore.                                   *)
(***************************************************************************)
EXTENDS PgTurnStore, TurnStoreProofs

At == {"idle", "tip", "previous", "rows", "flip", "done", "fold", "assemble",
       "fence", "store", "patch", "session", "cascade", "return"}
Arg == Executor \cup Settled \cup Event \cup {"none"}

(* The call a connection executes at each of its statements.                *)
Fits(l, c) ==
    /\ l \in {"tip", "previous", "rows"} =>
          c.op = "create" /\ c.turn \in Turn /\ c.arg \in Executor
    /\ l \in {"flip", "done", "fold"} => c.op \in {"freeze", "update"}
    /\ l = "assemble" => c.op = "freeze"
    /\ l \in {"fence", "store"} => c.op \in {"append", "write", "remove"}
    /\ l = "patch" => c.op = "patch"
    /\ l \in {"session", "cascade"} => c.op = "delete"
    /\ l = "cascade" => c.turn \in Turn
    /\ l = "return" => c.op \in {"freeze", "update", "delete"} \cup Writes
    /\ l = "idle" => c.op = "none"
    /\ c.op \in {"freeze", "update"} \cup Writes => c.turn \in Turn
    /\ c.op = "freeze" => c.arg \in Reason
    /\ c.op = "update" => c.arg \in Settled
    /\ c.op = "append" => c.arg \in {"turn.created", "event"}

PgTypeInv == PgTypeOK /\ \A k \in Conn : Fits(at[k], call[k])

-----------------------------------------------------------------------------
(* What a statement locks.                                                  *)
LEMMA WantedType ==
  ASSUME PgTypeInv, NEW k \in Conn
  PROVE  Wanted(k).row \in Row /\ Wanted(k).mode \in 0..Update
  <1>1. Session \in Row /\ Turn \subseteq Row
    BY DEF Row
  <1>2. Fits(at[k], call[k]) /\ at[k] \in At
    BY DEF PgTypeInv, PgTypeOK, At
  <1>3. at[k] \in {"flip", "patch", "fence", "cascade"} => call[k].turn \in Row
    BY <1>1, <1>2 DEF Fits, Writes
  <1> QED
    BY <1>1, <1>2, <1>3 DEF Wanted, KeyShare, Share, NoKeyUpdate, Update, At

LEMMA LockGives ==
  ASSUME PgTypeInv, NEW k \in Conn, Lock(k)
  PROVE  /\ locks' \in [Conn -> [Row -> 0..Update]]
         /\ \A j \in Conn : j # k => locks'[j] = locks[j]
         /\ \A r \in Row : r # Wanted(k).row => locks'[k][r] = locks[k][r]
         /\ locks'[k][Wanted(k).row] \in {locks[k][Wanted(k).row], Wanted(k).mode}
         /\ locks'[k][Wanted(k).row] >= locks[k][Wanted(k).row]
         /\ locks'[k][Wanted(k).row] >= Wanted(k).mode
  <1> DEFINE w == Wanted(k).row
             m == Wanted(k).mode
  <1>1. w \in Row /\ m \in 0..Update
    BY WantedType
  <1>2. locks \in [Conn -> [Row -> 0..Update]]
    BY DEF PgTypeInv, PgTypeOK
  <1>3. locks' = [locks EXCEPT ![k][w] = IF m > locks[k][w] THEN m ELSE locks[k][w]]
    BY DEF Lock
  <1> HIDE DEF w, m
  <1>4. Update \in Nat
    BY DEF Update
  <1>5. locks[k][w] \in 0..Update
    BY <1>1, <1>2
  <1> QED
    BY <1>1, <1>2, <1>3, <1>4, <1>5 DEF w, m

LEMMA ModeFacts ==
  /\ KeyShare = 1 /\ Share = 2 /\ NoKeyUpdate = 3 /\ Update = 4
  /\ Session \in Row /\ Turn \subseteq Row /\ Session \notin Turn /\ None \notin Turn
  /\ \A m, n \in 0..Update : Conflict(m, n) <=> m + n >= 5
  BY SessionAssumption, NoneAssumption
  DEF KeyShare, Share, NoKeyUpdate, Update, Row, Conflict

LEMMA NoLocksType == NoLocks \in [Row -> 0..Update] /\ \A r \in Row : NoLocks[r] = 0
  BY DEF NoLocks, Update

-----------------------------------------------------------------------------
(* The step of one connection.                                              *)
Statement(k) ==
    \/ LockTip(k) \/ ReadPrevious(k) \/ InsertRows(k)
    \/ FlipTurn(k) \/ InsertDone(k) \/ FoldMetrics(k) \/ Assemble(k)
    \/ Fence(k) \/ InsertFenced(k) \/ PatchRow(k)
    \/ DeleteRow(k) \/ DeleteTurn(k) \/ Commit(k)

Step(k) == Call(k) \/ Statement(k) \/ Fail(k) \/ Victim(k)

LEMMA NextIsStep == PgNext <=> \E k \in Conn : Step(k)
  BY DEF PgNext, Step, Statement

(* It leaves the other connections alone.                                   *)
OthersAlone(k) ==
    /\ at' = [j \in Conn |-> IF j = k THEN at'[k] ELSE at[j]]
    /\ call' = [j \in Conn |-> IF j = k THEN call'[k] ELSE call[j]]
    /\ carried' = [j \in Conn |-> IF j = k THEN carried'[k] ELSE carried[j]]
    /\ locks' = [j \in Conn |-> IF j = k THEN locks'[k] ELSE locks[j]]

LEMMA EndAlone ==
  ASSUME PgTypeInv, NEW k \in Conn, End(k)
  PROVE  /\ OthersAlone(k)
         /\ at'[k] = "idle" /\ call'[k] = NoCall /\ carried'[k] = 0 /\ locks'[k] = NoLocks
  BY DEF PgTypeInv, PgTypeOK, End, Goto, OthersAlone

LEMMA LockAlone ==
  ASSUME PgTypeInv, NEW k \in Conn, Lock(k)
  PROVE  locks' = [j \in Conn |-> IF j = k THEN locks'[k] ELSE locks[j]]
  <1>1. locks' \in [Conn -> [Row -> 0..Update]] /\ \A j \in Conn : j # k => locks'[j] = locks[j]
    BY LockGives
  <1> QED
    BY <1>1

LEMMA StepAlone ==
  ASSUME PgTypeInv, NEW k \in Conn, Step(k)
  PROVE  OthersAlone(k)
  <1>0. /\ at = [j \in Conn |-> at[j]] /\ call = [j \in Conn |-> call[j]]
        /\ carried = [j \in Conn |-> carried[j]] /\ locks = [j \in Conn |-> locks[j]]
    BY DEF PgTypeInv, PgTypeOK
  <1>1. ASSUME Call(k) PROVE OthersAlone(k)
    <2>1. ASSUME NEW l, NEW c, Begin(k, l, c) PROVE OthersAlone(k)
      BY <1>0, <2>1 DEF Begin, Goto, OthersAlone
    <2> QED
      BY <1>1, <2>1 DEF Call
  <1>2. ASSUME End(k) PROVE OthersAlone(k)
    BY <1>2, EndAlone
  <1>3. ASSUME NEW l, Lock(k), Goto(k, l), UNCHANGED <<call, carried>> PROVE OthersAlone(k)
    BY <1>0, <1>3, LockAlone DEF Goto, OthersAlone
  <1>4. ASSUME LockTip(k) PROVE OthersAlone(k)
    BY <1>2, <1>3, <1>4 DEF LockTip, Rollback
  <1>5. ASSUME ReadPrevious(k) PROVE OthersAlone(k)
    <2>1. ASSUME Goto(k, "rows"), Lock(k), UNCHANGED call,
                 carried' = [carried EXCEPT ![k] = Inherited(call[k].prev)]
          PROVE  OthersAlone(k)
      BY <1>0, <2>1, LockAlone DEF Goto, OthersAlone
    <2> QED
      BY <1>2, <1>5, <2>1 DEF ReadPrevious, Rollback
  <1>6. ASSUME InsertRows(k) PROVE OthersAlone(k)
    BY <1>2, <1>6 DEF InsertRows, Rollback
  <1>7. ASSUME FlipTurn(k) PROVE OthersAlone(k)
    <2>1. ASSUME Goto(k, "assemble"), UNCHANGED <<call, carried, locks>>
          PROVE  OthersAlone(k)
      BY <1>0, <2>1 DEF Goto, OthersAlone
    <2>2. \/ End(k) \/ (Goto(k, "assemble") /\ UNCHANGED <<call, carried, locks>>)
          \/ \E l : Lock(k) /\ Goto(k, l) /\ UNCHANGED <<call, carried>>
      BY <1>7 DEF FlipTurn, Rollback
    <2> QED
      BY <1>2, <1>3, <2>1, <2>2
  <1>8. ASSUME InsertDone(k) \/ FoldMetrics(k) \/ InsertFenced(k) PROVE OthersAlone(k)
    <2>1. \E l : Lock(k) /\ Goto(k, l) /\ UNCHANGED <<call, carried>>
      BY <1>8 DEF InsertDone, FoldMetrics, InsertFenced
    <2> QED
      BY <1>3, <2>1
  <1>9. ASSUME Fence(k) \/ PatchRow(k) PROVE OthersAlone(k)
    <2>1. End(k) \/ \E l : Lock(k) /\ Goto(k, l) /\ UNCHANGED <<call, carried>>
      BY <1>9 DEF Fence, PatchRow, Rollback
    <2> QED
      BY <1>2, <1>3, <2>1
  <1>10. ASSUME Assemble(k) PROVE OthersAlone(k)
    <2>1. ASSUME Goto(k, "return"), UNCHANGED <<call, locks>>,
                 carried' = [carried EXCEPT ![k] = snapshot[call[k].turn]]
          PROVE  OthersAlone(k)
      BY <1>0, <2>1 DEF Goto, OthersAlone
    <2> QED
      BY <1>2, <1>10, <2>1 DEF Assemble, Rollback
  <1>11. ASSUME DeleteRow(k) \/ DeleteTurn(k) PROVE OthersAlone(k)
    <2>1. ASSUME NEW u, Goto(k, "cascade"), Lock(k), UNCHANGED carried,
                 call' = [call EXCEPT ![k].turn = u]
          PROVE  OthersAlone(k)
      BY <1>0, <2>1, LockAlone DEF Goto, OthersAlone
    <2> QED
      BY <1>2, <1>3, <1>11, <2>1 DEF DeleteRow, DeleteTurn, CascadeFrom, Rollback
  <1>12. ASSUME Commit(k) \/ Fail(k) \/ Victim(k) PROVE OthersAlone(k)
    BY <1>2, <1>12 DEF Commit, Fail, Victim, Rollback
  <1> QED
    BY <1>1, <1>4, <1>5, <1>6, <1>7, <1>8, <1>9, <1>10, <1>11, <1>12 DEF Step, Statement

(* What it does to the committed rows.                                      *)
StoreEffect(k) ==
    LET c == call[k] IN
    \/ UNCHANGED storeVars
    \/ at[k] = "rows" /\ InsertRow(c.turn, c.prev, c.arg, carried[k])
    \/ at[k] = "return" /\ c.op \in {"freeze", "update"}
         /\ locks[k][c.turn] = NoKeyUpdate /\ Settle(c.turn, c.arg)
    \/ at[k] = "return" /\ c.op = "append" /\ LogEvent(c.turn, c.arg)
    \/ at[k] = "return" /\ c.op \in {"write", "remove", "patch"} /\ BumpSnapshot(c.turn)
    \/ at[k] = "return" /\ c.op = "delete" /\ DeleteSession

LEMMA StepEffect ==
  ASSUME NEW k \in Conn, Step(k)
  PROVE  StoreEffect(k)
  <1>1. ASSUME Call(k) PROVE UNCHANGED storeVars
    BY <1>1 DEF Call, Begin
  <1>2. ASSUME InsertRows(k) PROVE StoreEffect(k)
    BY <1>2 DEF InsertRows, Rollback, StoreEffect
  <1>3. ASSUME Commit(k) PROVE StoreEffect(k)
    BY <1>3 DEF Commit, StoreEffect
  <1>4. ASSUME Fail(k) \/ Victim(k) PROVE UNCHANGED storeVars
    BY <1>4 DEF Fail, Victim, Rollback
  <1>5. ASSUME \/ LockTip(k) \/ ReadPrevious(k) \/ FlipTurn(k) \/ InsertDone(k)
               \/ FoldMetrics(k) \/ Assemble(k) \/ Fence(k) \/ InsertFenced(k)
               \/ PatchRow(k) \/ DeleteRow(k) \/ DeleteTurn(k)
        PROVE  UNCHANGED storeVars
    BY <1>5 DEF LockTip, ReadPrevious, FlipTurn, InsertDone, FoldMetrics, Assemble,
                Fence, InsertFenced, PatchRow, DeleteRow, DeleteTurn, CascadeFrom, Rollback
  <1> QED
    BY <1>1, <1>2, <1>3, <1>4, <1>5 DEF Step, Statement, StoreEffect

-----------------------------------------------------------------------------
(* Type correctness.                                                        *)
LEMMA EffectType ==
  ASSUME PgTypeInv, NEW k \in Conn, StoreEffect(k)
  PROVE  StoreTypeOK'
  <1> DEFINE c == call[k]
  <1>0. StoreTypeOK /\ Fits(at[k], c) /\ carried[k] \in Nat /\ c.prev \in Turn \cup {None}
    BY DEF PgTypeInv, PgTypeOK
  <1>1. ASSUME UNCHANGED storeVars PROVE StoreTypeOK'
    BY <1>0, <1>1 DEF StoreTypeOK, storeVars
  <1>2. ASSUME at[k] = "rows", InsertRow(c.turn, c.prev, c.arg, carried[k])
        PROVE  StoreTypeOK'
    <2>1. c.turn \in Turn /\ c.arg \in Executor
      BY <1>0, <1>2 DEF Fits
    <2>2. << >> \in Seq(Event)
      OBVIOUS
    <2> HIDE DEF c
    <2> QED
      BY <1>0, <1>2, <2>1, <2>2 DEF StoreTypeOK, InsertRow
  <1>3. ASSUME c.op \in {"freeze", "update"}, Settle(c.turn, c.arg) PROVE StoreTypeOK'
    <2>1. c.turn \in Turn /\ c.arg \in Settled
      BY <1>0, <1>3 DEF Fits, Settled
    <2> QED
      BY <1>0, <1>3, <2>1, SettleType
  <1>4. ASSUME c.op = "append", LogEvent(c.turn, c.arg) PROVE StoreTypeOK'
    <2>1. c.turn \in Turn /\ c.arg \in Event
      BY <1>0, <1>4 DEF Fits, Writes, Event
    <2>2. Append(log[c.turn], c.arg) \in Seq(Event)
      BY <1>0, <2>1 DEF StoreTypeOK
    <2> HIDE DEF c
    <2> QED
      BY <1>0, <1>4, <2>1, <2>2 DEF StoreTypeOK, LogEvent
  <1>5. ASSUME c.op \in {"write", "remove", "patch"}, BumpSnapshot(c.turn) PROVE StoreTypeOK'
    <2>1. c.turn \in Turn
      BY <1>0, <1>5 DEF Fits, Writes
    <2> HIDE DEF c
    <2> QED
      BY <1>0, <1>5, <2>1 DEF StoreTypeOK, BumpSnapshot
  <1>6. ASSUME DeleteSession PROVE StoreTypeOK'
    <2>1. << >> \in Seq(Event)
      OBVIOUS
    <2> QED
      BY <1>0, <1>6, <2>1 DEF StoreTypeOK, DeleteSession
  <1> QED
    BY <1>1, <1>2, <1>3, <1>4, <1>5, <1>6 DEF StoreEffect

Calls == [op : {"none", "create", "freeze", "update", "delete"} \cup Writes,
          turn : Turn \cup {None}, prev : Turn \cup {None}, arg : Arg]

(* What a step must give its own connection.                                *)
Typed(k) ==
    /\ at'[k] \in At
    /\ call'[k] \in Calls
    /\ carried'[k] \in Nat
    /\ locks'[k] \in [Row -> 0..Update]
    /\ Fits(at'[k], call'[k])

LEMMA EndTyped ==
  ASSUME PgTypeInv, NEW k \in Conn, End(k)
  PROVE  Typed(k)
  <1>1. NoCall \in Calls /\ Fits("idle", NoCall)
    BY DEF NoCall, Calls, Arg, Fits, Writes
  <1> QED
    BY <1>1, EndAlone, NoLocksType DEF Typed, At

LEMMA LockTyped ==
  ASSUME PgTypeInv, NEW k \in Conn, Lock(k)
  PROVE  locks'[k] \in [Row -> 0..Update]
  BY LockGives

LEMMA TypeFacts ==
  ASSUME PgTypeInv, NEW k \in Conn
  PROVE  /\ at[k] \in At /\ call[k] \in Calls /\ carried[k] \in Nat
         /\ locks[k] \in [Row -> 0..Update] /\ Fits(at[k], call[k])
         /\ at \in [Conn -> At] /\ call \in [Conn -> Calls]
         /\ carried \in [Conn -> Nat] /\ locks \in [Conn -> [Row -> 0..Update]]
         /\ StoreTypeOK
  BY DEF PgTypeInv, PgTypeOK, At, Calls, Arg

LEMMA InheritedType ==
  ASSUME PgTypeInv, NEW p \in Turn \cup {None}
  PROVE  Inherited(p) \in Nat
  BY DEF PgTypeInv, PgTypeOK, StoreTypeOK, Inherited

LEMMA CallTyped ==
  ASSUME PgTypeInv, NEW k \in Conn, Call(k)
  PROVE  Typed(k)
  <1>0. /\ at \in [Conn -> At] /\ call \in [Conn -> Calls]
        /\ carried[k] \in Nat /\ locks[k] \in [Row -> 0..Update]
    BY TypeFacts
  <1>1. ASSUME NEW l \in At, NEW c \in Calls, Fits(l, c), Begin(k, l, c) PROVE Typed(k)
    BY <1>0, <1>1 DEF Begin, Goto, Typed
  <1>2. ASSUME NEW t \in Turn, NEW p \in Turn \cup {None}, NEW x \in Executor,
               Begin(k, "tip", [op |-> "create", turn |-> t, prev |-> p, arg |-> x])
        PROVE  Typed(k)
    BY <1>1, <1>2 DEF At, Calls, Fits, Writes, Arg
  <1>3. ASSUME NEW t \in Turn, NEW r \in Verdict \cap Reason,
               Begin(k, "flip", [op |-> "freeze", turn |-> t, prev |-> None, arg |-> r])
        PROVE  Typed(k)
    <2>1. r \in Reason /\ r \in Settled
      BY VerdictAssumption
    <2> QED
      BY <1>1, <1>3, <2>1 DEF At, Calls, Fits, Writes, Arg
  <1>4. ASSUME NEW t \in Turn, NEW s \in Verdict,
               Begin(k, "flip", [op |-> "update", turn |-> t, prev |-> None, arg |-> s])
        PROVE  Typed(k)
    <2>1. s \in Settled
      BY VerdictAssumption
    <2> QED
      BY <1>1, <1>4, <2>1 DEF At, Calls, Fits, Writes, Arg
  <1>5. ASSUME NEW t \in Turn, NEW e \in {"turn.created", "event"},
               Begin(k, "fence", [op |-> "append", turn |-> t, prev |-> None, arg |-> e])
        PROVE  Typed(k)
    BY <1>1, <1>5 DEF At, Calls, Fits, Writes, Arg, Event
  <1>6. ASSUME NEW t \in Turn, NEW o \in {"write", "remove", "patch"},
               Begin(k, IF o = "patch" THEN "patch" ELSE "fence",
                     [op |-> o, turn |-> t, prev |-> None, arg |-> "none"])
        PROVE  Typed(k)
    <2>1. CASE o = "patch"
      BY <1>1, <1>6, <2>1 DEF At, Calls, Fits, Writes, Arg
    <2>2. CASE o \in {"write", "remove"}
      BY <1>1, <1>6, <2>2 DEF At, Calls, Fits, Writes, Arg
    <2> QED
      BY <2>1, <2>2
  <1>7. ASSUME Begin(k, "session", [op |-> "delete", turn |-> None, prev |-> None,
                                    arg |-> "none"])
        PROVE  Typed(k)
    BY <1>1, <1>7 DEF At, Calls, Fits, Writes, Arg
  <1> QED
    BY <1>2, <1>3, <1>4, <1>5, <1>6, <1>7 DEF Call

LEMMA StatementTyped ==
  ASSUME PgTypeInv, NEW k \in Conn, Statement(k)
  PROVE  Typed(k)
  <1>0. /\ at[k] \in At /\ call[k] \in Calls /\ carried[k] \in Nat
        /\ locks[k] \in [Row -> 0..Update] /\ Fits(at[k], call[k])
        /\ at \in [Conn -> At] /\ call \in [Conn -> Calls] /\ carried \in [Conn -> Nat]
        /\ StoreTypeOK
    BY TypeFacts
  <1>1. ASSUME End(k) PROVE Typed(k)
    BY <1>1, EndTyped
  <1>2. ASSUME NEW l \in At, Goto(k, l), Lock(k), UNCHANGED <<call, carried>>,
               Fits(l, call[k])
        PROVE  Typed(k)
    BY <1>0, <1>2, LockTyped DEF Goto, Typed
  <1>3. ASSUME LockTip(k) PROVE Typed(k)
    <2>1. at[k] = "tip" => Fits("previous", call[k])
      BY <1>0 DEF Fits
    <2> QED
      BY <1>1, <1>2, <1>3, <2>1 DEF LockTip, Rollback, At
  <1>4. ASSUME ReadPrevious(k) PROVE Typed(k)
    <2>1. at[k] = "previous" => Fits("rows", call[k])
      BY <1>0 DEF Fits
    <2>2. Inherited(call[k].prev) \in Nat
      BY <1>0, InheritedType DEF Calls
    <2>3. ASSUME Goto(k, "rows"), Lock(k), UNCHANGED call, at[k] = "previous",
                 carried' = [carried EXCEPT ![k] = Inherited(call[k].prev)]
          PROVE  Typed(k)
      BY <1>0, <2>1, <2>2, <2>3, LockTyped DEF Goto, Typed, At
    <2> QED
      BY <1>1, <1>4, <2>3 DEF ReadPrevious, Rollback
  <1>5. ASSUME InsertRows(k) \/ Commit(k) PROVE Typed(k)
    BY <1>1, <1>5 DEF InsertRows, Rollback, Commit
  <1>6. ASSUME FlipTurn(k) PROVE Typed(k)
    <2>1. at[k] = "flip" => Fits("done", call[k]) /\ Fits("fold", call[k])
      BY <1>0 DEF Fits
    <2>2. at[k] = "flip" /\ call[k].op = "freeze" => Fits("assemble", call[k])
      BY <1>0 DEF Fits
    <2>3. ASSUME Goto(k, "assemble"), UNCHANGED <<call, carried, locks>>,
                 at[k] = "flip", call[k].op = "freeze"
          PROVE  Typed(k)
      BY <1>0, <2>2, <2>3 DEF Goto, Typed, At
    <2>4. ASSUME Goto(k, IF call[k].op = "freeze" THEN "done" ELSE "fold"), Lock(k),
                 UNCHANGED <<call, carried>>, at[k] = "flip"
          PROVE  Typed(k)
      BY <1>2, <2>1, <2>4 DEF At
    <2> QED
      BY <1>1, <1>6, <2>3, <2>4 DEF FlipTurn, Rollback
  <1>7. ASSUME InsertDone(k) PROVE Typed(k)
    <2>1. at[k] = "done" => Fits("fold", call[k]) /\ Fits("return", call[k])
      BY <1>0 DEF Fits
    <2> QED
      BY <1>2, <1>7, <2>1 DEF InsertDone, At
  <1>8. ASSUME FoldMetrics(k) PROVE Typed(k)
    <2>1. /\ at[k] = "fold" => Fits("done", call[k])
          /\ at[k] = "fold" /\ call[k].op = "freeze" => Fits("assemble", call[k])
      BY <1>0 DEF Fits
    <2> QED
      BY <1>2, <1>8, <2>1 DEF FoldMetrics, At
  <1>9. ASSUME Assemble(k) PROVE Typed(k)
    <2>1. at[k] = "assemble" => Fits("return", call[k]) /\ call[k].turn \in Turn
      BY <1>0 DEF Fits
    <2>2. at[k] = "assemble" => snapshot[call[k].turn] \in Nat
      BY <1>0, <2>1 DEF StoreTypeOK
    <2>3. ASSUME Goto(k, "return"), UNCHANGED <<call, locks>>, at[k] = "assemble",
                 carried' = [carried EXCEPT ![k] = snapshot[call[k].turn]]
          PROVE  Typed(k)
      BY <1>0, <2>1, <2>2, <2>3 DEF Goto, Typed, At
    <2> QED
      BY <1>1, <1>9, <2>3 DEF Assemble, Rollback
  <1>10. ASSUME Fence(k) PROVE Typed(k)
    <2>1. at[k] = "fence" => Fits("store", call[k]) /\ Fits("return", call[k])
      BY <1>0 DEF Fits, Writes
    <2> QED
      BY <1>1, <1>2, <1>10, <2>1 DEF Fence, Rollback, At
  <1>11. ASSUME InsertFenced(k) \/ PatchRow(k) PROVE Typed(k)
    <2>1. at[k] \in {"store", "patch"} => Fits("return", call[k])
      BY <1>0 DEF Fits, Writes
    <2> QED
      BY <1>1, <1>2, <1>11, <2>1 DEF InsertFenced, PatchRow, Rollback, At
  <1>12. ASSUME DeleteRow(k) \/ DeleteTurn(k) PROVE Typed(k)
    <2>1. at[k] \in {"session", "cascade"} => call[k].op = "delete"
      BY <1>0 DEF Fits
    <2>2. call[k].op = "delete" => Fits("return", call[k])
      BY DEF Fits, Writes
    <2>3. ASSUME NEW u \in Turn, Goto(k, "cascade"), Lock(k), UNCHANGED carried,
                 call' = [call EXCEPT ![k].turn = u], call[k].op = "delete"
          PROVE  Typed(k)
      <3>1. call'[k] \in Calls /\ call'[k].op = "delete" /\ call'[k].turn = u
        BY <1>0, <2>3 DEF Calls
      <3>2. Fits("cascade", call'[k])
        BY <3>1 DEF Fits, Writes
      <3> QED
        BY <1>0, <2>3, <3>1, <3>2, LockTyped DEF Goto, Typed, At
    <2>4. ASSUME CascadeFrom(k), call[k].op = "delete" PROVE Typed(k)
      BY <1>2, <2>2, <2>3, <2>4 DEF CascadeFrom, Remaining, At
    <2> QED
      BY <1>1, <1>12, <2>1, <2>4 DEF DeleteRow, DeleteTurn, Rollback
  <1> QED
    BY <1>3, <1>4, <1>5, <1>6, <1>7, <1>8, <1>9, <1>10, <1>11, <1>12 DEF Statement

LEMMA StepTyped ==
  ASSUME PgTypeInv, NEW k \in Conn, Step(k)
  PROVE  Typed(k)
  <1>1. Fail(k) \/ Victim(k) => End(k)
    BY DEF Fail, Victim, Rollback
  <1> QED
    BY <1>1, CallTyped, StatementTyped, EndTyped DEF Step

LEMMA PgTypeStep ==
  ASSUME PgTypeInv, NEW k \in Conn, Step(k)
  PROVE  PgTypeInv'
  <1>1. OthersAlone(k) /\ Typed(k)
    BY StepAlone, StepTyped
  <1>2. StoreTypeOK'
    BY StepEffect, EffectType
  <1>3. /\ at' \in [Conn -> At] /\ call' \in [Conn -> Calls]
        /\ carried' \in [Conn -> Nat] /\ locks' \in [Conn -> [Row -> 0..Update]]
    BY <1>1, TypeFacts DEF OthersAlone, Typed
  <1>4. \A j \in Conn : Fits(at'[j], call'[j])
    BY <1>1, TypeFacts DEF OthersAlone, Typed
  <1>5. failures' \in 0..MaxFailures
    <2>1. UNCHANGED failures \/ (failures < MaxFailures /\ failures' = failures + 1)
      <3>1. Call(k) => UNCHANGED failures
        BY DEF Call, Begin
      <3>2. Statement(k) => UNCHANGED failures
        BY DEF Statement, LockTip, ReadPrevious, InsertRows, FlipTurn, InsertDone,
               FoldMetrics, Assemble, Fence, InsertFenced, PatchRow, DeleteRow,
               DeleteTurn, Commit
      <3>3. Fail(k) => failures < MaxFailures /\ failures' = failures + 1
        BY DEF Fail
      <3>4. Victim(k) => UNCHANGED failures
        BY DEF Victim
      <3> QED
        BY <3>1, <3>2, <3>3, <3>4 DEF Step
    <2>2. failures \in 0..MaxFailures
      BY DEF PgTypeInv, PgTypeOK
    <2> QED
      BY <2>1, <2>2, FailureAssumption
  <1> QED
    BY <1>2, <1>3, <1>4, <1>5 DEF PgTypeInv, PgTypeOK, At, Calls, Arg

LEMMA PgTypeStutter ==
  ASSUME PgTypeInv, UNCHANGED pgVars
  PROVE  PgTypeInv'
  BY DEF PgTypeInv, PgTypeOK, StoreTypeOK, pgVars, storeVars, callVars, Fits

LEMMA PgTypeInit == PgInit => PgTypeInv
  <1> SUFFICES ASSUME PgInit PROVE PgTypeInv
    OBVIOUS
  <1>1. StoreTypeOK
    BY StoreTypeInit DEF PgInit
  <1>2. NoCall \in Calls /\ Fits("idle", NoCall)
    BY DEF NoCall, Calls, Arg, Fits, Writes
  <1>3. /\ at \in [Conn -> At] /\ call \in [Conn -> Calls] /\ carried \in [Conn -> Nat]
        /\ locks \in [Conn -> [Row -> 0..Update]]
        /\ \A k \in Conn : Fits(at[k], call[k])
    BY <1>2, NoLocksType DEF PgInit, At
  <1>4. failures \in 0..MaxFailures
    BY FailureAssumption DEF PgInit
  <1> QED
    BY <1>1, <1>3, <1>4 DEF PgTypeInv, PgTypeOK, At, Calls, Arg

(* Statements, calls, snapshots read, locks and committed rows have their   *)
(* types in every reachable state.                                          *)
THEOREM PgTypeCorrect == PgSpec => []PgTypeOK
  <1>1. PgTypeInv /\ [PgNext]_pgVars => PgTypeInv'
    BY PgTypeStep, PgTypeStutter, NextIsStep
  <1>2. PgTypeInv => PgTypeOK
    BY DEF PgTypeInv
  <1> QED
    BY PgTypeInit, <1>1, <1>2, PTL DEF PgSpec

-----------------------------------------------------------------------------
(* What the locks of a transaction protect.                                 *)
Exclusive ==
    \A j, k \in Conn : j # k => \A r \in Row : ~Conflict(locks[j][r], locks[k][r])

(* A transaction that waits for its first row holds nothing.                *)
EmptyHanded(k) ==
    at[k] \in {"idle", "tip", "flip", "fence", "patch", "session"} =>
        \A r \in Row : locks[k][r] = 0

SoleWrites ==
    \A j, k \in Conn :
        (j # k /\ call[j].op \in Writes /\ call[k].op \in Writes) =>
            call[j].turn # call[k].turn

Gone == ~sessionExists => \A t \in Turn : ~Known(t)

(* Room under the bounds of the model, kept for the only writer.            *)
Room(k) ==
    IF call[k].op = "append" THEN Logged(call[k].turn) < MaxEvents
                             ELSE snapshot[call[k].turn] < MaxWrites

Creating(k) ==
    call[k].op = "create" =>
        /\ (sessionExists /\ call[k].prev # None) => Known(call[k].prev)
        /\ at[k] \in {"previous", "rows"} =>
              sessionExists /\ locks[k][Session] = Update
        /\ at[k] = "rows" =>
              /\ call[k].prev # None => ~IsRunning(call[k].prev)
              /\ carried[k] = Inherited(call[k].prev)

Writing(k) ==
    call[k].op \in Writes =>
        /\ sessionExists => Known(call[k].turn) /\ Room(k)
        /\ at[k] \in {"store", "return"} =>
              IsRunning(call[k].turn) /\ locks[k][call[k].turn] >= Share
        /\ locks[k][Session] \in {0, KeyShare}

Settling(k) ==
    call[k].op \in {"freeze", "update"} =>
        /\ sessionExists => Known(call[k].turn)
        /\ locks[k][call[k].turn] \in {0, NoKeyUpdate}
        /\ locks[k][call[k].turn] = NoKeyUpdate => IsRunning(call[k].turn)
        /\ (at[k] \in {"done", "fold"} \/ (call[k].op = "update" /\ at[k] = "return")) =>
              locks[k][call[k].turn] = NoKeyUpdate
        /\ (at[k] \in {"assemble", "return"} /\ locks[k][call[k].turn] = 0) =>
              ~IsRunning(call[k].turn)
        /\ (call[k].op = "freeze" /\ at[k] = "return" /\ sessionExists) =>
              carried[k] = snapshot[call[k].turn]
        /\ locks[k][Session] \in {0, KeyShare, NoKeyUpdate}
        /\ locks[k][Session] = NoKeyUpdate =>
              \/ call[k].op = "freeze" /\ at[k] \in {"assemble", "return"}
              \/ call[k].op = "update" /\ at[k] \in {"done", "return"}

Deleting(k) ==
    call[k].op = "delete" =>
        /\ at[k] \in {"cascade", "return"} =>
              sessionExists /\ locks[k][Session] = Update
        /\ at[k] = "return" =>
              \A t \in Turn : Known(t) => locks[k][t] = Update

Protects(k) == EmptyHanded(k) /\ Creating(k) /\ Writing(k) /\ Settling(k) /\ Deleting(k)

PgInv ==
    /\ PgTypeInv
    /\ Exclusive
    /\ SoleWrites
    /\ Gone
    /\ \A k \in Conn : Protects(k)

-----------------------------------------------------------------------------
LEMMA ExclusiveStep ==
  ASSUME PgInv, NEW k \in Conn, Step(k)
  PROVE  Exclusive'
  <1>0. PgTypeInv /\ Exclusive /\ PgTypeInv'
    BY PgTypeStep DEF PgInv
  <1>1. ASSUME NEW j \in Conn, j # k PROVE locks'[j] = locks[j]
    BY <1>1, StepAlone, <1>0 DEF OthersAlone
  <1>2. \A j \in Conn : locks[j] \in [Row -> 0..Update]
    BY <1>0, TypeFacts
  <1>3. ASSUME \/ locks'[k] = locks[k]
               \/ locks'[k] = NoLocks
               \/ Granted(k) /\ Lock(k)
        PROVE  \A j \in Conn : j # k => \A r \in Row :
                  ~Conflict(locks[j][r], locks'[k][r]) /\ ~Conflict(locks'[k][r], locks[j][r])
    <2>1. SUFFICES ASSUME NEW j \in Conn, j # k, NEW r \in Row
          PROVE  ~Conflict(locks[j][r], locks'[k][r]) /\ ~Conflict(locks'[k][r], locks[j][r])
      OBVIOUS
    <2>2. locks[j][r] \in 0..4 /\ locks[k][r] \in 0..4
      BY <1>2, ModeFacts
    <2>3. ~Conflict(locks[j][r], locks[k][r]) /\ ~Conflict(locks[k][r], locks[j][r])
      BY <1>0, <2>1 DEF Exclusive
    <2>4. CASE locks'[k] = locks[k]
      BY <2>3, <2>4
    <2>5. CASE locks'[k] = NoLocks
      BY <2>2, <2>5, NoLocksType DEF Conflict
    <2>6. CASE Granted(k) /\ Lock(k)
      <3>1. CASE r # Wanted(k).row
        BY <1>0, <2>3, <2>6, <3>1, LockGives
      <3>2. CASE r = Wanted(k).row
        <4>1. locks'[k][r] \in {locks[k][r], Wanted(k).mode}
          BY <1>0, <2>6, <3>2, LockGives
        <4>2. ~Conflict(locks[j][r], Wanted(k).mode)
          BY <2>1, <2>6, <3>2 DEF Granted, WaitsFor
        <4>3. Wanted(k).mode \in 0..4
          BY <1>0, WantedType, ModeFacts
        <4>4. ~Conflict(Wanted(k).mode, locks[j][r])
          BY <2>2, <4>2, <4>3 DEF Conflict
        <4> QED
          BY <2>3, <4>1, <4>2, <4>4
      <3> QED
        BY <3>1, <3>2
    <2> QED
      BY <1>3, <2>4, <2>5, <2>6
  <1>4. \/ locks'[k] = locks[k]
        \/ locks'[k] = NoLocks
        \/ Granted(k) /\ Lock(k)
    <2>1. Call(k) => locks'[k] = locks[k]
      BY DEF Call, Begin
    <2>2. Fail(k) \/ Victim(k) \/ InsertRows(k) \/ Commit(k) => locks'[k] = NoLocks
      BY <1>0, EndAlone DEF Fail, Victim, InsertRows, Commit, Rollback
    <2>3. ASSUME LockTip(k) \/ ReadPrevious(k) \/ InsertDone(k) \/ FoldMetrics(k)
                 \/ Fence(k) \/ InsertFenced(k) \/ PatchRow(k) \/ DeleteRow(k) \/ DeleteTurn(k)
          PROVE  End(k) \/ (Granted(k) /\ Lock(k))
      BY <2>3 DEF LockTip, ReadPrevious, InsertDone, FoldMetrics, Fence, InsertFenced,
                  PatchRow, DeleteRow, DeleteTurn, CascadeFrom, Rollback
    <2>4. ASSUME FlipTurn(k) \/ Assemble(k)
          PROVE  End(k) \/ (Granted(k) /\ Lock(k)) \/ UNCHANGED locks
      BY <2>4 DEF FlipTurn, Assemble, Rollback
    <2> QED
      BY <1>0, <2>1, <2>2, <2>3, <2>4, EndAlone DEF Step, Statement
  <1>5. SUFFICES ASSUME NEW i \in Conn, NEW j \in Conn, i # j, NEW r \in Row
        PROVE  ~Conflict(locks'[i][r], locks'[j][r])
    BY DEF Exclusive
  <1>6. CASE i = k
    BY <1>1, <1>3, <1>4, <1>5, <1>6
  <1>7. CASE j = k
    BY <1>1, <1>3, <1>4, <1>5, <1>7
  <1>8. CASE i # k /\ j # k
    BY <1>0, <1>1, <1>5, <1>8 DEF Exclusive
  <1> QED
    BY <1>6, <1>7, <1>8

(* What a caller has read when it calls.                                    *)
LEMMA CallGives ==
  ASSUME PgTypeInv, NEW k \in Conn, Call(k)
  PROVE  /\ at[k] = "idle" /\ UNCHANGED <<storeVars, carried, locks>>
         /\ at'[k] \in {"tip", "flip", "fence", "patch", "session"}
         /\ call'[k].op = "create" /\ call'[k].prev # None => Known(call'[k].prev)
         /\ call'[k].op \in {"freeze", "update"} => Known(call'[k].turn)
         /\ call'[k].op \in Writes =>
               /\ Known(call'[k].turn) /\ Sole(call'[k].turn)
               /\ IF call'[k].op = "append" THEN Logged(call'[k].turn) < MaxEvents
                                            ELSE snapshot[call'[k].turn] < MaxWrites
  <1> DEFINE Goal ==
         /\ at[k] = "idle" /\ UNCHANGED <<storeVars, carried, locks>>
         /\ at'[k] \in {"tip", "flip", "fence", "patch", "session"}
         /\ call'[k].op = "create" /\ call'[k].prev # None => Known(call'[k].prev)
         /\ call'[k].op \in {"freeze", "update"} => Known(call'[k].turn)
         /\ call'[k].op \in Writes =>
               /\ Known(call'[k].turn) /\ Sole(call'[k].turn)
               /\ IF call'[k].op = "append" THEN Logged(call'[k].turn) < MaxEvents
                                            ELSE snapshot[call'[k].turn] < MaxWrites
  <1>0. ASSUME NEW l, NEW c, Begin(k, l, c)
        PROVE  /\ call'[k] = c /\ at'[k] = l /\ at[k] = "idle"
               /\ UNCHANGED <<storeVars, carried, locks>>
    BY <1>0, TypeFacts DEF Begin, Goto
  <1>1. ASSUME NEW t \in Turn, NEW p \in Turn \cup {None}, NEW x \in Executor,
               p # None => Known(p),
               Begin(k, "tip", [op |-> "create", turn |-> t, prev |-> p, arg |-> x])
        PROVE  Goal
    BY <1>0, <1>1 DEF Writes
  <1>2. ASSUME NEW t \in Turn, NEW r \in Verdict \cap Reason, Known(t),
               Begin(k, "flip", [op |-> "freeze", turn |-> t, prev |-> None, arg |-> r])
        PROVE  Goal
    BY <1>0, <1>2 DEF Writes
  <1>3. ASSUME NEW t \in Turn, NEW s \in Verdict, Known(t),
               Begin(k, "flip", [op |-> "update", turn |-> t, prev |-> None, arg |-> s])
        PROVE  Goal
    BY <1>0, <1>3 DEF Writes
  <1>4. ASSUME NEW t \in Turn, NEW e \in {"turn.created", "event"},
               Known(t), Sole(t), Logged(t) < MaxEvents,
               Begin(k, "fence", [op |-> "append", turn |-> t, prev |-> None, arg |-> e])
        PROVE  Goal
    BY <1>0, <1>4 DEF Writes
  <1>5. ASSUME NEW t \in Turn, NEW o \in {"write", "remove", "patch"},
               Known(t), Sole(t), snapshot[t] < MaxWrites,
               Begin(k, IF o = "patch" THEN "patch" ELSE "fence",
                     [op |-> o, turn |-> t, prev |-> None, arg |-> "none"])
        PROVE  Goal
    BY <1>0, <1>5 DEF Writes
  <1>6. ASSUME Begin(k, "session", [op |-> "delete", turn |-> None, prev |-> None,
                                    arg |-> "none"])
        PROVE  Goal
    BY <1>0, <1>6 DEF Writes
  <1>7. Goal
    BY <1>1, <1>2, <1>3, <1>4, <1>5, <1>6 DEF Call
  <1> QED
    BY <1>7

LEMMA SoleStep ==
  ASSUME PgInv, NEW k \in Conn, Step(k)
  PROVE  SoleWrites'
  <1>0. PgTypeInv /\ SoleWrites /\ OthersAlone(k)
    BY StepAlone DEF PgInv
  <1>1. \A j \in Conn : j # k => call'[j] = call[j]
    BY <1>0 DEF OthersAlone
  <1>2. \/ call'[k].op \notin Writes
        \/ call'[k] = call[k]
        \/ Sole(call'[k].turn)
    <2>1. ASSUME Call(k) PROVE call'[k].op \notin Writes \/ Sole(call'[k].turn)
      BY <1>0, <2>1, CallGives
    <2>2. ASSUME End(k) PROVE call'[k].op \notin Writes
      BY <1>0, <2>2, EndAlone DEF NoCall, Writes
    <2>3. ASSUME DeleteRow(k) \/ DeleteTurn(k) PROVE call'[k].op \notin Writes
      <3>1. call[k].op = "delete"
        BY <1>0, <2>3, TypeFacts DEF DeleteRow, DeleteTurn, Fits
      <3>2. \/ call' = call \/ End(k) \/ \E u \in Turn : call' = [call EXCEPT ![k].turn = u]
        BY <2>3 DEF DeleteRow, DeleteTurn, CascadeFrom, Rollback, Remaining
      <3>3. call \in [Conn -> Calls]
        BY <1>0, TypeFacts
      <3> QED
        BY <2>2, <3>1, <3>2, <3>3 DEF Writes, Calls
    <2>4. ASSUME Statement(k), ~(DeleteRow(k) \/ DeleteTurn(k)) PROVE End(k) \/ call' = call
      BY <2>4 DEF Statement, LockTip, ReadPrevious, InsertRows, FlipTurn, InsertDone,
                  FoldMetrics, Assemble, Fence, InsertFenced, PatchRow, Commit, Rollback
    <2> QED
      BY <2>1, <2>2, <2>3, <2>4 DEF Step, Fail, Victim, Rollback
  <1>3. SUFFICES ASSUME NEW i \in Conn, NEW j \in Conn, i # j,
                        call'[i].op \in Writes, call'[j].op \in Writes
        PROVE  call'[i].turn # call'[j].turn
    BY DEF SoleWrites
  <1>4. CASE i = k
    BY <1>0, <1>1, <1>2, <1>3, <1>4 DEF SoleWrites, Sole
  <1>5. CASE j = k
    BY <1>0, <1>1, <1>2, <1>3, <1>5 DEF SoleWrites, Sole
  <1>6. CASE i # k /\ j # k
    BY <1>0, <1>1, <1>3, <1>6 DEF SoleWrites
  <1> QED
    BY <1>4, <1>5, <1>6

-----------------------------------------------------------------------------
(* The bound on the events of a turn does not count turn.done.              *)
LEMMA SettleKeepsLogged ==
  ASSUME StoreTypeOK, NEW t \in Turn, NEW s, Settle(t, s), NEW u \in Turn
  PROVE  Logged(u)' = Logged(u)
  <1>1. CASE u # t
    BY <1>1 DEF StoreTypeOK, Settle, Logged
  <1>2. CASE u = t
    <2>1. log'[t] = Append(log[t], "turn.done") /\ log[t] \in Seq(Event)
      BY DEF StoreTypeOK, Settle
    <2>2. {i \in 1..Len(log'[t]) : log'[t][i] # "turn.done"}
            = {i \in 1..Len(log[t]) : log[t][i] # "turn.done"}
      BY <2>1
    <2> QED
      BY <1>2, <2>2 DEF Logged
  <1> QED
    BY <1>1, <1>2

LEMMA OthersLogsKept ==
  ASSUME NEW u \in Turn, log'[u] = log[u]
  PROVE  Logged(u)' = Logged(u)
  BY DEF Logged

(* Two connections hold no conflicting locks.                               *)
LEMMA Apart ==
  ASSUME PgInv, NEW j \in Conn, NEW k \in Conn, j # k, NEW r \in Row
  PROVE  /\ locks[j][r] \in 0..4 /\ locks[k][r] \in 0..4
         /\ locks[j][r] + locks[k][r] < 5
  <1>1. locks[j][r] \in 0..4 /\ locks[k][r] \in 0..4
    BY TypeFacts, ModeFacts DEF PgInv
  <1>2. ~Conflict(locks[j][r], locks[k][r])
    BY DEF PgInv, Exclusive
  <1> QED
    BY <1>1, <1>2 DEF Conflict

LEMMA CallTurn ==
  ASSUME PgInv, NEW j \in Conn
  PROVE  /\ call[j].op \in {"freeze", "update"} \cup Writes => call[j].turn \in Turn
         /\ call[j].prev # None => call[j].prev \in Turn
  <1>1. call[j] \in Calls /\ Fits(at[j], call[j])
    BY TypeFacts DEF PgInv
  <1> QED
    BY <1>1 DEF Calls, Fits

(* A step of k leaves what the locks of j protect as it is.                 *)
LEMMA InsertProtects ==
  ASSUME PgInv, NEW k \in Conn, NEW j \in Conn, j # k, at[k] = "rows",
         InsertRow(call[k].turn, call[k].prev, call[k].arg, carried[k]),
         at'[j] = at[j], call'[j] = call[j], carried'[j] = carried[j], locks'[j] = locks[j]
  PROVE  Protects(j)'
  <1> DEFINE t == call[k].turn
  <1>0. PgTypeInv /\ StoreTypeOK /\ Fits(at[k], call[k])
    BY TypeFacts DEF PgInv
  <1>1. t \in Turn /\ call[k].op = "create"
    BY <1>0 DEF Fits
  <1>2. sessionExists /\ locks[k][Session] = Update /\ sessionExists'
    BY <1>1 DEF PgInv, Protects, Creating, InsertRow
  <1>3. locks[j][Session] = 0
    BY <1>2, Apart, ModeFacts
  <1>4. Protects(j)
    BY DEF PgInv
  <1>5. /\ ~Known(t) /\ state'[t] = "running"
        /\ \A u \in Turn : u # t =>
              /\ state'[u] = state[u] /\ snapshot'[u] = snapshot[u] /\ log'[u] = log[u]
              /\ Known(u)' = Known(u) /\ IsRunning(u)' = IsRunning(u)
    BY <1>0, <1>1 DEF InsertRow, Known, IsRunning, StoreTypeOK
  <1> HIDE DEF t
  <1>6. EmptyHanded(j)'
    BY <1>4 DEF Protects, EmptyHanded
  <1>7. Creating(j)'
    BY <1>2, <1>3, <1>4, <1>5, CallTurn, ModeFacts DEF Protects, Creating
  <1>8. Writing(j)'
    <2>1. SUFFICES ASSUME call[j].op \in Writes PROVE Writing(j)'
      BY DEF Writing
    <2>2. call[j].turn \in Turn /\ Known(call[j].turn)
      BY <1>2, <1>4, <2>1, CallTurn DEF Protects, Writing
    <2>3. call[j].turn # t
      BY <1>5, <2>2
    <2>4. Room(j)' = Room(j)
      BY <1>5, <2>2, <2>3, OthersLogsKept DEF Room
    <2> QED
      BY <1>2, <1>4, <1>5, <2>2, <2>3, <2>4 DEF Protects, Writing
  <1>9. Settling(j)'
    <2>1. SUFFICES ASSUME call[j].op \in {"freeze", "update"} PROVE Settling(j)'
      BY DEF Settling
    <2>2. call[j].turn \in Turn /\ Known(call[j].turn)
      BY <1>2, <1>4, <2>1, CallTurn DEF Protects, Settling
    <2>3. call[j].turn # t
      BY <1>5, <2>2
    <2> QED
      BY <1>2, <1>4, <1>5, <2>2, <2>3 DEF Protects, Settling
  <1>10. Deleting(j)'
    <2>1. call[j].op = "delete" => at[j] \notin {"cascade", "return"}
      BY <1>3, <1>4, ModeFacts DEF Protects, Deleting
    <2> QED
      BY <2>1 DEF Deleting
  <1> QED
    BY <1>6, <1>7, <1>8, <1>9, <1>10 DEF Protects

LEMMA SettleProtects ==
  ASSUME PgInv, NEW k \in Conn, NEW j \in Conn, j # k,
         call[k].op \in {"freeze", "update"}, locks[k][call[k].turn] = NoKeyUpdate,
         Settle(call[k].turn, call[k].arg),
         at'[j] = at[j], call'[j] = call[j], carried'[j] = carried[j], locks'[j] = locks[j]
  PROVE  Protects(j)'
  <1> DEFINE t == call[k].turn
  <1>0. PgTypeInv /\ StoreTypeOK /\ Fits(at[k], call[k])
    BY TypeFacts DEF PgInv
  <1>1. t \in Turn /\ t \in Row /\ call[k].arg \in Settled
    BY <1>0, CallTurn, ModeFacts DEF Fits, Settled
  <1>2. locks[j][t] < 2 /\ locks[j][t] \in 0..4
    BY <1>1, Apart, ModeFacts
  <1>3. Protects(j)
    BY DEF PgInv
  <1>4. IsRunning(t)
    BY DEF PgInv, Protects, Settling
  <1>5. /\ sessionExists' = sessionExists /\ snapshot' = snapshot
        /\ \A u \in Turn : u # t => IsRunning(u)' = IsRunning(u)
        /\ \A u \in Turn : Known(u)' = Known(u) /\ (~IsRunning(u) => ~IsRunning(u)')
    BY <1>0, <1>1, <1>4 DEF Settle, Known, IsRunning, StoreTypeOK, Settled, Reason
  <1>6. \A u \in Turn : Logged(u)' = Logged(u)
    BY <1>0, <1>1, SettleKeepsLogged
  <1>7. EmptyHanded(j)'
    BY <1>3 DEF Protects, EmptyHanded
  <1>8. Creating(j)'
    <2> HIDE DEF t
    <2>1. call[j].prev # None => call[j].prev \in Turn
      BY CallTurn
    <2>2. Inherited(call[j].prev)' = IF call[j].prev # None /\ Known(call[j].prev)'
                                        THEN snapshot[call[j].prev] ELSE 0
      BY <1>5 DEF Inherited
    <2>3. Inherited(call[j].prev)' = Inherited(call[j].prev)
      BY <1>5, <2>1, <2>2 DEF Inherited
    <2>4. call[j].prev # None /\ ~IsRunning(call[j].prev) => ~IsRunning(call[j].prev)'
      BY <1>5, <2>1
    <2> QED
      BY <1>3, <1>5, <2>1, <2>3, <2>4 DEF Protects, Creating
  <1>9. Writing(j)'
    <2>1. SUFFICES ASSUME call[j].op \in Writes PROVE Writing(j)'
      BY DEF Writing
    <2>2. call[j].turn \in Turn
      BY <2>1, CallTurn
    <2>3. Room(j)' = Room(j)
      BY <1>5, <1>6, <2>2 DEF Room
    <2>4. at[j] \in {"store", "return"} => call[j].turn # t
      BY <1>2, <1>3, <2>1, ModeFacts DEF Protects, Writing
    <2> HIDE DEF t
    <2> QED
      BY <1>3, <1>5, <2>2, <2>3, <2>4 DEF Protects, Writing
  <1>10. Settling(j)'
    <2>1. SUFFICES ASSUME call[j].op \in {"freeze", "update"} PROVE Settling(j)'
      BY DEF Settling
    <2>2. call[j].turn \in Turn
      BY <2>1, CallTurn
    <2>3. locks[j][call[j].turn] = NoKeyUpdate => call[j].turn # t
      BY <1>2, ModeFacts
    <2> HIDE DEF t
    <2> QED
      BY <1>3, <1>5, <2>2, <2>3 DEF Protects, Settling
  <1>11. Deleting(j)'
    <2> HIDE DEF t
    <2> QED
      BY <1>3, <1>5 DEF Protects, Deleting
  <1> QED
    BY <1>7, <1>8, <1>9, <1>10, <1>11 DEF Protects

LEMMA LogProtects ==
  ASSUME PgInv, NEW k \in Conn, NEW j \in Conn, j # k, call[k].op = "append",
         LogEvent(call[k].turn, call[k].arg),
         at'[j] = at[j], call'[j] = call[j], carried'[j] = carried[j], locks'[j] = locks[j]
  PROVE  Protects(j)'
  <1> DEFINE t == call[k].turn
  <1>0. StoreTypeOK /\ Protects(j) /\ SoleWrites
    BY TypeFacts DEF PgInv
  <1>1. t \in Turn /\ call[k].op \in Writes
    BY CallTurn DEF Writes
  <1>2. /\ sessionExists' = sessionExists /\ state' = state /\ snapshot' = snapshot
        /\ \A u \in Turn : u # t => log'[u] = log[u]
    BY <1>0, <1>1 DEF LogEvent, StoreTypeOK
  <1>3. call[j].op \in Writes => call[j].turn \in Turn /\ call[j].turn # t
    BY <1>0, <1>1, CallTurn DEF SoleWrites
  <1>4. call[j].op \in Writes => Room(j)' = Room(j)
    BY <1>2, <1>3, OthersLogsKept DEF Room
  <1> HIDE DEF t
  <1>5. EmptyHanded(j)' /\ Creating(j)'
    BY <1>0, <1>2 DEF Protects, EmptyHanded, Creating, Known, IsRunning, Inherited
  <1>6. Writing(j)'
    BY <1>0, <1>2, <1>4 DEF Protects, Writing, Known, IsRunning
  <1>7. Settling(j)'
    BY <1>0, <1>2 DEF Protects, Settling, Known, IsRunning
  <1>8. Deleting(j)'
    BY <1>0, <1>2 DEF Protects, Deleting, Known
  <1> QED
    BY <1>5, <1>6, <1>7, <1>8 DEF Protects

LEMMA BumpProtects ==
  ASSUME PgInv, NEW k \in Conn, NEW j \in Conn, j # k,
         at[k] = "return", call[k].op \in {"write", "remove", "patch"},
         BumpSnapshot(call[k].turn),
         at'[j] = at[j], call'[j] = call[j], carried'[j] = carried[j], locks'[j] = locks[j]
  PROVE  Protects(j)'
  <1> DEFINE t == call[k].turn
  <1>0. StoreTypeOK /\ Protects(j) /\ Protects(k) /\ SoleWrites
    BY TypeFacts DEF PgInv
  <1>1. t \in Turn /\ t \in Row /\ call[k].op \in Writes
    BY CallTurn, ModeFacts DEF Writes
  <1>2. /\ sessionExists' = sessionExists /\ state' = state /\ log' = log
        /\ \A u \in Turn : u # t => snapshot'[u] = snapshot[u]
    BY <1>0, <1>1 DEF BumpSnapshot, StoreTypeOK
  <1>3. IsRunning(t) /\ locks[k][t] >= Share
    BY <1>0, <1>1 DEF Protects, Writing
  <1>4. call[j].op \in Writes => call[j].turn \in Turn /\ call[j].turn # t
    BY <1>0, <1>1, CallTurn DEF SoleWrites
  <1>5. locks[j][t] < 3
    BY <1>1, <1>3, Apart, ModeFacts
  <1>6. call[j].op \in Writes => Room(j)' = Room(j)
    <2>1. \A u \in Turn : Logged(u)' = Logged(u)
      BY <1>2 DEF Logged
    <2> QED
      BY <1>2, <1>4, <2>1 DEF Room
  <1>7. EmptyHanded(j)'
    BY <1>0 DEF Protects, EmptyHanded
  <1>8. Creating(j)'
    <2>1. call[j].prev # None => call[j].prev \in Turn
      BY CallTurn
    <2>2. call[j].prev # None /\ ~IsRunning(call[j].prev) => call[j].prev # t
      BY <1>3
    <2> HIDE DEF t
    <2>3. call[j].prev # None /\ ~IsRunning(call[j].prev) => Inherited(call[j].prev)' = Inherited(call[j].prev)
      BY <1>2, <2>1, <2>2 DEF Inherited, Known
    <2>4. call[j].prev = None => Inherited(call[j].prev)' = Inherited(call[j].prev)
      BY DEF Inherited
    <2> QED
      BY <1>0, <1>2, <2>3, <2>4 DEF Protects, Creating, Known, IsRunning
  <1>9. Writing(j)'
    <2> HIDE DEF t
    <2> QED
      BY <1>0, <1>2, <1>6 DEF Protects, Writing, Known, IsRunning
  <1>10. Settling(j)'
    <2>1. SUFFICES ASSUME call[j].op \in {"freeze", "update"} PROVE Settling(j)'
      BY DEF Settling
    <2>2. call[j].turn \in Turn
      BY <2>1, CallTurn
    <2>3. locks[j][call[j].turn] = NoKeyUpdate => call[j].turn # t
      BY <1>5, ModeFacts
    <2>4. at[j] = "return" => call[j].turn # t
      BY <1>0, <1>3, <2>1, <2>3 DEF Protects, Settling
    <2> HIDE DEF t
    <2> QED
      BY <1>0, <1>2, <2>1, <2>2, <2>4 DEF Protects, Settling, Known, IsRunning
  <1>11. Deleting(j)'
    BY <1>0, <1>2 DEF Protects, Deleting, Known
  <1> QED
    BY <1>7, <1>8, <1>9, <1>10, <1>11 DEF Protects

LEMMA DeleteProtects ==
  ASSUME PgInv, NEW k \in Conn, NEW j \in Conn, j # k,
         at[k] = "return", call[k].op = "delete", DeleteSession,
         at'[j] = at[j], call'[j] = call[j], carried'[j] = carried[j], locks'[j] = locks[j]
  PROVE  Protects(j)'
  <1>0. StoreTypeOK /\ Protects(j) /\ Deleting(k)
    BY TypeFacts DEF PgInv, Protects
  <1>1. /\ locks[k][Session] = Update
        /\ \A t \in Turn : Known(t) => locks[k][t] = Update
    BY <1>0 DEF Deleting
  <1>2. ~sessionExists' /\ \A t \in Turn : ~Known(t)' /\ ~IsRunning(t)'
    BY DEF DeleteSession, Known, IsRunning
  <1>3. locks[j][Session] = 0
    BY <1>1, Apart, ModeFacts
  <1>4. \A t \in Turn : IsRunning(t) => locks[j][t] = 0
    <2>1. \A t \in Turn : IsRunning(t) => locks[k][t] = 4
      BY <1>1, ModeFacts DEF IsRunning, Known
    <2> QED
      BY <2>1, Apart, ModeFacts
  <1>5. EmptyHanded(j)'
    BY <1>0 DEF Protects, EmptyHanded
  <1>6. Creating(j)'
    BY <1>0, <1>2, <1>3, ModeFacts DEF Protects, Creating
  <1>7. Writing(j)'
    <2>1. SUFFICES ASSUME call[j].op \in Writes PROVE Writing(j)'
      BY DEF Writing
    <2>2. at[j] \notin {"store", "return"}
      BY <1>0, <1>4, <2>1, CallTurn, ModeFacts DEF Protects, Writing
    <2> QED
      BY <1>0, <1>2, <2>2 DEF Protects, Writing
  <1>8. Settling(j)'
    <2>1. SUFFICES ASSUME call[j].op \in {"freeze", "update"} PROVE Settling(j)'
      BY DEF Settling
    <2>2. call[j].turn \in Turn /\ locks[j][call[j].turn] # NoKeyUpdate
      BY <1>0, <1>4, <2>1, CallTurn, ModeFacts DEF Protects, Settling
    <2> QED
      BY <1>0, <1>2, <2>1, <2>2 DEF Protects, Settling
  <1>9. Deleting(j)'
    BY <1>0, <1>2, <1>3, ModeFacts DEF Protects, Deleting
  <1> QED
    BY <1>5, <1>6, <1>7, <1>8, <1>9 DEF Protects

LEMMA SameStoreProtects ==
  ASSUME PgInv, NEW j \in Conn, UNCHANGED storeVars,
         at'[j] = at[j], call'[j] = call[j], carried'[j] = carried[j], locks'[j] = locks[j]
  PROVE  Protects(j)'
  <1>0. Protects(j)
    BY DEF PgInv
  <1>1. /\ sessionExists' = sessionExists /\ state' = state /\ snapshot' = snapshot
        /\ log' = log
    BY DEF storeVars
  <1>2. Room(j)' = Room(j)
    BY <1>1 DEF Room, Logged
  <1>3. EmptyHanded(j)' /\ Creating(j)'
    BY <1>0, <1>1 DEF Protects, EmptyHanded, Creating, Known, IsRunning, Inherited
  <1>4. Writing(j)'
    BY <1>0, <1>1, <1>2 DEF Protects, Writing, Known, IsRunning
  <1>5. Settling(j)'
    BY <1>0, <1>1 DEF Protects, Settling, Known, IsRunning
  <1>6. Deleting(j)'
    BY <1>0, <1>1 DEF Protects, Deleting, Known
  <1> QED
    BY <1>3, <1>4, <1>5, <1>6 DEF Protects

LEMMA OthersProtected ==
  ASSUME PgInv, NEW k \in Conn, Step(k), NEW j \in Conn, j # k
  PROVE  Protects(j)'
  <1>1. /\ at'[j] = at[j] /\ call'[j] = call[j]
        /\ carried'[j] = carried[j] /\ locks'[j] = locks[j]
    BY StepAlone DEF OthersAlone, PgInv
  <1> QED
    BY <1>1, StepEffect, InsertProtects, SettleProtects, LogProtects, BumpProtects,
       DeleteProtects, SameStoreProtects DEF StoreEffect

-----------------------------------------------------------------------------
(* And a step of k leaves its own locks protecting what it read.            *)
LEMMA EndProtects ==
  ASSUME PgInv, NEW k \in Conn, End(k)
  PROVE  Protects(k)'
  <1>1. /\ at'[k] = "idle" /\ call'[k].op = "none"
        /\ \A r \in Row : locks'[k][r] = 0
    BY EndAlone, NoLocksType DEF PgInv, NoCall
  <1> QED
    BY <1>1 DEF Protects, EmptyHanded, Creating, Writing, Settling, Deleting, Writes

LEMMA CallProtects ==
  ASSUME PgInv, NEW k \in Conn, Call(k)
  PROVE  Protects(k)'
  <1>0. PgTypeInv /\ Protects(k)
    BY DEF PgInv
  <1>1. at[k] = "idle" /\ UNCHANGED <<storeVars, carried, locks>>
    BY <1>0, CallGives
  <1>2. at'[k] \in {"tip", "flip", "fence", "patch", "session"}
    BY <1>0, CallGives
  <1>3. /\ call'[k].op = "create" /\ call'[k].prev # None => Known(call'[k].prev)
        /\ call'[k].op \in {"freeze", "update"} => Known(call'[k].turn)
        /\ call'[k].op \in Writes =>
              /\ Known(call'[k].turn)
              /\ IF call'[k].op = "append" THEN Logged(call'[k].turn) < MaxEvents
                                           ELSE snapshot[call'[k].turn] < MaxWrites
    BY <1>0, CallGives
  <1>4. /\ sessionExists' = sessionExists /\ state' = state
        /\ snapshot' = snapshot /\ log' = log /\ locks' = locks
    BY <1>1 DEF storeVars
  <1>5. \A r \in Row : locks'[k][r] = 0
    BY <1>0, <1>1, <1>4 DEF Protects, EmptyHanded
  <1>6. EmptyHanded(k)'
    BY <1>5 DEF EmptyHanded
  <1>7. Creating(k)'
    BY <1>2, <1>3, <1>4 DEF Creating, Known
  <1>8. Writing(k)'
    BY <1>0, <1>2, <1>3, <1>4, <1>5, ModeFacts DEF Writing, Known, Room, Logged
  <1>9. Settling(k)'
    <2>1. SUFFICES ASSUME call'[k].op \in {"freeze", "update"} PROVE Settling(k)'
      BY DEF Settling
    <2>2. call'[k].turn \in Turn
      BY <1>0, <2>1, PgTypeStep, TypeFacts DEF Step, PgTypeInv, Fits
    <2>3. locks'[k][call'[k].turn] = 0 /\ locks'[k][Session] = 0
      BY <1>5, <2>2, ModeFacts
    <2> QED
      BY <1>2, <1>3, <1>4, <2>1, <2>3, ModeFacts DEF Settling, Known
  <1>10. Deleting(k)'
    BY <1>2 DEF Deleting
  <1> QED
    BY <1>6, <1>7, <1>8, <1>9, <1>10 DEF Protects

LEMMA CreateProtects ==
  ASSUME PgInv, NEW k \in Conn, LockTip(k) \/ ReadPrevious(k) \/ InsertRows(k)
  PROVE  Protects(k)'
  <1>0. PgTypeInv /\ Protects(k) /\ Fits(at[k], call[k])
    BY TypeFacts DEF PgInv
  <1>1. ASSUME End(k) PROVE Protects(k)'
    BY <1>1, EndProtects
  <1>2. ASSUME LockTip(k), ~End(k) PROVE Protects(k)'
    <2>1. /\ at[k] = "tip" /\ sessionExists /\ Lock(k) /\ Goto(k, "previous")
          /\ UNCHANGED <<storeVars, call, carried>>
      BY <1>2 DEF LockTip, Rollback
    <2>2. call[k].op = "create" /\ Wanted(k).row = Session /\ Wanted(k).mode = 4
      BY <1>0, <2>1, ModeFacts DEF Fits, Wanted
    <2>3. locks'[k][Session] \in 0..4 /\ locks'[k][Session] >= 4
      BY <1>0, <2>1, <2>2, LockGives, ModeFacts
    <2>4. at'[k] = "previous" /\ call'[k] = call[k] /\ sessionExists' /\ state' = state
      BY <1>0, <2>1, TypeFacts DEF Goto, storeVars
    <2>5. Creating(k)'
      BY <1>0, <2>1, <2>3, <2>4, ModeFacts DEF Protects, Creating, Known
    <2> QED
      BY <2>2, <2>4, <2>5 DEF Protects, EmptyHanded, Writing, Settling, Deleting, Writes
  <1>3. ASSUME ReadPrevious(k), ~End(k) PROVE Protects(k)'
    <2>1. /\ at[k] = "previous" /\ Lock(k) /\ Goto(k, "rows")
          /\ call[k].prev # None => ~IsRunning(call[k].prev)
          /\ carried' = [carried EXCEPT ![k] = Inherited(call[k].prev)]
          /\ UNCHANGED <<storeVars, call>>
      BY <1>3 DEF ReadPrevious, Rollback
    <2>2. call[k].op = "create" /\ Wanted(k).row = Session /\ Wanted(k).mode = 0
      BY <1>0, <2>1 DEF Fits, Wanted
    <2>3. sessionExists /\ locks[k][Session] = 4
      BY <1>0, <2>1, <2>2, ModeFacts DEF Protects, Creating
    <2>4. locks'[k][Session] \in 0..4 /\ locks'[k][Session] >= 4
      BY <1>0, <2>1, <2>2, <2>3, LockGives, ModeFacts
    <2>5. /\ at'[k] = "rows" /\ call'[k] = call[k] /\ sessionExists' = sessionExists
          /\ state' = state /\ snapshot' = snapshot
          /\ carried'[k] = Inherited(call[k].prev)
      BY <1>0, <2>1, TypeFacts DEF Goto, storeVars
    <2>6. Creating(k)'
      BY <1>0, <2>1, <2>3, <2>4, <2>5, ModeFacts
      DEF Protects, Creating, Known, IsRunning, Inherited
    <2> QED
      BY <2>2, <2>5, <2>6 DEF Protects, EmptyHanded, Writing, Settling, Deleting, Writes
  <1>4. InsertRows(k) => End(k)
    BY DEF InsertRows, Rollback
  <1> QED
    BY <1>1, <1>2, <1>3, <1>4

LEMMA WriteProtects ==
  ASSUME PgInv, NEW k \in Conn, Fence(k) \/ InsertFenced(k) \/ PatchRow(k)
  PROVE  Protects(k)'
  <1> DEFINE t == call[k].turn
  <1>0. PgTypeInv /\ Protects(k) /\ Fits(at[k], call[k])
    BY TypeFacts DEF PgInv
  <1>1. ASSUME End(k) PROVE Protects(k)'
    BY <1>1, EndProtects
  <1>2. ASSUME ~End(k) PROVE Protects(k)'
    <2>1. /\ at[k] \in {"fence", "store", "patch"} /\ Lock(k)
          /\ Goto(k, "store") \/ Goto(k, "return")
          /\ UNCHANGED <<storeVars, call, carried>>
          /\ at[k] \in {"fence", "patch"} => IsRunning(t)
      BY <1>2 DEF Fence, InsertFenced, PatchRow, Rollback
    <2>2. call[k].op \in Writes /\ t \in Turn /\ t \in Row /\ t # Session /\ t # None
      BY <1>0, <2>1, CallTurn, ModeFacts DEF Fits, Writes
    <2>3. /\ at'[k] \in {"store", "return"} /\ call'[k] = call[k]
          /\ sessionExists' = sessionExists
          /\ state' = state /\ snapshot' = snapshot /\ log' = log
      BY <1>0, <2>1, TypeFacts DEF Goto, storeVars
    <2>4. /\ at[k] = "fence" => Wanted(k).row = t /\ Wanted(k).mode = 2
          /\ at[k] = "patch" => Wanted(k).row = t /\ Wanted(k).mode = 3
          /\ at[k] = "store" => Wanted(k).row = Session /\ Wanted(k).mode = 1
      BY <2>1, ModeFacts DEF Wanted
    <2>5. IsRunning(t) /\ (at[k] = "store" => locks[k][t] >= 2)
      BY <1>0, <2>1, <2>2, ModeFacts DEF Protects, Writing
    <2>6. locks[k][Session] \in {0, 1} /\ locks'[k] \in [Row -> 0..4]
      BY <1>0, <2>1, <2>2, LockTyped, ModeFacts DEF Protects, Writing
    <2> HIDE DEF t
    <2>7. locks'[k][t] >= 2
      <3>1. CASE at[k] = "store"
        BY <1>0, <2>1, <2>2, <2>4, <2>5, <3>1, LockGives
      <3>2. CASE at[k] \in {"fence", "patch"}
        BY <1>0, <2>1, <2>2, <2>4, <2>6, <3>2, LockGives
      <3> QED
        BY <2>1, <3>1, <3>2
    <2>8. locks'[k][Session] \in {0, 1}
      BY <1>0, <2>1, <2>2, <2>4, <2>6, LockGives, ModeFacts
    <2>9. Room(k)' = Room(k)
      BY <2>3 DEF Room, Logged
    <2>10. Writing(k)'
      BY <1>0, <2>2, <2>3, <2>5, <2>7, <2>8, <2>9, ModeFacts
      DEF Protects, Writing, Known, IsRunning, t
    <2> QED
      BY <2>2, <2>3, <2>10 DEF Protects, EmptyHanded, Creating, Settling, Deleting, Writes
  <1> QED
    BY <1>1, <1>2

LEMMA DeletionProtects ==
  ASSUME PgInv, NEW k \in Conn, DeleteRow(k) \/ DeleteTurn(k)
  PROVE  Protects(k)'
  <1>0. PgTypeInv /\ Protects(k) /\ Fits(at[k], call[k]) /\ call[k] \in Calls
    BY TypeFacts DEF PgInv
  <1>1. ASSUME End(k) PROVE Protects(k)'
    BY <1>1, EndProtects
  <1>2. ASSUME ~End(k) PROVE Protects(k)'
    <2>1. /\ at[k] \in {"session", "cascade"} /\ CascadeFrom(k)
          /\ at[k] = "session" => sessionExists
      BY <1>2 DEF DeleteRow, DeleteTurn, Rollback
    <2>2. call[k].op = "delete"
      BY <1>0, <2>1 DEF Fits
    <2>3. /\ Lock(k) /\ UNCHANGED storeVars
          /\ \/ \E u \in Turn : Goto(k, "cascade") /\ call' = [call EXCEPT ![k].turn = u]
             \/ Remaining(k) = {} /\ Goto(k, "return") /\ UNCHANGED call
      BY <2>1 DEF CascadeFrom, Remaining
    <2>4. call'[k].op = "delete" /\ at'[k] \in {"cascade", "return"}
      BY <1>0, <2>2, <2>3, TypeFacts DEF Goto, Calls
    <2>5. /\ sessionExists' = sessionExists /\ state' = state
          /\ at'[k] = "return" => Remaining(k) = {}
      BY <1>0, <2>3, TypeFacts DEF Goto, storeVars
    <2>6. locks'[k] \in [Row -> 0..4]
      BY <1>0, <2>3, LockTyped, ModeFacts
    <2>7. sessionExists /\ locks'[k][Session] = 4
      <3>1. CASE at[k] = "session"
        <4>1. Wanted(k).row = Session /\ Wanted(k).mode = 4
          BY <3>1, ModeFacts DEF Wanted
        <4> QED
          BY <1>0, <2>1, <2>3, <2>6, <3>1, <4>1, LockGives, ModeFacts
      <3>2. CASE at[k] = "cascade"
        <4>1. sessionExists /\ locks[k][Session] = 4
          BY <1>0, <2>2, <3>2, ModeFacts DEF Protects, Deleting
        <4>2. Wanted(k).row # Session
          BY <1>0, <3>2, ModeFacts DEF Wanted, Fits
        <4> QED
          BY <1>0, <2>3, <4>1, <4>2, LockGives, ModeFacts
      <3> QED
        BY <2>1, <3>1, <3>2
    <2>8. at'[k] = "return" => \A t \in Turn : Known(t) => locks'[k][t] = 4
      <3>1. Remaining(k) = {} => \A t \in Turn : Known(t) => ~(locks'[k][t] < 4)
        BY ModeFacts DEF Remaining
      <3> QED
        BY <2>5, <2>6, <3>1, ModeFacts
    <2>9. Deleting(k)'
      BY <2>5, <2>7, <2>8, ModeFacts DEF Deleting, Known
    <2> QED
      BY <2>4, <2>9 DEF Protects, EmptyHanded, Creating, Writing, Settling, Writes
  <1> QED
    BY <1>1, <1>2

(* A settling statement that locks: it takes row w with strength m.         *)
LEMMA SettlingLock ==
  ASSUME PgInv, NEW k \in Conn, Lock(k), call[k].op \in {"freeze", "update"},
         UNCHANGED <<storeVars, call, carried>>,
         \/ at[k] = "flip" /\ IsRunning(call[k].turn)
              /\ Goto(k, IF call[k].op = "freeze" THEN "done" ELSE "fold")
         \/ at[k] = "done" /\ Goto(k, IF call[k].op = "freeze" THEN "fold" ELSE "return")
         \/ at[k] = "fold" /\ Goto(k, IF call[k].op = "freeze" THEN "assemble" ELSE "done")
  PROVE  Protects(k)'
  <1> DEFINE t == call[k].turn
  <1>0. PgTypeInv /\ Protects(k)
    BY DEF PgInv
  <1>1. t \in Turn /\ t \in Row /\ t # Session
    BY CallTurn, ModeFacts
  <1>2. /\ call'[k] = call[k] /\ carried'[k] = carried[k] /\ sessionExists' = sessionExists
        /\ state' = state /\ snapshot' = snapshot
    BY DEF storeVars
  <1>3. /\ at[k] = "flip" => at'[k] = IF call[k].op = "freeze" THEN "done" ELSE "fold"
        /\ at[k] = "done" => at'[k] = IF call[k].op = "freeze" THEN "fold" ELSE "return"
        /\ at[k] = "fold" => at'[k] = IF call[k].op = "freeze" THEN "assemble" ELSE "done"
    BY <1>0, TypeFacts DEF Goto
  <1>4. /\ at[k] = "flip" => Wanted(k).row = t /\ Wanted(k).mode = 3
        /\ at[k] = "done" => Wanted(k).row = Session /\ Wanted(k).mode = 1
        /\ at[k] = "fold" => Wanted(k).row = Session /\ Wanted(k).mode = 3
    BY ModeFacts DEF Wanted
  <1>5. locks'[k] \in [Row -> 0..4] /\ locks[k] \in [Row -> 0..4]
    BY <1>0, LockTyped, TypeFacts, ModeFacts
  <1>6. /\ at[k] \in {"done", "fold"} => locks[k][t] = 3
        /\ locks[k][t] = 3 => IsRunning(t)
        /\ locks[k][t] \in {0, 3}
        /\ locks[k][Session] \in {0, 1, 3}
        /\ at[k] = "flip" => locks[k][Session] = 0
        /\ locks[k][Session] = 3 => at[k] # "fold" /\ (call[k].op = "freeze" => at[k] # "done")
        /\ sessionExists => Known(t)
        /\ at[k] \in {"flip", "done", "fold"} /\ (at[k] = "flip" => IsRunning(t))
    BY <1>0, <1>1, ModeFacts DEF Protects, Settling, EmptyHanded
  <1> HIDE DEF t
  <1>7. locks'[k][t] = 3 /\ IsRunning(t)
    BY <1>0, <1>1, <1>4, <1>5, <1>6, LockGives
  <1>8. /\ at[k] = "flip" => locks'[k][Session] = 0
        /\ at[k] = "fold" => locks'[k][Session] = 3
        /\ at[k] = "done" => locks'[k][Session] = IF locks[k][Session] = 3 THEN 3 ELSE 1
    <2>1. CASE at[k] = "flip"
      BY <1>0, <1>1, <1>4, <1>6, <2>1, LockGives, ModeFacts
    <2>2. CASE at[k] = "fold"
      BY <1>0, <1>4, <1>5, <1>6, <2>2, LockGives, ModeFacts
    <2>3. CASE at[k] = "done"
      BY <1>0, <1>4, <1>5, <1>6, <2>3, LockGives, ModeFacts
    <2> QED
      BY <2>1, <2>2, <2>3
  <1>9. locks'[k][Session] \in {0, 1, 3} /\
          (locks'[k][Session] = 3 =>
              \/ call[k].op = "freeze" /\ at'[k] \in {"assemble", "return"}
              \/ call[k].op = "update" /\ at'[k] \in {"done", "return"})
    BY <1>3, <1>6, <1>8
  <1>10. at'[k] \in {"done", "fold", "assemble", "return"}
         /\ (call[k].op = "freeze" => at'[k] # "return")
    BY <1>3
  <1>11. Settling(k)'
    BY <1>2, <1>6, <1>7, <1>9, <1>10, ModeFacts DEF Settling, Known, IsRunning, t
  <1> QED
    BY <1>2, <1>10, <1>11 DEF Protects, EmptyHanded, Creating, Writing, Deleting, Writes

LEMMA SettleStatementProtects ==
  ASSUME PgInv, NEW k \in Conn,
         FlipTurn(k) \/ InsertDone(k) \/ FoldMetrics(k) \/ Assemble(k)
  PROVE  Protects(k)'
  <1> DEFINE t == call[k].turn
  <1>0. PgTypeInv /\ Protects(k) /\ Fits(at[k], call[k])
    BY TypeFacts DEF PgInv
  <1>1. ASSUME End(k) PROVE Protects(k)'
    BY <1>1, EndProtects
  <1>2. ASSUME FlipTurn(k), ~End(k), ~IsRunning(t) PROVE Protects(k)'
    <2>1. /\ at[k] = "flip" /\ call[k].op = "freeze" /\ Goto(k, "assemble")
          /\ UNCHANGED <<storeVars, call, carried, locks>>
      BY <1>2 DEF FlipTurn, Rollback
    <2>2. /\ call'[k] = call[k] /\ locks' = locks /\ sessionExists' = sessionExists
          /\ state' = state /\ at'[k] = "assemble"
      BY <1>0, <2>1, TypeFacts DEF Goto, storeVars
    <2>3. t \in Row /\ \A r \in Row : locks[k][r] = 0
      BY <1>0, <2>1, CallTurn, ModeFacts DEF Protects, EmptyHanded
    <2>4. Settling(k)'
      BY <1>0, <1>2, <2>1, <2>2, <2>3, ModeFacts DEF Protects, Settling, Known, IsRunning
    <2> QED
      BY <2>1, <2>2, <2>4 DEF Protects, EmptyHanded, Creating, Writing, Deleting, Writes
  <1>3. ASSUME FlipTurn(k), ~End(k), IsRunning(t) PROVE Protects(k)'
    <2>1. call[k].op \in {"freeze", "update"}
      BY <1>0, <1>3 DEF FlipTurn, Fits
    <2> QED
      BY <1>3, <2>1, SettlingLock DEF FlipTurn, Rollback
  <1>4. ASSUME InsertDone(k) \/ FoldMetrics(k) PROVE Protects(k)'
    <2>1. call[k].op \in {"freeze", "update"}
      BY <1>0, <1>4 DEF InsertDone, FoldMetrics, Fits
    <2> QED
      BY <1>4, <2>1, SettlingLock DEF InsertDone, FoldMetrics
  <1>5. ASSUME Assemble(k), ~End(k) PROVE Protects(k)'
    <2>1. /\ at[k] = "assemble" /\ Goto(k, "return") /\ UNCHANGED <<storeVars, call, locks>>
          /\ carried' = [carried EXCEPT ![k] = snapshot[t]]
      BY <1>5 DEF Assemble, Rollback
    <2>2. call[k].op = "freeze"
      BY <1>0, <2>1 DEF Fits
    <2>3. /\ call'[k] = call[k] /\ locks' = locks /\ sessionExists' = sessionExists
          /\ state' = state /\ snapshot' = snapshot /\ at'[k] = "return"
          /\ carried'[k] = snapshot[t]
      BY <1>0, <2>1, TypeFacts DEF Goto, storeVars
    <2>4. Settling(k)'
      BY <1>0, <2>1, <2>2, <2>3, ModeFacts DEF Protects, Settling, Known, IsRunning
    <2> QED
      BY <2>2, <2>3, <2>4 DEF Protects, EmptyHanded, Creating, Writing, Deleting, Writes
  <1> QED
    BY <1>1, <1>2, <1>3, <1>4, <1>5

LEMMA MineProtected ==
  ASSUME PgInv, NEW k \in Conn, Step(k)
  PROVE  Protects(k)'
  <1>1. Commit(k) \/ Fail(k) \/ Victim(k) => End(k)
    BY DEF Commit, Fail, Victim, Rollback
  <1> QED
    BY <1>1, EndProtects, CallProtects, CreateProtects, WriteProtects, DeletionProtects,
       SettleStatementProtects DEF Step, Statement

LEMMA GoneStep ==
  ASSUME PgInv, NEW k \in Conn, Step(k)
  PROVE  Gone'
  <1>0. PgTypeInv /\ Protects(k) /\ Fits(at[k], call[k]) /\ StoreTypeOK /\ Gone
    BY TypeFacts DEF PgInv
  <1>1. CASE UNCHANGED storeVars
    BY <1>0, <1>1 DEF Gone, Known, storeVars
  <1>2. CASE at[k] = "rows" /\ InsertRow(call[k].turn, call[k].prev, call[k].arg, carried[k])
    <2>1. sessionExists
      BY <1>0, <1>2 DEF Protects, Creating, Fits
    <2> QED
      BY <1>2, <2>1 DEF Gone, InsertRow
  <1>3. CASE /\ call[k].op \in {"freeze", "update"} /\ locks[k][call[k].turn] = NoKeyUpdate
             /\ Settle(call[k].turn, call[k].arg)
    <2>1. call[k].turn \in Turn /\ Known(call[k].turn)
      BY <1>0, <1>3, CallTurn DEF Protects, Settling, IsRunning, Known
    <2> QED
      BY <1>0, <1>3, <2>1 DEF Gone, Settle
  <1>4. CASE \E e : LogEvent(call[k].turn, e)
    BY <1>0, <1>4 DEF Gone, LogEvent, Known
  <1>5. CASE BumpSnapshot(call[k].turn)
    BY <1>0, <1>5 DEF Gone, BumpSnapshot, Known
  <1>6. CASE DeleteSession
    BY <1>6 DEF Gone, DeleteSession, Known
  <1> QED
    BY <1>1, <1>2, <1>3, <1>4, <1>5, <1>6, StepEffect DEF StoreEffect

LEMMA PgInvStep ==
  ASSUME PgInv, [PgNext]_pgVars
  PROVE  PgInv'
  <1>1. ASSUME NEW k \in Conn, Step(k) PROVE PgInv'
    <2>1. PgTypeInv'
      BY <1>1, PgTypeStep DEF PgInv
    <2>2. Exclusive' /\ SoleWrites' /\ Gone'
      BY <1>1, ExclusiveStep, SoleStep, GoneStep
    <2>3. \A j \in Conn : Protects(j)'
      BY <1>1, MineProtected, OthersProtected
    <2> QED
      BY <2>1, <2>2, <2>3 DEF PgInv
  <1>2. ASSUME UNCHANGED pgVars PROVE PgInv'
    <2>1. PgTypeInv'
      BY <1>2, PgTypeStutter DEF PgInv
    <2>2. Exclusive' /\ SoleWrites' /\ Gone'
      BY <1>2 DEF PgInv, Exclusive, SoleWrites, Gone, Known, pgVars, callVars, storeVars
    <2>3. \A j \in Conn : Protects(j)'
      BY <1>2, SameStoreProtects DEF pgVars, callVars
    <2> QED
      BY <2>1, <2>2, <2>3 DEF PgInv
  <1> QED
    BY <1>1, <1>2, NextIsStep

LEMMA PgInvInit == PgInit => PgInv
  <1> SUFFICES ASSUME PgInit PROVE PgInv
    OBVIOUS
  <1>1. /\ sessionExists
        /\ \A k \in Conn : /\ at[k] = "idle" /\ call[k].op = "none"
                           /\ \A r \in Row : locks[k][r] = 0
    BY NoLocksType DEF PgInit, StoreInit, NoCall
  <1>2. Exclusive /\ SoleWrites /\ Gone
    BY <1>1 DEF Exclusive, Conflict, SoleWrites, Writes, Gone
  <1>3. \A k \in Conn : Protects(k)
    BY <1>1 DEF Protects, EmptyHanded, Creating, Writing, Settling, Deleting, Writes
  <1> QED
    BY <1>2, <1>3, PgTypeInit DEF PgInv

LEMMA PgInvHolds == PgSpec => []PgInv
  BY PgInvInit, PgInvStep, PTL DEF PgSpec

-----------------------------------------------------------------------------
(* The store contract: what a transaction commits is what the method does   *)
(* to the rows as they are at the commit.                                   *)
LEMMA CommitIsMethod ==
  ASSUME PgInv, NEW k \in Conn, Step(k)
  PROVE  [StoreNext]_storeVars
  <1> DEFINE c == call[k]
             t == c.turn
  <1>0. PgTypeInv /\ Protects(k) /\ Fits(at[k], c) /\ c \in Calls
    BY TypeFacts DEF PgInv
  <1>1. CASE UNCHANGED storeVars
    BY <1>1
  <1>2. CASE at[k] = "rows" /\ InsertRow(t, c.prev, c.arg, carried[k])
    <2>1. c.op = "create" /\ t \in Turn /\ c.arg \in Executor /\ c.prev \in Turn \cup {None}
      BY <1>0, <1>2 DEF Fits, Calls
    <2>2. /\ sessionExists
          /\ c.prev # None => Known(c.prev) /\ ~IsRunning(c.prev)
          /\ carried[k] = Inherited(c.prev)
      BY <1>0, <1>2, <2>1 DEF Protects, Creating
    <2>3. CreateTurn(t, c.prev, c.arg)
      BY <1>2, <2>2 DEF CreateTurn
    <2> HIDE DEF c
    <2> QED
      BY <2>1, <2>2, <2>3 DEF StoreNext
  <1>3. CASE at[k] = "return" /\ c.op \in {"freeze", "update"}
               /\ locks[k][t] = NoKeyUpdate /\ Settle(t, c.arg)
    <2>1. t \in Turn /\ IsRunning(t) /\ Known(t)
      BY <1>0, <1>3, CallTurn DEF Protects, Settling, IsRunning, Known
    <2>2. CASE c.op = "freeze"
      <3>1. c.arg \in Reason /\ FreezeAndGetTurn(t, c.arg)
        BY <1>0, <1>3, <2>1, <2>2 DEF Fits, FreezeAndGetTurn
      <3> HIDE DEF c, t
      <3> QED
        BY <2>1, <3>1 DEF StoreNext
    <2>3. CASE c.op = "update"
      <3>1. c.arg \in Settled /\ UpdateTurnState(t, c.arg)
        BY <1>0, <1>3, <2>1, <2>3 DEF Fits, UpdateTurnState
      <3> HIDE DEF c, t
      <3> QED
        BY <2>1, <3>1 DEF StoreNext
    <2> QED
      BY <1>3, <2>2, <2>3
  <1>4. CASE at[k] = "return" /\ c.op = "append" /\ LogEvent(t, c.arg)
    <2>1. t \in Turn /\ IsRunning(t) /\ Known(t) /\ sessionExists
      BY <1>0, <1>4, CallTurn DEF PgInv, Gone, Protects, Writing, IsRunning, Known, Writes
    <2>2. c.arg \in {"turn.created", "event"} /\ Logged(t) < MaxEvents
      BY <1>0, <1>4, <2>1 DEF Fits, Protects, Writing, Writes, Room
    <2>3. AppendToEvents(t, c.arg)
      BY <1>4, <2>1 DEF AppendToEvents
    <2> HIDE DEF c, t
    <2> QED
      BY <2>1, <2>2, <2>3 DEF StoreNext
  <1>5. CASE at[k] = "return" /\ c.op \in {"write", "remove", "patch"} /\ BumpSnapshot(t)
    <2>1. t \in Turn /\ IsRunning(t) /\ Known(t) /\ sessionExists
      BY <1>0, <1>5, CallTurn DEF PgInv, Gone, Protects, Writing, IsRunning, Known, Writes
    <2>2. snapshot[t] < MaxWrites
      BY <1>0, <1>5, <2>1 DEF Protects, Writing, Writes, Room
    <2>3. WriteSnapshot(t)
      BY <1>5, <2>1 DEF WriteSnapshot
    <2> HIDE DEF c, t
    <2> QED
      BY <2>1, <2>2, <2>3 DEF StoreNext
  <1>6. CASE DeleteSession
    BY <1>6 DEF StoreNext
  <1> QED
    BY <1>1, <1>2, <1>3, <1>4, <1>5, <1>6, StepEffect DEF StoreEffect

(* PostgresSessionStore keeps the contract: whatever transactions overlap,  *)
(* are rolled back or are aborted, the committed rows go through states     *)
(* that atomic methods, called one after the other, would give them.        *)
THEOREM PgKeepsStoreContract == PgSpec => StoreSpec
  <1>1. PgInit => StoreInit
    BY DEF PgInit
  <1>2. PgInv /\ [PgNext]_pgVars => [StoreNext]_storeVars
    BY CommitIsMethod, NextIsStep DEF pgVars
  <1> QED
    BY PgInvHolds, <1>1, <1>2, PTL DEF PgSpec, StoreSpec

(* Hence what the contract promises: one turn.done ends a log, forks start  *)
(* from a parent that stays as it was, metrics are folded once, and a       *)
(* settled turn never changes.                                              *)
THEOREM PgKeepsStorePromises ==
    PgSpec => []LogClosedOnce /\ []TipIsCommitted /\ []ForkSeesFinalParent
              /\ []MetricsFoldOnce /\ SettledIsFinal
  BY PgKeepsStoreContract, LogClosedOnceHolds, TipIsCommittedHolds,
     ForkSeesFinalParentHolds, MetricsFoldOnceHolds, SettledIsFinalHolds

(* The record a freeze is about to return is final: its lock, or the state  *)
(* it read, rules out every write that is not yet in it.                    *)
THEOREM FrozenIsFinalHolds == PgSpec => []FrozenIsFinal
  <1>1. ASSUME PgInv PROVE FrozenIsFinal
    <2>1. SUFFICES ASSUME NEW k \in Conn, call[k].op = "freeze", at[k] = "return", sessionExists,
                          NEW j \in Conn, call[j].turn = call[k].turn, at[j] = "return",
                          call[j].op \in Writes
          PROVE  FALSE
      <3>1. \A k \in Conn : call[k].op = "freeze" /\ at[k] = "return" /\ sessionExists
                => carried[k] = snapshot[call[k].turn]
        BY <1>1 DEF PgInv, Protects, Settling
      <3> QED
        BY <2>1, <3>1 DEF FrozenIsFinal
    <2>2. j # k
      BY <2>1 DEF Writes
    <2>3. call[k].turn \in Turn /\ call[k].turn \in Row
      BY <1>1, <2>1, CallTurn, ModeFacts
    <2>4. IsRunning(call[k].turn) /\ locks[j][call[k].turn] >= Share
      BY <1>1, <2>1 DEF PgInv, Protects, Writing
    <2>5. locks[k][call[k].turn] = NoKeyUpdate
      BY <1>1, <2>1, <2>4 DEF PgInv, Protects, Settling
    <2> QED
      BY <1>1, <2>2, <2>3, <2>4, <2>5, Apart, ModeFacts
  <1> QED
    BY PgInvHolds, <1>1, PTL

-----------------------------------------------------------------------------
(* Lock order.                                                              *)
LEMMA WaitFacts ==
  ASSUME PgInv, NEW i \in Conn, NEW j \in Conn, WaitsFor(i, j)
  PROVE  /\ j # i /\ Wanted(i).row \in Row /\ Wanted(i).mode \in 0..4
         /\ locks[j][Wanted(i).row] \in 0..4
         /\ locks[j][Wanted(i).row] + Wanted(i).mode >= 5
  <1>1. Wanted(i).row \in Row /\ Wanted(i).mode \in 0..4
    BY WantedType, ModeFacts DEF PgInv
  <1>2. locks[j][Wanted(i).row] \in 0..4
    BY <1>1, TypeFacts, ModeFacts DEF PgInv
  <1> QED
    BY <1>1, <1>2 DEF WaitsFor, Conflict

(* Only the holders of locks are waited for, so only they are in a cycle.   *)
LEMMA DeadlockedHolds ==
  ASSUME PgInv, NEW k \in Conn, Deadlocked(k)
  PROVE  \E r \in Row : locks[k][r] # 0
  <1> DEFINE H == {i \in Conn : \E r \in Row : locks[i][r] # 0}
  <1>1. \A i, j \in Conn : WaitsFor(i, j) => j \in H
    BY WaitFacts
  <1>2. H \in SUBSET Conn
    OBVIOUS
  <1>3. k \in H
    BY <1>1, <1>2 DEF Deadlocked
  <1> QED
    BY <1>3

Settles(i) == \A j \in Conn : ~WaitsFor(i, j)

(* A connection that wants nothing waits for nobody.                        *)
LEMMA WantsNothing ==
  ASSUME PgInv, NEW i \in Conn, Wanted(i).mode = 0
  PROVE  Settles(i)
  BY WaitFacts DEF Settles

(* A transaction other than a deletion that holds a lock wants at most the  *)
(* session's; whoever holds that one against it wants nothing, or deletes.  *)
LEMMA SessionIsLast ==
  ASSUME PgInv, NEW k \in Conn, call[k].op # "delete",
         \E r \in Row : locks[k][r] # 0,
         NEW j \in Conn, WaitsFor(k, j)
  PROVE  \/ Settles(j)
         \/ call[j].op = "delete" /\ locks[j][Session] = Update
  <1>0. /\ Fits(at[k], call[k]) /\ at[k] \in At /\ Protects(k)
        /\ Fits(at[j], call[j]) /\ at[j] \in At /\ Protects(j) /\ call[j] \in Calls
        /\ j # k
    BY TypeFacts, WaitFacts DEF PgInv
  <1>1. at[k] \in {"done", "fold", "store"}
    <2>1. at[k] \notin {"idle", "tip", "flip", "fence", "patch", "session"}
      BY <1>0 DEF Protects, EmptyHanded
    <2>2. at[k] # "cascade"
      BY <1>0 DEF Fits
    <2>3. at[k] \in {"previous", "rows", "assemble", "return"} => Wanted(k).mode = 0
      BY DEF Wanted
    <2>4. Wanted(k).mode # 0
      BY WantsNothing DEF Settles
    <2> QED
      BY <1>0, <2>1, <2>2, <2>3, <2>4 DEF At
  <1>2. Wanted(k).row = Session /\ Wanted(k).mode = IF at[k] = "fold" THEN 3 ELSE 1
    BY <1>1, ModeFacts DEF Wanted
  <1>3. /\ locks[j][Session] \in 0..4
        /\ locks[j][Session] >= 2
        /\ at[k] # "fold" => locks[j][Session] = 4
    BY <1>1, <1>2, WaitFacts
  <1>4. CASE call[j].op = "none"
    <2>1. at[j] = "idle"
      BY <1>0, <1>4 DEF Fits, At, Writes
    <2> QED
      BY <1>0, <1>3, <2>1, ModeFacts DEF Protects, EmptyHanded
  <1>5. CASE call[j].op = "create"
    <2>1. at[j] \in {"tip", "previous", "rows"}
      BY <1>0, <1>5 DEF Fits, At, Writes
    <2>2. at[j] # "tip"
      BY <1>0, <1>3, ModeFacts DEF Protects, EmptyHanded
    <2>3. Wanted(j).mode = 0
      BY <2>1, <2>2 DEF Wanted
    <2> QED
      BY <2>3, WantsNothing
  <1>6. CASE call[j].op \in Writes
    BY <1>0, <1>3, <1>6, ModeFacts DEF Protects, Writing
  <1>7. CASE call[j].op = "delete"
    <2>1. at[j] \in {"session", "cascade", "return"}
      BY <1>0, <1>7 DEF Fits, At, Writes
    <2>2. at[j] # "session"
      BY <1>0, <1>3, ModeFacts DEF Protects, EmptyHanded
    <2> QED
      BY <1>0, <1>7, <2>1, <2>2 DEF Protects, Deleting
  <1>8. CASE call[j].op \in {"freeze", "update"}
    <2>1. locks[j][Session] = 3
      BY <1>0, <1>3, <1>8, ModeFacts DEF Protects, Settling
    <2>2. \/ at[j] \in {"assemble", "return"}
          \/ at[j] = "done"
      BY <1>0, <1>8, <2>1, ModeFacts DEF Protects, Settling
    <2>3. CASE at[j] \in {"assemble", "return"}
      <3>1. Wanted(j).mode = 0
        BY <2>3 DEF Wanted
      <3> QED
        BY <3>1, WantsNothing
    <2>4. CASE at[j] = "done"
      <3>1. Wanted(j).row = Session /\ Wanted(j).mode = 1
        BY <2>4, ModeFacts DEF Wanted
      <3>2. ASSUME NEW i \in Conn, WaitsFor(j, i) PROVE FALSE
        <4>1. i # j /\ locks[i][Session] = 4
          BY <3>1, <3>2, WaitFacts
        <4> QED
          BY <2>1, <4>1, Apart, ModeFacts
      <3> QED
        BY <3>2 DEF Settles
    <2> QED
      BY <2>2, <2>3, <2>4
  <1> QED
    BY <1>0, <1>4, <1>5, <1>6, <1>7, <1>8 DEF Calls

LEMMA DeletionInEveryCycle ==
  ASSUME PgInv, NEW k \in Conn, Deadlocked(k)
  PROVE  \E j \in Conn : Deadlocked(j) /\ call[j].op = "delete"
  <1>1. CASE call[k].op = "delete"
    BY <1>1
  <1>2. ASSUME call[k].op # "delete",
               \A j \in Conn : call[j].op = "delete" => ~Deadlocked(j)
        PROVE  FALSE
    <2> DEFINE Free == {i \in Conn : Settles(i)}
    <2>1. \A j \in Conn : WaitsFor(k, j) =>
             j \in Free \/ (call[j].op = "delete" /\ locks[j][Session] = Update)
      BY <1>2, DeadlockedHolds, SessionIsLast
    <2>2. Free \in SUBSET Conn /\ \A i \in Free, j \in Conn : ~WaitsFor(i, j)
      BY DEF Settles
    <2> HIDE DEF Free
    <2>3. PICK d \in Conn : WaitsFor(k, d) /\ d \notin Free
      <3>1. ASSUME \A j \in Conn : WaitsFor(k, j) => j \in Free PROVE FALSE
        <4>1. k \in Free
          BY <2>2, <3>1 DEF Deadlocked
        <4>2. {} \in SUBSET Conn /\ \A i \in {} \cup {k} : \A j \in Conn : ~WaitsFor(i, j)
          BY <2>2, <4>1
        <4> QED
          BY <4>2 DEF Deadlocked
      <3> QED
        BY <3>1
    <2>4. call[d].op = "delete" /\ locks[d][Session] = Update /\ d # k
      BY <1>2, <2>1, <2>3
    <2>5. \A j \in Conn : WaitsFor(k, j) => j \in Free \cup {d}
      <3>1. SUFFICES ASSUME NEW j \in Conn, WaitsFor(k, j), j \notin Free, j # d PROVE FALSE
        OBVIOUS
      <3>2. locks[j][Session] = Update
        BY <2>1, <3>1
      <3> QED
        BY <2>4, <3>1, <3>2, Apart, ModeFacts
    <2>6. PICK D \in SUBSET Conn :
             /\ \A i \in D \cup {d} : \A j \in Conn : WaitsFor(i, j) => j \in D
             /\ d \notin D
      BY <1>2, <2>4 DEF Deadlocked
    <2>7. /\ Free \cup {d} \cup D \in SUBSET Conn
          /\ \A i \in (Free \cup {d} \cup D) \cup {k} : \A j \in Conn :
                WaitsFor(i, j) => j \in Free \cup {d} \cup D
      BY <2>2, <2>5, <2>6
    <2>8. k \in Free \cup {d} \cup D
      BY <2>7 DEF Deadlocked
    <2>9. k \in D
      BY <2>2, <2>3, <2>4, <2>8
    <2> QED
      BY <2>3, <2>6, <2>9
  <1> QED
    BY <1>1, <1>2

(* No cycle of waiting transactions is without a deletion, with any number  *)
(* of connections: every other transaction takes the turn before the        *)
(* session and the session last.                                            *)
THEOREM OnlyDeletionsDeadlockHolds == PgSpec => []OnlyDeletionsDeadlock
  <1>1. PgInv => OnlyDeletionsDeadlock
    BY DeletionInEveryCycle DEF OnlyDeletionsDeadlock
  <1> QED
    BY PgInvHolds, <1>1, PTL
=============================================================================
