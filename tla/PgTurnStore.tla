---------------------------- MODULE PgTurnStore -----------------------------
(***************************************************************************)
(* The store methods of TurnStore as PostgresSessionStore executes them:   *)
(* READ COMMITTED transactions of several statements, on connections that  *)
(* run at the same time.  The variables of TurnStore are the committed     *)
(* rows; what a transaction wrote is seen by the others when it commits.   *)
(*                                                                         *)
(* A statement that locks a row waits for the conflicting locks of other   *)
(* transactions, then evaluates its WHERE clause on the row as committed.  *)
(* The locks of a transaction are held to its end.  A turn references the  *)
(* session, as every event and thread row does: inserting one takes the    *)
(* session's key-share lock, and deleting the session deletes its turns.   *)
(*                                                                         *)
(* at[k] is the next statement of the call on connection k:                *)
(*   create   tip -> previous -> rows                                      *)
(*   freeze   flip -> done -> fold -> assemble -> return                   *)
(*   update   flip -> fold -> done -> return                               *)
(*   append, write, remove   fence -> store -> return                      *)
(*   patch    patch -> return                                              *)
(*   delete   session -> cascade, once for every turn -> return            *)
(***************************************************************************)
EXTENDS TurnStore

CONSTANTS Conn,         \* pooled connections, of all executors
          Session,      \* the session's row
          Verdict,      \* bound: the terminal states callers ask for
          MaxFailures   \* bound: transactions whose connection or process fails

ASSUME SessionAssumption == Session \notin Turn
ASSUME VerdictAssumption == Verdict \subseteq Settled
ASSUME FailureAssumption == MaxFailures \in Nat

VARIABLES at,       \* next statement of the call of every connection
          call,     \* method and arguments of that call
          carried,  \* snapshot version the call has read
          locks,    \* strength of the lock every connection has on every row
          failures

callVars == <<at, call, carried, locks, failures>>
pgVars == <<storeVars, callVars>>

Row == Turn \cup {Session}

(* Row lock strengths: two locks of a row conflict if they add up to 5.     *)
KeyShare == 1
Share == 2
NoKeyUpdate == 3
Update == 4
Conflict(m, n) == m + n >= 5

NoCall == [op |-> "none", turn |-> None, prev |-> None, arg |-> "none"]
NoLocks == [r \in Row |-> 0]

(* Methods only the run of a turn calls, one at a time: TurnHandle awaits   *)
(* each of its writes.                                                      *)
Writes == {"append", "write", "remove", "patch"}

PgInit ==
    /\ StoreInit
    /\ at = [k \in Conn |-> "idle"]
    /\ call = [k \in Conn |-> NoCall]
    /\ carried = [k \in Conn |-> 0]
    /\ locks = [k \in Conn |-> NoLocks]
    /\ failures = 0

-----------------------------------------------------------------------------
(* Fault: createTurn reads the previous turn with a locking clause.         *)
WantedLockingParent(k) ==
    CASE at[k] \in {"tip", "session"}  -> [row |-> Session, mode |-> Update]
      [] at[k] = "fold"                -> [row |-> Session, mode |-> NoKeyUpdate]
      [] at[k] \in {"done", "store"}   -> [row |-> Session, mode |-> KeyShare]
      [] at[k] \in {"flip", "patch"}   -> [row |-> call[k].turn, mode |-> NoKeyUpdate]
      [] at[k] = "fence"               -> [row |-> call[k].turn, mode |-> Share]
      [] at[k] = "cascade"             -> [row |-> call[k].turn, mode |-> Update]
      [] at[k] = "previous" /\ call[k].prev # None ->
                                          [row |-> call[k].prev, mode |-> Share]
      [] OTHER                         -> [row |-> Session, mode |-> 0]

(* Fault: the fence reads the turn's state without FOR SHARE.               *)
WantedNoFence(k) ==
    CASE at[k] \in {"tip", "session"}  -> [row |-> Session, mode |-> Update]
      [] at[k] = "fold"                -> [row |-> Session, mode |-> NoKeyUpdate]
      [] at[k] \in {"done", "store"}   -> [row |-> Session, mode |-> KeyShare]
      [] at[k] \in {"flip", "patch"}   -> [row |-> call[k].turn, mode |-> NoKeyUpdate]
      [] at[k] = "cascade"             -> [row |-> call[k].turn, mode |-> Update]
      [] OTHER                         -> [row |-> Session, mode |-> 0]

(* The row the next statement locks, and how strongly.                      *)
Wanted(k) ==
    CASE at[k] \in {"tip", "session"}  -> [row |-> Session, mode |-> Update]
      [] at[k] = "fold"                -> [row |-> Session, mode |-> NoKeyUpdate]
      [] at[k] \in {"done", "store"}   -> [row |-> Session, mode |-> KeyShare]
      [] at[k] \in {"flip", "patch"}   -> [row |-> call[k].turn, mode |-> NoKeyUpdate]
      [] at[k] = "fence"               -> [row |-> call[k].turn, mode |-> Share]
      [] at[k] = "cascade"             -> [row |-> call[k].turn, mode |-> Update]
      [] OTHER                         -> [row |-> Session, mode |-> 0]

(* Connection k waits for connection j.                                     *)
WaitsFor(k, j) == j # k /\ Conflict(locks[j][Wanted(k).row], Wanted(k).mode)

Granted(k) == \A j \in Conn : ~WaitsFor(k, j)

Lock(k) ==
    locks' = [locks EXCEPT ![k][Wanted(k).row] =
                  IF Wanted(k).mode > @ THEN Wanted(k).mode ELSE @]

Goto(k, l) == at' = [at EXCEPT ![k] = l]

(* The transaction ends, and with it its locks.                             *)
End(k) ==
    /\ Goto(k, "idle")
    /\ call' = [call EXCEPT ![k] = NoCall]
    /\ carried' = [carried EXCEPT ![k] = 0]
    /\ locks' = [locks EXCEPT ![k] = NoLocks]

Rollback(k) == End(k) /\ UNCHANGED storeVars

Begin(k, l, c) ==
    /\ at[k] = "idle"
    /\ Goto(k, l)
    /\ call' = [call EXCEPT ![k] = c]
    /\ UNCHANGED <<storeVars, carried, locks, failures>>

Sole(t) == \A j \in Conn : call[j].op \in Writes => call[j].turn # t

(* A method is called, on a turn the caller has read.                       *)
Call(k) ==
    \/ \E t \in Turn, p \in Turn \cup {None}, x \in Executor :
          /\ p # None => Known(p)
          /\ Begin(k, "tip", [op |-> "create", turn |-> t, prev |-> p, arg |-> x])
    \/ \E t \in Turn, r \in Verdict \cap Reason :
          /\ Known(t)
          /\ Begin(k, "flip", [op |-> "freeze", turn |-> t, prev |-> None, arg |-> r])
    \/ \E t \in Turn, s \in Verdict :
          /\ Known(t)
          /\ Begin(k, "flip", [op |-> "update", turn |-> t, prev |-> None, arg |-> s])
    \/ \E t \in Turn, e \in {"turn.created", "event"} :
          /\ Known(t) /\ Sole(t) /\ Logged(t) < MaxEvents
          /\ Begin(k, "fence", [op |-> "append", turn |-> t, prev |-> None, arg |-> e])
    \/ \E t \in Turn, o \in {"write", "remove", "patch"} :
          /\ Known(t) /\ Sole(t) /\ snapshot[t] < MaxWrites
          /\ Begin(k, IF o = "patch" THEN "patch" ELSE "fence",
                   [op |-> o, turn |-> t, prev |-> None, arg |-> "none"])
    \/ Begin(k, "session",
             [op |-> "delete", turn |-> None, prev |-> None, arg |-> "none"])

-----------------------------------------------------------------------------
(* createTurn: SELECT last_turn_id FOR UPDATE, then the UPDATE of the tip.  *)
LockTip(k) ==
    /\ at[k] = "tip" /\ Granted(k)
    /\ \/ /\ sessionExists
          /\ Lock(k) /\ Goto(k, "previous")
          /\ UNCHANGED <<storeVars, call, carried>>
       \/ ~sessionExists /\ Rollback(k)
    /\ UNCHANGED failures

(* Fault: a running previous turn is forked from.                           *)
ReadPreviousAnyState(k) ==
    /\ at[k] = "previous" /\ Granted(k)
    /\ Goto(k, "rows")
    /\ carried' = [carried EXCEPT ![k] = Inherited(call[k].prev)]
    /\ Lock(k)
    /\ UNCHANGED <<storeVars, call, failures>>

(* createTurn: the previous turn and its thread rows, read without a lock.  *)
ReadPrevious(k) ==
    LET p == call[k].prev IN
    /\ at[k] = "previous" /\ Granted(k)
    /\ \/ /\ p # None => ~IsRunning(p)
          /\ Goto(k, "rows")
          /\ carried' = [carried EXCEPT ![k] = Inherited(p)]
          /\ Lock(k)
          /\ UNCHANGED <<storeVars, call>>
       \/ /\ p # None
          /\ IsRunning(p)
          /\ Rollback(k)
    /\ UNCHANGED failures

(* createTurn: the rows of the turn, which reference the session, and the   *)
(* commit.                                                                  *)
InsertRows(k) ==
    LET c == call[k] IN
    /\ at[k] = "rows"
    /\ \/ InsertRow(c.turn, c.prev, c.arg, carried[k]) /\ End(k)
       \/ Known(c.turn) /\ Rollback(k)
    /\ UNCHANGED failures

(* Fault: the UPDATE has no condition on the state.                         *)
FlipTurnAnyState(k) ==
    LET c == call[k] IN
    /\ at[k] = "flip" /\ Granted(k)
    /\ \/ /\ Known(c.turn)
          /\ Lock(k) /\ Goto(k, IF c.op = "freeze" THEN "done" ELSE "fold")
          /\ UNCHANGED <<storeVars, call, carried>>
       \/ ~Known(c.turn) /\ Rollback(k)
    /\ UNCHANGED failures

(* freezeAndGetTurn, updateTurnState: UPDATE turn WHERE status = running.   *)
(* No row is updated if the turn is settled or missing: a freeze goes on to *)
(* read it, an update throws.                                               *)
FlipTurn(k) ==
    LET c == call[k] IN
    /\ at[k] = "flip" /\ Granted(k)
    /\ \/ /\ IsRunning(c.turn)
          /\ Lock(k) /\ Goto(k, IF c.op = "freeze" THEN "done" ELSE "fold")
          /\ UNCHANGED <<storeVars, call, carried>>
       \/ /\ ~IsRunning(c.turn) /\ c.op = "freeze"
          /\ Goto(k, "assemble")
          /\ UNCHANGED <<storeVars, call, carried, locks>>
       \/ ~IsRunning(c.turn) /\ c.op = "update" /\ Rollback(k)
    /\ UNCHANGED failures

(* INSERT of turn.done, which references the session.                       *)
InsertDone(k) ==
    /\ at[k] = "done" /\ Granted(k)
    /\ Lock(k) /\ Goto(k, IF call[k].op = "freeze" THEN "fold" ELSE "return")
    /\ UNCHANGED <<storeVars, call, carried, failures>>

(* addSessionCostAndDuration: UPDATE session, in the same transaction.      *)
FoldMetrics(k) ==
    /\ at[k] = "fold" /\ Granted(k)
    /\ Lock(k) /\ Goto(k, IF call[k].op = "freeze" THEN "assemble" ELSE "done")
    /\ UNCHANGED <<storeVars, call, carried, failures>>

(* assembleTurnRecord: the turn, its threads and its capability states, as  *)
(* committed.                                                               *)
Assemble(k) ==
    LET t == call[k].turn IN
    /\ at[k] = "assemble"
    /\ \/ /\ Known(t)
          /\ carried' = [carried EXCEPT ![k] = snapshot[t]]
          /\ Goto(k, "return")
          /\ UNCHANGED <<storeVars, call, locks>>
       \/ ~Known(t) /\ Rollback(k)
    /\ UNCHANGED failures

(* turnRunningFence, assertTurnRunning: the turn FOR SHARE, if it runs.     *)
Fence(k) ==
    LET c == call[k] IN
    /\ at[k] = "fence" /\ Granted(k)
    /\ \/ /\ IsRunning(c.turn)
          /\ Lock(k) /\ Goto(k, IF c.op = "remove" THEN "return" ELSE "store")
          /\ UNCHANGED <<storeVars, call, carried>>
       \/ ~IsRunning(c.turn) /\ Rollback(k)
    /\ UNCHANGED failures

(* The INSERTs behind the fence, whose rows reference the session.          *)
InsertFenced(k) ==
    /\ at[k] = "store" /\ Granted(k)
    /\ Lock(k) /\ Goto(k, "return")
    /\ UNCHANGED <<storeVars, call, carried, failures>>

(* patchMCPServers, patchSandboxInfo: one conditional UPDATE of the turn.   *)
PatchRow(k) ==
    /\ at[k] = "patch" /\ Granted(k)
    /\ \/ /\ IsRunning(call[k].turn)
          /\ Lock(k) /\ Goto(k, "return")
          /\ UNCHANGED <<storeVars, call, carried>>
       \/ ~IsRunning(call[k].turn) /\ Rollback(k)
    /\ UNCHANGED failures

(* The turns a deletion has still to lock, once it has what it wants.       *)
Remaining(k) == {u \in Turn : Known(u) /\ locks'[k][u] < Update}

(* The foreign key of the turns deletes them one by one, in any order.      *)
CascadeFrom(k) ==
    /\ Lock(k)
    /\ \/ \E u \in Remaining(k) :
             /\ Goto(k, "cascade")
             /\ call' = [call EXCEPT ![k].turn = u]
       \/ Remaining(k) = {} /\ Goto(k, "return") /\ UNCHANGED call
    /\ UNCHANGED <<storeVars, carried>>

(* deleteSession: DELETE FROM session.                                      *)
DeleteRow(k) ==
    /\ at[k] = "session" /\ Granted(k)
    /\ \/ sessionExists /\ CascadeFrom(k)
       \/ ~sessionExists /\ Rollback(k)
    /\ UNCHANGED failures

DeleteTurn(k) ==
    /\ at[k] = "cascade" /\ Granted(k)
    /\ CascadeFrom(k)
    /\ UNCHANGED failures

(* Fault: a freeze folds the turn's metrics even if it did not settle it.   *)
CommitFoldingAlways(k) ==
    LET c == call[k] IN
    /\ at[k] = "return"
    /\ \/ c.op \in {"freeze", "update"} /\ locks[k][c.turn] = NoKeyUpdate /\ Settle(c.turn, c.arg)
       \/ /\ c.op = "freeze" /\ locks[k][c.turn] # NoKeyUpdate
          /\ folded' = folded + 1
          /\ UNCHANGED <<sessionExists, tip, totalTurns, state, previous, owner,
                         snapshot, base, log>>
       \/ c.op = "append" /\ LogEvent(c.turn, c.arg)
       \/ c.op \in {"write", "remove", "patch"} /\ BumpSnapshot(c.turn)
       \/ c.op = "delete" /\ DeleteSession
    /\ End(k)
    /\ UNCHANGED failures

(* The commit: what the transaction wrote becomes visible at once.  A       *)
(* freeze that updated no row only read.                                    *)
Commit(k) ==
    LET c == call[k] IN
    /\ at[k] = "return"
    /\ \/ c.op \in {"freeze", "update"} /\ locks[k][c.turn] = NoKeyUpdate /\ Settle(c.turn, c.arg)
       \/ c.op = "freeze" /\ locks[k][c.turn] # NoKeyUpdate /\ UNCHANGED storeVars
       \/ c.op = "append" /\ LogEvent(c.turn, c.arg)
       \/ c.op \in {"write", "remove", "patch"} /\ BumpSnapshot(c.turn)
       \/ c.op = "delete" /\ DeleteSession
    /\ End(k)
    /\ UNCHANGED failures

(* A statement timeout, a lost connection or the end of the process rolls   *)
(* the transaction back.                                                    *)
Fail(k) ==
    /\ at[k] # "idle"
    /\ failures < MaxFailures
    /\ failures' = failures + 1
    /\ Rollback(k)

(* k waits for itself: it is in every set that has the connections k waits  *)
(* for and those its members wait for.                                      *)
Deadlocked(k) ==
    \A S \in SUBSET Conn :
        (\A i \in S \cup {k} : \A j \in Conn : WaitsFor(i, j) => j \in S) => k \in S

(* The database aborts a transaction of a cycle.                            *)
Victim(k) ==
    /\ Deadlocked(k)
    /\ Rollback(k)
    /\ UNCHANGED failures

PgNext ==
    \E k \in Conn :
        \/ Call(k)
        \/ LockTip(k) \/ ReadPrevious(k) \/ InsertRows(k)
        \/ FlipTurn(k) \/ InsertDone(k) \/ FoldMetrics(k) \/ Assemble(k)
        \/ Fence(k) \/ InsertFenced(k) \/ PatchRow(k)
        \/ DeleteRow(k) \/ DeleteTurn(k) \/ Commit(k)
        \/ Fail(k) \/ Victim(k)

PgSpec == PgInit /\ [][PgNext]_pgVars

-----------------------------------------------------------------------------
PgTypeOK ==
    /\ StoreTypeOK
    /\ at \in [Conn -> {"idle", "tip", "previous", "rows", "flip", "done", "fold",
                        "assemble", "fence", "store", "patch", "session",
                        "cascade", "return"}]
    /\ call \in [Conn ->
          [op : {"none", "create", "freeze", "update", "delete"} \cup Writes,
           turn : Turn \cup {None}, prev : Turn \cup {None},
           arg : Executor \cup Settled \cup Event \cup {"none"}]]
    /\ carried \in [Conn -> Nat]
    /\ locks \in [Conn -> [Row -> 0..Update]]
    /\ failures \in 0..MaxFailures

(* The record freezeAndGetTurn returns is final: it has every write that    *)
(* was under way when the turn was frozen, and no other write follows.      *)
FrozenIsFinal ==
    \A k \in Conn :
        (call[k].op = "freeze" /\ at[k] = "return" /\ sessionExists) =>
            /\ carried[k] = snapshot[call[k].turn]
            /\ \A j \in Conn :
                  call[j].turn = call[k].turn /\ at[j] = "return" =>
                      call[j].op \notin Writes

(* Transactions take the rows they share in one order, turn before session; *)
(* only a deletion, whose cascade goes the other way, can be in a deadlock. *)
OnlyDeletionsDeadlock ==
    \A k \in Conn :
        Deadlocked(k) => \E j \in Conn : Deadlocked(j) /\ call[j].op = "delete"
=============================================================================
