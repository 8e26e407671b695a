------------------------------ MODULE TurnStore ------------------------------
(***************************************************************************)
(* The turn-scoped half of ISessionStore for ONE session, as the reference *)
(* implementation InMemorySessionStore executes it: every method body runs *)
(* to completion, so a method call is one atomic step, and a method that   *)
(* throws changes nothing.                                                 *)
(*                                                                         *)
(* A turn's row is the value of the functions below at its id.  The thread *)
(* snapshot (contexts, sub-agent threads, capability state, MCP servers,   *)
(* sandbox info) is abstracted to a version number: what matters is which  *)
(* writes reached it and whether a fork inherited its final value.         *)
(***************************************************************************)
EXTENDS Naturals, Sequences, FiniteSets

CONSTANTS Turn,         \* turn ids; each is minted once (newId) and never reused
          Executor,     \* values of active_executor_id
          None,         \* no turn: last_turn_id / previous_turn_id = null
          MaxWrites,    \* bound: snapshot writes per turn
          MaxEvents     \* bound: events a turn logs before it is settled

ASSUME NoneAssumption == None \notin Turn
ASSUME TurnsAssumption == IsFiniteSet(Turn)
ASSUME BoundAssumption == MaxWrites \in Nat /\ MaxEvents \in Nat

VARIABLES sessionExists,  \* the session row is present
          tip,            \* session.last_turn_id
          totalTurns,     \* session.metrics.total_turns
          folded,         \* terminal states folded into session.metrics
          state,          \* turn.state of every turn
          previous,       \* turn.previous_turn_id
          owner,          \* turn.active_executor_id
          snapshot,       \* version of turn.snapshot
          base,           \* auxiliary: version of the parent snapshot inherited
          log             \* the durable event log of the turn

storeVars == <<sessionExists, tip, totalTurns, folded,
               state, previous, owner, snapshot, base, log>>

-----------------------------------------------------------------------------
(* A cancelled turn is represented by its reason.                           *)
Reason  == {"client-cancelled", "cancelled-for-next-turn",
            "server-execution-timeout", "abandoned"}
Settled == {"done", "error"} \cup Reason
Event   == {"turn.created", "event", "turn.done"}

Known(t)     == state[t] # "absent"
IsRunning(t) == state[t] = "running"
IsSettled(t) == state[t] \in Settled

StoreInit ==
    /\ sessionExists = TRUE
    /\ tip = None
    /\ totalTurns = 0
    /\ folded = 0
    /\ state    = [t \in Turn |-> "absent"]
    /\ previous = [t \in Turn |-> None]
    /\ owner    = [t \in Turn |-> None]
    /\ snapshot = [t \in Turn |-> 0]
    /\ base     = [t \in Turn |-> 0]
    /\ log      = [t \in Turn |-> << >>]

-----------------------------------------------------------------------------
(* The snapshot version a turn inherits; an unknown previous turn counts as *)
(* none.                                                                    *)
Inherited(p) == IF p # None /\ Known(p) THEN snapshot[p] ELSE 0

(* The rows of a new turn that inherits version v.                          *)
InsertRow(t, p, x, v) ==
    /\ ~Known(t)
    /\ state'    = [state EXCEPT ![t] = "running"]
    /\ previous' = [previous EXCEPT ![t] = p]
    /\ owner'    = [owner EXCEPT ![t] = x]
    /\ snapshot' = [snapshot EXCEPT ![t] = 0]
    /\ base'     = [base EXCEPT ![t] = v]
    /\ log'      = [log EXCEPT ![t] = << >>]
    /\ tip'      = t
    /\ totalTurns' = totalTurns + 1
    /\ UNCHANGED <<sessionExists, folded>>

(* createTurn: insert the turn and advance the tip in one unit; a previous  *)
(* turn that is still running is refused.                                   *)
CreateTurn(t, p, x) ==
    /\ sessionExists
    /\ p # None => ~IsRunning(p)
    /\ InsertRow(t, p, x, Inherited(p))

(* The terminal write both settling methods share: state, turn_done event   *)
(* and session metrics together.                                            *)
Settle(t, s) ==
    /\ state' = [state EXCEPT ![t] = s]
    /\ log'   = [log EXCEPT ![t] = Append(@, "turn.done")]
    /\ folded' = folded + 1
    /\ UNCHANGED <<sessionExists, tip, totalTurns,
                   previous, owner, snapshot, base>>

(* freezeAndGetTurn: cancel a running turn, otherwise only read it.         *)
FreezeAndGetTurn(t, r) ==
    /\ Known(t)
    /\ IF IsRunning(t) THEN Settle(t, r) ELSE UNCHANGED storeVars

(* updateTurnState: the first terminal write wins, any other is refused.    *)
UpdateTurnState(t, s) ==
    /\ IsRunning(t)
    /\ Settle(t, s)

(* The row of an event.                                                    *)
LogEvent(t, e) ==
    /\ log' = [log EXCEPT ![t] = Append(@, e)]
    /\ UNCHANGED <<sessionExists, tip, totalTurns, folded,
                   state, previous, owner, snapshot, base>>

(* What a write of any part of the snapshot does to its version.            *)
BumpSnapshot(t) ==
    /\ snapshot' = [snapshot EXCEPT ![t] = @ + 1]
    /\ UNCHANGED <<sessionExists, tip, totalTurns, folded,
                   state, previous, owner, base, log>>

(* appendToEvents, fenced on a running turn.                                *)
AppendToEvents(t, e) == IsRunning(t) /\ LogEvent(t, e)

(* addThreads, removeThreads, appendToThreadContext, overwriteThreadContext *)
(* and the three patch methods: fenced writes of the turn's snapshot.       *)
WriteSnapshot(t) == IsRunning(t) /\ BumpSnapshot(t)

(* deleteSession: every turn and its events go with the session.            *)
DeleteSession ==
    /\ sessionExists
    /\ sessionExists' = FALSE
    /\ state' = [t \in Turn |-> "absent"]
    /\ log'   = [t \in Turn |-> << >>]
    /\ UNCHANGED <<tip, totalTurns, folded, previous, owner, snapshot, base>>

-----------------------------------------------------------------------------
(* The events of a log besides turn.done, for the bound.                    *)
Logged(t) == Cardinality({i \in 1..Len(log[t]) : log[t][i] # "turn.done"})

(* Any caller, any time.  SessionHandle is the only caller of createTurn    *)
(* and names a previous turn it has just read, hence Known(p).              *)
StoreNext ==
    \/ \E t \in Turn, p \in Turn \cup {None}, x \in Executor :
          /\ p # None => Known(p)
          /\ CreateTurn(t, p, x)
    \/ \E t \in Turn, r \in Reason : FreezeAndGetTurn(t, r)
    \/ \E t \in Turn, s \in Settled : UpdateTurnState(t, s)
    \/ \E t \in Turn, e \in {"turn.created", "event"} :
          /\ Logged(t) < MaxEvents
          /\ AppendToEvents(t, e)
    \/ \E t \in Turn : snapshot[t] < MaxWrites /\ WriteSnapshot(t)
    \/ DeleteSession

StoreSpec == StoreInit /\ [][StoreNext]_storeVars

-----------------------------------------------------------------------------
StoreTypeOK ==
    /\ sessionExists \in BOOLEAN
    /\ tip \in Turn \cup {None}
    /\ totalTurns \in Nat
    /\ folded \in Nat
    /\ state \in [Turn -> {"absent", "running"} \cup Settled]
    /\ previous \in [Turn -> Turn \cup {None}]
    /\ owner \in [Turn -> Executor \cup {None}]
    /\ snapshot \in [Turn -> Nat]
    /\ base \in [Turn -> Nat]
    /\ log \in [Turn -> Seq(Event)]

(* The log of a running turn is open and the log of a settled turn closed:  *)
(* it holds exactly one turn.done and nothing after it, whichever of the    *)
(* racing writers (stream, canceller, next turn) settled the turn.          *)
LogClosedOnce ==
    \A t \in Turn :
        /\ IsRunning(t) => \A i \in 1..Len(log[t]) : log[t][i] # "turn.done"
        /\ IsSettled(t) =>
              /\ log[t] # << >>
              /\ \A i \in 1..Len(log[t]) :
                    log[t][i] = "turn.done" <=> i = Len(log[t])

(* last_turn_id never points at a turn that was never created, and a        *)
(* session with turns never lacks a tip: the createTurn contract.           *)
TipIsCommitted ==
    sessionExists =>
        /\ tip # None => Known(tip)
        /\ (\E t \in Turn : Known(t)) => tip # None

(* What a fork inherited is still what its parent holds: a turn can only be *)
(* forked from once it is settled, and a settled turn is frozen, so two     *)
(* forks of one parent always start from the same conversation.             *)
ForkSeesFinalParent ==
    sessionExists =>
        \A t \in Turn :
            (Known(t) /\ previous[t] # None) =>
                /\ IsSettled(previous[t])
                /\ base[t] = snapshot[previous[t]]

(* Every settled turn was folded into session.metrics exactly once, and     *)
(* total_turns counts the rows.                                             *)
MetricsFoldOnce ==
    sessionExists =>
        /\ folded = Cardinality({t \in Turn : IsSettled(t)})
        /\ totalTurns = Cardinality({t \in Turn : Known(t)})

(* No step ever changes a settled turn: not its verdict, not its log, not   *)
(* its snapshot.  Only deleting the whole session removes it.               *)
SettledIsFinal ==
    [][\A t \in Turn : (IsSettled(t) /\ sessionExists') =>
          /\ state'[t] = state[t]
          /\ log'[t] = log[t]
          /\ snapshot'[t] = snapshot[t]]_storeVars
=============================================================================
