# Formal model of ResolveForge / TrueForge

TLA+ specifications of the parts of this repository whose correctness depends on
interleaving, failure and ordering, the TLC configurations that check them on
small instances, and TLAPS proofs of the properties that hold for every size.
The reference is the code under `src/`; where a document and the code disagree,
the model follows the code and a run shows the disagreement.

## 1. Inventory

ResolveForge is TrueForge (an agent harness: an HTTP server that runs agent turns
in sessions) plus an MCP tools service that turns an issue into a verified patch.

| Part | State it keeps | Operations | Interacts with |
| --- | --- | --- | --- |
| Session store (`trueforge-core/.../store`, `db/*/session-store`) | session row (tip `last_turn_id`, metrics), turn rows (state, previous turn, owner, thread snapshot), event logs | `createTurn`, `freezeAndGetTurn`, `updateTurnState`, `appendToEvents`, seven snapshot writes, `deleteSession` | called by everything below; three implementations: in memory, PostgreSQL, SQLite |
| `SessionHandle` / `TurnHandle` | a stale copy of the session record; the generator that runs one turn | `createTurn` (freeze the previous turn, build threads, commit), `stream` (append, execute, settle, announce) | store, orchestrator |
| `apis/turns.ts` | abort controller, execution timer, live event stream of each run | create-turn handler, drain loop | `SessionHandle`, registry, event subscription |
| `runtime/activeTurns.ts` | the runs of this process, the shutdown reason | `track`, `cancelIfRunning`, `shutdownAndWait` | drain loop, cancel, `main.ts` |
| `apis/sessions.ts` | none | cancel (local abort, peer request, freeze), delete | registry, request-reply, store |
| Request-reply (`request-reply/`) | per-request reply keys in Redis | ask an executor, poll for the reply, time out | cancel on two executors |
| `main.ts` | lifecycle of the process | SIGTERM handler, drain timeout | all of the above |
| Event subscription (`runtime/event-subscription`) | a numbered, expiring event log per turn, in memory or in Redis | put, poll, expire | drain loop, SSE clients |
| Schedule store (`db/*/schedule-store`) | schedule rows, run rows, the row locks of transactions | create, PUT, delete, run inserts and status updates | schedule handlers, dispatch |
| Schedule controller (`controller/`) | the pass in flight | tick, dispatch pass, HTTP hand-off, finish transaction, stop | schedule store, the API server it posts to |
| Schedule handlers (`apis/schedules.ts`) | none | create, PUT, delete, run-now, execute | schedule store, sessions, create-turn path |
| Agent threads / orchestrator (`core/runtime`) | context, open tool calls and completion of every thread; the live threads | send, execute, close open tool calls, create sub-agents, answer the parent | models, MCP, the session store through `TurnHandle` |
| `resolution-tools` `JobManager`, `EvidenceStore` | jobs, reservations, running workers (memory); evidence (disk) | `reproduce_issue`, `start_fix`, `cancel_fix`, worker completion | git worktrees, JCode |
| `resolution-tools` service, verifier, review | verification reports | `verify_fix`, `review_patch` | jobs, worktrees |
| Catalogs, auth, MCP connections, UI, SDKs | configuration rows, tokens | CRUD, I/O | external services |

A turn can be settled by five parties (its own stream, a cancel request on
any executor, the next turn of the session, the execution timer, a shutdown),
each of them several awaits long. No lock is held across an await; what keeps
the parties consistent is the store's rule that the first terminal write wins
and the fence that refuses every write to a turn that is not running. In
`resolution-tools` concurrent tool calls share in-memory maps across awaits.
The PostgreSQL store executes each method as a READ COMMITTED transaction of
several statements, so its atomicity rests on which rows it locks, in what order.
A schedule run is planned, withdrawn and recorded by three transactions and
handed off by an HTTP request that outlives its caller's timeout. An agent
thread appends to the stored context before it applies the append in memory, and
a turn may be interrupted between any two appends; the next turn has only what
was stored. A subscriber of a turn may come, go and come back to a log that
expires.

What makes each part correct: the methods of every store are atomic to each other;
a turn settles once and subscribers are told the
stored outcome; a fork starts from its parent's final state; an answered cancel
has reached its turn; shutdown leaves nothing running; an active schedule has
exactly one pending run, a withdrawn run never starts, a due one is taken; every
tool call is answered once and every sub-agent has a parent that can take its
result; every client reads a turn's events in order without gap; a case gets at
most the configured number of attempts; an approved patch is the verified one.

## 2. Modules

| Module | What it is |
| --- | --- |
| `TurnStore` | the turn half of `ISessionStore` for one session: one action per method, a method is atomic and one that throws changes nothing |
| `PgTurnStore` | the same methods as `PostgresSessionStore` executes them: statements, row locks, lock waits, deadlock victims, rollbacks; implements `TurnStore` (`StoreSpec`) |
| `TurnExecution` | extends `TurnStore` with the create-turn request and the run of every turn (`SessionHandle`, `TurnHandle.stream`, the drain loop, the registry); each await is a step boundary |
| `TurnServer` | extends that with executors: cancel requests and their peers, delete, disconnects, SIGTERM, crash, restart; defines `Spec` and `FairSpec` |
| `TurnPromise` | abstract specification of a session for its clients; `TurnServer` implements it (`KeepsPromise`) and `TurnStore` (`StoreSpec`) |
| `FixJobs` | `reproduce_issue`, `start_fix`, `cancel_fix` and the workers of one tools process |
| `PatchApproval` | extends it with `verify_fix`, `review_patch` and edits of the worktree |
| `ScheduleStore` | schedules and their runs: one action per transaction, the row lock, the two unique indexes |
| `ScheduleDispatch` | extends it with the controller, the requests it hands off, the API server, and their stops and crashes; defines `Spec` and `FairSpec` |
| `EventStream` | the resumable event stream of one turn: drain, both backends, subscribe handler, clients |
| `EventFeed` | abstract specification of what resuming promises; `EventStream` implements it (`KeepsFeed`) |
| `AgentThreads` | the agent threads of a session over several turns: `AgentThread`, the closer, the orchestrator |
| `Conversation` | abstract specification of what the threads promise models, tools and the user; `AgentThreads` implements it (`KeepsConversation`) |
| `TurnStoreProofs`, `PgTurnStoreProofs`, `TurnServerProofs`, `FixJobsProofs`, `PatchApprovalProofs`, `ScheduleProofs`, `EventStreamProofs`, `AgentThreadsProofs` | theorems about the module of that name (`ScheduleProofs`: about `ScheduleDispatch`) |
| `MCTurnStore`, `MCTurnServer`, `MCPatchApproval`, `MCSchedule`, `MCEventStream`, `MCAgentThreads` | instances for TLC: symmetry sets, and the patches of `MCPatchApproval` |

### Correspondence with the code

*Turn store.* A turn's row is spread over functions (`state`, `previous`,
`owner`, `snapshot`, `base`, `log`). A cancelled state is represented by its
reason. The thread snapshot is a version counter: the properties need to know
which version a fork inherited, not what is in it. `base` is auxiliary. Session
metrics are the number of turns and the number of terminal states folded in.

*PostgreSQL store.* The variables of `TurnStore` are the committed rows. A call
on connection `k` walks through the statements of its method (`at[k]`, in the
order the module's header gives); `locks[k]` is the strongest lock it holds on the
session's row and on every turn's, from `FOR KEY SHARE` (taken by an insert whose
row references the session) to `FOR UPDATE`, written 1 to 4 such that two
conflict if they add up to 5. A statement is one step: it waits until no lock of
another transaction conflicts, then tests its `WHERE` clause on the committed row,
which is what READ COMMITTED re-evaluates. What a transaction writes becomes
visible in `Commit`; `carried[k]` is what it read before. `Victim` is the database
aborting a transaction of a wait cycle, `Fail` a lost connection. The calls a
client may make are those the store contract admits: the run of a turn awaits each
of its writes (`Sole`), anybody may settle, fork or delete. SQLite is not a module
of its own: its one connection executes one transaction at a time, which is
`TurnStore` itself.

*Turn execution.* `pc[t]` walks through `createTurn` (`freeze`, `resolve`,
`committed`) and the generator (`opening` ... `announcing`); `frozen` is the
branch in which a fence refused a write, `suspended` a generator parked at a
yield in its `finally` block that nobody will resume. `FreezeParent`, `Commit`
and the like are the store calls; `Decide` is the choice of a terminal state;
`SettleTurn` the terminal write with its conflict branch; `Announce` the yield
of `turn.done`, the end of `tracked()` and of the drain. `Track` is
`beginTurnExecution`, which has no await between arming the timer, registering
the run and starting the drain. `orchestrator.execute` is a source of events and
of one outcome; it ends at any time, and is only assumed to end once aborted.
`StreamOutput` is the model output that goes to subscribers without having been
stored ("delta" in `live`); the event that later stores the text is appended to the
log and not published, and `kept[t]` counts such events.

*Server.* A cancel request walks `look`, `route`, then `asked` (a peer over
Redis) or `freeze`. `CancelUnconfirmed` covers a 412, no responder, a timeout and
a transport error alike, and stays enabled when a reply is on its way, which is
how a late reply is lost; `PeerCancels` may act after the asker gave up. The
shutdown handler is `CloseServer`, `BeginDrain`, `Drained`, `Exit`; the drain
timeout is `Crash`, which is what `process.exit(1)` amounts to.

*ResolveForge.* A `start_fix` call and its job share an identity. Evidence is
what the gate says of it. A worktree is its content; what the code knows of a content
is what git shows: `Status` (the files that differ from HEAD) and `Diff` (the patch
text), of which a fingerprint is a hash. Commits of the worker and ignored files are
in neither, so two contents may show the same. The acceptance scenario (`Sound`) and
the hash of the protected tests (`Guarded`) are of the content itself. Running git
once, the scenario once, or hashing a directory is one step; a verification reads the
worktree in four of them, a review in three, and `Edit` is somebody else changing it
between any two. The worker may edit its worktree at any time before its completion
settles. `vduring` and `rduring` are history: the contents the worktree had between
the first and the last read of a call.

*Schedules.* A run id is minted once; a run deleted and planned again is another
run. `PutBegin`, `PutLock` and `PutCommit` are a PUT's transaction: its callback
reads the clock, waits for the row lock, commits or conflicts. A pass walks
`next`, `send`, `wait`, `finish`, `commit`; `post[p]` is a request in the server,
which goes on when nobody waits for its answer any more (`from = "nobody"`).
A cron expression is the length of its period and the clock counts the shortest
one. `Standalone` makes both one process. `overlapped` is auxiliary.

*Event stream.* An event is its position in the turn, an entry adds the number
the backend gave it. Redis entry ids and cursors are pairs; `n-1` is written
`2n+1` and `n-0` is written `2n`, which keeps their order. `Poll` is one step in
memory, where no await separates looking from parking, and two calls in Redis.
The backend is chosen by the initial state, so one run covers both. The first event
published is `turn.created`, or `turn.done` when `turn.created` could not be stored;
the lifetime a put sets depends on the type of its event (`TTLFor`). A put that
rejects may have been executed, that of `turn.done` too (`DrainFails`).

*Agent threads.* Because every append is stored before it is applied, one
variable stands for a thread's stored and live context. Of a context the model
keeps the calls of the last assistant message, the number of responses every
call has, the approval decisions and the completion marker. `pc[t]` is the
generator of a thread: `top` is the head of its loop, `llm` and `exec` the
awaits in it, `done`, `failed`, `answered`, `removed` the steps in which the
orchestrator handles its last chunk. `Begin` is `createTurn`, which appends the
input and commits at once; `Interrupt` loses what only memory held. `cut` is
history: the threads whose last message was cut off by its length. In
`Conversation` a call is unborn, open or answered, and has no sub-agent, one at work
or one that is gone: a new message needs every call of the last one answered, an
answer an open call, a creation an open call without sub-agent, a removal a call
that was answered. Turns, rounds, aborts and interruptions do not appear in it.

The operators named `...Not`, `...Unfenced`, `...IgnoringReserved` and so on,
whose comment begins with "Fault:", are not part of any specification: each is a
plausible bug in the definition that follows it, kept to show that a property
would notice.

## 3. Runs

Passing:

| Run | Instance | What it shows |
| --- | --- | --- |
| `MCTurnStore` | PostgreSQL, 2 connections, 2 turns, 1 write and 1 event each, 1 failed transaction | overlapping transactions keep the store contract (`StoreSpec`), a frozen record is final, only deletions deadlock |
| `MCTurnPeers` | 2 executors with Redis, 2 turns, 1 cancel, 1 store fault, 1 crash | cancel and barge-in across processes, lost and late replies, a peer that dies |
| `MCTurnFaults` | 1 standalone executor, 2 turns whose clients may leave, 1 piece of model output each, one store fault, one publication fault, SIGTERM and a new process under the same id, deletion | no fault makes subscribers and store disagree; shutdown aborts late runs and leaves only given-up runs of streamed creates behind |
| `MCTurnLive` | 2 executors with Redis, 1 turn, 1 cancel, SIGTERM on one, 1 publication fault, deletion | turns settle, runs leave the registry unless their consumer stopped reading, cancels take effect, shutdown finishes; the server refines `TurnPromise` |
| `MCPatchApproval` | 1 case with a limit of 1, 2 starts, 2 cancels, 2 verifications, 1 review, 4 contents (unfixed, fit, out of scope, protected tests changed by a commit), 1 edit at any time | the attempt limit and the finality of a cancel under concurrent calls; a report is true of what its worktree had while it was made; an approval is of a verified patch unless its own calls were edited under |
| `MCSchedule` | 1 schedule, 1 slow PUT, 6 runs, 2 requests in the server at a time, 1 retry, 1 fault, 1 stop or crash of either process | one pending run per active schedule, no conflict on the advance, a triggered run has its turn, sequential retries start one turn, a withdrawn run never starts |
| `MCScheduleLive` | standalone, 2 schedules, batches of 1, 1 run-now, 1 fault, 1 stop or crash and a restart | every due run is taken |
| `MCEventStream` | both backends, 1 to 3 events, 2 clients, 2 faults | `EventStream` refines `EventFeed`; a subscriber is admitted as long as the turn runs and the stream ends; subscriptions end |
| `MCAgentThreads` | 2 turns, 3 calls of all kinds, 4 threads, batches of 2, 2 faults | `AgentThreads` refines `Conversation` (so every call is answered once); sub-agents have a ready parent, a call has one sub-agent, a plain call runs once, usage is counted once, a settled turn has announced what it waits for (unless the message was cut off), turns end |

Violated, showing that the code does not do what a comment or document says:

| Run | Statement | What happens |
| --- | --- | --- |
| `MCScheduleTwice` | `scheduleDispatch.ts:92`: "Idempotent on retry" | a hand-off times out and goes on in the server, the finish transaction of the pass fails, and the next pass hands the run off again; both find no turn and the task runs twice |
| `MCTurnDetached` | `main.ts:743`: "closed covers the gap" (`ClosedCoversGap`) | the response of a `stream: false` create ends at the first event; a run registered after the registry was found empty is aborted but not waited for, and its turn stays running |
| `MCPatchStale` | `src/README.md:34`: out-of-scope files and stale verification are rejected before approval (`ApprovedIsFit`) | the worktree is edited after the fingerprint check (`service.ts:144`) and before the patch is read for the review (`:154`) |

Further disagreements are the exceptions that properties of passing runs make, or
were seen in the code while modelling; the hazards in `PROJECT.json` cite them:

| Statement | What happens | Seen with |
| --- | --- | --- |
| `ISessionStore.ts:353`: the log "MUST include ... a `TurnCreatedEvent` at the start" | a turn frozen between commit and first append has only `turn.done` | any `TurnServer` instance |
| `activeTurns.ts:26`: the run is removed "when the stream completes (or the consumer exits early)" | after a failed publication the stream parks at the `yield` in its `finally` block, the run stays registered and shutdown waits for the drain timeout | `RunsLeaveRegistry` and `ShutdownFinishes` except these runs; without the exception `MCTurnLive` refutes both |
| `README.md:7`, `policy.ts:9`: blocked evidence stops for human review | a start in flight writes the evidence it read over newer, blocking evidence (`SaveEvidence`), and the next start is admitted | any `FixJobs` instance |
| `AgentThread.ts:1358`: the required event "is always emitted" | a message cut off after calls that need the user ends in an error (`:1125`) | `WaitingIsAnnounced` excepts the threads in `cut`; without the exception `MCAgentThreads` refutes it |
| `sqlite/session-store/queries/turns.ts:346`, `:114`, `events.ts:36`, `SqliteSessionStore.ts:90`: writes run under `BEGIN IMMEDIATE` | `db.transaction()` is never given `setAccessMode('read write')`, the only thing that makes `client.ts:42` issue it, so every write begins deferred; the single connection still runs one transaction at a time | reading |
| `deleteSession` against the other methods of `PostgresSessionStore` | the deletion locks the session and then its turns, the others a turn and then the session: one of the two is aborted, and no caller retries | `OnlyDeletionsDeadlock` in `MCTurnStore` says that nothing else can |
| `scheduleStore.ts:26`: "one name per trigger time" | a PUT that read the clock, then waited for its lock while the pending run was handed off, withdraws it and plans the same time again | `MCSchedule`, whose `SlowPuts` allows it |

### Bounds

Turns are independent except through the tip and their parent, so two turns give
every barge-in and every pair of `auto` forks. Two connections of the PostgreSQL
store give every overlap of two methods; three were checked in part (no failed
transaction and no snapshot write; no event and no failure; one verdict and no
failure) and the proofs hold for any number. Two executors
suffice because a cancel involves the asker and the owner. `MaxEvents = 2` is
`turn.created` and one more event, which separates "appended" from "published"
(the store alone needs one event besides `turn.done`);
`MaxWrites = 1` separates an initial from a written snapshot. Fault and crash
bounds of the turn modules are 1: the properties are about what one of them, at any
step, can do to everybody else. One piece of model output separates what is published
first from what is stored first. Two starts exceed the limit of one; the proofs are
for any limit and number of starts. One edit is what a review or a verification needs
to be deceived, and two verifications are an older and a newer one.

Six runs of one schedule outlast two periods, two edits and a withdrawal, and
`Horizon = 2` with periods 1 and 2 makes trigger times of two cron expressions
coincide; two requests at a time are what two overlapping hand-offs need.
Three events separate the first, the last and one between; `PollItems = 1` makes
a Redis reader lag. The lifetimes keep the order the defaults of `config.ts` have
(limit of the run plus the margin subscribing asks for <= stream < for ever). Three calls give a message with a
sub-agent, a plain call and an approval, or three sub-agents, of which two run in
one batch; `MaxThreads` is one more than the calls, so that no creation is
stopped by a bound; two turns are a turn and the one that takes up what it left,
and two faults an interruption and an abort of the same turn or of both.

`CHECK_DEADLOCK FALSE` is set because every instance has
finitely many requests and then legitimately stops.

### Fairness

`Fairness` asks only for what the runtime schedules: a promise whose store call
returned continues, an aborted orchestrator returns, a cancel request is
answered or times out, a shutdown handler continues. Clients need not call,
processes need not stop, and an execution that is not aborted need not end.
Store and publication faults, crashes and deletions are never fair.
The execution timer, armed for every run, is a premise (`TimersFire`) of the two
properties that rest on it, `EveryTurnSettles` and `RunsLeaveRegistry`; a cancel
and a shutdown must succeed without it. `Slow` names the turns whose timer the
instance lets fire.

`ScheduleDispatch` asks that the controller's loop, the handlers and the database
go on and that a stopped process is started again; not that time passes, that
anybody edits a schedule, or that a timeout fires. `EventStream` asks that the
run, the handlers, the connections and the timers of streams go on; the
subscribe timeout and the return of a client are not counted on. `AgentThreads`
asks that a model call or a tool answers, which the execution timer enforces by
an abort, and that the orchestrator drains its generators.

## 4. Proofs

All theorems hold for every value of the constants that satisfies the modules'
`ASSUME`s (finite sets of turns and jobs, `None` outside the ids, natural bounds,
lifetimes in the order `config.ts` gives them, limits on attempts, iterations and
parallel sub-agents of at least 1, a main thread).
Conditional theorems name their premise in an `ASSUME`.

**Turn store** (`TurnStoreProofs`). The store is well typed, logs are closed
exactly once, the tip is committed, a fork's parent is settled and unchanged,
settled turns never change, metrics are folded once. One step lemma per method:
every method but the two terminal writes is fenced on `running`, so it cannot
touch a settled turn, and the terminal writes act on a running one, whose log is
open. `MetricsFoldOnce` counts: a terminal write adds one turn to the settled
ones, a creation one to the known ones.

**PostgreSQL store** (`PgTurnStoreProofs`). `PgSpec => StoreSpec`, and hence every
theorem of the contract, for any number of overlapping transactions. The invariant
`PgInv` has two parts. `Exclusive`: two connections never hold conflicting locks on
a row. `Protects(k)`: what connection `k` read is still so because of the lock it
holds: the session exists and the parent is settled while a creation holds the
session `FOR UPDATE`; the turn runs while a write holds it `FOR SHARE` or a
settlement holds its `UPDATE`; a deletion that is about to commit holds every turn.
The step of another connection could only disturb that by committing, and to
commit it holds a lock that conflicts. A commit is then the atomic method applied
to the rows as they are. `FrozenIsFinal` follows from the same invariant.
`OnlyDeletionsDeadlock`: a connection in a wait cycle holds a lock, so if it does
not delete it is past its first statement and waits for the session's row; whoever
holds that against it wants nothing more or is the one deletion that has it, which
is then in the cycle.

**Server** (`TurnServerProofs`). Every safety property of the runs and both
refinements. `TypeInv` adds to the types that the tip is committed and that what a
run or a cancel is about to do fits where it stands (`Placed`). From it, step by step:
`ServerKeepsStoreContract` (a fenced write that the store refuses is a stutter);
`RunsOnWhatItInherited` from `ReadFinal` (a turn a request has read the record of is
settled, so the record stays true); `CancelReachesTurn` from `CancelTold` (once a
cancel has gone past asking, its turn is settled or aborted, and neither is undone);
`NoRunOutlivesShutdown` from `Aborted` (registration and the shutdown flag are
looked at in one step); `ToldWhatIsStored` from `Tells` (a stream that lost the race
re-reads the outcome before it announces it); `PublishedIsDurable` from `Durable` and
`Owed` (what is published beside model output, and what is kept, is in the log);
`ReasonHasCause` from `Rooted` and `Caused` (a cause, once there, stays: an abort
signal keeps its first reason, a barge-in its child) - for processes that do not
come back under their id; `GracefulExitSettles` from `Left` (an open response keeps
the process, and what has no open response is over, detached, left by its client or
given up); `ServerKeepsPromise`: every step is one of `TurnPromise` or a
stutter.

**Schedules** (`ScheduleProofs`). `Sound`: everything the controller, requests and
PUTs point at was created. On it rest `Roles` (which runs the actors may hold) and
`Locked`: what a finish read of the schedule is true when it commits, so planning
and withdrawing leave exactly one pending run of an active schedule
(`OnePendingRun`). `Timely`: no finished cron run is of a time after the pass's
clock, from which its successor is planned, so the advance conflicts with no row
(`AdvanceNeverConflicts`). `Single` gives `RetriesStartOnce` (two turns of a run need
two requests in the server at once, recorded in `overlapped`), `Started`
`TriggeredRunsRan`; a withdrawn run stays withdrawn and no request loads it
(`WithdrawnStaysSilent`).

**Event stream** (`EventStreamProofs`). `StreamInv`: the log numbers the events
without gap and exists from the first event of the run to its last, its time left
and the age of the run adding up to the lifetime `turn.created` set, which exceeds
the execution limit by the margin below which subscribers are turned away. `ClientInv`: the cursor of a subscription is
the number of the last event its client received, with either backend's numbering.
Hence no lost wake-up, and `EventStream` implements `EventFeed`.

**Agent threads** (`AgentThreadsProofs`). Every safety property and the refinement,
for any number of calls, threads, turns, faults, any batch size and iteration limit.
The properties are not inductive by themselves; `IInv` adds, in parts, why the code
keeps them. `Born` and `Messages`: a call belongs to the message of one thread, only
the main thread's can create sub-agents, and what is not born was neither run nor
answered. `Threaded` and `Unmade` keep the snapshot, the live map and the generators
in step. `Rounds`: the main thread and its sub-agents never run in one round, so
nobody else touches a context while its thread works on it; with `Waiting` this is
`ParentReady`. `Children`: a sub-agent whose call is open is still in the snapshot,
and one being removed has its call answered; `Creations`: the creations a parent has
still to yield are open calls without a sub-agent. Both survive an interruption
between two creations, and `OneSubAgentPerCall` follows. `Closing`: when a thread
reaches the head of its loop, every plain call that is still open and would be
closed has not been run - the reason `PlainRunsOnce` holds over interruptions: what
was run and not stored is closed by the next turn before it can be run again.
`AnsweredOnce` needs only that every writer looks for open calls.
`WaitingIsAnnounced` has `Announcing` in its invariant (a thread that waits has said
so, is at the step that says it, or was cut off). `MetricsCountedOnce` is about
a sum over the live threads, the recursive function `MapThenSumSet` of the community
modules. What that function computes is shown by induction over finite sets, stated
for the set of the subsets that satisfy a property instead of for a predicate
(`NatInductionBySet`, `SubsetInduction`): removing a thread takes its summand away,
and the sum depends on the summands only.

`KeepsConversationHolds`: three more facts make each step one of `Conversation` or a
stutter. `Silent`: a thread whose model is being called has nothing open. `Held`: an
open call is in the message of some thread. `Present`: while a turn runs, the live
map has only threads of the snapshot and the one being removed. A model's answer is
then an `Ask`, `Spawn` a `Create`, `Remove` a `Finish`, and every other step answers
a set of open calls, or none.

**ResolveForge** (`FixJobsProofs`, `PatchApprovalProofs`). Reservations are exactly
the calls in flight, the attempt limit is never exceeded, attempts are numbered
apart, a cancelled job stays cancelled. `AttemptsBounded` is not inductive:
admission compares the number of records plus `pendingAttempts`, so the proof needs
`ReservationsHeld`; creating a record moves a call from the one to the other.
`JobFollowsCall` says who may write a job when, so that only `Edit` changes a
worktree a call works on. On top of it, `VerifyInv`: each part a verification has
found is that of a content in its window (`vduring`), hence `ReportIsTrue`; and
`ReviewInv`: a review past the comparison met a content in its own window that shows
as the report does, hence `ApprovedIsVerified`. No premise excludes edits: the
windows are in the statements, and what happens inside them is `MCPatchStale`.

Only model-checked: all liveness (`EveryTurnSettles`, `RunsLeaveRegistry`,
`CancelSettles`, `ShutdownFinishes`, `DueRunsTaken`, `SubscriptionsEnd`,
`TurnEnds`), which the prover does not support. The type invariants are theorems and
not repeated in the runs, and neither is `AnsweredOnce`, which `KeepsConversation`
implies.

## 5. Plan

1. Composition: `AgentThreads` in place of the outcome source of `TurnExecution`,
   `EventStream` in place of its sequence `live`.
2. The request-reply poll loop with its keys, as a module of its own.

## 6. Not modelled

Session listing, import and metadata updates of the stores, MCP connections and
OAuth, sandbox and Code Mode, catalogs, authentication and CRUD routes, the
frontend, the SDKs and the demo application: I/O, request validation and
presentation without protocol state. They are most of the repository's lines.
Triage and reproduction are pure functions; a case is taken as triaged. ResolveForge
keeps jobs in memory only, and a restart of the tools process is not modelled.
