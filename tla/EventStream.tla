----------------------------- MODULE EventStream -----------------------------
(***************************************************************************)
(* The resumable event stream of one turn: the drain that publishes it,    *)
(* the two backends of EventSubscription (one process's memory, a Redis    *)
(* stream), the subscribe handler with its server-side timeout, and        *)
(* clients that lose their connection and resume after the last event they *)
(* received.  The backend is fixed when the process starts.                *)
(*                                                                         *)
(* An event is its position in the turn; a stream entry adds the sequence  *)
(* number the backend gave it.  Redis entry ids and cursors are pairs: the *)
(* id n-1 is written 2n+1 and the cursor n-0 is written 2n.                *)
(***************************************************************************)
EXTENDS Integers, Sequences

CONSTANTS Client,
          Creator,         \* clients whose create request streams the turn
          Backend,         \* "memory", "redis"
          PollItems,       \* SUBSCRIBE_STREAM_POLL_ITEMS_COUNT
          RunTTL,          \* TURN_STREAM_TTL_SECONDS
          DoneTTL,         \* TURN_STREAM_POST_COMPLETION_TTL_SECONDS
          ExecutionLimit,  \* SERVER_EXECUTION_TIMEOUT_SECONDS
          Threshold,       \* SUBSCRIBE_STREAM_THRESHOLD_MS
          MaxEvents,       \* bound: events of the turn
          MaxFaults        \* bound: disconnects, timeouts, failures, crashes

(* The defaults of config.ts: 300 s more for the stream than for the run,   *)
(* and a subscriber is turned away in its last 60.                          *)
ASSUME TTLAssumption == /\ ExecutionLimit \in Nat /\ RunTTL \in Nat
                        /\ Threshold \in Nat \ {0}
                        /\ ExecutionLimit + Threshold <= RunTTL
                        /\ DoneTTL \in Nat \ {0}
ASSUME StreamAssumption == /\ PollItems \in Nat \ {0}
                           /\ Creator \subseteq Client
                           /\ Backend \subseteq {"memory", "redis"}

VARIABLES backend,
          prod,       \* the drain: "running", "forwarding", "closing" (the
                      \* same, of turn.done), "done" (turn.done is in the
                      \* stream), "failed" (it will never be)
          published,  \* events that reached the stream
          minted,     \* the number the last put returned
          exists,     \* the stream's key is there
          log,        \* its entries
          ttl,        \* time it has left, 0 when none is set
          elapsed,    \* age of the run
          sub,        \* the handler serving each client
          wire,       \* what it wrote and the client has not received
          got,        \* what the client received
          faults

streamVars == <<minted, exists, log, ttl>>
vars == <<backend, prod, published, streamVars, elapsed, sub, wire, got, faults>>

Away == [pc |-> "away", cursor |-> 0, batch |-> <<>>, aborted |-> FALSE]

Init ==
    /\ backend \in Backend
    /\ prod = "running" /\ published = 0 /\ minted = 0
    /\ exists = FALSE /\ log = <<>> /\ ttl = 0 /\ elapsed = 0
    /\ sub = [c \in Client |-> IF c \in Creator THEN [Away EXCEPT !.pc = "direct"]
                               ELSE Away]
    /\ wire = [c \in Client |-> <<>>]
    /\ got = [c \in Client |-> <<>>]
    /\ faults = 0

Fault == faults < MaxFaults /\ faults' = faults + 1

-----------------------------------------------------------------------------
(* The stream.                                                              *)

(* changes.emit: every poller parked on the stream looks again.             *)
Rung == [c \in Client |-> IF sub[c].pc = "parked" THEN [sub[c] EXCEPT !.pc = "poll"]
                          ELSE sub[c]]

(* Fault: pollers are not told that the stream is gone.                     *)
DropSilently == /\ exists' = FALSE /\ log' = <<>> /\ ttl' = 0
                /\ UNCHANGED sub

(* dropStream, or the eviction of the key.                                  *)
Drop == /\ exists' = FALSE /\ log' = <<>> /\ ttl' = 0
        /\ sub' = Rung

(* Fault: only turn.done sets a lifetime.                                   *)
TTLForDoneOnly(type) == IF type = "turn.done" THEN DoneTTL ELSE ttl

(* streamTTLSecondsFor.                                                     *)
TTLFor(type) == CASE type = "turn.created" -> RunTTL
                  [] type = "turn.done" -> DoneTTL
                  [] OTHER -> ttl

(* What the turn's stream yields next: turn.created, events, turn.done; of  *)
(* a turn whose turn.created could not be stored, turn.done alone.          *)
TypeOf(last) == IF last THEN "turn.done"
                ELSE IF published = 0 THEN "turn.created" ELSE "event"

(* Redis takes the producer's own count, memory the length of its log.      *)
Number == IF backend = "redis" THEN minted + 1 ELSE Len(log) + 1

(* Fault: the append does not ring.                                         *)
LandsSilently(last) ==
    /\ log' = Append(log, [num |-> Number, event |-> published + 1, last |-> last])
    /\ exists' = TRUE
    /\ ttl' = TTLFor(TypeOf(last))
    /\ published' = published + 1
    /\ UNCHANGED sub

(* One put that lands: append, lifetime, ring.                              *)
Lands(last) ==
    /\ log' = Append(log, [num |-> Number, event |-> published + 1, last |-> last])
    /\ exists' = TRUE
    /\ ttl' = TTLFor(TypeOf(last))
    /\ published' = published + 1
    /\ sub' = Rung

(* Entries strictly after a cursor, as one read returns them; entry ids     *)
(* grow along the stream.                                                   *)
After(cursor) ==
    IF backend = "memory"
    THEN SubSeq(log, cursor + 1, Len(log))
    ELSE LET old == CHOOSE n \in 0 .. Len(log) :
                        \A i \in 1 .. Len(log) : i <= n <=> 2 * log[i].num + 1 <= cursor
         IN  SubSeq(log, old + 1, IF Len(log) < old + PollItems THEN Len(log)
                                  ELSE old + PollItems)

(* Fault: the Redis cursor is the last entry's own number, `${N}-0`.        *)
ResumeAtSame(n) == IF backend = "memory" THEN n ELSE 2 * n

(* The cursor to resume after number n, and after an entry delivered.       *)
ResumeAt(n) == IF backend = "memory" THEN n ELSE 2 * (n + 1)
CursorAt(e) == IF backend = "memory" THEN e.num ELSE 2 * e.num + 1

-----------------------------------------------------------------------------
(* drainTurnEvents.                                                         *)

(* The event is in the stream before any client of the create request sees  *)
(* it; no event but turn.done is the last.                                  *)
Publish(last) ==
    /\ prod = "running"
    /\ published < MaxEvents
    /\ published + 1 = MaxEvents => last
    /\ Lands(last)
    /\ minted' = Number
    /\ prod' = IF last THEN "closing" ELSE "forwarding"
    /\ UNCHANGED <<backend, elapsed, wire, got, faults>>

(* onEvent, and the end of the drain with the response it served.           *)
Forward ==
    LET e == [num |-> minted, event |-> published, last |-> prod = "closing"]
        direct == {c \in Client : sub[c].pc = "direct"}
    IN
    /\ prod \in {"forwarding", "closing"}
    /\ wire' = [c \in Client |-> IF c \in direct THEN Append(wire[c], e) ELSE wire[c]]
    /\ IF e.last
       THEN /\ prod' = "done"
            /\ sub' = [c \in Client |-> IF c \in direct THEN Away ELSE sub[c]]
       ELSE prod' = "running" /\ UNCHANGED sub
    /\ UNCHANGED <<backend, published, streamVars, elapsed, got, faults>>

(* The drain ends early, and the create response with it: the run's own     *)
(* stream throws or ends without turn.done (the turn was frozen or its      *)
(* session deleted), or multi.exec rejects, of whichever event, although    *)
(* Redis may have executed it.                                              *)
DrainFails ==
    LET ends(s) == [c \in Client |-> IF s[c].pc = "direct" THEN Away ELSE s[c]] IN
    /\ prod = "running" /\ Fault
    /\ \/ /\ backend = "redis" /\ published < MaxEvents
          /\ exists' = TRUE /\ published' = published + 1
          /\ \E last \in BOOLEAN :
              /\ log' = Append(log, [num |-> Number, event |-> published + 1,
                                     last |-> last])
              /\ ttl' = TTLFor(TypeOf(last))
              /\ prod' = IF last THEN "done" ELSE "failed"
       \/ UNCHANGED <<log, exists, ttl, published>> /\ prod' = "failed"
    /\ UNCHANGED minted
    /\ sub' = ends(sub)
    /\ UNCHANGED <<backend, elapsed, wire, got>>

Produce == Forward \/ \E last \in BOOLEAN : Publish(last)

-----------------------------------------------------------------------------
(* subscribeTurnHandler and poll.                                           *)

(* assertSubscribable; a client comes back with the number it received      *)
(* last (Last-Event-ID) and stops coming after turn.done.                   *)
Received(c) == IF got[c] = <<>> THEN 0 ELSE got[c][Len(got[c])].num

Subscribe(c) ==
    /\ sub[c].pc = "away" /\ wire[c] = <<>>
    /\ got[c] # <<>> => ~got[c][Len(got[c])].last
    /\ exists /\ (ttl = 0 \/ ttl >= Threshold)
    /\ sub' = [sub EXCEPT ![c] = [Away EXCEPT !.pc = "poll",
                                              !.cursor = ResumeAt(Received(c))]]
    /\ UNCHANGED <<backend, prod, published, streamVars, elapsed, wire, got, faults>>

(* The top of the loop.  Memory looks and parks without an await between;   *)
(* Redis asks for the key and reads it in two calls.                        *)
Poll(c) ==
    LET read == After(sub[c].cursor) IN
    /\ sub[c].pc = "poll"
    /\ sub' = [sub EXCEPT ![c] =
                 IF sub[c].aborted \/ ~exists THEN Away
                 ELSE IF backend = "redis" THEN [@ EXCEPT !.pc = "read"]
                 ELSE IF read = <<>> THEN [@ EXCEPT !.pc = "parked"]
                 ELSE [@ EXCEPT !.pc = "yield", !.batch = read]]
    /\ UNCHANGED <<backend, prod, published, streamVars, elapsed, wire, got, faults>>

(* xRead of a missing key reads nothing.                                    *)
Read(c) ==
    LET read == After(sub[c].cursor) IN
    /\ sub[c].pc = "read"
    /\ sub' = [sub EXCEPT ![c] =
                 IF read # <<>> THEN [@ EXCEPT !.pc = "yield", !.batch = read]
                 ELSE IF sub[c].aborted THEN Away
                 ELSE [@ EXCEPT !.pc = "asleep"]]
    /\ UNCHANGED <<backend, prod, published, streamVars, elapsed, wire, got, faults>>

(* SUBSCRIBE_STREAM_POLL_SLEEP_INTERVAL_MS.                                 *)
Wake(c) ==
    /\ sub[c].pc = "asleep"
    /\ sub' = [sub EXCEPT ![c].pc = "poll"]
    /\ UNCHANGED <<backend, prod, published, streamVars, elapsed, wire, got, faults>>

(* One event yielded and written; turn.done ends the subscription.          *)
Yield(c) ==
    LET e == Head(sub[c].batch)
        rest == Tail(sub[c].batch)
    IN
    /\ sub[c].pc = "yield"
    /\ wire' = [wire EXCEPT ![c] = Append(@, e)]
    /\ sub' = [sub EXCEPT ![c] =
                 IF e.last THEN Away
                 ELSE [@ EXCEPT !.pc = IF rest = <<>> THEN "poll" ELSE "yield",
                                !.cursor = CursorAt(e), !.batch = rest]]
    /\ UNCHANGED <<backend, prod, published, streamVars, elapsed, got, faults>>

Serve(c) == Poll(c) \/ Read(c) \/ Wake(c) \/ Yield(c)

Receive(c) ==
    /\ wire[c] # <<>>
    /\ got' = [got EXCEPT ![c] = Append(@, Head(wire[c]))]
    /\ wire' = [wire EXCEPT ![c] = Tail(@)]
    /\ UNCHANGED <<backend, prod, published, streamVars, elapsed, sub, faults>>

-----------------------------------------------------------------------------
(* TURN_SUBSCRIBE_TIMEOUT_MS aborts the poll: a parked one at once, a busy  *)
(* one at the top of its loop.  The create response has no such timeout.    *)
Timeout(c) ==
    /\ sub[c].pc \notin {"away", "direct"} /\ ~sub[c].aborted
    /\ Fault
    /\ sub' = [sub EXCEPT ![c] = IF sub[c].pc \in {"parked", "asleep"} THEN Away
                                 ELSE [@ EXCEPT !.aborted = TRUE]]
    /\ UNCHANGED <<backend, prod, published, streamVars, elapsed, wire, got>>

(* The connection breaks with whatever was on the wire.  The handler stops; *)
(* the drain goes on.                                                       *)
Disconnect(c) ==
    /\ sub[c].pc # "away" \/ wire[c] # <<>>
    /\ Fault
    /\ sub' = [sub EXCEPT ![c] = Away]
    /\ wire' = [wire EXCEPT ![c] = <<>>]
    /\ UNCHANGED <<backend, prod, published, streamVars, elapsed, got>>

(* The process that runs the turn dies, with the connections it serves.  A  *)
(* stream in memory goes with it; one in Redis is left without turn.done.   *)
Crash ==
    /\ prod \in {"running", "forwarding", "closing"} /\ Fault
    /\ prod' = IF prod = "closing" THEN "done" ELSE "failed"
    /\ \E S \in SUBSET Client :
        /\ backend = "memory" => S = Client
        /\ {c \in Client : sub[c].pc = "direct"} \subseteq S
        /\ sub' = [c \in Client |-> IF c \in S THEN Away ELSE sub[c]]
        /\ wire' = [c \in Client |-> IF c \in S THEN <<>> ELSE wire[c]]
    /\ IF backend = "memory" THEN exists' = FALSE /\ log' = <<>> /\ ttl' = 0
       ELSE UNCHANGED <<exists, log, ttl>>
    /\ UNCHANGED <<backend, published, minted, elapsed, got>>

(* A run that is still going at the limit is ended by its timer, in less    *)
(* than the margin the stream has.                                          *)
TimePasses ==
    /\ prod \in {"running", "forwarding"} => elapsed < ExecutionLimit
    /\ ttl > 0
    /\ elapsed' = IF elapsed < ExecutionLimit THEN elapsed + 1 ELSE elapsed
    /\ IF ttl = 1 THEN Drop
       ELSE ttl' = ttl - 1 /\ UNCHANGED <<exists, log, sub>>
    /\ UNCHANGED <<backend, prod, published, minted, wire, got, faults>>

Next == \/ Produce \/ DrainFails \/ Crash \/ TimePasses
        \/ \E c \in Client : \/ Subscribe(c) \/ Serve(c) \/ Receive(c)
                             \/ Timeout(c) \/ Disconnect(c)

Spec == Init /\ [][Next]_vars

(* The run goes on, handlers and timers are served, bytes arrive.  Nobody   *)
(* has to come back, and the subscribe timeout is not counted on.           *)
FairSpec ==
    /\ Spec
    /\ WF_vars(Produce) /\ WF_vars(TimePasses)
    /\ \A c \in Client : WF_vars(Serve(c)) /\ WF_vars(Receive(c))

-----------------------------------------------------------------------------
Entry == [num : Nat, event : Nat, last : BOOLEAN]

TypeOK ==
    /\ backend \in Backend
    /\ prod \in {"running", "forwarding", "closing", "done", "failed"}
    /\ published \in Nat /\ minted \in Nat /\ ttl \in Nat /\ elapsed \in Nat
    /\ exists \in BOOLEAN
    /\ log \in Seq(Entry)
    /\ sub \in [Client -> [pc : {"away", "direct", "poll", "read", "parked",
                                 "asleep", "yield"},
                           cursor : Nat, batch : Seq(Entry), aborted : BOOLEAN]]
    /\ \A c \in Client : sub[c].pc = "yield" <=> sub[c].batch # <<>>
    /\ wire \in [Client -> Seq(Entry)]
    /\ got \in [Client -> Seq(Entry)]
    /\ faults \in Nat

(* No wake-up is lost: a poller parks only while it has been given the      *)
(* whole log of a stream that exists (inMemory.ts:30, 144-159).          *)
ParkedHasSeenAll ==
    \A c \in Client : sub[c].pc = "parked" => exists /\ sub[c].cursor = Len(log)

(* From turn.created to turn.done whoever comes finds the stream and is     *)
(* admitted, up to the run's time limit, and the stream always has an end:  *)
(* no turn, however it dies or begins, leaves one for ever (turns.ts:320,   *)
(* config.ts:593, redis.ts:60).                                             *)
StreamSpansRun ==
    /\ prod \in {"running", "forwarding"} /\ published > 0 =>
           exists /\ ttl >= Threshold
    /\ exists <=> ttl > 0

(* Each client receives the turn's events in order, without gap or          *)
(* repetition, over any number of connections (index.ts:33, turns.ts:355).  *)
Feed == INSTANCE EventFeed WITH
            Reader <- Client,
            feed <- published,
            closed <- prod \in {"closing", "done"},
            seen <- [c \in Client |-> [i \in 1 .. Len(got[c]) |-> got[c][i].event]]
KeepsFeed == Feed!FeedSpec

(* Every subscription ends by itself, with turn.done or with the stream,    *)
(* whatever became of the turn.                                             *)
SubscriptionsEnd == \A c \in Client : sub[c].pc # "away" ~> sub[c].pc = "away"
==============================================================================
