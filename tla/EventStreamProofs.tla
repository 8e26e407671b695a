-------------------------- MODULE EventStreamProofs --------------------------
(***************************************************************************)
(* Proofs about EventStream for both backends, any number of clients,      *)
(* events, disconnects and timeouts, and any lifetimes in the order of     *)
(* config.ts.                                                              *)
(***************************************************************************)
EXTENDS EventStream, SequenceTheorems, TLAPS

(* The entries n+1, n+2, ... of the turn, each under the number it has.     *)
Numbered(s, n) ==
    /\ s \in Seq(Entry)
    /\ \A i \in 1 .. Len(s) : s[i].num = n + i /\ s[i].event = n + i

LEMMA NumberedEmpty == Len(<<>>) = 0 /\ \A n : Numbered(<<>>, n)
BY EmptySeq DEF Numbered

LEMMA NumberedAppend ==
    ASSUME NEW n \in Nat, NEW s, Numbered(s, n), NEW e \in Entry,
           e.num = n + Len(s) + 1, e.event = n + Len(s) + 1
    PROVE  Numbered(Append(s, e), n) /\ Len(Append(s, e)) = Len(s) + 1
<1>1. s \in Seq(Entry) /\ Len(s) \in Nat
  BY DEF Numbered
<1>2. /\ Append(s, e) \in Seq(Entry) /\ Len(Append(s, e)) = Len(s) + 1
      /\ \A i \in 1 .. Len(s) : Append(s, e)[i] = s[i]
      /\ Append(s, e)[Len(s) + 1] = e
  BY <1>1, AppendProperties
<1>3. ASSUME NEW i \in 1 .. Len(s) + 1
      PROVE  Append(s, e)[i].num = n + i /\ Append(s, e)[i].event = n + i
  <2>1. CASE i = Len(s) + 1
    BY <1>1, <1>2, <2>1
  <2>2. CASE i \in 1 .. Len(s)
    BY <1>2, <2>2 DEF Numbered
  <2> QED BY <1>1, <2>1, <2>2
<1> QED BY <1>2, <1>3 DEF Numbered

LEMMA NumberedTail ==
    ASSUME NEW n \in Nat, NEW s, Numbered(s, n), s # <<>>
    PROVE  /\ Head(s) \in Entry /\ Head(s).num = n + 1 /\ Head(s).event = n + 1
           /\ Numbered(Tail(s), n + 1)
           /\ Len(s) \in Nat \ {0} /\ Len(Tail(s)) = Len(s) - 1
<1>1. s \in Seq(Entry) /\ Len(s) \in Nat \ {0}
  BY EmptySeq DEF Numbered
<1>2. /\ Head(s) \in Entry /\ Tail(s) \in Seq(Entry) /\ Len(Tail(s)) = Len(s) - 1
      /\ \A i \in 1 .. Len(Tail(s)) : Tail(s)[i] = s[i + 1]
  BY <1>1, HeadTailProperties DEF Numbered
<1>3. Head(s) = s[1]
  OBVIOUS
<1>4. \A i \in 1 .. Len(Tail(s)) : i + 1 \in 1 .. Len(s) /\ n + (i + 1) = n + 1 + i
  BY <1>1, <1>2
<1>5. 1 \in 1 .. Len(s)
  BY <1>1
<1> QED BY <1>1, <1>2, <1>3, <1>4, <1>5 DEF Numbered

LEMMA NumberedSlice ==
    ASSUME NEW s, Numbered(s, 0), NEW a \in Nat, NEW b \in Nat,
           a <= b, b <= Len(s)
    PROVE  Numbered(SubSeq(s, a + 1, b), a) /\ Len(SubSeq(s, a + 1, b)) = b - a
<1>1. s \in Seq(Entry) /\ Len(s) \in Nat
  BY DEF Numbered
<1>2. \A i \in (a + 1) .. b : s[i] \in Entry
  BY <1>1, ElementOfSeq
<1>3. /\ SubSeq(s, a + 1, b) \in Seq(Entry) /\ Len(SubSeq(s, a + 1, b)) = b - a
      /\ \A i \in 1 .. b - a : SubSeq(s, a + 1, b)[i] = s[a + i]
  <2>1. a + 1 \in Int /\ b \in Int
    OBVIOUS
  <2>2. /\ SubSeq(s, a + 1, b) \in Seq(Entry)
        /\ Len(SubSeq(s, a + 1, b)) = IF a + 1 <= b THEN b - (a + 1) + 1 ELSE 0
        /\ \A i \in 1 .. b - (a + 1) + 1 : SubSeq(s, a + 1, b)[i] = s[a + 1 + i - 1]
    BY <1>2, <2>1, SubSeqProperties
  <2> QED BY <2>2
<1> QED BY <1>1, <1>3 DEF Numbered

-----------------------------------------------------------------------------
(* The stream: its entries are the turn's events, all of them while it      *)
(* exists; while the turn runs it outlives the run's limit.                 *)
StreamInv ==
    /\ backend \in Backend /\ backend \in {"memory", "redis"}
    /\ prod \in {"running", "forwarding", "closing", "done", "failed"}
    /\ published \in Nat /\ minted \in Nat /\ ttl \in Nat /\ faults \in Nat
    /\ elapsed \in 0 .. ExecutionLimit
    /\ exists \in BOOLEAN /\ (exists <=> ttl > 0)
    /\ Numbered(log, 0)
    /\ Len(log) = IF exists THEN published ELSE 0
    /\ prod \in {"running", "forwarding", "closing"} => minted = published
    /\ published = 0 => prod \in {"running", "failed"} /\ ~exists
    /\ prod \in {"running", "forwarding"} /\ published > 0 =>
           exists /\ ttl + elapsed >= RunTTL

(* What a client has, and what is under way to it.                          *)
Has(c) == Len(got[c])
Sent(c) == Len(wire[c])
Batched(c) == Len(sub[c].batch)
At(c) == Has(c) + Sent(c)

CursorIs(k, n) == IF backend = "memory" THEN k = n ELSE k \in {2 * n + 1, 2 * n + 2}

Handler == [pc : {"away", "direct", "poll", "read", "parked", "asleep", "yield"},
            cursor : Nat, batch : Seq(Entry), aborted : BOOLEAN]

(* A client has the first events; its handler goes on with the next one.    *)
ClientInv(c) ==
    /\ sub[c] \in Handler
    /\ Numbered(got[c], 0) /\ Numbered(wire[c], Has(c))
    /\ At(c) <= published
    /\ sub[c].pc = "direct" =>
           /\ prod \in {"running", "forwarding", "closing"}
           /\ At(c) = IF prod = "running" THEN published ELSE published - 1
    /\ sub[c].pc \notin {"away", "direct"} => CursorIs(sub[c].cursor, At(c))
    /\ sub[c].pc = "yield" <=> sub[c].batch # <<>>
    /\ Numbered(sub[c].batch, At(c)) /\ At(c) + Batched(c) <= published
    /\ sub[c].pc = "parked" => backend = "memory" /\ exists
                               /\ sub[c].cursor = Len(log)
    /\ sub[c].pc = "read" => backend = "redis"

ClientsInv ==
    /\ sub \in [Client -> Handler]
    /\ wire \in [Client -> Seq(Entry)] /\ got \in [Client -> Seq(Entry)]
    /\ \A c \in Client : ClientInv(c)

LEMMA StreamInit == Init => StreamInv
<1> SUFFICES ASSUME Init PROVE StreamInv
  OBVIOUS
<1>1. /\ backend \in Backend /\ prod = "running" /\ published = 0 /\ minted = 0
      /\ ~exists /\ exists \in BOOLEAN /\ log = <<>> /\ ttl = 0 /\ elapsed = 0
      /\ faults = 0
  BY DEF Init
<1>2. Numbered(log, 0) /\ Len(log) = 0
  BY <1>1, NumberedEmpty
<1> QED BY <1>1, <1>2, TTLAssumption, StreamAssumption DEF StreamInv

LEMMA ClientsInit == Init => ClientsInv
<1> SUFFICES ASSUME Init PROVE ClientsInv
  OBVIOUS
<1>1. Len(<<>>) = 0 /\ <<>> \in Seq(Entry)
  BY EmptySeq
<1>2. sub \in [Client -> Handler]
  BY <1>1 DEF Init, Away, Handler
<1>3. ASSUME NEW c \in Client PROVE ClientInv(c)
  <2>1. got[c] = <<>> /\ wire[c] = <<>> /\ sub[c].batch = <<>>
        /\ sub[c].pc \in {"away", "direct"} /\ published = 0 /\ prod = "running"
    BY DEF Init, Away
  <2>2. Has(c) = 0 /\ Sent(c) = 0 /\ Batched(c) = 0
    BY <1>1, <2>1 DEF Has, Sent, Batched
  <2>3. At(c) = 0
    BY <2>2 DEF At
  <2> QED BY <1>1, <1>2, <2>1, <2>2, <2>3, NumberedEmpty DEF ClientInv
<1> QED BY <1>1, <1>2, <1>3 DEF Init, ClientsInv

-----------------------------------------------------------------------------
(* One put.                                                                 *)
LEMMA NextNumber ==
    ASSUME StreamInv, prod = "running"
    PROVE  Number = published + 1 /\ Len(log) = published
BY DEF StreamInv, Number

LEMMA TTLArmed ==
    ASSUME StreamInv, prod = "running", NEW last \in BOOLEAN
    PROVE  /\ TTLFor(TypeOf(last)) \in Nat \ {0}
           /\ ~last => TTLFor(TypeOf(last)) + elapsed >= RunTTL
<1>1. RunTTL \in Nat \ {0} /\ DoneTTL \in Nat \ {0} /\ elapsed \in Nat
  BY TTLAssumption DEF StreamInv
<1>2. CASE last
  BY <1>1, <1>2 DEF TTLFor, TypeOf
<1>3. CASE ~last /\ published = 0
  BY <1>1, <1>3 DEF TTLFor, TypeOf
<1>4. CASE ~last /\ published # 0
  <2>1. TTLFor(TypeOf(last)) = ttl
    BY <1>4 DEF TTLFor, TypeOf
  <2> QED BY <1>4, <2>1 DEF StreamInv
<1> QED BY <1>2, <1>3, <1>4

LEMMA NextEntry ==
    ASSUME StreamInv, prod = "running", NEW last \in BOOLEAN,
           log' = Append(log, [num |-> Number, event |-> published + 1, last |-> last])
    PROVE  Numbered(log', 0) /\ Len(log') = published + 1
<1>1. Numbered(log, 0) /\ Number = published + 1 /\ Len(log) = published
      /\ published \in Nat
  BY NextNumber DEF StreamInv
<1>2. [num |-> Number, event |-> published + 1, last |-> last] \in Entry
  BY <1>1 DEF Entry
<1> QED BY <1>1, <1>2, NumberedAppend

LEMMA StreamStep == ASSUME StreamInv, [Next]_vars PROVE StreamInv'
<1>1. ASSUME NEW last \in BOOLEAN, Publish(last) PROVE StreamInv'
  <2>1. Numbered(log', 0) /\ Len(log') = published + 1 /\ minted' = published + 1
    BY <1>1, NextEntry, NextNumber DEF Publish, Lands
  <2>2. /\ ttl' \in Nat \ {0}
        /\ ~last => ttl' + elapsed >= RunTTL
    BY <1>1, TTLArmed DEF Publish, Lands
  <2> QED BY <1>1, <2>1, <2>2 DEF Publish, Lands, StreamInv
<1>2. ASSUME Forward PROVE StreamInv'
  BY <1>2 DEF Forward, StreamInv, streamVars
<1>3. ASSUME DrainFails PROVE StreamInv'
  <2>1. /\ prod = "running" /\ prod' \in {"done", "failed"}
        /\ faults' = faults + 1 /\ UNCHANGED <<backend, elapsed, minted>>
    BY <1>3 DEF DrainFails, Fault
  <2>2. CASE UNCHANGED <<log, exists, ttl, published>> /\ prod' = "failed"
    BY <2>1, <2>2 DEF StreamInv
  <2>3. ASSUME NEW last \in BOOLEAN,
               log' = Append(log, [num |-> Number, event |-> published + 1,
                                   last |-> last]),
               exists' = TRUE, ttl' = TTLFor(TypeOf(last)),
               published' = published + 1
        PROVE  StreamInv'
    <3>1. Numbered(log', 0) /\ Len(log') = published + 1
      BY <2>1, <2>3, NextEntry
    <3>2. ttl' \in Nat \ {0}
      BY <2>1, <2>3, TTLArmed
    <3>3. exists' /\ exists' \in BOOLEAN
      BY <2>3
    <3>4. Len(log') = published' /\ published' = published + 1
      BY <2>3, <3>1
    <3>5. ttl' > 0
      BY <3>2
    <3> QED BY <2>1, <3>1, <3>2, <3>3, <3>4, <3>5 DEF StreamInv
  <2> QED BY <1>3, <2>2, <2>3 DEF DrainFails
<1>4. ASSUME Crash PROVE StreamInv'
  <2>1. /\ UNCHANGED <<backend, published, minted, elapsed>>
        /\ faults' = faults + 1 /\ prod' \in {"done", "failed"}
        /\ prod' = "done" => prod = "closing"
    BY <1>4 DEF Crash, Fault
  <2>2. CASE UNCHANGED <<exists, log, ttl>>
    BY <2>1, <2>2 DEF StreamInv
  <2>3. CASE exists' = FALSE /\ log' = <<>> /\ ttl' = 0
    <3>1. Numbered(log', 0) /\ Len(log') = 0
      BY <2>3, NumberedEmpty
    <3>2. ~exists' /\ exists' \in BOOLEAN
      BY <2>3
    <3>3. ~(ttl' > 0) /\ ttl' \in Nat
      BY <2>3
    <3> QED BY <2>1, <3>1, <3>2, <3>3 DEF StreamInv
  <2> QED BY <1>4, <2>2, <2>3 DEF Crash
<1>5. ASSUME TimePasses PROVE StreamInv'
  <2>1. elapsed' \in 0 .. ExecutionLimit
        /\ (prod \in {"running", "forwarding"} => elapsed' = elapsed + 1)
    BY <1>5, TTLAssumption DEF TimePasses, StreamInv
  <2>2. CASE ttl = 1
    <3>1. exists' = FALSE /\ log' = <<>> /\ ttl' = 0
      BY <1>5, <2>2 DEF TimePasses, Drop
    <3>2. prod \in {"running", "forwarding"} => published = 0
      BY <2>1, <2>2, TTLAssumption DEF StreamInv
    <3>3. Numbered(log', 0) /\ Len(log') = 0
      BY <3>1, NumberedEmpty
    <3>4. ~exists' /\ exists' \in BOOLEAN
      BY <3>1
    <3>6. ~(ttl' > 0) /\ ttl' \in Nat
      BY <3>1
    <3>5. UNCHANGED <<backend, prod, published, minted, faults>>
      BY <1>5 DEF TimePasses
    <3> QED BY <2>1, <3>2, <3>3, <3>4, <3>5, <3>6 DEF StreamInv
  <2>3. CASE ttl # 1
    BY <1>5, <2>1, <2>3 DEF TimePasses, StreamInv
  <2> QED BY <2>2, <2>3
<1>6. ASSUME NEW c \in Client,
             Subscribe(c) \/ Serve(c) \/ Receive(c) \/ Timeout(c) \/ Disconnect(c)
      PROVE  StreamInv'
  <2>1. /\ UNCHANGED <<backend, prod, published, minted, exists, log, ttl, elapsed>>
        /\ faults' \in {faults, faults + 1}
    BY <1>6 DEF Subscribe, Serve, Poll, Read, Wake, Yield, Receive, Timeout,
                Disconnect, Fault, streamVars
  <2> QED BY <2>1 DEF StreamInv
<1>7. CASE UNCHANGED vars
  BY <1>7 DEF vars, streamVars, StreamInv
<1>8. CASE Next
  BY <1>1, <1>2, <1>3, <1>4, <1>5, <1>6, <1>8 DEF Next, Produce
<1> QED BY <1>7, <1>8

(* From turn.created to turn.done whoever comes is admitted to the stream,  *)
(* and it always has an end, whatever the lifetimes, as long as the         *)
(* stream's exceeds the run's limit by the margin subscribing asks for      *)
(* (turns.ts:320, config.ts:593, redis.ts:60).                              *)
THEOREM StreamsSpanRuns == Spec => []StreamSpansRun
<1>1. StreamInv => StreamSpansRun
  BY TTLAssumption DEF StreamInv, StreamSpansRun
<1> QED BY <1>1, StreamInit, StreamStep, PTL DEF Spec
-----------------------------------------------------------------------------
LEMMA ClientLengths ==
    ASSUME NEW c \in Client, ClientInv(c)
    PROVE  /\ Has(c) \in Nat /\ Sent(c) \in Nat /\ Batched(c) \in Nat
           /\ At(c) \in Nat /\ At(c) <= published
<1>1. got[c] \in Seq(Entry) /\ wire[c] \in Seq(Entry) /\ sub[c].batch \in Seq(Entry)
  BY DEF ClientInv, Numbered
<1>2. Has(c) \in Nat /\ Sent(c) \in Nat /\ Batched(c) \in Nat
  BY <1>1, LenProperties DEF Has, Sent, Batched
<1>3. At(c) \in Nat
  BY <1>2 DEF At
<1>4. At(c) <= published
  BY DEF ClientInv
<1> QED BY <1>2, <1>3, <1>4

(* A client of which nothing changes, and whose stream does not go back.    *)
LEMMA ClientKept ==
    ASSUME NEW c \in Client, ClientInv(c), published \in Nat,
           backend' = backend, published' \in Nat, published' >= published,
           got'[c] = got[c], wire'[c] = wire[c], sub'[c] = sub[c],
           sub[c].pc = "parked" => exists' /\ Len(log') = Len(log),
           sub[c].pc = "direct" =>
               /\ prod' \in {"running", "forwarding", "closing"}
               /\ At(c) = IF prod' = "running" THEN published' ELSE published' - 1
    PROVE  ClientInv(c)'
<1>1. At(c)' = At(c) /\ Has(c)' = Has(c) /\ Batched(c)' = Batched(c)
  BY DEF At, Has, Sent, Batched
<1>2. At(c) \in Nat /\ Batched(c) \in Nat
  BY ClientLengths
<1>3. Numbered(got[c], 0)' /\ Numbered(wire[c], Has(c))'
      /\ Numbered(sub[c].batch, At(c))'
  BY <1>1 DEF ClientInv, Numbered
<1> QED BY <1>1, <1>2, <1>3 DEF ClientInv, CursorIs

(* A client whose poller is rung.                                           *)
LEMMA ClientRung ==
    ASSUME NEW c \in Client, ClientInv(c), published \in Nat,
           backend' = backend, published' \in Nat, published' >= published,
           got'[c] = got[c], wire'[c] = wire[c], sub'[c] = Rung[c],
           sub[c].pc = "direct" =>
               /\ prod' \in {"running", "forwarding", "closing"}
               /\ At(c) = IF prod' = "running" THEN published' ELSE published' - 1
    PROVE  ClientInv(c)'
<1>1. CASE sub[c].pc # "parked"
  <2>1. sub'[c] = sub[c]
    BY <1>1 DEF Rung
  <2> QED BY <1>1, <2>1, ClientKept
<1>2. CASE sub[c].pc = "parked"
  <2>1. sub'[c] = [sub[c] EXCEPT !.pc = "poll"]
    BY <1>2 DEF Rung
  <2>2. /\ sub'[c] \in Handler /\ sub'[c].pc = "poll"
        /\ sub'[c].cursor = sub[c].cursor /\ sub'[c].batch = sub[c].batch
    BY <2>1 DEF ClientInv, Handler
  <2>3. At(c)' = At(c) /\ Has(c)' = Has(c) /\ Batched(c)' = Batched(c)
    BY <2>2 DEF At, Has, Sent, Batched
  <2>4. At(c) \in Nat /\ Batched(c) \in Nat
    BY ClientLengths
  <2>5. Numbered(got[c], 0)' /\ Numbered(wire[c], Has(c))'
        /\ Numbered(sub[c].batch, At(c))'
    BY <2>2, <2>3 DEF ClientInv, Numbered
  <2> QED BY <1>2, <2>2, <2>3, <2>4, <2>5 DEF ClientInv, CursorIs
<1> QED BY <1>1, <1>2

(* A client whose handler is gone, perhaps with what was on the wire.       *)
LEMMA ClientAway ==
    ASSUME NEW c \in Client, ClientInv(c), published \in Nat,
           published' \in Nat, published' >= published,
           got'[c] = got[c], wire'[c] \in {wire[c], <<>>}, sub'[c] = Away
    PROVE  ClientInv(c)'
<1>1. sub'[c] \in Handler /\ sub'[c].pc = "away" /\ sub'[c].batch = <<>>
  BY EmptySeq DEF Away, Handler
<1>2. Numbered(got[c], 0)' /\ Numbered(wire[c], Has(c))'
  <2>1. Numbered(got[c], 0) /\ Numbered(wire[c], Has(c)) /\ Has(c)' = Has(c)
    BY DEF ClientInv, Has
  <2>2. CASE wire'[c] = wire[c]
    BY <2>1, <2>2
  <2>3. CASE wire'[c] = <<>>
    BY <2>1, <2>3, NumberedEmpty
  <2> QED BY <2>2, <2>3
<1>3. Has(c) \in Nat /\ Sent(c) \in Nat /\ At(c) <= published
  BY ClientLengths
<1>4. Has(c)' = Has(c) /\ Sent(c)' \in Nat /\ Sent(c)' <= Sent(c)
  <2>1. CASE wire'[c] = wire[c]
    <3>1. Sent(c)' = Sent(c) /\ Has(c)' = Has(c)
      BY <2>1 DEF Has, Sent
    <3> QED BY <1>3, <3>1
  <2>2. CASE wire'[c] = <<>>
    <3>1. Sent(c)' = 0
      BY <2>2, NumberedEmpty DEF Sent
    <3>2. Has(c)' = Has(c)
      BY DEF Has
    <3> QED BY <1>3, <3>1, <3>2
  <2> QED BY <2>1, <2>2
<1>5. At(c)' <= published' /\ At(c)' \in Nat
  BY <1>3, <1>4 DEF At
<1>6. Numbered(sub[c].batch, At(c))' /\ Batched(c)' = 0
  BY <1>1, NumberedEmpty DEF Batched
<1> QED BY <1>1, <1>2, <1>5, <1>6 DEF ClientInv

-----------------------------------------------------------------------------
(* What a read returns.                                                     *)
LEMMA AfterCursor ==
    ASSUME StreamInv, exists \/ backend = "redis",
           NEW n \in Nat, n <= published, NEW k \in Nat, CursorIs(k, n)
    PROVE  /\ Numbered(After(k), n) /\ n + Len(After(k)) <= published
           /\ backend = "memory" /\ After(k) = <<>> => k = Len(log)
<1>1. Numbered(log, 0) /\ Len(log) \in Nat /\ published \in Nat
      /\ (exists => Len(log) = published) /\ (~exists => Len(log) = 0)
  BY LenProperties DEF StreamInv, Numbered
<1>2. CASE backend = "memory"
  <2>1. After(k) = SubSeq(log, n + 1, Len(log)) /\ k = n /\ Len(log) = published
    BY <1>1, <1>2 DEF After, CursorIs
  <2>2. Numbered(After(k), n) /\ Len(After(k)) = published - n
    BY <1>1, <2>1, NumberedSlice
  <2> QED BY <1>1, <2>1, <2>2, NumberedEmpty
<1>3. CASE backend # "memory"
  <2> DEFINE Old(m) == \A i \in 1 .. Len(log) : i <= m <=> 2 * log[i].num + 1 <= k
             old == CHOOSE m \in 0 .. Len(log) : Old(m)
             up == IF Len(log) < old + PollItems THEN Len(log) ELSE old + PollItems
  <2>1. After(k) = SubSeq(log, old + 1, up)
    BY <1>3 DEF After
  <2>2. k \in {2 * n + 1, 2 * n + 2}
    BY <1>3 DEF CursorIs
  <2>3. \A i \in 1 .. Len(log) : 2 * log[i].num + 1 <= k <=> i <= n
    BY <1>1, <2>2 DEF Numbered
  <2>4. \E m \in 0 .. Len(log) : Old(m)
    <3>1. CASE exists
      <4>1. n \in 0 .. Len(log) /\ Old(n)
        BY <1>1, <2>3, <3>1
      <4> QED BY <4>1
    <3>2. CASE ~exists
      <4>1. 0 \in 0 .. Len(log) /\ Old(0)
        BY <1>1, <3>2
      <4> QED BY <4>1
    <3> QED BY <3>1, <3>2
  <2>5. old \in 0 .. Len(log) /\ Old(old)
    BY <2>4
  <2>6. old = IF exists THEN n ELSE 0
    <3>1. CASE exists
      <4>1. n \in 0 .. Len(log)
        BY <1>1, <3>1
      <4>2. \A i \in 1 .. Len(log) : i <= old <=> i <= n
        BY <2>3, <2>5
      <4>3. ~(old < n)
        <5>1. ASSUME old < n PROVE FALSE
          <6>1. n \in 1 .. Len(log) /\ ~(n <= old)
            BY <2>5, <4>1, <5>1
          <6> QED BY <4>2, <6>1
        <5> QED BY <5>1
      <4>4. ~(n < old)
        <5>1. ASSUME n < old PROVE FALSE
          <6>1. old \in 1 .. Len(log) /\ ~(old <= n)
            BY <2>5, <4>1, <5>1
          <6> QED BY <4>2, <6>1, <2>5
        <5> QED BY <5>1
      <4> QED BY <2>5, <3>1, <4>3, <4>4
    <3>2. CASE ~exists
      BY <1>1, <2>5, <3>2
    <3> QED BY <3>1, <3>2
  <2> HIDE DEF Old, old
  <2>7. up \in Nat /\ old \in Nat /\ old <= up /\ up <= Len(log)
    BY <1>1, <2>5, StreamAssumption
  <2> HIDE DEF up
  <2>8. Numbered(After(k), old) /\ Len(After(k)) = up - old
    BY <1>1, <2>1, <2>7, NumberedSlice
  <2>9. CASE exists
    BY <1>1, <1>3, <2>6, <2>7, <2>8, <2>9
  <2>10. CASE ~exists
    <3>1. Len(After(k)) = 0 /\ After(k) \in Seq(Entry)
      BY <1>1, <2>6, <2>7, <2>8, <2>10 DEF Numbered
    <3>2. Numbered(After(k), n)
      BY <3>1 DEF Numbered
    <3> QED BY <1>1, <1>3, <3>1, <3>2
  <2> QED BY <2>9, <2>10
<1> QED BY <1>2, <1>3

-----------------------------------------------------------------------------
(* Steps of the stream.                                                     *)
LEMMA ClientsAfter ==
    ASSUME ClientsInv, \A c \in Client : ClientInv(c)',
           got' \in [Client -> Seq(Entry)],
           wire' = [c \in Client |-> wire'[c]], sub' = [c \in Client |-> sub'[c]]
    PROVE  ClientsInv'
<1>1. \A c \in Client : sub'[c] \in Handler /\ wire'[c] \in Seq(Entry)
  BY DEF ClientInv, Numbered
<1> QED BY <1>1 DEF ClientsInv

LEMMA RungIsFunction == Rung = [c \in Client |-> Rung[c]]
BY DEF Rung

LEMMA PublishKeeps ==
    ASSUME StreamInv, ClientsInv, NEW last \in BOOLEAN, Publish(last)
    PROVE  ClientsInv'
<1>1. /\ prod = "running" /\ prod' \in {"forwarding", "closing"}
      /\ published \in Nat /\ published' = published + 1
      /\ UNCHANGED <<backend, got, wire>> /\ sub' = Rung
  BY DEF Publish, Lands, StreamInv
<1>2. ASSUME NEW c \in Client PROVE ClientInv(c)'
  <2>1. ClientInv(c)
    BY DEF ClientsInv
  <2>2. sub[c].pc = "direct" =>
            /\ prod' \in {"running", "forwarding", "closing"}
            /\ At(c) = IF prod' = "running" THEN published' ELSE published' - 1
    BY <1>1, <2>1 DEF ClientInv
  <2> QED BY <1>1, <2>1, <2>2, ClientRung
<1> QED BY <1>1, <1>2, ClientsAfter, RungIsFunction DEF ClientsInv

LEMMA ForwardKeeps == ASSUME StreamInv, ClientsInv, Forward PROVE ClientsInv'
<1> DEFINE e == [num |-> minted, event |-> published, last |-> prod = "closing"]
<1>1. /\ prod \in {"forwarding", "closing"}
      /\ prod' = IF prod = "closing" THEN "done" ELSE "running"
      /\ published \in Nat \ {0} /\ minted = published
      /\ UNCHANGED <<backend, published, exists, log, got>>
  BY DEF Forward, StreamInv, streamVars
<1>2. e \in Entry /\ e.num = published /\ e.event = published
  BY <1>1 DEF Entry
<1>3. /\ wire' = [c \in Client |-> IF sub[c].pc = "direct" THEN Append(wire[c], e)
                                   ELSE wire[c]]
      /\ sub' = IF prod = "closing"
                THEN [c \in Client |-> IF sub[c].pc = "direct" THEN Away ELSE sub[c]]
                ELSE sub
  BY DEF Forward
<1> HIDE DEF e
<1>4. ASSUME NEW c \in Client PROVE ClientInv(c)'
  <2>1. ClientInv(c)
    BY DEF ClientsInv
  <2>2. CASE sub[c].pc # "direct"
    <3>1. wire'[c] = wire[c] /\ sub'[c] = sub[c] /\ got'[c] = got[c]
      BY <1>1, <1>3, <2>2
    <3>2. sub[c].pc = "parked" => exists' /\ Len(log') = Len(log)
      BY <1>1, <2>1 DEF ClientInv
    <3> QED BY <1>1, <2>1, <2>2, <3>1, <3>2, ClientKept
  <2>3. CASE sub[c].pc = "direct"
    <3>1. wire'[c] = Append(wire[c], e) /\ got'[c] = got[c]
      BY <1>1, <1>3, <2>3
    <3>2. Has(c) \in Nat /\ Sent(c) \in Nat /\ published = Has(c) + Sent(c) + 1
          /\ Numbered(wire[c], Has(c))
      <4>1. At(c) = published - 1
        BY <1>1, <2>1, <2>3 DEF ClientInv
      <4> QED BY <1>1, <2>1, <4>1, ClientLengths DEF At, ClientInv
    <3>3. Numbered(wire'[c], Has(c)) /\ Len(wire'[c]) = Sent(c) + 1
      BY <1>2, <3>1, <3>2, NumberedAppend DEF Sent
    <3>4. Has(c)' = Has(c) /\ Sent(c)' = Sent(c) + 1
      BY <1>1, <3>3 DEF Has, Sent
    <3>5. At(c)' = published
      BY <3>2, <3>4 DEF At
    <3>6. Numbered(got[c], 0)' /\ Numbered(wire[c], Has(c))'
      BY <1>1, <2>1, <3>3, <3>4 DEF ClientInv
    <3>7. CASE prod = "closing"
      <4>1. sub'[c] = Away
        BY <1>3, <2>3, <3>7
      <4>2. sub'[c] \in Handler /\ sub'[c].pc = "away" /\ sub'[c].batch = <<>>
        BY <4>1, EmptySeq DEF Away, Handler
      <4>3. Numbered(sub[c].batch, At(c))' /\ Batched(c)' = 0
        BY <4>2, NumberedEmpty DEF Batched
      <4> QED BY <1>1, <3>5, <3>6, <4>2, <4>3 DEF ClientInv
    <3>8. CASE prod = "forwarding"
      <4>1. sub'[c] = sub[c] /\ prod' = "running"
        BY <1>1, <1>3, <3>8
      <4>2. sub[c].batch = <<>>
        BY <2>1, <2>3 DEF ClientInv
      <4>3. Numbered(sub[c].batch, At(c))' /\ Batched(c)' = 0
        BY <4>1, <4>2, NumberedEmpty DEF Batched
      <4> QED BY <1>1, <2>1, <2>3, <3>5, <3>6, <4>1, <4>2, <4>3 DEF ClientInv
    <3> QED BY <1>1, <3>7, <3>8
  <2> QED BY <2>2, <2>3
<1>5. sub' = [c \in Client |-> sub'[c]] /\ wire' = [c \in Client |-> wire'[c]]
  BY <1>3 DEF ClientsInv
<1> QED BY <1>1, <1>4, <1>5, ClientsAfter DEF ClientsInv

LEMMA DrainKeeps == ASSUME StreamInv, ClientsInv, DrainFails PROVE ClientsInv'
<1>1. /\ sub' = [c \in Client |-> IF sub[c].pc = "direct" THEN Away ELSE sub[c]]
      /\ UNCHANGED <<backend, got, wire>>
  BY DEF DrainFails
<1>2. published \in Nat /\ published' \in Nat /\ published' >= published
      /\ (backend = "memory" => exists' = exists /\ log' = log)
  <2>1. published \in Nat
    BY DEF StreamInv
  <2>2. CASE backend = "redis" /\ published' = published + 1
    BY <2>1, <2>2
  <2>3. CASE UNCHANGED <<log, exists, ttl, published>>
    BY <2>1, <2>3
  <2> QED BY <2>2, <2>3 DEF DrainFails
<1>3. ASSUME NEW c \in Client PROVE ClientInv(c)'
  <2>1. ClientInv(c)
    BY DEF ClientsInv
  <2>2. CASE sub[c].pc = "direct"
    <3>1. sub'[c] = Away /\ wire'[c] = wire[c] /\ got'[c] = got[c]
      BY <1>1, <2>2
    <3> QED BY <1>2, <2>1, <3>1, ClientAway
  <2>3. CASE sub[c].pc # "direct"
    <3>1. sub'[c] = sub[c] /\ wire'[c] = wire[c] /\ got'[c] = got[c]
      BY <1>1, <2>3
    <3>2. sub[c].pc = "parked" => exists' /\ Len(log') = Len(log)
      BY <1>2, <2>1 DEF ClientInv
    <3> QED BY <1>1, <1>2, <2>1, <2>3, <3>1, <3>2, ClientKept
  <2> QED BY <2>2, <2>3
<1> QED BY <1>1, <1>3, ClientsAfter DEF ClientsInv

LEMMA CrashKeeps == ASSUME StreamInv, ClientsInv, Crash PROVE ClientsInv'
<1>1. PICK S \in SUBSET Client :
        /\ backend = "memory" => S = Client
        /\ {c \in Client : sub[c].pc = "direct"} \subseteq S
        /\ sub' = [c \in Client |-> IF c \in S THEN Away ELSE sub[c]]
        /\ wire' = [c \in Client |-> IF c \in S THEN <<>> ELSE wire[c]]
  BY DEF Crash
<1>2. UNCHANGED <<backend, published, got>> /\ published \in Nat
      /\ published' >= published
  BY DEF Crash, StreamInv
<1>3. ASSUME NEW c \in Client PROVE ClientInv(c)'
  <2>1. ClientInv(c)
    BY DEF ClientsInv
  <2>2. CASE c \in S
    <3>1. sub'[c] = Away /\ wire'[c] = <<>> /\ got'[c] = got[c]
      BY <1>1, <1>2, <2>2
    <3> QED BY <1>2, <2>1, <3>1, ClientAway
  <2>3. CASE c \notin S
    <3>1. sub'[c] = sub[c] /\ wire'[c] = wire[c] /\ got'[c] = got[c]
      BY <1>1, <1>2, <2>3
    <3>2. sub[c].pc # "direct" /\ sub[c].pc # "parked"
      BY <1>1, <2>1, <2>3 DEF ClientInv
    <3> QED BY <1>2, <2>1, <3>1, <3>2, ClientKept
  <2> QED BY <2>2, <2>3
<1>4. got' \in [Client -> Seq(Entry)]
  BY <1>2 DEF ClientsInv
<1>5. sub' = [c \in Client |-> sub'[c]] /\ wire' = [c \in Client |-> wire'[c]]
  BY <1>1
<1> QED BY <1>3, <1>4, <1>5, ClientsAfter

LEMMA TimeKeeps == ASSUME StreamInv, ClientsInv, TimePasses PROVE ClientsInv'
<1>1. UNCHANGED <<backend, prod, published, got, wire>> /\ published \in Nat
      /\ published' >= published
  BY DEF TimePasses, StreamInv
<1>2. sub' = Rung \/ (sub' = sub /\ exists' = exists /\ log' = log)
  BY DEF TimePasses, Drop
<1>3. ASSUME NEW c \in Client PROVE ClientInv(c)'
  <2>1. ClientInv(c)
    BY DEF ClientsInv
  <2>2. sub[c].pc = "direct" =>
            /\ prod' \in {"running", "forwarding", "closing"}
            /\ At(c) = IF prod' = "running" THEN published' ELSE published' - 1
    BY <1>1, <2>1 DEF ClientInv
  <2>3. CASE sub' = Rung
    BY <1>1, <2>1, <2>2, <2>3, ClientRung
  <2>4. CASE sub' = sub /\ exists' = exists /\ log' = log
    <3>1. sub[c].pc = "parked" => exists' /\ Len(log') = Len(log)
      BY <2>1, <2>4 DEF ClientInv
    <3> QED BY <1>1, <2>1, <2>2, <2>4, <3>1, ClientKept
  <2> QED BY <1>2, <2>3, <2>4
<1>4. got' \in [Client -> Seq(Entry)]
  BY <1>1 DEF ClientsInv
<1>5. sub' = [c \in Client |-> sub'[c]] /\ wire' = [c \in Client |-> wire'[c]]
  BY <1>1, <1>2, RungIsFunction DEF ClientsInv
<1> QED BY <1>3, <1>4, <1>5, ClientsAfter

-----------------------------------------------------------------------------
(* Steps of one client and its handler.                                     *)
LEMMA ClientOnly ==
    ASSUME StreamInv, ClientsInv, NEW c \in Client, ClientInv(c)',
           UNCHANGED <<backend, prod, published, exists, log>>,
           sub' = [sub EXCEPT ![c] = sub'[c]],
           wire' = [wire EXCEPT ![c] = wire'[c]],
           got' = [got EXCEPT ![c] = got'[c]]
    PROVE  ClientsInv'
<1>1. sub'[c] \in Handler /\ wire'[c] \in Seq(Entry) /\ got'[c] \in Seq(Entry)
  BY DEF ClientInv, Numbered
<1>2. sub' \in [Client -> Handler] /\ wire' \in [Client -> Seq(Entry)]
      /\ got' \in [Client -> Seq(Entry)]
  BY <1>1 DEF ClientsInv
<1>3. ASSUME NEW d \in Client \ {c} PROVE ClientInv(d)'
  <2>1. ClientInv(d) /\ published \in Nat
    BY DEF ClientsInv, StreamInv
  <2>2. sub'[d] = sub[d] /\ wire'[d] = wire[d] /\ got'[d] = got[d]
    BY DEF ClientsInv
  <2>3. sub[d].pc = "parked" => exists' /\ Len(log') = Len(log)
    BY <2>1 DEF ClientInv
  <2>4. sub[d].pc = "direct" =>
            /\ prod' \in {"running", "forwarding", "closing"}
            /\ At(d) = IF prod' = "running" THEN published' ELSE published' - 1
    BY <2>1 DEF ClientInv
  <2>5. published' \in Nat /\ published' >= published
    BY <2>1
  <2> QED BY <2>1, <2>2, <2>3, <2>4, <2>5, ClientKept
<1> QED BY <1>2, <1>3 DEF ClientsInv

(* A handler that only moves on: the client has and gets what it did.       *)
LEMMA HandlerMoves ==
    ASSUME StreamInv, ClientsInv, NEW c \in Client, NEW h \in Handler,
           sub' = [sub EXCEPT ![c] = h],
           UNCHANGED <<backend, prod, published, exists, log, wire, got>>,
           h.pc # "direct",
           h.pc # "away" => CursorIs(h.cursor, At(c)),
           h.pc = "yield" <=> h.batch # <<>>,
           Numbered(h.batch, At(c)), At(c) + Len(h.batch) <= published,
           h.pc = "parked" => backend = "memory" /\ exists /\ h.cursor = Len(log),
           h.pc = "read" => backend = "redis"
    PROVE  ClientsInv'
<1>1. sub'[c] = h
  BY DEF ClientsInv
<1>2. ClientInv(c)
  BY DEF ClientsInv
<1>3. At(c)' = At(c) /\ Has(c)' = Has(c)
  BY DEF At, Has, Sent
<1>4. Numbered(got[c], 0)' /\ Numbered(wire[c], Has(c))'
      /\ Numbered(sub[c].batch, At(c))'
  BY <1>1, <1>2, <1>3 DEF ClientInv
<1>5. Batched(c)' = Len(h.batch)
  BY <1>1 DEF Batched
<1>6. ClientInv(c)'
  BY <1>1, <1>2, <1>3, <1>4, <1>5 DEF ClientInv, CursorIs
<1>7. /\ wire' = [wire EXCEPT ![c] = wire'[c]] /\ got' = [got EXCEPT ![c] = got'[c]]
      /\ sub' = [sub EXCEPT ![c] = sub'[c]]
  BY <1>1 DEF ClientsInv
<1> QED BY <1>6, <1>7, ClientOnly

LEMMA GoesAway ==
    ASSUME StreamInv, ClientsInv, NEW c \in Client, sub' = [sub EXCEPT ![c] = Away],
           UNCHANGED <<backend, prod, published, exists, log, wire, got>>
    PROVE  ClientsInv'
<1>1. Away \in Handler /\ Away.pc = "away" /\ Away.batch = <<>>
  BY EmptySeq DEF Away, Handler
<1>2. At(c) \in Nat /\ At(c) <= published
  BY ClientLengths DEF ClientsInv
<1>3. Numbered(Away.batch, At(c)) /\ Len(Away.batch) = 0
  BY <1>1, NumberedEmpty
<1>4. At(c) + Len(Away.batch) <= published
  BY <1>2, <1>3
<1> QED BY <1>1, <1>3, <1>4, HandlerMoves

LEMMA SubscribeKeeps ==
    ASSUME StreamInv, ClientsInv, NEW c \in Client, Subscribe(c)
    PROVE  ClientsInv'
<1> DEFINE h == [Away EXCEPT !.pc = "poll", !.cursor = ResumeAt(Received(c))]
<1>1. ClientInv(c) /\ Has(c) \in Nat /\ At(c) \in Nat /\ At(c) <= published
      /\ got[c] \in Seq(Entry)
  BY ClientLengths DEF ClientsInv
<1>2. At(c) = Has(c)
  <2>1. Sent(c) = 0
    BY NumberedEmpty DEF Subscribe, Sent
  <2> QED BY <1>1, <2>1 DEF At
<1>3. Received(c) = Has(c)
  <2>1. CASE got[c] = <<>>
    BY <2>1, NumberedEmpty DEF Received, Has
  <2>2. CASE got[c] # <<>>
    <3>1. Has(c) \in 1 .. Has(c)
      BY <1>1, <2>2, EmptySeq DEF Has
    <3>2. got[c][Has(c)].num = 0 + Has(c)
      BY <1>1, <3>1 DEF ClientInv, Numbered, Has
    <3>3. got[c][Has(c)].num = Has(c)
      BY <1>1, <3>2
    <3> QED BY <2>2, <3>3 DEF Received, Has
  <2> QED BY <2>1, <2>2
<1>4. ResumeAt(Received(c)) \in Nat /\ CursorIs(ResumeAt(Received(c)), At(c))
  BY <1>1, <1>2, <1>3 DEF ResumeAt, CursorIs
<1>5. /\ h \in Handler /\ h.pc = "poll" /\ h.batch = <<>>
      /\ h.cursor = ResumeAt(Received(c))
  BY <1>4, EmptySeq DEF Away, Handler
<1>6. sub' = [sub EXCEPT ![c] = h]
      /\ UNCHANGED <<backend, prod, published, exists, log, wire, got>>
  BY DEF Subscribe, streamVars
<1> HIDE DEF h
<1>7. Numbered(h.batch, At(c)) /\ Len(h.batch) = 0
  BY <1>5, NumberedEmpty
<1>8. At(c) + Len(h.batch) <= published
  BY <1>1, <1>7
<1>9. CursorIs(h.cursor, At(c))
  BY <1>4, <1>5
<1> QED BY <1>5, <1>6, <1>7, <1>8, <1>9, HandlerMoves

LEMMA PollKeeps ==
    ASSUME StreamInv, ClientsInv, NEW c \in Client, Poll(c)
    PROVE  ClientsInv'
<1> DEFINE k == sub[c].cursor
           read == After(k)
<1>1. /\ ClientInv(c) /\ At(c) \in Nat /\ At(c) <= published /\ sub[c] \in Handler
      /\ sub[c].pc = "poll" /\ sub[c].batch = <<>> /\ k \in Nat /\ CursorIs(k, At(c))
  BY ClientLengths DEF ClientsInv, ClientInv, Poll, Handler
<1>2. UNCHANGED <<backend, prod, published, exists, log, wire, got>>
  BY DEF Poll, streamVars
<1>3. CASE sub[c].aborted \/ ~exists
  BY <1>2, <1>3, GoesAway DEF Poll
<1>4. CASE ~sub[c].aborted /\ exists /\ backend = "redis"
  <2> DEFINE h == [sub[c] EXCEPT !.pc = "read"]
  <2>1. sub' = [sub EXCEPT ![c] = h]
    BY <1>4 DEF Poll
  <2>2. /\ h \in Handler /\ h.pc = "read" /\ h.batch = <<>> /\ h.cursor = k
    BY <1>1 DEF Handler
  <2> HIDE DEF h
  <2>3. Numbered(h.batch, At(c)) /\ Len(h.batch) = 0
    BY <2>2, NumberedEmpty
  <2>4. At(c) + Len(h.batch) <= published
    BY <1>1, <2>3
  <2> QED BY <1>1, <1>2, <1>4, <2>1, <2>2, <2>3, <2>4, HandlerMoves
<1>5. CASE ~sub[c].aborted /\ exists /\ backend # "redis"
  <2>1. /\ Numbered(read, At(c)) /\ At(c) + Len(read) <= published
        /\ backend = "memory" /\ (read = <<>> => k = Len(log))
    BY <1>1, <1>5, AfterCursor DEF StreamInv
  <2> HIDE DEF read
  <2>2. CASE read = <<>>
    <3> DEFINE h == [sub[c] EXCEPT !.pc = "parked"]
    <3>1. sub' = [sub EXCEPT ![c] = h]
      BY <1>5, <2>2 DEF Poll, read
    <3>2. /\ h \in Handler /\ h.pc = "parked" /\ h.batch = <<>> /\ h.cursor = k
      BY <1>1 DEF Handler
    <3> HIDE DEF h
    <3>3. Numbered(h.batch, At(c)) /\ Len(h.batch) = 0
      BY <3>2, NumberedEmpty
    <3>4. At(c) + Len(h.batch) <= published
      BY <1>1, <3>3
    <3> QED BY <1>1, <1>2, <1>5, <2>1, <2>2, <3>1, <3>2, <3>3, <3>4, HandlerMoves
  <2>3. CASE read # <<>>
    <3> DEFINE h == [sub[c] EXCEPT !.pc = "yield", !.batch = read]
    <3>1. sub' = [sub EXCEPT ![c] = h]
      BY <1>5, <2>3 DEF Poll, read
    <3>2. /\ h \in Handler /\ h.pc = "yield" /\ h.batch = read /\ h.cursor = k
      BY <1>1, <2>1 DEF Handler, Numbered
    <3> HIDE DEF h
    <3> QED BY <1>1, <1>2, <2>1, <2>3, <3>1, <3>2, HandlerMoves
  <2> QED BY <2>2, <2>3
<1> QED BY <1>3, <1>4, <1>5

LEMMA ReadKeeps ==
    ASSUME StreamInv, ClientsInv, NEW c \in Client, Read(c)
    PROVE  ClientsInv'
<1> DEFINE k == sub[c].cursor
           read == After(k)
<1>1. /\ ClientInv(c) /\ At(c) \in Nat /\ At(c) <= published /\ sub[c] \in Handler
      /\ sub[c].pc = "read" /\ sub[c].batch = <<>> /\ k \in Nat /\ CursorIs(k, At(c))
      /\ backend = "redis"
  BY ClientLengths DEF ClientsInv, ClientInv, Read, Handler
<1>2. UNCHANGED <<backend, prod, published, exists, log, wire, got>>
  BY DEF Read, streamVars
<1>3. Numbered(read, At(c)) /\ At(c) + Len(read) <= published
  BY <1>1, AfterCursor DEF StreamInv
<1> HIDE DEF read
<1>4. CASE read # <<>>
  <2> DEFINE h == [sub[c] EXCEPT !.pc = "yield", !.batch = read]
  <2>1. sub' = [sub EXCEPT ![c] = h]
    BY <1>4 DEF Read, read
  <2>2. /\ h \in Handler /\ h.pc = "yield" /\ h.batch = read /\ h.cursor = k
    BY <1>1, <1>3 DEF Handler, Numbered
  <2> HIDE DEF h
  <2> QED BY <1>1, <1>2, <1>3, <1>4, <2>1, <2>2, HandlerMoves
<1>5. CASE read = <<>> /\ sub[c].aborted
  BY <1>2, <1>5, GoesAway DEF Read, read
<1>6. CASE read = <<>> /\ ~sub[c].aborted
  <2> DEFINE h == [sub[c] EXCEPT !.pc = "asleep"]
  <2>1. sub' = [sub EXCEPT ![c] = h]
    BY <1>6 DEF Read, read
  <2>2. /\ h \in Handler /\ h.pc = "asleep" /\ h.batch = <<>> /\ h.cursor = k
    BY <1>1 DEF Handler
  <2> HIDE DEF h
  <2>3. Numbered(h.batch, At(c)) /\ Len(h.batch) = 0
    BY <2>2, NumberedEmpty
  <2>4. At(c) + Len(h.batch) <= published
    BY <1>1, <2>3
  <2> QED BY <1>1, <1>2, <2>1, <2>2, <2>3, <2>4, HandlerMoves
<1> QED BY <1>4, <1>5, <1>6

LEMMA WakeKeeps ==
    ASSUME StreamInv, ClientsInv, NEW c \in Client, Wake(c)
    PROVE  ClientsInv'
<1> DEFINE h == [sub[c] EXCEPT !.pc = "poll"]
<1>1. /\ ClientInv(c) /\ At(c) \in Nat /\ At(c) <= published /\ sub[c] \in Handler
      /\ sub[c].pc = "asleep" /\ sub[c].batch = <<>> /\ CursorIs(sub[c].cursor, At(c))
  BY ClientLengths DEF ClientsInv, ClientInv, Wake
<1>2. UNCHANGED <<backend, prod, published, exists, log, wire, got>>
      /\ sub' = [sub EXCEPT ![c] = h]
  BY DEF Wake, streamVars
<1>3. h \in Handler /\ h.pc = "poll" /\ h.batch = <<>> /\ h.cursor = sub[c].cursor
  BY <1>1 DEF Handler
<1> HIDE DEF h
<1>4. Numbered(h.batch, At(c)) /\ Len(h.batch) = 0
  BY <1>3, NumberedEmpty
<1>5. At(c) + Len(h.batch) <= published
  BY <1>1, <1>4
<1> QED BY <1>1, <1>2, <1>3, <1>4, <1>5, HandlerMoves

LEMMA YieldKeeps ==
    ASSUME StreamInv, ClientsInv, NEW c \in Client, Yield(c)
    PROVE  ClientsInv'
<1> DEFINE e == Head(sub[c].batch)
           rest == Tail(sub[c].batch)
<1>1. /\ ClientInv(c) /\ Has(c) \in Nat /\ Sent(c) \in Nat /\ At(c) \in Nat
      /\ Batched(c) \in Nat /\ sub[c] \in Handler /\ published \in Nat
      /\ backend \in {"memory", "redis"}
  BY ClientLengths DEF ClientsInv, ClientInv, StreamInv
<1>2. /\ sub[c].batch # <<>> /\ Numbered(sub[c].batch, At(c))
      /\ At(c) + Batched(c) <= published
  BY <1>1 DEF ClientInv, Yield
<1>3. /\ e \in Entry /\ e.num = At(c) + 1 /\ e.event = At(c) + 1
      /\ Numbered(rest, At(c) + 1) /\ Batched(c) \in Nat \ {0}
      /\ Len(rest) = Batched(c) - 1
  BY <1>1, <1>2, NumberedTail DEF Batched
<1>4. /\ UNCHANGED <<backend, prod, published, exists, log, got>>
      /\ wire' = [wire EXCEPT ![c] = Append(@, e)]
      /\ sub' = [sub EXCEPT ![c] =
                   IF e.last THEN Away
                   ELSE [@ EXCEPT !.pc = IF rest = <<>> THEN "poll" ELSE "yield",
                                  !.cursor = CursorAt(e), !.batch = rest]]
  BY DEF Yield, streamVars
<1> DEFINE h == IF e.last THEN Away
                ELSE [sub[c] EXCEPT !.pc = IF rest = <<>> THEN "poll" ELSE "yield",
                                    !.cursor = CursorAt(e), !.batch = rest]
<1>5. sub'[c] = h /\ wire'[c] = Append(wire[c], e)
  BY <1>4 DEF ClientsInv
<1> HIDE DEF e, rest
<1>6. CursorAt(e) \in Nat /\ CursorIs(CursorAt(e), At(c) + 1)
  BY <1>1, <1>3 DEF CursorAt, CursorIs
<1>7. /\ h \in Handler /\ h.pc \notin {"direct", "parked", "read"}
      /\ h.pc # "away" => CursorIs(h.cursor, At(c) + 1)
      /\ h.pc = "yield" <=> h.batch # <<>>
      /\ h.batch = rest \/ h.batch = <<>>
  <2>1. CASE e.last
    BY <2>1, EmptySeq DEF Away, Handler
  <2>2. CASE ~e.last
    <3>1. rest \in Seq(Entry)
      BY <1>3 DEF Numbered
    <3>2. h = [sub[c] EXCEPT !.pc = IF rest = <<>> THEN "poll" ELSE "yield",
                             !.cursor = CursorAt(e), !.batch = rest]
      BY <2>2
    <3> HIDE DEF h
    <3>3. /\ h.pc = IF rest = <<>> THEN "poll" ELSE "yield"
          /\ h.cursor = CursorAt(e) /\ h.batch = rest /\ h \in Handler
      BY <1>1, <1>6, <3>1, <3>2 DEF Handler
    <3> QED BY <1>6, <3>3
  <2> QED BY <2>1, <2>2
<1> HIDE DEF h
<1>8. Numbered(wire'[c], Has(c)) /\ Len(wire'[c]) = Sent(c) + 1
  <2>1. Numbered(wire[c], Has(c)) /\ At(c) = Has(c) + Sent(c)
    BY <1>1 DEF ClientInv, At
  <2>2. e.num = Has(c) + Sent(c) + 1 /\ e.event = Has(c) + Sent(c) + 1
    BY <1>1, <1>3, <2>1
  <2> QED BY <1>1, <1>3, <1>5, <2>1, <2>2, NumberedAppend DEF Sent
<1>9. Has(c)' = Has(c) /\ Sent(c)' = Sent(c) + 1
  BY <1>4, <1>8 DEF Has, Sent
<1>10. At(c)' = At(c) + 1
  BY <1>1, <1>9 DEF At
<1>11. Numbered(h.batch, At(c) + 1) /\ At(c) + 1 + Len(h.batch) <= published
  <2>1. CASE h.batch = rest
    BY <1>1, <1>2, <1>3, <2>1
  <2>2. CASE h.batch = <<>>
    BY <1>1, <1>2, <1>3, <2>2, NumberedEmpty
  <2> QED BY <1>7, <2>1, <2>2
<1>12. Batched(c)' = Len(h.batch) /\ Len(h.batch) \in Nat
  <2>1. h.batch \in Seq(Entry)
    BY <1>11 DEF Numbered
  <2> QED BY <1>5, <2>1, LenProperties DEF Batched
<1>13. At(c)' + Batched(c)' <= published' /\ At(c)' <= published'
  BY <1>1, <1>4, <1>10, <1>11, <1>12
<1>14. Numbered(got[c], 0)' /\ Numbered(wire[c], Has(c))'
       /\ Numbered(sub[c].batch, At(c))'
  BY <1>1, <1>4, <1>5, <1>8, <1>9, <1>10, <1>11 DEF ClientInv
<1>15. ClientInv(c)'
  BY <1>4, <1>5, <1>7, <1>10, <1>13, <1>14 DEF ClientInv, CursorIs
<1>16. /\ wire' = [wire EXCEPT ![c] = wire'[c]] /\ got' = [got EXCEPT ![c] = got'[c]]
       /\ sub' = [sub EXCEPT ![c] = sub'[c]]
  BY <1>4, <1>5 DEF ClientsInv, h
<1> QED BY <1>4, <1>15, <1>16, ClientOnly

(* What a client receives is the event after those it has.                  *)
LEMMA NextReceived ==
    ASSUME StreamInv, ClientsInv, NEW c \in Client, Receive(c)
    PROVE  /\ Has(c) \in Nat /\ Has(c) < published
           /\ got[c] \in Seq(Entry) /\ Len(got[c]) = Has(c)
           /\ Head(wire[c]) \in Entry /\ Head(wire[c]).event = Has(c) + 1
           /\ Numbered(got'[c], 0) /\ Len(got'[c]) = Has(c) + 1
           /\ got'[c] = Append(got[c], Head(wire[c]))
           /\ Numbered(wire'[c], Has(c) + 1) /\ Sent(c) \in Nat
           /\ Len(wire'[c]) = Sent(c) - 1
<1>1. /\ ClientInv(c) /\ Has(c) \in Nat /\ Sent(c) \in Nat /\ At(c) <= published
      /\ published \in Nat
  BY ClientLengths DEF ClientsInv, StreamInv
<1>2. Numbered(wire[c], Has(c)) /\ Numbered(got[c], 0) /\ wire[c] # <<>>
  BY <1>1 DEF ClientInv, Receive
<1>3. /\ Head(wire[c]) \in Entry /\ Head(wire[c]).num = Has(c) + 1
      /\ Head(wire[c]).event = Has(c) + 1
      /\ Numbered(Tail(wire[c]), Has(c) + 1)
      /\ Sent(c) \in Nat \ {0} /\ Len(Tail(wire[c])) = Sent(c) - 1
  BY <1>1, <1>2, NumberedTail DEF Sent
<1>4. got'[c] = Append(got[c], Head(wire[c])) /\ wire'[c] = Tail(wire[c])
  BY DEF Receive, ClientsInv
<1>5. Numbered(got'[c], 0) /\ Len(got'[c]) = Has(c) + 1
  <2>1. Head(wire[c]).num = 0 + Has(c) + 1 /\ Head(wire[c]).event = 0 + Has(c) + 1
    BY <1>1, <1>3
  <2> QED BY <1>2, <1>3, <1>4, <2>1, NumberedAppend DEF Has
<1>6. got[c] \in Seq(Entry) /\ Len(got[c]) = Has(c)
  BY <1>2 DEF Numbered, Has
<1>7. Has(c) < published
  <2>1. Has(c) + Sent(c) <= published
    BY <1>1 DEF At
  <2> QED BY <1>1, <1>3, <2>1
<1> QED BY <1>1, <1>3, <1>4, <1>5, <1>6, <1>7

LEMMA ReceiveKeeps ==
    ASSUME StreamInv, ClientsInv, NEW c \in Client, Receive(c)
    PROVE  ClientsInv'
<1>1. /\ ClientInv(c) /\ Has(c) \in Nat /\ Sent(c) \in Nat /\ At(c) \in Nat
  BY ClientLengths DEF ClientsInv
<1>2. /\ UNCHANGED <<backend, prod, published, exists, log, sub>>
  BY DEF Receive, streamVars
<1>3. Has(c)' = Has(c) + 1 /\ Sent(c)' = Sent(c) - 1
  BY NextReceived DEF Has, Sent
<1>4. At(c)' = At(c) /\ Batched(c)' = Batched(c)
  <2>1. At(c)' = At(c)
    BY <1>1, <1>3 DEF At
  <2> QED BY <1>2, <2>1 DEF Batched
<1>5. Numbered(got[c], 0)' /\ Numbered(wire[c], Has(c))'
  BY <1>3, NextReceived
<1>6. Numbered(sub[c].batch, At(c))'
  BY <1>1, <1>2, <1>4 DEF ClientInv
<1>7. ClientInv(c)'
  BY <1>1, <1>2, <1>4, <1>5, <1>6 DEF ClientInv, CursorIs
<1>8. /\ wire' = [wire EXCEPT ![c] = wire'[c]] /\ got' = [got EXCEPT ![c] = got'[c]]
      /\ sub' = [sub EXCEPT ![c] = sub'[c]]
  BY <1>2 DEF ClientsInv, Receive
<1> QED BY <1>2, <1>7, <1>8, ClientOnly

LEMMA TimeoutKeeps ==
    ASSUME StreamInv, ClientsInv, NEW c \in Client, Timeout(c)
    PROVE  ClientsInv'
<1>1. /\ ClientInv(c) /\ sub[c] \in Handler /\ sub[c].pc \notin {"away", "direct"}
  BY DEF ClientsInv, ClientInv, Timeout
<1>2. UNCHANGED <<backend, prod, published, exists, log, wire, got>>
  BY DEF Timeout, streamVars
<1>3. CASE sub[c].pc \in {"parked", "asleep"}
  BY <1>2, <1>3, GoesAway DEF Timeout
<1>4. CASE sub[c].pc \notin {"parked", "asleep"}
  <2> DEFINE h == [sub[c] EXCEPT !.aborted = TRUE]
  <2>1. sub' = [sub EXCEPT ![c] = h]
    BY <1>4 DEF Timeout
  <2>2. /\ h \in Handler /\ h.pc = sub[c].pc /\ h.batch = sub[c].batch
        /\ h.cursor = sub[c].cursor
    BY <1>1 DEF Handler
  <2> HIDE DEF h
  <2>3. Len(h.batch) = Batched(c)
    BY <2>2 DEF Batched
  <2> QED BY <1>1, <1>2, <1>4, <2>1, <2>2, <2>3, HandlerMoves DEF ClientInv
<1> QED BY <1>3, <1>4

LEMMA DisconnectKeeps ==
    ASSUME StreamInv, ClientsInv, NEW c \in Client, Disconnect(c)
    PROVE  ClientsInv'
<1>1. /\ UNCHANGED <<backend, prod, published, exists, log, got>>
      /\ sub' = [sub EXCEPT ![c] = Away] /\ wire' = [wire EXCEPT ![c] = <<>>]
  BY DEF Disconnect, streamVars
<1>2. ClientInv(c) /\ published \in Nat /\ published' >= published
  BY <1>1 DEF ClientsInv, StreamInv
<1>3. sub'[c] = Away /\ wire'[c] = <<>> /\ got'[c] = got[c]
  BY <1>1 DEF ClientsInv
<1>4. ClientInv(c)'
  BY <1>1, <1>2, <1>3, ClientAway
<1>5. /\ wire' = [wire EXCEPT ![c] = wire'[c]] /\ got' = [got EXCEPT ![c] = got'[c]]
      /\ sub' = [sub EXCEPT ![c] = sub'[c]]
  BY <1>1, <1>3 DEF ClientsInv
<1> QED BY <1>1, <1>4, <1>5, ClientOnly

LEMMA ClientsStep == ASSUME StreamInv, ClientsInv, [Next]_vars PROVE ClientsInv'
<1>1. CASE Produce
  BY <1>1, ForwardKeeps, PublishKeeps DEF Produce
<1>2. ASSUME NEW c \in Client, Serve(c) PROVE ClientsInv'
  BY <1>2, PollKeeps, ReadKeeps, WakeKeeps, YieldKeeps DEF Serve
<1>3. CASE UNCHANGED vars
  <2>1. UNCHANGED <<backend, prod, published, exists, log, sub, wire, got>>
    BY <1>3 DEF vars, streamVars
  <2>2. ASSUME NEW c \in Client PROVE ClientInv(c)'
    <3>1. ClientInv(c)
      BY DEF ClientsInv
    <3>2. At(c)' = At(c) /\ Has(c)' = Has(c) /\ Batched(c)' = Batched(c)
      BY <2>1 DEF At, Has, Sent, Batched
    <3> QED BY <2>1, <3>1, <3>2 DEF ClientInv, CursorIs
  <2> QED BY <2>1, <2>2 DEF ClientsInv
<1>4. CASE Next
  BY <1>1, <1>2, <1>4, DrainKeeps, CrashKeeps, TimeKeeps, SubscribeKeeps,
     ReceiveKeeps, TimeoutKeeps, DisconnectKeeps DEF Next
<1> QED BY <1>3, <1>4

(* The types of EventStream.                                                *)
THEOREM StreamTypeCorrect == Spec => []TypeOK
<1>1. StreamInv /\ ClientsInv => TypeOK
  <2> SUFFICES ASSUME StreamInv, ClientsInv PROVE TypeOK
    OBVIOUS
  <2>1. log \in Seq(Entry)
    BY DEF StreamInv, Numbered
  <2>2. elapsed \in Nat
    BY TTLAssumption DEF StreamInv
  <2> QED BY <2>1, <2>2 DEF StreamInv, ClientsInv, ClientInv, Handler, TypeOK
<1> QED BY <1>1, StreamInit, ClientsInit, StreamStep, ClientsStep, PTL DEF Spec

(* No wake-up is lost: a poller parks only while it has been given the      *)
(* whole log of a stream that exists (inMemory.ts:30, 144-159).             *)
THEOREM NoWakeUpIsLost == Spec => []ParkedHasSeenAll
<1>1. ClientsInv => ParkedHasSeenAll
  BY DEF ClientsInv, ClientInv, ParkedHasSeenAll
<1> QED BY <1>1, StreamInit, ClientsInit, StreamStep, ClientsStep, PTL DEF Spec

-----------------------------------------------------------------------------
(* The events of a client that has n of them, as EventFeed numbers them.    *)
UpTo(n) == [i \in 1 .. n |-> i]

LEMMA UpToIsSeq ==
    ASSUME NEW n \in Nat
    PROVE  /\ UpTo(n) \in Seq(Nat) /\ Len(UpTo(n)) = n
           /\ UpTo(n + 1) = Append(UpTo(n), n + 1)
<1>1. \A m \in Nat : UpTo(m) \in Seq(Nat) /\ Len(UpTo(m)) = m
  BY DEF UpTo
<1>2. /\ Append(UpTo(n), n + 1) \in Seq(Nat) /\ Len(Append(UpTo(n), n + 1)) = n + 1
      /\ \A i \in 1 .. n : Append(UpTo(n), n + 1)[i] = UpTo(n)[i]
      /\ Append(UpTo(n), n + 1)[n + 1] = n + 1
  BY <1>1, AppendProperties
<1>3. \A i \in 1 .. n + 1 : Append(UpTo(n), n + 1)[i] = UpTo(n + 1)[i]
  BY <1>2 DEF UpTo
<1>4. UpTo(n + 1) \in Seq(Nat) /\ Len(UpTo(n + 1)) = n + 1
  BY <1>1
<1> QED BY <1>1, <1>2, <1>3, <1>4, SeqEqual

SeenBy == [c \in Client |-> [i \in 1 .. Len(got[c]) |-> got[c][i].event]]

LEMMA SeenIsUpTo ==
    ASSUME ClientsInv
    PROVE  SeenBy = [c \in Client |-> UpTo(Has(c))]
<1>1. ASSUME NEW c \in Client
      PROVE  [i \in 1 .. Len(got[c]) |-> got[c][i].event] = UpTo(Has(c))
  <2>1. Numbered(got[c], 0) /\ Has(c) \in Nat
    BY ClientLengths DEF ClientsInv, ClientInv
  <2>2. \A i \in 1 .. Len(got[c]) : got[c][i].event = i
    BY <2>1 DEF Numbered
  <2> QED BY <2>2 DEF UpTo, Has
<1> QED BY <1>1 DEF SeenBy

(* One event received is one given by the feed; one published is one        *)
(* emitted; every other step stutters.                                      *)
LEMMA FeedStep ==
    ASSUME StreamInv, ClientsInv, ClientsInv', [Next]_vars
    PROVE  [Feed!FeedNext]_(Feed!feedVars)
<1> DEFINE Closed == prod \in {"closing", "done"}
<1>1. SUFFICES \/ /\ ~Closed /\ published' = published + 1
                  /\ SeenBy' = SeenBy
               \/ \E c \in Client :
                     /\ Len(SeenBy[c]) < published
                     /\ SeenBy' = [SeenBy EXCEPT ![c] = Append(@, Len(@) + 1)]
                     /\ published' = published /\ Closed' = Closed
               \/ published' = published /\ Closed' = Closed /\ SeenBy' = SeenBy
  <2>1. ASSUME ~Closed, published' = published + 1, SeenBy' = SeenBy
        PROVE  Feed!Emit
    <3>1. Closed' \in BOOLEAN
      OBVIOUS
    <3> QED BY <2>1, <3>1 DEF Feed!Emit, SeenBy
  <2>2. ASSUME NEW c \in Client, Len(SeenBy[c]) < published,
               SeenBy' = [SeenBy EXCEPT ![c] = Append(@, Len(@) + 1)],
               published' = published, Closed' = Closed
        PROVE  Feed!Give(c)
    BY <2>2 DEF Feed!Give, SeenBy
  <2>3. ASSUME published' = published, Closed' = Closed, SeenBy' = SeenBy
        PROVE  UNCHANGED Feed!feedVars
    BY <2>3 DEF Feed!feedVars, SeenBy
  <2> QED BY <2>1, <2>2, <2>3 DEF Feed!FeedNext
<1>2. ASSUME NEW last \in BOOLEAN, Publish(last)
      PROVE  ~Closed /\ published' = published + 1 /\ SeenBy' = SeenBy
  BY <1>2 DEF Publish, Lands, SeenBy
<1>3. ASSUME Forward
      PROVE  published' = published /\ Closed' = Closed /\ SeenBy' = SeenBy
  <2>1. got' = got /\ published' = published
    BY <1>3 DEF Forward
  <2>2. prod \in {"forwarding", "closing"}
        /\ prod' = IF prod = "closing" THEN "done" ELSE "running"
    BY <1>3 DEF Forward
  <2> QED BY <2>1, <2>2 DEF SeenBy
<1>4. ASSUME DrainFails
      PROVE  \/ ~Closed /\ published' = published + 1 /\ SeenBy' = SeenBy
             \/ published' = published /\ Closed' = Closed /\ SeenBy' = SeenBy
  <2>1. /\ got' = got /\ published' \in {published, published + 1}
        /\ prod = "running" /\ prod' \in {"done", "failed"}
        /\ published' = published => prod' = "failed"
    <3>1. published \in Nat
      BY DEF StreamInv
    <3>2. got' = got /\ prod = "running"
      BY <1>4 DEF DrainFails
    <3>3. \/ published' = published + 1 /\ prod' \in {"done", "failed"}
          \/ published' = published /\ prod' = "failed"
      BY <1>4 DEF DrainFails
    <3>4. published + 1 # published
      BY <3>1
    <3> QED BY <3>2, <3>3, <3>4
  <2>2. ~Closed /\ SeenBy' = SeenBy
    BY <2>1 DEF SeenBy
  <2>3. CASE published' = published
    <3>1. ~Closed'
      BY <2>1, <2>3
    <3> QED BY <2>2, <2>3, <3>1
  <2>4. CASE published' = published + 1
    BY <2>2, <2>4
  <2> QED BY <2>1, <2>3, <2>4
<1>5. ASSUME Crash
      PROVE  published' = published /\ Closed' = Closed /\ SeenBy' = SeenBy
  BY <1>5 DEF Crash, SeenBy
<1>6. ASSUME TimePasses
      PROVE  published' = published /\ Closed' = Closed /\ SeenBy' = SeenBy
  BY <1>6 DEF TimePasses, SeenBy
<1>7. ASSUME NEW c \in Client,
             Subscribe(c) \/ Serve(c) \/ Timeout(c) \/ Disconnect(c)
      PROVE  published' = published /\ Closed' = Closed /\ SeenBy' = SeenBy
  BY <1>7 DEF Subscribe, Serve, Poll, Read, Wake, Yield, Timeout, Disconnect,
              SeenBy
<1>8. ASSUME NEW c \in Client, Receive(c)
      PROVE  /\ Len(SeenBy[c]) < published
             /\ SeenBy' = [SeenBy EXCEPT ![c] = Append(@, Len(@) + 1)]
             /\ published' = published /\ Closed' = Closed
  <2>1. published' = published /\ Closed' = Closed
    BY <1>8 DEF Receive
  <2>2. Has(c) \in Nat /\ Has(c) < published /\ Has(c)' = Has(c) + 1
    BY <1>8, NextReceived DEF Has
  <2>3. \A d \in Client \ {c} : Has(d)' = Has(d)
    BY <1>8 DEF Receive, Has, ClientsInv
  <2>4. SeenBy = [d \in Client |-> UpTo(Has(d))]
    BY SeenIsUpTo
  <2>5. SeenBy' = [d \in Client |-> UpTo(Has(d)')]
    <3>1. ASSUME NEW d \in Client
          PROVE  [i \in 1 .. Len(got'[d]) |-> got'[d][i].event] = UpTo(Has(d)')
      <4>1. Numbered(got'[d], 0)
        BY DEF ClientsInv, ClientInv
      <4>2. \A i \in 1 .. Len(got'[d]) : got'[d][i].event = i
        BY <4>1 DEF Numbered
      <4> QED BY <4>2 DEF UpTo, Has
    <3> QED BY <3>1 DEF SeenBy
  <2>6. Len(UpTo(Has(c))) = Has(c)
        /\ UpTo(Has(c) + 1) = Append(UpTo(Has(c)), Has(c) + 1)
    BY <2>2, UpToIsSeq
  <2>7. SeenBy[c] = UpTo(Has(c)) /\ Len(SeenBy[c]) = Has(c)
    BY <2>4, <2>6
  <2>8. SeenBy' = [d \in Client |-> IF d = c THEN Append(SeenBy[c], Len(SeenBy[c]) + 1)
                                    ELSE SeenBy[d]]
    BY <2>2, <2>3, <2>4, <2>5, <2>6, <2>7
  <2>9. SeenBy' = [SeenBy EXCEPT ![c] = Append(@, Len(@) + 1)]
    BY <2>4, <2>8
  <2> QED BY <2>1, <2>2, <2>7, <2>9
<1>9. CASE UNCHANGED vars
  BY <1>9 DEF vars, SeenBy
<1>10. CASE Next
  BY <1>2, <1>3, <1>4, <1>5, <1>6, <1>7, <1>8, <1>10 DEF Next, Produce
<1> QED BY <1>9, <1>10

(* Each client receives the turn's events in order, without gap or          *)
(* repetition, over any number of connections and with either backend: the  *)
(* stream implements EventFeed (index.ts:33, turns.ts:355).                 *)
THEOREM StreamKeepsFeed == Spec => KeepsFeed
<1>1. Init => Feed!FeedInit
  <2> SUFFICES ASSUME Init PROVE Feed!FeedInit
    OBVIOUS
  <2>1. UpTo(0) = <<>>
    BY UpToIsSeq, EmptySeq
  <2>2. ASSUME NEW c \in Client
        PROVE  [i \in 1 .. Len(got[c]) |-> got[c][i].event] = <<>>
    <3>1. 1 .. Len(got[c]) = {} /\ 1 .. 0 = {}
      <4>1. got[c] = <<>>
        BY DEF Init
      <4>2. Len(got[c]) = 0
        BY <4>1, NumberedEmpty
      <4> QED BY <4>2
    <3> QED BY <2>1, <3>1 DEF UpTo
  <2> QED BY <2>2 DEF Init, Feed!FeedInit
<1>2. StreamInv /\ ClientsInv /\ ClientsInv' /\ [Next]_vars
      => [Feed!FeedNext]_(Feed!feedVars)
  BY FeedStep
<1>3. Spec => [](StreamInv /\ ClientsInv)
  BY StreamInit, ClientsInit, StreamStep, ClientsStep, PTL DEF Spec
<1> QED BY <1>1, <1>2, <1>3, PTL DEF Spec, KeepsFeed, Feed!FeedSpec
==============================================================================
