------------------------------ MODULE Streams -------------------------------
(***************************************************************************)
(* Streams.Subscribe and AckOffset for one subject                         *)
(* (crates/core/src/handlers/streams.rs).  A pump reads the subject's      *)
(* source, numbers each event, keeps the last ones in a ring and sends     *)
(* them on to the subscribers.  A client that reconnects names the last    *)
(* offset it saw; it is replayed what it missed, or is told that the ring  *)
(* no longer holds it.  The source is a session's broadcast: it ends with  *)
(* the session and a resume brings another one under the same id.          *)
(***************************************************************************)
EXTENDS Integers, FiniteSets, SequencesExt

CONSTANTS
  Clients,             \* each holds at most one stream at a time
  RingCap,             \* RING_EVENT_CAP, or RING_SESSION_IO_BYTE_CAP
  ByteBound,           \* RingBound::Bytes (session.io) or RingBound::Count
  Weights,             \* the payload lengths that occur
  LiveCap,             \* LIVE_BROADCAST_CAP
  MaxEvents,           \* events the sources emit in all
  MaxAttaches,         \* Subscribe calls in all
  MaxIncarnations      \* starts and resumes of the session

ASSUME StreamsAssumption ==
  /\ ByteBound \in BOOLEAN /\ Weights \subseteq Nat
  /\ {RingCap, LiveCap} \subseteq Nat \ {0}
  /\ {MaxEvents, MaxAttaches, MaxIncarnations} \subseteq Nat

VARIABLES
  source,              \* [up, inc, events]: the session, its incarnation, and
                       \* the weights of its events_replay
  ring,                \* retained entries [off, w], oldest first
  counter,             \* the next offset to assign
  acks,                \* open clients -> watermark; None when not registered
  pump,                \* [inc, queue, sending]: the incarnation it reads (0: not
                       \* started), what it has not read, what it has stamped
                       \* and not sent on yet
  client,              \* client -> its stream
  leaving,             \* guards dropped, their tasks not run yet
  emitted, attaches    \* bounds

buffer == <<ring, counter, acks>>
stVars == <<source, ring, counter, acks, pump, client, leaving, emitted, attaches>>

None == -1
Closed == [pc |-> "closed", since |-> None, snap |-> << >>, queue |-> << >>,
           prefix |-> << >>, inbox |-> << >>, next |-> 0, at |-> 0, from |-> 0,
           lagged |-> FALSE, seen |-> None]

StreamsInit ==
  /\ source = [up |-> FALSE, inc |-> 0, events |-> << >>]
  /\ ring = << >> /\ counter = 0
  /\ acks = [c \in Clients |-> None]
  /\ pump = [inc |-> 0, queue |-> << >>, sending |-> None]
  /\ client = [c \in Clients |-> Closed]
  /\ leaving = {}
  /\ emitted = 0 /\ attaches = 0

-----------------------------------------------------------------------------
(* SubjectBuffer                                                           *)

\* The front entry's offset, or the next to be assigned.
Floor(q, n) == IF q = << >> THEN n ELSE q[1].off

Bytes(q) == FoldLeft(LAMBDA sum, e : sum + e.w, 0, q)
Over(q) == IF ByteBound THEN Bytes(q) > RingCap /\ Len(q) > 1 ELSE Len(q) > RingCap

\* Entries leave a ring from the front; offsets ascend in it.
From(q, k) == SubSeq(q, k, Len(q))
After(q, o) == From(q, Min({k \in 1..(Len(q) + 1) : k > Len(q) \/ q[k].off > o}))

\* evict: until the bound holds.
Evict(q) == From(q, Min({k \in 1..Len(q) : ~Over(From(q, k))}))

Publish(q, n, w) == Evict(Append(q, [off |-> n, w |-> w]))

\* The ring and the counter after a batch of publishes.  What the bound puts
\* out after each of them, it puts out after the last: weights only add up.
PublishAll(ws) ==
  LET batch == ring \o [i \in 1..Len(ws) |-> [off |-> counter + i - 1, w |-> ws[i]]]
  IN  [q |-> IF ws = << >> THEN ring ELSE Evict(batch), n |-> counter + Len(ws)]

Offsets(q) == [i \in 1..Len(q) |-> q[i].off]
ReplayAfter(q, since) == Offsets(After(q, since))

\* prune_to_min_ack: no registered subscriber, no pruning.
Pruned(q, a) ==
  LET watermarks == {a[c] : c \in Clients} \ {None}
  IN  IF watermarks = {} THEN q ELSE After(q, Min(watermarks))

-----------------------------------------------------------------------------
(* The session behind the subject                                          *)

SourceStarts ==
  /\ ~source.up /\ source.inc < MaxIncarnations
  /\ source' = [up |-> TRUE, inc |-> source.inc + 1, events |-> << >>]
  /\ UNCHANGED <<buffer, pump, client, leaving, emitted, attaches>>

\* An event reaches every receiver of this incarnation's broadcast: the
\* pump's, and those of subscribes that have built a source and not installed it.
Emit(w) ==
  /\ source.up /\ emitted < MaxEvents
  /\ emitted' = emitted + 1
  /\ source' = [source EXCEPT !.events = Append(@, w)]
  /\ pump' = IF pump.inc = source.inc THEN [pump EXCEPT !.queue = Append(@, w)] ELSE pump
  /\ client' = [c \in Clients |->
                  IF client[c].pc = "built" /\ client[c].from = source.inc
                    THEN [client[c] EXCEPT !.queue = Append(@, w)] ELSE client[c]]
  /\ UNCHANGED <<buffer, leaving, attaches>>

\* The entry leaves the supervisor's map; receivers drain what they hold.
SourceEnds ==
  /\ source.up
  /\ source' = [source EXCEPT !.up = FALSE]
  /\ UNCHANGED <<buffer, pump, client, leaving, emitted, attaches>>

-----------------------------------------------------------------------------
(* attach                                                                  *)

\* A client asks again from the last offset it saw, or live only.
Since(c) == IF client[c].seen = None THEN {None} ELSE {None, client[c].seen}

\* The next offset wanted is still in the ring; and a slip by one.
RetainedLate(since, floor) == floor = 0 \/ since + 2 >= floor
Retained(since, floor) == floor = 0 \/ since + 1 >= floor

\* register_subscriber: the acks entry, and the frames before the live ones.
\* q, n are the buffer at registration, creating the creator's snapshot.  The
\* predecessor of floor 0 saturates to 0.
Register(c, since, creating, q, n) ==
  LET floor == Floor(q, n)
      gap == since # None /\ ~Retained(since, floor)
  IN  /\ acks' = [acks EXCEPT ![c] = IF since # None THEN since
                                     ELSE IF floor = 0 THEN 0 ELSE floor - 1]
      /\ client' = [client EXCEPT ![c] =
           [Closed EXCEPT !.pc = "open", !.since = since, !.at = client[c].at,
              !.seen = IF gap \/ since = None THEN None ELSE since,
              !.prefix = IF since = None THEN creating
                         ELSE IF gap THEN << >> ELSE ReplayAfter(q, since),
              !.next = IF since = None THEN n - Len(creating)
                       ELSE IF gap THEN n ELSE since + 1]]

\* need_pump, looked at under the lock and acted on after it is released.  A
\* subscribe that needs a source fails when the session is not running.
BeginAttach(c) ==
  /\ client[c].pc = "closed" /\ c \notin leaving /\ attaches < MaxAttaches
  /\ attaches' = attaches + 1
  /\ \E since \in Since(c) :
       IF pump.inc = 0
         THEN /\ source.up
              /\ client' = [client EXCEPT ![c].pc = "build", ![c].since = since, ![c].at = source.inc]
         ELSE client' = [client EXCEPT ![c].pc = "join", ![c].since = since,
                                                   ![c].at = IF source.up THEN source.inc ELSE 0]
  /\ UNCHANGED <<source, buffer, pump, leaving, emitted>>

BuildSource(c) ==
  /\ client[c].pc = "build"
  /\ client' = [client EXCEPT ![c] =
       IF source.up THEN [@ EXCEPT !.pc = "built", !.snap = source.events, !.from = source.inc]
                    ELSE [@ EXCEPT !.pc = "closed"]]
  /\ UNCHANGED <<source, buffer, pump, leaving, emitted, attaches>>

\* The one critical section: the first to come installs its pump and publishes
\* its snapshot, the others drop theirs.
Install(c) ==
  /\ client[c].pc = "built"
  /\ IF pump.inc = 0
       THEN LET b == PublishAll(client[c].snap)
            IN  /\ pump' = [inc |-> client[c].from, queue |-> client[c].queue, sending |-> None]
                /\ ring' = b.q /\ counter' = b.n
                /\ Register(c, client[c].since,
                            [i \in 1..Len(client[c].snap) |-> counter + i - 1], b.q, b.n)
       ELSE Register(c, client[c].since, << >>, ring, counter) /\ UNCHANGED <<pump, ring, counter>>
  /\ UNCHANGED <<source, leaving, emitted, attaches>>

Join(c) ==
  /\ client[c].pc = "join"
  /\ Register(c, client[c].since, << >>, ring, counter)
  /\ UNCHANGED <<source, pump, ring, counter, leaving, emitted, attaches>>

-----------------------------------------------------------------------------
(* The pump: stamping under the lock, sending after it.                    *)

PumpPublish ==
  /\ pump.sending = None /\ pump.queue # << >>
  /\ ring' = Publish(ring, counter, Head(pump.queue))
  /\ counter' = counter + 1
  /\ pump' = [pump EXCEPT !.queue = Tail(@), !.sending = counter]
  /\ UNCHANGED <<source, acks, client, leaving, emitted, attaches>>

\* A receiver that is LiveCap behind loses its oldest event; BroadcastStream
\* reports it and filter_map drops the report.
Deliver(s, o) ==
  IF s.pc # "open" THEN s
  ELSE IF Len(s.inbox) < LiveCap THEN [s EXCEPT !.inbox = Append(@, o)]
  ELSE [s EXCEPT !.inbox = Append(Tail(@), o), !.lagged = TRUE]

PumpSend ==
  /\ pump.sending # None
  /\ client' = [c \in Clients |-> Deliver(client[c], pump.sending)]
  /\ pump' = [pump EXCEPT !.sending = None]
  /\ UNCHANGED <<source, buffer, leaving, emitted, attaches>>

-----------------------------------------------------------------------------
(* The client's side                                                       *)

\* What was sent since it registered comes behind the replay; and before it.
FramesLiveFirst(c) == client[c].inbox \o client[c].prefix
Frames(c) == client[c].prefix \o client[c].inbox

Receive(c) ==
  /\ client[c].pc = "open" /\ Frames(c) # << >>
  /\ LET o == Head(Frames(c))
         s == client[c]
     IN  client' = [client EXCEPT ![c] =
           [s EXCEPT !.seen = o, !.next = IF o >= s.next THEN o + 1 ELSE s.next,
                     !.prefix = IF s.prefix = << >> THEN << >> ELSE Tail(s.prefix),
                     !.inbox = IF s.prefix = << >> THEN Tail(s.inbox) ELSE s.inbox]]
  /\ UNCHANGED <<source, buffer, pump, leaving, emitted, attaches>>

\* ack_offset knows no subscriber: it raises every watermark below it.
AckOffset(c) ==
  /\ client[c].seen # None
  /\ acks' = [d \in Clients |->
                IF acks[d] # None /\ acks[d] < client[c].seen THEN client[c].seen ELSE acks[d]]
  /\ ring' = Pruned(ring, acks')
  /\ acks' # acks \/ ring' # ring
  /\ UNCHANGED <<source, counter, pump, client, leaving, emitted, attaches>>

\* The stream drops, its guard's task follows.
Drop(c) ==
  /\ client[c].pc = "open"
  /\ client' = [client EXCEPT ![c] = [Closed EXCEPT !.seen = client[c].seen]]
  /\ leaving' = leaving \cup {c}
  /\ UNCHANGED <<source, buffer, pump, emitted, attaches>>

Deregister(c) ==
  /\ c \in leaving
  /\ leaving' = leaving \ {c}
  /\ acks' = [acks EXCEPT ![c] = None]
  /\ ring' = Pruned(ring, acks')
  /\ UNCHANGED <<source, counter, pump, client, emitted, attaches>>

StreamsNext ==
  \/ SourceStarts \/ SourceEnds \/ PumpPublish \/ PumpSend
  \/ \E w \in Weights : Emit(w)
  \/ \E c \in Clients : \/ BeginAttach(c) \/ BuildSource(c) \/ Install(c) \/ Join(c)
                        \/ Receive(c) \/ AckOffset(c) \/ Drop(c) \/ Deregister(c)

StreamsSpec == StreamsInit /\ [][StreamsNext]_stVars

-----------------------------------------------------------------------------
OffsetOrNone == Nat \cup {None}

StreamsTypeOK ==
  /\ source \in [up : BOOLEAN, inc : 0..MaxIncarnations, events : Seq(Weights)]
  /\ ring \in Seq([off : Nat, w : Weights]) /\ counter \in 0..(MaxIncarnations * MaxEvents)
  /\ acks \in [Clients -> OffsetOrNone]
  /\ pump \in [inc : 0..MaxIncarnations, queue : Seq(Weights), sending : OffsetOrNone]
  /\ client \in [Clients ->
       [pc : {"closed", "build", "built", "join", "open"}, since : OffsetOrNone,
        snap : Seq(Weights), queue : Seq(Weights), prefix : Seq(Nat), inbox : Seq(Nat),
        next : Nat, at : Nat, from : Nat, lagged : BOOLEAN, seen : OffsetOrNone]]
  /\ leaving \subseteq Clients

\* A subscriber misses nothing unless it is told or falls LiveCap behind: all
\* that was stamped from its next wanted offset on is among its frames, or is
\* the event the pump is about to send.  Reconnects at every offset, eviction,
\* pruning by other clients' acks, late guard tasks and the window between
\* stamping and sending (streams.rs:324-416, 858-940).
NothingSkipped ==
  \A c \in Clients :
    client[c].pc = "open" /\ ~client[c].lagged =>
      \A o \in client[c].next..(counter - 1) :
        o = pump.sending \/ o \in ToSet(Frames(c))

\* The buffer, the pump and the channels implement StreamContract: what a
\* subscriber reads, over reconnections, replays, evictions and the acks of
\* others, is the subject's events in order, each once but for the one under
\* way as it registers, without a gap it is not told of.
Contract == INSTANCE StreamContract WITH
  Subscribers <- Clients, Room <- LiveCap, Nothing <- None,
  stamped <- counter, floor <- Floor(ring, counter),
  on <- {c \in Clients : client[c].pc = "open"},
  behind <- {c \in Clients : client[c].lagged},
  want <- [c \in Clients |-> client[c].next], last <- [c \in Clients |-> client[c].seen]

StreamsKeepContract == Contract!Spec

\* Who subscribes to a running session is fed by it: "session.events.<sid> ->
\* forwards AgentEvent from subscribe_events" (streams.rs:5-7).
SubscriberIsFed ==
  \A c \in Clients :
    client[c].pc = "open" /\ source.up /\ client[c].at = source.inc => pump.inc = source.inc
=============================================================================
