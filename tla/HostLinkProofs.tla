--------------------------- MODULE HostLinkProofs ---------------------------
(***************************************************************************)
(* Proofs about HostLink, for any number of connections and chunks, any    *)
(* ring capacity and any chunk sizes.                                      *)
(***************************************************************************)
EXTENDS HostLink, FiniteSetTheorems, WellFoundedInduction, SequenceTheorems, TLAPS

-----------------------------------------------------------------------------
(* Least and greatest elements.                                             *)

(* A set of naturals that is not empty has a least element.                 *)
LEMMA MinExists ==
  ASSUME NEW S \in SUBSET Nat, S # {}
  PROVE  \E x \in S : \A y \in S : x <= y
<1>1. IsWellFoundedOn(OpToRel(<, Nat), Nat)
  BY NatLessThanWellFounded
<1>2. PICK x \in S : \A y \in S : ~(<<y, x>> \in OpToRel(<, Nat))
  BY <1>1, WFMin
<1>3. ASSUME NEW y \in S PROVE x <= y
  <2>1. ~(y < x)
    BY <1>2 DEF OpToRel
  <2> QED
    BY <2>1
<1> QED
  BY <1>3

(* A set of positive numbers up to n that is not empty has a greatest one.  *)
LEMMA MaxExists ==
  ASSUME NEW n \in Nat, NEW S \in SUBSET (1..n), S # {}
  PROVE  \E x \in S : \A y \in S : x >= y
<1> DEFINE U == {k \in Nat : \A y \in S : y <= k}
<1>1. U \in SUBSET Nat /\ n \in U
  OBVIOUS
<1>2. PICK m \in U : \A k \in U : m <= k
  BY <1>1, MinExists
<1>3. PICK z \in S : TRUE
  OBVIOUS
<1>4. ASSUME m \notin S PROVE m - 1 \in U
  <2>1. m \in Nat /\ z <= m /\ z >= 1
    BY <1>2, <1>3
  <2> QED
    BY <1>4, <2>1, <1>2
<1>5. m \in S
  BY <1>4, <1>2
<1> QED
  BY <1>5, <1>2

(* The chunk a task writes next is the earliest of its batch.               *)
LEMMA MinIs ==
  ASSUME NEW n \in Nat, NEW S \in SUBSET (1..n), S # {}
  PROVE  Min(S) \in S /\ \A y \in S : Min(S) <= y
<1>1. S \in SUBSET Nat
  OBVIOUS
<1> QED
  BY <1>1, MinExists DEF Min

(* RingBuffer::last_seq is below next_seq.                                  *)
LEMMA LastSeqBound ==
  ASSUME NEW n \in Nat, NEW S \in SUBSET (1..n)
  PROVE  LastSeq(S) \in 0..n
<1>1. CASE S = {}
  BY <1>1 DEF LastSeq
<1>2. CASE S # {}
  <2>1. \E x \in S : \A y \in S : x >= y
    BY <1>2, MaxExists
  <2>2. Max(S) \in S
    BY <2>1 DEF Max
  <2>3. LastSeq(S) = Max(S)
    BY <1>2 DEF LastSeq
  <2>4. Max(S) \in 1..n
    BY <2>2
  <2> QED
    BY <2>3, <2>4
<1> QED
  BY <1>1, <1>2

-----------------------------------------------------------------------------
(* Type correctness.                                                        *)

(* The initial state of host, wire and Core is well typed.                   *)
LEMMA InitTypes == Init => TypeOK
<1> SUFFICES ASSUME Init PROVE TypeOK
  OBVIOUS
<1>1. WireTypeOK
  <2>1. <<>> \in Seq(HostFrames) /\ <<>> \in Seq(CoreFrames)
    OBVIOUS
  <2> QED
    BY <2>1 DEF Init, WireInit, WireTypeOK
<1>2. PumpTypeOK
  <2>1. attempt \in 0..MaxConns
    BY MaxConnsAssumption DEF Init, PumpInit
  <2> QED
    BY <2>1 DEF Init, PumpInit, PumpTypeOK, CoreStates
<1>3. HostTypeOK
  <2>1. conn \in [Conns -> ConnTasks]
    BY DEF Init, HostInit, NoConn, ConnTasks, Pcs
  <2>2. chan \in Seq(ChunkSizes) /\ size \in [1..MaxChunks -> Nat]
    BY DEF Init, HostInit
  <2>3. /\ next_seq \in 1..(MaxChunks + 1) /\ at_exit \in 0..(next_seq - 1)
        /\ next_seq + Len(chan) <= MaxChunks + 1
    BY MaxChunksAssumption DEF Init, HostInit
  <2>4. ring \subseteq 1..(next_seq - 1) /\ evicted \subseteq 1..(next_seq - 1)
    BY DEF Init, HostInit
  <2> QED
    BY <2>1, <2>2, <2>3, <2>4 DEF Init, HostInit, HostTypeOK
<1> QED
  BY <1>1, <1>2, <1>3 DEF TypeOK

(* push keeps the ring and the evicted chunks among those numbered so far.  *)
LEMMA PushTypes ==
  ASSUME TypeOK, NEW len \in Nat, next_seq <= MaxChunks, Push(len)
  PROVE  /\ next_seq' \in 1..(MaxChunks + 1)
         /\ ring' \subseteq 1..(next_seq' - 1)
         /\ evicted' \subseteq 1..(next_seq' - 1)
         /\ size' \in [1..MaxChunks -> Nat]
         /\ next_seq' = next_seq + 1
         /\ ring' \union evicted' = ring \union evicted \union {next_seq}
         /\ evicted \subseteq evicted'
<1> DEFINE r == ring \union {next_seq}
           gone == EvictedBy(r, [size EXCEPT ![next_seq] = len], total_bytes + len)
<1>1. gone \subseteq r
  BY DEF EvictedBy
<1>2. /\ next_seq' = next_seq + 1
      /\ ring' = r \ gone
      /\ evicted' = evicted \union gone
      /\ size' = [size EXCEPT ![next_seq] = len]
  BY DEF Push
<1>3. next_seq \in 1..MaxChunks
  BY MaxChunksAssumption DEF TypeOK, HostTypeOK
<1>4. r \subseteq 1..next_seq /\ evicted \subseteq 1..next_seq
  BY <1>3 DEF TypeOK, HostTypeOK
<1>5. size' \in [1..MaxChunks -> Nat]
  BY <1>2, <1>3 DEF TypeOK, HostTypeOK
<1> HIDE DEF gone, r
<1>6. next_seq' \in 1..(MaxChunks + 1) /\ next_seq' - 1 = next_seq
  BY <1>2, <1>3, MaxChunksAssumption
<1>7. ring' \union evicted' = r \union evicted
  BY <1>1, <1>2
<1>8. ring' \subseteq 1..next_seq /\ evicted' \subseteq 1..next_seq
  BY <1>1, <1>2, <1>4
<1> QED
  BY <1>2, <1>5, <1>6, <1>7, <1>8 DEF r

(* Waking parked tasks moves no task out of its type.                       *)
LEMMA WokenTypes ==
  ASSUME conn \in [Conns -> ConnTasks], NotifyWaiters, waiter \in {"check", "gap", "parked"}
  PROVE  conn' \in [Conns -> ConnTasks] /\ waiter' \in {"check", "gap", "parked"}
  BY DEF NotifyWaiters, Woken, ConnTasks, Pcs

(* A step of the supervisor, of the record task or of main.                 *)
LEMMA ProcessTypes ==
  ASSUME TypeOK, SupervisorStep \/ OutputStep \/ MainStep
  PROVE  HostTypeOK' /\ WireTypeOK'
<1>1. WireTypeOK'
  BY DEF SupervisorStep, OutputStep, MainStep, TypeOK, WireTypeOK, wireVars
<1> SUFFICES HostTypeOK'
  BY <1>1
<1>2. CASE SpawnChild
  BY <1>2 DEF SpawnChild, TypeOK, HostTypeOK, ringVars, exitVars, diskVars
<1>3. ASSUME NEW mode \in FailingModes, SpawnFails(mode) PROVE HostTypeOK'
  <2>1. PICK len \in ChunkSizes : Push(len)
    BY <1>3 DEF SpawnFails
  <2>2. len \in Nat /\ next_seq <= MaxChunks
    BY <1>3, ChunkSizesAssumption DEF SpawnFails
  <2>3. /\ sup' \in {"pty", "pipe"}
        /\ chan' = <<>> /\ Len(chan') = 0
    BY <1>3, FailingModesAssumption DEF SpawnFails, TypeOK, HostTypeOK
  <2> QED
    BY <1>3, <2>1, <2>2, <2>3, PushTypes DEF SpawnFails, TypeOK, HostTypeOK, ringVars, exitVars, diskVars
<1>4. CASE ReportSpawnFailure \/ FlagSpawnFailure
  <2>1. next_seq' = next_seq /\ next_seq - 1 \in 0..(next_seq - 1)
    BY <1>4 DEF ReportSpawnFailure, FlagSpawnFailure, ringVars, TypeOK, HostTypeOK
  <2>2. at_exit' \in 0..(next_seq' - 1)
    BY <1>4, <2>1 DEF ReportSpawnFailure, FlagSpawnFailure, exitVars, TypeOK, HostTypeOK
  <2>3. child_exited' \in BOOLEAN
    BY <1>4 DEF ReportSpawnFailure, FlagSpawnFailure, exitVars, TypeOK, HostTypeOK
  <2>4. conn' \in [Conns -> ConnTasks] /\ waiter' \in {"check", "gap", "parked"}
    BY <1>4, WokenTypes DEF ReportSpawnFailure, FlagSpawnFailure, TypeOK, HostTypeOK
  <2>5. sup' \in {"failed", "returned"}
    BY <1>4 DEF ReportSpawnFailure, FlagSpawnFailure
  <2> QED
    BY <1>4, <2>1, <2>2, <2>3, <2>4, <2>5
    DEF ReportSpawnFailure, FlagSpawnFailure, TypeOK, HostTypeOK, ringVars, exitVars, diskVars
<1>5. CASE ReaderForward
  <2>1. PICK len \in ChunkSizes : chan' = Append(chan, len)
    BY <1>5 DEF ReaderForward
  <2>2. chan' \in Seq(ChunkSizes) /\ Len(chan') = Len(chan) + 1 /\ Len(chan) \in Nat
    BY <2>1, AppendProperties, LenProperties DEF TypeOK, HostTypeOK
  <2>3. next_seq' = next_seq /\ next_seq' + Len(chan') <= MaxChunks + 1
    BY <1>5, <2>2, MaxChunksAssumption DEF ReaderForward, ringVars, TypeOK, HostTypeOK
  <2> QED
    BY <1>5, <2>2, <2>3 DEF ReaderForward, TypeOK, HostTypeOK, ringVars, exitVars, diskVars
<1>6. CASE SetChildExited
  BY <1>6, WokenTypes DEF SetChildExited, TypeOK, HostTypeOK, ringVars, exitVars, diskVars
<1>7. CASE RecordPush
  <2>1. /\ Head(chan) \in Nat
        /\ Tail(chan) \in Seq(ChunkSizes) /\ Len(Tail(chan)) = Len(chan) - 1
        /\ Len(chan) \in Nat \ {0}
    <3>1. chan \in Seq(ChunkSizes) /\ chan # <<>>
      BY <1>7 DEF RecordPush, TypeOK, HostTypeOK
    <3> QED
      BY <3>1, HeadTailProperties, LenProperties, EmptySeq, ChunkSizesAssumption
  <2>2. next_seq <= MaxChunks /\ next_seq + 1 + Len(Tail(chan)) <= MaxChunks + 1
    BY <2>1, MaxChunksAssumption DEF TypeOK, HostTypeOK
  <2>3. sup' # "setup"
    BY <1>7 DEF RecordPush, TypeOK, HostTypeOK
  <2> QED
    BY <1>7, <2>1, <2>2, <2>3, PushTypes DEF RecordPush, TypeOK, HostTypeOK, ringVars, exitVars, diskVars
<1>8. CASE RecordNotify
  BY <1>8, WokenTypes DEF RecordNotify, TypeOK, HostTypeOK, ringVars, exitVars, diskVars
<1>9. CASE CheckChildExit
  BY <1>9 DEF CheckChildExit, TypeOK, HostTypeOK, ringVars, exitVars, diskVars
<1>10. CASE ParkWaiter
  BY <1>10 DEF ParkWaiter, TypeOK, HostTypeOK, ringVars, exitVars, diskVars
<1>11. CASE GraceEndsDelivered
  BY <1>11 DEF GraceEndsDelivered, TypeOK, HostTypeOK, ringVars, exitVars, diskVars
<1>12. CASE GraceTimeout
  BY <1>12 DEF GraceTimeout, TypeOK, HostTypeOK, ringVars, exitVars, diskVars
<1>13. CASE WriteFinalInfo
  BY <1>13 DEF WriteFinalInfo, TypeOK, HostTypeOK, ringVars, exitVars, diskVars
<1>14. ASSUME NEW c \in Conns, AcceptConnection(c) PROVE HostTypeOK'
  BY ZenonT(40), <1>14 DEF AcceptConnection, ConnTasks, Pcs, TypeOK, HostTypeOK, ringVars, exitVars, diskVars
<1>15. CASE HostExit \/ HostKilled
  <2>1. PICK how \in {"gone", "killed"} : ProcessEnds(how)
    BY <1>15 DEF HostExit, HostKilled
  <2>2. conn' \in [Conns -> ConnTasks]
    BY <2>1 DEF ProcessEnds, Closed, NoConn, ConnTasks, Pcs
  <2>3. chan' \in Seq(ChunkSizes) /\ Len(chan') = 0
    BY <2>1 DEF ProcessEnds
  <2>4. socket' \in BOOLEAN
    BY <1>15 DEF HostExit, HostKilled, TypeOK, HostTypeOK
  <2>5. next_seq' = next_seq /\ next_seq' + Len(chan') <= MaxChunks + 1
    BY <2>1, <2>3, MaxChunksAssumption DEF ProcessEnds, ringVars, TypeOK, HostTypeOK
  <2>6. connection_active' \in BOOLEAN
    BY <2>1 DEF ProcessEnds
  <2> QED
    BY <2>1, <2>2, <2>3, <2>4, <2>5, <2>6
    DEF ProcessEnds, TypeOK, HostTypeOK, ringVars, exitVars
<1> QED
  BY <1>2, <1>3, <1>4, <1>5, <1>6, <1>7, <1>8, <1>9, <1>10, <1>11, <1>12, <1>13,
     <1>14, <1>15 DEF SupervisorStep, OutputStep, MainStep

(* Frames written and taken off keep the channels well typed.               *)
LEMMA SendTypes ==
  ASSUME TypeOK, NEW c \in Conns, NEW f \in HostFrames, Send(c, f)
  PROVE  /\ toCore' \in [Conns -> Seq(HostFrames)]
         /\ toCore'[c] = Append(toCore[c], f)
         /\ \A d \in Conns \ {c} : toCore'[d] = toCore[d]
<1>1. toCore[c] \in Seq(HostFrames)
  BY DEF TypeOK, WireTypeOK
<1>2. Append(toCore[c], f) \in Seq(HostFrames)
  BY <1>1, AppendProperties
<1> QED
  BY <1>2 DEF Send, TypeOK, WireTypeOK

(* The frame the host takes off is one a Core sends, the rest stays.        *)
LEMMA GetFrameTypes ==
  ASSUME TypeOK, NEW c \in Conns, toHost[c] # <<>>, GetFrame(c)
  PROVE  /\ Head(toHost[c]) \in CoreFrames
         /\ toHost' \in [Conns -> Seq(CoreFrames)]
         /\ toHost'[c] = Tail(toHost[c])
         /\ \A d \in Conns \ {c} : toHost'[d] = toHost[d]
<1>1. toHost[c] \in Seq(CoreFrames)
  BY DEF TypeOK, WireTypeOK
<1>2. Tail(toHost[c]) \in Seq(CoreFrames) /\ Head(toHost[c]) \in CoreFrames
  BY <1>1, HeadTailProperties
<1> QED
  BY <1>2 DEF GetFrame, TypeOK, WireTypeOK

(* Any task record may take the place of a connection's.                    *)
LEMMA TaskTypes ==
  ASSUME TypeOK, NEW c \in Conns, NEW task \in ConnTasks,
         conn' = [conn EXCEPT ![c] = task]
  PROVE  conn' \in [Conns -> ConnTasks]
  BY DEF TypeOK, HostTypeOK

(* The two records of a connection with no task are well typed.              *)
LEMMA ClosedType == NoConn \in ConnTasks /\ Closed \in ConnTasks
  BY DEF NoConn, Closed, ConnTasks, Pcs

(* The frames the host writes.                                              *)
LEMMA FrameTypes ==
  ASSUME NEW n \in Nat
  PROVE  /\ Frame("Ready", n) \in HostFrames /\ Frame("StdoutBytes", n) \in HostFrames
         /\ Frame("AgentExited", n) \in HostFrames
         /\ Frame("CookieMismatch", n) \in HostFrames
         /\ Frame("AlreadyConnected", n) \in HostFrames
         /\ Frame("Hello", n) \in CoreFrames /\ Frame("BadHello", n) \in CoreFrames
         /\ Frame("Ack", n) \in CoreFrames
  BY DEF Frame, HostFrames, CoreFrames

(* A step of a connection's handshake, writer or reader.                    *)
LEMMA ConnectionTypes ==
  ASSUME TypeOK, NEW c \in Conns, ConnectionStep(c)
  PROVE  HostTypeOK' /\ WireTypeOK'
<1>t. conn[c] \in ConnTasks /\ ring \in SUBSET (1..(next_seq - 1)) /\ next_seq - 1 \in Nat
      /\ ring \subseteq 1..MaxChunks
  BY MaxChunksAssumption DEF TypeOK, HostTypeOK
<1>b. conn[c].pend # {} => Min(conn[c].pend) \in conn[c].pend /\ Min(conn[c].pend) \in Nat
  <2>1. conn[c].pend \in SUBSET (1..MaxChunks)
    BY <1>t DEF ConnTasks
  <2>2. ASSUME conn[c].pend # {} PROVE Min(conn[c].pend) \in conn[c].pend
    BY <2>1, <2>2, MinIs, MaxChunksAssumption
  <2> QED
    BY <2>1, <2>2
<1>1. CASE RefuseHello(c)
  <2>1. toHost' \in [Conns -> Seq(CoreFrames)]
    BY <1>1, GetFrameTypes DEF RefuseHello
  <2>2. toCore' \in [Conns -> Seq(HostFrames)]
    <3>1. CASE c \in coreOpen
      BY <1>1, <3>1, SendTypes, FrameTypes DEF RefuseHello
    <3>2. CASE c \notin coreOpen
      BY <1>1, <3>2 DEF RefuseHello, TypeOK, WireTypeOK
    <3> QED
      BY <3>1, <3>2
  <2>3. conn' \in [Conns -> ConnTasks]
    BY <1>1, TaskTypes, ClosedType DEF RefuseHello
  <2>4. HostTypeOK'
    BY <1>1, <2>3 DEF RefuseHello, taskFrame, TypeOK, HostTypeOK, ringVars, exitVars, diskVars
  <2> QED
    BY <1>1, <2>1, <2>2, <2>4 DEF RefuseHello, TypeOK, WireTypeOK
<1>2. CASE ClaimSlot(c)
  <2>1. toHost' \in [Conns -> Seq(CoreFrames)] /\ Head(toHost[c]).seq \in Nat
    BY <1>2, GetFrameTypes DEF ClaimSlot, CoreFrames
  <2>2. LastSeq(ring) \in Nat
    BY <1>t, LastSeqBound
  <2>3. toCore' \in [Conns -> Seq(HostFrames)]
    <3>1. CASE c \in coreOpen
      BY <1>2, <3>1, <2>2, SendTypes, FrameTypes DEF ClaimSlot
    <3>2. CASE c \notin coreOpen
      BY <1>2, <3>2 DEF ClaimSlot, TypeOK, WireTypeOK
    <3> QED
      BY <3>1, <3>2
  <2>4. conn' \in [Conns -> ConnTasks] /\ connection_active' \in BOOLEAN
    <3>1. CASE c \in coreOpen
      <4>1. [conn[c] EXCEPT !.pc = "claimed", !.hello = Head(toHost[c]).seq,
                            !.mark = LastSeq(ring)] \in ConnTasks
        BY <1>t, <2>1, <2>2 DEF ConnTasks, Pcs
      <4> QED
        BY <1>2, <3>1, <4>1, TaskTypes DEF ClaimSlot
    <3>2. CASE c \notin coreOpen
      BY <1>2, <3>2, TaskTypes, ClosedType DEF ClaimSlot, TypeOK, HostTypeOK
    <3> QED
      BY <3>1, <3>2
  <2>5. HostTypeOK'
    BY <1>2, <2>4 DEF ClaimSlot, taskFrame, TypeOK, HostTypeOK, ringVars, exitVars, diskVars
  <2> QED
    BY <1>2, <2>1, <2>3, <2>5 DEF ClaimSlot, TypeOK, WireTypeOK
<1>3. CASE SnapshotReplay(c)
  <2>1. [conn[c] EXCEPT !.pc = "replay", !.pend = ReplayPast(ring, conn[c].hello),
                        !.hello = 0] \in ConnTasks
    BY <1>t DEF ConnTasks, Pcs, ReplayPast
  <2>2. conn' \in [Conns -> ConnTasks]
    BY <1>3, <2>1, TaskTypes DEF SnapshotReplay
  <2> QED
    BY <1>3, <2>2 DEF SnapshotReplay, WireTypeOK, wireVars, taskFrame, TypeOK, HostTypeOK, ringVars, exitVars, diskVars
<1>4. CASE ReplayChunk(c)
  <2>1. CASE c \in coreOpen
    <3>1. toCore' \in [Conns -> Seq(HostFrames)]
      BY <1>4, <2>1, <1>b, SendTypes, FrameTypes DEF ReplayChunk
    <3>2. conn' \in [Conns -> ConnTasks]
      <4>1. [conn[c] EXCEPT !.pend = conn[c].pend \ {Min(conn[c].pend)}] \in ConnTasks
        BY <1>t DEF ConnTasks
      <4>2. conn' = [conn EXCEPT ![c] =
                       [conn[c] EXCEPT !.pend = conn[c].pend \ {Min(conn[c].pend)}]]
        BY <1>4, <2>1 DEF ReplayChunk
      <4> QED
        BY <4>1, <4>2, TaskTypes
    <3>3. HostTypeOK'
      BY <1>4, <2>1, <3>2 DEF ReplayChunk, taskFrame, TypeOK, HostTypeOK, ringVars, exitVars, diskVars
    <3> QED
      BY <1>4, <3>1, <3>3 DEF ReplayChunk, TypeOK, WireTypeOK
  <2>2. CASE c \notin coreOpen
    <3>1. conn' \in [Conns -> ConnTasks]
      BY <1>4, <2>2, TaskTypes, ClosedType DEF ReplayChunk
    <3> QED
      BY ZenonT(40), <1>4, <2>2, <3>1 DEF ReplayChunk, WireTypeOK, taskFrame, TypeOK, HostTypeOK, ringVars, exitVars, diskVars
  <2> QED
    BY <2>1, <2>2
<1>5. CASE StartTasks(c)
  <2>1. [conn[c] EXCEPT !.pc = "snapshot", !.rd = "reading"] \in ConnTasks
    BY <1>t DEF ConnTasks, Pcs
  <2>2. conn' \in [Conns -> ConnTasks]
    BY <1>5, <2>1, TaskTypes DEF StartTasks
  <2> QED
    BY <1>5, <2>2 DEF StartTasks, WireTypeOK, wireVars, taskFrame, TypeOK, HostTypeOK, ringVars, exitVars, diskVars
<1>6. CASE WriterSnapshot(c)
  <2>1. [conn[c] EXCEPT !.pc = "write", !.pend = ReplayPast(ring, conn[c].mark),
                        !.exited = child_exited] \in ConnTasks
    BY <1>t DEF ConnTasks, Pcs, ReplayPast, TypeOK, HostTypeOK
  <2>2. conn' \in [Conns -> ConnTasks]
    BY <1>6, <2>1, TaskTypes DEF WriterSnapshot
  <2> QED
    BY <1>6, <2>2 DEF WriterSnapshot, WireTypeOK, wireVars, taskFrame, TypeOK, HostTypeOK, ringVars, exitVars, diskVars
<1>d. WriterDone(conn[c]) \in ConnTasks
  BY <1>t DEF WriterDone, NoConn, ConnTasks, Pcs
<1>7. CASE WriterSend(c)
  <2>1. CASE c \in coreOpen
    <3>1. toCore' \in [Conns -> Seq(HostFrames)]
      BY <1>7, <2>1, <1>b, SendTypes, FrameTypes DEF WriterSend
    <3>2. [conn[c] EXCEPT !.pend = conn[c].pend \ {Min(conn[c].pend)},
                          !.mark = Min(conn[c].pend)] \in ConnTasks
      BY <1>t, <1>b, <1>7 DEF WriterSend, ConnTasks
    <3>3. conn' \in [Conns -> ConnTasks]
      <4>1. conn' = [conn EXCEPT ![c] =
                       [conn[c] EXCEPT !.pend = conn[c].pend \ {Min(conn[c].pend)},
                                       !.mark = Min(conn[c].pend)]]
        BY <1>7, <2>1, <1>t DEF WriterSend, TypeOK, HostTypeOK, ConnTasks
      <4> QED
        BY <3>2, <4>1, TaskTypes
    <3>4. HostTypeOK'
      BY <1>7, <2>1, <3>3 DEF WriterSend, taskFrame, TypeOK, HostTypeOK, ringVars, exitVars, diskVars
    <3> QED
      BY <1>7, <3>1, <3>4 DEF WriterSend, TypeOK, WireTypeOK
  <2>2. CASE c \notin coreOpen
    <3>1. conn' \in [Conns -> ConnTasks]
      BY <1>7, <2>2, <1>d, TaskTypes DEF WriterSend
    <3> QED
      BY <1>7, <2>2, <3>1 DEF WriterSend, WireTypeOK, taskFrame, TypeOK, HostTypeOK, ringVars, exitVars, diskVars
  <2> QED
    BY <2>1, <2>2
<1>8. CASE WriterExit(c)
  <2>1. conn' \in [Conns -> ConnTasks]
    BY <1>8, <1>d, TaskTypes DEF WriterExit
  <2>2. toCore' \in [Conns -> Seq(HostFrames)] /\ delivered_exit' \in BOOLEAN
    <3>1. CASE c \in coreOpen
      BY <1>8, <3>1, SendTypes, FrameTypes DEF WriterExit
    <3>2. CASE c \notin coreOpen
      BY <1>8, <3>2 DEF WriterExit, TypeOK, WireTypeOK, HostTypeOK
    <3> QED
      BY <3>1, <3>2
  <2>3. HostTypeOK'
    BY <1>8, <2>1, <2>2 DEF WriterExit, taskFrame, TypeOK, HostTypeOK, ringVars, exitVars, diskVars
  <2> QED
    BY <1>8, <2>2, <2>3 DEF WriterExit, TypeOK, WireTypeOK
<1>9. CASE WriterPark(c)
  <2>1. [conn[c] EXCEPT !.pc = "parked"] \in ConnTasks
    BY <1>t DEF ConnTasks, Pcs
  <2>2. conn' = [conn EXCEPT ![c] = [conn[c] EXCEPT !.pc = "parked"]]
    BY <1>9 DEF WriterPark
  <2>3. conn' \in [Conns -> ConnTasks]
    BY <2>1, <2>2, TaskTypes
  <2> QED
    BY <1>9, <2>3 DEF WriterPark, WireTypeOK, wireVars, taskFrame, TypeOK, HostTypeOK,
       ringVars, exitVars, diskVars
<1>10. CASE ConnReaderAck(c)
  <2>1. toHost' \in [Conns -> Seq(CoreFrames)]
    BY <1>10, GetFrameTypes DEF ConnReaderAck
  <2>2. ring' \subseteq ring /\ UNCHANGED <<size, next_seq, evicted>>
    BY <1>10 DEF ConnReaderAck, PruneThrough
  <2>3. HostTypeOK'
    BY <1>10, <2>2 DEF ConnReaderAck, TypeOK, HostTypeOK, exitVars, diskVars
  <2> QED
    BY <1>10, <2>1, <2>3 DEF ConnReaderAck, TypeOK, WireTypeOK
<1>11. CASE ConnReaderEof(c)
  <2>1. [conn[c] EXCEPT !.rd = "done"] \in ConnTasks
    BY <1>t DEF ConnTasks, Pcs
  <2>2. conn' = [conn EXCEPT ![c] = [conn[c] EXCEPT !.rd = "done"]]
    BY <1>11 DEF ConnReaderEof
  <2>3. conn' \in [Conns -> ConnTasks]
    BY <2>1, <2>2, TaskTypes
  <2> QED
    BY <1>11, <2>3 DEF ConnReaderEof, WireTypeOK, wireVars, taskFrame, TypeOK, HostTypeOK,
       ringVars, exitVars, diskVars
<1>12. CASE ReleaseSlot(c)
  <2>1. conn' \in [Conns -> ConnTasks]
    BY <1>12, TaskTypes, ClosedType DEF ReleaseSlot
  <2> QED
    BY ZenonT(40), <1>12, <2>1 DEF ReleaseSlot, WireTypeOK, wireVars, taskFrame, TypeOK, HostTypeOK, ringVars, exitVars, diskVars
<1> QED
  BY <1>1, <1>2, <1>3, <1>4, <1>5, <1>6, <1>7, <1>8, <1>9, <1>10, <1>11, <1>12
  DEF ConnectionStep, WriterStep

(* A frame the Core takes off its connection.                               *)
LEMMA TakeFrameTypes ==
  ASSUME TypeOK, attempt \in Conns, toCore[attempt] # <<>>, TakeFrame
  PROVE  /\ Head(toCore[attempt]) \in HostFrames
         /\ Head(toCore[attempt]).seq \in Nat
         /\ toCore' \in [Conns -> Seq(HostFrames)]
         /\ toCore'[attempt] = Tail(toCore[attempt])
         /\ \A d \in Conns \ {attempt} : toCore'[d] = toCore[d]
<1>1. toCore[attempt] \in Seq(HostFrames)
  BY DEF TypeOK, WireTypeOK
<1>2. Tail(toCore[attempt]) \in Seq(HostFrames) /\ Head(toCore[attempt]) \in HostFrames
  BY <1>1, HeadTailProperties
<1>3. Head(toCore[attempt]).seq \in Nat
  BY <1>2 DEF HostFrames
<1> QED
  BY <1>2, <1>3 DEF TakeFrame, TypeOK, WireTypeOK

(* A step of the Core that holds, opens or loses a connection.              *)
LEMMA CoreTypes ==
  ASSUME TypeOK, CoreAction
  PROVE  PumpTypeOK' /\ WireTypeOK'
<1>t. core # "down" => attempt \in Conns
  BY MaxConnsAssumption DEF TypeOK, PumpTypeOK, Conns
<1>1. CASE Connect
  <2>1. attempt + 1 \in Conns
    BY <1>1, MaxConnsAssumption DEF Connect, TypeOK, PumpTypeOK, Conns
  <2>2. PICK hello \in {"Hello", "BadHello"} :
          toHost' = [toHost EXCEPT ![attempt + 1] =
                       Append(toHost[attempt + 1], Frame(hello, last_acked_seq))]
    BY <1>1 DEF Connect
  <2>3. Frame(hello, last_acked_seq) \in CoreFrames /\ toHost[attempt + 1] \in Seq(CoreFrames)
    BY <2>1, <2>2, FrameTypes DEF TypeOK, PumpTypeOK, WireTypeOK
  <2>4. Append(toHost[attempt + 1], Frame(hello, last_acked_seq)) \in Seq(CoreFrames)
    BY <2>3, AppendProperties
  <2>5. toHost' \in [Conns -> Seq(CoreFrames)]
    BY <2>2, <2>4 DEF TypeOK, WireTypeOK
  <2>6. WireTypeOK'
    BY <1>1, <2>1, <2>5 DEF Connect, TypeOK, WireTypeOK
  <2>7. attempt' \in 0..MaxConns /\ attempt' > 0
    BY <1>1, <2>1, MaxConnsAssumption DEF Connect, TypeOK, PumpTypeOK, Conns
  <2> QED
    BY <1>1, <2>6, <2>7 DEF Connect, Seed, TypeOK, PumpTypeOK, CoreStates
<1>2. CASE RecvReady \/ RecvRefusal \/ RecvStdout \/ RecvExited
  <2>1. attempt \in Conns /\ toCore[attempt] # <<>> /\ TakeFrame
    BY <1>2, <1>t DEF RecvReady, RecvRefusal, RecvStdout, RecvExited, Incoming
  <2>2. WireTypeOK'
    BY <1>2, <2>1, TakeFrameTypes
    DEF RecvReady, RecvRefusal, RecvStdout, RecvExited, TypeOK, WireTypeOK
  <2>3. CASE RecvStdout
    BY <2>1, <2>2, <2>3, TakeFrameTypes
    DEF RecvStdout, TypeOK, PumpTypeOK, CoreStates
  <2>4. CASE RecvReady \/ RecvRefusal \/ RecvExited
    BY <2>1, <2>2, <2>4
    DEF RecvReady, RecvRefusal, RecvExited, TypeOK, PumpTypeOK, CoreStates, memVars
  <2> QED
    BY <1>2, <2>3, <2>4
<1>3. CASE AckTick
  <2>1. attempt \in Conns /\ toHost[attempt] \in Seq(CoreFrames)
        /\ Frame("Ack", ack_watermark) \in CoreFrames
    BY <1>3, <1>t, FrameTypes DEF AckTick, TypeOK, PumpTypeOK, WireTypeOK
  <2>2. Append(toHost[attempt], Frame("Ack", ack_watermark)) \in Seq(CoreFrames)
    BY <2>1, AppendProperties
  <2>3. WireTypeOK'
    BY <1>3, <2>2 DEF AckTick, SendToHost, TypeOK, WireTypeOK
  <2> QED
    BY <1>3, <2>3 DEF AckTick, TypeOK, PumpTypeOK, CoreStates
<1>4. CASE PersistTick \/ FlushAck
  BY <1>4 DEF PersistTick, FlushAck, TypeOK, PumpTypeOK, WireTypeOK, CoreStates,
     memVars, wireVars
<1>5. CASE RecvEof
  BY <1>5 DEF RecvEof, TypeOK, PumpTypeOK, WireTypeOK, CoreStates, memVars
<1>6. CASE CoreCrash
  <2>1. <<>> \in Seq(HostFrames) /\ attempt \in Conns
    BY <1>6, <1>t DEF CoreCrash
  <2> QED
    BY <1>6, <2>1 DEF CoreCrash, TypeOK, PumpTypeOK, WireTypeOK, CoreStates
<1> QED
  BY <1>1, <1>2, <1>3, <1>4, <1>5, <1>6 DEF CoreAction

(* Every step of host or Core keeps every variable in its type.             *)
LEMMA TypesPreserved == TypeOK /\ [Next]_vars => TypeOK'
<1> SUFFICES ASSUME TypeOK, [Next]_vars PROVE TypeOK'
  OBVIOUS
<1>1. CASE HostAction
  <2>1. HostTypeOK' /\ WireTypeOK'
    BY <1>1, ProcessTypes, ConnectionTypes DEF HostAction, HostNext
  <2>2. PumpTypeOK'
    BY <1>1 DEF HostAction, TypeOK, PumpTypeOK, pumpVars, memVars
  <2> QED
    BY <2>1, <2>2 DEF TypeOK
<1>2. CASE CoreAction
  <2>1. PumpTypeOK' /\ WireTypeOK'
    BY <1>2, CoreTypes
  <2>2. HostTypeOK'
    BY <1>2 DEF CoreAction, TypeOK, HostTypeOK, hostVars, ringVars, exitVars, diskVars
  <2> QED
    BY <2>1, <2>2 DEF TypeOK
<1>3. CASE UNCHANGED vars
  BY <1>3 DEF vars, hostVars, pumpVars, wireVars, memVars, ringVars, exitVars, diskVars,
     TypeOK, HostTypeOK, PumpTypeOK, WireTypeOK
<1> QED
  BY <1>1, <1>2, <1>3 DEF Next

(* Every variable of host, wire and Core keeps its type, whatever the        *)
(* numbers of connections and chunks.                                        *)
THEOREM TypeCorrect == Spec => []TypeOK
  BY InitTypes, TypesPreserved, PTL DEF Spec

-----------------------------------------------------------------------------
(* Delivery.                                                                *)

(* What a channel carries, after a frame is added and after one is taken.   *)
LEMMA CarriedAppend ==
  ASSUME NEW q \in Seq(HostFrames), NEW f \in HostFrames, NEW s
  PROVE  /\ Len(q) \in Nat /\ Len(Append(q, f)) = Len(q) + 1
         /\ \A n \in 0..Len(q) : Carried(q, n, s) => Carried(Append(q, f), n, s)
         /\ Carried(q, Len(q), s) => Carried(Append(q, f), Len(q) + 1, s)
         /\ f.t = "StdoutBytes" /\ f.seq = s => Carried(Append(q, f), Len(q) + 1, s)
<1>1. /\ Len(q) \in Nat /\ Len(Append(q, f)) = Len(q) + 1
      /\ \A i \in 1..Len(q) : Append(q, f)[i] = q[i]
      /\ Append(q, f)[Len(q) + 1] = f
  BY AppendProperties, LenProperties
<1>2. \A n \in 0..Len(q) : Carried(q, n, s) => Carried(Append(q, f), n, s)
  BY <1>1 DEF Carried
<1>3. Carried(q, Len(q), s) => Carried(Append(q, f), Len(q) + 1, s)
  BY <1>1 DEF Carried
<1>4. f.t = "StdoutBytes" /\ f.seq = s => Carried(Append(q, f), Len(q) + 1, s)
  BY <1>1 DEF Carried
<1> QED
  BY <1>1, <1>2, <1>3, <1>4

(* A frame taken off: what was carried still is, or was that frame.         *)
LEMMA CarriedTail ==
  ASSUME NEW q \in Seq(HostFrames), q # <<>>, NEW n \in 1..Len(q), NEW s, Carried(q, n, s)
  PROVE  Carried(Tail(q), n - 1, s) \/ (Head(q).t = "StdoutBytes" /\ Head(q).seq = s)
<1>1. /\ Len(q) \in Nat \ {0} /\ Len(Tail(q)) = Len(q) - 1
      /\ \A i \in 1..Len(Tail(q)) : Tail(q)[i] = q[i + 1]
  BY HeadTailProperties, EmptySeq
<1>2. Head(q) = q[1]
  OBVIOUS
<1>3. PICK j \in 1..n : q[j].t = "StdoutBytes" /\ q[j].seq = s
  BY DEF Carried
<1>4. CASE j = 1
  BY <1>2, <1>3, <1>4
<1>5. CASE j # 1
  <2>1. j - 1 \in 1..(n - 1) /\ j - 1 \in 1..Len(Tail(q)) /\ (j - 1) + 1 = j
    BY <1>1, <1>5
  <2>2. Tail(q)[j - 1] = q[j]
    BY <1>1, <2>1
  <2> QED
    BY <1>3, <2>1, <2>2 DEF Carried
<1> QED
  BY <1>4, <1>5

(* A connection whose task, channel and knowledge only gain stays covered.  *)
LEMMA TaskKept ==
  ASSUME NEW c \in Conns, TaskCovered(c), conn'[c] = conn[c], toCore'[c] = toCore[c],
         received \subseteq received', evicted \subseteq evicted',
         next_seq \in Nat, next_seq' \in Nat, next_seq <= next_seq', conn[c].mark \in Nat
  PROVE  TaskCovered(c)'
<1>1. \A s : Got(s) => Got(s)'
  BY DEF Got
<1>2. \A s : Settled(c, s) => Settled(c, s)'
  BY <1>1 DEF Settled, OnWire, Batch
<1>3. Batch(c)' = Batch(c)
  BY DEF Batch
<1> QED
  BY <1>1, <1>2, <1>3 DEF TaskCovered, Covered

(* The channels stay in order when the host writes nothing more.            *)
LEMMA WireKept ==
  ASSUME WireInOrder, toCore' = toCore, received \subseteq received', evicted \subseteq evicted'
  PROVE  WireInOrder'
<1>1. \A s : Got(s) => Got(s)'
  BY DEF Got
<1> QED
  BY <1>1 DEF WireInOrder

(* The channels stay in order when the host writes a frame on c that is no  *)
(* output, or output with everything before it delivered or on the wire.    *)
LEMMA WireExtended ==
  ASSUME TypeOK, WireInOrder, NEW c \in Conns, NEW f \in HostFrames, Send(c, f),
         received' = received, evicted' = evicted,
         f.t = "StdoutBytes" =>
           \A s \in 1..f.seq : Got(s) \/ OnWire(c, s) \/ s = f.seq
  PROVE  WireInOrder'
<1>1. toCore'[c] = Append(toCore[c], f) /\ \A d \in Conns \ {c} : toCore'[d] = toCore[d]
  BY SendTypes
<1>2. \A s : Got(s) => Got(s)'
  BY DEF Got
<1> SUFFICES ASSUME NEW d \in Conns, NEW i \in 1..Len(toCore'[d]),
                    toCore'[d][i].t = "StdoutBytes",
                    NEW s \in 1..toCore'[d][i].seq
             PROVE  Got(s)' \/ Carried(toCore'[d], i, s)
  BY DEF WireInOrder
<1>3. CASE d # c
  BY <1>1, <1>2, <1>3 DEF WireInOrder
<1>4. CASE d = c
  <2> DEFINE q == toCore[c]
  <2>1. q \in Seq(HostFrames)
    BY DEF TypeOK, WireTypeOK
  <2>2. /\ Len(q) \in Nat /\ Len(Append(q, f)) = Len(q) + 1
        /\ \A k \in 1..Len(q) : Append(q, f)[k] = q[k]
        /\ Append(q, f)[Len(q) + 1] = f
    BY <2>1, AppendProperties, LenProperties
  <2>3. CASE i \in 1..Len(q)
    <3>1. q[i].t = "StdoutBytes" /\ s \in 1..q[i].seq
      BY <1>1, <1>4, <2>2, <2>3
    <3>2. Got(s) \/ Carried(q, i, s)
      BY <3>1, <2>3 DEF WireInOrder
    <3>3. Carried(q, i, s) => Carried(Append(q, f), i, s)
      BY <2>2, <2>3 DEF Carried
    <3> QED
      BY <1>1, <1>2, <1>4, <3>2, <3>3
  <2>4. CASE i = Len(q) + 1
    <3>1. f.t = "StdoutBytes" /\ s \in 1..f.seq
      BY <1>1, <1>4, <2>2, <2>4
    <3>2. Got(s) \/ Carried(q, Len(q), s) \/ s = f.seq
      BY <3>1 DEF OnWire
    <3>3. Carried(q, Len(q), s) \/ s = f.seq => Carried(Append(q, f), i, s)
      BY <2>1, <2>4, <3>1, CarriedAppend
    <3> QED
      BY <1>1, <1>2, <1>4, <3>2, <3>3
  <2> QED
    BY <1>1, <1>4, <2>2, <2>3, <2>4
<1> QED
  BY <1>3, <1>4

(* The Core's claims stay true when the host only takes frames off.         *)
LEMMA ClaimsKept ==
  ASSUME TypeOK, ClaimsCovered, ack_watermark' = ack_watermark,
         last_acked_seq' = last_acked_seq,
         received \subseteq received', evicted \subseteq evicted',
         \/ toHost' = toHost
         \/ \E c \in Conns : toHost[c] # <<>> /\ GetFrame(c)
  PROVE  ClaimsCovered'
<1>1. \A s : Got(s) => Got(s)'
  BY DEF Got
<1>2. CASE toHost' = toHost
  BY <1>1, <1>2 DEF ClaimsCovered, Covered
<1>3. ASSUME NEW c \in Conns, toHost[c] # <<>>, GetFrame(c)
      PROVE  ClaimsCovered'
  <2>1. toHost'[c] = Tail(toHost[c]) /\ \A d \in Conns \ {c} : toHost'[d] = toHost[d]
    BY <1>3, GetFrameTypes
  <2>2. toHost[c] \in Seq(CoreFrames)
    BY DEF TypeOK, WireTypeOK
  <2>3. /\ Len(toHost[c]) \in Nat /\ Len(Tail(toHost[c])) = Len(toHost[c]) - 1
        /\ \A i \in 1..Len(Tail(toHost[c])) : Tail(toHost[c])[i] = toHost[c][i + 1]
    BY <2>2, <1>3, HeadTailProperties, LenProperties
  <2>4. ASSUME NEW i \in 1..Len(toHost'[c]), NEW s \in 1..toHost'[c][i].seq PROVE Got(s)'
    <3>1. i + 1 \in 1..Len(toHost[c]) /\ toHost'[c][i] = toHost[c][i + 1]
      BY <2>1, <2>3
    <3> QED
      BY <3>1, <1>1 DEF ClaimsCovered, Covered
  <2>5. ASSUME NEW d \in Conns, NEW i \in 1..Len(toHost'[d]), NEW s \in 1..toHost'[d][i].seq
        PROVE  Got(s)'
    BY <2>1, <2>4, <1>1 DEF ClaimsCovered, Covered
  <2> QED
    BY <2>5, <1>1 DEF ClaimsCovered, Covered
<1> QED
  BY <1>2, <1>3

(* A task that has nothing in hand owes nothing.                            *)
LEMMA IdleCovered ==
  ASSUME NEW c \in Conns, conn'[c].pc \in {"none", "hello", "wdone", "closed"}
  PROVE  TaskCovered(c)'
  BY DEF TaskCovered, Batch

(* A task that moves on with the same mark and batch stays covered.         *)
LEMMA TaskMoved ==
  ASSUME NEW c \in Conns, TaskCovered(c), toCore'[c] = toCore[c],
         received \subseteq received', evicted \subseteq evicted',
         conn[c].pc \in {"replay", "snapshot", "write", "parked"},
         conn'[c].pc \in {"replay", "snapshot", "write", "parked"},
         conn'[c].mark = conn[c].mark, Batch(c)' = Batch(c)
  PROVE  TaskCovered(c)'
<1>1. \A s : Settled(c, s) => Settled(c, s)'
  BY DEF Settled, OnWire, Got
<1> QED
  BY <1>1 DEF TaskCovered

(* Steps of the supervisor, of the record task and of main.                 *)
LEMMA ProcessDelivery ==
  ASSUME DeliveryInv, SupervisorStep \/ OutputStep \/ MainStep,
         UNCHANGED pumpVars, TypeOK'
  PROVE  DeliveryInv'
<1>u. /\ UNCHANGED <<toCore, toHost, coreOpen>>
      /\ UNCHANGED <<core, attempt, ack_watermark, last_acked_seq, received>>
  BY DEF SupervisorStep, OutputStep, MainStep, wireVars, pumpVars, memVars
<1>t. TypeOK /\ conn \in [Conns -> ConnTasks] /\ next_seq \in Nat \ {0}
  BY MaxChunksAssumption DEF DeliveryInv, TypeOK, HostTypeOK
<1>p. \/ \E len \in Nat : Push(len) /\ next_seq <= MaxChunks /\ conn' = conn
      \/ UNCHANGED <<ring, evicted, next_seq>>
  <2>1. ASSUME NEW mode \in FailingModes, SpawnFails(mode)
        PROVE  \E len \in Nat : Push(len) /\ next_seq <= MaxChunks /\ conn' = conn
    BY <2>1, ChunkSizesAssumption DEF SpawnFails
  <2>2. CASE RecordPush
    <3>1. chan \in Seq(ChunkSizes) /\ chan # <<>>
      BY <2>2, <1>t DEF RecordPush, TypeOK, HostTypeOK
    <3>2. Head(chan) \in Nat /\ Len(chan) \in Nat \ {0}
      BY <3>1, HeadTailProperties, LenProperties, EmptySeq, ChunkSizesAssumption
    <3>3. next_seq <= MaxChunks
      BY <3>2, <1>t, MaxChunksAssumption DEF TypeOK, HostTypeOK
    <3> QED
      BY <2>2, <3>2, <3>3 DEF RecordPush
  <2> QED
    BY <2>1, <2>2 DEF SupervisorStep, OutputStep, MainStep, SpawnChild, ReportSpawnFailure,
       FlagSpawnFailure, SetChildExited, ReaderForward, RecordNotify, CheckChildExit, ParkWaiter,
       GraceEndsDelivered, GraceTimeout, WriteFinalInfo, HostExit, HostKilled, ProcessEnds,
       AcceptConnection, ringVars
<1>1. /\ evicted \subseteq evicted' /\ next_seq' \in Nat /\ next_seq <= next_seq'
      /\ NoSilentLoss'
  <2>1. ASSUME NEW len \in Nat, Push(len), next_seq <= MaxChunks
        PROVE  /\ evicted \subseteq evicted' /\ next_seq' \in Nat /\ next_seq <= next_seq'
               /\ NoSilentLoss'
    <3>1. /\ next_seq' = next_seq + 1 /\ evicted \subseteq evicted'
          /\ ring' \union evicted' = ring \union evicted \union {next_seq}
      BY <2>1, <1>t, PushTypes
    <3>2. ASSUME NEW s \in 1..(next_seq' - 1)
          PROVE  s \in ring' \union received' \union evicted'
      <4>1. s \in 1..(next_seq - 1) \/ s = next_seq
        BY <3>1, <1>t
      <4>2. s \in ring \union received \union evicted \union {next_seq}
        BY <4>1 DEF DeliveryInv, NoSilentLoss
      <4> QED
        BY <4>2, <3>1, <1>u
    <3> QED
      BY <3>1, <3>2, <1>t DEF NoSilentLoss
  <2>2. CASE UNCHANGED <<ring, evicted, next_seq>>
    BY <2>2, <1>u, <1>t DEF DeliveryInv, NoSilentLoss
  <2> QED
    BY <2>1, <2>2, <1>p
<1>2. ASSUME NEW d \in Conns
      PROVE  \/ conn'[d] = conn[d]
             \/ conn[d].pc = "parked" /\ conn'[d] = [conn[d] EXCEPT !.pc = "snapshot"]
             \/ conn'[d].pc = "hello" /\ toHost[d] # <<>>
             \/ conn'[d].pc = "closed"
  <2>1. CASE NotifyWaiters
    BY <2>1 DEF NotifyWaiters, Woken
  <2>2. ASSUME NEW c \in Conns, AcceptConnection(c)
        PROVE  conn'[d] = conn[d] \/ (conn'[d].pc = "hello" /\ toHost[d] # <<>>)
    BY <2>2, <1>t DEF AcceptConnection, ConnTasks
  <2>3. CASE HostExit \/ HostKilled
    BY <2>3 DEF HostExit, HostKilled, ProcessEnds, Closed, NoConn
  <2> QED
    BY <2>1, <2>2, <2>3 DEF SupervisorStep, OutputStep, MainStep, SpawnChild, SpawnFails,
       ReportSpawnFailure, FlagSpawnFailure, SetChildExited, ReaderForward, RecordPush, RecordNotify,
       CheckChildExit, ParkWaiter, GraceEndsDelivered, GraceTimeout, WriteFinalInfo
<1>3. ClaimsCovered'
  BY <1>u, <1>t, <1>1, ClaimsKept DEF DeliveryInv
<1>4. WireInOrder'
  BY <1>u, <1>1, WireKept DEF DeliveryInv
<1>5. ASSUME NEW d \in coreOpen' PROVE TaskCovered(d)'
  <2>1. d \in Conns /\ TaskCovered(d) /\ conn[d].mark \in Nat
    BY <1>u, <1>t DEF DeliveryInv, TypeOK, WireTypeOK, ConnTasks
  <2>2. CASE conn'[d] = conn[d]
    BY <2>1, <2>2, <1>u, <1>1, <1>t, TaskKept
  <2>3. CASE conn[d].pc = "parked" /\ conn'[d] = [conn[d] EXCEPT !.pc = "snapshot"]
    <3>1. conn'[d].pc = "snapshot" /\ conn'[d].mark = conn[d].mark
      BY <2>3, <1>t DEF ConnTasks
    <3>2. Batch(d)' = Batch(d)
      BY <2>3, <3>1 DEF Batch
    <3> QED
      BY <2>1, <2>3, <3>1, <3>2, <1>u, <1>1, TaskMoved
  <2>4. CASE conn'[d].pc \in {"hello", "closed"}
    BY <2>1, <2>4, IdleCovered
  <2> QED
    BY <1>2, <2>1, <2>2, <2>3, <2>4
<1>6. UnopenedIdle'
  <2>1. ASSUME NEW d \in Conns, d > attempt
        PROVE  conn'[d].pc \in {"none", "closed"} /\ toHost'[d] = <<>>
    BY <2>1, <1>2, <1>u DEF DeliveryInv, UnopenedIdle
  <2> QED
    BY <2>1, <1>u DEF UnopenedIdle
<1>7. SeededAck'
  BY <1>u DEF DeliveryInv, SeededAck
<1> QED
  BY <1>1, <1>3, <1>4, <1>5, <1>6, <1>7 DEF DeliveryInv

(* A connection task that writes the earliest chunk of its batch.           *)
LEMMA BatchSent ==
  ASSUME DeliveryInv, NEW c \in coreOpen, conn[c].pc \in {"replay", "write"},
         conn[c].pend # {}, Send(c, Frame("StdoutBytes", Min(conn[c].pend))),
         received' = received, evicted' = evicted,
         conn'[c].pc = conn[c].pc,
         conn'[c].pend = conn[c].pend \ {Min(conn[c].pend)},
         conn'[c].mark \in {conn[c].mark, Min(conn[c].pend)}
  PROVE  WireInOrder' /\ TaskCovered(c)'
<1> DEFINE m == Min(conn[c].pend)
           f == Frame("StdoutBytes", m)
<1>1. /\ TypeOK /\ c \in Conns /\ TaskCovered(c) /\ WireInOrder
      /\ conn[c].pend \in SUBSET (1..MaxChunks) /\ toCore[c] \in Seq(HostFrames)
  BY DEF DeliveryInv, TypeOK, WireTypeOK, HostTypeOK, ConnTasks
<1>2. /\ m \in conn[c].pend /\ m \in Nat /\ \A y \in conn[c].pend : m <= y /\ y \in Nat
      /\ Batch(c) = conn[c].pend /\ Batch(c)' = conn[c].pend \ {m}
  <2>1. m \in conn[c].pend /\ \A y \in conn[c].pend : m <= y
    BY <1>1, MinIs, MaxChunksAssumption
  <2> QED
    BY <2>1, <1>1 DEF Batch
<1>3. f \in HostFrames /\ f.t = "StdoutBytes" /\ f.seq = m
  BY <1>2 DEF Frame, HostFrames
<1>4. toCore'[c] = Append(toCore[c], f)
  BY <1>1, <1>3, SendTypes
<1> HIDE DEF m, f
<1>5. \A s \in 1..m : Settled(c, s)
  BY <1>1, <1>2 DEF TaskCovered
<1>6. WireInOrder'
  <2>1. ASSUME NEW s \in 1..m PROVE Got(s) \/ OnWire(c, s) \/ s = m
    <3>1. Got(s) \/ OnWire(c, s) \/ s \in conn[c].pend
      BY <1>2, <1>5 DEF Settled
    <3>2. s \in conn[c].pend => s = m
      BY <1>2
    <3> QED
      BY <3>1, <3>2
  <2>2. Send(c, f)
    BY DEF m, f
  <2> QED
    BY <1>1, <1>3, <2>1, <2>2, WireExtended
<1>7. ASSUME NEW s, Settled(c, s) PROVE Settled(c, s)'
  <2>1. CASE Got(s)
    BY <2>1 DEF Settled, Got
  <2>2. CASE OnWire(c, s)
    <3>1. Carried(Append(toCore[c], f), Len(Append(toCore[c], f)), s)
      BY <2>2, <1>1, <1>3, CarriedAppend DEF OnWire
    <3> QED
      BY <3>1, <1>4 DEF Settled, OnWire
  <2>3. CASE s \in Batch(c) /\ s # m
    BY <2>3, <1>2 DEF Settled
  <2>4. CASE s = m
    <3>1. Carried(Append(toCore[c], f), Len(Append(toCore[c], f)), s)
      BY <2>4, <1>1, <1>3, CarriedAppend
    <3> QED
      BY <3>1, <1>4 DEF Settled, OnWire
  <2> QED
    BY <1>7, <2>1, <2>2, <2>3, <2>4 DEF Settled
<1>8. \A s \in 1..conn[c].mark : Settled(c, s)
  BY <1>1 DEF TaskCovered
<1>9. ASSUME NEW s \in 1..conn'[c].mark PROVE Settled(c, s)'
  <2>1. CASE conn'[c].mark = conn[c].mark
    BY <2>1, <1>7, <1>8
  <2>2. CASE conn'[c].mark = m
    BY <2>2, <1>7, <1>5
  <2> QED
    BY <2>1, <2>2 DEF m
<1>10. ASSUME NEW q \in Batch(c)', NEW s \in 1..q PROVE Settled(c, s)'
  BY <1>1, <1>2, <1>7 DEF TaskCovered
<1>11. conn'[c].pc # "claimed"
  OBVIOUS
<1>12. TaskCovered(c)'
  BY <1>9, <1>10, <1>11 DEF TaskCovered
<1> QED
  BY <1>6, <1>12

(* What the handshake, writer or reader of connection c does to the wire    *)
(* and to its own task, if the Core's end is open.                          *)
LEMMA ConnectionCovered ==
  ASSUME DeliveryInv, NEW c \in Conns, ConnectionStep(c), UNCHANGED pumpVars
  PROVE  WireInOrder' /\ (c \in coreOpen => TaskCovered(c)')
<1>t. /\ TypeOK /\ conn[c] \in ConnTasks /\ WireInOrder /\ NoSilentLoss
      /\ conn \in [Conns -> ConnTasks]
      /\ ring \in SUBSET (1..(next_seq - 1)) /\ next_seq \in Nat \ {0}
      /\ (c \in coreOpen => TaskCovered(c))
  BY MaxChunksAssumption DEF DeliveryInv, TypeOK, HostTypeOK
<1>u. received' = received /\ evicted' = evicted /\ next_seq' = next_seq
  BY DEF pumpVars, ConnectionStep, WriterStep, RefuseHello, ClaimSlot, SnapshotReplay,
     ReplayChunk, StartTasks, WriterSnapshot, WriterSend, WriterExit, WriterPark,
     ConnReaderAck, ConnReaderEof, ReleaseSlot, PruneThrough, taskFrame
<1>g. \A s : (Got(s) => Got(s)') /\ (Got(s)' => Got(s))
  BY <1>u DEF Got
<1>0. ASSUME toCore' = toCore PROVE WireInOrder' /\ \A s : OnWire(c, s)' = OnWire(c, s)
  BY <1>0, <1>t, <1>u, WireKept DEF OnWire
<1>1. CASE RefuseHello(c)
  <2>1. conn'[c].pc = "closed"
    BY <1>1, <1>t DEF RefuseHello, Closed, NoConn
  <2>2. CASE c \in coreOpen
    <3>1. PICK kind \in {"CookieMismatch", "AlreadyConnected"} : Send(c, Frame(kind, 0))
      BY <1>1, <2>2 DEF RefuseHello
    <3>2. Frame(kind, 0) \in HostFrames /\ Frame(kind, 0).t # "StdoutBytes"
      BY DEF Frame, HostFrames
    <3> QED
      BY <3>1, <3>2, <2>1, <1>t, <1>u, WireExtended, IdleCovered
  <2>3. CASE c \notin coreOpen
    BY <1>1, <2>3, <1>0 DEF RefuseHello
  <2> QED
    BY <2>2, <2>3
<1>2. CASE ClaimSlot(c)
  <2>1. CASE c \in coreOpen
    <3>1. LastSeq(ring) \in 0..(next_seq - 1)
      BY <1>t, LastSeqBound
    <3>2. /\ Send(c, Frame("Ready", LastSeq(ring)))
          /\ conn'[c].pc = "claimed" /\ conn'[c].mark = LastSeq(ring)
          /\ conn'[c].hello = Head(toHost[c]).seq
      BY <1>2, <2>1, <1>t DEF ClaimSlot, ConnTasks
    <3>3. Frame("Ready", LastSeq(ring)) \in HostFrames
          /\ Frame("Ready", LastSeq(ring)).t # "StdoutBytes"
      BY <3>1 DEF Frame, HostFrames
    <3>4. WireInOrder'
      BY <3>2, <3>3, <1>t, <1>u, WireExtended
    <3>5. \A s \in 1..Head(toHost[c]).seq : Got(s)
      <4>1. toHost[c] \in Seq(CoreFrames) /\ toHost[c] # <<>>
        BY <1>2, <1>t DEF ClaimSlot, TypeOK, WireTypeOK
      <4>2. 1 \in 1..Len(toHost[c])
        BY <4>1, EmptySeq, LenProperties
      <4>3. Head(toHost[c]) = toHost[c][1]
        BY <4>1
      <4> QED
        BY <4>2, <4>3 DEF DeliveryInv, ClaimsCovered, Covered
    <3>6. conn'[c].mark < next_seq'
      BY <3>1, <3>2, <1>t, <1>u
    <3>7. \A s \in 1..conn'[c].hello : Got(s)'
      BY <3>2, <3>5, <1>g
    <3>8. TaskCovered(c)'
      BY <3>2, <3>6, <3>7 DEF TaskCovered, Covered, Batch
    <3> QED
      BY <3>4, <3>8
  <2>2. CASE c \notin coreOpen
    BY <1>2, <2>2, <1>0 DEF ClaimSlot
  <2> QED
    BY <2>1, <2>2
<1>3. CASE SnapshotReplay(c)
  <2>0. toCore' = toCore
    BY <1>3 DEF SnapshotReplay, wireVars
  <2>1. /\ conn[c].pc = "claimed" /\ conn'[c].pc = "replay" /\ conn'[c].mark = conn[c].mark
        /\ conn'[c].pend = {s \in ring : s > conn[c].hello}
    BY <1>3, <1>t DEF SnapshotReplay, ConnTasks, ReplayPast
  <2>2. ASSUME c \in coreOpen PROVE TaskCovered(c)'
    <3>1. conn[c].mark < next_seq /\ \A s \in 1..conn[c].hello : Got(s)
      BY <2>1, <2>2, <1>t DEF TaskCovered, Covered
    <3>2. Batch(c)' = {s \in ring : s > conn[c].hello}
      BY <2>1 DEF Batch
    <3>3. conn[c].hello \in Nat /\ conn[c].mark \in Nat
      BY <1>t DEF ConnTasks
    <3>4. ASSUME NEW s \in 1..(next_seq - 1) PROVE Settled(c, s)'
      <4>1. Got(s) \/ s \in ring
        BY <1>t DEF NoSilentLoss, Got
      <4>2. s \in ring => s \in 1..conn[c].hello \/ s > conn[c].hello
        BY <3>3
      <4> QED
        BY <4>1, <4>2, <3>1, <3>2, <1>g DEF Settled
    <3>5. \A s \in 1..conn'[c].mark : s \in 1..(next_seq - 1)
      BY <2>1, <3>1, <3>3, <1>t
    <3>6. \A q \in Batch(c)' : \A s \in 1..q : s \in 1..(next_seq - 1)
      <4>1. ASSUME NEW q \in Batch(c)' PROVE q \in 1..(next_seq - 1)
        BY <3>2, <1>t
      <4> QED
        BY <4>1, <1>t
    <3> QED
      BY <2>1, <3>4, <3>5, <3>6 DEF TaskCovered
  <2> QED
    BY <2>0, <2>2, <1>0
<1>4. CASE ReplayChunk(c)
  <2>1. CASE c \in coreOpen
    <3>1. conn' = [conn EXCEPT ![c].pend = conn[c].pend \ {Min(conn[c].pend)}]
      BY <1>4, <2>1 DEF ReplayChunk
    <3>2. /\ conn'[c].pc = conn[c].pc /\ conn'[c].mark = conn[c].mark
          /\ conn'[c].pend = conn[c].pend \ {Min(conn[c].pend)}
      BY <3>1, <1>t DEF ConnTasks
    <3> QED
      BY <1>4, <2>1, <3>2, <1>u, BatchSent DEF ReplayChunk
  <2>2. CASE c \notin coreOpen
    BY <1>4, <2>2, <1>0 DEF ReplayChunk
  <2> QED
    BY <2>1, <2>2
<1>5. CASE StartTasks(c)
  <2>1. /\ conn[c].pc = "replay" /\ conn'[c].pc = "snapshot" /\ conn'[c].mark = conn[c].mark
        /\ conn[c].pend = {} /\ toCore' = toCore
    BY <1>5, <1>t DEF StartTasks, ConnTasks, wireVars
  <2>2. Batch(c)' = Batch(c)
    BY <2>1 DEF Batch
  <2> QED
    BY <2>1, <2>2, <1>0, <1>t, <1>u, TaskMoved
<1>6. CASE WriterSnapshot(c)
  <2>1. /\ conn[c].pc = "snapshot" /\ conn'[c].pc = "write" /\ conn'[c].mark = conn[c].mark
        /\ conn'[c].pend = {s \in ring : s > conn[c].mark} /\ toCore' = toCore
    BY <1>6, <1>t DEF WriterSnapshot, ConnTasks, ReplayPast, wireVars
  <2>2. ASSUME c \in coreOpen PROVE TaskCovered(c)'
    <3>1. Batch(c) = {} /\ Batch(c)' = {s \in ring : s > conn[c].mark}
      BY <2>1 DEF Batch
    <3>2. conn[c].mark \in Nat
      BY <1>t DEF ConnTasks
    <3>3. ASSUME NEW s \in 1..conn[c].mark PROVE Settled(c, s)'
      <4>1. Settled(c, s)
        BY <2>1, <2>2, <1>t DEF TaskCovered
      <4> QED
        BY <4>1, <3>1, <2>1, <1>0, <1>g DEF Settled
    <3>4. ASSUME NEW s \in 1..(next_seq - 1) PROVE Settled(c, s)'
      <4>1. Got(s) \/ s \in ring
        BY <1>t DEF NoSilentLoss, Got
      <4>2. s \in 1..conn[c].mark \/ s > conn[c].mark
        BY <3>2
      <4> QED
        BY <4>1, <4>2, <3>1, <3>3, <1>g DEF Settled
    <3>5. \A q \in Batch(c)' : \A s \in 1..q : s \in 1..(next_seq - 1)
      <4>1. ASSUME NEW q \in Batch(c)' PROVE q \in 1..(next_seq - 1)
        BY <3>1, <1>t
      <4> QED
        BY <4>1, <1>t
    <3> QED
      BY <2>1, <3>3, <3>4, <3>5 DEF TaskCovered
  <2> QED
    BY <2>1, <2>2, <1>0
<1>7. CASE WriterSend(c)
  <2>1. CASE c \in coreOpen
    <3>1. conn' = [conn EXCEPT ![c].pend = conn[c].pend \ {Min(conn[c].pend)},
                               ![c].mark = Min(conn[c].pend)]
      BY <1>7, <2>1 DEF WriterSend
    <3>2. /\ conn'[c].pc = conn[c].pc /\ conn'[c].mark = Min(conn[c].pend)
          /\ conn'[c].pend = conn[c].pend \ {Min(conn[c].pend)}
      BY <3>1, <1>t DEF ConnTasks
    <3> QED
      BY <1>7, <2>1, <3>2, <1>u, BatchSent DEF WriterSend
  <2>2. CASE c \notin coreOpen
    BY <1>7, <2>2, <1>0 DEF WriterSend
  <2> QED
    BY <2>1, <2>2
<1>8. CASE WriterExit(c)
  <2>1. conn'[c].pc = "wdone"
    BY <1>8, <1>t DEF WriterExit, WriterDone, NoConn
  <2>2. CASE c \in coreOpen
    <3>1. Send(c, Frame("AgentExited", 0))
      BY <1>8, <2>2 DEF WriterExit
    <3>2. Frame("AgentExited", 0) \in HostFrames /\ Frame("AgentExited", 0).t # "StdoutBytes"
      BY DEF Frame, HostFrames
    <3> QED
      BY <3>1, <3>2, <2>1, <1>t, <1>u, WireExtended, IdleCovered
  <2>3. CASE c \notin coreOpen
    BY <1>8, <2>3, <1>0 DEF WriterExit
  <2> QED
    BY <2>2, <2>3
<1>9. CASE WriterPark(c)
  <2>1. /\ conn[c].pc = "write" /\ conn'[c].pc = "parked" /\ conn'[c].mark = conn[c].mark
        /\ conn[c].pend = {} /\ toCore' = toCore
    BY <1>9, <1>t DEF WriterPark, ConnTasks, wireVars
  <2>2. Batch(c)' = Batch(c)
    BY <2>1 DEF Batch
  <2> QED
    BY <2>1, <2>2, <1>0, <1>t, <1>u, TaskMoved
<1>10. CASE ConnReaderAck(c)
  <2>1. conn' = conn /\ toCore' = toCore /\ conn[c].mark \in Nat
    BY <1>10, <1>t DEF ConnReaderAck, ConnTasks
  <2> QED
    BY <2>1, <1>0, <1>t, <1>u, TaskKept
<1>11. CASE ConnReaderEof(c)
  BY <1>11, <1>0 DEF ConnReaderEof, wireVars
<1>12. CASE ReleaseSlot(c)
  <2>1. conn'[c].pc = "closed" /\ toCore' = toCore
    BY <1>12, <1>t DEF ReleaseSlot, Closed, NoConn, wireVars
  <2> QED
    BY <2>1, <1>0, IdleCovered
<1> QED
  BY <1>1, <1>2, <1>3, <1>4, <1>5, <1>6, <1>7, <1>8, <1>9, <1>10, <1>11, <1>12
  DEF ConnectionStep, WriterStep

(* A step of one connection's tasks.                                        *)
LEMMA ConnectionDelivery ==
  ASSUME DeliveryInv, NEW c \in Conns, ConnectionStep(c), UNCHANGED pumpVars, TypeOK'
  PROVE  DeliveryInv'
<1>t. /\ TypeOK /\ conn[c] \in ConnTasks /\ conn \in [Conns -> ConnTasks]
      /\ toHost \in [Conns -> Seq(CoreFrames)] /\ toCore \in [Conns -> Seq(HostFrames)]
      /\ next_seq \in Nat
  BY DEF DeliveryInv, TypeOK, HostTypeOK, WireTypeOK
<1>u. /\ UNCHANGED <<core, attempt, ack_watermark, last_acked_seq, received>>
      /\ UNCHANGED <<coreOpen, evicted, next_seq>>
  BY DEF pumpVars, memVars, wireVars, ConnectionStep, WriterStep, RefuseHello, ClaimSlot,
     SnapshotReplay, ReplayChunk, StartTasks, WriterSnapshot, WriterSend, WriterExit,
     WriterPark, ConnReaderAck, ConnReaderEof, ReleaseSlot, PruneThrough, taskFrame,
     ringVars
<1>o. \A d \in Conns \ {c} : conn'[d] = conn[d] /\ toCore'[d] = toCore[d] /\ toHost'[d] = toHost[d]
  BY <1>t DEF wireVars, ConnectionStep, WriterStep, RefuseHello, ClaimSlot, SnapshotReplay,
     ReplayChunk, StartTasks, WriterSnapshot, WriterSend, WriterExit, WriterPark,
     ConnReaderAck, ConnReaderEof, ReleaseSlot, Send, GetFrame
<1>h. toHost' = toHost \/ (toHost[c] # <<>> /\ GetFrame(c))
  BY DEF wireVars, ConnectionStep, WriterStep, RefuseHello, ClaimSlot, SnapshotReplay,
     ReplayChunk, StartTasks, WriterSnapshot, WriterSend, WriterExit, WriterPark,
     ConnReaderAck, ConnReaderEof, ReleaseSlot
<1>i. c > attempt => conn'[c].pc = conn[c].pc /\ toHost' = toHost
  <2>1. ASSUME c > attempt PROVE conn[c].pc \in {"none", "closed"} /\ toHost[c] = <<>>
    BY <2>1 DEF DeliveryInv, UnopenedIdle
  <2>2. ASSUME conn[c].pc \in {"none", "closed"}, toHost[c] = <<>>
        PROVE  conn'[c].pc = conn[c].pc /\ toHost' = toHost
    BY <1>t, <2>2 DEF wireVars, ConnTasks, ConnectionStep, WriterStep, RefuseHello, ClaimSlot,
       SnapshotReplay, ReplayChunk, StartTasks, WriterSnapshot, WriterSend, WriterExit,
       WriterPark, ConnReaderAck, ConnReaderEof, ReleaseSlot
  <2> QED
    BY <2>1, <2>2
<1>1. NoSilentLoss'
  <2>1. CASE ConnReaderAck(c)
    <3> DEFINE ack == Head(toHost[c]).seq
    <3>1. ring' = ring \ {s \in ring : s <= ack}
      BY <2>1 DEF ConnReaderAck, PruneThrough
    <3>2. \A s \in 1..ack : Got(s)
      <4>1. toHost[c] \in Seq(CoreFrames) /\ toHost[c] # <<>>
        BY <2>1, <1>t DEF ConnReaderAck
      <4>2. 1 \in 1..Len(toHost[c]) /\ Head(toHost[c]) = toHost[c][1]
        BY <4>1, EmptySeq, LenProperties
      <4> QED
        BY <4>2 DEF DeliveryInv, ClaimsCovered, Covered
    <3>3. ASSUME NEW s \in 1..(next_seq - 1)
          PROVE  s \in ring' \union received \union evicted
      <4>1. Got(s) \/ s \in ring
        BY DEF DeliveryInv, NoSilentLoss, Got
      <4>2. ack \in Nat
        BY <2>1, <1>t, <1>h, GetFrameTypes DEF ConnReaderAck, CoreFrames
      <4>3. s <= ack => s \in 1..ack
        BY <4>2
      <4> QED
        BY <4>1, <4>3, <3>1, <3>2 DEF Got
    <3> QED
      BY <3>3, <1>u DEF NoSilentLoss
  <2>2. CASE ring' = ring
    BY <2>2, <1>u DEF DeliveryInv, NoSilentLoss
  <2> QED
    BY <2>1, <2>2 DEF ConnectionStep, WriterStep, RefuseHello, ClaimSlot, SnapshotReplay,
       ReplayChunk, StartTasks, WriterSnapshot, WriterSend, WriterExit, WriterPark,
       ConnReaderEof, ReleaseSlot, ringVars
<1>2. ClaimsCovered'
  BY <1>u, <1>t, <1>h, ClaimsKept DEF DeliveryInv
<1>3. WireInOrder' /\ (c \in coreOpen => TaskCovered(c)')
  BY ConnectionCovered
<1>4. ASSUME NEW d \in coreOpen' PROVE TaskCovered(d)'
  <2>1. d \in Conns /\ d \in coreOpen /\ TaskCovered(d) /\ conn[d].mark \in Nat
    BY <1>u, <1>t DEF DeliveryInv, TypeOK, WireTypeOK, ConnTasks
  <2>2. CASE d = c
    BY <2>1, <2>2, <1>3
  <2>3. CASE d # c
    BY <2>1, <2>3, <1>o, <1>u, <1>t, TaskKept
  <2> QED
    BY <2>2, <2>3
<1>5. UnopenedIdle'
  <2>1. ASSUME NEW d \in Conns, d > attempt
        PROVE  conn'[d].pc \in {"none", "closed"} /\ toHost'[d] = <<>>
    BY <2>1, <1>i, <1>o DEF DeliveryInv, UnopenedIdle
  <2> QED
    BY <2>1, <1>u DEF UnopenedIdle
<1>6. SeededAck'
  BY <1>u DEF DeliveryInv, SeededAck
<1> QED
  BY <1>1, <1>2, <1>3, <1>4, <1>5, <1>6 DEF DeliveryInv

(* Taking a frame off keeps a channel in order: what it carried is carried  *)
(* still, or was the chunk just read.                                       *)
LEMMA WireTaken ==
  ASSUME TypeOK, WireInOrder, attempt \in Conns, toCore[attempt] # <<>>, TakeFrame,
         received \subseteq received', evicted' = evicted,
         Head(toCore[attempt]).t = "StdoutBytes" => Head(toCore[attempt]).seq \in received'
  PROVE  /\ WireInOrder'
         /\ \A s : OnWire(attempt, s) =>
              Got(s)' \/ Carried(toCore'[attempt], Len(toCore'[attempt]), s)
<1> DEFINE q == toCore[attempt]
<1>1. q \in Seq(HostFrames) /\ q # <<>>
  BY DEF TypeOK, WireTypeOK
<1>2. toCore'[attempt] = Tail(q) /\ \A d \in Conns \ {attempt} : toCore'[d] = toCore[d]
  BY TakeFrameTypes
<1>3. \A s : Got(s) => Got(s)'
  BY DEF Got
<1>4. /\ Len(q) \in Nat \ {0} /\ Len(Tail(q)) = Len(q) - 1
      /\ \A i \in 1..Len(Tail(q)) : Tail(q)[i] = q[i + 1]
  BY <1>1, HeadTailProperties, EmptySeq
<1>5. ASSUME NEW n \in 1..Len(q), NEW s, Carried(q, n, s)
      PROVE  Got(s)' \/ Carried(Tail(q), n - 1, s)
  BY <1>1, <1>5, CarriedTail DEF Got
<1>6. ASSUME NEW s, OnWire(attempt, s) PROVE Got(s)' \/ Carried(Tail(q), Len(Tail(q)), s)
  <2>1. Len(q) \in 1..Len(q) /\ Carried(q, Len(q), s)
    BY <1>4, <1>6 DEF OnWire
  <2> QED
    BY <2>1, <1>4, <1>5
<1>7. ASSUME NEW i \in 1..Len(Tail(q)), Tail(q)[i].t = "StdoutBytes",
             NEW s \in 1..Tail(q)[i].seq
      PROVE  Got(s)' \/ Carried(Tail(q), i, s)
  <2>1. i + 1 \in 1..Len(q) /\ Tail(q)[i] = q[i + 1] /\ (i + 1) - 1 = i
    BY <1>4
  <2>2. Got(s) \/ Carried(q, i + 1, s)
    BY <2>1, <1>7 DEF WireInOrder
  <2> QED
    BY <2>1, <2>2, <1>3, <1>5
<1> HIDE DEF q
<1>8. ASSUME NEW d \in Conns, NEW i \in 1..Len(toCore'[d]),
             toCore'[d][i].t = "StdoutBytes", NEW s \in 1..toCore'[d][i].seq
      PROVE  Got(s)' \/ Carried(toCore'[d], i, s)
  <2>1. CASE d = attempt
    BY <2>1, <1>8, <1>2, <1>7
  <2>2. CASE d # attempt
    BY <2>2, <1>8, <1>2, <1>3 DEF WireInOrder
  <2> QED
    BY <2>1, <2>2
<1> QED
  BY <1>2, <1>6, <1>8 DEF WireInOrder

(* A frame the Core sends carries a claim that is already covered.          *)
LEMMA ClaimSent ==
  ASSUME TypeOK, ClaimsCovered, NEW c \in Conns, NEW f \in CoreFrames,
         toHost' = [toHost EXCEPT ![c] = Append(toHost[c], f)],
         UNCHANGED <<received, evicted>>, Covered(f.seq),
         ack_watermark' \in {0, ack_watermark, last_acked_seq},
         last_acked_seq' = last_acked_seq
  PROVE  ClaimsCovered'
<1>1. \A s : Got(s) => Got(s)'
  BY DEF Got
<1>2. toHost[c] \in Seq(CoreFrames) /\ toHost \in [Conns -> Seq(CoreFrames)]
  BY DEF TypeOK, WireTypeOK
<1>3. /\ Len(toHost[c]) \in Nat /\ Len(Append(toHost[c], f)) = Len(toHost[c]) + 1
      /\ \A k \in 1..Len(toHost[c]) : Append(toHost[c], f)[k] = toHost[c][k]
      /\ Append(toHost[c], f)[Len(toHost[c]) + 1] = f
  BY <1>2, AppendProperties, LenProperties
<1>4. toHost'[c] = Append(toHost[c], f) /\ \A d \in Conns \ {c} : toHost'[d] = toHost[d]
  BY <1>2
<1>5. ASSUME NEW i \in 1..Len(toHost'[c]), NEW s \in 1..toHost'[c][i].seq PROVE Got(s)'
  <2>1. CASE i \in 1..Len(toHost[c])
    BY <2>1, <1>1, <1>3, <1>4 DEF ClaimsCovered, Covered
  <2>2. CASE i = Len(toHost[c]) + 1
    BY <2>2, <1>1, <1>3, <1>4 DEF Covered
  <2> QED
    BY <2>1, <2>2, <1>3, <1>4
<1>6. ASSUME NEW d \in Conns, NEW i \in 1..Len(toHost'[d]), NEW s \in 1..toHost'[d][i].seq
      PROVE  Got(s)'
  BY <1>1, <1>4, <1>5 DEF ClaimsCovered, Covered
<1>7. \A s \in 1..ack_watermark' : Got(s)'
  BY <1>1 DEF ClaimsCovered, Covered
<1>8. \A s \in 1..last_acked_seq' : Got(s)'
  BY <1>1 DEF ClaimsCovered, Covered
<1> QED
  BY <1>6, <1>7, <1>8 DEF ClaimsCovered, Covered

(* A frame the Core reads: chunks become its own, its claims stay covered.  *)
LEMMA ReadDelivery ==
  ASSUME DeliveryInv, RecvReady \/ RecvRefusal \/ RecvStdout \/ RecvExited,
         UNCHANGED hostVars, TypeOK'
  PROVE  DeliveryInv'
<1>t. /\ TypeOK /\ WireInOrder /\ conn \in [Conns -> ConnTasks] /\ next_seq \in Nat
      /\ attempt \in Conns /\ toCore[attempt] # <<>> /\ TakeFrame
      /\ ack_watermark \in Nat /\ last_acked_seq \in Nat
  BY SMTT(30), MaxConnsAssumption DEF DeliveryInv, TypeOK, HostTypeOK, PumpTypeOK, Conns, RecvReady,
     RecvRefusal, RecvStdout, RecvExited, Incoming
<1>u. /\ UNCHANGED <<ring, evicted, next_seq, conn, attempt, last_acked_seq, toHost>>
      /\ coreOpen' \subseteq coreOpen
  BY DEF hostVars, ringVars, RecvReady, RecvRefusal, RecvStdout, RecvExited
<1>r. received \subseteq received'
  BY DEF RecvReady, RecvRefusal, RecvStdout, RecvExited
<1>h. Head(toCore[attempt]).t = "StdoutBytes" => Head(toCore[attempt]).seq \in received'
  BY DEF RecvReady, RecvRefusal, RecvStdout, RecvExited, Incoming
<1>g. \A s : Got(s) => Got(s)'
  BY <1>r, <1>u DEF Got
<1>1. /\ WireInOrder'
      /\ \A s : OnWire(attempt, s) =>
           Got(s)' \/ Carried(toCore'[attempt], Len(toCore'[attempt]), s)
  BY <1>t, <1>u, <1>r, <1>h, WireTaken
<1>2. NoSilentLoss'
  BY <1>u, <1>r DEF DeliveryInv, NoSilentLoss
<1>3. \A s \in 1..ack_watermark' : Got(s)'
  <2>1. \A s \in 1..ack_watermark : Got(s)'
    BY <1>g DEF DeliveryInv, ClaimsCovered, Covered
  <2>2. CASE RecvStdout
    <3> DEFINE q == toCore[attempt]
    <3>1. q \in Seq(HostFrames) /\ q # <<>> /\ Head(q).t = "StdoutBytes"
      BY <2>2, <1>t DEF TypeOK, WireTypeOK, RecvStdout, Incoming
    <3>2. 1 \in 1..Len(q) /\ Head(q) = q[1]
      BY <3>1, EmptySeq, LenProperties
    <3>3. ASSUME NEW s \in 1..Head(q).seq PROVE Got(s)'
      <4>1. Got(s) \/ Carried(q, 1, s)
        BY <3>1, <3>2, <1>t DEF WireInOrder
      <4>2. Carried(q, 1, s) => s = Head(q).seq
        BY <3>2 DEF Carried
      <4> QED
        BY <4>1, <4>2, <3>1, <1>g, <1>h DEF Got
    <3>4. ack_watermark' \in {ack_watermark, Head(q).seq}
      BY <2>2 DEF RecvStdout
    <3> QED
      BY <2>1, <3>3, <3>4
  <2>3. CASE ack_watermark' = ack_watermark
    BY <2>1, <2>3
  <2> QED
    BY <2>2, <2>3 DEF RecvReady, RecvRefusal, RecvExited, memVars
<1>4. ClaimsCovered'
  BY <1>3, <1>u, <1>g DEF DeliveryInv, ClaimsCovered, Covered
<1>5. ASSUME NEW d \in coreOpen' PROVE TaskCovered(d)'
  <2>1. d \in Conns /\ TaskCovered(d) /\ conn[d].mark \in Nat
    BY <1>u, <1>t DEF DeliveryInv, TypeOK, WireTypeOK, ConnTasks
  <2>2. CASE d # attempt
    <3>1. toCore'[d] = toCore[d]
      BY <2>1, <2>2, <1>t, TakeFrameTypes
    <3> QED
      BY <2>1, <3>1, <1>u, <1>t, <1>r, TaskKept
  <2>3. CASE d = attempt
    <3>1. Batch(d)' = Batch(d)
      BY <1>u DEF Batch
    <3>2. ASSUME NEW s, Settled(d, s) PROVE Settled(d, s)'
      <4>1. OnWire(attempt, s) => Got(s)' \/ OnWire(d, s)'
        BY <1>1, <2>3, <1>u DEF OnWire
      <4> QED
        BY <3>1, <3>2, <4>1, <2>3, <1>g DEF Settled
    <3> QED
      BY <2>1, <3>1, <3>2, <1>u, <1>g DEF TaskCovered, Covered
  <2> QED
    BY <2>2, <2>3
<1>6. UnopenedIdle'
  BY <1>u DEF DeliveryInv, UnopenedIdle
<1>7. SeededAck'
  BY <1>u, <1>t, TakeFrameTypes DEF DeliveryInv, SeededAck, RecvReady, RecvRefusal,
     RecvStdout, RecvExited, memVars
<1> QED
  BY <1>1, <1>2, <1>4, <1>5, <1>6, <1>7 DEF DeliveryInv

(* Every other step of the Core.                                            *)
LEMMA CoreDelivery ==
  ASSUME DeliveryInv, CoreAction, TypeOK'
  PROVE  DeliveryInv'
<1>t. /\ TypeOK /\ WireInOrder /\ conn \in [Conns -> ConnTasks] /\ next_seq \in Nat
      /\ ack_watermark \in Nat /\ last_acked_seq \in Nat /\ attempt \in Nat
      /\ (core # "down" => attempt \in Conns)
  BY SMTT(30), MaxConnsAssumption DEF DeliveryInv, TypeOK, HostTypeOK, PumpTypeOK, Conns
<1>h. UNCHANGED hostVars /\ UNCHANGED <<ring, evicted, next_seq, conn>>
  BY DEF CoreAction, hostVars, ringVars
<1>1. CASE RecvReady \/ RecvRefusal \/ RecvStdout \/ RecvExited
  BY <1>1, <1>h, ReadDelivery
<1>2. CASE Connect \/ AckTick \/ PersistTick \/ FlushAck \/ RecvEof \/ CoreCrash
  <2>r. received' = received
    BY <1>2 DEF Connect, AckTick, PersistTick, FlushAck, RecvEof, CoreCrash
  <2>g. \A s : Got(s) => Got(s)'
    BY <2>r, <1>h DEF Got
  <2>1. NoSilentLoss'
    BY <1>h, <2>r DEF DeliveryInv, NoSilentLoss
  <2>2. CASE Connect
    <3>1. /\ UNCHANGED <<toCore, last_acked_seq>> /\ attempt' = attempt + 1
          /\ coreOpen' = coreOpen \union {attempt + 1} /\ attempt + 1 \in Conns
          /\ ack_watermark' = last_acked_seq
      BY <2>2, <1>t, MaxConnsAssumption DEF Connect, Seed, Conns, TypeOK, PumpTypeOK
    <3>2. PICK hello \in {"Hello", "BadHello"} :
            toHost' = [toHost EXCEPT ![attempt + 1] =
                         Append(toHost[attempt + 1], Frame(hello, last_acked_seq))]
      BY <2>2 DEF Connect
    <3>3. Frame(hello, last_acked_seq) \in CoreFrames
          /\ Frame(hello, last_acked_seq).seq = last_acked_seq
      BY <1>t DEF Frame, CoreFrames
    <3>4. ClaimsCovered'
      BY <3>1, <3>2, <3>3, <1>t, <1>h, <2>r, ClaimSent DEF DeliveryInv, ClaimsCovered
    <3>5. WireInOrder'
      BY <3>1, <1>t, <1>h, <2>r, WireKept
    <3>6. ASSUME NEW d \in coreOpen' PROVE TaskCovered(d)'
      <4>1. CASE d \in coreOpen
        <5>1. d \in Conns /\ TaskCovered(d) /\ conn[d].mark \in Nat
          BY <4>1, <1>t DEF DeliveryInv, TypeOK, WireTypeOK, ConnTasks
        <5> QED
          BY <5>1, <3>1, <1>h, <2>r, <1>t, TaskKept
      <4>2. CASE d = attempt + 1
        <5>1. conn'[d].pc \in {"none", "closed"}
          BY <4>2, <3>1, <1>h, <1>t DEF DeliveryInv, UnopenedIdle
        <5> QED
          BY <5>1, <4>2, <3>1, IdleCovered
      <4> QED
        BY <4>1, <4>2, <3>1
    <3>7. UnopenedIdle'
      <4>1. ASSUME NEW d \in Conns, d > attempt + 1
            PROVE  conn'[d].pc \in {"none", "closed"} /\ toHost'[d] = <<>>
        <5>1. d > attempt /\ d # attempt + 1 /\ toHost \in [Conns -> Seq(CoreFrames)]
          BY <4>1, <1>t DEF Conns, TypeOK, WireTypeOK
        <5>2. toHost'[d] = toHost[d]
          BY <5>1, <3>2
        <5> QED
          BY <5>1, <5>2, <1>h DEF DeliveryInv, UnopenedIdle
      <4> QED
        BY <4>1, <3>1 DEF UnopenedIdle
    <3>8. SeededAck'
      BY <3>1, <1>t DEF SeededAck
    <3> QED
      BY <2>1, <3>4, <3>5, <3>6, <3>7, <3>8 DEF DeliveryInv
  <2>3. CASE AckTick
    <3>1. /\ UNCHANGED <<toCore, coreOpen, core, attempt, ack_watermark, last_acked_seq>>
          /\ attempt \in Conns
          /\ toHost' = [toHost EXCEPT ![attempt] =
                          Append(toHost[attempt], Frame("Ack", ack_watermark))]
      BY <2>3, <1>t DEF AckTick, SendToHost
    <3>2. Frame("Ack", ack_watermark) \in CoreFrames
          /\ Frame("Ack", ack_watermark).seq = ack_watermark
      BY <1>t DEF Frame, CoreFrames
    <3>3. ClaimsCovered'
      BY <3>1, <3>2, <1>t, <1>h, <2>r, ClaimSent DEF DeliveryInv, ClaimsCovered
    <3>4. WireInOrder'
      BY <3>1, <1>t, <1>h, <2>r, WireKept
    <3>5. ASSUME NEW d \in coreOpen' PROVE TaskCovered(d)'
      <4>1. d \in Conns /\ TaskCovered(d) /\ conn[d].mark \in Nat
        BY <3>1, <1>t DEF DeliveryInv, TypeOK, WireTypeOK, ConnTasks
      <4> QED
        BY <4>1, <3>1, <1>h, <2>r, <1>t, TaskKept
    <3>6. ASSUME NEW d \in Conns, d > attempt
          PROVE  conn'[d].pc \in {"none", "closed"} /\ toHost'[d] = <<>>
      <4>1. d # attempt /\ toHost \in [Conns -> Seq(CoreFrames)]
        BY <3>6, <1>t DEF TypeOK, WireTypeOK
      <4> QED
        BY <4>1, <3>1, <3>6, <1>h DEF DeliveryInv, UnopenedIdle
    <3>7. SeededAck'
      BY <3>1 DEF DeliveryInv, SeededAck
    <3> QED
      BY <2>1, <3>1, <3>3, <3>4, <3>5, <3>6, <3>7 DEF DeliveryInv, UnopenedIdle
  <2>4. CASE PersistTick \/ FlushAck \/ RecvEof
    <3>1. /\ UNCHANGED <<toCore, toHost, attempt, ack_watermark>> /\ coreOpen' \subseteq coreOpen
          /\ last_acked_seq' \in {last_acked_seq, ack_watermark}
      BY <2>4 DEF PersistTick, FlushAck, RecvEof, wireVars, memVars
    <3>2. ClaimsCovered'
      BY <3>1, <2>g DEF DeliveryInv, ClaimsCovered, Covered
    <3>3. WireInOrder'
      BY <3>1, <1>t, <1>h, <2>r, WireKept
    <3>4. ASSUME NEW d \in coreOpen' PROVE TaskCovered(d)'
      <4>1. d \in Conns /\ TaskCovered(d) /\ conn[d].mark \in Nat
        BY <3>1, <1>t DEF DeliveryInv, TypeOK, WireTypeOK, ConnTasks
      <4> QED
        BY <4>1, <3>1, <1>h, <2>r, <1>t, TaskKept
    <3>5. UnopenedIdle'
      BY <3>1, <1>h DEF DeliveryInv, UnopenedIdle
    <3>6. SeededAck'
      BY <2>4, <3>1, <1>t DEF DeliveryInv, SeededAck, PersistTick, FlushAck, RecvEof, memVars
    <3> QED
      BY <2>1, <3>2, <3>3, <3>4, <3>5, <3>6 DEF DeliveryInv
  <2>5. CASE CoreCrash
    <3>1. /\ UNCHANGED <<toHost, attempt, last_acked_seq>> /\ ack_watermark' = 0
          /\ core' = "down" /\ coreOpen' = coreOpen \ {attempt} /\ attempt \in Conns
          /\ toCore' = [toCore EXCEPT ![attempt] = <<>>]
      BY <2>5, <1>t DEF CoreCrash
    <3>2. toCore'[attempt] = <<>> /\ \A d \in Conns \ {attempt} : toCore'[d] = toCore[d]
      BY <3>1, <1>t DEF TypeOK, WireTypeOK
    <3>3. ClaimsCovered'
      BY <3>1, <2>g DEF DeliveryInv, ClaimsCovered, Covered
    <3>4. WireInOrder'
      <4>1. ASSUME NEW d \in Conns, NEW i \in 1..Len(toCore'[d]),
                   toCore'[d][i].t = "StdoutBytes", NEW s \in 1..toCore'[d][i].seq
            PROVE  Got(s)' \/ Carried(toCore'[d], i, s)
        <5>1. d # attempt
          BY <3>2, <4>1
        <5> QED
          BY <5>1, <4>1, <3>2, <1>t, <2>g DEF WireInOrder
      <4> QED
        BY <4>1 DEF WireInOrder
    <3>5. ASSUME NEW d \in coreOpen' PROVE TaskCovered(d)'
      <4>1. d \in Conns /\ d # attempt /\ TaskCovered(d) /\ conn[d].mark \in Nat
        BY <3>1, <1>t DEF DeliveryInv, TypeOK, WireTypeOK, ConnTasks
      <4> QED
        BY <4>1, <3>2, <1>h, <2>r, <1>t, TaskKept
    <3>6. UnopenedIdle'
      BY <3>1, <1>h DEF DeliveryInv, UnopenedIdle
    <3>7. SeededAck'
      BY <3>1 DEF SeededAck
    <3> QED
      BY <2>1, <3>3, <3>4, <3>5, <3>6, <3>7 DEF DeliveryInv
  <2> QED
    BY <1>2, <2>2, <2>3, <2>4, <2>5
<1> QED
  BY <1>1, <1>2 DEF CoreAction

(* DeliveryInv holds at the start and every step of host or Core keeps it.  *)
LEMMA DeliveryInvariant == Spec => []DeliveryInv
<1>1. Init => DeliveryInv
  <2> SUFFICES ASSUME Init PROVE DeliveryInv
    OBVIOUS
  <2>1. TypeOK
    BY InitTypes
  <2>2. NoSilentLoss
    BY DEF Init, HostInit, NoSilentLoss
  <2>3. ClaimsCovered
    BY DEF Init, WireInit, PumpInit, ClaimsCovered, Covered
  <2>4. WireInOrder /\ coreOpen = {}
    BY DEF Init, WireInit, WireInOrder
  <2>5. UnopenedIdle
    BY DEF Init, WireInit, HostInit, NoConn, UnopenedIdle
  <2>6. SeededAck
    BY DEF Init, PumpInit, SeededAck
  <2> QED
    BY <2>1, <2>2, <2>3, <2>4, <2>5, <2>6 DEF DeliveryInv
<1>2. DeliveryInv /\ [Next]_vars => DeliveryInv'
  <2> SUFFICES ASSUME DeliveryInv, [Next]_vars PROVE DeliveryInv'
    OBVIOUS
  <2>1. TypeOK'
    BY TypesPreserved DEF DeliveryInv
  <2>2. CASE HostAction
    BY <2>1, <2>2, ProcessDelivery, ConnectionDelivery DEF HostAction, HostNext
  <2>3. CASE CoreAction
    BY <2>1, <2>3, CoreDelivery
  <2>4. CASE UNCHANGED vars
    <3>1. UNCHANGED <<toCore, toHost, coreOpen, conn, ring, next_seq, evicted, core, attempt,
                      ack_watermark, last_acked_seq, received>>
      BY <2>4 DEF vars, hostVars, pumpVars, wireVars, memVars, ringVars
    <3> QED
      BY <2>1, <3>1 DEF DeliveryInv, NoSilentLoss, ClaimsCovered, WireInOrder, TaskCovered,
         UnopenedIdle, SeededAck, Settled, OnWire, Batch, Covered, Got
  <2> QED
    BY <2>2, <2>3, <2>4 DEF Next
<1> QED
  BY <1>1, <1>2, PTL DEF Spec

(* No chunk leaves the ring unread unless it was evicted for want of room:   *)
(* prune_through never drops output that no Core has read, for any           *)
(* interleaving of pushes, replays, acks, crashes and reconnections.         *)
THEOREM NoOutputLost == Spec => []NoSilentLoss
<1>1. DeliveryInv => NoSilentLoss
  BY DEF DeliveryInv
<1> QED
  BY <1>1, DeliveryInvariant, PTL

(* The watermark a Core holds and the one in its session row stand for an    *)
(* unbroken prefix of the output, so a replay from it skips nothing.         *)
THEOREM WatermarkSound == Spec => []WatermarkGapFree
<1>1. DeliveryInv => WatermarkGapFree
  <2> SUFFICES ASSUME DeliveryInv, NEW s \in 1..(next_seq - 1),
                      s <= ack_watermark \/ s <= last_acked_seq
               PROVE  s \in received \union evicted
    BY DEF WatermarkGapFree
  <2>1. ack_watermark \in Nat /\ last_acked_seq \in Nat
    BY DEF DeliveryInv, TypeOK, PumpTypeOK
  <2>2. s \in 1..ack_watermark \/ s \in 1..last_acked_seq
    BY <2>1
  <2> QED
    BY <2>2 DEF DeliveryInv, ClaimsCovered, Covered, Got
<1> QED
  BY <1>1, DeliveryInvariant, PTL

(* The session row's last_acked_seq never moves back, across the tickers,    *)
(* the final flush, crashes of the Core and adoptions.                       *)
THEOREM RowNeverRegresses == Spec => AckNeverRegresses
<1>1. DeliveryInv /\ [Next]_vars => [last_acked_seq' >= last_acked_seq]_vars
  <2> SUFFICES ASSUME DeliveryInv, Next PROVE last_acked_seq' >= last_acked_seq
    BY DEF vars
  <2>1. last_acked_seq \in Nat /\ ack_watermark \in Nat
    BY DEF DeliveryInv, TypeOK, PumpTypeOK
  <2>2. CASE PersistTick \/ FlushAck
    BY <2>1, <2>2 DEF PersistTick, FlushAck, DeliveryInv, SeededAck
  <2>3. CASE last_acked_seq' = last_acked_seq
    BY <2>1, <2>3
  <2> QED
    BY <2>2, <2>3 DEF Next, HostAction, CoreAction, pumpVars, Connect, RecvReady, RecvRefusal,
       RecvStdout, AckTick, RecvExited, RecvEof, CoreCrash
<1> QED
  BY <1>1, DeliveryInvariant, PTL DEF Spec, AckNeverRegresses

-----------------------------------------------------------------------------
(* The single-connection slot.                                              *)

(* One connection moves: it keeps what it had of the slot, takes it free, or *)
(* gives it back.                                                           *)
LEMMA SlotMoves ==
  ASSUME SlotOwned, NEW c \in Conns, \A d \in Conns \ {c} : conn'[d] = conn[d],
         \/ HoldsSlot(c)' = HoldsSlot(c) /\ connection_active' = connection_active
         \/ HoldsSlot(c)' /\ ~connection_active /\ connection_active'
         \/ HoldsSlot(c) /\ ~HoldsSlot(c)' /\ ~connection_active'
  PROVE  SlotOwned'
<1>1. \A d \in Conns \ {c} : HoldsSlot(d)' = HoldsSlot(d)
  BY DEF HoldsSlot
<1>2. /\ \A a, b \in Conns : HoldsSlot(a) /\ HoldsSlot(b) => a = b
      /\ connection_active <=> \E d \in Conns : HoldsSlot(d)
  BY DEF SlotOwned
<1>3. /\ \A a, b \in Conns : HoldsSlot(a)' /\ HoldsSlot(b)' => a = b
      /\ connection_active' <=> \E d \in Conns : HoldsSlot(d)'
  <2> DEFINE H(d) == HoldsSlot(d)
             K(d) == HoldsSlot(d)'
  <2>1. /\ \A d \in Conns \ {c} : K(d) = H(d)
        /\ \A a, b \in Conns : H(a) /\ H(b) => a = b
        /\ connection_active <=> \E d \in Conns : H(d)
    BY <1>1, <1>2
  <2>2. \/ K(c) = H(c) /\ connection_active' = connection_active
        \/ K(c) /\ ~connection_active /\ connection_active'
        \/ H(c) /\ ~K(c) /\ ~connection_active'
    OBVIOUS
  <2> HIDE DEF H, K
  <2>3. /\ \A a, b \in Conns : K(a) /\ K(b) => a = b
        /\ connection_active' <=> \E d \in Conns : K(d)
    <3>1. CASE K(c) = H(c) /\ connection_active' = connection_active
      <4>1. \A d \in Conns : K(d) = H(d)
        BY <2>1, <3>1
      <4> QED
        BY <4>1, <2>1, <3>1
    <3>2. CASE K(c) /\ ~connection_active /\ connection_active'
      <4>1. \A d \in Conns \ {c} : ~K(d)
        BY <2>1, <3>2
      <4> QED
        BY <4>1, <3>2
    <3>3. CASE H(c) /\ ~K(c) /\ ~connection_active'
      <4>1. \A d \in Conns : ~K(d)
        BY <2>1, <3>3
      <4> QED
        BY <4>1, <3>3
    <3> QED
      BY <2>2, <3>1, <3>2, <3>3
  <2> QED
    BY <2>3 DEF K
<1> QED
  BY <1>3 DEF SlotOwned

(* A step of a connection's tasks takes or returns the slot once.           *)
LEMMA SlotByConnection ==
  ASSUME TypeOK, SlotOwned, NEW c \in Conns, ConnectionStep(c)
  PROVE  SlotOwned'
<1>t. conn[c] \in ConnTasks /\ conn \in [Conns -> ConnTasks]
  BY DEF TypeOK, HostTypeOK
<1>1. \A d \in Conns \ {c} : conn'[d] = conn[d]
  BY <1>t DEF ConnectionStep, WriterStep, RefuseHello, ClaimSlot, SnapshotReplay,
     ReplayChunk, StartTasks, WriterSnapshot, WriterSend, WriterExit, WriterPark,
     ConnReaderAck, ConnReaderEof, ReleaseSlot
<1>2. CASE RefuseHello(c)
  <2>1. conn[c].pc = "hello" /\ conn'[c].pc = "closed" /\ connection_active' = connection_active
    BY <1>2, <1>t DEF RefuseHello, Closed, NoConn
  <2> QED
    BY <2>1, <1>1, SlotMoves DEF HoldsSlot
<1>3. CASE ClaimSlot(c)
  <2>1. conn[c].pc = "hello" /\ ~connection_active
    BY <1>3 DEF ClaimSlot, SlotFree
  <2>2. CASE c \in coreOpen
    <3>1. conn'[c].pc = "claimed" /\ connection_active'
      BY <1>3, <2>2, <1>t DEF ClaimSlot, ConnTasks
    <3> QED
      BY <3>1, <2>1, <1>1, SlotMoves DEF HoldsSlot
  <2>3. CASE c \notin coreOpen
    <3>1. conn'[c].pc = "closed" /\ connection_active' = connection_active
      BY <1>3, <2>3, <1>t DEF ClaimSlot, Closed, NoConn
    <3> QED
      BY <3>1, <2>1, <1>1, SlotMoves DEF HoldsSlot
  <2> QED
    BY <2>2, <2>3
<1>4. CASE ReplayChunk(c)
  <2>1. conn[c].pc = "replay"
    BY <1>4 DEF ReplayChunk
  <2>2. CASE c \in coreOpen
    <3>1. conn' = [conn EXCEPT ![c].pend = conn[c].pend \ {Min(conn[c].pend)}]
          /\ connection_active' = connection_active
      BY <1>4, <2>2 DEF ReplayChunk
    <3>2. conn'[c].pc = "replay"
      BY <3>1, <2>1, <1>t DEF ConnTasks
    <3> QED
      BY <3>1, <3>2, <2>1, <1>1, SlotMoves DEF HoldsSlot
  <2>3. CASE c \notin coreOpen
    <3>1. conn'[c].pc = "closed" /\ ~connection_active'
      BY <1>4, <2>3, <1>t DEF ReplayChunk, Closed, NoConn
    <3> QED
      BY <3>1, <2>1, <1>1, SlotMoves DEF HoldsSlot
  <2> QED
    BY <2>2, <2>3
<1>5. CASE ReleaseSlot(c)
  <2>1. conn[c].pc = "wdone" /\ conn'[c].pc = "closed" /\ ~connection_active'
    BY <1>5, <1>t DEF ReleaseSlot, Closed, NoConn
  <2> QED
    BY <2>1, <1>1, SlotMoves DEF HoldsSlot
<1>6. CASE SnapshotReplay(c) \/ StartTasks(c) \/ WriterStep(c)
  <2>1. /\ conn[c].pc \in {"claimed", "replay", "snapshot", "write"}
        /\ conn'[c].pc \in {"replay", "snapshot", "write", "parked", "wdone"}
        /\ connection_active' = connection_active
    <3>1. CASE WriterSend(c)
      <4>1. CASE c \in coreOpen
        <5>1. conn' = [conn EXCEPT ![c].pend = conn[c].pend \ {Min(conn[c].pend)},
                                   ![c].mark = Min(conn[c].pend)]
          BY <3>1, <4>1 DEF WriterSend
        <5>2. conn'[c].pc = conn[c].pc
          BY <5>1, <1>t DEF ConnTasks
        <5> QED
          BY <5>2, <3>1 DEF WriterSend
      <4>2. CASE c \notin coreOpen
        BY <3>1, <4>2, <1>t DEF WriterSend, WriterDone, NoConn
      <4> QED
        BY <4>1, <4>2
    <3>2. CASE WriterExit(c)
      BY <3>2, <1>t DEF WriterExit, WriterDone, NoConn
    <3>3. CASE SnapshotReplay(c) \/ StartTasks(c) \/ WriterSnapshot(c) \/ WriterPark(c)
      BY ZenonT(40), <3>3, <1>t DEF SnapshotReplay, StartTasks, WriterSnapshot, WriterPark, ConnTasks
    <3> QED
      BY <1>6, <3>1, <3>2, <3>3 DEF WriterStep
  <2> QED
    BY <2>1, <1>1, SlotMoves DEF HoldsSlot
<1>7. CASE ConnReaderAck(c) \/ ConnReaderEof(c)
  <2>1. conn'[c].pc = conn[c].pc /\ connection_active' = connection_active
    BY <1>7, <1>t DEF ConnReaderAck, ConnReaderEof, ConnTasks
  <2> QED
    BY <2>1, <1>1, SlotMoves DEF HoldsSlot
<1> QED
  BY <1>2, <1>3, <1>4, <1>5, <1>6, <1>7 DEF ConnectionStep

(* What a step of the process does to one connection's task.                *)
LEMMA ProcessMoves ==
  ASSUME TypeOK, SupervisorStep \/ OutputStep \/ MainStep, NEW d \in Conns
  PROVE  \/ conn'[d] = conn[d] /\ connection_active' = connection_active
         \/ /\ conn[d].pc = "parked" /\ conn'[d].pc = "snapshot"
            /\ connection_active' = connection_active
         \/ /\ conn[d].pc = "none" /\ conn'[d].pc = "hello"
            /\ connection_active' = connection_active
         \/ conn' = [c \in Conns |-> Closed] /\ ~connection_active'
<1>t. conn \in [Conns -> ConnTasks]
  BY DEF TypeOK, HostTypeOK
<1>1. CASE NotifyWaiters /\ connection_active' = connection_active
  BY <1>1, <1>t DEF NotifyWaiters, Woken, ConnTasks
<1>2. ASSUME NEW c \in Conns, AcceptConnection(c)
      PROVE  /\ connection_active' = connection_active
             /\ conn'[d] = conn[d] \/ (conn[d].pc = "none" /\ conn'[d].pc = "hello")
  BY <1>2, <1>t DEF AcceptConnection, ConnTasks
<1>3. CASE HostExit \/ HostKilled
  BY <1>3 DEF HostExit, HostKilled, ProcessEnds
<1> QED
  BY <1>1, <1>2, <1>3 DEF SupervisorStep, OutputStep, MainStep, SpawnChild, SpawnFails,
     ReportSpawnFailure, FlagSpawnFailure, SetChildExited, ReaderForward, RecordPush, RecordNotify,
     CheckChildExit, ParkWaiter, GraceEndsDelivered, GraceTimeout, WriteFinalInfo

(* The process wakes tasks, accepts connections and ends all of them; it     *)
(* hands the slot to none.                                                  *)
LEMMA SlotByProcess ==
  ASSUME TypeOK, SlotOwned, SupervisorStep \/ OutputStep \/ MainStep
  PROVE  SlotOwned'
<1>1. CASE conn' = [c \in Conns |-> Closed] /\ ~connection_active'
  <2>1. \A d \in Conns : conn'[d].pc = "closed"
    BY <1>1 DEF Closed, NoConn
  <2> QED
    BY <1>1, <2>1 DEF SlotOwned, HoldsSlot
<1>2. CASE ~(conn' = [c \in Conns |-> Closed] /\ ~connection_active')
  <2>1. ASSUME NEW d \in Conns
        PROVE  HoldsSlot(d)' = HoldsSlot(d) /\ connection_active' = connection_active
    <3>1. \/ conn'[d] = conn[d]
          \/ conn[d].pc = "parked" /\ conn'[d].pc = "snapshot"
          \/ conn[d].pc = "none" /\ conn'[d].pc = "hello"
      BY <1>2, ProcessMoves
    <3>2. connection_active' = connection_active
      BY <1>2, ProcessMoves
    <3> QED
      BY <3>1, <3>2 DEF HoldsSlot
  <2>2. CASE Conns = {}
    <3>1. SlotOwned' = ~connection_active'
      BY <2>2 DEF SlotOwned
    <3>2. SlotOwned = ~connection_active
      BY <2>2 DEF SlotOwned
    <3>3. connection_active' \in {connection_active, FALSE}
      BY DEF SupervisorStep, OutputStep, MainStep, SpawnChild, SpawnFails, ReportSpawnFailure,
         FlagSpawnFailure, SetChildExited, ReaderForward, RecordPush, RecordNotify,
         CheckChildExit, ParkWaiter, AcceptConnection, GraceEndsDelivered, GraceTimeout,
         WriteFinalInfo, HostExit, HostKilled, ProcessEnds
    <3> QED
      BY <3>1, <3>2, <3>3
  <2>3. CASE Conns # {}
    BY <2>1, <2>3 DEF SlotOwned
  <2> QED
    BY <2>2, <2>3
<1> QED
  BY <1>1, <1>2

-----------------------------------------------------------------------------
(* The exit: the flag, the disk and the output that precedes it.            *)

(* A connection's tasks touch neither the exit flag nor the disk.           *)
LEMMA ExitLeftAlone ==
  ASSUME NEW c \in Conns, ConnectionStep(c)
  PROVE  UNCHANGED <<proc, sup, accept, child_exited, at_exit, final_info, socket,
                     next_seq, evicted, coreOpen>>
  BY DEF wireVars, ConnectionStep, WriterStep, RefuseHello, ClaimSlot, SnapshotReplay,
     ReplayChunk, StartTasks, WriterSnapshot, WriterSend, WriterExit, WriterPark,
     ConnReaderAck, ConnReaderEof, ReleaseSlot, PruneThrough, taskFrame, ringVars, exitVars,
     diskVars

(* The supervisor's return, the grace window and the exit record keep their *)
(* order.                                                                   *)
LEMMA ExitSeenKept ==
  ASSUME TypeOK, ExitSeen, HostNext
  PROVE  ExitSeen'
<1>1. ASSUME NEW c \in Conns, ConnectionStep(c) PROVE ExitSeen'
  BY <1>1, ExitLeftAlone DEF ExitSeen
<1>2. CASE SupervisorStep
  BY <1>2 DEF SupervisorStep, SpawnChild, SpawnFails, ReportSpawnFailure, FlagSpawnFailure,
     SetChildExited, ExitSeen, TypeOK, HostTypeOK, exitVars, diskVars
<1>3. CASE OutputStep
  BY <1>3 DEF OutputStep, ReaderForward, RecordPush, RecordNotify, ExitSeen, exitVars, diskVars
<1>4. CASE MainStep
  <2>1. CASE HostExit \/ HostKilled
    BY <1>4, <2>1 DEF HostExit, HostKilled, ProcessEnds, ExitSeen, exitVars
  <2>2. CASE CheckChildExit \/ ParkWaiter \/ GraceEndsDelivered \/ GraceTimeout \/ WriteFinalInfo
    BY <2>2 DEF CheckChildExit, ParkWaiter, GraceEndsDelivered, GraceTimeout, WriteFinalInfo,
       ExitSeen, exitVars, diskVars, TypeOK, HostTypeOK
  <2>3. ASSUME NEW c \in Conns, AcceptConnection(c) PROVE ExitSeen'
    BY <2>3 DEF AcceptConnection, ExitSeen, exitVars, diskVars
  <2> QED
    BY <1>4, <2>1, <2>2, <2>3 DEF MainStep
<1> QED
  BY <1>1, <1>2, <1>3, <1>4 DEF HostNext

(* The connections' part of ExitBehindOutput, one connection at a time.     *)
WriterBehind(c) ==
  conn[c].pc = "write" /\ conn[c].exited =>
    child_exited /\ \A s \in 1..at_exit : Settled(c, s)

ExitFrameBehind(c) ==
  \A i \in 1..Len(toCore[c]) : toCore[c][i].t = "AgentExited" =>
    child_exited /\ \A s \in 1..at_exit : Got(s) \/ Carried(toCore[c], i, s)

(* ExitBehindOutput, by connection.                                         *)
LEMMA BehindParts ==
  ExitBehindOutput <=>
    /\ \A c \in coreOpen : WriterBehind(c)
    /\ \A c \in Conns : ExitFrameBehind(c)
    /\ heard => child_exited /\ Covered(at_exit)
  BY DEF ExitBehindOutput, WriterBehind, ExitFrameBehind

(* A writer and a channel left alone stay behind the output.                *)
LEMMA BehindKept ==
  ASSUME NEW c \in Conns, conn'[c] = conn[c], toCore'[c] = toCore[c],
         child_exited' = child_exited, at_exit' = at_exit,
         received \subseteq received', evicted \subseteq evicted'
  PROVE  /\ WriterBehind(c) => WriterBehind(c)'
         /\ ExitFrameBehind(c) => ExitFrameBehind(c)'
<1>1. \A s : (Got(s) => Got(s)') /\ (Settled(c, s) => Settled(c, s)')
  BY DEF Got, Settled, OnWire, Batch
<1> QED
  BY <1>1 DEF WriterBehind, ExitFrameBehind

(* A frame the host appends leaves the channel behind the output, when it is *)
(* no AgentExited or everything before the exit is out.                     *)
LEMMA ExitFrameAppended ==
  ASSUME TypeOK, NEW c \in Conns, ExitFrameBehind(c), NEW f \in HostFrames, Send(c, f),
         child_exited' = child_exited, at_exit' = at_exit,
         received' = received, evicted' = evicted,
         f.t = "AgentExited" =>
           child_exited /\ \A s \in 1..at_exit : Got(s) \/ OnWire(c, s)
  PROVE  ExitFrameBehind(c)'
<1> DEFINE q == toCore[c]
<1>1. toCore'[c] = Append(q, f) /\ q \in Seq(HostFrames)
  BY SendTypes DEF TypeOK, WireTypeOK
<1>2. \A s : Got(s) => Got(s)'
  BY DEF Got
<1>3. /\ Len(q) \in Nat /\ Len(Append(q, f)) = Len(q) + 1
      /\ \A k \in 1..Len(q) : Append(q, f)[k] = q[k]
      /\ Append(q, f)[Len(q) + 1] = f
  BY <1>1, AppendProperties, LenProperties
<1> SUFFICES ASSUME NEW i \in 1..(Len(q) + 1), Append(q, f)[i].t = "AgentExited"
             PROVE  child_exited /\ \A s \in 1..at_exit : Got(s)' \/ Carried(Append(q, f), i, s)
  BY <1>1, <1>3 DEF ExitFrameBehind
<1>4. CASE i \in 1..Len(q)
  <2>1. child_exited /\ \A s \in 1..at_exit : Got(s) \/ Carried(q, i, s)
    BY <1>3, <1>4 DEF ExitFrameBehind
  <2>2. \A s : Carried(q, i, s) => Carried(Append(q, f), i, s)
    BY <1>1, <1>3, <1>4, CarriedAppend
  <2> QED
    BY <2>1, <2>2, <1>2
<1>5. CASE i = Len(q) + 1
  <2>1. child_exited /\ \A s \in 1..at_exit : Got(s) \/ Carried(q, Len(q), s)
    BY <1>3, <1>5 DEF OnWire
  <2>2. \A s : Carried(q, Len(q), s) => Carried(Append(q, f), i, s)
    BY <1>1, <1>5, CarriedAppend
  <2> QED
    BY <2>1, <2>2, <1>2
<1> QED
  BY <1>3, <1>4, <1>5

(* A step of a connection's tasks: the writer takes its chunks and the flag *)
(* in one look, and AgentExited follows the last of those chunks.           *)
LEMMA BehindByConnection ==
  ASSUME DeliveryInv, NEW c \in Conns, ConnectionStep(c), UNCHANGED pumpVars,
         c \in coreOpen => WriterBehind(c), ExitFrameBehind(c)
  PROVE  (c \in coreOpen => WriterBehind(c)') /\ ExitFrameBehind(c)'
<1>t. /\ TypeOK /\ NoSilentLoss /\ conn[c] \in ConnTasks /\ conn \in [Conns -> ConnTasks]
      /\ (c \in coreOpen => TaskCovered(c))
      /\ ring \in SUBSET (1..(next_seq - 1)) /\ next_seq \in Nat \ {0}
      /\ at_exit \in 0..(next_seq - 1)
  BY MaxChunksAssumption DEF DeliveryInv, TypeOK, HostTypeOK
<1>u. /\ UNCHANGED <<child_exited, at_exit, next_seq, evicted, coreOpen>>
      /\ received' = received
  BY ExitLeftAlone DEF pumpVars
<1>g. \A s : Got(s) => Got(s)'
  BY <1>u DEF Got
<1>0. ASSUME toCore' = toCore PROVE ExitFrameBehind(c)'
  BY <1>0, <1>g, <1>u DEF ExitFrameBehind
<1>1. CASE RefuseHello(c) \/ ClaimSlot(c)
  <2>1. conn'[c].pc \in {"claimed", "closed"}
    BY ZenonT(40), <1>1, <1>t DEF RefuseHello, ClaimSlot, Closed, NoConn, ConnTasks
  <2>2. CASE c \in coreOpen
    <3>1. LastSeq(ring) \in Nat
      <4>1. LastSeq(ring) \in 0..(next_seq - 1)
        BY <1>t, LastSeqBound
      <4> QED
        BY <4>1
    <3>2. PICK kind \in {"CookieMismatch", "AlreadyConnected", "Ready"}, n \in Nat :
            Send(c, Frame(kind, n))
      BY <1>1, <2>2, <3>1 DEF RefuseHello, ClaimSlot
    <3>3. Frame(kind, n) \in HostFrames /\ Frame(kind, n).t # "AgentExited"
      BY DEF Frame, HostFrames
    <3>4. ExitFrameBehind(c)'
      BY <3>2, <3>3, <1>t, <1>u, ExitFrameAppended
    <3> QED
      BY <3>4, <2>1 DEF WriterBehind
  <2>3. CASE c \notin coreOpen
    BY <1>1, <2>3, <1>0 DEF RefuseHello, ClaimSlot
  <2> QED
    BY <2>2, <2>3
<1>2. CASE ReplayChunk(c) \/ WriterSend(c)
  <2>1. CASE c \in coreOpen
    <3> DEFINE m == Min(conn[c].pend)
    <3>1. /\ conn[c].pend \in SUBSET (1..MaxChunks) /\ conn[c].pend # {}
          /\ conn[c].pc \in {"replay", "write"}
      BY <1>2, <1>t DEF ReplayChunk, WriterSend, ConnTasks
    <3>2. m \in conn[c].pend /\ m \in Nat
      <4>1. m \in conn[c].pend
        BY <3>1, MinIs, MaxChunksAssumption
      <4> QED
        BY <4>1, <3>1
    <3>3. Send(c, Frame("StdoutBytes", m))
      BY <1>2, <2>1 DEF ReplayChunk, WriterSend
    <3>4. Frame("StdoutBytes", m) \in HostFrames /\ Frame("StdoutBytes", m).t = "StdoutBytes"
          /\ Frame("StdoutBytes", m).seq = m
      BY <3>2 DEF Frame, HostFrames
    <3>5. ExitFrameBehind(c)'
      BY <3>3, <3>4, <1>t, <1>u, ExitFrameAppended
    <3>6. \/ conn' = [conn EXCEPT ![c].pend = conn[c].pend \ {m}]
          \/ conn' = [conn EXCEPT ![c].pend = conn[c].pend \ {m}, ![c].mark = m]
      BY <1>2, <2>1 DEF ReplayChunk, WriterSend
    <3>7. /\ conn'[c].pc = conn[c].pc /\ conn'[c].exited = conn[c].exited
          /\ conn'[c].pend = conn[c].pend \ {m}
      BY <3>6, <1>t DEF ConnTasks
    <3>8. toCore'[c] = Append(toCore[c], Frame("StdoutBytes", m))
          /\ toCore[c] \in Seq(HostFrames)
      BY <3>3, <3>4, <1>t, SendTypes DEF TypeOK, WireTypeOK
    <3> HIDE DEF m
    <3>9. ASSUME NEW s, Settled(c, s) PROVE Settled(c, s)'
      <4>1. Got(s) \/ Carried(toCore[c], Len(toCore[c]), s) \/ s \in conn[c].pend
        BY <3>9, <3>1 DEF Settled, OnWire, Batch
      <4>2. /\ Len(toCore'[c]) = Len(toCore[c]) + 1
            /\ Carried(toCore[c], Len(toCore[c]), s) => Carried(toCore'[c], Len(toCore[c]) + 1, s)
            /\ s = m => Carried(toCore'[c], Len(toCore[c]) + 1, s)
        BY <3>4, <3>8, CarriedAppend
      <4>3. s \in conn[c].pend /\ s # m => s \in Batch(c)'
        BY <3>1, <3>7 DEF Batch
      <4> QED
        BY <4>1, <4>2, <4>3, <1>g DEF Settled, OnWire
    <3>10. WriterBehind(c)'
      BY <3>7, <3>9, <1>u, <2>1 DEF WriterBehind
    <3> QED
      BY <3>5, <3>10
  <2>2. CASE c \notin coreOpen
    BY <1>2, <2>2, <1>0 DEF ReplayChunk, WriterSend
  <2> QED
    BY <2>1, <2>2
<1>3. CASE WriterSnapshot(c)
  <2>1. /\ conn[c].pc = "snapshot" /\ conn'[c].pc = "write" /\ toCore' = toCore
        /\ conn'[c].exited = child_exited
        /\ conn'[c].pend = {s \in ring : s > conn[c].mark}
    BY <1>3, <1>t DEF WriterSnapshot, ConnTasks, ReplayPast, wireVars
  <2>2. ASSUME c \in coreOpen, NEW s \in 1..(next_seq - 1) PROVE Settled(c, s)'
    <3>1. Got(s) \/ s \in ring
      BY <1>t DEF NoSilentLoss, Got
    <3>2. s \in 1..conn[c].mark \/ s > conn[c].mark
      BY <1>t DEF ConnTasks
    <3>3. s \in 1..conn[c].mark => Got(s) \/ OnWire(c, s)
      BY <2>1, <2>2, <1>t DEF TaskCovered, Settled, Batch
    <3>4. s \in ring /\ s > conn[c].mark => s \in Batch(c)'
      BY <2>1 DEF Batch
    <3>5. OnWire(c, s) => OnWire(c, s)'
      BY <2>1 DEF OnWire
    <3> QED
      BY <3>1, <3>2, <3>3, <3>4, <3>5, <1>g DEF Settled
  <2>3. \A s \in 1..at_exit : s \in 1..(next_seq - 1)
    BY <1>t
  <2>4. c \in coreOpen => WriterBehind(c)'
    BY <2>1, <2>2, <2>3, <1>u DEF WriterBehind
  <2> QED
    BY <2>1, <2>4, <1>0
<1>4. CASE WriterExit(c)
  <2>1. conn'[c].pc = "wdone"
    BY <1>4, <1>t DEF WriterExit, WriterDone, NoConn
  <2>2. CASE c \in coreOpen
    <3>1. /\ Send(c, Frame("AgentExited", 0)) /\ conn[c].pc = "write" /\ conn[c].pend = {}
          /\ conn[c].exited
      BY <1>4, <2>2 DEF WriterExit
    <3>2. child_exited /\ \A s \in 1..at_exit : Got(s) \/ OnWire(c, s)
      BY <3>1, <2>2 DEF WriterBehind, Settled, Batch
    <3>3. Frame("AgentExited", 0) \in HostFrames
      BY DEF Frame, HostFrames
    <3>4. ExitFrameBehind(c)'
      BY <3>1, <3>2, <3>3, <1>t, <1>u, ExitFrameAppended
    <3> QED
      BY <3>4, <2>1 DEF WriterBehind
  <2>3. CASE c \notin coreOpen
    BY <1>4, <2>3, <1>0 DEF WriterExit
  <2> QED
    BY <2>2, <2>3
<1>5. CASE SnapshotReplay(c) \/ StartTasks(c) \/ WriterPark(c) \/ ReleaseSlot(c)
  <2>1. toCore' = toCore
    BY <1>5 DEF SnapshotReplay, StartTasks, WriterPark, ReleaseSlot, wireVars
  <2>2. CASE SnapshotReplay(c) \/ StartTasks(c)
    <3>1. conn'[c].pc \in {"replay", "snapshot"}
      BY ZenonT(40), <2>2, <1>t DEF SnapshotReplay, StartTasks, ConnTasks
    <3> QED
      BY <2>1, <3>1, <1>0 DEF WriterBehind
  <2>3. CASE WriterPark(c) \/ ReleaseSlot(c)
    <3>1. conn'[c].pc \in {"parked", "closed"}
      BY <2>3, <1>t DEF WriterPark, ReleaseSlot, Closed, NoConn, ConnTasks
    <3> QED
      BY <2>1, <3>1, <1>0 DEF WriterBehind
  <2> QED
    BY <1>5, <2>2, <2>3
<1>6. CASE ConnReaderAck(c) \/ ConnReaderEof(c)
  <2>1. /\ conn'[c].pc = conn[c].pc /\ conn'[c].exited = conn[c].exited
        /\ conn'[c].pend = conn[c].pend /\ toCore' = toCore
    BY <1>6, <1>t DEF ConnReaderAck, ConnReaderEof, ConnTasks, wireVars
  <2>2. \A s : Settled(c, s) => Settled(c, s)'
    BY <2>1, <1>g DEF Settled, OnWire, Batch
  <2> QED
    BY <2>1, <2>2, <1>0, <1>u DEF WriterBehind
<1> QED
  BY <1>1, <1>2, <1>3, <1>4, <1>5, <1>6 DEF ConnectionStep, WriterStep

(* Steps of the supervisor, of the record task and of main: the flag goes up *)
(* once, when no writer, channel or Core can have seen it yet.              *)
LEMMA BehindByProcess ==
  ASSUME DeliveryInv, ExitSeen, ExitBehindOutput, SupervisorStep \/ OutputStep \/ MainStep,
         UNCHANGED pumpVars
  PROVE  ExitBehindOutput'
<1>t. /\ TypeOK /\ conn \in [Conns -> ConnTasks] /\ next_seq \in Nat \ {0}
      /\ coreOpen \subseteq Conns
  BY MaxChunksAssumption DEF DeliveryInv, TypeOK, HostTypeOK, WireTypeOK
<1>u. UNCHANGED <<toCore, coreOpen, received, heard>>
  BY DEF SupervisorStep, OutputStep, MainStep, wireVars, pumpVars
<1>e. evicted \subseteq evicted'
  BY DEF SupervisorStep, OutputStep, MainStep, SpawnChild, SpawnFails, ReportSpawnFailure,
     FlagSpawnFailure, SetChildExited, ReaderForward, RecordPush, RecordNotify, Push,
     CheckChildExit, ParkWaiter, AcceptConnection, GraceEndsDelivered, GraceTimeout,
     WriteFinalInfo, HostExit, HostKilled, ProcessEnds, ringVars
<1>m. ASSUME NEW d \in Conns
      PROVE  conn'[d] = conn[d] \/ conn'[d].pc \in {"snapshot", "hello", "closed"}
  BY <1>t, ProcessMoves DEF Closed, NoConn
<1>1. CASE child_exited' = child_exited /\ at_exit' = at_exit
  <2>1. \A s : Got(s) => Got(s)'
    BY <1>u, <1>e DEF Got
  <2>2. ASSUME NEW d \in coreOpen PROVE WriterBehind(d)'
    <3>1. d \in Conns /\ WriterBehind(d)
      BY <1>t, BehindParts
    <3>2. CASE conn'[d] = conn[d]
      BY <3>1, <3>2, <1>1, <1>u, <1>e, BehindKept
    <3>3. CASE conn'[d].pc \in {"snapshot", "hello", "closed"}
      BY <3>3 DEF WriterBehind
    <3> QED
      BY <3>1, <3>2, <3>3, <1>m
  <2>3. ASSUME NEW d \in Conns PROVE ExitFrameBehind(d)'
    BY <2>1, <1>1, <1>u, BehindParts DEF ExitFrameBehind
  <2>4. heard' => child_exited' /\ Covered(at_exit)'
    BY <2>1, <1>1, <1>u, BehindParts DEF Covered
  <2> QED
    BY <2>2, <2>3, <2>4, <1>u DEF ExitBehindOutput, WriterBehind, ExitFrameBehind
<1>2. CASE SetChildExited \/ FlagSpawnFailure
  <2>1. ~child_exited
    BY <1>2 DEF SetChildExited, FlagSpawnFailure, ExitSeen
  <2>2. /\ \A d \in coreOpen : ~(conn[d].pc = "write" /\ conn[d].exited)
        /\ \A d \in Conns : \A i \in 1..Len(toCore[d]) : toCore[d][i].t # "AgentExited"
        /\ ~heard
    BY <2>1 DEF ExitBehindOutput
  <2>3. ASSUME NEW d \in coreOpen' PROVE ~(conn'[d].pc = "write" /\ conn'[d].exited)
    BY <2>2, <1>t, <1>u, <1>m
  <2> QED
    BY <2>2, <2>3, <1>u DEF ExitBehindOutput
<1> QED
  BY <1>1, <1>2 DEF SupervisorStep, OutputStep, MainStep, SpawnChild, SpawnFails,
     ReportSpawnFailure, ReaderForward, RecordPush, RecordNotify, CheckChildExit, ParkWaiter,
     AcceptConnection, GraceEndsDelivered, GraceTimeout, WriteFinalInfo, HostExit, HostKilled,
     ProcessEnds, exitVars

(* A frame taken off leaves the channel behind the output: what was carried  *)
(* before the exit is carried still, or has just been read.                 *)
LEMMA ExitFrameTaken ==
  ASSUME TypeOK, attempt \in Conns, toCore[attempt] # <<>>, TakeFrame,
         ExitFrameBehind(attempt), received \subseteq received', evicted' = evicted,
         child_exited' = child_exited, at_exit' = at_exit, UNCHANGED attempt,
         Head(toCore[attempt]).t = "StdoutBytes" => Head(toCore[attempt]).seq \in received'
  PROVE  ExitFrameBehind(attempt)'
<1> DEFINE q == toCore[attempt]
<1>1. q \in Seq(HostFrames) /\ q # <<>>
  BY DEF TypeOK, WireTypeOK
<1>2. toCore'[attempt] = Tail(q)
  BY TakeFrameTypes
<1>3. \A s : Got(s) => Got(s)'
  BY DEF Got
<1>4. /\ Len(q) \in Nat \ {0} /\ Len(Tail(q)) = Len(q) - 1
      /\ \A i \in 1..Len(Tail(q)) : Tail(q)[i] = q[i + 1]
  BY <1>1, HeadTailProperties, EmptySeq
<1> SUFFICES ASSUME NEW i \in 1..Len(Tail(q)), Tail(q)[i].t = "AgentExited"
             PROVE  child_exited /\ \A s \in 1..at_exit : Got(s)' \/ Carried(Tail(q), i, s)
  BY <1>2 DEF ExitFrameBehind
<1>5. i + 1 \in 1..Len(q) /\ q[i + 1].t = "AgentExited" /\ (i + 1) - 1 = i
  BY <1>4
<1>6. child_exited /\ \A s \in 1..at_exit : Got(s) \/ Carried(q, i + 1, s)
  BY <1>5 DEF ExitFrameBehind
<1>7. ASSUME NEW s, Carried(q, i + 1, s) PROVE Got(s)' \/ Carried(Tail(q), i, s)
  <2>1. Carried(Tail(q), (i + 1) - 1, s) \/ (Head(q).t = "StdoutBytes" /\ Head(q).seq = s)
    BY <1>1, <1>5, <1>7, CarriedTail
  <2> QED
    BY <2>1, <1>5 DEF Got
<1> QED
  BY <1>3, <1>6, <1>7

(* Steps of the Core: it reads AgentExited after all that was carried before *)
(* it, and a crash takes its channel with it.                               *)
LEMMA BehindByCore ==
  ASSUME DeliveryInv, ExitBehindOutput, CoreAction
  PROVE  ExitBehindOutput'
<1>t. /\ TypeOK /\ conn \in [Conns -> ConnTasks] /\ toCore \in [Conns -> Seq(HostFrames)]
      /\ coreOpen \subseteq Conns /\ (core # "down" => attempt \in Conns)
  BY MaxConnsAssumption DEF DeliveryInv, TypeOK, HostTypeOK, PumpTypeOK, WireTypeOK, Conns
<1>u. UNCHANGED <<conn, ring, evicted, next_seq, child_exited, at_exit>>
  BY DEF CoreAction, hostVars, ringVars, exitVars
<1>b. /\ \A d \in coreOpen : WriterBehind(d)
      /\ \A d \in Conns : ExitFrameBehind(d)
      /\ heard => child_exited /\ Covered(at_exit)
  BY BehindParts
<1>1. CASE RecvReady \/ RecvRefusal \/ RecvStdout \/ RecvExited
  <2>1. /\ attempt \in Conns /\ toCore[attempt] # <<>> /\ TakeFrame /\ UNCHANGED attempt
        /\ received \subseteq received' /\ coreOpen' \subseteq coreOpen
    BY <1>1, <1>t DEF RecvReady, RecvRefusal, RecvStdout, RecvExited, Incoming
  <2>2. Head(toCore[attempt]).t = "StdoutBytes" => Head(toCore[attempt]).seq \in received'
    BY <1>1 DEF RecvReady, RecvRefusal, RecvStdout, RecvExited, Incoming
  <2>3. \A d \in Conns \ {attempt} : toCore'[d] = toCore[d]
    BY <2>1, <1>t, TakeFrameTypes
  <2>4. ASSUME NEW d \in Conns PROVE ExitFrameBehind(d)'
    <3>1. CASE d = attempt
      BY <3>1, <2>1, <2>2, <1>t, <1>u, <1>b, ExitFrameTaken
    <3>2. CASE d # attempt
      BY <3>2, <2>1, <2>3, <1>u, <1>b, BehindKept
    <3> QED
      BY <3>1, <3>2
  <2>5. \A s : OnWire(attempt, s) =>
          Got(s)' \/ Carried(toCore'[attempt], Len(toCore'[attempt]), s)
    BY <2>1, <2>2, <1>t, <1>u, WireTaken DEF DeliveryInv
  <2>6. \A s : Got(s) => Got(s)'
    BY <2>1, <1>u DEF Got
  <2>7. ASSUME NEW d \in coreOpen' PROVE WriterBehind(d)'
    <3>1. d \in Conns /\ WriterBehind(d)
      BY <2>1, <1>t, <1>b
    <3>2. CASE d # attempt
      BY <3>1, <3>2, <2>1, <2>3, <1>u, BehindKept
    <3>3. CASE d = attempt
      <4>1. \A s : Settled(d, s) => Settled(d, s)'
        BY <3>3, <2>1, <2>5, <2>6, <1>u DEF Settled, OnWire, Batch
      <4> QED
        BY <3>1, <4>1, <1>u DEF WriterBehind
    <3> QED
      BY <3>2, <3>3
  <2>8. heard' => child_exited' /\ Covered(at_exit)'
    <3>1. CASE RecvExited
      <4> DEFINE q == toCore[attempt]
      <4>1. q \in Seq(HostFrames) /\ q # <<>> /\ Head(q).t = "AgentExited"
        BY <3>1, <2>1, <1>t DEF RecvExited, Incoming
      <4>2. 1 \in 1..Len(q) /\ Head(q) = q[1]
        BY <4>1, EmptySeq, LenProperties
      <4>3. child_exited /\ \A s \in 1..at_exit : Got(s) \/ Carried(q, 1, s)
        BY <4>1, <4>2, <2>1, <1>b DEF ExitFrameBehind
      <4>4. \A s : ~Carried(q, 1, s)
        BY <4>1, <4>2 DEF Carried
      <4> QED
        BY <4>3, <4>4, <2>6, <1>u DEF Covered
    <3>2. CASE RecvReady \/ RecvRefusal \/ RecvStdout
      <4>1. heard' = heard
        BY <3>2 DEF RecvReady, RecvRefusal, RecvStdout
      <4> QED
        BY <4>1, <2>6, <1>u, <1>b DEF Covered
    <3> QED
      BY <1>1, <3>1, <3>2
  <2> QED
    BY <2>4, <2>7, <2>8 DEF ExitBehindOutput, WriterBehind, ExitFrameBehind
<1>2. CASE Connect \/ AckTick \/ PersistTick \/ FlushAck \/ RecvEof \/ CoreCrash
  <2>1. received' = received /\ heard' = heard
    BY <1>2 DEF Connect, AckTick, PersistTick, FlushAck, RecvEof, CoreCrash
  <2>2. \A d \in Conns : toCore'[d] = toCore[d] \/ (d \notin coreOpen' /\ toCore'[d] = <<>>)
    BY <1>2, <1>t DEF Connect, AckTick, PersistTick, FlushAck, RecvEof, CoreCrash, wireVars
  <2>3. ASSUME NEW d \in coreOpen'
        PROVE  d \in Conns /\ (d \in coreOpen \/ conn[d].pc \in {"none", "closed"})
    <3>1. CASE Connect
      <4>1. d \in coreOpen \/ d = attempt + 1
        BY <2>3, <3>1 DEF Connect
      <4>2. attempt + 1 \in Conns /\ attempt + 1 > attempt
        BY <3>1, <1>t, MaxConnsAssumption DEF Connect, Conns, TypeOK, PumpTypeOK
      <4>3. conn[attempt + 1].pc \in {"none", "closed"}
        BY <4>2 DEF DeliveryInv, UnopenedIdle
      <4> QED
        BY <4>1, <4>2, <4>3, <1>t
    <3>2. CASE ~Connect
      BY <2>3, <3>2, <1>2, <1>t DEF AckTick, PersistTick, FlushAck, RecvEof, CoreCrash, wireVars
    <3> QED
      BY <3>1, <3>2
  <2>4. ASSUME NEW d \in coreOpen' PROVE WriterBehind(d)'
    <3>1. d \in Conns /\ toCore'[d] = toCore[d]
      BY <2>2, <2>3
    <3>2. CASE d \in coreOpen
      BY <3>1, <3>2, <2>1, <1>u, <1>b, BehindKept
    <3>3. CASE conn[d].pc \in {"none", "closed"}
      BY <3>3, <1>u DEF WriterBehind
    <3> QED
      BY <3>2, <3>3, <2>3
  <2>5. ASSUME NEW d \in Conns PROVE ExitFrameBehind(d)'
    <3>1. CASE toCore'[d] = toCore[d]
      BY <3>1, <2>1, <1>u, <1>b, BehindKept
    <3>2. CASE toCore'[d] = <<>>
      BY <3>2 DEF ExitFrameBehind
    <3> QED
      BY <3>1, <3>2, <2>2
  <2>6. heard' => child_exited' /\ Covered(at_exit)'
    BY <2>1, <1>u, <1>b DEF Covered, Got
  <2> QED
    BY <2>4, <2>5, <2>6 DEF ExitBehindOutput, WriterBehind, ExitFrameBehind
<1> QED
  BY <1>1, <1>2 DEF CoreAction

(* HandoverInv holds at the start and every step of host or Core keeps it.  *)
LEMMA HandoverInvariant == Spec => []HandoverInv
<1>1. Init => SlotOwned /\ ExitSeen /\ ExitBehindOutput
  <2> SUFFICES ASSUME Init PROVE SlotOwned /\ ExitSeen /\ ExitBehindOutput
    OBVIOUS
  <2>1. SlotOwned
    BY DEF Init, HostInit, NoConn, SlotOwned, HoldsSlot
  <2>2. ExitSeen
    BY DEF Init, HostInit, ExitSeen
  <2>3. ExitBehindOutput
    BY DEF Init, WireInit, PumpInit, ExitBehindOutput
  <2> QED
    BY <2>1, <2>2, <2>3
<1>2. DeliveryInv /\ SlotOwned /\ ExitSeen /\ ExitBehindOutput /\ [Next]_vars
        => SlotOwned' /\ ExitSeen' /\ ExitBehindOutput'
  <2> SUFFICES ASSUME DeliveryInv, SlotOwned, ExitSeen, ExitBehindOutput, [Next]_vars
               PROVE  SlotOwned' /\ ExitSeen' /\ ExitBehindOutput'
    OBVIOUS
  <2>t. TypeOK /\ coreOpen \subseteq Conns
    BY DEF DeliveryInv, TypeOK, WireTypeOK
  <2>1. CASE HostAction /\ (SupervisorStep \/ OutputStep \/ MainStep)
    BY <2>1, <2>t, SlotByProcess, ExitSeenKept, BehindByProcess DEF HostAction, HostNext
  <2>2. ASSUME HostAction, NEW c \in Conns, ConnectionStep(c)
        PROVE  SlotOwned' /\ ExitSeen' /\ ExitBehindOutput'
    <3>1. UNCHANGED <<child_exited, at_exit, evicted, coreOpen, received, heard>>
      BY <2>2, ExitLeftAlone DEF HostAction, pumpVars
    <3>2. \A d \in Conns \ {c} : conn'[d] = conn[d] /\ toCore'[d] = toCore[d]
      BY <2>2, <2>t DEF TypeOK, HostTypeOK, WireTypeOK, wireVars, ConnectionStep, WriterStep,
         RefuseHello, ClaimSlot, SnapshotReplay, ReplayChunk, StartTasks, WriterSnapshot,
         WriterSend, WriterExit, WriterPark, ConnReaderAck, ConnReaderEof, ReleaseSlot, Send
    <3>3. (c \in coreOpen => WriterBehind(c)') /\ ExitFrameBehind(c)'
      BY <2>2, BehindByConnection, BehindParts DEF HostAction
    <3>4. ASSUME NEW d \in Conns \ {c}
          PROVE  (d \in coreOpen => WriterBehind(d)') /\ ExitFrameBehind(d)'
      BY <3>1, <3>2, BehindKept, BehindParts
    <3>5. heard' => child_exited' /\ Covered(at_exit)'
      BY <3>1, BehindParts DEF Covered, Got
    <3>6. ExitBehindOutput'
      BY <3>1, <3>3, <3>4, <3>5, <2>t DEF ExitBehindOutput, WriterBehind, ExitFrameBehind
    <3>7. SlotOwned' /\ ExitSeen'
      BY <2>2, <2>t, SlotByConnection, ExitSeenKept DEF HostAction
    <3> QED
      BY <3>6, <3>7
  <2>3. CASE CoreAction
    <3>1. UNCHANGED <<conn, connection_active, proc, sup, accept, child_exited, final_info, socket>>
      BY <2>3 DEF CoreAction, hostVars, exitVars, diskVars
    <3>2. SlotOwned' /\ ExitSeen'
      BY <3>1 DEF SlotOwned, HoldsSlot, ExitSeen
    <3> QED
      BY <2>3, <3>2, BehindByCore
  <2>4. CASE UNCHANGED vars
    BY <2>4 DEF vars, hostVars, pumpVars, wireVars, exitVars, diskVars, ringVars, SlotOwned,
       HoldsSlot, ExitSeen, ExitBehindOutput, Settled, OnWire, Batch, Covered, Got
  <2> QED
    BY <2>1, <2>2, <2>3, <2>4 DEF Next, HostAction, HostNext
<1>3. HandoverInv <=> DeliveryInv /\ SlotOwned /\ ExitSeen /\ ExitBehindOutput
  BY DEF HandoverInv
<1> QED
  BY <1>1, <1>2, <1>3, DeliveryInvariant, PTL DEF Spec

(* The single-connection slot is held by exactly one connection while        *)
(* connection_active is set and by none otherwise: it is never given out     *)
(* twice and never lost, through refusals, failed writes and process ends.  *)
THEOREM SlotIsHeldOnce == Spec => []SlotHeldOnce
<1>1. SlotOwned => SlotHeldOnce
  <2> SUFFICES ASSUME SlotOwned PROVE SlotHeldOnce
    OBVIOUS
  <2> DEFINE holders == {c \in Conns : HoldsSlot(c)}
  <2>1. CASE ~connection_active
    <3>1. holders = {}
      BY <2>1 DEF SlotOwned
    <3> QED
      BY <2>1, <3>1, FS_EmptySet DEF SlotHeldOnce
  <2>2. CASE connection_active
    <3>1. PICK c \in Conns : HoldsSlot(c)
      BY <2>2 DEF SlotOwned
    <3>2. holders = {c}
      BY <3>1 DEF SlotOwned
    <3>3. Cardinality({c}) = 1
      BY FS_Singleton
    <3> QED
      BY <2>2, <3>2, <3>3 DEF SlotHeldOnce
  <2> QED
    BY <2>1, <2>2
<1> QED
  BY <1>1, HandoverInvariant, PTL DEF HandoverInv

(* A Core that reads AgentExited has read every chunk recorded before the    *)
(* flag was set, short of the evicted ones: across reconnections, and        *)
(* whatever was pruned meanwhile.                                           *)
THEOREM ExitFollowsOutput == Spec => []ExitAfterOutput
<1>1. ExitBehindOutput => ExitAfterOutput
  BY DEF ExitBehindOutput, ExitAfterOutput, Covered, Got
<1> QED
  BY <1>1, HandoverInvariant, PTL DEF HandoverInv

(* A host that removed its socket saw its agent exit and tried to put the    *)
(* exit on disk.                                                            *)
THEOREM ExitIsOnDisk == Spec => []ExitOnDisk
<1>1. ExitSeen => ExitOnDisk
  BY DEF ExitSeen, ExitOnDisk
<1> QED
  BY <1>1, HandoverInvariant, PTL DEF HandoverInv

-----------------------------------------------------------------------------
(* The byte count of the ring.                                              *)

(* The bytes of finitely many chunks are finitely many: a number.           *)
LEMMA BytesType ==
  ASSUME NEW S, IsFiniteSet(S), NEW sizes, \A s \in S : sizes[s] \in Nat
  PROVE  /\ IsFiniteSet(Places(sizes, S))
         /\ Bytes(sizes, S) \in Nat
<1> DEFINE T == {{s} \X (1..sizes[s]) : s \in S}
           f == [s \in S |-> {s} \X (1..sizes[s])]
<1>1. f \in Surjection(S, T)
  BY DEF Surjection
<1>2. IsFiniteSet(T)
  <2> HIDE DEF T, f
  <2> QED
    BY <1>1, FS_Surjection
<1>3. ASSUME NEW X \in T PROVE IsFiniteSet(X)
  <2>1. PICK s \in S : X = {s} \X (1..sizes[s])
    OBVIOUS
  <2>2. IsFiniteSet({s})
    BY FS_Singleton
  <2>3. IsFiniteSet(1..sizes[s])
    <3>1. sizes[s] \in Int /\ 1 \in Int
      OBVIOUS
    <3> QED
      BY <3>1, FS_Interval
  <2> QED
    BY <2>1, <2>2, <2>3, FS_Product
<1>4. IsFiniteSet(UNION T)
  <2> HIDE DEF T
  <2> QED
    BY <1>2, <1>3, FS_UNION
<1> QED
  BY <1>4, FS_CardinalityType DEF Bytes, Places

(* The bytes of two sets of chunks with no chunk in common add up, and a    *)
(* part has no more of them than the whole.                                 *)
LEMMA BytesAdd ==
  ASSUME NEW S, IsFiniteSet(S), NEW sizes, \A s \in S : sizes[s] \in Nat,
         NEW A \in SUBSET S
  PROVE  /\ Bytes(sizes, S) = Bytes(sizes, A) + Bytes(sizes, S \ A)
         /\ Bytes(sizes, A) \in Nat /\ Bytes(sizes, S \ A) \in Nat
         /\ Bytes(sizes, A) <= Bytes(sizes, S)
<1> DEFINE B(R) == Places(sizes, R)
<1>1. /\ IsFiniteSet(A) /\ IsFiniteSet(S \ A)
      /\ \A s \in A : sizes[s] \in Nat
      /\ \A s \in S \ A : sizes[s] \in Nat
  <2>1. S \ A \in SUBSET S
    OBVIOUS
  <2> QED
    BY <2>1, FS_Subset
<1>2. /\ IsFiniteSet(B(A)) /\ IsFiniteSet(B(S \ A))
      /\ Bytes(sizes, A) \in Nat /\ Bytes(sizes, S \ A) \in Nat
  BY <1>1, BytesType
<1>3. B(S) = B(A) \union B(S \ A)
  BY DEF Places
<1>4. B(A) \intersect B(S \ A) = {}
  BY DEF Places
<1>5. Cardinality(B(S)) = Cardinality(B(A)) + Cardinality(B(S \ A)) - Cardinality({})
  <2> HIDE DEF B
  <2> QED
    BY <1>2, <1>3, <1>4, FS_Union
<1>6. Bytes(sizes, S) = Bytes(sizes, A) + Bytes(sizes, S \ A) - 0
  BY <1>5, FS_EmptySet DEF Bytes
<1> QED
  BY <1>2, <1>6

(* No chunk has no bytes.                                                   *)
LEMMA BytesNone == ASSUME NEW sizes PROVE Bytes(sizes, {}) = 0
<1>1. Places(sizes, {}) = {}
  BY DEF Places
<1> QED
  BY <1>1, FS_EmptySet DEF Bytes

(* One chunk has its own bytes.                                             *)
LEMMA BytesOne ==
  ASSUME NEW s, NEW sizes, sizes[s] \in Nat
  PROVE  Bytes(sizes, {s}) = sizes[s]
<1>1. Places(sizes, {s}) = {s} \X (1..sizes[s])
  BY DEF Places
<1>2. IsFiniteSet({s}) /\ Cardinality({s}) = 1
  BY FS_Singleton
<1>3. IsFiniteSet(1..sizes[s]) /\ Cardinality(1..sizes[s]) = sizes[s]
  <2>1. sizes[s] \in Int /\ 1 \in Int
    OBVIOUS
  <2>2. /\ IsFiniteSet(1..sizes[s])
        /\ Cardinality(1..sizes[s]) = IF 1 > sizes[s] THEN 0 ELSE sizes[s] - 1 + 1
    BY <2>1, FS_Interval
  <2> QED
    BY <2>2
<1>4. Cardinality({s} \X (1..sizes[s])) = sizes[s]
  <2>1. Cardinality({s} \X (1..sizes[s])) = Cardinality({s}) * Cardinality(1..sizes[s])
    BY <1>2, <1>3, FS_Product
  <2>2. Cardinality({s} \X (1..sizes[s])) = 1 * sizes[s]
    BY <1>2, <1>3, <2>1
  <2> QED
    BY <2>2
<1> QED
  BY <1>1, <1>4 DEF Bytes

(* What evict leaves fits: the chunks older than the first one left are all  *)
(* gone, and without them the rest is under the capacity.                   *)
LEMMA EvictedFits ==
  ASSUME NEW n \in Nat, NEW r \in SUBSET (1..n), NEW sizes,
         \A s \in r : sizes[s] \in Nat,
         NEW gone, gone = EvictedBy(r, sizes, Bytes(sizes, r))
  PROVE  /\ gone \subseteq r
         /\ Bytes(sizes, r) - Bytes(sizes, gone) = Bytes(sizes, r \ gone)
         /\ Bytes(sizes, r \ gone) <= Capacity
<1>1. IsFiniteSet(r)
  <2>1. n \in Int /\ 1 \in Int
    OBVIOUS
  <2>2. IsFiniteSet(1..n)
    BY <2>1, FS_Interval
  <2> QED
    BY <2>2, FS_Subset
<1>2. gone = {s \in r : Bytes(sizes, r) - Bytes(sizes, {t \in r : t < s}) > Capacity}
  BY DEF EvictedBy
<1>3. gone \subseteq r
  BY <1>2
<1>4. Bytes(sizes, r) - Bytes(sizes, gone) = Bytes(sizes, r \ gone)
  <2>1. /\ Bytes(sizes, r) = Bytes(sizes, gone) + Bytes(sizes, r \ gone)
        /\ Bytes(sizes, gone) \in Nat /\ Bytes(sizes, r \ gone) \in Nat
    <3>1. \A g \in SUBSET r :
            /\ Bytes(sizes, r) = Bytes(sizes, g) + Bytes(sizes, r \ g)
            /\ Bytes(sizes, g) \in Nat /\ Bytes(sizes, r \ g) \in Nat
      BY <1>1, BytesAdd
    <3> QED
      BY <1>3, <3>1
  <2> QED
    BY <2>1
<1>5. Bytes(sizes, r \ gone) <= Capacity
  <2>1. CASE r \ gone = {}
    <3>1. Bytes(sizes, {}) = 0
      BY BytesNone
    <3> QED
      BY <2>1, <3>1, CapacityAssumption
  <2>2. CASE r \ gone # {}
    <3>1. r \ gone \in SUBSET Nat
      <4>1. 1..n \subseteq Nat
        OBVIOUS
      <4> QED
        BY <4>1
    <3>2. PICK m \in r \ gone : \A y \in r \ gone : m <= y
      BY <2>2, <3>1, MinExists
    <3> DEFINE older == {t \in r : t < m}
    <3>3. older \subseteq r /\ r \ gone \subseteq r \ older
      <4>1. older \subseteq r
        OBVIOUS
      <4>2. ASSUME NEW y \in r \ gone PROVE y \notin older
        <5>1. m <= y /\ m \in Nat /\ y \in Nat
          BY <3>1, <3>2
        <5> QED
          BY <5>1
      <4> QED
        BY <4>1, <4>2
    <3>4. ~(Bytes(sizes, r) - Bytes(sizes, older) > Capacity)
      BY <1>2, <3>2
    <3>5. IsFiniteSet(r \ older)
      BY <1>1, FS_Subset
    <3> HIDE DEF older
    <3>6. /\ Bytes(sizes, r) = Bytes(sizes, older) + Bytes(sizes, r \ older)
          /\ Bytes(sizes, older) \in Nat /\ Bytes(sizes, r \ older) \in Nat
      BY <1>1, <3>3, BytesAdd
    <3>7. Bytes(sizes, r \ gone) <= Bytes(sizes, r \ older) /\ Bytes(sizes, r \ gone) \in Nat
      BY <3>3, <3>5, BytesAdd
    <3> QED
      BY <3>4, <3>6, <3>7, CapacityAssumption
  <2> QED
    BY <2>1, <2>2
<1> QED
  BY <1>3, <1>4, <1>5

(* push counts the new chunk and takes off those it evicts for it.          *)
LEMMA PushAccounts ==
  ASSUME TypeOK, RingAccounting, next_seq <= MaxChunks,
         NEW len \in Nat, Push(len)
  PROVE  RingAccounting'
<1>0. PICK n, q, z, b : n = next_seq /\ q = ring /\ z = size /\ b = total_bytes
  OBVIOUS
<1> DEFINE sizes == [z EXCEPT ![n] = len]
           r == q \union {n}
           gone == EvictedBy(r, sizes, b + len)
<1>1. n \in 1..MaxChunks /\ n \in Nat /\ q \subseteq 1..(n - 1) /\ z \in [1..MaxChunks -> Nat]
  BY <1>0, MaxChunksAssumption DEF TypeOK, HostTypeOK
<1>2. /\ r \in SUBSET (1..n) /\ n \in r /\ r \ {n} = q
      /\ sizes[n] = len /\ \A s \in r : sizes[s] \in Nat
      /\ \A s \in q : sizes[s] = z[s]
  <2>1. ASSUME NEW s \in q PROVE s \in 1..n /\ s \in 1..MaxChunks /\ s # n
    BY <1>1, MaxChunksAssumption
  <2>2. n \in 1..n
    BY <1>1
  <2>3. \A s \in 1..MaxChunks : sizes[s] = IF s = n THEN len ELSE z[s]
    BY <1>1
  <2>4. \A s \in q : sizes[s] = z[s] /\ z[s] \in Nat
    BY <1>1, <2>1, <2>3
  <2>5. sizes[n] = len
    BY <1>1, <2>3
  <2> QED
    BY <2>1, <2>2, <2>4, <2>5
<1>3. b = Bytes(z, q)
  BY <1>0 DEF RingAccounting
<1>4. size' = sizes /\ ring' = r \ gone /\ total_bytes' = (b + len) - Bytes(sizes, gone)
  <2>1. /\ size' = [size EXCEPT ![next_seq] = len]
        /\ ring' = (ring \union {next_seq})
             \ EvictedBy(ring \union {next_seq}, [size EXCEPT ![next_seq] = len],
                         total_bytes + len)
        /\ total_bytes' = (total_bytes + len)
             - Bytes([size EXCEPT ![next_seq] = len],
                     EvictedBy(ring \union {next_seq}, [size EXCEPT ![next_seq] = len],
                               total_bytes + len))
    BY Zenon DEF Push
  <2>2. sizes = [size EXCEPT ![next_seq] = len] /\ r = ring \union {next_seq}
    BY <1>0
  <2>3. gone = EvictedBy(ring \union {next_seq}, [size EXCEPT ![next_seq] = len],
                         total_bytes + len)
    BY <1>0, <2>2
  <2> HIDE DEF gone, sizes, r
  <2>4. size' = sizes
    BY <2>1, <2>2, Zenon
  <2>5. ring' = r \ gone
    BY <2>1, <2>2, <2>3, Zenon
  <2>6. total_bytes' = (b + len) - Bytes(sizes, gone)
    BY <1>0, <2>1, <2>2, <2>3, Zenon
  <2> QED
    BY <2>4, <2>5, <2>6
<1>5. Bytes(sizes, q) = Bytes(z, q)
  <2>1. {{s} \X (1..sizes[s]) : s \in q} = {{s} \X (1..z[s]) : s \in q}
    BY <1>2
  <2> QED
    BY <2>1 DEF Bytes, Places
<1> HIDE DEF sizes, r
<1>6. IsFiniteSet(r)
  <2>1. n \in Int /\ 1 \in Int
    BY <1>1
  <2>2. IsFiniteSet(1..n)
    BY <2>1, FS_Interval
  <2> QED
    BY <1>2, <2>2, FS_Subset
<1>7. Bytes(sizes, r) = b + len
  <2>1. {n} \in SUBSET r /\ r \ {n} = q
    BY <1>2
  <2>2. /\ Bytes(sizes, r) = Bytes(sizes, {n}) + Bytes(sizes, r \ {n})
        /\ Bytes(sizes, r \ {n}) \in Nat
    BY <1>2, <1>6, <2>1, BytesAdd
  <2>3. Bytes(sizes, {n}) = len
    BY <1>2, BytesOne
  <2>4. Bytes(sizes, r \ {n}) = b
    BY <1>3, <1>5, <2>1
  <2> QED
    BY <2>2, <2>3, <2>4
<1>8. gone = EvictedBy(r, sizes, Bytes(sizes, r))
  BY <1>7
<1> HIDE DEF gone
<1>9. /\ Bytes(sizes, r) - Bytes(sizes, gone) = Bytes(sizes, r \ gone)
      /\ Bytes(sizes, r \ gone) <= Capacity
  BY <1>1, <1>2, <1>8, EvictedFits
<1>10. total_bytes' = Bytes(size', ring') /\ total_bytes' <= Capacity
  BY <1>4, <1>7, <1>9
<1> QED
  BY <1>10 DEF RingAccounting

(* prune_through takes off what it pops.                                    *)
LEMMA PruneAccounts ==
  ASSUME TypeOK, RingAccounting, NEW ack, PruneThrough(ack)
  PROVE  RingAccounting'
<1> PICK n, q, z, b : n = next_seq /\ q = ring /\ z = size /\ b = total_bytes
  OBVIOUS
<1> DEFINE gone == {s \in q : s <= ack}
<1>1. /\ q \subseteq 1..(n - 1) /\ n \in 1..(MaxChunks + 1) /\ MaxChunks \in Nat
      /\ \A s \in q : z[s] \in Nat
  BY MaxChunksAssumption DEF TypeOK, HostTypeOK
<1>2. IsFiniteSet(q)
  <2>1. IsFiniteSet(1..(n - 1))
    BY <1>1, FS_Interval
  <2> QED
    BY <1>1, <2>1, FS_Subset
<1>3. size' = z /\ ring' = q \ gone /\ total_bytes' = b - Bytes(z, gone)
  BY DEF PruneThrough
<1>4. gone \subseteq q
  OBVIOUS
<1> HIDE DEF gone
<1>5. /\ Bytes(z, q) = Bytes(z, gone) + Bytes(z, q \ gone)
      /\ Bytes(z, gone) \in Nat /\ Bytes(z, q \ gone) \in Nat
  BY ZenonT(40), <1>1, <1>2, <1>4, BytesAdd
<1>6. b = Bytes(z, q) /\ b <= Capacity
  BY DEF RingAccounting
<1>7. total_bytes' = Bytes(z, q \ gone) /\ total_bytes' <= Capacity
  BY <1>3, <1>5, <1>6, CapacityAssumption
<1> QED
  BY <1>3, <1>7 DEF RingAccounting

(* A step that leaves the ring alone leaves its accounts alone.             *)
LEMMA AccountsKept ==
  ASSUME RingAccounting, UNCHANGED ringVars
  PROVE  RingAccounting'
  BY DEF RingAccounting, ringVars

(* total_bytes is the number of bytes the ring holds, and stays within the   *)
(* capacity, whatever the sizes of the chunks: push, evict and              *)
(* prune_through each take off exactly the chunks they drop.                *)
THEOREM RingAccountingHolds == Spec => []RingAccounting
<1>1. Init => RingAccounting
  <2>1. Bytes(size, {}) = 0
    BY BytesNone
  <2> QED
    BY <2>1, CapacityAssumption DEF Init, HostInit, RingAccounting
<1>2. TypeOK /\ RingAccounting /\ [Next]_vars => RingAccounting'
  <2> SUFFICES ASSUME TypeOK, RingAccounting, [Next]_vars PROVE RingAccounting'
    OBVIOUS
  <2>1. ASSUME NEW mode \in FailingModes, SpawnFails(mode) PROVE RingAccounting'
    <3>1. PICK len \in ChunkSizes : Push(len)
      BY <2>1 DEF SpawnFails
    <3> QED
      BY <2>1, <3>1, PushAccounts, ChunkSizesAssumption DEF SpawnFails
  <2>2. CASE RecordPush
    <3>1. Head(chan) \in ChunkSizes /\ next_seq <= MaxChunks
      <4>1. chan \in Seq(ChunkSizes) /\ chan # <<>> /\ next_seq + Len(chan) <= MaxChunks + 1
            /\ next_seq \in Nat
        BY <2>2 DEF RecordPush, TypeOK, HostTypeOK
      <4>2. Len(chan) \in Nat /\ Len(chan) >= 1
        BY <4>1
      <4> QED
        BY <4>1, <4>2, MaxChunksAssumption
    <3>2. Head(chan) \in Nat
      BY <3>1, ChunkSizesAssumption
    <3> PICK len : len = Head(chan)
      OBVIOUS
    <3>3. len \in Nat /\ Push(len)
      BY <2>2, <3>2 DEF RecordPush
    <3> QED
      BY <3>1, <3>3, PushAccounts
  <2>3. ASSUME NEW c \in Conns, ConnReaderAck(c) PROVE RingAccounting'
    <3> PICK ack : ack = Head(toHost[c]).seq
      OBVIOUS
    <3>1. PruneThrough(ack)
      BY <2>3 DEF ConnReaderAck
    <3> QED
      BY <3>1, PruneAccounts
  <2>4. CASE SupervisorStep
    <3>1. CASE SpawnChild \/ ReportSpawnFailure \/ FlagSpawnFailure \/ SetChildExited
      BY <3>1, AccountsKept DEF SpawnChild, ReportSpawnFailure, FlagSpawnFailure, SetChildExited
    <3> QED
      BY <2>1, <2>4, <3>1 DEF SupervisorStep
  <2>5. CASE OutputStep
    BY <2>2, <2>5, AccountsKept DEF OutputStep, ReaderForward, RecordNotify
  <2>6. CASE MainStep
    BY <2>6, AccountsKept DEF MainStep, CheckChildExit, ParkWaiter, AcceptConnection,
       GraceEndsDelivered, GraceTimeout, WriteFinalInfo, HostExit, HostKilled, ProcessEnds
  <2>7. ASSUME NEW c \in Conns, ConnectionStep(c) PROVE RingAccounting'
    <3>1. CASE ConnReaderAck(c)
      BY <2>3, <3>1
    <3>2. CASE ~ConnReaderAck(c)
      <4>1. UNCHANGED ringVars
        BY <2>7, <3>2 DEF ConnectionStep, WriterStep, RefuseHello, ClaimSlot, SnapshotReplay,
           ReplayChunk, StartTasks, WriterSnapshot, WriterSend, WriterExit, WriterPark,
           ConnReaderEof, ReleaseSlot, taskFrame, ringVars
      <4> QED
        BY <4>1, AccountsKept
    <3> QED
      BY <3>1, <3>2
  <2>8. CASE CoreAction
    BY <2>8, AccountsKept DEF CoreAction, hostVars
  <2>9. CASE UNCHANGED vars
    BY <2>9, AccountsKept DEF vars, hostVars
  <2> QED
    BY <2>4, <2>5, <2>6, <2>7, <2>8, <2>9 DEF Next, HostAction, HostNext
<1> QED
  BY <1>1, <1>2, TypeCorrect, PTL DEF Spec
-----------------------------------------------------------------------------
(* The refinement of OutputContract.                                        *)

(* Output once numbered stays numbered.                                     *)
LEMMA NumberedKept ==
  ASSUME NEW c \in Conns, TaskNumbered(c), Numbered \subseteq Numbered',
         Batch(c)' \subseteq Batch(c), toCore'[c] = toCore[c]
  PROVE  TaskNumbered(c)'
  BY DEF TaskNumbered

(* A frame the host appends is no output, or output of its batch.           *)
LEMMA NumberedSent ==
  ASSUME TypeOK, NEW c \in Conns, TaskNumbered(c), NEW f \in HostFrames, Send(c, f),
         next_seq' = next_seq, Batch(c)' \subseteq Batch(c),
         f.t = "StdoutBytes" => f.seq \in Numbered
  PROVE  TaskNumbered(c)'
<1> DEFINE q == toCore[c]
<1>1. toCore'[c] = Append(q, f) /\ q \in Seq(HostFrames)
  BY SendTypes DEF TypeOK, WireTypeOK
<1>2. /\ Len(q) \in Nat /\ Len(Append(q, f)) = Len(q) + 1
      /\ \A k \in 1..Len(q) : Append(q, f)[k] = q[k]
      /\ Append(q, f)[Len(q) + 1] = f
  BY <1>1, AppendProperties, LenProperties
<1>3. Numbered' = Numbered
  BY DEF Numbered
<1>4. ASSUME NEW i \in 1..(Len(q) + 1), Append(q, f)[i].t = "StdoutBytes"
      PROVE  Append(q, f)[i].seq \in Numbered
  <2>1. i \in 1..Len(q) \/ i = Len(q) + 1
    BY <1>2
  <2> QED
    BY <2>1, <1>2, <1>4 DEF TaskNumbered
<1> QED
  BY <1>1, <1>2, <1>3, <1>4 DEF TaskNumbered

(* A connection's tasks write what the ring held.                           *)
LEMMA NumberedByConnection ==
  ASSUME TypeOK, NEW c \in Conns, TaskNumbered(c), ConnectionStep(c)
  PROVE  TaskNumbered(c)'
<1>t. /\ conn[c] \in ConnTasks /\ conn \in [Conns -> ConnTasks]
      /\ ring \in SUBSET (1..(next_seq - 1)) /\ next_seq \in Nat \ {0}
  BY MaxChunksAssumption DEF TypeOK, HostTypeOK
<1>n. next_seq' = next_seq /\ Numbered' = Numbered
  BY ExitLeftAlone DEF Numbered
<1>1. CASE RefuseHello(c) \/ ClaimSlot(c)
  <2>1. conn'[c].pc \in {"claimed", "closed"}
    BY ZenonT(40), <1>1, <1>t DEF RefuseHello, ClaimSlot, Closed, NoConn, ConnTasks
  <2>2. Batch(c)' = {}
    BY <2>1 DEF Batch
  <2>3. CASE c \in coreOpen
    <3>1. LastSeq(ring) \in Nat
      <4>1. LastSeq(ring) \in 0..(next_seq - 1)
        BY <1>t, LastSeqBound
      <4> QED
        BY <4>1
    <3>2. PICK kind \in {"CookieMismatch", "AlreadyConnected", "Ready"}, n \in Nat :
            Send(c, Frame(kind, n))
      BY <1>1, <2>3, <3>1 DEF RefuseHello, ClaimSlot
    <3>3. Frame(kind, n) \in HostFrames /\ Frame(kind, n).t # "StdoutBytes"
      BY DEF Frame, HostFrames
    <3> QED
      BY <3>2, <3>3, <2>2, <1>n, NumberedSent
  <2>4. CASE c \notin coreOpen
    <3>1. toCore' = toCore
      BY <1>1, <2>4 DEF RefuseHello, ClaimSlot
    <3> QED
      BY <3>1, <2>2, <1>n, NumberedKept
  <2> QED
    BY <2>3, <2>4
<1>2. CASE ReplayChunk(c) \/ WriterSend(c)
  <2>1. /\ conn[c].pend \in SUBSET (1..MaxChunks) /\ conn[c].pend # {}
        /\ conn[c].pc \in {"replay", "write"}
    BY <1>2, <1>t DEF ReplayChunk, WriterSend, ConnTasks
  <2>2. CASE c \in coreOpen
    <3> DEFINE m == Min(conn[c].pend)
    <3>1. m \in conn[c].pend /\ m \in Nat /\ m \in Numbered
      <4>1. m \in conn[c].pend
        BY <2>1, MinIs, MaxChunksAssumption
      <4>2. m \in Batch(c)
        BY <4>1, <2>1 DEF Batch
      <4> QED
        BY <4>1, <4>2, <2>1 DEF TaskNumbered
    <3>2. Send(c, Frame("StdoutBytes", m))
      BY <1>2, <2>2 DEF ReplayChunk, WriterSend
    <3>3. Frame("StdoutBytes", m) \in HostFrames /\ Frame("StdoutBytes", m).seq = m
      BY <3>1 DEF Frame, HostFrames
    <3>4. \/ conn' = [conn EXCEPT ![c].pend = conn[c].pend \ {m}]
          \/ conn' = [conn EXCEPT ![c].pend = conn[c].pend \ {m}, ![c].mark = m]
      BY <1>2, <2>2 DEF ReplayChunk, WriterSend
    <3>5. conn'[c].pc = conn[c].pc /\ conn'[c].pend = conn[c].pend \ {m}
      BY <3>4, <1>t DEF ConnTasks
    <3> HIDE DEF m
    <3>6. Batch(c)' \subseteq Batch(c)
      BY <3>5 DEF Batch
    <3> QED
      BY <3>1, <3>2, <3>3, <3>6, <1>n, NumberedSent
  <2>3. CASE c \notin coreOpen
    <3>1. toCore' = toCore /\ conn'[c].pc \in {"closed", "wdone"}
      BY <1>2, <2>3, <1>t DEF ReplayChunk, WriterSend, Closed, WriterDone, NoConn
    <3>2. Batch(c)' = {}
      BY <3>1 DEF Batch
    <3> QED
      BY <3>1, <3>2, <1>n, NumberedKept
  <2> QED
    BY <2>2, <2>3
<1>3. CASE SnapshotReplay(c) \/ WriterSnapshot(c)
  <2>1. toCore' = toCore /\ conn'[c].pend \subseteq ring
    <3>1. CASE SnapshotReplay(c)
      <4>1. conn'[c].pend = {s \in ring : s > conn[c].hello} /\ toCore' = toCore
        BY <3>1, <1>t DEF SnapshotReplay, ReplayPast, ConnTasks, wireVars
      <4> QED
        BY <4>1
    <3>2. CASE WriterSnapshot(c)
      <4>1. conn'[c].pend = {s \in ring : s > conn[c].mark} /\ toCore' = toCore
        BY <3>2, <1>t DEF WriterSnapshot, ReplayPast, ConnTasks, wireVars
      <4> QED
        BY <4>1
    <3> QED
      BY <1>3, <3>1, <3>2
  <2>2. Batch(c)' \subseteq Numbered'
    BY <2>1, <1>t, <1>n DEF Batch, Numbered
  <2> QED
    BY <2>1, <2>2, <1>n DEF TaskNumbered
<1>4. CASE WriterExit(c)
  <2>1. Batch(c)' = {}
    <3>1. conn'[c].pc = "wdone"
      BY <1>4, <1>t DEF WriterExit, WriterDone, NoConn
    <3> QED
      BY <3>1 DEF Batch
  <2>2. CASE c \in coreOpen
    <3>1. Send(c, Frame("AgentExited", 0))
      BY <1>4, <2>2 DEF WriterExit
    <3>2. Frame("AgentExited", 0) \in HostFrames /\ Frame("AgentExited", 0).t # "StdoutBytes"
      BY DEF Frame, HostFrames
    <3> QED
      BY <3>1, <3>2, <2>1, <1>n, NumberedSent
  <2>3. CASE c \notin coreOpen
    <3>1. toCore' = toCore
      BY <1>4, <2>3 DEF WriterExit
    <3> QED
      BY <3>1, <2>1, <1>n, NumberedKept
  <2> QED
    BY <2>2, <2>3
<1>5. CASE StartTasks(c) \/ WriterPark(c) \/ ReleaseSlot(c)
  <2>1. toCore' = toCore
    BY <1>5 DEF StartTasks, WriterPark, ReleaseSlot, wireVars
  <2>2. conn'[c].pc \in {"snapshot", "parked", "closed"}
    <3>1. CASE StartTasks(c)
      BY ZenonT(40), <3>1, <1>t DEF StartTasks, ConnTasks
    <3>2. CASE WriterPark(c) \/ ReleaseSlot(c)
      BY <3>2, <1>t DEF WriterPark, ReleaseSlot, Closed, NoConn, ConnTasks
    <3> QED
      BY <1>5, <3>1, <3>2
  <2>3. Batch(c)' = {}
    BY <2>2 DEF Batch
  <2> QED
    BY <2>1, <2>3, <1>n, NumberedKept
<1>6. CASE ConnReaderAck(c) \/ ConnReaderEof(c)
  <2>1. /\ conn'[c].pc = conn[c].pc /\ conn'[c].pend = conn[c].pend /\ toCore' = toCore
    BY <1>6, <1>t DEF ConnReaderAck, ConnReaderEof, ConnTasks, wireVars
  <2>2. Batch(c)' = Batch(c)
    BY <2>1 DEF Batch
  <2> QED
    BY <2>1, <2>2, <1>n, NumberedKept
<1> QED
  BY <1>1, <1>2, <1>3, <1>4, <1>5, <1>6 DEF ConnectionStep, WriterStep

(* A connection's tasks leave the other connections alone.                  *)
LEMMA OthersLeftAlone ==
  ASSUME TypeOK, NEW c \in Conns, ConnectionStep(c)
  PROVE  \A d \in Conns \ {c} : conn'[d] = conn[d] /\ toCore'[d] = toCore[d]
  BY DEF TypeOK, HostTypeOK, WireTypeOK, wireVars, ConnectionStep, WriterStep,
     RefuseHello, ClaimSlot, SnapshotReplay, ReplayChunk, StartTasks, WriterSnapshot,
     WriterSend, WriterExit, WriterPark, ConnReaderAck, ConnReaderEof, ReleaseSlot, Send

(* Every step numbers a chunk before a Core can see it.                     *)
LEMMA NumberedPreserved ==
  ASSUME TypeOK, NothingMadeUp, [Next]_vars
  PROVE  NothingMadeUp'
<1>t. /\ next_seq \in Nat \ {0} /\ conn \in [Conns -> ConnTasks]
      /\ toCore \in [Conns -> Seq(HostFrames)] /\ received \subseteq Numbered
      /\ (core # "down" => attempt \in Conns)
  BY MaxChunksAssumption, MaxConnsAssumption
  DEF TypeOK, HostTypeOK, WireTypeOK, PumpTypeOK, Conns, NothingMadeUp
<1>b. ASSUME NEW d \in Conns PROVE TaskNumbered(d)
  BY DEF NothingMadeUp
<1>1. CASE HostAction /\ (SupervisorStep \/ OutputStep \/ MainStep)
  <2>1. next_seq' \in {next_seq, next_seq + 1}
    BY <1>1 DEF SupervisorStep, OutputStep, MainStep, SpawnChild, SpawnFails, ReportSpawnFailure,
       FlagSpawnFailure, SetChildExited, ReaderForward, RecordPush, RecordNotify, Push,
       CheckChildExit, ParkWaiter, AcceptConnection, GraceEndsDelivered, GraceTimeout,
       WriteFinalInfo, HostExit, HostKilled, ProcessEnds, ringVars
  <2>2. Numbered \subseteq Numbered'
    <3>1. Numbered' = 1..(next_seq' - 1)
      BY DEF Numbered
    <3>2. next_seq \in Nat /\ next_seq' \in Nat /\ next_seq <= next_seq'
      BY <2>1, <1>t
    <3>3. \A n, m \in Nat : n <= m => 1..(n - 1) \subseteq 1..(m - 1)
      OBVIOUS
    <3> QED
      BY <3>1, <3>2, <3>3 DEF Numbered
  <2>3. received' = received /\ toCore' = toCore
    BY <1>1 DEF HostAction, pumpVars, SupervisorStep, OutputStep, MainStep, wireVars
  <2>4. ASSUME NEW d \in Conns PROVE TaskNumbered(d)'
    <3>1. conn'[d] = conn[d] \/ conn'[d].pc \in {"snapshot", "hello", "closed"}
      BY <1>1, <1>t, ProcessMoves DEF Closed, NoConn
    <3>2. Batch(d)' \subseteq Batch(d)
      BY <3>1 DEF Batch
    <3> QED
      BY <3>2, <2>2, <2>3, <1>b, NumberedKept
  <2> QED
    BY <2>2, <2>3, <2>4, <1>t DEF NothingMadeUp
<1>2. ASSUME HostAction, NEW c \in Conns, ConnectionStep(c) PROVE NothingMadeUp'
  <2>1. received' = received /\ Numbered' = Numbered
    BY <1>2, ExitLeftAlone DEF HostAction, pumpVars, Numbered
  <2>2. TaskNumbered(c)'
    BY <1>2, <1>b, NumberedByConnection
  <2>3. ASSUME NEW d \in Conns \ {c} PROVE TaskNumbered(d)'
    <3>1. conn'[d] = conn[d] /\ toCore'[d] = toCore[d]
      BY <1>2, OthersLeftAlone
    <3>2. Batch(d)' = Batch(d)
      BY <3>1 DEF Batch
    <3> QED
      BY <3>1, <3>2, <2>1, <1>b, NumberedKept
  <2> QED
    BY <2>1, <2>2, <2>3, <1>t DEF NothingMadeUp
<1>3. CASE CoreAction
  <2>1. conn' = conn /\ Numbered' = Numbered
    BY <1>3 DEF CoreAction, hostVars, ringVars, Numbered
  <2>2. ASSUME NEW d \in Conns PROVE Batch(d)' = Batch(d)
    BY <2>1 DEF Batch
  <2>3. ASSUME NEW d \in Conns, toCore'[d] = toCore[d] PROVE TaskNumbered(d)'
    BY <2>1, <2>2, <2>3, <1>b, NumberedKept
  <2>4. ASSUME NEW d \in Conns, toCore'[d] = <<>> PROVE TaskNumbered(d)'
    BY <2>1, <2>2, <2>4, <1>b DEF TaskNumbered
  <2>5. CASE RecvReady \/ RecvRefusal \/ RecvStdout \/ RecvExited
    <3> DEFINE q == toCore[attempt]
    <3>1. /\ attempt \in Conns /\ q # <<>> /\ TakeFrame
          /\ received' = received \/ (received' = received \union {Head(q).seq}
                                      /\ Head(q).t = "StdoutBytes")
      BY <2>5, <1>t DEF RecvReady, RecvRefusal, RecvStdout, RecvExited, Incoming
    <3>2. /\ toCore'[attempt] = Tail(q) /\ q \in Seq(HostFrames)
          /\ \A d \in Conns \ {attempt} : toCore'[d] = toCore[d]
      BY <3>1, <1>t, TakeFrameTypes
    <3>3. /\ Len(q) \in Nat \ {0} /\ Len(Tail(q)) = Len(q) - 1
          /\ \A i \in 1..Len(Tail(q)) : Tail(q)[i] = q[i + 1]
      BY <3>1, <3>2, HeadTailProperties, EmptySeq
    <3>4. 1 \in 1..Len(q) /\ Head(q) = q[1]
      BY <3>1, <3>2, <3>3
    <3>5. \A i \in 1..Len(q) : q[i].t = "StdoutBytes" => q[i].seq \in Numbered
      BY <3>1, <1>b DEF TaskNumbered
    <3>6. received' \subseteq Numbered'
      BY <3>1, <3>4, <3>5, <2>1, <1>t
    <3>7. ASSUME NEW i \in 1..Len(Tail(q)), Tail(q)[i].t = "StdoutBytes"
          PROVE  Tail(q)[i].seq \in Numbered
      <4>1. i + 1 \in 1..Len(q) /\ Tail(q)[i] = q[i + 1]
        BY <3>3
      <4> QED
        BY <4>1, <3>5, <3>7
    <3> HIDE DEF q
    <3>8. ASSUME NEW d \in Conns, d = attempt PROVE TaskNumbered(d)'
      <4>1. toCore'[d] = Tail(q)
        BY <3>2, <3>8
      <4>2. Batch(d) \subseteq Numbered /\ Batch(d)' = Batch(d)
        BY <2>2, <1>b DEF TaskNumbered
      <4> QED
        BY <4>1, <4>2, <3>7, <2>1 DEF TaskNumbered
    <3> QED
      BY <3>1, <3>2, <3>6, <3>8, <2>3 DEF NothingMadeUp
  <2>6. CASE Connect \/ AckTick \/ PersistTick \/ FlushAck \/ RecvEof \/ CoreCrash
    <3>1. /\ received' = received
          /\ \A d \in Conns : toCore'[d] = toCore[d] \/ toCore'[d] = <<>>
      BY <2>6, <1>t DEF Connect, AckTick, PersistTick, FlushAck, RecvEof, CoreCrash, wireVars
    <3> QED
      BY <3>1, <2>1, <2>3, <2>4, <1>t DEF NothingMadeUp
  <2> QED
    BY <1>3, <2>5, <2>6 DEF CoreAction
<1>4. CASE UNCHANGED vars
  BY <1>4 DEF vars, hostVars, pumpVars, wireVars, ringVars, NothingMadeUp, TaskNumbered,
     Batch, Numbered
<1> QED
  BY <1>1, <1>2, <1>3, <1>4 DEF Next, HostAction, HostNext

(* What a Core claims to have was recorded, and it or the ring's limit let   *)
(* go of it.                                                                *)
LEMMA CoveredIsPassed ==
  ASSUME TypeOK, NothingMadeUp, NEW n \in Nat \ {0}, Covered(n)
  PROVE  n \in 1..(next_seq - 1) /\ Output!Passed(n)
<1>1. n \in 1..n /\ evicted \subseteq Numbered
  BY DEF TypeOK, HostTypeOK, Numbered
<1> QED
  BY <1>1 DEF Covered, Got, NothingMadeUp, Numbered, Output!Passed

(* What evict pops is older than what it leaves.                            *)
LEMMA OldestEvicted ==
  ASSUME NEW n \in Nat, NEW r \in SUBSET (1..n), NEW sizes,
         \A s \in r : sizes[s] \in Nat, NEW total \in Nat
  PROVE  \A s \in EvictedBy(r, sizes, total), t \in r \ EvictedBy(r, sizes, total) : s < t
<1> DEFINE older(t) == {u \in r : u < t}
<1>1. IsFiniteSet(r)
  <2>1. n \in Int /\ 1 \in Int
    OBVIOUS
  <2>2. IsFiniteSet(1..n)
    BY <2>1, FS_Interval
  <2> QED
    BY <2>2, FS_Subset
<1> SUFFICES ASSUME NEW s \in r, NEW t \in r, s >= t,
                    total - Bytes(sizes, older(s)) > Capacity
             PROVE  total - Bytes(sizes, older(t)) > Capacity
  BY DEF EvictedBy
<1>2. older(s) \subseteq r /\ IsFiniteSet(older(s))
  BY <1>1, FS_Subset
<1>3. older(t) \subseteq older(s)
  <2>1. ASSUME NEW u \in r, u < t PROVE u < s
    <3>1. r \subseteq Nat
      OBVIOUS
    <3>2. u \in Nat /\ s \in Nat /\ t \in Nat
      BY <3>1
    <3> QED
      BY <2>1, <3>2
  <2> QED
    BY <2>1
<1>4. \A u \in older(s) : sizes[u] \in Nat
  OBVIOUS
<1> HIDE DEF older
<1>5. /\ Bytes(sizes, older(t)) <= Bytes(sizes, older(s))
      /\ Bytes(sizes, older(t)) \in Nat
      /\ Bytes(sizes, older(s)) \in Nat
  <2>1. PICK S, A : S = older(s) /\ A = older(t)
    OBVIOUS
  <2>2. IsFiniteSet(S) /\ A \in SUBSET S /\ \A u \in S : sizes[u] \in Nat
    BY <2>1, <1>2, <1>3, <1>4
  <2>3. /\ Bytes(sizes, S) = Bytes(sizes, A) + Bytes(sizes, S \ A)
        /\ Bytes(sizes, A) \in Nat /\ Bytes(sizes, S \ A) \in Nat
        /\ Bytes(sizes, A) <= Bytes(sizes, S)
    BY <2>2, BytesAdd
  <2>4. Bytes(sizes, S) \in Nat
    BY <2>3
  <2> QED
    BY <2>1, <2>3, <2>4
<1> QED
  BY <1>5, CapacityAssumption

(* What the contract speaks of besides the ring.                            *)
readerVars == <<received, last_acked_seq, child_exited, at_exit, heard>>

(* push records one chunk, and the oldest make room for it.                 *)
LEMMA PushRecords ==
  ASSUME TypeOK, RingAccounting, next_seq <= MaxChunks, NEW len \in Nat, Push(len),
         UNCHANGED readerVars
  PROVE  Output!Next
<1>0. PICK n, q, z, b : n = next_seq /\ q = ring /\ z = size /\ b = total_bytes
  OBVIOUS
<1> DEFINE sizes == [z EXCEPT ![n] = len]
           r == q \union {n}
           gone == EvictedBy(r, sizes, b + len)
<1>1. n \in 1..MaxChunks /\ n \in Nat /\ q \subseteq 1..(n - 1) /\ z \in [1..MaxChunks -> Nat]
  BY <1>0, MaxChunksAssumption DEF TypeOK, HostTypeOK
<1>2. r \in SUBSET (1..n) /\ \A s \in r : sizes[s] \in Nat
  <2>1. ASSUME NEW s \in r PROVE s \in 1..n /\ s \in 1..MaxChunks
    BY <1>1, MaxChunksAssumption
  <2>2. \A s \in 1..MaxChunks : sizes[s] = IF s = n THEN len ELSE z[s]
    BY <1>1
  <2>3. \A s \in 1..MaxChunks : sizes[s] \in Nat
    BY <1>1, <2>2
  <2> QED
    BY <2>1, <2>3
<1>3. b \in Nat
  <2>1. \A s \in q : z[s] \in Nat
    BY <1>1, MaxChunksAssumption
  <2>2. n - 1 \in Int /\ 1 \in Int
    BY <1>1
  <2>3. IsFiniteSet(1..(n - 1))
    BY <2>2, FS_Interval
  <2>4. IsFiniteSet(q)
    BY <1>1, <2>3, FS_Subset
  <2> QED
    BY <1>0, <2>1, <2>4, BytesType DEF RingAccounting
<1>4. /\ next_seq' = n + 1 /\ ring' = r \ gone /\ evicted' = evicted \union gone
  <2>1. sizes = [size EXCEPT ![next_seq] = len] /\ r = ring \union {next_seq}
    BY <1>0
  <2>2. gone = EvictedBy(ring \union {next_seq}, [size EXCEPT ![next_seq] = len],
                         total_bytes + len)
    BY <1>0, <2>1
  <2>3. /\ next_seq' = next_seq + 1
        /\ ring' = (ring \union {next_seq})
             \ EvictedBy(ring \union {next_seq}, [size EXCEPT ![next_seq] = len],
                         total_bytes + len)
        /\ evicted' = evicted
             \union EvictedBy(ring \union {next_seq}, [size EXCEPT ![next_seq] = len],
                              total_bytes + len)
    BY Zenon DEF Push
  <2> HIDE DEF gone, sizes, r
  <2>4. ring' = r \ gone
    BY <2>1, <2>2, <2>3, Zenon
  <2>5. evicted' = evicted \union gone
    BY <2>2, <2>3, Zenon
  <2> QED
    BY <1>0, <2>3, <2>4, <2>5
<1>5. gone \subseteq r
  BY DEF EvictedBy
<1>6. \A s \in gone, t \in r \ gone : s < t
  <2> PICK total : total = b + len
    OBVIOUS
  <2>1. total \in Nat /\ gone = EvictedBy(r, sizes, total)
    BY <1>3
  <2> HIDE DEF r, sizes, gone
  <2> QED
    BY <1>1, <1>2, <2>1, OldestEvicted
<1> HIDE DEF gone
<1>7. (next_seq - 1)' = n /\ (next_seq - 1) + 1 = n
  BY <1>0, <1>1, <1>4
<1>8. Output!Record(gone) /\ gone \in SUBSET (ring \union {(next_seq - 1) + 1})
  BY <1>0, <1>4, <1>5, <1>6, <1>7 DEF Output!Record, readerVars
<1> QED
  BY <1>8 DEF Output!Next

(* The host's processes record chunks and end; the rest is not the reader's. *)
LEMMA ProcessKeepsOutput ==
  ASSUME TypeOK, RingAccounting, ExitSeen, UNCHANGED pumpVars,
         SupervisorStep \/ OutputStep \/ MainStep
  PROVE  Output!Next \/ UNCHANGED Output!outputVars
<1>u. UNCHANGED <<received, last_acked_seq, heard>>
  BY DEF pumpVars
<1>0. ASSUME UNCHANGED ringVars, UNCHANGED <<child_exited, at_exit>>
      PROVE  UNCHANGED Output!outputVars
  BY <1>0, <1>u DEF ringVars, Output!outputVars
<1>1. ASSUME NEW mode \in FailingModes, SpawnFails(mode) PROVE Output!Next
  <2>1. PICK len \in ChunkSizes : Push(len)
    BY <1>1 DEF SpawnFails
  <2>2. len \in Nat /\ next_seq <= MaxChunks /\ UNCHANGED readerVars
    BY <1>1, <1>u, ChunkSizesAssumption DEF SpawnFails, exitVars, readerVars
  <2> QED
    BY <2>1, <2>2, PushRecords
<1>2. CASE RecordPush
  <2>1. Head(chan) \in ChunkSizes /\ next_seq <= MaxChunks
    <3>1. chan \in Seq(ChunkSizes) /\ chan # <<>> /\ next_seq + Len(chan) <= MaxChunks + 1
          /\ next_seq \in Nat
      BY <1>2 DEF RecordPush, TypeOK, HostTypeOK
    <3>2. Len(chan) \in Nat /\ Len(chan) >= 1
      BY <3>1
    <3> QED
      BY <3>1, <3>2, MaxChunksAssumption
  <2> PICK len : len = Head(chan)
    OBVIOUS
  <2>2. len \in Nat /\ Push(len) /\ UNCHANGED readerVars
    BY <1>2, <1>u, <2>1, ChunkSizesAssumption DEF RecordPush, exitVars, readerVars
  <2> QED
    BY <2>1, <2>2, PushRecords
<1>3. CASE SetChildExited \/ FlagSpawnFailure
  <2>1. ~child_exited /\ child_exited' = TRUE /\ at_exit' = next_seq - 1 /\ UNCHANGED ringVars
    BY <1>3 DEF SetChildExited, FlagSpawnFailure, ExitSeen
  <2>2. Output!End
    BY <2>1, <1>u DEF Output!End, ringVars
  <2> QED
    BY <2>2 DEF Output!Next
<1>4. CASE SpawnChild \/ ReportSpawnFailure
  BY <1>4, <1>0 DEF SpawnChild, ReportSpawnFailure, exitVars
<1>5. CASE ReaderForward \/ RecordNotify
  BY <1>5, <1>0 DEF ReaderForward, RecordNotify, exitVars
<1>6. CASE MainStep
  BY <1>6, <1>0 DEF MainStep, CheckChildExit, ParkWaiter, AcceptConnection, GraceEndsDelivered,
     GraceTimeout, WriteFinalInfo, HostExit, HostKilled, ProcessEnds, exitVars
<1> QED
  BY <1>1, <1>2, <1>3, <1>4, <1>5, <1>6 DEF SupervisorStep, OutputStep

(* An Ack lets go of the chunks it covers, all of them read or evicted.     *)
LEMMA AckLetsGo ==
  ASSUME DeliveryInv, NothingMadeUp, NEW c \in Conns, ConnReaderAck(c), UNCHANGED pumpVars
  PROVE  Output!Next \/ UNCHANGED Output!outputVars
<1>1. PICK ack : ack = Head(toHost[c]).seq
  OBVIOUS
<1>2. /\ toHost[c] \in Seq(CoreFrames) /\ toHost[c] # <<>> /\ TypeOK
      /\ ring \in SUBSET (1..(next_seq - 1))
  BY DEF ConnReaderAck, DeliveryInv, TypeOK, WireTypeOK, HostTypeOK
<1>3. 1 \in 1..Len(toHost[c]) /\ Head(toHost[c]) = toHost[c][1] /\ Head(toHost[c]) \in CoreFrames
  BY <1>2, EmptySeq, LenProperties
<1>4. ack \in Nat /\ Covered(ack)
  BY <1>1, <1>3 DEF CoreFrames, DeliveryInv, ClaimsCovered
<1>5. /\ ring' = ring \ {s \in ring : s <= ack}
      /\ UNCHANGED <<next_seq, evicted, received, last_acked_seq, child_exited, at_exit, heard>>
  BY <1>1 DEF ConnReaderAck, PruneThrough, exitVars, pumpVars
<1>6. CASE ack = 0
  <2>1. \A s \in ring : ~(s <= ack)
    BY <1>2, <1>6
  <2>2. ring' = ring
    BY <2>1, <1>5
  <2> QED
    BY <2>2, <1>5 DEF Output!outputVars
<1>7. CASE ack # 0
  <2>1. ack \in 1..(next_seq - 1) /\ Output!Passed(ack)
    BY <1>2, <1>4, <1>7, CoveredIsPassed
  <2>2. ring' = {s \in ring : s > ack}
    <3>1. \A s \in ring : s \in Nat
      BY <1>2
    <3> QED
      BY <1>4, <1>5, <3>1
  <2>3. Output!LetGo(ack)
    BY <2>1, <2>2, <1>5 DEF Output!LetGo
  <2> QED
    BY <2>1, <2>3 DEF Output!Next
<1> QED
  BY <1>6, <1>7

(* A connection's tasks change nothing else of what the contract speaks of. *)
LEMMA ConnectionKeepsOutput ==
  ASSUME DeliveryInv, NothingMadeUp, NEW c \in Conns, ConnectionStep(c), UNCHANGED pumpVars
  PROVE  Output!Next \/ UNCHANGED Output!outputVars
<1>1. CASE ConnReaderAck(c)
  BY <1>1, AckLetsGo
<1>2. CASE ~ConnReaderAck(c)
  <2>1. ring' = ring
    BY <1>2 DEF ConnectionStep, WriterStep, RefuseHello, ClaimSlot, SnapshotReplay, ReplayChunk,
       StartTasks, WriterSnapshot, WriterSend, WriterExit, WriterPark, ConnReaderEof,
       ReleaseSlot, ringVars
  <2>2. UNCHANGED <<next_seq, evicted, child_exited, at_exit>>
    BY ExitLeftAlone
  <2> QED
    BY <2>1, <2>2 DEF Output!outputVars, pumpVars
<1> QED
  BY <1>1, <1>2

(* A Core reads the chunks in order, saves what it has and hears of the exit *)
(* behind all of it.                                                        *)
LEMMA CoreKeepsOutput ==
  ASSUME DeliveryInv, ExitBehindOutput, NothingMadeUp, CoreAction
  PROVE  Output!Next \/ UNCHANGED Output!outputVars
<1>t. /\ TypeOK /\ WireInOrder /\ toCore \in [Conns -> Seq(HostFrames)]
      /\ ack_watermark \in Nat /\ last_acked_seq \in Nat
      /\ (core # "down" => attempt \in Conns)
      /\ Covered(ack_watermark) /\ SeededAck
  BY MaxConnsAssumption DEF DeliveryInv, TypeOK, PumpTypeOK, WireTypeOK, Conns, ClaimsCovered
<1>h. UNCHANGED <<ring, next_seq, evicted, child_exited, at_exit>>
  BY DEF CoreAction, hostVars, ringVars, exitVars
<1>1. CASE RecvStdout
  <2> DEFINE q == toCore[attempt]
  <2>1. /\ attempt \in Conns /\ q # <<>> /\ Head(q).t = "StdoutBytes"
        /\ received' = received \union {Head(q).seq}
        /\ UNCHANGED <<last_acked_seq, heard>>
    BY <1>1, <1>t DEF RecvStdout, Incoming
  <2>2. q \in Seq(HostFrames) /\ 1 \in 1..Len(q) /\ Head(q) = q[1]
    BY <2>1, <1>t, EmptySeq, LenProperties
  <2>3. PICK seq : seq = q[1].seq
    OBVIOUS
  <2>4. seq \in 1..(next_seq - 1)
    BY <2>1, <2>2, <2>3 DEF NothingMadeUp, TaskNumbered, Numbered
  <2>5. ASSUME NEW s \in 1..(seq - 1) PROVE Got(s)
    <3>1. s \in 1..seq /\ s # seq
      BY <2>4
    <3>2. Got(s) \/ Carried(q, 1, s)
      BY <3>1, <2>1, <2>2, <2>3, <1>t DEF WireInOrder
    <3>3. Carried(q, 1, s) => s = seq
      BY <2>3 DEF Carried
    <3> QED
      BY <3>1, <3>2, <3>3
  <2>6. Output!Passed(seq - 1)
    BY <2>5 DEF Output!Passed, Got
  <2>7. Output!Read(seq)
    BY <2>1, <2>2, <2>3, <2>4, <2>6, <1>h DEF Output!Read
  <2> QED
    BY <2>4, <2>7 DEF Output!Next
<1>2. CASE PersistTick \/ FlushAck
  <2>1. /\ UNCHANGED <<received, heard>> /\ last_acked_seq' \in {last_acked_seq, ack_watermark}
        /\ last_acked_seq <= ack_watermark
    BY <1>2, <1>t DEF PersistTick, FlushAck, SeededAck
  <2>2. CASE last_acked_seq' = last_acked_seq
    BY <2>1, <2>2, <1>h DEF Output!outputVars
  <2>3. CASE last_acked_seq' # last_acked_seq
    <3> PICK n : n = ack_watermark
      OBVIOUS
    <3>1. n \in Nat \ {0} /\ n > last_acked_seq /\ last_acked_seq' = n /\ Covered(n)
      BY <2>1, <2>3, <1>t
    <3>2. n \in 1..(next_seq - 1) /\ Output!Passed(n)
      BY <3>1, <1>t, CoveredIsPassed
    <3>3. n <= next_seq - 1
      BY <3>2
    <3>4. Output!Save(n)
      BY <3>1, <3>2, <3>3, <2>1, <1>h DEF Output!Save
    <3> QED
      BY <3>2, <3>4 DEF Output!Next
  <2> QED
    BY <2>2, <2>3
<1>3. CASE RecvExited
  <2>1. heard' = TRUE /\ UNCHANGED <<received, last_acked_seq>>
    BY <1>3 DEF RecvExited
  <2>2. child_exited' /\ Covered(at_exit)'
    BY <2>1, BehindByCore DEF ExitBehindOutput
  <2>3. child_exited /\ Output!Passed(at_exit)
    BY <2>1, <2>2, <1>h DEF Covered, Got, Output!Passed
  <2>4. Output!Tell
    BY <2>1, <2>3, <1>h DEF Output!Tell
  <2> QED
    BY <2>4 DEF Output!Next
<1>4. CASE Connect \/ RecvReady \/ RecvRefusal \/ AckTick \/ RecvEof \/ CoreCrash
  <2>1. UNCHANGED <<received, last_acked_seq, heard>>
    BY <1>4 DEF Connect, RecvReady, RecvRefusal, AckTick, RecvEof, CoreCrash
  <2> QED
    BY <2>1, <1>h DEF Output!outputVars
<1> QED
  BY <1>1, <1>2, <1>3, <1>4 DEF CoreAction

(* The host and the pump implement OutputContract: through replays,          *)
(* reconnections, evictions, crashes and kills, a Core reads the output in   *)
(* order, its row names a prefix of what was read, it hears of the exit      *)
(* behind the output, and the ring lets go of nothing else.                  *)
THEOREM HostKeepsOutput == Spec => KeepsOutput
<1>1. Init => Output!Init /\ NothingMadeUp
  <2> SUFFICES ASSUME Init PROVE Output!Init /\ NothingMadeUp
    OBVIOUS
  <2>1. Output!Init
    BY DEF Init, HostInit, PumpInit, Output!Init
  <2>2. ASSUME NEW c \in Conns PROVE TaskNumbered(c)
    <3>1. conn[c].pc = "none" /\ toCore[c] = <<>>
      BY DEF Init, HostInit, WireInit, NoConn
    <3> QED
      BY <3>1 DEF TaskNumbered, Batch
  <2> QED
    BY <2>1, <2>2 DEF Init, PumpInit, NothingMadeUp
<1>2. TypeOK /\ NothingMadeUp /\ [Next]_vars => NothingMadeUp'
  BY NumberedPreserved
<1>3. HandoverInv /\ RingAccounting /\ NothingMadeUp /\ [Next]_vars
        => [Output!Next]_(Output!outputVars)
  <2> SUFFICES ASSUME HandoverInv, RingAccounting, NothingMadeUp, [Next]_vars
               PROVE  Output!Next \/ UNCHANGED Output!outputVars
    OBVIOUS
  <2>t. DeliveryInv /\ TypeOK /\ ExitSeen /\ ExitBehindOutput
    BY DEF HandoverInv, DeliveryInv
  <2>1. CASE HostAction /\ (SupervisorStep \/ OutputStep \/ MainStep)
    BY <2>1, <2>t, ProcessKeepsOutput DEF HostAction
  <2>2. ASSUME HostAction, NEW c \in Conns, ConnectionStep(c)
        PROVE  Output!Next \/ UNCHANGED Output!outputVars
    BY <2>2, <2>t, ConnectionKeepsOutput DEF HostAction
  <2>3. CASE CoreAction
    BY <2>3, <2>t, CoreKeepsOutput
  <2>4. CASE UNCHANGED vars
    BY <2>4 DEF vars, hostVars, pumpVars, ringVars, exitVars, Output!outputVars
  <2> QED
    BY <2>1, <2>2, <2>3, <2>4 DEF Next, HostAction, HostNext
<1> QED
  BY <1>1, <1>2, <1>3, TypeCorrect, HandoverInvariant, RingAccountingHolds, PTL
  DEF Spec, KeepsOutput, Output!Spec
=============================================================================
