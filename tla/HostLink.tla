------------------------------ MODULE HostLink ------------------------------
(***************************************************************************)
(* An agent host and the Cores that attach to it one after the other: the  *)
(* composition of AgentHost and ReadPump over BridgeWire, with host kills, *)
(* Core crashes and restarts between any two steps.                        *)
(***************************************************************************)
EXTENDS AgentHost, ReadPump

vars == <<hostVars, pumpVars, wireVars>>

Init == HostInit /\ PumpInit /\ WireInit

(* The Core has nothing more to expect from the host on its connection.     *)
HostEndClosed ==
  proc # "up" \/ conn[attempt].pc \in {"wdone", "closed"}

HostAction == HostNext /\ UNCHANGED pumpVars

CoreAction ==
  /\ \/ Connect /\ proc = "up"
     \/ RecvReady \/ RecvRefusal \/ RecvStdout
     \/ AckTick \/ PersistTick \/ RecvExited \/ FlushAck
     \/ RecvEof /\ HostEndClosed
     \/ CoreCrash
  /\ UNCHANGED hostVars

Next == HostAction \/ CoreAction

Spec == Init /\ [][Next]_vars

-----------------------------------------------------------------------------
(* Fairness.  Every task and thread of the host that can run does run, the  *)
(* grace timer fires, and a Core that is up keeps reading.  The agent owes  *)
(* neither output nor an exit; nobody owes a connection, a crash or a kill. *)

Alone(A) == A /\ UNCHANGED <<wireVars, pumpVars>>

RecordTask == Alone(RecordPush \/ RecordNotify)

SupervisorThread == Alone(ReportSpawnFailure \/ FlagSpawnFailure)

AcceptLoop ==
  Alone(CheckChildExit \/ ParkWaiter \/ WriteFinalInfo \/ HostExit)

GraceEnd == Alone(GraceEndsDelivered \/ GraceTimeout)

ConnectionTask(c) ==
  /\ \/ RefuseHello(c) \/ ClaimSlot(c) \/ SnapshotReplay(c)
     \/ ReplayChunk(c) \/ StartTasks(c) \/ WriterStep(c) \/ ReleaseSlot(c)
  /\ UNCHANGED pumpVars

ConnectionReader(c) ==
  (ConnReaderAck(c) \/ ConnReaderEof(c)) /\ UNCHANGED pumpVars

CorePump ==
  /\ \/ RecvReady \/ RecvRefusal \/ RecvStdout \/ RecvExited
     \/ FlushAck
     \/ RecvEof /\ HostEndClosed
  /\ UNCHANGED hostVars

Fairness ==
  /\ WF_vars(RecordTask) /\ WF_vars(SupervisorThread)
  /\ WF_vars(AcceptLoop) /\ WF_vars(GraceEnd) /\ WF_vars(CorePump)
  /\ \A c \in Conns : /\ WF_vars(Alone(AcceptConnection(c)))
                      /\ WF_vars(ConnectionTask(c))
                      /\ WF_vars(ConnectionReader(c))

FairSpec == Spec /\ Fairness

-----------------------------------------------------------------------------
(* Properties.                                                              *)

TypeOK == WireTypeOK /\ HostTypeOK /\ PumpTypeOK

(* A chunk the ring no longer holds and never evicted for want of room was   *)
(* read by a Core: an Ack never prunes output nobody has (prune_through).    *)
NoSilentLoss ==
  \A s \in 1..(next_seq - 1) : s \in ring \union received \union evicted

(* The watermark a Core acknowledges and the one it persists stand for an    *)
(* unbroken prefix of the output: replay from the row's last_acked_seq skips *)
(* nothing, whatever was pushed, pruned or evicted between the two looks     *)
(* run_connection takes at the ring.                                         *)
WatermarkGapFree ==
  \A s \in 1..(next_seq - 1) :
    (s <= ack_watermark \/ s <= last_acked_seq) => s \in received \union evicted

(* The byte count push, evict and prune_through keep is the number of bytes  *)
(* held, and stays within the capacity.                                      *)
RingAccounting == total_bytes = Bytes(size, ring) /\ total_bytes <= Capacity

HoldsSlot(c) ==
  conn[c].pc \in {"claimed", "replay", "snapshot", "write", "parked", "wdone"}

(* connection_active counts the connections past the handshake: one Core at  *)
(* a time is streamed to, and the slot is never leaked or given out twice.   *)
SlotHeldOnce ==
  Cardinality({c \in Conns : HoldsSlot(c)}) = IF connection_active THEN 1 ELSE 0

(* A Core that reads AgentExited has by then read every chunk recorded       *)
(* before the exit flag was set, short of what was evicted.                  *)
ExitAfterOutput == heard => (1..at_exit) \subseteq (received \union evicted)

(* A host that left by itself, its socket gone, saw its agent exit and put   *)
(* the exit on disk for the Core's cold path, unless the disk refused it.    *)
ExitOnDisk == ~socket => final_info # "none" /\ child_exited

(* The row's last_acked_seq never moves back while the host lives, across    *)
(* Core crashes and adoptions.                                               *)
AckNeverRegresses == [][last_acked_seq' >= last_acked_seq]_vars

(* The detailed host and pump implement OutputContract: what has arrived at   *)
(* a Core, through replays, reconnections, evictions and crashes, is what a   *)
(* reader of an ordered log would have.                                       *)
Output == INSTANCE OutputContract WITH
  made <- next_seq - 1, kept <- ring, lost <- evicted, read <- received,
  saved <- last_acked_seq, ended <- child_exited, last <- at_exit, told <- heard

KeepsOutput == Output!Spec

(* Once the accept loop has entered the post-exit grace window the host ends *)
(* and is off the machine, whatever its connections do.                      *)
GraceEndsHost == (accept = "grace") ~> (proc # "up")

-----------------------------------------------------------------------------
(* The inductive invariant behind NoSilentLoss, WatermarkGapFree and          *)
(* AckNeverRegresses: output leaves the ring, travels and is acknowledged     *)
(* without a gap.                                                             *)

Got(s) == s \in received \union evicted

Covered(n) == \A s \in 1..n : Got(s)

(* A chunk on the wire is behind all the earlier ones still needed.           *)
WireInOrder ==
  \A c \in Conns : \A i \in 1..Len(toCore[c]) :
    toCore[c][i].t = "StdoutBytes" =>
      \A s \in 1..toCore[c][i].seq : Got(s) \/ Carried(toCore[c], i, s)

(* What the Core claims to have, in any Hello or Ack still unread, it has.    *)
ClaimsCovered ==
  /\ Covered(ack_watermark) /\ Covered(last_acked_seq)
  /\ \A c \in Conns : \A i \in 1..Len(toHost[c]) : Covered(toHost[c][i].seq)

(* A connection task's mark, and every chunk it is about to write, has all    *)
(* earlier chunks delivered, on the wire, or in the same batch.               *)
Batch(c) == IF conn[c].pc \in {"replay", "write"} THEN conn[c].pend ELSE {}

Settled(c, s) == Got(s) \/ OnWire(c, s) \/ s \in Batch(c)

TaskCovered(c) ==
  /\ conn[c].pc = "claimed" => conn[c].mark < next_seq /\ Covered(conn[c].hello)
  /\ conn[c].pc \in {"replay", "snapshot", "write", "parked"} =>
       \A s \in 1..conn[c].mark : Settled(c, s)
  /\ \A q \in Batch(c) : \A s \in 1..q : Settled(c, s)

(* Nothing happens on a connection before the Core opens it.                  *)
UnopenedIdle ==
  \A c \in Conns : c > attempt => conn[c].pc \in {"none", "closed"} /\ toHost[c] = <<>>

SeededAck == core \in {"hello", "pump", "flush"} => last_acked_seq <= ack_watermark

DeliveryInv ==
  /\ TypeOK
  /\ NoSilentLoss
  /\ ClaimsCovered
  /\ WireInOrder
  /\ \A c \in coreOpen : TaskCovered(c)
  /\ UnopenedIdle
  /\ SeededAck

-----------------------------------------------------------------------------
(* The inductive invariants behind SlotHeldOnce, ExitOnDisk and               *)
(* ExitAfterOutput.                                                          *)

SlotOwned ==
  /\ \A c, d \in Conns : HoldsSlot(c) /\ HoldsSlot(d) => c = d
  /\ connection_active <=> \E c \in Conns : HoldsSlot(c)

(* What the accept loop and the disk have seen of the exit, and the two       *)
(* supervisors' way out.                                                      *)
ExitSeen ==
  /\ proc = "up" /\ accept # "accepting" => child_exited
  /\ final_info # "none" => child_exited
  /\ ~socket => final_info # "none"
  /\ child_exited => sup \in {"returned", "dead"}

(* A writer that saw the exit flag, and an AgentExited on its way, are behind *)
(* all the output recorded before the flag.                                   *)
ExitBehindOutput ==
  /\ \A c \in coreOpen : conn[c].pc = "write" /\ conn[c].exited =>
       child_exited /\ \A s \in 1..at_exit : Settled(c, s)
  /\ \A c \in Conns : \A i \in 1..Len(toCore[c]) :
       toCore[c][i].t = "AgentExited" =>
         child_exited /\ \A s \in 1..at_exit : Got(s) \/ Carried(toCore[c], i, s)
  /\ heard => child_exited /\ Covered(at_exit)

HandoverInv == DeliveryInv /\ SlotOwned /\ ExitSeen /\ ExitBehindOutput

(* Behind KeepsOutput: a chunk that is read, on the wire or about to be        *)
(* written was recorded before.                                               *)
Numbered == 1..(next_seq - 1)

TaskNumbered(c) ==
  /\ Batch(c) \subseteq Numbered
  /\ \A i \in 1..Len(toCore[c]) :
       toCore[c][i].t = "StdoutBytes" => toCore[c][i].seq \in Numbered

NothingMadeUp == received \subseteq Numbered /\ \A c \in Conns : TaskNumbered(c)

-----------------------------------------------------------------------------
(* Statements of the code's own comments that its behaviour does not keep.   *)

(* main.rs: "Drive a single accepted Core connection ... to disconnect.      *)
(* Returns when the connection drops; the outer accept loop is then free to  *)
(* take the next one."  The slot of a dropped connection is given back.      *)
DroppedConnectionReleased ==
  \A c \in Conns :
    (HoldsSlot(c) /\ c \notin coreOpen) ~> (~HoldsSlot(c) \/ proc # "up")

(* main.rs: "The child_exited flag is set by the supervisor before it        *)
(* returns, so the wait_for_child_exit guard fires."                         *)
SupervisorSetsFlag == sup = "returned" => child_exited

(* main.rs: "Set to true when the PTY child has exited.  The connection      *)
(* writer drains remaining ring contents then sends AgentExited."  A         *)
(* connected Core whose connection stays up is told of the exit.             *)
ConnectedCoreHearsExit ==
  \A c \in Conns :
    (child_exited /\ HoldsSlot(c))
      ~> (heard \/ c \notin coreOpen \/ proc = "killed")
=============================================================================
