------------------------------ MODULE AgentHost ------------------------------
(***************************************************************************)
(* One concerto-agent-host process (crates/agent-host/src): the supervisor *)
(* of the agent CLI, the reader thread and record task that move its       *)
(* output into the replay ring, the accept loop, and one task group per    *)
(* accepted Core connection.                                               *)
(*                                                                         *)
(* Chunks are named by the sequence number push() gives them, so the       *)
(* VecDeque of chunks, always ascending, is the set of the numbers it      *)
(* holds and its front is the least of them.                               *)
(***************************************************************************)
EXTENDS BridgeWire, FiniteSetsExt

CONSTANTS
  FailingModes,        \* I/O modes whose agent may fail to start here
  Capacity,            \* ring capacity, in bytes
  ChunkSizes,          \* sizes one read of the agent's output may have
  MaxChunks,           \* chunks an agent prints before it falls silent
  GraceOutlastsTasks   \* POST_EXIT_GRACE is longer than any runnable task needs

ASSUME FailingModesAssumption == FailingModes \subseteq {"pty", "pipe"}
ASSUME CapacityAssumption == Capacity \in Nat
ASSUME ChunkSizesAssumption == ChunkSizes \subseteq Nat \ {0}
ASSUME MaxChunksAssumption == MaxChunks \in Nat
ASSUME GraceAssumption == GraceOutlastsTasks \in BOOLEAN

VARIABLES
  proc,                \* the host process: "up", "gone", or "killed"
  sup,                 \* run_pty / run_pipe: where the supervisor thread is
  chan,                \* chunk_tx -> chunk_rx: chunk sizes not yet recorded
  rec,                 \* record task: "recv", or "notify" after a push
  ring,                \* sequence numbers held by the RingBuffer
  size,                \* bytes of every chunk pushed so far, by number
  next_seq, total_bytes,
  evicted,             \* history: chunks dropped by evict()
  child_exited, delivered_exit, connection_active,
  at_exit,             \* history: chunks recorded when child_exited was set
  accept,              \* accept loop: "accepting", "grace", "stopped"
  waiter,              \* wait_for_child_exit: "check", "gap", "parked"
  final_info,          \* the exit record: "none", "written", or "failed"
  socket,              \* the socket file is there
  conn                 \* connection -> state of its run_connection task group

ringVars == <<ring, size, next_seq, total_bytes, evicted>>
exitVars == <<child_exited, at_exit, delivered_exit>>
diskVars == <<final_info, socket>>
hostVars == <<proc, sup, chan, rec, ringVars, exitVars,
              connection_active, accept, waiter, diskVars, conn>>

-----------------------------------------------------------------------------
(* RingBuffer. *)

(* The bytes of the chunks in S, each named by its chunk and its place in it. *)
Places(sizes, S) == UNION {{s} \X (1..sizes[s]) : s \in S}

Bytes(sizes, S) == Cardinality(Places(sizes, S))

LastSeq(r) == IF r = {} THEN 0 ELSE Max(r)

ReplayPast(r, last) == {s \in r : s > last}

(* The chunks evict() pops: the shortest run of oldest chunks whose removal *)
(* brings the tracked byte count back under the capacity.                   *)
EvictedBy(r, sizes, total) ==
  {s \in r : total - Bytes(sizes, {t \in r : t < s}) > Capacity}

(* Mutant of Push: the chunk is stamped after the counter has moved on.     *)
PushStampedLate(len) ==
  /\ next_seq' = next_seq + 1
  /\ size' = [size EXCEPT ![next_seq] = len]
  /\ ring' = ring \union {next_seq + 1}
  /\ total_bytes' = total_bytes + len
  /\ UNCHANGED evicted

Push(len) ==
  LET sizes == [size EXCEPT ![next_seq] = len]
      r     == ring \union {next_seq}
      total == total_bytes + len
      gone  == EvictedBy(r, sizes, total)
  IN /\ next_seq' = next_seq + 1
     /\ size' = sizes
     /\ ring' = r \ gone
     /\ total_bytes' = total - Bytes(sizes, gone)
     /\ evicted' = evicted \union gone

(* Mutants of PruneThrough: one chunk too many; the byte count forgotten.    *)
PruneOneTooMany(ack) ==
  LET gone == {s \in ring : s <= ack + 1}
  IN /\ ring' = ring \ gone
     /\ total_bytes' = total_bytes - Bytes(size, gone)
     /\ UNCHANGED <<size, next_seq, evicted>>

PruneKeepsBytes(ack) ==
  /\ ring' = {s \in ring : s > ack}
  /\ UNCHANGED <<total_bytes, size, next_seq, evicted>>

PruneThrough(ack) ==
  LET gone == {s \in ring : s <= ack}
  IN /\ ring' = ring \ gone
     /\ total_bytes' = total_bytes - Bytes(size, gone)
     /\ UNCHANGED <<size, next_seq, evicted>>

-----------------------------------------------------------------------------
(* tokio's Notify::notify_waiters wakes exactly the tasks parked on it at   *)
(* the call; a task on its way to notified() is not woken later.            *)

Woken(cs) ==
  [c \in Conns |-> IF cs[c].pc = "parked" THEN [cs[c] EXCEPT !.pc = "snapshot"]
                                          ELSE cs[c]]

NotifyWaiters ==
  /\ conn' = Woken(conn)
  /\ waiter' = IF waiter = "parked" THEN "check" ELSE waiter

-----------------------------------------------------------------------------
Pcs == {"none", "hello", "claimed", "replay", "snapshot", "write", "parked",
        "wdone", "closed"}

ConnTasks == [pc : Pcs, rd : {"none", "reading", "done"}, hello : Nat,
              mark : Nat, pend : SUBSET (1..MaxChunks), exited : BOOLEAN]

NoConn == [pc |-> "none", rd |-> "none", hello |-> 0, mark |-> 0,
           pend |-> {}, exited |-> FALSE]

Closed == [NoConn EXCEPT !.pc = "closed"]

(* The process just after main bound the socket and spawned its supervisor. *)
HostInit ==
  /\ proc = "up"
  /\ sup = "setup"
  /\ chan = <<>>
  /\ rec = "recv"
  /\ ring = {}
  /\ size = [s \in 1..MaxChunks |-> 0]
  /\ next_seq = 1
  /\ total_bytes = 0
  /\ evicted = {}
  /\ child_exited = FALSE
  /\ at_exit = 0
  /\ delivered_exit = FALSE
  /\ connection_active = FALSE
  /\ accept = "accepting"
  /\ waiter = "check"
  /\ final_info = "none"
  /\ socket = TRUE
  /\ conn = [c \in Conns |-> NoConn]

-----------------------------------------------------------------------------
(* The agent CLI, its supervisor thread, the reader and the record task.    *)

SpawnChild ==
  /\ proc = "up" /\ sup = "setup"
  /\ sup' = "child"
  /\ UNCHANGED <<proc, chan, rec, ringVars, exitVars, connection_active, accept,
                 waiter, diskVars, conn>>

(* Setting the agent up fails (openpty, spawn, clone reader, take writer;   *)
(* spawn alone in pipe mode): the supervisor thread records an error line.  *)
SpawnFails(mode) ==
  /\ proc = "up" /\ sup = "setup" /\ next_seq <= MaxChunks
  /\ sup' = mode
  /\ \E len \in ChunkSizes : Push(len)
  /\ UNCHANGED <<proc, chan, rec, exitVars, connection_active, accept, waiter,
                 diskVars, conn>>

(* record_chunk notifies; run_pty then returns without setting the flag ... *)
ReportSpawnFailure ==
  /\ proc = "up" /\ sup \in FailingModes
  /\ sup' = IF sup = "pipe" THEN "failed" ELSE "returned"
  /\ NotifyWaiters
  /\ UNCHANGED <<proc, chan, rec, ringVars, exitVars, connection_active, accept, diskVars>>

(* ... and run_pipe sets it and notifies once more.                         *)
FlagSpawnFailure ==
  /\ proc = "up" /\ sup = "failed"
  /\ sup' = "returned"
  /\ child_exited' = TRUE
  /\ at_exit' = next_seq - 1
  /\ NotifyWaiters
  /\ UNCHANGED <<proc, chan, rec, ringVars, delivered_exit, connection_active,
                 accept, diskVars>>

(* The reader thread forwards one read of the agent's output.               *)
ReaderForward ==
  /\ proc = "up" /\ sup = "child"
  /\ next_seq + Len(chan) <= MaxChunks
  /\ \E len \in ChunkSizes : chan' = Append(chan, len)
  /\ UNCHANGED <<proc, sup, rec, ringVars, exitVars, connection_active, accept,
                 waiter, diskVars, conn>>

(* child.wait() returned and the reader thread, at end of file, was joined. *)
(* The record task is not awaited: chan may still hold output.              *)
SetChildExited ==
  /\ proc = "up" /\ sup = "child"
  /\ sup' = "returned"
  /\ child_exited' = TRUE
  /\ at_exit' = next_seq - 1
  /\ NotifyWaiters
  /\ UNCHANGED <<proc, chan, rec, ringVars, delivered_exit, connection_active,
                 accept, diskVars>>

RecordPush ==
  /\ proc = "up" /\ rec = "recv" /\ chan # <<>>
  /\ Push(Head(chan))
  /\ chan' = Tail(chan)
  /\ rec' = "notify"
  /\ UNCHANGED <<proc, sup, exitVars, connection_active, accept, waiter,
                 diskVars, conn>>

RecordNotify ==
  /\ proc = "up" /\ rec = "notify"
  /\ rec' = "recv"
  /\ NotifyWaiters
  /\ UNCHANGED <<proc, sup, chan, ringVars, exitVars, connection_active,
                 accept, diskVars>>

-----------------------------------------------------------------------------
(* The accept loop of main.                                                 *)

(* wait_for_child_exit reads the flag and, finding it unset, lets go of the *)
(* lock before it registers with notified().                                *)
CheckChildExit ==
  /\ proc = "up" /\ accept = "accepting" /\ waiter = "check"
  /\ IF child_exited THEN accept' = "grace" /\ UNCHANGED waiter
                     ELSE waiter' = "gap" /\ UNCHANGED accept
  /\ UNCHANGED <<proc, sup, chan, rec, ringVars, exitVars,
                 connection_active, diskVars, conn>>

ParkWaiter ==
  /\ proc = "up" /\ accept = "accepting" /\ waiter = "gap"
  /\ waiter' = "parked"
  /\ UNCHANGED <<proc, sup, chan, rec, ringVars, exitVars,
                 connection_active, accept, diskVars, conn>>

(* A new iteration of the loop makes a new wait_for_child_exit future.      *)
AcceptConnection(c) ==
  /\ proc = "up" /\ accept # "stopped" /\ waiter # "gap"
  /\ conn[c].pc = "none" /\ toHost[c] # <<>>
  /\ conn' = [conn EXCEPT ![c].pc = "hello"]
  /\ waiter' = "check"
  /\ UNCHANGED <<proc, sup, chan, rec, ringVars, exitVars,
                 connection_active, accept, diskVars>>

(* The grace window ends early once AgentExited was written to a Core.      *)
GraceEndsDelivered ==
  /\ proc = "up" /\ accept = "grace" /\ delivered_exit
  /\ accept' = "stopped"
  /\ UNCHANGED <<proc, sup, chan, rec, ringVars, exitVars,
                 connection_active, waiter, diskVars, conn>>

TasksAtRest ==
  /\ chan = <<>> /\ rec = "recv"
  /\ \A c \in Conns : conn[c].pc \in {"none", "parked", "wdone", "closed"}

(* Mutant of GraceTimeout: the grace window waits for a delivery only.      *)
GraceWithoutTimeout == FALSE

GraceTimeout ==
  /\ proc = "up" /\ accept = "grace"
  /\ GraceOutlastsTasks => TasksAtRest
  /\ accept' = "stopped"
  /\ UNCHANGED <<proc, sup, chan, rec, ringVars, exitVars,
                 connection_active, waiter, diskVars, conn>>

(* A write that fails is logged and nothing more.                           *)
WriteFinalInfo ==
  /\ proc = "up" /\ accept = "stopped" /\ sup = "returned" /\ final_info = "none"
  /\ final_info' \in {"written", "failed"}
  /\ UNCHANGED <<proc, sup, chan, rec, ringVars, exitVars,
                 connection_active, accept, waiter, socket, conn>>

(* The process ends: every task and thread dies, every connection closes.   *)
(* The ring is kept as a record of what was still in it.                    *)
ProcessEnds(how) ==
  /\ proc = "up"
  /\ proc' = how
  /\ sup' = "dead"
  /\ chan' = <<>>
  /\ rec' = "recv"
  /\ connection_active' = FALSE
  /\ accept' = "stopped"
  /\ waiter' = "check"
  /\ conn' = [c \in Conns |-> Closed]
  /\ UNCHANGED <<ringVars, exitVars, final_info>>

(* Mutant of HostExit: main returns without having written final-info.      *)
HostExitUnrecorded ==
  /\ accept = "stopped"
  /\ socket' = FALSE
  /\ ProcessEnds("gone")

(* The socket file is removed and main returns.                             *)
HostExit ==
  /\ final_info # "none"
  /\ socket' = FALSE
  /\ ProcessEnds("gone")

(* SIGKILL: the Core's stop_session, or the machine.  Both files stay.      *)
HostKilled ==
  /\ ProcessEnds("killed")
  /\ UNCHANGED socket

-----------------------------------------------------------------------------
(* run_connection: the handshake and replay of one accepted connection,     *)
(* then its writer and reader tasks.                                        *)

(* What a connection task leaves alone, besides conn and the wire.          *)
taskFrame == <<proc, sup, chan, rec, size, next_seq, evicted,
               child_exited, at_exit, accept, waiter, diskVars>>

Send(c, frame) == toCore' = [toCore EXCEPT ![c] = Append(@, frame)]

GetFrame(c) == toHost' = [toHost EXCEPT ![c] = Tail(@)]

(* Wrong cookie, or the single-connection slot is taken: say so and close.  *)
RefuseHello(c) ==
  /\ proc = "up" /\ conn[c].pc = "hello" /\ toHost[c] # <<>>
  /\ LET bad == Head(toHost[c]).t = "BadHello"
     IN /\ bad \/ connection_active
        /\ IF c \in coreOpen
           THEN Send(c, Frame(IF bad THEN "CookieMismatch"
                                     ELSE "AlreadyConnected", 0))
           ELSE UNCHANGED toCore
  /\ GetFrame(c)
  /\ conn' = [conn EXCEPT ![c] = Closed]
  /\ UNCHANGED <<taskFrame, ring, total_bytes, delivered_exit,
                 connection_active, coreOpen>>

(* Mutant of SlotFree: a second Core is let in.                             *)
SlotForEveryone == TRUE

SlotFree == ~connection_active

(* Claim the slot, read the ring's high-water mark and answer Ready.  If    *)
(* the Core is gone by then the write fails and the slot is given back.     *)
ClaimSlot(c) ==
  /\ proc = "up" /\ conn[c].pc = "hello" /\ toHost[c] # <<>>
  /\ Head(toHost[c]).t = "Hello" /\ SlotFree
  /\ GetFrame(c)
  /\ IF c \in coreOpen
     THEN /\ Send(c, Frame("Ready", LastSeq(ring)))
          /\ conn' = [conn EXCEPT ![c] =
                        [@ EXCEPT !.pc = "claimed",
                                  !.hello = Head(toHost[c]).seq,
                                  !.mark = LastSeq(ring)]]
          /\ connection_active' = TRUE
     ELSE /\ conn' = [conn EXCEPT ![c] = Closed]
          /\ UNCHANGED <<toCore, connection_active>>
  /\ UNCHANGED <<taskFrame, ring, total_bytes, delivered_exit, coreOpen>>

(* A second look at the ring, after Ready was written.                      *)
SnapshotReplay(c) ==
  /\ proc = "up" /\ conn[c].pc = "claimed"
  /\ conn' = [conn EXCEPT ![c] =
                [@ EXCEPT !.pc = "replay",
                          !.pend = ReplayPast(ring, conn[c].hello),
                          !.hello = 0]]
  /\ UNCHANGED <<taskFrame, ringVars, exitVars, connection_active, wireVars>>

ReplayChunk(c) ==
  /\ proc = "up" /\ conn[c].pc = "replay" /\ conn[c].pend # {}
  /\ IF c \in coreOpen
     THEN LET s == Min(conn[c].pend)
          IN /\ Send(c, Frame("StdoutBytes", s))
             /\ conn' = [conn EXCEPT ![c].pend = @ \ {s}]
             /\ UNCHANGED connection_active
     ELSE /\ conn' = [conn EXCEPT ![c] = Closed]
          /\ connection_active' = FALSE
          /\ UNCHANGED toCore
  /\ UNCHANGED <<taskFrame, ring, total_bytes, delivered_exit, toHost, coreOpen>>

(* Mutant of StartTasks: the writer starts at the ring's mark of the moment.*)
StartTasksFresh(c) ==
  /\ proc = "up" /\ conn[c].pc = "replay" /\ conn[c].pend = {}
  /\ conn' = [conn EXCEPT ![c] = [@ EXCEPT !.pc = "snapshot", !.rd = "reading",
                                           !.mark = LastSeq(ring)]]
  /\ UNCHANGED <<taskFrame, ringVars, exitVars, connection_active, wireVars>>

(* The replay is out: spawn the writer, at Ready's mark, and the reader.    *)
StartTasks(c) ==
  /\ proc = "up" /\ conn[c].pc = "replay" /\ conn[c].pend = {}
  /\ conn' = [conn EXCEPT ![c] = [@ EXCEPT !.pc = "snapshot", !.rd = "reading"]]
  /\ UNCHANGED <<taskFrame, ringVars, exitVars, connection_active, wireVars>>

(* One look, under the ring lock, at the chunks past the mark and the flag. *)
WriterSnapshot(c) ==
  /\ proc = "up" /\ conn[c].pc = "snapshot"
  /\ conn' = [conn EXCEPT ![c] =
                [@ EXCEPT !.pc = "write",
                          !.pend = ReplayPast(ring, conn[c].mark),
                          !.exited = child_exited]]
  /\ UNCHANGED <<taskFrame, ringVars, exitVars, connection_active, wireVars>>

WriterDone(task) == [NoConn EXCEPT !.pc = "wdone", !.rd = task.rd]

WriterSend(c) ==
  /\ proc = "up" /\ conn[c].pc = "write" /\ conn[c].pend # {}
  /\ IF c \in coreOpen
     THEN LET s == Min(conn[c].pend)
          IN /\ Send(c, Frame("StdoutBytes", s))
             /\ conn' = [conn EXCEPT ![c].pend = @ \ {s}, ![c].mark = s]
     ELSE /\ conn' = [conn EXCEPT ![c] = WriterDone(@)]
          /\ UNCHANGED toCore
  /\ UNCHANGED <<taskFrame, ringVars, exitVars, connection_active, toHost, coreOpen>>

(* Mutant of WriterExit: the exit is sent ahead of the output at hand.      *)
WriterExitFirst(c) ==
  /\ proc = "up" /\ conn[c].pc = "write" /\ conn[c].exited
  /\ IF c \in coreOpen
     THEN /\ Send(c, Frame("AgentExited", 0))
          /\ delivered_exit' = TRUE
     ELSE UNCHANGED <<toCore, delivered_exit>>
  /\ conn' = [conn EXCEPT ![c] = WriterDone(@)]
  /\ UNCHANGED <<taskFrame, ring, total_bytes, connection_active, toHost, coreOpen>>

(* Everything of the snapshot is written and it saw the exit: AgentExited,  *)
(* half-close, release the accept loop.                                     *)
WriterExit(c) ==
  /\ proc = "up" /\ conn[c].pc = "write" /\ conn[c].pend = {} /\ conn[c].exited
  /\ IF c \in coreOpen
     THEN /\ Send(c, Frame("AgentExited", 0))
          /\ delivered_exit' = TRUE
     ELSE UNCHANGED <<toCore, delivered_exit>>
  /\ conn' = [conn EXCEPT ![c] = WriterDone(@)]
  /\ UNCHANGED <<taskFrame, ring, total_bytes, connection_active, toHost, coreOpen>>

WriterPark(c) ==
  /\ proc = "up" /\ conn[c].pc = "write" /\ conn[c].pend = {} /\ ~conn[c].exited
  /\ conn' = [conn EXCEPT ![c].pc = "parked"]
  /\ UNCHANGED <<taskFrame, ringVars, exitVars, connection_active, wireVars>>

ConnReaderAck(c) ==
  /\ proc = "up" /\ conn[c].rd = "reading" /\ toHost[c] # <<>>
  /\ Head(toHost[c]).t = "Ack"
  /\ PruneThrough(Head(toHost[c]).seq)
  /\ GetFrame(c)
  /\ UNCHANGED <<proc, sup, chan, rec, exitVars, connection_active, accept,
                 waiter, diskVars, conn, toCore, coreOpen>>

ConnReaderEof(c) ==
  /\ proc = "up" /\ conn[c].rd = "reading" /\ toHost[c] = <<>> /\ c \notin coreOpen
  /\ conn' = [conn EXCEPT ![c].rd = "done"]
  /\ UNCHANGED <<taskFrame, ringVars, exitVars, connection_active, wireVars>>

(* Both tasks are joined; only then is the slot given back.                 *)
ReleaseSlot(c) ==
  /\ proc = "up" /\ conn[c].pc = "wdone" /\ conn[c].rd = "done"
  /\ conn' = [conn EXCEPT ![c] = Closed]
  /\ connection_active' = FALSE
  /\ UNCHANGED <<taskFrame, ringVars, exitVars, wireVars>>

-----------------------------------------------------------------------------
SupervisorStep ==
  /\ \/ SpawnChild \/ ReportSpawnFailure \/ FlagSpawnFailure \/ SetChildExited
     \/ \E mode \in FailingModes : SpawnFails(mode)
  /\ UNCHANGED wireVars

OutputStep ==
  /\ ReaderForward \/ RecordPush \/ RecordNotify
  /\ UNCHANGED wireVars

MainStep ==
  /\ \/ CheckChildExit \/ ParkWaiter \/ GraceEndsDelivered \/ GraceTimeout
     \/ WriteFinalInfo \/ HostExit \/ HostKilled
     \/ \E c \in Conns : AcceptConnection(c)
  /\ UNCHANGED wireVars

WriterStep(c) ==
  \/ WriterSnapshot(c) \/ WriterSend(c) \/ WriterExit(c) \/ WriterPark(c)

ConnectionStep(c) ==
  \/ RefuseHello(c) \/ ClaimSlot(c)
  \/ SnapshotReplay(c) \/ ReplayChunk(c) \/ StartTasks(c)
  \/ WriterStep(c)
  \/ ConnReaderAck(c) \/ ConnReaderEof(c) \/ ReleaseSlot(c)

HostNext ==
  SupervisorStep \/ OutputStep \/ MainStep \/ (\E c \in Conns : ConnectionStep(c))

(* What total_bytes holds is the matter of HostLink's RingAccounting.       *)
HostTypeOK ==
  /\ proc \in {"up", "gone", "killed"}
  /\ sup \in {"setup", "pty", "pipe", "failed", "child", "returned", "dead"}
  /\ chan \in Seq(ChunkSizes)
  /\ rec \in {"recv", "notify"}
  /\ next_seq \in 1..(MaxChunks + 1)
  /\ next_seq + Len(chan) <= MaxChunks + 1
  /\ sup = "setup" => chan = <<>>
  /\ ring \subseteq 1..(next_seq - 1)
  /\ evicted \subseteq 1..(next_seq - 1)
  /\ size \in [1..MaxChunks -> Nat]
  /\ at_exit \in 0..(next_seq - 1)
  /\ child_exited \in BOOLEAN /\ delivered_exit \in BOOLEAN
  /\ connection_active \in BOOLEAN
  /\ final_info \in {"none", "written", "failed"} /\ socket \in BOOLEAN
  /\ accept \in {"accepting", "grace", "stopped"}
  /\ waiter \in {"check", "gap", "parked"}
  /\ conn \in [Conns -> ConnTasks]
=============================================================================
