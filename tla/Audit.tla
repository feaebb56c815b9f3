------------------------------- MODULE Audit --------------------------------
(***************************************************************************)
(* The audit log (crates/core/src/audit): appenders put events into a      *)
(* bounded queue without waiting, one task hands them to the JSONL file,   *)
(* which turns over by day and by size and drops days past retention.      *)
(* The writer runs until shutdown and drains what is queued then.  A       *)
(* restart opens the day's file again.                                     *)
(***************************************************************************)
EXTENDS Integers, Sequences, FiniteSets

CONSTANTS
  QueueCap,            \* AUDIT_QUEUE_CAPACITY
  MaxLines,            \* RotationConfig::max_bytes, in events of one size
  RetentionDays,
  MaxDays, MaxAppends, MaxIoFaults, MaxRestarts

ASSUME AuditAssumption ==
  /\ {QueueCap, MaxLines} \subseteq Nat \ {0}
  /\ {RetentionDays, MaxDays, MaxAppends, MaxIoFaults, MaxRestarts} \subseteq Nat

VARIABLES
  day,
  queue,               \* events are numbered as they are appended
  writer,              \* the task: running, draining, ended, panicked
  open,                \* [date, present, bytes], OpenFile
  files,               \* <<day, n>> -> lines; n = 0 is the day's current file
  pruned,              \* history: days whose files retention removed
  written,             \* history: <<line, day>> for each write that succeeded
  appends, ioFaults, restarts

adVars == <<day, queue, writer, open, files, pruned, written, appends, ioFaults, restarts>>

NoDay == -1
Unopened == [date |-> NoDay, present |-> FALSE, bytes |-> 0]

AuditInit ==
  /\ day = 0 /\ queue = << >> /\ writer = "running"
  /\ open = Unopened
  /\ files = << >> /\ pruned = {} /\ written = {}
  /\ appends = 0 /\ ioFaults = 0 /\ restarts = 0

IoFault == ioFaults < MaxIoFaults /\ ioFaults' = ioFaults + 1

NextDay ==
  /\ day < MaxDays
  /\ day' = day + 1
  /\ UNCHANGED <<queue, writer, open, files, pruned, written, appends, ioFaults, restarts>>

\* try_send: a full queue, or a writer that is gone, drops the event.
AppendEvent ==
  /\ appends < MaxAppends
  /\ appends' = appends + 1
  /\ queue' = IF Len(queue) < QueueCap /\ writer \in {"running", "draining"}
                THEN Append(queue, appends + 1) ELSE queue
  /\ UNCHANGED <<day, writer, open, files, pruned, written, ioFaults, restarts>>

-----------------------------------------------------------------------------
(* JsonlFileSubscriber::on_event                                           *)

Current == <<day, 0>>
LinesOf(fs, f) == IF f \in DOMAIN fs THEN fs[f] ELSE << >>
With(fs, f, lines) == [g \in DOMAIN fs \cup {f} |-> IF g = f THEN lines ELSE fs[g]]

Taken == queue' = Tail(queue)
TurnsOver == open.date # day
RollsOver(bytes) == bytes > 0 /\ bytes + 1 > MaxLines

\* prune_expired, when the day's file is opened.
Kept(fs) == [f \in {g \in DOMAIN fs : g[1] >= day - RetentionDays} |-> fs[f]]

\* The first number without a file, and a slip that takes the first number.
SeqOne(fs) == 1
FreeSeq(fs) == CHOOSE n \in 1..(MaxAppends + 1) :
                 <<day, n>> \notin DOMAIN fs /\ \A m \in 1..(n - 1) : <<day, m>> \in DOMAIN fs

\* What the file is when the line is to be written: opened for a new day (its
\* bytes read from the disk), rolled by size, or as it was.
Opened ==
  IF TurnsOver THEN [fs |-> With(Kept(files), Current, LinesOf(files, Current)),
                     bytes |-> Len(LinesOf(files, Current))]
               ELSE [fs |-> files, bytes |-> open.bytes]

Rolled(o) ==
  IF RollsOver(o.bytes)
    THEN [fs |-> With(With(o.fs, <<day, FreeSeq(o.fs)>>, o.fs[Current]), Current, << >>),
          bytes |-> 0]
    ELSE o

Ready == writer \in {"running", "draining"} /\ queue # << >>
Prune == pruned' = IF TurnsOver THEN pruned \cup {d \in 0..MaxDays : d < day - RetentionDays}
                                ELSE pruned

WriteLine ==
  /\ Ready /\ (TurnsOver \/ open.present)
  /\ LET o == Rolled(Opened)
     IN  /\ files' = With(o.fs, Current, Append(o.fs[Current], Head(queue)))
         /\ open' = [date |-> day, present |-> TRUE, bytes |-> o.bytes + 1]
  /\ written' = written \cup {<<Head(queue), day>>}
  /\ Prune /\ Taken
  /\ UNCHANGED <<day, writer, appends, ioFaults, restarts>>

\* The line cannot be written: the event is dropped, the file stays open.
WriteFails ==
  /\ Ready /\ (TurnsOver \/ open.present) /\ IoFault
  /\ LET o == Rolled(Opened)
     IN files' = o.fs /\ open' = [date |-> day, present |-> TRUE, bytes |-> o.bytes]
  /\ Prune /\ Taken
  /\ UNCHANGED <<day, writer, written, appends, restarts>>

\* The day's file cannot be opened.  The old one has been taken already.
OpenFails ==
  /\ Ready /\ TurnsOver /\ IoFault
  /\ open' = [open EXCEPT !.present = FALSE]
  /\ Taken
  /\ UNCHANGED <<day, writer, files, pruned, written, appends, restarts>>

\* Size rotation: the rename fails, or it succeeds and the new file cannot be
\* opened.  The file has been taken, its date is kept.
RollFails(renamed) ==
  /\ Ready /\ (TurnsOver \/ open.present) /\ RollsOver(Opened.bytes) /\ IoFault
  /\ files' = IF renamed
                THEN LET fs == Opened.fs
                     IN  [f \in (DOMAIN fs \cup {<<day, FreeSeq(fs)>>}) \ {Current} |->
                            IF f = <<day, FreeSeq(fs)>> THEN fs[Current] ELSE fs[f]]
                ELSE Opened.fs
  /\ open' = [date |-> day, present |-> FALSE, bytes |-> Opened.bytes]
  /\ Prune /\ Taken
  /\ UNCHANGED <<day, writer, written, appends, restarts>>

\* expect("file present after rotation checks") ends the writer's task.
Panic ==
  /\ Ready /\ ~TurnsOver /\ ~open.present
  /\ writer' = "panicked" /\ queue' = << >>
  /\ UNCHANGED <<day, open, files, pruned, written, appends, ioFaults, restarts>>

-----------------------------------------------------------------------------
(* The task                                                                *)

Shutdown ==
  /\ writer = "running"
  /\ writer' = "draining"
  /\ UNCHANGED <<day, queue, open, files, pruned, written, appends, ioFaults, restarts>>

Drained ==
  /\ writer = "draining" /\ queue = << >>
  /\ writer' = "ended"
  /\ UNCHANGED <<day, queue, open, files, pruned, written, appends, ioFaults, restarts>>

Restart ==
  /\ writer \in {"ended", "panicked"} /\ restarts < MaxRestarts
  /\ restarts' = restarts + 1
  /\ writer' = "running" /\ open' = Unopened
  /\ UNCHANGED <<day, queue, files, pruned, written, appends, ioFaults>>

AuditNext ==
  \/ NextDay \/ AppendEvent \/ WriteLine \/ WriteFails \/ OpenFails \/ Panic
  \/ \E renamed \in BOOLEAN : RollFails(renamed)
  \/ Shutdown \/ Drained \/ Restart

AuditSpec == AuditInit /\ [][AuditNext]_adVars

-----------------------------------------------------------------------------
Event == 1..MaxAppends

AuditTypeOK ==
  /\ day \in 0..MaxDays /\ queue \in Seq(Event) /\ Len(queue) <= QueueCap
  /\ writer \in {"running", "draining", "ended", "panicked"}
  /\ open \in [date : NoDay..MaxDays, present : BOOLEAN, bytes : 0..MaxAppends]
  /\ DOMAIN files \subseteq (0..MaxDays) \X (0..MaxAppends)
  /\ \A f \in DOMAIN files : files[f] \in Seq(Event)
  /\ pruned \subseteq 0..MaxDays /\ written \subseteq Event \X (0..MaxDays)

Lines(f) == {files[f][i] : i \in 1..Len(files[f])}

\* A line once written stays where it can be read until retention removes its
\* day, and lines of one file keep the order they were appended in: across
\* size rotation, a new day, failed renames and restarts on the same day
\* (audit/jsonl.rs:188-309).
WrittenIsKept ==
  /\ \A w \in written :
       w[2] \in pruned \/ \E f \in DOMAIN files : f[1] = w[2] /\ w[1] \in Lines(f)
  /\ \A f \in DOMAIN files : \A i, j \in 1..Len(files[f]) :
       i < j => files[f][i] < files[f][j]

\* expect("file present after rotation checks") (audit/jsonl.rs:300).
FilePresent == writer # "panicked"
=============================================================================
