------------------------------ MODULE PidFile ------------------------------
(***************************************************************************)
(* The single-instance guard of the Core (crates/core/src/pid_file.rs): an *)
(* flock on core.pid and the record inside it.  A lock belongs to a file,  *)
(* not to a path, so the inode is part of the state.                       *)
(***************************************************************************)
EXTENDS Naturals, FiniteSets

CONSTANTS
  Cores,               \* processes (pids) that may be started
  NoCore,              \* no process
  MaxInodes,           \* files created at the path, in all
  MaxStarts            \* processes started, in all

ASSUME PidAssumption ==
  /\ NoCore \notin Cores
  /\ MaxInodes \in Nat \ {0} /\ MaxStarts \in Nat

VARIABLES
  path,                \* inode the path names, 0 when there is no file
  made,                \* inodes created so far
  holder,              \* inode -> process holding its flock
  stamped,             \* inode -> process in its record, NoCore when unreadable
  proc,                \* process -> where it is and the inode it has open
  starts,
  stops                \* history: guards dropped

pidVars == <<path, made, holder, stamped, proc, starts, stops>>

Inode == 1..MaxInodes
Out == [at |-> "out", fd |-> 0]

PidInit ==
  /\ path = 0 /\ made = 0
  /\ holder = [i \in Inode |-> NoCore] /\ stamped = [i \in Inode |-> NoCore]
  /\ proc = [p \in Cores |-> Out]
  /\ starts = 0 /\ stops = 0

\* open(O_RDWR | O_CREAT): the inode the path names, or a new one.
Opens(p, at) ==
  /\ IF path # 0 THEN UNCHANGED <<path, made>>
                 ELSE made < MaxInodes /\ made' = made + 1 /\ path' = made + 1
  /\ proc' = [proc EXCEPT ![p] = [at |-> at, fd |-> path']]

StartCore(p) ==
  /\ proc[p].at = "out" /\ starts < MaxStarts
  /\ starts' = starts + 1
  /\ Opens(p, "open")
  /\ UNCHANGED <<holder, stamped, stops>>

\* try_lock_exclusive, the first time and after a break.
TryLock(p) ==
  LET i == proc[p].fd
  IN  /\ proc[p].at \in {"open", "retake"}
      /\ IF holder[i] = NoCore
           THEN /\ holder' = [holder EXCEPT ![i] = p]
                /\ proc' = [proc EXCEPT ![p].at = "locked"]
           ELSE /\ proc' = [proc EXCEPT ![p] = IF @.at = "open" THEN [@ EXCEPT !.at = "probe"]
                                                                ELSE Out]
                /\ UNCHANGED holder
      /\ UNCHANGED <<path, made, stamped, starts, stops>>

WriteRecord(p) ==
  /\ proc[p].at = "locked"
  /\ stamped' = [stamped EXCEPT ![proc[p].fd] = p]
  /\ proc' = [proc EXCEPT ![p].at = "held"]
  /\ UNCHANGED <<path, made, holder, starts, stops>>

\* Contended: a record whose process lives sends the caller home; a record of
\* a process that is gone, or none, is taken for stale.
Probe(p) ==
  LET owner == stamped[proc[p].fd]
  IN  /\ proc[p].at = "probe"
      /\ proc' = [proc EXCEPT ![p] = IF owner # NoCore /\ proc[owner].at # "out"
                                       THEN Out ELSE [at |-> "break", fd |-> 0]]
      /\ UNCHANGED <<path, made, holder, stamped, starts, stops>>

\* A break that removes the file, and the one in the code, which opens it with
\* truncate.
BreakByUnlink(p) ==
  /\ proc[p].at = "break"
  /\ made < MaxInodes
  /\ made' = made + 1 /\ path' = made + 1
  /\ proc' = [proc EXCEPT ![p] = [at |-> "retake", fd |-> made + 1]]
  /\ UNCHANGED <<holder, stamped, starts, stops>>

Break(p) ==
  /\ proc[p].at = "break"
  /\ Opens(p, "retake")
  /\ stamped' = [stamped EXCEPT ![path'] = NoCore]
  /\ UNCHANGED <<holder, starts, stops>>

Freed(p) == [i \in Inode |-> IF holder[i] = p THEN NoCore ELSE holder[i]]

\* Drop: the descriptor, and with it the lock; then the path, whoever it names.
DropFd(p) ==
  /\ proc[p].at = "held"
  /\ holder' = Freed(p)
  /\ proc' = [proc EXCEPT ![p] = [at |-> "unlink", fd |-> 0]]
  /\ stops' = stops + 1
  /\ UNCHANGED <<path, made, stamped, starts>>

RemoveFile(p) ==
  /\ proc[p].at = "unlink"
  /\ path' = 0
  /\ proc' = [proc EXCEPT ![p] = Out]
  /\ UNCHANGED <<made, holder, stamped, starts, stops>>

\* The process is killed: the kernel closes its descriptors.
KillCore(p) ==
  /\ proc[p].at # "out"
  /\ holder' = Freed(p)
  /\ proc' = [proc EXCEPT ![p] = Out]
  /\ UNCHANGED <<path, made, stamped, starts, stops>>

PidNext ==
  \E p \in Cores :
    \/ StartCore(p) \/ TryLock(p) \/ WriteRecord(p) \/ Probe(p) \/ Break(p)
    \/ DropFd(p) \/ RemoveFile(p) \/ KillCore(p)

PidSpec == PidInit /\ [][PidNext]_pidVars

-----------------------------------------------------------------------------
Running == {p \in Cores : proc[p].at \in {"locked", "held"}}

PidTypeOK ==
  /\ path \in 0..MaxInodes /\ made \in 0..MaxInodes
  /\ holder \in [Inode -> Cores \cup {NoCore}]
  /\ stamped \in [Inode -> Cores \cup {NoCore}]
  /\ proc \in [Cores -> [at : {"out", "open", "probe", "break", "retake", "locked", "held",
                               "unlink"}, fd : 0..MaxInodes]]

\* Until a Core stops in an orderly way, at most one runs, whatever is killed
\* between a lock and its record and however two processes judge the same
\* record stale (pid_file.rs:80-145, 190-215).
OneCoreUntilAStop == stops = 0 => Cardinality(Running) <= 1

\* "Holding the returned PidFile guarantees no other process can take the lock"
\* (pid_file.rs:5-9): the Drop of a stopping Core releases the lock before it
\* unlinks the path.
OneCore == Cardinality(Running) <= 1
=============================================================================
