----------------------------- MODULE Checkpoint -----------------------------
(***************************************************************************)
(* Turn checkpoints of one workarea (agent_supervisor/checkpoint.rs and    *)
(* its callers in actor.rs): every TurnComplete starts a task that         *)
(* snapshots each repository into a numbered git ref and then inserts the  *)
(* row that names it; a revert resets every repository of a turn.          *)
(***************************************************************************)
EXTENDS Naturals, FiniteSets, FiniteSetsExt

CONSTANTS
  Turns,               \* turns that may complete, of any session of the workarea
  TreeCount,           \* repositories, by position
  LinkedTrees,         \* those whose directory is a linked worktree: .git is a file
  MaxWrites,           \* edits the agents make
  MaxTurnFaults,       \* failures of git and the database
  MaxTurnCrashes       \* Core crashes

ASSUME CheckpointAssumption ==
  /\ IsFiniteSet(Turns) /\ TreeCount \in Nat \ {0} /\ LinkedTrees \subseteq 1..TreeCount
  /\ MaxWrites \in Nat /\ MaxTurnFaults \in Nat /\ MaxTurnCrashes \in Nat

VARIABLES
  tree,                \* repo -> content of its worktree
  writes,              \* contents made so far
  refs,                \* repo -> n -> content of the commit the ref names, or NoRef
  ckrows,              \* the checkpoints table
  task,                \* turn -> its checkpoint task
  revert,              \* the revert in flight: rows still to reset
  superseded,          \* turns whose messages a revert has hidden
  overlapped,          \* history: turns whose task ran beside another's
  turnFaults, turnCrashes

ckVars == <<tree, writes, refs, ckrows, task, revert, superseded, overlapped,
            turnFaults, turnCrashes>>

Trees == 1..TreeCount
RefN == 1..(Cardinality(Turns) + 1)
NoRef == [turn |-> {}, of |-> 0]
NotRun == [pc |-> "new", at |-> 0, repo |-> 1, n |-> 0, commit |-> NoRef, hurt |-> FALSE]
NoRevert == [on |-> FALSE, left |-> {}, turn |-> {}]
InFlight == {t \in Turns : task[t].pc \in {"max", "commit", "ref", "row"}}

CkInit ==
  /\ tree = [r \in Trees |-> 0] /\ writes = 0
  /\ refs = [r \in Trees |-> [n \in RefN |-> NoRef]]
  /\ ckrows = {}
  /\ task = [t \in Turns |-> NotRun]
  /\ revert = NoRevert /\ superseded = {} /\ overlapped = {}
  /\ turnFaults = 0 /\ turnCrashes = 0

TurnFault == turnFaults < MaxTurnFaults /\ turnFaults' = turnFaults + 1

AgentWrites(r) ==
  /\ writes < MaxWrites /\ writes' = writes + 1
  /\ tree' = [tree EXCEPT ![r] = writes']
  /\ UNCHANGED <<refs, ckrows, task, revert, superseded, overlapped, turnFaults, turnCrashes>>

\* TurnComplete spawns the task; the turn's marker message is committed first.
CompleteTurn(t) ==
  /\ task[t].pc = "new"
  /\ task' = [task EXCEPT ![t].pc = "max", ![t].at = 1 + Max({task[u].at : u \in Turns})]
  /\ overlapped' = IF InFlight = {} THEN overlapped ELSE overlapped \cup InFlight \cup {t}
  /\ UNCHANGED <<tree, writes, refs, ckrows, revert, superseded, turnFaults, turnCrashes>>

\* A slip that takes the highest n, and max_n_for plus one.
SameN(r) == Max({1} \cup {k.n : k \in {k \in ckrows : k.repo = r}})
NextN(r) == Max({0} \cup {k.n : k \in {k \in ckrows : k.repo = r}}) + 1

ReadMax(t) ==
  /\ task[t].pc = "max"
  /\ task' = [task EXCEPT ![t].pc = "commit", ![t].n = NextN(task[t].repo)]
  /\ UNCHANGED <<tree, writes, refs, ckrows, revert, superseded, overlapped, turnFaults, turnCrashes>>

\* commit_index puts its temporary index below `.git`, which is no directory in
\* a linked worktree: git read-tree fails there and the task gives up.
CommitTree(t) ==
  LET r == task[t].repo
  IN  /\ task[t].pc = "commit"
      /\ task' = [task EXCEPT ![t] =
           IF r \in LinkedTrees THEN [@ EXCEPT !.pc = "failed"]
           ELSE [@ EXCEPT !.pc = "ref", !.commit = [turn |-> {t}, of |-> tree[r]]]]
      /\ UNCHANGED <<tree, writes, refs, ckrows, revert, superseded, overlapped, turnFaults, turnCrashes>>

UpdateRef(t) ==
  /\ task[t].pc = "ref"
  /\ refs' = [refs EXCEPT ![task[t].repo][task[t].n] = task[t].commit]
  /\ task' = [task EXCEPT ![t].pc = "row"]
  /\ UNCHANGED <<tree, writes, ckrows, revert, superseded, overlapped, turnFaults, turnCrashes>>

InsertCheckpoint(t) ==
  LET k == task[t]
  IN  /\ k.pc = "row"
      /\ ckrows' = ckrows \cup {[turn |-> t, repo |-> k.repo, n |-> k.n, commit |-> k.commit]}
      /\ task' = [task EXCEPT ![t] =
           IF k.repo = TreeCount THEN [k EXCEPT !.pc = "done"]
           ELSE [k EXCEPT !.pc = "max", !.repo = @ + 1]]
      /\ UNCHANGED <<tree, writes, refs, revert, superseded, overlapped, turnFaults, turnCrashes>>

\* The first error ends the task; what it has written stays.
TaskFails(t) ==
  /\ task[t].pc \in {"commit", "ref", "row"} /\ TurnFault
  /\ task' = [task EXCEPT ![t].pc = "failed", ![t].hurt = TRUE]
  /\ UNCHANGED <<tree, writes, refs, ckrows, revert, superseded, overlapped, turnCrashes>>

-----------------------------------------------------------------------------
\* revert_to_checkpoint: the rows that share the message, read once.
BeginTurnRevert(t) ==
  /\ ~revert.on /\ \E k \in ckrows : k.turn = t
  /\ revert' = [on |-> TRUE, left |-> {k \in ckrows : k.turn = t}, turn |-> {t}]
  /\ UNCHANGED <<tree, writes, refs, ckrows, task, superseded, overlapped, turnFaults, turnCrashes>>

HardReset(k) ==
  /\ k \in revert.left
  /\ k.repo = Min({j.repo : j \in revert.left})
  /\ tree' = [tree EXCEPT ![k.repo] = refs[k.repo][k.n].of]
  /\ revert' = [revert EXCEPT !.left = @ \ {k}]
  /\ UNCHANGED <<writes, refs, ckrows, task, superseded, overlapped, turnFaults, turnCrashes>>

\* A reset that fails ends the revert with the repositories before it reset
\* and every message in place.
HardResetFails ==
  /\ revert.left # {} /\ TurnFault
  /\ revert' = NoRevert
  /\ UNCHANGED <<tree, writes, refs, ckrows, task, superseded, overlapped, turnCrashes>>

SupersedeLater ==
  /\ revert.on /\ revert.left = {}
  /\ superseded' = superseded \cup {t \in Turns : \E h \in revert.turn : task[t].at > task[h].at}
  /\ revert' = NoRevert
  /\ UNCHANGED <<tree, writes, refs, ckrows, task, overlapped, turnFaults, turnCrashes>>

CrashTasks ==
  /\ turnCrashes < MaxTurnCrashes /\ turnCrashes' = turnCrashes + 1
  /\ task' = [t \in Turns |-> IF t \in InFlight THEN [task[t] EXCEPT !.pc = "failed", !.hurt = TRUE]
                                                ELSE task[t]]
  /\ revert' = NoRevert
  /\ UNCHANGED <<tree, writes, refs, ckrows, superseded, overlapped, turnFaults>>

CkNext ==
  \/ \E r \in Trees : AgentWrites(r)
  \/ \E t \in Turns :
       \/ CompleteTurn(t) \/ ReadMax(t) \/ CommitTree(t) \/ UpdateRef(t)
       \/ InsertCheckpoint(t) \/ TaskFails(t) \/ BeginTurnRevert(t)
  \/ \E k \in ckrows : HardReset(k)
  \/ HardResetFails \/ SupersedeLater \/ CrashTasks

CkSpec == CkInit /\ [][CkNext]_ckVars

-----------------------------------------------------------------------------
CkTypeOK ==
  /\ tree \in [Trees -> 0..MaxWrites] /\ writes \in 0..MaxWrites
  /\ \A r \in Trees, n \in RefN : refs[r][n].of \in 0..MaxWrites
  /\ \A k \in ckrows : k.turn \in Turns /\ k.repo \in Trees /\ k.n \in RefN
  /\ \A t \in Turns :
       /\ task[t].pc \in {"new", "max", "commit", "ref", "row", "done", "failed"}
       /\ task[t].repo \in Trees
  /\ revert.left \subseteq ckrows /\ superseded \subseteq Turns

\* A row's ref still names the commit the turn made, through failures and
\* crashes between the commit, the ref and the row, and through reverts; only
\* two tasks that ran at the same time may have taken the same number
\* (checkpoint.rs:70-125).
CheckpointRestorable ==
  \A k \in ckrows : k.turn \notin overlapped => refs[k.repo][k.n] = k.commit

\* "at every turn boundary, snapshot the worktree into a per-repo checkpoint ref
\* + DB row" (actor.rs:2221-2222): a task that met no failure is not given up.
TurnIsCheckpointed == \A t \in Turns : task[t].pc = "failed" => task[t].hurt
=============================================================================
