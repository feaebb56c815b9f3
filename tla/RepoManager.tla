---------------------------- MODULE RepoManager ----------------------------
(***************************************************************************)
(* The Repository Manager (core repo_manager/actor.rs, prefetch.rs): clone,*)
(* blob prewarming and sparse cones share one write lock per repository,   *)
(* and prewarming two permits in all.  A worktree's cones are kept twice:  *)
(* in git's sparse-checkout file and in the workarea_repos row.            *)
(***************************************************************************)
EXTENDS Naturals, FiniteSets

CONSTANTS
  Clones,              \* repositories of the registry
  Areas,               \* workareas, each with a worktree of every repository
  ConeSets,            \* sets of cone paths
  RepoCalls,           \* calls and prewarm tasks that may be made
  NoCall,
  PREWARM_CONCURRENCY, \* GLOBAL_PREWARM_CONCURRENCY
  MaxRepoFaults,       \* failures of git and the database
  MaxRepoCrashes

ASSUME RepoAssumption ==
  /\ IsFiniteSet(RepoCalls) /\ NoCall \notin RepoCalls
  /\ PREWARM_CONCURRENCY \in Nat \ {0} /\ MaxRepoFaults \in Nat /\ MaxRepoCrashes \in Nat

VARIABLES
  clone,               \* repo -> its directory: none, partial or full
  lock,                \* repo -> call holding its write lock
  permits,             \* free permits of the prewarm semaphore
  call,                \* call -> what it does and how far it is
  sparse,              \* <<area, repo>> -> cones git applies
  coneRow,             \* <<area, repo>> -> sparse_cones_json
  defaults,            \* repo -> cone_defaults_json
  split,               \* history: pairs whose row write failed or was cut off
  repoFaults, repoCrashes

rmVars == <<clone, lock, permits, call, sparse, coneRow, defaults, split,
            repoFaults, repoCrashes>>

Worktrees == Areas \X Clones
NoCones == CHOOSE s \in ConeSets : TRUE
Resting == [op |-> "none", pc |-> "idle", repo |-> CHOOSE r \in Clones : TRUE,
            cones |-> NoCones, left |-> {}, area |-> CHOOSE a \in Areas : TRUE]

RepoInit ==
  /\ clone \in [Clones -> {"none", "full"}]
  /\ lock = [r \in Clones |-> NoCall]
  /\ permits = PREWARM_CONCURRENCY
  /\ call = [c \in RepoCalls |-> Resting]
  /\ sparse = [w \in Worktrees |-> NoCones] /\ coneRow = [w \in Worktrees |-> NoCones]
  /\ defaults = [r \in Clones |-> NoCones]
  /\ split = {}
  /\ repoFaults = 0 /\ repoCrashes = 0

RepoFault == repoFaults < MaxRepoFaults /\ repoFaults' = repoFaults + 1

conesVars == <<sparse, coneRow, defaults, split>>

Unlocked(c) == [r \in Clones |-> IF lock[r] = c THEN NoCall ELSE lock[r]]

\* The write lock is a fair mutex; a call waits for it at pc "lock".
TakeLock(c) ==
  LET r == call[c].repo
  IN  /\ call[c].pc = "lock" /\ lock[r] = NoCall
      /\ lock' = [lock EXCEPT ![r] = c]
      /\ call' = [call EXCEPT ![c].pc = "work"]
      /\ UNCHANGED <<clone, permits, conesVars, repoFaults, repoCrashes>>

-----------------------------------------------------------------------------
(* clone_repo                                                              *)

BeginClone(c, r) ==
  /\ call[c].pc = "idle"
  /\ call' = [call EXCEPT ![c] = [Resting EXCEPT !.op = "clone", !.pc = "lock", !.repo = r]]
  /\ UNCHANGED <<clone, lock, permits, conesVars, repoFaults, repoCrashes>>

GitClones(c) ==
  LET r == call[c].repo
  IN  /\ call[c].op = "clone" /\ call[c].pc = "work"
      /\ IF clone[r] = "none"
           THEN /\ clone' = [clone EXCEPT ![r] = "partial"]
                /\ call' = [call EXCEPT ![c].pc = "cloned"]
                /\ UNCHANGED lock
           ELSE /\ call' = [call EXCEPT ![c].pc = "done"]        \* not an empty directory
                /\ lock' = Unlocked(c)
                /\ UNCHANGED clone
      /\ UNCHANGED <<permits, conesVars, repoFaults, repoCrashes>>

\* git removes what it made when it fails.
CloneEnds(c) ==
  /\ call[c].pc = "cloned"
  /\ \/ clone' = [clone EXCEPT ![call[c].repo] = "full"] /\ UNCHANGED repoFaults
     \/ clone' = [clone EXCEPT ![call[c].repo] = "none"] /\ RepoFault
  /\ call' = [call EXCEPT ![c].pc = "done"]
  /\ lock' = Unlocked(c)
  /\ UNCHANGED <<permits, conesVars, repoCrashes>>

-----------------------------------------------------------------------------
(* prewarm_blobs and its streaming twin                                    *)

SpawnPrewarm(c, r) ==
  /\ call[c].pc = "idle" /\ clone[r] = "full"
  /\ call' = [call EXCEPT ![c] = [Resting EXCEPT !.op = "prewarm", !.pc = "permit", !.repo = r]]
  /\ UNCHANGED <<clone, lock, permits, conesVars, repoFaults, repoCrashes>>

\* The permit first, and only then the repository's lock.
TakePermit(c) ==
  /\ call[c].pc = "permit" /\ permits > 0
  /\ permits' = permits - 1
  /\ call' = [call EXCEPT ![c].pc = "lock"]
  /\ UNCHANGED <<clone, lock, conesVars, repoFaults, repoCrashes>>

HasPermit(c) == call[c].op = "prewarm" /\ call[c].pc \in {"lock", "work"}

\* A permit that only a prewarm that ran gives back, and the guard, which goes
\* with the task however it ends.
ReturnedByWork(c) == permits + (IF call[c].pc = "work" THEN 1 ELSE 0)
Returned(c) == permits + (IF HasPermit(c) THEN 1 ELSE 0)

PrewarmOver(c) ==
  /\ permits' = Returned(c)
  /\ lock' = Unlocked(c)
  /\ call' = [call EXCEPT ![c].pc = "done"]
  /\ UNCHANGED <<clone, conesVars, repoFaults, repoCrashes>>

PrewarmFetches(c) == call[c].op = "prewarm" /\ call[c].pc = "work" /\ PrewarmOver(c)

\* Dropping the PrewarmHandle aborts the task at whatever it awaits.
DropHandle(c) ==
  /\ call[c].op = "prewarm" /\ call[c].pc \in {"permit", "lock", "work"}
  /\ PrewarmOver(c)

-----------------------------------------------------------------------------
(* set_workarea_repo_cones, and set_repo_cone_defaults, which stores the   *)
(* defaults and then sets every workarea's cones in turn.                  *)

BeginSetCones(c, a, r, s) ==
  /\ call[c].pc = "idle" /\ clone[r] = "full"
  /\ call' = [call EXCEPT ![c] = [Resting EXCEPT !.op = "cones", !.pc = "lock",
                                         !.repo = r, !.cones = s, !.left = {a}]]
  /\ UNCHANGED <<clone, lock, permits, conesVars, repoFaults, repoCrashes>>

SetDefaults(c, r, s) ==
  /\ call[c].pc = "idle" /\ clone[r] = "full"
  /\ defaults' = [defaults EXCEPT ![r] = s]
  /\ call' = [call EXCEPT ![c] = [Resting EXCEPT !.op = "cones", !.pc = "lock",
                                         !.repo = r, !.cones = s, !.left = Areas]]
  /\ UNCHANGED <<clone, lock, permits, sparse, coneRow, split, repoFaults, repoCrashes>>

AtArea(c, a) == call[c].op = "cones" /\ call[c].pc = "work" /\ a \in call[c].left

\* sparse_set on the worktree: by a call that lets go of the lock with it, and
\* by the code, which keeps it for the row.
SparseSet(c, a) ==
  /\ AtArea(c, a)
  /\ sparse' = [sparse EXCEPT ![<<a, call[c].repo>>] = call[c].cones]
  /\ call' = [call EXCEPT ![c].pc = "row", ![c].area = a]
  /\ UNCHANGED <<clone, permits, coneRow, defaults, split, repoFaults, repoCrashes>>

ApplyAndUnlock(c, a) == SparseSet(c, a) /\ lock' = Unlocked(c)
ApplyCones(c, a) == SparseSet(c, a) /\ UNCHANGED lock

NextArea(c, a) ==
  /\ lock' = Unlocked(c)
  /\ call' = [call EXCEPT ![c].left = @ \ {a},
                          ![c].pc = IF call[c].left = {a} THEN "done" ELSE "lock"]

\* Between git's file and the row.
InRow(c, a, r) == call[c].pc = "row" /\ call[c].area = a /\ call[c].repo = r

\* git refuses a path that is not in HEAD before it applies anything.
SparseFails(c, a) ==
  /\ AtArea(c, a) /\ RepoFault
  /\ NextArea(c, a)
  /\ UNCHANGED <<clone, permits, conesVars, repoCrashes>>

PersistCones(c, a) ==
  /\ InRow(c, a, call[c].repo)
  /\ LET w == <<a, call[c].repo>>
     IN  \/ /\ coneRow' = [coneRow EXCEPT ![w] = call[c].cones]
            /\ split' = split \ {w}
            /\ UNCHANGED repoFaults
         \/ /\ split' = split \cup {w}
            /\ RepoFault
            /\ UNCHANGED coneRow
  /\ NextArea(c, a)
  /\ UNCHANGED <<clone, permits, sparse, defaults, repoCrashes>>

\* Every task and lock goes; a clone in progress leaves its directory.
RepoCrash ==
  /\ repoCrashes < MaxRepoCrashes /\ repoCrashes' = repoCrashes + 1
  /\ split' = split \cup {w \in Worktrees : \E c \in RepoCalls : InRow(c, w[1], w[2])}
  /\ call' = [c \in RepoCalls |-> IF call[c].pc = "idle" THEN Resting ELSE [call[c] EXCEPT !.pc = "done"]]
  /\ lock' = [r \in Clones |-> NoCall]
  /\ permits' = PREWARM_CONCURRENCY
  /\ UNCHANGED <<clone, sparse, coneRow, defaults, repoFaults>>

\* What a task of the runtime goes on with; nobody has to drop a handle.
CallStep(c) ==
  \/ TakeLock(c) \/ GitClones(c) \/ CloneEnds(c)
  \/ TakePermit(c) \/ PrewarmFetches(c)
  \/ \E a \in Areas : ApplyCones(c, a) \/ SparseFails(c, a) \/ PersistCones(c, a)

RepoNext ==
  \/ \E c \in RepoCalls :
       \/ CallStep(c) \/ DropHandle(c)
       \/ \E r \in Clones : BeginClone(c, r) \/ SpawnPrewarm(c, r)
       \/ \E r \in Clones, s \in ConeSets :
            SetDefaults(c, r, s) \/ \E a \in Areas : BeginSetCones(c, a, r, s)
  \/ RepoCrash

RepoSpec == RepoInit /\ [][RepoNext]_rmVars /\ \A c \in RepoCalls : WF_rmVars(CallStep(c))

-----------------------------------------------------------------------------
\* With every permit accounted for: at a prewarm, or free.
RepoTypeOK ==
  /\ clone \in [Clones -> {"none", "partial", "full"}]
  /\ lock \in [Clones -> RepoCalls \cup {NoCall}]
  /\ permits = PREWARM_CONCURRENCY - Cardinality({c \in RepoCalls : HasPermit(c)})
  /\ call \in [RepoCalls -> [op : {"none", "clone", "prewarm", "cones"},
                 pc : {"idle", "permit", "lock", "work", "cloned", "row", "done"},
                 repo : Clones, cones : ConeSets, left : SUBSET Areas, area : Areas]]
  /\ sparse \in [Worktrees -> ConeSets] /\ coneRow \in [Worktrees -> ConeSets]
  /\ defaults \in [Clones -> ConeSets] /\ split \subseteq Worktrees

\* The row and the worktree agree on the cones, however calls for one worktree
\* and a change of the defaults overlap; the exceptions are a call between its
\* two writes and one whose second write failed (actor.rs:767-860, 1025-1075).
ConesAgree ==
  \A a \in Areas, r \in Clones :
    \/ sparse[<<a, r>>] = coneRow[<<a, r>>]
    \/ <<a, r>> \in split
    \/ \E c \in RepoCalls : InRow(c, a, r)

\* Every call ends: a prewarm that waits for a repository keeps its permit, but
\* no holder of a lock ever waits for a permit, and none is lost with a task
\* that is aborted while it waits (actor.rs:532-552, prefetch.rs:238-250).
CallsEnd == []<>(\A c \in RepoCalls : call[c].pc \in {"idle", "done"})
=============================================================================
