----------------------------- MODULE RepoProofs -----------------------------
(***************************************************************************)
(* Proofs about what is kept of a repository: sparse cones and prewarm     *)
(* permits (RepoManager), and the worktrees that creation, archive and     *)
(* restore leave on disk (WorkareaCreate), for any number of repositories, *)
(* workareas, names and callers.                                           *)
(***************************************************************************)
EXTENDS RepoManager, WorkareaCreate, SchedulerProofs

(* The write lock, the cones and the permits.                               *)

CallStates == [op : {"none", "clone", "prewarm", "cones"},
               pc : {"idle", "permit", "lock", "work", "cloned", "row", "done"},
               repo : Clones \cup {Resting.repo}, cones : ConeSets \cup {NoCones},
               left : SUBSET Areas, area : Areas \cup {Resting.area}]

RepoTyped ==
  /\ lock \in [Clones -> RepoCalls \cup {NoCall}]
  /\ call \in [RepoCalls -> CallStates]
  /\ sparse \in [Worktrees -> ConeSets \cup {NoCones}]
  /\ coneRow \in [Worktrees -> ConeSets \cup {NoCones}]

\* Who works on a repository has its lock; who is between git's file and the
\* row has written the file.
CallOK(c) ==
  /\ call[c].pc \notin {"idle", "done"} => call[c].repo \in Clones
  /\ call[c].pc \in {"work", "cloned", "row"} => lock[call[c].repo] = c
  /\ call[c].pc = "permit" => call[c].op = "prewarm"
  /\ call[c].pc = "row" => /\ call[c].op = "cones" /\ call[c].area \in Areas
                           /\ sparse[<<call[c].area, call[c].repo>>] = call[c].cones

Warming == {c \in RepoCalls : HasPermit(c)}

\* A permit is at a prewarm, or free.
PermitsHeld == permits = PREWARM_CONCURRENCY - Cardinality(Warming)

RepoInv == RepoTyped /\ (\A c \in RepoCalls : CallOK(c)) /\ ConesAgree /\ PermitsHeld

\* What a call begins with is well typed.
LEMMA RestingTypes ==
  /\ Resting \in CallStates /\ Resting.pc = "idle" /\ Resting.op = "none"
  /\ NoCall \notin RepoCalls /\ PREWARM_CONCURRENCY \in Nat
<1> QED
  BY RepoAssumption DEF Resting, CallStates

\* A call begins.
LEMMA BeginKinds ==
  ASSUME RepoTyped, NEW c \in RepoCalls, NEW r \in Clones,
         \/ BeginClone(c, r) \/ SpawnPrewarm(c, r)
         \/ \E s \in ConeSets : SetDefaults(c, r, s) \/ \E a \in Areas : BeginSetCones(c, a, r, s)
  PROVE  /\ call[c].pc = "idle" /\ UNCHANGED <<lock, permits, sparse, coneRow, split>>
         /\ call'[c] \in CallStates /\ call' = [call EXCEPT ![c] = call'[c]]
         /\ call'[c].repo = r
         /\ \/ call'[c].op = "prewarm" /\ call'[c].pc = "permit"
            \/ call'[c].op \in {"clone", "cones"} /\ call'[c].pc = "lock"
<1>1. ASSUME NEW s \in CallStates, call' = [call EXCEPT ![c] = s]
      PROVE  call'[c] = s /\ call' = [call EXCEPT ![c] = call'[c]]
  BY <1>1 DEF RepoTyped
<1>2. CASE BeginClone(c, r)
  <2> DEFINE s == [Resting EXCEPT !.op = "clone", !.pc = "lock", !.repo = r]
  <2>1. s \in CallStates /\ s.op = "clone" /\ s.pc = "lock" /\ s.repo = r
    BY RestingTypes DEF CallStates
  <2>2. call' = [call EXCEPT ![c] = s]
    BY <1>2 DEF BeginClone
  <2> HIDE DEF s
  <2> QED
    BY <1>1, <1>2, <2>1, <2>2 DEF BeginClone, conesVars
<1>3. CASE SpawnPrewarm(c, r)
  <2> DEFINE s == [Resting EXCEPT !.op = "prewarm", !.pc = "permit", !.repo = r]
  <2>1. s \in CallStates /\ s.op = "prewarm" /\ s.pc = "permit" /\ s.repo = r
    BY RestingTypes DEF CallStates
  <2>2. call' = [call EXCEPT ![c] = s]
    BY <1>3 DEF SpawnPrewarm
  <2> HIDE DEF s
  <2> QED
    BY <1>1, <1>3, <2>1, <2>2 DEF SpawnPrewarm, conesVars
<1>4. ASSUME NEW k \in ConeSets, SetDefaults(c, r, k) \/ \E a \in Areas : BeginSetCones(c, a, r, k)
      PROVE  /\ call[c].pc = "idle" /\ UNCHANGED <<lock, permits, sparse, coneRow, split>>
             /\ call'[c] \in CallStates /\ call' = [call EXCEPT ![c] = call'[c]]
             /\ call'[c].repo = r /\ call'[c].op = "cones" /\ call'[c].pc = "lock"
  <2> DEFINE s(left) == [Resting EXCEPT !.op = "cones", !.pc = "lock", !.repo = r,
                                        !.cones = k, !.left = left]
  <2>1. ASSUME NEW left \in SUBSET Areas
        PROVE  /\ s(left) \in CallStates /\ s(left).op = "cones" /\ s(left).pc = "lock"
               /\ s(left).repo = r
    BY RestingTypes DEF CallStates
  <2>2. PICK left \in SUBSET Areas : call' = [call EXCEPT ![c] = s(left)]
    BY <1>4 DEF SetDefaults, BeginSetCones
  <2>3. call[c].pc = "idle" /\ UNCHANGED <<lock, permits, sparse, coneRow, split>>
    BY <1>4 DEF SetDefaults, BeginSetCones, conesVars
  <2>4. PICK v \in CallStates : /\ call' = [call EXCEPT ![c] = v]
                                /\ v.op = "cones" /\ v.pc = "lock" /\ v.repo = r
    BY <2>1, <2>2
  <2> HIDE DEF s
  <2> QED
    BY <1>1, <2>3, <2>4
<1> QED
  BY <1>2, <1>3, <1>4

\* A call that gives up its lock leaves the others' alone.
LEMMA UnlockedTypes ==
  ASSUME RepoTyped, NEW c \in RepoCalls
  PROVE  /\ Unlocked(c) \in [Clones -> RepoCalls \cup {NoCall}]
         /\ \A r \in Clones, d \in RepoCalls \ {c} : lock[r] = d => Unlocked(c)[r] = d
<1> QED
  BY DEF RepoTyped, Unlocked

\* A step of a call that has begun: what it may touch, and with which lock.
LEMMA StepTypes ==
  ASSUME RepoTyped, NEW c \in RepoCalls, CallStep(c) \/ DropHandle(c)
  PROVE  /\ call'[c] \in CallStates /\ call' = [call EXCEPT ![c] = call'[c]]
         /\ call'[c].repo = call[c].repo /\ call'[c].op = call[c].op
         /\ call'[c].cones = call[c].cones
<1> DEFINE Goal == /\ call'[c] \in CallStates /\ call' = [call EXCEPT ![c] = call'[c]]
                   /\ call'[c].repo = call[c].repo /\ call'[c].op = call[c].op
                   /\ call'[c].cones = call[c].cones
<1>0. call \in [RepoCalls -> CallStates] /\ call[c] \in CallStates
  BY DEF RepoTyped
<1>1. ASSUME NEW s \in CallStates, call' = [call EXCEPT ![c] = s],
             s.repo = call[c].repo, s.op = call[c].op, s.cones = call[c].cones
      PROVE  Goal
  BY <1>0, <1>1
<1>2. ASSUME NEW p \in {"lock", "work", "cloned", "done"}, call' = [call EXCEPT ![c].pc = p]
      PROVE  Goal
  <2>1. [call[c] EXCEPT !.pc = p] \in CallStates
    BY <1>0 DEF CallStates
  <2>2. call' = [call EXCEPT ![c] = [call[c] EXCEPT !.pc = p]]
    BY <1>0, <1>2
  <2>3. [call[c] EXCEPT !.pc = p].repo = call[c].repo /\ [call[c] EXCEPT !.pc = p].op = call[c].op
        /\ [call[c] EXCEPT !.pc = p].cones = call[c].cones
    BY <1>0 DEF CallStates
  <2> QED
    BY <1>1, <2>1, <2>2, <2>3
<1>3. CASE \/ TakeLock(c) \/ GitClones(c) \/ CloneEnds(c) \/ TakePermit(c)
           \/ PrewarmFetches(c) \/ DropHandle(c)
  BY <1>2, <1>3 DEF TakeLock, GitClones, CloneEnds, TakePermit, PrewarmFetches, DropHandle, PrewarmOver
<1>4. ASSUME NEW a \in Areas, ApplyCones(c, a) PROVE Goal
  <2> DEFINE s == [call[c] EXCEPT !.pc = "row", !.area = a]
  <2>1. call' = [call EXCEPT ![c] = s]
    BY <1>0, <1>4 DEF ApplyCones, SparseSet
  <2>2. s \in CallStates /\ s.repo = call[c].repo /\ s.op = call[c].op /\ s.cones = call[c].cones
    BY <1>0 DEF CallStates
  <2> HIDE DEF s
  <2> QED
    BY <1>1, <2>1, <2>2
<1>5. ASSUME NEW a \in Areas, SparseFails(c, a) \/ PersistCones(c, a) PROVE Goal
  <2>1. PICK p \in {"done", "lock"} :
          call' = [call EXCEPT ![c].left = @ \ {a}, ![c].pc = p]
    BY <1>5 DEF SparseFails, PersistCones, NextArea
  <2> DEFINE s == [call[c] EXCEPT !.left = @ \ {a}, !.pc = p]
  <2>2. call' = [call EXCEPT ![c] = s]
    BY <1>0, <2>1
  <2>3. s \in CallStates /\ s.repo = call[c].repo /\ s.op = call[c].op /\ s.cones = call[c].cones
    BY <1>0 DEF CallStates
  <2> HIDE DEF s
  <2> QED
    BY <1>1, <2>2, <2>3
<1> QED
  BY <1>3, <1>4, <1>5 DEF CallStep
\* Locks, calls and cones stay well typed.
LEMMA RepoNextTypes == RepoTyped /\ [RepoNext]_rmVars => RepoTyped'
<1> SUFFICES ASSUME RepoTyped, [RepoNext]_rmVars PROVE RepoTyped'
  OBVIOUS
<1>0. /\ lock \in [Clones -> RepoCalls \cup {NoCall}] /\ call \in [RepoCalls -> CallStates]
      /\ sparse \in [Worktrees -> ConeSets \cup {NoCones}]
      /\ coneRow \in [Worktrees -> ConeSets \cup {NoCones}]
  BY DEF RepoTyped
<1>1. ASSUME NEW c \in RepoCalls, NEW r \in Clones,
             \/ BeginClone(c, r) \/ SpawnPrewarm(c, r)
             \/ \E s \in ConeSets : SetDefaults(c, r, s) \/ \E a \in Areas : BeginSetCones(c, a, r, s)
      PROVE  RepoTyped'
  BY <1>0, <1>1, BeginKinds DEF RepoTyped
<1>2. ASSUME NEW c \in RepoCalls, CallStep(c) \/ DropHandle(c) PROVE RepoTyped'
  <2>0. call[c] \in CallStates
    BY <1>0
  <2>1. call' \in [RepoCalls -> CallStates]
    BY <1>0, <1>2, StepTypes
  <2>2. lock' \in [Clones -> RepoCalls \cup {NoCall}]
    <3>1. lock' \in {lock, Unlocked(c), [lock EXCEPT ![call[c].repo] = c]}
      BY <1>2 DEF CallStep, TakeLock, GitClones, CloneEnds, TakePermit, PrewarmFetches, DropHandle,
                  PrewarmOver, ApplyCones, SparseFails, PersistCones, NextArea
    <3> QED
      BY <1>0, <3>1, UnlockedTypes
  <2>3. sparse' \in [Worktrees -> ConeSets \cup {NoCones}]
        /\ coneRow' \in [Worktrees -> ConeSets \cup {NoCones}]
    <3>1. call[c].cones \in ConeSets \cup {NoCones}
      BY <2>0 DEF CallStates
    <3>2. /\ \/ UNCHANGED sparse
             \/ \E a \in Areas : sparse' = [sparse EXCEPT ![<<a, call[c].repo>>] = call[c].cones]
          /\ \/ UNCHANGED coneRow
             \/ \E a \in Areas : coneRow' = [coneRow EXCEPT ![<<a, call[c].repo>>] = call[c].cones]
      BY <1>2 DEF CallStep, TakeLock, GitClones, CloneEnds, TakePermit, PrewarmFetches, DropHandle,
                  PrewarmOver, ApplyCones, SparseSet, SparseFails, PersistCones, conesVars
    <3> QED
      BY <1>0, <3>1, <3>2
  <2> QED
    BY <2>1, <2>2, <2>3 DEF RepoTyped
<1>3. CASE RepoCrash
  <2>1. \A c \in RepoCalls : [call[c] EXCEPT !.pc = "done"] \in CallStates
    <3>1. \A c \in RepoCalls : call[c] \in CallStates
      BY <1>0
    <3> QED
      BY <3>1 DEF CallStates
  <2> QED
    BY <1>0, <1>3, <2>1, RestingTypes DEF RepoCrash, RepoTyped
<1>4. CASE UNCHANGED rmVars
  BY <1>4 DEF rmVars, conesVars, RepoTyped, Worktrees
<1> QED
  BY <1>1, <1>2, <1>3, <1>4 DEF RepoNext

\* Taking a permit, giving it back, and doing neither.
LEMMA PermitsMove ==
  ASSUME PermitsHeld, NEW c \in RepoCalls,
         \A d \in RepoCalls \ {c} : HasPermit(d)' <=> HasPermit(d),
         \/ HasPermit(c)' /\ ~HasPermit(c) /\ permits' = permits - 1
         \/ ~HasPermit(c)' /\ HasPermit(c) /\ permits' = permits + 1
         \/ (HasPermit(c)' <=> HasPermit(c)) /\ permits' = permits
  PROVE  PermitsHeld'
<1>1. IsFiniteSet(Warming) /\ Cardinality(Warming) \in Nat
  BY RepoAssumption, FS_Subset, FS_CardinalityType DEF Warming
<1>2. CASE HasPermit(c)' /\ ~HasPermit(c) /\ permits' = permits - 1
  <2>1. Warming' = Warming \cup {c} /\ c \notin Warming
    BY <1>2 DEF Warming
  <2>2. Cardinality(Warming \cup {c}) = Cardinality(Warming) + 1
    BY <1>1, <2>1, FS_AddElement
  <2> QED
    BY <1>1, <1>2, <2>1, <2>2, RepoAssumption DEF PermitsHeld
<1>3. CASE ~HasPermit(c)' /\ HasPermit(c) /\ permits' = permits + 1
  <2>1. Warming' = Warming \ {c} /\ c \in Warming
    BY <1>3 DEF Warming
  <2>2. Cardinality(Warming \ {c}) = Cardinality(Warming) - 1
    BY <1>1, <2>1, FS_RemoveElement
  <2> QED
    BY <1>1, <1>3, <2>1, <2>2, RepoAssumption DEF PermitsHeld
<1>4. CASE (HasPermit(c)' <=> HasPermit(c)) /\ permits' = permits
  <2>1. Warming' = Warming
    BY <1>4 DEF Warming
  <2> QED
    BY <1>4, <2>1 DEF PermitsHeld
<1> QED
  BY <1>2, <1>3, <1>4

\* The step of one call, seen by the others: they keep their locks, and the
\* worktrees they write.
LEMMA OthersKeep ==
  ASSUME RepoTyped, \A d \in RepoCalls : CallOK(d), NEW c \in RepoCalls,
         call' = [call EXCEPT ![c] = call'[c]],
         \A r \in Clones, d \in RepoCalls \ {c} : lock[r] = d => lock'[r] = d,
         \A a \in Areas, r \in Clones :
           lock[r] \in RepoCalls \ {c} => sparse'[<<a, r>>] = sparse[<<a, r>>]
  PROVE  \A d \in RepoCalls \ {c} : CallOK(d)'
<1> SUFFICES ASSUME NEW d \in RepoCalls, d # c PROVE CallOK(d)'
  OBVIOUS
<1>1. call'[d] = call[d]
  BY DEF RepoTyped
<1>2. CallOK(d)
  OBVIOUS
<1>3. call[d].pc \in {"work", "cloned", "row"} =>
        call[d].repo \in Clones /\ lock[call[d].repo] = d /\ lock'[call[d].repo] = d
  BY <1>2 DEF CallOK
<1>4. call[d].pc = "row" => sparse'[<<call[d].area, call[d].repo>>] = call[d].cones
  BY <1>2, <1>3 DEF CallOK
<1> QED
  BY <1>1, <1>2, <1>3, <1>4 DEF CallOK

\* A call that is not between file and row leaves the cones as they agree.
LEMMA AgreeQuietly ==
  ASSUME ConesAgree, NEW c \in RepoCalls, call \in [RepoCalls -> CallStates],
         call' = [call EXCEPT ![c] = call'[c]], call[c].pc # "row",
         UNCHANGED <<sparse, coneRow, split>>
  PROVE  ConesAgree'
<1> SUFFICES ASSUME NEW a \in Areas, NEW r \in Clones
             PROVE  \/ sparse[<<a, r>>] = coneRow[<<a, r>>] \/ <<a, r>> \in split
                    \/ \E d \in RepoCalls : InRow(d, a, r)'
  BY DEF ConesAgree
<1>1. ASSUME NEW d \in RepoCalls, InRow(d, a, r) PROVE InRow(d, a, r)'
  BY <1>1 DEF InRow
<1> QED
  BY <1>1 DEF ConesAgree

\* A call begins: it waits for a permit or for the lock.
LEMMA BeginInv ==
  ASSUME RepoInv, NEW c \in RepoCalls, NEW r \in Clones,
         \/ BeginClone(c, r) \/ SpawnPrewarm(c, r)
         \/ \E s \in ConeSets : SetDefaults(c, r, s) \/ \E a \in Areas : BeginSetCones(c, a, r, s)
  PROVE  (\A d \in RepoCalls : CallOK(d)') /\ ConesAgree' /\ PermitsHeld'
<1>1. /\ RepoTyped /\ call \in [RepoCalls -> CallStates]
      /\ \A d \in RepoCalls : CallOK(d)
      /\ ConesAgree /\ PermitsHeld
  BY DEF RepoInv, RepoTyped
<1>2. /\ call[c].pc = "idle" /\ UNCHANGED <<lock, permits, sparse, coneRow, split>>
      /\ call' = [call EXCEPT ![c] = call'[c]]
      /\ call'[c].repo = r
      /\ \/ call'[c].op = "prewarm" /\ call'[c].pc = "permit"
         \/ call'[c].op \in {"clone", "cones"} /\ call'[c].pc = "lock"
  BY <1>1, BeginKinds
<1>3. \A d \in RepoCalls \ {c} : call'[d] = call[d]
  BY <1>1, <1>2
<1>4. \A d \in RepoCalls : CallOK(d)'
  <2>1. \A d \in RepoCalls \ {c} : CallOK(d)'
    BY <1>1, <1>2, OthersKeep
  <2>2. CallOK(c)'
    BY <1>2 DEF CallOK
  <2> QED
    BY <2>1, <2>2
<1>5. ConesAgree'
  BY <1>1, <1>2, AgreeQuietly
<1>6. PermitsHeld'
  BY <1>1, <1>2, <1>3, PermitsMove DEF HasPermit
<1> QED
  BY <1>4, <1>5, <1>6

\* A call's step that writes neither the cones' file nor their row.
LEMMA QuietStepInv ==
  ASSUME RepoInv, NEW c \in RepoCalls,
         \/ TakeLock(c) \/ GitClones(c) \/ CloneEnds(c) \/ TakePermit(c)
         \/ PrewarmFetches(c) \/ DropHandle(c) \/ \E a \in Areas : SparseFails(c, a)
  PROVE  (\A d \in RepoCalls : CallOK(d)') /\ ConesAgree' /\ PermitsHeld'
<1>1. /\ RepoTyped /\ call \in [RepoCalls -> CallStates]
      /\ lock \in [Clones -> RepoCalls \cup {NoCall}]
      /\ \A d \in RepoCalls : CallOK(d)
      /\ ConesAgree /\ PermitsHeld /\ NoCall \notin RepoCalls
  BY RestingTypes DEF RepoInv, RepoTyped
<1>2. /\ call' = [call EXCEPT ![c] = call'[c]] /\ call[c] \in CallStates
      /\ call'[c].repo = call[c].repo /\ call'[c].op = call[c].op
  BY <1>1, StepTypes DEF CallStep
<1>3. \A d \in RepoCalls \ {c} : call'[d] = call[d]
  BY <1>1, <1>2
<1>4. UNCHANGED <<sparse, coneRow, split>>
  BY DEF TakeLock, GitClones, CloneEnds, TakePermit, PrewarmFetches, DropHandle, PrewarmOver,
         SparseFails, conesVars
<1>5. /\ call[c].pc \in {"permit", "lock", "work", "cloned"}
      /\ \/ call[c].pc = "permit" /\ call'[c].pc = "lock" /\ permits' = permits - 1
         \/ call[c].pc = "lock" /\ call'[c].pc = "work" /\ permits' = permits
            /\ lock[call[c].repo] = NoCall /\ lock' = [lock EXCEPT ![call[c].repo] = c]
         \/ call[c].op = "clone" /\ call[c].pc = "work" /\ call'[c].pc = "cloned"
            /\ permits' = permits /\ lock' = lock
         \/ call[c].op # "prewarm" /\ call'[c].pc \in {"lock", "done"} /\ permits' = permits
            /\ lock' = Unlocked(c)
         \/ call[c].pc = "cloned" /\ call'[c].pc = "done" /\ permits' = permits
            /\ lock' = Unlocked(c)
         \/ call[c].op = "prewarm" /\ call'[c].pc = "done" /\ permits' = Returned(c)
            /\ lock' = Unlocked(c)
      /\ lock' \in {lock, Unlocked(c)} \/ (lock[call[c].repo] = NoCall /\ lock' = [lock EXCEPT ![call[c].repo] = c])
  <2>1. ASSUME NEW p \in {"lock", "work", "cloned", "done"}, call' = [call EXCEPT ![c].pc = p]
        PROVE  call'[c].pc = p
    BY <1>1, <1>2, <2>1 DEF CallStates
  <2>2. CASE TakeLock(c)
    BY <2>1, <2>2 DEF TakeLock
  <2>3. CASE GitClones(c)
    BY <2>1, <2>3 DEF GitClones
  <2>4. CASE CloneEnds(c)
    BY <2>1, <2>4 DEF CloneEnds
  <2>5. CASE TakePermit(c)
    BY <2>1, <2>5 DEF TakePermit
  <2>6. CASE PrewarmFetches(c) \/ DropHandle(c)
    BY <2>1, <2>6 DEF PrewarmFetches, DropHandle, PrewarmOver
  <2>7. ASSUME NEW a \in Areas, SparseFails(c, a)
        PROVE  /\ call[c].op = "cones" /\ call[c].pc = "work" /\ permits' = permits
               /\ lock' = Unlocked(c) /\ call'[c].pc \in {"lock", "done"}
    <3>1. PICK p \in {"lock", "done"} : call' = [call EXCEPT ![c].left = @ \ {a}, ![c].pc = p]
      BY <2>7 DEF SparseFails, NextArea
    <3>2. call'[c].pc = p
      BY <1>1, <1>2, <3>1 DEF CallStates
    <3> QED
      BY <2>7, <3>2 DEF SparseFails, NextArea, AtArea
  <2> QED
    BY <2>2, <2>3, <2>4, <2>5, <2>6, <2>7
<1>6. \A d \in RepoCalls : CallOK(d)'
  <2>1. \A r \in Clones, d \in RepoCalls \ {c} : lock[r] = d => lock'[r] = d
    BY <1>1, <1>5, UnlockedTypes
  <2>2. \A d \in RepoCalls \ {c} : CallOK(d)'
    BY <1>1, <1>2, <1>4, <2>1, OthersKeep
  <2>3. CallOK(c)'
    <3>1. CallOK(c) /\ call[c].repo \in Clones
      BY <1>1, <1>5 DEF CallOK
    <3>2. call'[c].pc \in {"work", "cloned"} => lock'[call[c].repo] = c
      BY <1>1, <1>5, <3>1 DEF CallOK
    <3> QED
      BY <1>2, <1>5, <3>1, <3>2 DEF CallOK
  <2> QED
    BY <2>2, <2>3
<1>7. ConesAgree'
  BY <1>1, <1>2, <1>4, <1>5, AgreeQuietly
<1>8. PermitsHeld'
  <2>1. \A d \in RepoCalls \ {c} : HasPermit(d)' <=> HasPermit(d)
    BY <1>3 DEF HasPermit
  <2>2. call[c].pc = "permit" => call[c].op = "prewarm"
    BY <1>1 DEF CallOK
  <2>3. permits \in Int
    <3>1. Cardinality(Warming) \in Nat
      BY RepoAssumption, FS_Subset, FS_CardinalityType DEF Warming
    <3> QED
      BY <1>1, <3>1, RepoAssumption DEF PermitsHeld
  <2> QED
    BY <1>1, <1>2, <1>5, <2>1, <2>2, <2>3, PermitsMove DEF HasPermit, Returned
<1> QED
  BY <1>6, <1>7, <1>8

\* The two writes of the cones: the file, under the lock, and then the row.
LEMMA ConesStepInv ==
  ASSUME RepoInv, NEW c \in RepoCalls, NEW a \in Areas, ApplyCones(c, a) \/ PersistCones(c, a)
  PROVE  (\A d \in RepoCalls : CallOK(d)') /\ ConesAgree' /\ PermitsHeld'
<1> DEFINE r == call[c].repo
<1>1. /\ RepoTyped /\ call \in [RepoCalls -> CallStates]
      /\ sparse \in [Worktrees -> ConeSets \cup {NoCones}]
      /\ coneRow \in [Worktrees -> ConeSets \cup {NoCones}]
      /\ \A d \in RepoCalls : CallOK(d)
      /\ ConesAgree /\ PermitsHeld
  BY DEF RepoInv, RepoTyped
<1>2. /\ call' = [call EXCEPT ![c] = call'[c]] /\ call[c] \in CallStates
      /\ call'[c].repo = r /\ call'[c].op = call[c].op /\ call'[c].cones = call[c].cones
  BY <1>1, StepTypes DEF CallStep
<1>3. \A d \in RepoCalls \ {c} : call'[d] = call[d]
  BY <1>1, <1>2
<1>4. /\ call[c].pc \in {"work", "row"} /\ call[c].op = "cones"
      /\ r \in Clones /\ lock[r] = c /\ <<a, r>> \in Worktrees
  BY <1>1 DEF ApplyCones, SparseSet, AtArea, PersistCones, InRow, CallOK, Worktrees
<1>5. PermitsHeld'
  <2>1. permits' = permits
    BY DEF ApplyCones, SparseSet, PersistCones
  <2>2. \A d \in RepoCalls : HasPermit(d)' <=> HasPermit(d)
    BY <1>2, <1>3, <1>4 DEF HasPermit
  <2> QED
    BY <1>1, <2>1, <2>2, PermitsMove
<1>6. CASE ApplyCones(c, a)
  <2>1. /\ sparse' = [sparse EXCEPT ![<<a, r>>] = call[c].cones]
        /\ call' = [call EXCEPT ![c].pc = "row", ![c].area = a]
        /\ call[c].pc = "work" /\ UNCHANGED <<lock, coneRow, split>>
    BY <1>6 DEF ApplyCones, SparseSet, AtArea
  <2>2. call'[c].pc = "row" /\ call'[c].area = a
    BY <1>1, <1>2, <2>1 DEF CallStates
  <2>3. \A b \in Areas, q \in Clones : <<b, q>> # <<a, r>> => sparse'[<<b, q>>] = sparse[<<b, q>>]
    BY <1>1, <2>1 DEF Worktrees
  <2>4. sparse'[<<a, r>>] = call[c].cones
    BY <1>1, <1>4, <2>1
  <2>5. \A d \in RepoCalls \ {c} : CallOK(d)'
    <3>1. \A b \in Areas, q \in Clones :
            lock[q] \in RepoCalls \ {c} => sparse'[<<b, q>>] = sparse[<<b, q>>]
      BY <1>4, <2>3
    <3> QED
      BY <1>1, <1>2, <2>1, <3>1, OthersKeep
  <2>6. CallOK(c)'
    BY <1>2, <1>4, <2>1, <2>2, <2>4 DEF CallOK
  <2>7. ASSUME NEW b \in Areas, NEW q \in Clones
        PROVE  \/ sparse'[<<b, q>>] = coneRow'[<<b, q>>] \/ <<b, q>> \in split'
               \/ \E d \in RepoCalls : InRow(d, b, q)'
    <3>1. CASE <<b, q>> = <<a, r>>
      <4>1. InRow(c, b, q)'
        BY <1>2, <2>2, <3>1 DEF InRow
      <4> QED
        BY <4>1
    <3>2. CASE <<b, q>> # <<a, r>>
      <4>1. \A d \in RepoCalls : InRow(d, b, q) => InRow(d, b, q)'
        BY <1>3, <2>1 DEF InRow
      <4> QED
        BY <1>1, <2>1, <2>3, <3>2, <4>1 DEF ConesAgree
    <3> QED
      BY <3>1, <3>2
  <2>8. ConesAgree'
    BY <2>7 DEF ConesAgree
  <2> QED
    BY <1>5, <2>5, <2>6, <2>8
<1>7. CASE PersistCones(c, a)
  <2>1. /\ InRow(c, a, r) /\ UNCHANGED sparse /\ lock' = Unlocked(c)
        /\ \/ coneRow' = [coneRow EXCEPT ![<<a, r>>] = call[c].cones] /\ split' = split \ {<<a, r>>}
           \/ coneRow' = coneRow /\ split' = split \cup {<<a, r>>}
    BY <1>7 DEF PersistCones, NextArea
  <2>2. call'[c].pc \in {"lock", "done"}
    <3>1. PICK p \in {"lock", "done"} : call' = [call EXCEPT ![c].left = @ \ {a}, ![c].pc = p]
      BY <1>7 DEF PersistCones, NextArea
    <3> QED
      BY <1>1, <1>2, <3>1 DEF CallStates
  <2>3. \A d \in RepoCalls \ {c} : CallOK(d)'
    BY <1>1, <1>2, <2>1, UnlockedTypes, OthersKeep
  <2>4. CallOK(c)'
    BY <1>2, <1>4, <2>2 DEF CallOK
  <2>5. sparse[<<a, r>>] = call[c].cones
    BY <1>1, <2>1 DEF CallOK, InRow
  <2>6. ASSUME NEW b \in Areas, NEW q \in Clones
        PROVE  \/ sparse'[<<b, q>>] = coneRow'[<<b, q>>] \/ <<b, q>> \in split'
               \/ \E d \in RepoCalls : InRow(d, b, q)'
    <3>1. CASE <<b, q>> = <<a, r>>
      BY <1>1, <1>4, <2>1, <2>5, <3>1
    <3>2. CASE <<b, q>> # <<a, r>>
      <4>1. \A d \in RepoCalls : InRow(d, b, q) => InRow(d, b, q)'
        BY <1>3, <2>1, <3>2 DEF InRow
      <4>2. <<b, q>> \in split => <<b, q>> \in split'
        BY <2>1, <3>2
      <4>3. coneRow'[<<b, q>>] = coneRow[<<b, q>>]
        BY <1>1, <2>1, <3>2 DEF Worktrees
      <4> QED
        BY <1>1, <2>1, <4>1, <4>2, <4>3 DEF ConesAgree
    <3> QED
      BY <3>1, <3>2
  <2>7. ConesAgree'
    BY <2>6 DEF ConesAgree
  <2> QED
    BY <1>5, <2>3, <2>4, <2>7
<1> QED
  BY <1>6, <1>7

\* A crash ends every call: what was between file and row is on record as split.
LEMMA CrashInv ==
  ASSUME RepoInv, RepoCrash
  PROVE  (\A d \in RepoCalls : CallOK(d)') /\ ConesAgree' /\ PermitsHeld'
<1>1. /\ call \in [RepoCalls -> CallStates] /\ ConesAgree
  BY DEF RepoInv, RepoTyped
<1>2. ASSUME NEW d \in RepoCalls PROVE call'[d].pc \in {"idle", "done"}
  <2>1. call[d] \in CallStates /\ call'[d] \in {Resting, [call[d] EXCEPT !.pc = "done"]}
    BY <1>1 DEF RepoCrash
  <2> QED
    BY <2>1, RestingTypes DEF CallStates
<1>3. \A d \in RepoCalls : CallOK(d)'
  BY <1>2 DEF CallOK
<1>4. ASSUME NEW a \in Areas, NEW r \in Clones
      PROVE  sparse'[<<a, r>>] = coneRow'[<<a, r>>] \/ <<a, r>> \in split'
  <2>1. UNCHANGED <<sparse, coneRow>> /\ split \subseteq split'
    BY DEF RepoCrash
  <2>2. <<a, r>> \in Worktrees /\ <<a, r>>[1] = a /\ <<a, r>>[2] = r
    BY DEF Worktrees
  <2>3. (\E c \in RepoCalls : InRow(c, a, r)) => <<a, r>> \in split'
    BY <2>2 DEF RepoCrash
  <2> QED
    BY <1>1, <2>1, <2>3 DEF ConesAgree
<1>5. ConesAgree'
  BY <1>4 DEF ConesAgree
<1>6. PermitsHeld'
  <2>1. Warming' = {}
    BY <1>2 DEF Warming, HasPermit
  <2> QED
    BY <2>1, FS_EmptySet, RepoAssumption DEF PermitsHeld, RepoCrash
<1> QED
  BY <1>3, <1>5, <1>6

\* The inductive invariant of the repository manager.
LEMMA RepoInvHolds == RepoInit /\ [][RepoNext]_rmVars => []RepoInv
<1>1. RepoInit => RepoInv
  <2> SUFFICES ASSUME RepoInit PROVE RepoInv
    OBVIOUS
  <2>1. RepoTyped
    BY RestingTypes DEF RepoInit, RepoTyped
  <2>2. \A c \in RepoCalls : call[c].pc = "idle"
    BY RestingTypes DEF RepoInit
  <2>3. \A c \in RepoCalls : CallOK(c)
    BY <2>2 DEF CallOK
  <2>4. ConesAgree
    BY DEF RepoInit, ConesAgree, Worktrees
  <2>5. Warming = {}
    BY <2>2 DEF Warming, HasPermit
  <2>6. PermitsHeld
    BY <2>5, FS_EmptySet, RepoAssumption DEF RepoInit, PermitsHeld
  <2> QED
    BY <2>1, <2>3, <2>4, <2>6 DEF RepoInv
<1>2. RepoInv /\ [RepoNext]_rmVars => RepoInv'
  <2> SUFFICES ASSUME RepoInv, [RepoNext]_rmVars PROVE RepoInv'
    OBVIOUS
  <2>1. RepoTyped'
    BY RepoNextTypes DEF RepoInv
  <2>2. CASE UNCHANGED rmVars
    BY <2>1, <2>2 DEF rmVars, conesVars, RepoInv, CallOK, ConesAgree, InRow, PermitsHeld, Warming, HasPermit
  <2>3. CASE RepoNext
    <3>1. (\A d \in RepoCalls : CallOK(d)') /\ ConesAgree' /\ PermitsHeld'
      BY <2>3, BeginInv, QuietStepInv, ConesStepInv, CrashInv DEF RepoNext, CallStep
    <3> QED
      BY <2>1, <3>1 DEF RepoInv
  <2> QED
    BY <2>2, <2>3
<1> QED
  BY <1>1, <1>2, PTL

(* The row and the worktree agree on the cones, however calls for one        *)
(* worktree and a change of the defaults overlap (ConesAgree; the exceptions *)
(* are a call between its two writes and one whose second write failed).     *)
THEOREM ConesAgreeHolds == RepoSpec => []ConesAgree
<1>1. RepoInv => ConesAgree
  BY DEF RepoInv
<1> QED
  BY <1>1, RepoInvHolds, PTL DEF RepoSpec

(* No prewarm permit is lost or made: each is free or at one prewarm that    *)
(* waits for its repository or runs, also after one was aborted (the permit  *)
(* conjunct of RepoTypeOK; prefetch.rs).                                     *)
THEOREM PermitsAreHeld == RepoSpec => []PermitsHeld
<1>1. RepoInv => PermitsHeld
  BY DEF RepoInv
<1> QED
  BY <1>1, RepoInvHolds, PTL DEF RepoSpec

\* The clones, the defaults and what is on record as split.
StoresTyped ==
  /\ clone \in [Clones -> {"none", "partial", "full"}]
  /\ defaults \in [Clones -> ConeSets \cup {NoCones}]
  /\ split \subseteq Worktrees

\* Of a call's steps the clone and the row's write touch them.
LEMMA StoresKept ==
  ASSUME RepoInv, StoresTyped, [RepoNext]_rmVars
  PROVE  StoresTyped'
<1>0. /\ clone \in [Clones -> {"none", "partial", "full"}] /\ split \subseteq Worktrees
      /\ defaults \in [Clones -> ConeSets \cup {NoCones}]
  BY DEF StoresTyped
<1>1. ASSUME NEW c \in RepoCalls, CallStep(c) \/ DropHandle(c) PROVE StoresTyped'
  <2>1. defaults' = defaults
    BY <1>1 DEF CallStep, DropHandle, TakeLock, GitClones, CloneEnds, TakePermit, PrewarmFetches,
       PrewarmOver, ApplyCones, SparseSet, SparseFails, PersistCones, conesVars
  <2>2. \/ clone' = clone
        \/ \E r, to : to \in {"none", "partial", "full"} /\ clone' = [clone EXCEPT ![r] = to]
    BY <1>1 DEF CallStep, DropHandle, TakeLock, GitClones, CloneEnds, TakePermit, PrewarmFetches,
       PrewarmOver, ApplyCones, SparseSet, SparseFails, PersistCones
  <2>3. clone' \in [Clones -> {"none", "partial", "full"}]
    BY <1>0, <2>2
  <2>4. split' \subseteq split \/ \E a \in Areas : PersistCones(c, a)
    BY <1>1 DEF CallStep, DropHandle, TakeLock, GitClones, CloneEnds, TakePermit, PrewarmFetches,
       PrewarmOver, ApplyCones, SparseSet, SparseFails, conesVars
  <2>5. ASSUME NEW a \in Areas, PersistCones(c, a) PROVE split' \subseteq Worktrees
    <3>1. call[c].pc = "row" /\ CallOK(c)
      BY <2>5 DEF PersistCones, InRow, RepoInv
    <3>2. call[c].repo \in Clones
      BY <3>1 DEF CallOK
    <3>3. <<a, call[c].repo>> \in Worktrees
      BY <3>2 DEF Worktrees
    <3> QED
      BY <1>0, <2>5, <3>3 DEF PersistCones
  <2> QED
    BY <1>0, <2>1, <2>3, <2>4, <2>5 DEF StoresTyped
<1>2. ASSUME NEW c \in RepoCalls, NEW r \in Clones,
             \/ BeginClone(c, r) \/ SpawnPrewarm(c, r)
             \/ \E s \in ConeSets : SetDefaults(c, r, s) \/ \E a \in Areas : BeginSetCones(c, a, r, s)
      PROVE  StoresTyped'
  <2>1. CASE BeginClone(c, r) \/ SpawnPrewarm(c, r)
    BY <1>0, <2>1 DEF BeginClone, SpawnPrewarm, conesVars, StoresTyped
  <2>2. ASSUME NEW s \in ConeSets, SetDefaults(c, r, s) PROVE StoresTyped'
    BY <1>0, <2>2 DEF SetDefaults, StoresTyped
  <2>3. ASSUME NEW s \in ConeSets, NEW a \in Areas, BeginSetCones(c, a, r, s)
        PROVE  StoresTyped'
    BY <1>0, <2>3 DEF BeginSetCones, conesVars, StoresTyped
  <2> QED
    BY <1>2, <2>1, <2>2, <2>3
<1>3. CASE RepoCrash
  BY <1>0, <1>3 DEF RepoCrash, StoresTyped
<1>4. CASE UNCHANGED rmVars
  BY <1>0, <1>4 DEF rmVars, conesVars, StoresTyped
<1> QED
  BY <1>1, <1>2, <1>3, <1>4 DEF RepoNext

\* What the types of the repositories rest on, without fairness.
LEMMA RepoTypesInvariant ==
  ASSUME Clones # {}, Areas # {}, ConeSets # {}
  PROVE  RepoInit /\ [][RepoNext]_rmVars => []RepoTypeOK
<1>1. RepoInit => StoresTyped
  BY DEF RepoInit, StoresTyped
<1>2. RepoInv /\ StoresTyped => RepoTypeOK
  <2> SUFFICES ASSUME RepoInv, StoresTyped PROVE RepoTypeOK
    OBVIOUS
  <2>1. NoCones \in ConeSets /\ Resting.repo \in Clones /\ Resting.area \in Areas
    BY DEF NoCones, Resting
  <2>2. call \in [RepoCalls -> [op : {"none", "clone", "prewarm", "cones"},
                   pc : {"idle", "permit", "lock", "work", "cloned", "row", "done"},
                   repo : Clones, cones : ConeSets, left : SUBSET Areas, area : Areas]]
    BY <2>1 DEF RepoInv, RepoTyped, CallStates
  <2> QED
    BY <2>1, <2>2 DEF RepoInv, RepoTyped, StoresTyped, RepoTypeOK, PermitsHeld, Warming
<1> QED
  BY <1>1, <1>2, StoresKept, RepoInvHolds, PTL

(* Clones, locks, calls and cones keep their types, and the permits their    *)
(* count, as soon as there is a repository, a workarea and a set of cones a  *)
(* call could be about (repo_manager/actor.rs, prefetch.rs).                 *)
THEOREM RepoTypesHold ==
  ASSUME Clones # {}, Areas # {}, ConeSets # {}
  PROVE  RepoSpec => []RepoTypeOK
BY RepoTypesInvariant, PTL DEF RepoSpec

-----------------------------------------------------------------------------
(* Creation, archive and restore on the disk.                               *)

OpStates == [pc : {"idle", "add", "failed", "retry"}, name : Name,
             left : SUBSET Repos, built : SUBSET Repos, hurt : BOOLEAN]
DiskStates == [kind : {"none", "archive", "row", "restore"}, name : Name,
               left : SUBSET Repos]
RowStates == [status : {"none", "active", "partial", "crashed", "archived"},
              repos : SUBSET Repos]

\* The repositories rs of composer n are on disk and in git's list.
Built(n, rs) == \A r \in rs : <<n, r>> \in trees \cap known

\* What a call has built for a name nobody has taken is there.
AdderSound ==
  \A c \in Creators :
    op[c].pc = "add" /\ rows[op[c].name] = NoRow /\ op[c].name \notin torn =>
      Built(op[c].name, op[c].built)

\* An archive or a restore is of a row; a restore has what it is not to add.
DiskSound ==
  /\ disk.kind = "none" => disk = NoDisk
  /\ disk.kind # "none" => rows[disk.name] # NoRow
  /\ disk.kind = "restore" =>
       /\ rows[disk.name].status \in {"archived", "crashed"}
       /\ disk.name \notin torn => Built(disk.name, rows[disk.name].repos \ disk.left)

WcInv ==
  /\ CreateTypeOK /\ trees \subseteq known
  /\ AdderSound /\ DiskSound /\ ListedIsMaterialized

\* A name's sites stay what they are, or nobody relies on them.
Spared(n) ==
  \/ n \in torn'
  \/ rows[n] = NoRow
     /\ (\A d \in Creators : op'[d].pc = "add" /\ op'[d].name = n => op'[d].built = {})
  \/ \A r \in Repos : <<n, r>> \in trees \cap known => <<n, r>> \in trees' \cap known'

\* Constants of the model have their types.
LEMMA WcConstants ==
  /\ CreateTypeOK =>
       /\ rows \in [Name -> RowStates] /\ op \in [Creators -> OpStates]
       /\ disk \in DiskStates /\ root \subseteq Name /\ torn \subseteq Name
       /\ trees \subseteq Site /\ known \subseteq Site
  /\ 1 \in Name
  /\ NoOp \in OpStates /\ NoOp.pc = "idle" /\ NoOp.built = {}
  /\ NoDisk \in DiskStates /\ NoDisk.kind = "none"
  /\ NoRow \in RowStates /\ NoRow.status = "none"
<1>1. 1 \in Name
  BY CreateAssumption DEF Name
<1>2. NoOp \in OpStates
  BY <1>1 DEF NoOp, OpStates
<1>3. NoDisk \in DiskStates
  BY <1>1 DEF NoDisk, DiskStates
<1>4. NoRow \in RowStates
  BY DEF NoRow, RowStates
<1> QED
  BY <1>1, <1>2, <1>3, <1>4 DEF CreateTypeOK, RowStates, OpStates, DiskStates, NoOp, NoDisk, NoRow

\* No workarea, no directory, no call: nothing to rely on.
LEMMA CreateInitially == CreateInit => WcInv
<1> SUFFICES ASSUME CreateInit PROVE WcInv
  OBVIOUS
<1>1. /\ rows = [n \in Name |-> NoRow] /\ op = [c \in Creators |-> NoOp] /\ disk = NoDisk
      /\ root = {} /\ trees = {} /\ known = {} /\ torn = {}
  BY DEF CreateInit
<1>2. CreateTypeOK
  BY <1>1, WcConstants DEF CreateTypeOK, RowStates, OpStates, DiskStates
<1>3. AdderSound
  BY <1>1, WcConstants DEF AdderSound
<1>4. DiskSound
  BY <1>1, WcConstants DEF DiskSound
<1>5. ListedIsMaterialized
  BY <1>1, WcConstants DEF ListedIsMaterialized
<1> QED
  BY <1>1, <1>2, <1>3, <1>4, <1>5 DEF WcInv

\* A call's step, which leaves rows and archives alone, keeps what the others
\* rely on when it spares every name and builds what it says it has built.
LEMMA SparedKeeps ==
  ASSUME WcInv, UNCHANGED <<rows, disk>>, CreateTypeOK', trees' \subseteq known',
         torn \subseteq torn', \A n \in Name : Spared(n),
         \A d \in Creators : op'[d].pc = "add" =>
            \/ op'[d].built = {}
            \/ /\ op[d].pc = "add" /\ op[d].name = op'[d].name
               /\ \A r \in op'[d].built \ op[d].built : <<op'[d].name, r>> \in trees' \cap known'
  PROVE  WcInv'
<1>0. /\ rows \in [Name -> RowStates] /\ disk \in DiskStates
      /\ op \in [Creators -> OpStates] /\ op' \in [Creators -> OpStates]
      /\ NoRow.status = "none"
  BY WcConstants DEF WcInv, CreateTypeOK, OpStates
<1>1. AdderSound'
  <2> SUFFICES ASSUME NEW d \in Creators, op'[d].pc = "add", rows[op'[d].name] = NoRow,
                      op'[d].name \notin torn', NEW r \in op'[d].built
               PROVE  <<op'[d].name, r>> \in trees' \cap known'
    BY DEF AdderSound, Built
  <2>1. op'[d].name \in Name /\ r \in Repos
    BY <1>0 DEF OpStates
  <2>2. /\ op[d].pc = "add" /\ op[d].name = op'[d].name
        /\ \A q \in op'[d].built \ op[d].built : <<op'[d].name, q>> \in trees' \cap known'
    OBVIOUS
  <2>3. CASE r \in op[d].built
    <3>1. <<op'[d].name, r>> \in trees \cap known
      BY <2>2, <2>3 DEF WcInv, AdderSound, Built
    <3> QED
      BY <2>1, <2>2, <3>1 DEF Spared
  <2> QED
    BY <2>2, <2>3
<1>2. DiskSound'
  <2>1. ASSUME disk.kind = "restore", disk.name \notin torn'
        PROVE  \A r \in rows[disk.name].repos \ disk.left : <<disk.name, r>> \in trees' \cap known'
    <3>1. /\ disk.name \in Name /\ rows[disk.name] # NoRow
          /\ rows[disk.name].repos \subseteq Repos
      BY <1>0, <2>1 DEF WcInv, DiskSound, DiskStates, RowStates
    <3>2. Built(disk.name, rows[disk.name].repos \ disk.left)
      BY <2>1 DEF WcInv, DiskSound
    <3> QED
      BY <2>1, <3>1, <3>2 DEF Built, Spared
  <2> QED
    BY <2>1 DEF WcInv, DiskSound, Built
<1>3. ListedIsMaterialized'
  <2> SUFFICES ASSUME NEW n \in Name, rows[n].status \in {"active", "partial"}, n \notin torn',
                      disk = NoDisk \/ disk.name # n, NEW r \in rows[n].repos
               PROVE  <<n, r>> \in trees' \cap known'
    BY DEF ListedIsMaterialized
  <2>1. rows[n] # NoRow /\ r \in Repos
    BY <1>0 DEF RowStates
  <2>2. <<n, r>> \in trees \cap known
    BY DEF WcInv, ListedIsMaterialized
  <2> QED
    BY <2>1, <2>2 DEF Spared
<1> QED
  BY <1>1, <1>2, <1>3 DEF WcInv

\* A change of one call, with its fields.
LEMMA OpIs ==
  ASSUME CreateTypeOK, NEW c \in Creators, NEW s \in OpStates, op' = [op EXCEPT ![c] = s]
  PROVE  /\ op' \in [Creators -> OpStates]
         /\ op'[c] = s /\ \A d \in Creators \ {c} : op'[d] = op[d]
<1> QED
  BY WcConstants

\* A name is chosen among those no row carries.
LEMMA AllocateKeeps ==
  ASSUME WcInv, NEW c \in Creators, NEW asked, Allocate(c, asked)
  PROVE  WcInv'
<1> DEFINE n == Min(Name \ Used)
<1>1. Name \ Used \in SUBSET Nat /\ Name \ Used # {}
  BY DEF Allocate, Used, Name
<1>2. n \in Name
  <2>1. \E x \in Name \ Used : \A y \in Name \ Used : x <= y
    BY <1>1, LeastExists
  <2> QED
    BY <2>1 DEF Min
<1> HIDE DEF n
<1>3. PICK s \in OpStates : s = [NoOp EXCEPT !.pc = "add", !.name = n,
                                             !.left = Repos, !.hurt = op[c].hurt]
  <2>1. op[c].hurt \in BOOLEAN
    BY WcConstants DEF WcInv, OpStates
  <2>2. [NoOp EXCEPT !.pc = "add", !.name = n, !.left = Repos, !.hurt = op[c].hurt] \in OpStates
    BY <1>2, <2>1, WcConstants DEF OpStates
  <2> QED
    BY <2>2
<1>4. s.built = {}
  BY <1>3, WcConstants DEF OpStates
<1>5. op' = [op EXCEPT ![c] = s] /\ root' = root \cup {n}
      /\ UNCHANGED <<rows, trees, known, disk, torn>>
  BY <1>3 DEF Allocate, n
<1>6. /\ op' \in [Creators -> OpStates]
      /\ op'[c] = s /\ \A d \in Creators \ {c} : op'[d] = op[d]
  BY <1>5, OpIs DEF WcInv
<1>7. CreateTypeOK'
  BY <1>2, <1>5, <1>6 DEF WcInv, CreateTypeOK, OpStates
<1>8. \A m \in Name : Spared(m)
  BY <1>5 DEF Spared
<1> QED
  BY <1>4, <1>5, <1>6, <1>7, <1>8, SparedKeeps DEF WcInv

\* A repository added is on disk and in git's list; one that git refuses is
\* not built.
LEMMA AddRepoKeeps ==
  ASSUME WcInv, NEW c \in Creators, NEW r \in Repos, AddRepo(c, r) \/ AddFails(c, r)
  PROVE  WcInv'
<1>0. op[c] \in OpStates /\ op[c].pc = "add" /\ op[c].name \in Name
  BY WcConstants DEF WcInv, OpStates, AddRepo, AddFails, At
<1>1. CASE /\ op' = [op EXCEPT ![c].left = @ \ {r}, ![c].built = @ \cup {r}]
           /\ trees' = trees \cup {<<op[c].name, r>>}
           /\ known' = known \cup {<<op[c].name, r>>}
           /\ root' = root \cup {op[c].name}
           /\ UNCHANGED <<rows, disk, torn>>
  <2>1. PICK s \in OpStates : s = [op[c] EXCEPT !.left = @ \ {r}, !.built = @ \cup {r}]
    BY <1>0 DEF OpStates
  <2>2. op' = [op EXCEPT ![c] = s] /\ s.built = op[c].built \cup {r} /\ s.name = op[c].name
        /\ s.pc = "add"
    BY <1>0, <1>1, <2>1, WcConstants DEF OpStates, WcInv
  <2>3. /\ op' \in [Creators -> OpStates]
        /\ op'[c] = s /\ \A d \in Creators \ {c} : op'[d] = op[d]
    BY <2>2, OpIs DEF WcInv
  <2>4. CreateTypeOK'
    BY <1>0, <1>1, <2>3 DEF WcInv, CreateTypeOK, OpStates, Site
  <2>5. \A m \in Name : Spared(m)
    BY <1>1 DEF Spared
  <2>6. \A d \in Creators : op'[d].pc = "add" =>
          /\ op[d].pc = "add" /\ op[d].name = op'[d].name
          /\ \A q \in op'[d].built \ op[d].built : <<op'[d].name, q>> \in trees' \cap known'
    BY <1>0, <1>1, <2>2, <2>3
  <2> QED
    BY <1>1, <2>4, <2>5, <2>6, SparedKeeps DEF WcInv
<1>2. CASE /\ \/ op' = [op EXCEPT ![c].left = @ \ {r}]
              \/ op' = [op EXCEPT ![c].left = @ \ {r}, ![c].hurt = TRUE]
           /\ UNCHANGED <<rows, stores, disk, torn>>
  <2>1. PICK s \in OpStates : /\ s.built = op[c].built /\ s.name = op[c].name
                              /\ op' = [op EXCEPT ![c] = s]
    <3>1. CASE op' = [op EXCEPT ![c].left = @ \ {r}]
      <4>1. [op[c] EXCEPT !.left = @ \ {r}] \in OpStates
        BY <1>0 DEF OpStates
      <4>2. /\ [op[c] EXCEPT !.left = @ \ {r}].built = op[c].built
            /\ [op[c] EXCEPT !.left = @ \ {r}].name = op[c].name
        BY <1>0 DEF OpStates
      <4> QED
        BY <3>1, <4>1, <4>2
    <3>2. CASE op' = [op EXCEPT ![c].left = @ \ {r}, ![c].hurt = TRUE]
      <4>1. [op[c] EXCEPT !.left = @ \ {r}, !.hurt = TRUE] \in OpStates
        BY <1>0 DEF OpStates
      <4>2. /\ [op[c] EXCEPT !.left = @ \ {r}, !.hurt = TRUE].built = op[c].built
            /\ [op[c] EXCEPT !.left = @ \ {r}, !.hurt = TRUE].name = op[c].name
        BY <1>0 DEF OpStates
      <4>3. op' = [op EXCEPT ![c] = [op[c] EXCEPT !.left = @ \ {r}, !.hurt = TRUE]]
        BY <3>2, WcConstants DEF WcInv
      <4> QED
        BY <4>1, <4>2, <4>3
    <3> QED
      BY <1>2, <3>1, <3>2
  <2>3. /\ op' \in [Creators -> OpStates]
        /\ op'[c] = s /\ \A d \in Creators \ {c} : op'[d] = op[d]
    BY <2>1, OpIs DEF WcInv
  <2>4. CreateTypeOK'
    BY <1>2, <2>3 DEF WcInv, CreateTypeOK, OpStates, stores
  <2>5. \A m \in Name : Spared(m)
    BY <1>2 DEF Spared, stores
  <2>6. \A d \in Creators : op'[d].pc = "add" =>
          /\ op[d].pc = "add" /\ op[d].name = op'[d].name
          /\ \A q \in op'[d].built \ op[d].built : <<op'[d].name, q>> \in trees' \cap known'
    BY <1>0, <2>1, <2>3
  <2> QED
    BY <1>2, <2>4, <2>5, <2>6, SparedKeeps DEF WcInv, stores
<1> QED
  BY <1>1, <1>2 DEF AddRepo, AddFails

\* A cleanup takes a name's directories from under nobody, or the name is torn.
LEMMA CleanupKeeps ==
  ASSUME WcInv, NEW c \in Creators, op[c].pc = "add", Cleanup(c), NEW s \in OpStates,
         s.pc # "add", op' = [op EXCEPT ![c] = s], UNCHANGED <<rows, disk>>
  PROVE  WcInv'
<1> DEFINE n == op[c].name
<1>0. n \in Name
  BY WcConstants DEF WcInv, OpStates
<1>1. /\ op' \in [Creators -> OpStates]
      /\ op'[c] = s /\ \A d \in Creators \ {c} : op'[d] = op[d]
  BY OpIs DEF WcInv
<1>2. /\ known' = known \ {<<n, r>> : r \in op[c].built}
      /\ trees' = {t \in trees : t[1] # n} /\ root' = root \ {n}
      /\ torn' = IF rows[n] # NoRow \/ \E d \in Creators \ {c} : op[d].pc = "add" /\ op[d].name = n
                   THEN torn \cup {n} ELSE torn
  BY DEF Cleanup
<1> HIDE DEF n
<1>3. CreateTypeOK'
  <2>1. torn' \subseteq Name
    BY <1>0, <1>2 DEF WcInv, CreateTypeOK
  <2> QED
    BY <1>1, <1>2, <2>1 DEF WcInv, CreateTypeOK, OpStates
<1>4. trees' \subseteq known'
  <2> SUFFICES ASSUME NEW t \in trees, t[1] # n PROVE t \in known'
    BY <1>2
  <2>1. \A r \in op[c].built : t # <<n, r>>
    OBVIOUS
  <2> QED
    BY <1>2, <2>1 DEF WcInv
<1>5. ASSUME NEW m \in Name PROVE Spared(m)
  <2>1. CASE m # n
    <3>1. ASSUME NEW r \in Repos, <<m, r>> \in trees \cap known PROVE <<m, r>> \in trees' \cap known'
      <4>1. <<m, r>>[1] # n /\ \A q \in op[c].built : <<m, r>> # <<n, q>>
        BY <2>1
      <4> QED
        BY <1>2, <3>1, <4>1
    <3> QED
      BY <3>1 DEF Spared
  <2>2. CASE m = n
    <3>1. CASE n \in torn'
      BY <2>2, <3>1 DEF Spared
    <3>2. CASE n \notin torn'
      <4>1. rows[n] = NoRow /\ \A d \in Creators \ {c} : ~(op[d].pc = "add" /\ op[d].name = n)
        BY <1>2, <3>2
      <4> QED
        BY <1>1, <2>2, <4>1 DEF Spared
    <3> QED
      BY <3>1, <3>2
  <2> QED
    BY <2>1, <2>2
<1>6. torn \subseteq torn'
  BY <1>2
<1>7. \A d \in Creators : op'[d].pc = "add" =>
        /\ op[d].pc = "add" /\ op[d].name = op'[d].name
        /\ \A q \in op'[d].built \ op[d].built : <<op'[d].name, q>> \in trees' \cap known'
  BY <1>1
<1> QED
  BY <1>3, <1>4, <1>5, <1>6, <1>7, SparedKeeps

\* A call that gives up, at any of the places where it does.
LEMMA GiveUpKeeps ==
  ASSUME WcInv, NEW c \in Creators,
         \/ \E r \in Repos : AddEscapes(c, r)
         \/ NothingBuilt(c) \/ CreateFails(c) \/ NameTaken(c)
         \/ \E atInsert \in BOOLEAN : DatabaseFails(c, atInsert)
  PROVE  WcInv'
<1>0. /\ op[c] \in OpStates /\ NoOp \in OpStates /\ NoOp.pc = "idle"
      /\ op \in [Creators -> OpStates]
  BY WcConstants DEF WcInv
<1>1. PICK s \in OpStates : s.pc # "add" /\ op' = [op EXCEPT ![c] = s]
  <2>1. [op[c] EXCEPT !.pc = "failed"] \in OpStates /\ [op[c] EXCEPT !.pc = "failed"].pc = "failed"
    BY <1>0 DEF OpStates
  <2>2. [op[c] EXCEPT !.pc = "retry"] \in OpStates /\ [op[c] EXCEPT !.pc = "retry"].pc = "retry"
    BY <1>0 DEF OpStates
  <2>3. [op EXCEPT ![c].pc = "retry"] = [op EXCEPT ![c] = [op[c] EXCEPT !.pc = "retry"]]
    BY <1>0
  <2> QED
    BY <1>0, <2>1, <2>2, <2>3
       DEF AddEscapes, NothingBuilt, CreateFails, NameTaken, DatabaseFails
<1>2. UNCHANGED <<rows, disk>>
  BY DEF AddEscapes, NothingBuilt, CreateFails, NameTaken, DatabaseFails
<1>3. \/ op[c].pc = "add" /\ Cleanup(c)
      \/ UNCHANGED <<stores, torn>>
  BY DEF AddEscapes, NothingBuilt, CreateFails, NameTaken, DatabaseFails, At, Added
<1>4. CASE UNCHANGED <<stores, torn>>
  <2>1. /\ op' \in [Creators -> OpStates]
        /\ op'[c] = s /\ \A d \in Creators \ {c} : op'[d] = op[d]
    BY <1>1, OpIs DEF WcInv
  <2>2. CreateTypeOK'
    BY <1>2, <1>4, <2>1 DEF WcInv, CreateTypeOK, OpStates, stores
  <2>3. \A m \in Name : Spared(m)
    BY <1>4 DEF Spared, stores
  <2>4. \A d \in Creators : op'[d].pc = "add" =>
          /\ op[d].pc = "add" /\ op[d].name = op'[d].name
          /\ \A q \in op'[d].built \ op[d].built : <<op'[d].name, q>> \in trees' \cap known'
    BY <1>1, <2>1
  <2> QED
    BY <1>2, <1>4, <2>2, <2>3, <2>4, SparedKeeps DEF WcInv, stores
<1> QED
  BY <1>1, <1>2, <1>3, <1>4, CleanupKeeps

\* What a call has built when it commits is what the row lists.
LEMMA CommitRowKeeps == ASSUME WcInv, NEW c \in Creators, CommitRow(c) PROVE WcInv'
<1> DEFINE n == op[c].name
<1>0. /\ op[c] \in OpStates /\ n \in Name /\ op[c].built \subseteq Repos
      /\ NoOp \in OpStates /\ NoOp.pc = "idle"
      /\ rows \in [Name -> RowStates] /\ disk \in DiskStates
  BY WcConstants DEF WcInv, OpStates
<1>1. /\ op[c].pc = "add" /\ rows[n] = NoRow
      /\ op' = [op EXCEPT ![c] = NoOp] /\ UNCHANGED <<stores, disk, torn>>
  BY DEF CommitRow, Added
<1>2. PICK row \in RowStates : /\ rows' = [rows EXCEPT ![n] = row]
                               /\ row.repos = op[c].built /\ row.status \in {"active", "partial"}
  <2> DEFINE row == [repos |-> op[c].built,
                     status |-> IF op[c].built = Repos THEN "active" ELSE "partial"]
  <2>1. rows' = [rows EXCEPT ![n] = row]
    BY DEF CommitRow, Listed
  <2>2. row \in RowStates
    BY <1>0 DEF RowStates
  <2>3. row.repos = op[c].built /\ row.status \in {"active", "partial"}
    OBVIOUS
  <2> HIDE DEF row
  <2> QED
    BY <2>1, <2>2, <2>3
<1>3. /\ op' \in [Creators -> OpStates]
      /\ op'[c] = NoOp /\ \A d \in Creators \ {c} : op'[d] = op[d]
  BY <1>0, <1>1, OpIs DEF WcInv
<1>4. rows'[n] = row /\ \A m \in Name \ {n} : rows'[m] = rows[m]
  BY <1>0, <1>2
<1>5. CreateTypeOK'
  BY <1>0, <1>1, <1>2, <1>3 DEF WcInv, CreateTypeOK, RowStates, OpStates, stores
<1>6. row # NoRow
  BY <1>2, WcConstants
<1>7. AdderSound'
  <2> SUFFICES ASSUME NEW d \in Creators, op'[d].pc = "add", rows'[op'[d].name] = NoRow,
                      op'[d].name \notin torn', NEW r \in op'[d].built
               PROVE  <<op'[d].name, r>> \in trees' \cap known'
    BY DEF AdderSound, Built
  <2>1. d # c /\ op'[d] = op[d]
    BY <1>0, <1>3
  <2>2. op[d].name \in Name /\ op[d].name # n /\ rows[op[d].name] = NoRow
    BY <1>3, <1>4, <1>6, <2>1 DEF OpStates
  <2> QED
    BY <1>1, <2>1, <2>2 DEF WcInv, AdderSound, Built, stores
<1>8. DiskSound'
  <2>1. disk.kind # "none" => disk.name # n /\ disk.name \in Name
    BY <1>0, <1>1 DEF WcInv, DiskSound, DiskStates
  <2> QED
    BY <1>1, <1>4, <2>1 DEF WcInv, DiskSound, Built, stores
<1>9. ListedIsMaterialized'
  <2> SUFFICES ASSUME NEW m \in Name, rows'[m].status \in {"active", "partial"}, m \notin torn,
                      disk = NoDisk \/ disk.name # m, NEW r \in rows'[m].repos
               PROVE  <<m, r>> \in trees \cap known
    BY <1>1 DEF ListedIsMaterialized, stores
  <2>1. CASE m = n
    BY <1>1, <1>2, <1>4, <2>1 DEF WcInv, AdderSound, Built
  <2>2. CASE m # n
    BY <1>4, <2>2 DEF WcInv, ListedIsMaterialized
  <2> QED
    BY <2>1, <2>2
<1> QED
  BY <1>1, <1>5, <1>7, <1>8, <1>9 DEF WcInv, stores

\* No step of an archive or a restore is a call's, and none makes a row out of
\* nothing: what calls have built stays, when the sites of names without a row
\* do.
LEMMA AddersStay ==
  ASSUME WcInv, UNCHANGED <<op, torn>>,
         \A n \in Name : rows'[n] = NoRow =>
           /\ rows[n] = NoRow
           /\ \A r \in Repos : <<n, r>> \in trees \cap known => <<n, r>> \in trees' \cap known'
  PROVE  AdderSound'
<1> SUFFICES ASSUME NEW d \in Creators, op[d].pc = "add", rows'[op[d].name] = NoRow,
                    op[d].name \notin torn, NEW r \in op[d].built
             PROVE  <<op[d].name, r>> \in trees' \cap known'
  BY DEF AdderSound, Built
<1>1. op[d].name \in Name /\ r \in Repos
  BY WcConstants DEF WcInv, OpStates
<1>2. <<op[d].name, r>> \in trees \cap known
  BY <1>1 DEF WcInv, AdderSound, Built
<1> QED
  BY <1>1, <1>2

\* A step that leaves the rows alone.
LEMMA RowsStay ==
  ASSUME WcInv, UNCHANGED <<rows, op, torn>>, trees' \subseteq known', DiskSound',
         trees' \subseteq Site, known' \subseteq Site, root' \subseteq Name, disk' \in DiskStates,
         \A n \in Name :
           \/ disk'.kind # "none" /\ disk'.name = n /\ rows[n] # NoRow
           \/ /\ rows[n].status \notin {"active", "partial"} \/ disk = NoDisk \/ disk.name # n
              /\ \A r \in Repos : <<n, r>> \in trees \cap known => <<n, r>> \in trees' \cap known'
  PROVE  WcInv'
<1>1. CreateTypeOK'
  BY DEF WcInv, CreateTypeOK, DiskStates
<1>2. ASSUME NEW n \in Name, rows'[n].status \in {"active", "partial"}, n \notin torn',
             disk' = NoDisk \/ disk'.name # n, NEW r \in rows'[n].repos
      PROVE  <<n, r>> \in trees' \cap known'
  <2>1. r \in Repos
    BY <1>2, WcConstants DEF WcInv, RowStates
  <2>2. ~(disk'.kind # "none" /\ disk'.name = n)
    BY <1>2, WcConstants
  <2>3. /\ disk = NoDisk \/ disk.name # n
        /\ \A q \in Repos : <<n, q>> \in trees \cap known => <<n, q>> \in trees' \cap known'
    BY <1>2, <2>2
  <2>4. <<n, r>> \in trees \cap known
    BY <1>2, <2>3 DEF WcInv, ListedIsMaterialized
  <2> QED
    BY <2>1, <2>3, <2>4
<1>3. ListedIsMaterialized'
  BY <1>2 DEF ListedIsMaterialized
<1>4. AdderSound'
  <2>1. ASSUME NEW n \in Name, rows'[n] = NoRow
        PROVE  /\ rows[n] = NoRow
               /\ \A r \in Repos : <<n, r>> \in trees \cap known => <<n, r>> \in trees' \cap known'
    BY <2>1
  <2>2. UNCHANGED <<op, torn>>
    OBVIOUS
  <2> QED
    BY <2>1, <2>2, AddersStay
<1> QED
  BY <1>1, <1>3, <1>4 DEF WcInv

\* Archive with or without its trees, restore, and the steps of both.
LEMMA ArchiveKeeps == ASSUME WcInv, NEW n \in Name, Archive(n) PROVE WcInv'
<1>0. /\ rows \in [Name -> RowStates] /\ rows[n] # NoRow /\ rows[n].repos \subseteq Repos
      /\ disk = NoDisk /\ NoDisk.kind = "none" /\ NoDisk \in DiskStates
      /\ UNCHANGED <<stores, op, torn>>
      /\ trees \subseteq Site /\ known \subseteq Site /\ root \subseteq Name
  BY WcConstants DEF WcInv, RowStates, Archive
<1>1. CASE disk' = [kind |-> "archive", name |-> n, left |-> rows[n].repos] /\ UNCHANGED rows
  <2>1. /\ disk' \in DiskStates /\ disk'.kind = "archive" /\ disk'.name = n
    BY <1>0, <1>1 DEF DiskStates
  <2>2. DiskSound'
    BY <1>0, <1>1, <2>1 DEF DiskSound
  <2>3. ASSUME NEW m \in Name
        PROVE  \/ disk'.kind # "none" /\ disk'.name = m /\ rows[m] # NoRow
               \/ /\ rows[m].status \notin {"active", "partial"} \/ disk = NoDisk \/ disk.name # m
                  /\ \A r \in Repos : <<m, r>> \in trees \cap known => <<m, r>> \in trees' \cap known'
    BY <1>0 DEF stores
  <2>4. trees' \subseteq known' /\ trees' \subseteq Site /\ known' \subseteq Site /\ root' \subseteq Name
    BY <1>0 DEF stores, WcInv
  <2>5. UNCHANGED <<rows, op, torn>>
    BY <1>0, <1>1
  <2> QED
    BY <2>1, <2>2, <2>3, <2>4, <2>5, RowsStay
<1>2. CASE rows' = [rows EXCEPT ![n].status = "archived"] /\ UNCHANGED disk
  <2>1. /\ rows' \in [Name -> RowStates] /\ rows'[n].status = "archived"
        /\ \A m \in Name \ {n} : rows'[m] = rows[m]
    <3>1. [rows[n] EXCEPT !.status = "archived"] \in RowStates
          /\ [rows[n] EXCEPT !.status = "archived"].status = "archived"
      BY <1>0 DEF RowStates
    <3> QED
      BY <1>0, <1>2, <3>1
  <2>2. CreateTypeOK'
    BY <1>0, <1>2, <2>1 DEF WcInv, CreateTypeOK, RowStates, stores
  <2>3. ListedIsMaterialized'
    BY <1>0, <1>2, <2>1 DEF WcInv, ListedIsMaterialized, stores
  <2>4. DiskSound'
    BY <1>0, <1>2 DEF DiskSound
  <2>5. AdderSound'
    <3>1. ASSUME NEW m \in Name, rows'[m] = NoRow
          PROVE  /\ rows[m] = NoRow
                 /\ \A r \in Repos : <<m, r>> \in trees \cap known => <<m, r>> \in trees' \cap known'
      BY <1>0, <2>1, <3>1, WcConstants DEF stores
    <3>2. UNCHANGED <<op, torn>>
      BY <1>0
    <3> QED
      BY <3>1, <3>2, AddersStay
  <2> QED
    BY <1>0, <2>2, <2>3, <2>4, <2>5 DEF WcInv, stores
<1> QED
  BY <1>1, <1>2 DEF Archive

\* The worktrees and the root of the archived name go; the others stay.
LEMMA RemovalKeeps ==
  ASSUME WcInv, RemoveRoot \/ \E r \in Repos, refused \in BOOLEAN : RemoveWorktree(r, refused)
  PROVE  WcInv'
<1> DEFINE n == disk.name
<1>0. /\ disk \in DiskStates /\ n \in Name /\ disk.kind = "archive" /\ rows[n] # NoRow
      /\ trees \subseteq Site /\ known \subseteq Site /\ root \subseteq Name /\ trees \subseteq known
  BY WcConstants DEF WcInv, DiskSound, DiskStates, RemoveRoot, RemoveWorktree
<1>1. /\ disk' \in DiskStates /\ disk'.name = n /\ disk'.kind \in {"archive", "row"}
  BY <1>0 DEF RemoveRoot, RemoveWorktree, DiskStates
<1>2. /\ UNCHANGED <<rows, op, torn>> /\ root' \subseteq root
      /\ trees' \subseteq trees /\ known' \subseteq known /\ trees' \subseteq known'
      /\ \A t \in trees : t[1] # n => t \in trees' /\ t \in known'
  <2>1. CASE RemoveRoot
    BY <1>0, <2>1 DEF RemoveRoot
  <2>2. ASSUME NEW r \in Repos, NEW refused \in BOOLEAN, RemoveWorktree(r, refused)
        PROVE  /\ trees' \subseteq trees /\ known' \subseteq known /\ trees' \subseteq known'
               /\ \A t \in trees : t[1] # n => t \in trees' /\ t \in known'
    <3>1. \A t : t[1] # n => t # <<n, r>>
      BY <1>0
    <3>2. PICK gone : /\ gone \subseteq {<<n, r>>}
                      /\ trees' = trees \ gone /\ known' = known \ gone
      BY <2>2 DEF RemoveWorktree
    <3> QED
      BY <1>0, <3>1, <3>2
  <2>3. ASSUME NEW r \in Repos, NEW refused \in BOOLEAN, RemoveWorktree(r, refused)
        PROVE  UNCHANGED <<rows, op, torn>> /\ root' \subseteq root
    BY <2>3 DEF RemoveWorktree
  <2> QED
    BY <2>1, <2>2, <2>3
<1>3. DiskSound'
  BY <1>0, <1>1, <1>2 DEF DiskSound
<1>4. ASSUME NEW m \in Name
      PROVE  \/ disk'.kind # "none" /\ disk'.name = m /\ rows[m] # NoRow
             \/ /\ rows[m].status \notin {"active", "partial"} \/ disk = NoDisk \/ disk.name # m
                /\ \A r \in Repos : <<m, r>> \in trees \cap known => <<m, r>> \in trees' \cap known'
  <2>1. CASE m = n
    BY <1>0, <1>1, <2>1
  <2>2. CASE m # n
    <3>1. ASSUME NEW r \in Repos, <<m, r>> \in trees PROVE <<m, r>> \in trees' \cap known'
      <4>1. <<m, r>>[1] # n
        BY <2>2
      <4> QED
        BY <1>2, <3>1, <4>1
    <3> QED
      BY <2>2, <3>1
  <2> QED
    BY <2>1, <2>2
<1> QED
  BY <1>0, <1>1, <1>2, <1>3, <1>4, RowsStay

\* A restore adds what is not on disk.
LEMMA RestoreKeeps ==
  ASSUME WcInv, (\E n \in Name : Restore(n)) \/ \E r \in Repos : RestoreRepo(r)
  PROVE  WcInv'
<1>0. /\ trees \subseteq Site /\ known \subseteq Site /\ root \subseteq Name /\ trees \subseteq known
      /\ rows \in [Name -> RowStates] /\ NoDisk.kind = "none" /\ NoDisk \in DiskStates
      /\ NoRow.status = "none" /\ disk \in DiskStates
  BY WcConstants DEF WcInv
<1>1. ASSUME NEW n \in Name, Restore(n) PROVE WcInv'
  <2>1. /\ disk = NoDisk /\ rows[n].status \in {"archived", "crashed"} /\ rows[n] # NoRow
        /\ disk' = [kind |-> "restore", name |-> n,
                    left |-> {r \in rows[n].repos : <<n, r>> \notin trees}]
        /\ root' = root \cup {n}
        /\ UNCHANGED <<rows, trees, known, op, torn>>
    BY <1>0, <1>1 DEF Restore
  <2>2. rows[n].repos \subseteq Repos
    BY <1>0 DEF RowStates
  <2>3. /\ disk' \in DiskStates /\ disk'.kind = "restore" /\ disk'.name = n
        /\ disk'.left = {r \in rows[n].repos : <<n, r>> \notin trees}
    BY <2>1, <2>2 DEF DiskStates
  <2>4. DiskSound'
    BY <1>0, <2>1, <2>3 DEF DiskSound, Built
  <2>5. ASSUME NEW m \in Name
        PROVE  \A r \in Repos : <<m, r>> \in trees \cap known => <<m, r>> \in trees' \cap known'
    BY <2>1
  <2> QED
    BY <1>0, <2>1, <2>3, <2>4, <2>5, RowsStay
<1>2. ASSUME NEW r \in Repos, RestoreRepo(r) PROVE WcInv'
  <2> DEFINE n == disk.name
  <2>0. /\ n \in Name /\ disk.kind = "restore" /\ UNCHANGED <<rows, root, op, torn>>
        /\ rows[n] # NoRow /\ rows[n].status \in {"archived", "crashed"}
    BY <1>0, <1>2 DEF RestoreRepo, DiskStates, WcInv, DiskSound
  <2>1. /\ trees' \in {trees, trees \cup {<<n, r>>}} /\ disk' \in DiskStates
        /\ \/ known' = known /\ trees' = trees
           \/ known' = known \cup {<<n, r>>} /\ trees' = trees \cup {<<n, r>>}
    BY <1>0, <1>2 DEF RestoreRepo, DiskStates
  <2>2. DiskSound'
    <3>1. CASE disk' = NoDisk
      BY <1>0, <3>1 DEF DiskSound
    <3>2. CASE /\ disk' = [disk EXCEPT !.left = @ \ {r}]
               /\ trees' = trees \cup {<<n, r>>} /\ known' = known \cup {<<n, r>>}
      <4>1. disk'.kind = "restore" /\ disk'.name = n /\ disk'.left = disk.left \ {r}
        BY <1>0, <2>0, <3>2 DEF DiskStates
      <4>2. n \notin torn => \A q \in rows[n].repos \ disk.left : <<n, q>> \in trees \cap known
        BY <2>0 DEF WcInv, DiskSound, Built
      <4>3. n \notin torn => \A q \in rows[n].repos \ (disk.left \ {r}) : <<n, q>> \in trees' \cap known'
        BY <3>2, <4>2
      <4> QED
        BY <1>0, <2>0, <4>1, <4>3 DEF DiskSound, Built
    <3> QED
      BY <1>2, <3>1, <3>2 DEF RestoreRepo
  <2>3. ASSUME NEW m \in Name
        PROVE  /\ rows[m].status \notin {"active", "partial"} \/ disk = NoDisk \/ disk.name # m
               /\ \A q \in Repos : <<m, q>> \in trees \cap known => <<m, q>> \in trees' \cap known'
    BY <2>0, <2>1
  <2>4. trees' \subseteq known' /\ trees' \subseteq Site /\ known' \subseteq Site
    BY <1>0, <2>0, <2>1 DEF Site
  <2> QED
    BY <1>0, <2>0, <2>1, <2>2, <2>3, <2>4, RowsStay
<1> QED
  BY <1>1, <1>2

\* The row that ends an archive or a restore.
LEMMA RowChangeKeeps == ASSUME WcInv, ArchivedRow \/ RestoredRow PROVE WcInv'
<1> DEFINE n == disk.name
<1>0. /\ rows \in [Name -> RowStates] /\ n \in Name /\ disk.kind # "none" /\ rows[n] # NoRow
      /\ NoDisk.kind = "none" /\ NoDisk \in DiskStates /\ NoRow.status = "none"
      /\ disk' = NoDisk /\ UNCHANGED <<stores, op, torn>>
  BY WcConstants DEF WcInv, DiskSound, DiskStates, ArchivedRow, RestoredRow
<1>1. PICK st \in {"archived", "active"} :
        /\ rows' = [rows EXCEPT ![n].status = st]
        /\ st = "active" => disk.kind = "restore" /\ disk.left = {}
  BY DEF ArchivedRow, RestoredRow
<1>2. /\ [rows[n] EXCEPT !.status = st] \in RowStates
      /\ [rows[n] EXCEPT !.status = st].status = st
      /\ [rows[n] EXCEPT !.status = st].repos = rows[n].repos
  BY <1>0, <1>1 DEF RowStates
<1>3. /\ rows' \in [Name -> RowStates] /\ rows'[n].status = st /\ rows'[n].repos = rows[n].repos
      /\ \A m \in Name \ {n} : rows'[m] = rows[m]
  BY <1>0, <1>1, <1>2
<1>4. CreateTypeOK'
  BY <1>0, <1>3 DEF WcInv, CreateTypeOK, RowStates, DiskStates, stores
<1>5. DiskSound'
  BY <1>0 DEF DiskSound
<1>6. AdderSound'
  <2>1. ASSUME NEW m \in Name, rows'[m] = NoRow
        PROVE  /\ rows[m] = NoRow
               /\ \A r \in Repos : <<m, r>> \in trees \cap known => <<m, r>> \in trees' \cap known'
    BY <1>0, <1>3, <2>1 DEF stores
  <2>2. UNCHANGED <<op, torn>>
    BY <1>0
  <2> QED
    BY <2>1, <2>2, AddersStay
<1>7. ASSUME NEW m \in Name, rows'[m].status \in {"active", "partial"}, m \notin torn',
             NEW r \in rows'[m].repos
      PROVE  <<m, r>> \in trees' \cap known'
  <2>1. CASE m = n
    <3>1. disk.kind = "restore" /\ disk.left = {}
      BY <1>1, <1>3, <1>7, <2>1
    <3>2. Built(n, rows[n].repos \ disk.left)
      BY <1>0, <1>7, <2>1, <3>1 DEF WcInv, DiskSound
    <3> QED
      BY <1>0, <1>3, <1>7, <2>1, <3>1, <3>2 DEF Built, stores
  <2>2. CASE m # n
    BY <1>0, <1>3, <1>7, <2>2 DEF WcInv, ListedIsMaterialized, stores
  <2> QED
    BY <2>1, <2>2
<1>8. ListedIsMaterialized'
  BY <1>7 DEF ListedIsMaterialized
<1> QED
  BY <1>0, <1>4, <1>5, <1>6, <1>8 DEF WcInv, stores

\* After a crash no call and no archive is in flight, and an archive that was
\* cut short has torn its name.
LEMMA CreateCrashKeeps == ASSUME WcInv, Crash PROVE WcInv'
<1>0. /\ rows \in [Name -> RowStates] /\ disk \in DiskStates
      /\ NoOp \in OpStates /\ NoOp.pc = "idle"
      /\ NoDisk.kind = "none" /\ NoDisk \in DiskStates
      /\ disk' = NoDisk /\ op' = [c \in Creators |-> NoOp] /\ UNCHANGED stores
      /\ torn' = IF disk.kind \in {"archive", "row"} THEN torn \cup {disk.name} ELSE torn
      /\ rows' = [m \in Name |->
                    IF rows[m].status \in {"active", "partial"} /\ m \notin root
                      THEN [rows[m] EXCEPT !.status = "crashed"] ELSE rows[m]]
  BY WcConstants DEF WcInv, Crash
<1>1. ASSUME NEW m \in Name
      PROVE  /\ rows'[m] \in RowStates /\ rows'[m].repos = rows[m].repos
             /\ rows'[m].status \in {"active", "partial"} => rows'[m] = rows[m]
  <2>1. /\ [rows[m] EXCEPT !.status = "crashed"] \in RowStates
        /\ [rows[m] EXCEPT !.status = "crashed"].repos = rows[m].repos
        /\ [rows[m] EXCEPT !.status = "crashed"].status = "crashed"
    BY <1>0 DEF RowStates
  <2> QED
    BY <1>0, <2>1
<1>2. rows' \in [Name -> RowStates]
  BY <1>0, <1>1
<1>3. torn' \subseteq Name /\ torn \subseteq torn' /\ op' \in [Creators -> OpStates]
  BY <1>0 DEF WcInv, CreateTypeOK, DiskStates
<1>4. CreateTypeOK'
  BY <1>0, <1>2, <1>3 DEF WcInv, CreateTypeOK, RowStates, OpStates, DiskStates, stores
<1>5. AdderSound' /\ DiskSound'
  BY <1>0 DEF AdderSound, DiskSound
<1>6. ASSUME NEW m \in Name, rows'[m].status \in {"active", "partial"}, m \notin torn',
             NEW r \in rows'[m].repos
      PROVE  <<m, r>> \in trees' \cap known'
  <2>1. rows'[m] = rows[m] /\ m \notin torn
    BY <1>1, <1>3, <1>6
  <2>2. disk = NoDisk \/ disk.name # m
    <3>1. CASE disk.kind = "none"
      BY <3>1 DEF WcInv, DiskSound
    <3>2. CASE disk.kind = "restore"
      BY <1>6, <2>1, <3>2 DEF WcInv, DiskSound
    <3>3. CASE disk.kind \in {"archive", "row"}
      BY <1>0, <1>6, <3>3
    <3> QED
      BY <1>0, <3>1, <3>2, <3>3 DEF DiskStates
  <2> QED
    BY <1>0, <1>6, <2>1, <2>2 DEF WcInv, ListedIsMaterialized, stores
<1>7. ListedIsMaterialized'
  BY <1>6 DEF ListedIsMaterialized
<1> QED
  BY <1>0, <1>4, <1>5, <1>7 DEF WcInv, stores

\* An archive or a restore that an error or a dropped call ends: the sites that
\* are gone are those of a name in torn, and no other's.
LEMMA StopKeeps == ASSUME WcInv, DiskStops PROVE WcInv'
<1> DEFINE n == disk.name
<1>0. /\ rows \in [Name -> RowStates] /\ disk \in DiskStates /\ n \in Name
      /\ op \in [Creators -> OpStates]
      /\ NoDisk.kind = "none" /\ NoDisk \in DiskStates
      /\ disk.kind # "none" /\ rows[n] # NoRow /\ disk' = NoDisk
      /\ UNCHANGED <<rows, root, known, op>>
      /\ torn' = IF disk.kind = "restore" THEN torn ELSE torn \cup {n}
      /\ trees \subseteq Site /\ known \subseteq Site /\ trees \subseteq known
  BY WcConstants DEF WcInv, DiskSound, DiskStates, DiskStops
<1>1. /\ trees' \subseteq trees /\ \A t \in trees : t[1] # n => t \in trees'
      /\ disk.kind = "restore" => trees' = trees
  BY DEF DiskStops
<1>2. torn' \subseteq Name /\ torn \subseteq torn'
  BY <1>0 DEF WcInv, CreateTypeOK
<1>3. CreateTypeOK'
  BY <1>0, <1>1, <1>2 DEF WcInv, CreateTypeOK, DiskStates
<1>4. ASSUME NEW m \in Name, NEW r, <<m, r>> \in trees \cap known, m # n
      PROVE  <<m, r>> \in trees' \cap known'
  <2>1. <<m, r>>[1] # n
    BY <1>4
  <2> QED
    BY <1>0, <1>1, <1>4, <2>1
<1>5. AdderSound'
  <2> SUFFICES ASSUME NEW d \in Creators, op[d].pc = "add", rows[op[d].name] = NoRow,
                      op[d].name \notin torn', NEW r \in op[d].built
               PROVE  <<op[d].name, r>> \in trees' \cap known'
    BY <1>0 DEF AdderSound, Built
  <2>1. op[d].name \in Name /\ op[d].name # n
    BY <1>0 DEF OpStates
  <2>2. <<op[d].name, r>> \in trees \cap known
    BY <1>2 DEF WcInv, AdderSound, Built
  <2> QED
    BY <1>4, <2>1, <2>2
<1>6. DiskSound'
  BY <1>0 DEF DiskSound
<1>7. ASSUME NEW m \in Name, rows'[m].status \in {"active", "partial"}, m \notin torn',
             NEW r \in rows'[m].repos
      PROVE  <<m, r>> \in trees' \cap known'
  <2>1. m # n
    <3>1. CASE disk.kind = "restore"
      BY <1>0, <1>7, <3>1 DEF WcInv, DiskSound
    <3>2. CASE disk.kind # "restore"
      BY <1>0, <1>7, <3>2
    <3> QED
      BY <3>1, <3>2
  <2>2. <<m, r>> \in trees \cap known
    BY <1>0, <1>2, <1>7, <2>1 DEF WcInv, ListedIsMaterialized
  <2> QED
    BY <1>4, <2>1, <2>2
<1>8. ListedIsMaterialized'
  BY <1>7 DEF ListedIsMaterialized
<1> QED
  BY <1>0, <1>1, <1>3, <1>5, <1>6, <1>8 DEF WcInv

\* WcInv holds in every state of creation, archive and restore.
LEMMA CreateInvariant == CreateSpec => []WcInv
<1>1. WcInv /\ [CreateNext]_wcVars => WcInv'
  <2> SUFFICES ASSUME WcInv, [CreateNext]_wcVars PROVE WcInv'
    OBVIOUS
  <2>1. CASE UNCHANGED wcVars
    BY <2>1 DEF wcVars, stores, WcInv, CreateTypeOK, AdderSound, DiskSound,
       ListedIsMaterialized, Built
  <2>2. ASSUME NEW c \in Creators, CreateStep(c) PROVE WcInv'
    BY <2>2, AllocateKeeps, AddRepoKeeps, GiveUpKeeps, CommitRowKeeps
       DEF CreateStep, BeginCreate, RetryCreate
  <2>3. ASSUME DiskStep PROVE WcInv'
    BY <2>3, ArchiveKeeps, RemovalKeeps, RestoreKeeps, RowChangeKeeps, StopKeeps DEF DiskStep
  <2> QED
    BY <2>1, <2>2, <2>3, CreateCrashKeeps DEF CreateNext
<1> QED
  BY CreateInitially, <1>1, PTL DEF CreateSpec

\* A row the user can work in lists only what is on disk and in git's list, for
\* any number of calls, names and repositories.
THEOREM ListedIsMaterializedHolds == CreateSpec => []ListedIsMaterialized
<1>1. WcInv => ListedIsMaterialized
  BY DEF WcInv
<1> QED
  BY CreateInvariant, <1>1, PTL

\* Rows, directories, calls and the archive in flight keep their types.
THEOREM CreateTypesHold == CreateSpec => []CreateTypeOK
<1>1. WcInv => CreateTypeOK
  BY DEF WcInv
<1> QED
  BY CreateInvariant, <1>1, PTL
=============================================================================
