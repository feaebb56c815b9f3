--------------------------- MODULE SchedulerProofs ---------------------------
(***************************************************************************)
(* Proofs about two of the Core's own tasks: Scheduler, for any number of  *)
(* schedules, runs, failures and crashes, and Supervisor, for any time.    *)
(***************************************************************************)
EXTENDS Scheduler, Supervisor, FiniteSetTheorems, SequenceTheorems,
        WellFoundedInduction, TLAPS

-----------------------------------------------------------------------------
(* Facts several components need.                                          *)

\* A set of naturals that is not empty has a least element.
LEMMA LeastExists ==
  ASSUME NEW S \in SUBSET Nat, S # {}
  PROVE  \E x \in S : \A y \in S : x <= y
<1>1. IsWellFoundedOn(OpToRel(<, Nat), Nat)
  BY NatLessThanWellFounded
<1>2. PICK x \in S : \A y \in S : ~(<<y, x>> \in OpToRel(<, Nat))
  BY <1>1, WFMin
<1>3. ASSUME NEW y \in S PROVE x <= y
  <2>1. ~(y < x)
    BY <1>2, <1>3 DEF OpToRel
  <2> QED
    BY <2>1
<1> QED
  BY <1>3

\* A set whose elements are all the same has one at most.
LEMMA AtMostOne ==
  ASSUME NEW S, \A x, y \in S : x = y
  PROVE  Cardinality(S) <= 1
<1>1. CASE S = {}
  BY <1>1, FS_EmptySet
<1>2. CASE S # {}
  <2>1. PICK x \in S : TRUE
    BY <1>2
  <2>2. S = {x}
    BY <2>1
  <2> QED
    BY <2>2, FS_Singleton
<1> QED
  BY <1>1, <1>2

-----------------------------------------------------------------------------
(* Type correctness.                                                        *)

\* The fire loop works on a schedule unless it is parked.
Typed == SchedTypeOK /\ (fire.pc # "park" => fire.id \in Schedules)

\* The scheduler starts well typed.
LEMMA SchedInitTypes == SchedInit => Typed
BY SchedulerAssumption DEF Typed, SchedInit, SchedTypeOK, NoRun, Park, NoRebuild

\* A run's end is written in its row and nowhere else.
LEMMA EndedTypes ==
  ASSUME SchedTypeOK, NEW r, NEW st \in {"over", "failed"}
  PROVE  Ended(r, st) \in [Run -> [of : Schedules \cup {"none"},
                                   st : {"none", "open", "over", "failed", "deleted"}]]
BY ZenonT(40) DEF Ended, SchedTypeOK

\* Fires, finishers, edits and restarts keep the types.
LEMMA SchedNextTypes == Typed /\ [SchedNext]_scVars => Typed'
<1> SUFFICES ASSUME Typed, [SchedNext]_scVars PROVE Typed'
  OBVIOUS
<1> USE DEF Typed, SchedTypeOK, rowVars, watchVars
<1>1. ASSUME NEW i \in Schedules, InsertSchedule(i) PROVE Typed'
  BY <1>1 DEF InsertSchedule
<1>2. ASSUME NEW i \in Schedules, StampWheel(i) \/ CreateStops(i) PROVE Typed'
  BY <1>2 DEF StampWheel, CreateStops
<1>3. ASSUME NEW i \in Schedules, PauseSchedule(i) PROVE Typed'
  BY <1>3 DEF PauseSchedule
<1>4. ASSUME NEW i \in Schedules, DeleteSchedule(i) PROVE Typed'
  <2>1. inflight' \in [Schedules -> 0..MaxRuns]
    BY <1>4, SchedulerAssumption DEF DeleteSchedule
  <2>2. runs' \in [Run -> [of : Schedules \cup {"none"},
                           st : {"none", "open", "over", "failed", "deleted"}]]
    BY <1>4 DEF DeleteSchedule
  <2> QED
    BY <1>4, <2>1, <2>2 DEF DeleteSchedule
<1>5. ASSUME NEW i \in Schedules, Expire(i) PROVE Typed'
  BY <1>5 DEF Expire
<1>6. CASE SweepExpired
  BY <1>6 DEF SweepExpired
<1>7. CASE SwapWheel \/ RebuildFails
  BY <1>7 DEF SwapWheel, RebuildFails, NoRebuild
<1>8. ASSUME NEW i \in Schedules, PopDue(i) PROVE Typed'
  <2>1. wheel' \in [Schedules -> Nat]
    BY <1>8 DEF PopDue
  <2>2. fire' = [pc |-> "read", id |-> i, run |-> 0]
    BY <1>8 DEF PopDue, Park
  <2> QED
    BY <1>8, <2>1, <2>2, SchedulerAssumption DEF PopDue
<1>9. CASE ReadRow
  BY <1>9, SchedulerAssumption DEF ReadRow, Park
<1>10. CASE Rearm
  BY <1>10 DEF Rearm
<1>11. CASE ReadRowFails
  <2>1. fire.id \in Schedules
    BY <1>11 DEF ReadRowFails
  <2> QED
    BY <1>11, <2>1, SchedulerAssumption DEF ReadRowFails, Park
<1>12. CASE FireSchedule
  BY <1>12, SchedulerAssumption DEF FireSchedule, Park
<1>13. ASSUME NEW r \in Run, InsertRun(r) PROVE Typed'
  <2>1. fire.id \in Schedules /\ r \in 0..MaxRuns /\ 0 \in 0..MaxRuns
    BY <1>13, SchedulerAssumption DEF InsertRun, Run
  <2>2. runs' \in [Run -> [of : Schedules \cup {"none"},
                           st : {"none", "open", "over", "failed", "deleted"}]]
    <3>1. [of |-> fire.id, st |-> "open"]
            \in [of : Schedules \cup {"none"}, st : {"none", "open", "over", "failed", "deleted"}]
      BY <2>1
    <3> QED
      BY <1>13, <3>1 DEF InsertRun
  <2>3. /\ fire' \in [pc : {"park", "read", "rearm", "fire", "insert", "claim", "start"},
                      id : Schedules \cup {"none"}, run : 0..MaxRuns]
        /\ fire'.pc # "park" => fire'.id \in Schedules
    <3>1. CASE fire' = Park
      BY <2>1, <3>1 DEF Park
    <3>2. CASE fire' = [fire EXCEPT !.pc = "claim", !.run = r]
      BY <2>1, <3>2
    <3> QED
      BY <1>13, <3>1, <3>2 DEF InsertRun
  <2> QED
    BY <1>13, <2>2, <2>3 DEF InsertRun
<1>14. CASE ClaimInflight
  BY <1>14 DEF ClaimInflight
<1>15. CASE StartFails
  <2>1. runs' \in [Run -> [of : Schedules \cup {"none"},
                           st : {"none", "open", "over", "failed", "deleted"}]]
    BY <1>15, EndedTypes DEF StartFails
  <2>2. inflight' \in [Schedules -> 0..MaxRuns]
    BY <1>15, SchedulerAssumption DEF StartFails
  <2> QED
    BY <1>15, <2>1, <2>2, SchedulerAssumption DEF StartFails, Park
<1>16. CASE FireAborts
  BY <1>16, SchedulerAssumption DEF FireAborts, Park
<1>17. CASE StartSession
  <2>1. watch' \in [Run -> {"none", "clone", "subscribe", "recv", "row", "slot"}]
    BY <1>17 DEF StartSession
  <2>2. fire' = Park /\ 0 \in 0..MaxRuns
    BY <1>17, SchedulerAssumption DEF StartSession
  <2> QED
    BY <1>17, <2>1, <2>2 DEF StartSession, Park
<1>18. ASSUME NEW r \in Run, NEW evicted \in BOOLEAN, SessionOver(r, evicted)
       PROVE  Typed'
  BY <1>18 DEF SessionOver
<1>19. ASSUME NEW r \in Run, CloneReplay(r) \/ Subscribe(r) \/ Hear(r) PROVE Typed'
  BY <1>19 DEF CloneReplay, Subscribe, Hear
<1>20. ASSUME NEW r \in Run, NEW ok \in BOOLEAN, ResolveRow(r, ok) PROVE Typed'
  <2>1. runs' \in [Run -> [of : Schedules \cup {"none"},
                           st : {"none", "open", "over", "failed", "deleted"}]]
    BY <1>20, EndedTypes DEF ResolveRow
  <2> QED
    BY <1>20, <2>1 DEF ResolveRow
<1>21. ASSUME NEW r \in Run, ResolveSlot(r) PROVE Typed'
  <2>1. inflight' \in [Schedules -> 0..MaxRuns]
    BY <1>21, SchedulerAssumption DEF ResolveSlot
  <2> QED
    BY <1>21, <2>1 DEF ResolveSlot
<1>22. CASE SchedCrash
  <2>1. inflight' \in [Schedules -> 0..MaxRuns] /\ fire' = Park /\ 0 \in 0..MaxRuns
    BY <1>22, SchedulerAssumption DEF SchedCrash
  <2> QED
    BY <1>22, <2>1 DEF SchedCrash, Park
<1>23. CASE UNCHANGED scVars
  BY <1>23 DEF scVars
<1> QED
  BY <1>1, <1>2, <1>3, <1>4, <1>5, <1>6, <1>7, <1>8, <1>9, <1>10, <1>11, <1>12, <1>13,
     <1>14, <1>15, <1>16, <1>17, <1>18, <1>19, <1>20, <1>21, <1>22, <1>23
     DEF SchedNext, FireStep, WatchStep

(* The rows, the wheel, the fire loop and the watchers are well typed.       *)
THEOREM SchedTypesHold == SchedSpec => []SchedTypeOK
<1>1. Typed => SchedTypeOK
  BY DEF Typed
<1> QED
  BY <1>1, SchedInitTypes, SchedNextTypes, PTL DEF SchedSpec

-----------------------------------------------------------------------------
(* One run without an end.                                                  *)

OneOpen(i) == \A q, r \in Open(i) : q = r

\* A firing that has passed the suppression test finds no open run until it has
\* inserted its own: the fire loop alone opens runs.
OpenInv ==
  /\ Typed /\ \A i \in Schedules : OneOpen(i)
  /\ fire.pc = "insert" => Open(fire.id) = {}

\* Every step but the insertion leaves the open runs open or ends some.
LEMMA OpenRunsEnd ==
  ASSUME Typed, [SchedNext]_scVars, ~(\E r \in Run : InsertRun(r))
  PROVE  \A i \in Schedules : Open(i)' \subseteq Open(i)
<1> SUFFICES \A r \in Run : runs'[r] = runs[r] \/ runs'[r].st # "open"
  BY DEF Open
<1>1. ASSUME NEW i \in Schedules, DeleteSchedule(i)
      PROVE  \A r \in Run : runs'[r] = runs[r] \/ runs'[r].st # "open"
  BY <1>1 DEF DeleteSchedule, Typed, SchedTypeOK
<1>2. ASSUME NEW q, NEW st \in {"over", "failed"}, runs' = Ended(q, st)
      PROVE  \A r \in Run : runs'[r] = runs[r] \/ runs'[r].st # "open"
  BY <1>2 DEF Ended, Typed, SchedTypeOK
<1>3. ASSUME UNCHANGED runs
      PROVE  \A r \in Run : runs'[r] = runs[r] \/ runs'[r].st # "open"
  BY <1>3
<1>4. ASSUME NEW r \in Run, NEW ok \in BOOLEAN, ResolveRow(r, ok)
      PROVE  runs' = Ended(r, "over") \/ UNCHANGED runs
  BY <1>4 DEF ResolveRow
<1>5. CASE StartFails
  BY <1>2, <1>5 DEF StartFails
<1> QED
  BY <1>1, <1>2, <1>3, <1>4, <1>5
     DEF SchedNext, FireStep, WatchStep, InsertSchedule, StampWheel, CreateStops, PauseSchedule,
         Expire, SweepExpired, SwapWheel, RebuildFails, PopDue, ReadRow, Rearm, ReadRowFails, FireSchedule,
         ClaimInflight, FireAborts, StartSession, SessionOver, CloneReplay, Subscribe, Hear,
         ResolveSlot, SchedCrash, scVars

\* insert_run leaves the insert stage, whichever way it ends.
LEMMA InsertLeaves ==
  ASSUME Typed, NEW r \in Run, InsertRun(r)
  PROVE  fire'.pc # "insert"
<1>1. CASE fire' = Park
  BY <1>1 DEF Park
<1>2. CASE fire' = [fire EXCEPT !.pc = "claim", !.run = r]
  <2>1. fire \in [pc : {"park", "read", "rearm", "fire", "insert", "claim", "start"},
                  id : Schedules \cup {"none"}, run : 0..MaxRuns]
    BY DEF Typed, SchedTypeOK
  <2>2. [fire EXCEPT !.pc = "claim", !.run = r].pc = "claim"
    BY <2>1
  <2> QED
    BY <1>2, <2>2
<1> QED
  BY <1>1, <1>2 DEF InsertRun

\* The suppression test is where a firing passes to its insertion.
LEMMA InsertIsReached ==
  ASSUME Typed, [SchedNext]_scVars, fire'.pc = "insert"
  PROVE  UNCHANGED fire \/ (FireSchedule /\ fire'.id = fire.id /\ Open(fire.id) = {})
<1> DEFINE Goal == UNCHANGED fire \/ (FireSchedule /\ fire'.id = fire.id /\ Open(fire.id) = {})
<1>0. fire \in [pc : {"park", "read", "rearm", "fire", "insert", "claim", "start"},
                id : Schedules \cup {"none"}, run : 0..MaxRuns]
  BY DEF Typed, SchedTypeOK
<1>1. CASE FireSchedule
  BY <1>0, <1>1 DEF FireSchedule, Suppressed, Park
<1>2. ASSUME NEW i \in Schedules, PopDue(i) PROVE Goal
  BY <1>2 DEF PopDue, Park
<1>3. CASE ReadRow \/ Rearm \/ ReadRowFails
  BY <1>0, <1>3 DEF ReadRow, Rearm, ReadRowFails, Park
<1>4. ASSUME NEW r \in Run, InsertRun(r) PROVE Goal
  BY <1>4, InsertLeaves
<1>5. CASE ClaimInflight \/ StartFails \/ FireAborts \/ StartSession \/ SchedCrash
  BY <1>0, <1>5 DEF ClaimInflight, StartFails, FireAborts, StartSession, SchedCrash, Park
<1>6. ASSUME NEW r \in Run, NEW ok \in BOOLEAN, ResolveRow(r, ok) PROVE UNCHANGED fire
  BY <1>6 DEF ResolveRow
<1> QED
  BY <1>1, <1>2, <1>3, <1>4, <1>5, <1>6
     DEF SchedNext, FireStep, WatchStep, InsertSchedule, StampWheel, CreateStops, PauseSchedule,
         Expire, DeleteSchedule, SweepExpired, SwapWheel, RebuildFails, SessionOver,
         CloneReplay, Subscribe, Hear, ResolveSlot, scVars

\* The inductive invariant of the open runs.
LEMMA OpenInvHolds == SchedSpec => []OpenInv
<1>1. SchedInit => OpenInv
  <2> SUFFICES ASSUME SchedInit PROVE OpenInv
    OBVIOUS
  <2>1. \A i \in Schedules : Open(i) = {}
    BY DEF SchedInit, Open, NoRun
  <2> QED
    BY <2>1, SchedInitTypes DEF OpenInv, OneOpen, SchedInit, Park
<1>2. OpenInv /\ [SchedNext]_scVars => OpenInv'
  <2> SUFFICES ASSUME OpenInv, [SchedNext]_scVars PROVE OpenInv'
    OBVIOUS
  <2>1. Typed /\ Typed'
    BY SchedNextTypes DEF OpenInv
  <2>2. ASSUME NEW r \in Run, InsertRun(r) PROVE OpenInv'
    <3>1. fire.pc = "insert" /\ fire.id \in Schedules /\ Open(fire.id) = {}
      BY <2>1, <2>2 DEF InsertRun, OpenInv, Typed
    <3>2. \/ UNCHANGED runs
          \/ runs' = [runs EXCEPT ![r] = [of |-> fire.id, st |-> "open"]]
      BY <2>2 DEF InsertRun
    <3>3. fire'.pc # "insert"
      BY <2>1, <2>2, InsertLeaves
    <3>4. \A i \in Schedules : OneOpen(i)'
      <4>1. CASE UNCHANGED runs
        BY <4>1 DEF OpenInv, OneOpen, Open
      <4>2. CASE runs' = [runs EXCEPT ![r] = [of |-> fire.id, st |-> "open"]]
        <5>1. \A q \in Run \ {r} : runs'[q] = runs[q]
          BY <2>1, <4>2 DEF Typed, SchedTypeOK
        <5>2. runs'[r] = [of |-> fire.id, st |-> "open"]
          BY <2>1, <4>2 DEF Typed, SchedTypeOK
        <5>3. ASSUME NEW i \in Schedules, i = fire.id PROVE Open(i)' \subseteq {r}
          BY <3>1, <5>1, <5>3 DEF Open
        <5>4. ASSUME NEW i \in Schedules, i # fire.id PROVE Open(i)' \subseteq Open(i)
          BY <5>1, <5>2, <5>4 DEF Open
        <5>5. ASSUME NEW i \in Schedules PROVE OneOpen(i)'
          <6>1. CASE i = fire.id
            BY <5>3, <6>1 DEF OneOpen
          <6>2. CASE i # fire.id
            BY <5>4, <6>2 DEF OpenInv, OneOpen
          <6> QED
            BY <6>1, <6>2
        <5> QED
          BY <5>5
      <4> QED
        BY <3>2, <4>1, <4>2
    <3> QED
      BY <2>1, <3>3, <3>4 DEF OpenInv
  <2>3. CASE ~(\E r \in Run : InsertRun(r))
    <3>1. \A i \in Schedules : Open(i)' \subseteq Open(i)
      BY <2>1, <2>3, OpenRunsEnd
    <3>2. \A i \in Schedules : OneOpen(i)'
      BY <3>1 DEF OpenInv, OneOpen
    <3>3. ASSUME fire'.pc = "insert" PROVE Open(fire.id)' = {}
      <4>1. fire'.id = fire.id /\ Open(fire.id) = {}
        BY <2>1, <3>3, InsertIsReached DEF OpenInv
      <4>2. fire'.id \in Schedules
        BY <2>1, <3>3 DEF Typed
      <4>3. PICK j \in Schedules : j = fire.id
        BY <4>1, <4>2
      <4>4. Open(j)' = {}
        BY <3>1, <4>1, <4>3
      <4> QED
        BY <4>1, <4>3, <4>4
    <3> QED
      BY <2>1, <3>2, <3>3 DEF OpenInv
  <2> QED
    BY <2>2, <2>3
<1> QED
  BY <1>1, <1>2, PTL DEF SchedSpec

(* A schedule has one run without an end at most (OneOpenRun).               *)
THEOREM OneOpenRunHolds == SchedSpec => []OneOpenRun
<1>1. OpenInv => OneOpenRun
  BY AtMostOne DEF OpenInv, OneOpen, OneOpenRun
<1> QED
  BY <1>1, OpenInvHolds, PTL

-----------------------------------------------------------------------------
(* Active schedules stay armed.                                             *)

\* No step leaves an active schedule off the wheel, except on the way to arm it.
LEMMA ArmedStep ==
  ASSUME Typed, ActiveStaysArmed, [SchedNext]_scVars
  PROVE  ActiveStaysArmed'
<1> SUFFICES ASSUME NEW j \in Schedules, Active(j)'
             PROVE  \/ wheel'[j] > 0 \/ j \in creating' \cup unarmed'
                    \/ fire'.id = j /\ fire'.pc \in {"read", "rearm"}
                    \/ Booting' /\ j \in rebuild'.list
  BY DEF ActiveStaysArmed
<1> DEFINE Goal == \/ wheel'[j] > 0 \/ j \in creating' \cup unarmed'
                   \/ fire'.id = j /\ fire'.pc \in {"read", "rearm"}
                   \/ Booting' /\ j \in rebuild'.list
           Armed == \/ wheel[j] > 0 \/ j \in creating \cup unarmed
                    \/ fire.id = j /\ fire.pc \in {"read", "rearm"}
                    \/ Booting /\ j \in rebuild.list
<1> USE DEF rowVars, watchVars
<1>0. /\ wheel \in [Schedules -> Nat] /\ sched \in [Schedules -> {"none", "active", "paused", "gone"}]
      /\ Active(j) => Armed
  BY DEF Typed, SchedTypeOK, ActiveStaysArmed
<1>1. ASSUME NEW i \in Schedules, InsertSchedule(i) PROVE Goal
  BY <1>0, <1>1 DEF InsertSchedule, Active, Booting
<1>2. ASSUME NEW i \in Schedules, StampWheel(i) \/ CreateStops(i) PROVE Goal
  <2>1. CASE StampWheel(i)
    BY <1>0, <2>1 DEF StampWheel, Active, Booting
  <2>2. CASE CreateStops(i)
    BY <1>0, <2>2 DEF CreateStops, Active, Booting
  <2> QED
    BY <1>2, <2>1, <2>2
<1>3. ASSUME NEW i \in Schedules, PauseSchedule(i) PROVE Goal
  BY <1>0, <1>3 DEF PauseSchedule, Active, Booting
<1>4. ASSUME NEW i \in Schedules, DeleteSchedule(i) PROVE Goal
  BY <1>0, <1>4 DEF DeleteSchedule, Active, Booting
<1>5. ASSUME NEW i \in Schedules, Expire(i) PROVE Goal
  BY <1>0, <1>5 DEF Expire, Active, Booting
<1>6. CASE SweepExpired
  BY <1>0, <1>6 DEF SweepExpired, Active, Booting, NoRebuild
<1>7. CASE SwapWheel \/ RebuildFails
  <2>1. CASE SwapWheel
    BY <1>0, <2>1 DEF SwapWheel, Active, Booting
  <2>2. CASE RebuildFails
    BY <1>0, <2>2 DEF RebuildFails, Active, Booting
  <2> QED
    BY <1>7, <2>1, <2>2
<1>8. ASSUME NEW i \in Schedules, PopDue(i) PROVE Goal
  BY <1>0, <1>8 DEF PopDue, Active, Booting, Park
<1>9. CASE ReadRow
  BY <1>0, <1>9 DEF ReadRow, Active, Booting, Typed, SchedTypeOK
<1>10. CASE Rearm
  BY <1>0, <1>10 DEF Rearm, Active, Booting, Typed, SchedTypeOK
<1>11. CASE ReadRowFails
  BY <1>0, <1>11 DEF ReadRowFails, Active, Booting
<1>12. CASE SchedCrash
  BY <1>0, <1>12 DEF SchedCrash, Active, Booting
<1>13. ASSUME UNCHANGED <<rowVars, creating, wheel, rebuild, unarmed>>,
              fire.pc \notin {"read", "rearm"} \/ UNCHANGED fire
       PROVE  Goal
  BY <1>0, <1>13 DEF Active, Booting
<1>14. ASSUME NEW r \in Run, NEW ok \in BOOLEAN, ResolveRow(r, ok)
       PROVE  UNCHANGED <<rowVars, creating, wheel, rebuild, unarmed, fire>>
  BY <1>14 DEF ResolveRow
<1>15. ASSUME NEW r \in Run, InsertRun(r)
       PROVE  UNCHANGED <<rowVars, creating, wheel, rebuild, unarmed>> /\ fire.pc = "insert"
  BY <1>15 DEF InsertRun
<1> QED
  BY <1>1, <1>2, <1>3, <1>4, <1>5, <1>6, <1>7, <1>8, <1>9, <1>10, <1>11, <1>12, <1>13,
     <1>14, <1>15
     DEF SchedNext, FireStep, WatchStep, FireSchedule, ClaimInflight, StartFails, FireAborts,
         StartSession, SessionOver, CloneReplay, Subscribe, Hear, ResolveSlot, scVars

(* An active schedule stays on the wheel, or on its way there                *)
(* (ActiveStaysArmed).                                                       *)
THEOREM ActiveStaysArmedHolds == SchedSpec => []ActiveStaysArmed
<1>1. SchedInit => Typed /\ ActiveStaysArmed
  BY SchedInitTypes DEF SchedInit, ActiveStaysArmed, Active
<1>2. Typed /\ ActiveStaysArmed /\ [SchedNext]_scVars => Typed' /\ ActiveStaysArmed'
  BY SchedNextTypes, ArmedStep
<1> QED
  BY <1>1, <1>2, PTL DEF SchedSpec

-----------------------------------------------------------------------------
(* The supervisor: a crash history, and why it never fills its window.      *)

\* The history's entries ascend.
InOrder(h) == \A i, j \in 1..Len(h) : i <= j => h[i] <= h[j]

\* The d crashes of a history that end with the k-th came within one window.
Burst(h, k, d) == h[k] - h[k - d + 1] <= RESTART_WINDOW

\* A crash comes no sooner than the backoff the crashes before it asked for.
Spaced(h) ==
  \A k \in 1..(Len(h) - 1), d \in 1..Len(h) :
    d <= k /\ Burst(h, k, d) => h[k + 1] >= h[k] + Backoff(d)

\* A crash at t comes no sooner than a history asks for.
Due(h, t) == \A d \in 1..Len(h) : Burst(h, Len(h), d) => t >= h[Len(h)] + Backoff(d)

\* The next crash will come no sooner either.
Waiting ==
  /\ wrapper = "sleep" => Due(crashes, wake)
  /\ wrapper \in {"top", "run"} => Due(crashes, seconds)

SupInv ==
  /\ SupTypeOK
  /\ InOrder(crashes) /\ Spaced(crashes) /\ Waiting
  /\ \A i \in 1..Len(crashes) : crashes[i] <= seconds
  /\ NeverFails

\* The backoffs, one by one.
LEMMA BackoffTableIs ==
  /\ \A n \in Nat : Backoff(n) \in Nat
  /\ \A n \in Nat : n <= 3 => Backoff(n) = 0
  /\ Backoff(4) = 1 /\ Backoff(5) = 2 /\ Backoff(6) = 4 /\ Backoff(7) = 8
  /\ Backoff(8) = 16 /\ Backoff(9) = 32 /\ Backoff(10) = 32
  /\ \A n \in Nat : n >= 9 => Backoff(n) = 32
<1>1. /\ BackoffTable[1] = 1 /\ BackoffTable[2] = 2 /\ BackoffTable[3] = 4
      /\ BackoffTable[4] = 8 /\ BackoffTable[5] = 16 /\ BackoffTable[6] = 32
      /\ BackoffTable[7] = 32
  BY DEF BackoffTable
<1>2. \A n \in Nat : n <= 3 => Backoff(n) = 0
  BY DEF Backoff, IMMEDIATE_RESTART_LIMIT
<1>3. /\ Backoff(4) = BackoffTable[1] /\ Backoff(5) = BackoffTable[2]
      /\ Backoff(6) = BackoffTable[3] /\ Backoff(7) = BackoffTable[4]
      /\ Backoff(8) = BackoffTable[5] /\ Backoff(9) = BackoffTable[6]
      /\ Backoff(10) = BackoffTable[7]
  BY DEF Backoff, IMMEDIATE_RESTART_LIMIT
<1>4. \A n \in Nat : n >= 11 => Backoff(n) = 32
  BY DEF Backoff, IMMEDIATE_RESTART_LIMIT
<1>5. \A n \in Nat : n <= 3 \/ n \in {4, 5, 6, 7, 8, 9, 10} \/ n >= 11
  OBVIOUS
<1> QED
  BY <1>1, <1>2, <1>3, <1>4, <1>5

\* More crashes in the window never ask for a shorter wait.
LEMMA BackoffGrows ==
  ASSUME NEW m \in Nat, NEW n \in Nat, m <= n
  PROVE  Backoff(m) <= Backoff(n)
<1>1. m <= 3 \/ m \in {4, 5, 6, 7, 8} \/ m >= 9
  OBVIOUS
<1>2. n <= 3 \/ n \in {4, 5, 6, 7, 8} \/ n >= 9
  OBVIOUS
<1> QED
  BY <1>1, <1>2, BackoffTableIs

\* Eleven crashes with their backoffs do not fit into one window: the last
\* seven of the waits between them take 1+2+4+8+16+32+32 seconds.
LEMMA ElevenWaits ==
  ASSUME NEW g \in [1..11 -> Nat], \A i, j \in 1..11 : i <= j => g[i] <= g[j],
         \A d \in 1..10 : g[d] - g[1] <= 60 => g[d + 1] >= g[d] + Backoff(d)
  PROVE  ~(g[11] - g[1] <= 60)
<1> SUFFICES ASSUME g[11] - g[1] <= 60 PROVE FALSE
  OBVIOUS
<1>1. \A d \in 1..10 : g[d + 1] >= g[d] + Backoff(d)
  <2> SUFFICES ASSUME NEW d \in 1..10 PROVE g[d] - g[1] <= 60
    OBVIOUS
  <2>1. g[d] <= g[11] /\ g[d] \in Nat /\ g[11] \in Nat /\ g[1] \in Nat
    OBVIOUS
  <2> QED
    BY <2>1
<1>2. /\ g[4 + 1] >= g[4] + Backoff(4) /\ g[5 + 1] >= g[5] + Backoff(5)
      /\ g[6 + 1] >= g[6] + Backoff(6) /\ g[7 + 1] >= g[7] + Backoff(7)
      /\ g[8 + 1] >= g[8] + Backoff(8) /\ g[9 + 1] >= g[9] + Backoff(9)
      /\ g[10 + 1] >= g[10] + Backoff(10)
  BY <1>1
<1>3. /\ g[5] >= g[4] + 1 /\ g[6] >= g[5] + 2 /\ g[7] >= g[6] + 4 /\ g[8] >= g[7] + 8
      /\ g[9] >= g[8] + 16 /\ g[10] >= g[9] + 32 /\ g[11] >= g[10] + 32
  BY <1>2, BackoffTableIs
<1>4. /\ g[1] <= g[4] /\ g[1] \in Nat /\ g[4] \in Nat /\ g[5] \in Nat /\ g[6] \in Nat
      /\ g[7] \in Nat /\ g[8] \in Nat /\ g[9] \in Nat /\ g[10] \in Nat /\ g[11] \in Nat
  OBVIOUS
<1> QED
  BY <1>3, <1>4

\* The same of a history: it has no eleven crashes in one window.
LEMMA ElevenTakeTooLong ==
  ASSUME NEW h \in Seq(Nat), InOrder(h), Spaced(h), Len(h) >= 11
  PROVE  ~Burst(h, Len(h), 11)
<1>0. h \in [1..Len(h) -> Nat] /\ Len(h) \in Nat
  OBVIOUS
<1> PICK L \in Nat : L = Len(h)
  OBVIOUS
<1> PICK f \in Nat : L = f + 11
  <2>1. L - 11 \in Nat /\ L = (L - 11) + 11
    OBVIOUS
  <2> QED
    BY <2>1
<1> PICK g : g = [i \in 1..11 |-> h[f + i]]
  OBVIOUS
<1>1. \A i \in 1..11 : f + i \in 1..L
  OBVIOUS
<1>2. g \in [1..11 -> Nat]
  <2>1. h \in [1..L -> Nat]
    BY <1>0
  <2>2. \A i \in 1..11 : h[f + i] \in Nat
    BY <1>1, <2>1
  <2> QED
    BY <2>2
<1>3. \A i, j \in 1..11 : i <= j => g[i] <= g[j]
  <2> SUFFICES ASSUME NEW i \in 1..11, NEW j \in 1..11, i <= j PROVE h[f + i] <= h[f + j]
    OBVIOUS
  <2>1. f + i <= f + j
    OBVIOUS
  <2> QED
    BY <1>1, <2>1 DEF InOrder
<1>4. \A d \in 1..10 : g[d] - g[1] <= 60 => g[d + 1] >= g[d] + Backoff(d)
  <2> SUFFICES ASSUME NEW d \in 1..10, g[d] - g[1] <= 60 PROVE g[d + 1] >= g[d] + Backoff(d)
    OBVIOUS
  <2>1. /\ f + d \in 1..(L - 1) /\ d \in 1..L /\ d <= f + d
        /\ (f + d) - d + 1 = f + 1 /\ (f + d) + 1 = f + (d + 1)
    OBVIOUS
  <2>2. g[d] = h[f + d] /\ g[1] = h[f + 1] /\ g[d + 1] = h[f + (d + 1)]
    <3>1. d \in 1..11 /\ 1 \in 1..11 /\ d + 1 \in 1..11
      OBVIOUS
    <3> QED
      BY <3>1, Zenon
  <2>3. Burst(h, f + d, d)
    BY <2>1, <2>2 DEF Burst, RESTART_WINDOW
  <2>4. h[(f + d) + 1] >= h[f + d] + Backoff(d)
    BY <2>1, <2>3 DEF Spaced
  <2> QED
    BY <2>1, <2>2, <2>4
<1>5. ~(g[11] - g[1] <= 60)
  BY <1>2, <1>3, <1>4, ElevenWaits
<1>6. g[11] = h[L] /\ g[1] = h[L - 11 + 1]
  <2>1. f + 11 = L /\ f + 1 = L - 11 + 1
    OBVIOUS
  <2>2. g[11] = h[f + 11] /\ g[1] = h[f + 1]
    OBVIOUS
  <2> QED
    BY <2>1, <2>2
<1> QED
  BY <1>5, <1>6 DEF Burst, RESTART_WINDOW

\* A sorted history's window is its end: of the newest d all are in it, or
\* fewer than d crashes are.
LEMMA EndOfWindow ==
  ASSUME NEW L \in Nat, NEW h \in [1..L -> Nat],
         \A i, j \in 1..L : i <= j => h[i] <= h[j],
         NEW d \in 1..L, NEW S, S = {i \in 1..L : h[L] - h[i] <= 60}
  PROVE  /\ Cardinality(S) \in 0..L
         /\ h[L] - h[L - d + 1] <= 60 <=> d <= Cardinality(S)
<1>1. IsFiniteSet(1..L) /\ Cardinality(1..L) = L
  <2>1. 1 \in Int /\ L \in Int
    OBVIOUS
  <2>2. IsFiniteSet(1..L) /\ Cardinality(1..L) = IF 1 > L THEN 0 ELSE L - 1 + 1
    BY <2>1, FS_Interval
  <2> QED
    BY <2>2
<1>2. S \in SUBSET (1..L)
  OBVIOUS
<1>3. IsFiniteSet(S) /\ Cardinality(S) <= L /\ Cardinality(S) \in Nat
  BY <1>1, <1>2, FS_Subset, FS_CardinalityType
<1>4. PICK e \in 1..L : e = L - d + 1
  OBVIOUS
<1>5. CASE h[L] - h[e] <= 60
  <2>1. ASSUME NEW i \in e..L PROVE i \in S
    <3>1. i \in 1..L /\ e <= i
      OBVIOUS
    <3>2. h[e] <= h[i] /\ h[e] \in Nat /\ h[i] \in Nat /\ h[L] \in Nat
      BY <3>1
    <3> QED
      BY <1>5, <3>1, <3>2
  <2>2. e..L \in SUBSET S
    BY <2>1
  <2>3. Cardinality(e..L) = d
    <3>1. e \in Int /\ L \in Int
      OBVIOUS
    <3>2. Cardinality(e..L) = IF e > L THEN 0 ELSE L - e + 1
      BY <3>1, FS_Interval
    <3> QED
      BY <1>4, <3>2
  <2>4. d <= Cardinality(S)
    BY <1>3, <2>2, <2>3, FS_Subset
  <2> QED
    BY <1>3, <1>4, <1>5, <2>4
<1>6. CASE ~(h[L] - h[e] <= 60)
  <2>1. ASSUME NEW i \in S PROVE i \in (e + 1)..L
    <3>1. i \in 1..L /\ h[L] - h[i] <= 60
      OBVIOUS
    <3>2. h[e] \in Nat /\ h[i] \in Nat /\ h[L] \in Nat /\ (i <= e => h[i] <= h[e])
      BY <3>1
    <3> QED
      BY <1>6, <3>1, <3>2
  <2>2. S \in SUBSET ((e + 1)..L)
    BY <2>1
  <2>3. IsFiniteSet((e + 1)..L) /\ Cardinality((e + 1)..L) = d - 1
    <3>1. e + 1 \in Int /\ L \in Int
      OBVIOUS
    <3>2. /\ IsFiniteSet((e + 1)..L)
          /\ Cardinality((e + 1)..L) = IF e + 1 > L THEN 0 ELSE L - (e + 1) + 1
      BY <3>1, FS_Interval
    <3> QED
      BY <1>4, <3>2
  <2>4. Cardinality(S) <= Cardinality((e + 1)..L)
    BY <2>2, <2>3, FS_Subset
  <2> QED
    BY <1>3, <1>4, <1>6, <2>3, <2>4
<1> QED
  BY <1>5, <1>6

\* count_in_window: the d newest crashes are in the window exactly if it
\* counts d of them.
LEMMA WindowIsAnEnd ==
  ASSUME NEW h \in Seq(Nat), InOrder(h), NEW d \in 1..Len(h),
         NEW t \in Nat, t = h[Len(h)]
  PROVE  /\ CountInWindow(h, t) \in 0..Len(h)
         /\ Burst(h, Len(h), d) <=> d <= CountInWindow(h, t)
<1> PICK L \in Nat : L = Len(h)
  OBVIOUS
<1>1. /\ d \in 1..L /\ h \in [1..L -> Nat] /\ DOMAIN h = 1..L
      /\ \A i, j \in 1..L : i <= j => h[i] <= h[j]
  BY DEF InOrder
<1>2. PICK S : S = {i \in 1..L : h[L] - h[i] <= 60}
  OBVIOUS
<1>3. CountInWindow(h, t) = Cardinality(S)
  BY <1>1, <1>2 DEF CountInWindow, RESTART_WINDOW
<1>4. /\ Cardinality(S) \in 0..L
      /\ h[L] - h[L - d + 1] <= 60 <=> d <= Cardinality(S)
  BY <1>1, <1>2, EndOfWindow
<1> QED
  BY <1>3, <1>4 DEF Burst, RESTART_WINDOW

\* Where a burst begins, in a history that has lost its oldest crash.
LEMMA BurstBegins ==
  ASSUME NEW L \in Nat, NEW k \in 1..(L - 1), NEW d \in 1..(L - 1), d <= k
  PROVE  /\ k - d + 1 \in 1..(L - 1) /\ (k - d + 1) + 1 = (k + 1) - d + 1
         /\ k + 1 \in 1..L /\ d \in 1..L /\ d <= k + 1
  OBVIOUS

\* A history without its oldest crash.
LEMMA OldestLeaves ==
  ASSUME NEW h \in Seq(Nat), h # <<>>, InOrder(h), Spaced(h), NEW t \in Nat, Due(h, t)
  PROVE  /\ Tail(h) \in Seq(Nat) /\ Len(Tail(h)) = Len(h) - 1
         /\ \A i \in 1..Len(Tail(h)) : i + 1 \in 1..Len(h) /\ Tail(h)[i] = h[i + 1]
         /\ InOrder(Tail(h)) /\ Spaced(Tail(h)) /\ Due(Tail(h), t)
<1> PICK q : q = Tail(h)
  OBVIOUS
<1> PICK L \in Nat : L = Len(h)
  OBVIOUS
<1>1. q \in Seq(Nat) /\ Len(q) = L - 1 /\ L >= 1
  OBVIOUS
<1>2. \A i \in 1..(L - 1) : i + 1 \in 1..L /\ q[i] = h[i + 1]
  OBVIOUS
<1>3. InOrder(q)
  <2> SUFFICES ASSUME NEW i \in 1..(L - 1), NEW j \in 1..(L - 1), i <= j PROVE q[i] <= q[j]
    BY <1>1 DEF InOrder
  <2>1. i + 1 <= j + 1 /\ q[i] = h[i + 1] /\ q[j] = h[j + 1] /\ i + 1 \in 1..L /\ j + 1 \in 1..L
    BY <1>2
  <2> QED
    BY <2>1 DEF InOrder
<1>4. ASSUME NEW k \in 1..(L - 1), NEW d \in 1..(L - 1), d <= k
      PROVE  /\ q[k] = h[k + 1] /\ k + 1 \in 1..L /\ d \in 1..L /\ d <= k + 1
             /\ Burst(q, k, d) <=> Burst(h, k + 1, d)
  <2>1. /\ k - d + 1 \in 1..(L - 1) /\ (k - d + 1) + 1 = (k + 1) - d + 1
        /\ k + 1 \in 1..L /\ d \in 1..L /\ d <= k + 1
    BY <1>4, BurstBegins
  <2> PICK b : b = k - d + 1
    OBVIOUS
  <2>2. q[b] = h[b + 1] /\ q[k] = h[k + 1] /\ b + 1 = (k + 1) - d + 1
    BY <1>2, <2>1
  <2>3. Burst(q, k, d) = (q[k] - q[b] <= RESTART_WINDOW)
    BY DEF Burst
  <2>4. Burst(h, k + 1, d) = (h[k + 1] - h[b + 1] <= RESTART_WINDOW)
    BY <2>2 DEF Burst
  <2> QED
    BY <2>1, <2>2, <2>3, <2>4
<1>5. Spaced(q)
  <2> SUFFICES ASSUME NEW k \in 1..((L - 1) - 1), NEW d \in 1..(L - 1), d <= k, Burst(q, k, d)
               PROVE  q[k + 1] >= q[k] + Backoff(d)
    BY <1>1 DEF Spaced
  <2>1. k \in 1..(L - 1) /\ k + 1 \in 1..(L - 1)
    OBVIOUS
  <2>2. q[k] = h[k + 1] /\ d \in 1..L /\ d <= k + 1 /\ Burst(h, k + 1, d)
    BY <1>4, <2>1
  <2>3. q[k + 1] = h[(k + 1) + 1]
    BY <1>2, <2>1
  <2>4. h[(k + 1) + 1] >= h[k + 1] + Backoff(d)
    BY <2>1, <2>2 DEF Spaced
  <2> QED
    BY <2>2, <2>3, <2>4
<1>6. Due(q, t)
  <2> SUFFICES ASSUME NEW d \in 1..(L - 1), Burst(q, L - 1, d)
               PROVE  t >= q[L - 1] + Backoff(d)
    BY <1>1 DEF Due
  <2>1. L - 1 \in 1..(L - 1) /\ d <= L - 1 /\ (L - 1) + 1 = L
    OBVIOUS
  <2>2. q[L - 1] = h[L] /\ d \in 1..L /\ Burst(h, L, d)
    BY <1>4, <2>1
  <2> QED
    BY <2>2 DEF Due
<1> QED
  BY <1>1, <1>2, <1>3, <1>5, <1>6

\* A history with one crash more, which came when it was due.
LEMMA NewestJoins ==
  ASSUME NEW h \in Seq(Nat), InOrder(h), Spaced(h), NEW t \in Nat, Due(h, t),
         \A i \in 1..Len(h) : h[i] <= t
  PROVE  /\ Append(h, t) \in Seq(Nat) /\ Len(Append(h, t)) = Len(h) + 1
         /\ Append(h, t)[Len(h) + 1] = t
         /\ \A i \in 1..(Len(h) + 1) : Append(h, t)[i] <= t
         /\ InOrder(Append(h, t)) /\ Spaced(Append(h, t))
<1> PICK a : a = Append(h, t)
  OBVIOUS
<1> PICK L \in Nat : L = Len(h)
  OBVIOUS
<1>1. /\ a \in Seq(Nat) /\ Len(a) = L + 1 /\ a[L + 1] = t
      /\ \A i \in 1..L : a[i] = h[i]
  OBVIOUS
<1>2. \A i \in 1..(L + 1) : i \in 1..L \/ i = L + 1
  OBVIOUS
<1>3. \A i \in 1..(L + 1) : a[i] <= t
  BY <1>1, <1>2
<1>4. InOrder(a)
  <2> SUFFICES ASSUME NEW i \in 1..(L + 1), NEW j \in 1..(L + 1), i <= j PROVE a[i] <= a[j]
    BY <1>1 DEF InOrder
  <2>1. CASE j = L + 1
    BY <1>1, <1>3, <2>1
  <2>2. CASE j # L + 1
    <3>1. i \in 1..L /\ j \in 1..L
      BY <2>2
    <3> QED
      BY <1>1, <3>1 DEF InOrder
  <2> QED
    BY <2>1, <2>2
<1>5. Spaced(a)
  <2> SUFFICES ASSUME NEW k \in 1..L, NEW d \in 1..(L + 1), d <= k, Burst(a, k, d)
               PROVE  a[k + 1] >= a[k] + Backoff(d)
    BY <1>1 DEF Spaced
  <2>1. k - d + 1 \in 1..L /\ d \in 1..L
    OBVIOUS
  <2>2. Burst(h, k, d) /\ a[k] = h[k]
    BY <1>1, <2>1 DEF Burst
  <2>3. CASE k = L
    BY <1>1, <2>1, <2>2, <2>3 DEF Due
  <2>4. CASE k # L
    <3>1. k \in 1..(L - 1) /\ k + 1 \in 1..L
      BY <2>4
    <3>2. h[k + 1] >= h[k] + Backoff(d)
      BY <2>1, <2>2, <3>1 DEF Spaced
    <3> QED
      BY <1>1, <2>2, <3>1, <3>2
  <2> QED
    BY <2>3, <2>4
<1> QED
  BY <1>1, <1>3, <1>4, <1>5

\* The clock goes on: what was due stays due.
LEMMA StillDue ==
  ASSUME NEW h \in Seq(Nat), NEW t \in Nat, NEW u \in Nat, t <= u, Due(h, t)
  PROVE  Due(h, u)
<1> SUFFICES ASSUME NEW d \in 1..Len(h), Burst(h, Len(h), d)
             PROVE  u >= h[Len(h)] + Backoff(d)
  BY DEF Due
<1>1. t >= h[Len(h)] + Backoff(d)
  BY DEF Due
<1>2. h[Len(h)] \in Nat /\ Backoff(d) \in Nat
  <2>1. h \in [1..Len(h) -> Nat] /\ Len(h) \in 1..Len(h) /\ d \in Nat
    OBVIOUS
  <2>2. h[Len(h)] \in Nat
    BY <2>1, Zenon
  <2> QED
    BY <2>1, <2>2, BackoffTableIs
<1> QED
  BY <1>1, <1>2

\* A crash: it was due, so the window does not hold eleven, and the wait that
\* decide_restart asks for is the one that is due.
LEMMA CrashKeeps ==
  ASSUME SupInv, CrashActor
  PROVE  SupInv'
<1>a. PICK c, t : c = crashes /\ t = seconds
  OBVIOUS
<1>b. PICK q : q = IF Len(c) = RESTART_HISTORY_CAP THEN Tail(c) ELSE c
  OBVIOUS
<1>c. PICK h : h = Append(q, t)
  OBVIOUS
<1>1. /\ c \in Seq(Nat) /\ t \in Nat /\ Len(c) <= 16 /\ total \in Nat /\ healthy \in Nat
      /\ InOrder(c) /\ Spaced(c) /\ Due(c, t) /\ \A i \in 1..Len(c) : c[i] <= t
      /\ wake \in Nat /\ cancelled \in BOOLEAN /\ wrapper = "run"
  BY <1>a DEF SupInv, SupTypeOK, Waiting, CrashActor, RESTART_HISTORY_CAP
<1>l. PICK m \in Nat : m = Len(c)
  BY <1>1
<1>m. m <= 16
  BY <1>1, <1>l
<1>2. /\ q \in Seq(Nat) /\ Len(q) <= 15 /\ InOrder(q) /\ Spaced(q) /\ Due(q, t)
      /\ \A i \in 1..Len(q) : q[i] <= t
  <2>1. CASE m = 16
    <3>1. c # <<>>
      <4>1. Len(<<>>) = 0
        OBVIOUS
      <4>2. Len(c) # Len(<<>>)
        BY <1>l, <2>1, <4>1
      <4> QED
        BY <4>2, Zenon
    <3>2. q = Tail(c)
      BY <1>b, <1>l, <2>1 DEF RESTART_HISTORY_CAP
    <3>3. /\ q \in Seq(Nat) /\ Len(q) = Len(c) - 1
          /\ \A i \in 1..Len(q) : i + 1 \in 1..Len(c) /\ q[i] = c[i + 1]
          /\ InOrder(q) /\ Spaced(q) /\ Due(q, t)
      BY <1>1, <3>1, <3>2, OldestLeaves
    <3>4. Len(q) = 15
      <4>1. Len(q) = Len(c) - 1
        BY <3>3
      <4>2. m - 1 = 15
        BY <2>1
      <4> QED
        BY <1>l, <4>1, <4>2, Zenon
    <3>5. \A i \in 1..Len(q) : q[i] <= t
      BY <1>1, <3>3
    <3>6. Len(q) <= 15
      BY <3>4
    <3> QED
      BY <3>3, <3>5, <3>6
  <2>2. CASE m # 16
    <3>1. q = c /\ Len(c) <= 15
      <4>1. m <= 15
        BY <1>m, <2>2
      <4> QED
        BY <1>b, <1>l, <2>2, <4>1 DEF RESTART_HISTORY_CAP
    <3> QED
      BY <1>1, <3>1
  <2> QED
    BY <2>1, <2>2
<1>3. /\ h \in Seq(Nat) /\ Len(h) = Len(q) + 1 /\ h[Len(q) + 1] = t
      /\ \A i \in 1..(Len(q) + 1) : h[i] <= t
      /\ InOrder(h) /\ Spaced(h)
  BY <1>1, <1>2, <1>c, NewestJoins
<1>d. PICK L \in Nat : L = Len(h)
  BY <1>3
<1>4. L \in 1..16 /\ h[L] = t
  <2> PICK k \in Nat : k = Len(q)
    BY <1>2
  <2>1. Len(q) <= 15 /\ Len(h) = Len(q) + 1 /\ h[Len(q) + 1] = t
    BY <1>2, <1>3
  <2>2. k <= 15 /\ L = k + 1 /\ h[k + 1] = t
    BY <1>d, <2>1
  <2> QED
    BY <2>2
<1>e. PICK n : n = CountInWindow(h, t)
  OBVIOUS
<1>5. \A d \in 1..L : n \in 0..L /\ (Burst(h, L, d) <=> d <= n)
  BY <1>1, <1>3, <1>4, <1>d, <1>e, WindowIsAnEnd
<1>6. n \in 1..L /\ n <= 10
  <2>1. Burst(h, L, 1)
    <3>1. L - 1 + 1 = L /\ t - t = 0
      BY <1>1
    <3> QED
      BY <1>4, <3>1 DEF Burst, RESTART_WINDOW
  <2>2. 1 \in 1..L
    BY <1>4
  <2>3. n \in 0..L /\ 1 <= n
    BY <1>5, <2>1, <2>2
  <2>4. ASSUME n >= 11 PROVE FALSE
    <3>1. 11 \in 1..L /\ L >= 11
      BY <1>4, <2>3, <2>4
    <3>2. Burst(h, L, 11)
      BY <1>5, <2>4, <3>1
    <3> QED
      BY <1>3, <1>d, <3>1, <3>2, ElevenTakeTooLong
  <2> QED
    BY <2>3, <2>4
<1>7. /\ crashes' = h /\ total' = total + 1
      /\ shown' = "restarting" /\ wake' = t + Backoff(n)
      /\ wrapper' = IF Backoff(n) = 0 THEN "top" ELSE "sleep"
      /\ UNCHANGED <<seconds, cancelled, healthy>>
  <2>1. Recorded(seconds) = h
    BY <1>a, <1>b, <1>c DEF Recorded
  <2>2. ~(n > MAX_RESTARTS_IN_WINDOW)
    BY <1>6 DEF MAX_RESTARTS_IN_WINDOW
  <2> QED
    BY <1>a, <1>e, <2>1, <2>2 DEF CrashActor
<1>8. Backoff(n) \in Nat
  BY <1>6, BackoffTableIs
<1>9. Due(h, t + Backoff(n))
  <2> SUFFICES ASSUME NEW d \in 1..L, Burst(h, L, d)
               PROVE  t + Backoff(n) >= h[L] + Backoff(d)
    BY <1>d DEF Due
  <2>1. d <= n /\ d \in Nat /\ n \in Nat
    BY <1>5, <1>6
  <2>2. Backoff(d) <= Backoff(n) /\ Backoff(d) \in Nat
    BY <2>1, BackoffGrows, BackoffTableIs
  <2> QED
    BY <1>1, <1>4, <1>8, <2>2
<1>10. SupTypeOK'
  <2>1. crashes' \in Seq(Nat) /\ Len(crashes') <= 16
    <3>1. Len(h) <= 16
      <4>1. L <= 16
        BY <1>4
      <4> QED
        BY <1>d, <4>1
    <3> QED
      BY <1>3, <1>7, <3>1
  <2>2. /\ wrapper' \in {"top", "run", "sleep", "gone"} /\ wake' \in Nat
        /\ shown' \in {"starting", "running", "restarting", "failed"} /\ seconds' \in Nat
        /\ total' \in Nat /\ healthy' \in Nat /\ cancelled' \in BOOLEAN
    BY <1>1, <1>7, <1>8, <1>a
  <2> QED
    BY <2>1, <2>2 DEF SupTypeOK, RESTART_HISTORY_CAP
<1>11. Waiting'
  <2>1. CASE Backoff(n) = 0
    <3>1. t + Backoff(n) = t /\ wrapper' = "top"
      BY <1>1, <1>7, <2>1
    <3> QED
      BY <1>7, <1>9, <1>a, <3>1 DEF Waiting
  <2>2. CASE Backoff(n) # 0
    BY <1>7, <1>9, <1>a, <2>2 DEF Waiting
  <2> QED
    BY <2>1, <2>2
<1>12. InOrder(crashes)' /\ Spaced(crashes)' /\ \A i \in 1..Len(crashes') : crashes'[i] <= seconds'
  BY <1>3, <1>7, <1>a
<1> QED
  BY <1>7, <1>10, <1>11, <1>12 DEF SupInv, NeverFails

\* The history is spaced as its own crashes asked for.
LEMMA SupInvariant == SupSpec => []SupInv
<1>1. SupInit => SupInv
  <2> SUFFICES ASSUME SupInit PROVE SupInv
    OBVIOUS
  <2>1. crashes \in Seq(Nat) /\ Len(crashes) = 0
    BY DEF SupInit
  <2>2. SupTypeOK
    <3>1. Len(crashes) <= 16
      BY <2>1
    <3> QED
      BY <2>1, <3>1 DEF SupInit, SupTypeOK, RESTART_HISTORY_CAP
  <2>3. InOrder(crashes) /\ Spaced(crashes) /\ Waiting
    BY <2>1 DEF InOrder, Spaced, Waiting, Due
  <2> QED
    BY <2>1, <2>2, <2>3 DEF SupInit, SupInv, NeverFails
<1>2. SupInv /\ [SupNext]_superVars => SupInv'
  <2> SUFFICES ASSUME SupInv, [SupNext]_superVars PROVE SupInv'
    OBVIOUS
  <2>1. CASE CrashActor
    BY <2>1, CrashKeeps
  <2>2. CASE StartActor
    BY <2>2 DEF StartActor, SupInv, SupTypeOK, Waiting, NeverFails
  <2>3. CASE CleanExit \/ SeeCancelled \/ CancelAll
    BY <2>3 DEF CleanExit, SeeCancelled, CancelAll, SupInv, SupTypeOK, Waiting, NeverFails
  <2>4. CASE BackoffEnds
    <3>1. Due(crashes, seconds)
      BY <2>4, StillDue DEF BackoffEnds, SupInv, SupTypeOK, Waiting
    <3> QED
      BY <2>4, <3>1 DEF BackoffEnds, SupInv, SupTypeOK, Waiting, NeverFails
  <2>5. CASE PassSecond
    <3> PICK c, t : c = crashes /\ t = seconds
      OBVIOUS
    <3>1. c \in Seq(Nat) /\ t \in Nat /\ t + 1 \in Nat /\ t <= t + 1
      BY DEF SupInv, SupTypeOK
    <3>2. /\ seconds' = t + 1 /\ crashes' = c
          /\ UNCHANGED <<wrapper, wake, shown, total, cancelled>>
          /\ healthy' \in {healthy, healthy + 1}
      BY <2>5 DEF PassSecond
    <3>3. Due(c, t) => Due(c, t + 1)
      BY <3>1, StillDue
    <3>4. Waiting'
      BY <3>2, <3>3 DEF SupInv, Waiting
    <3>5. SupTypeOK'
      BY <3>1, <3>2 DEF SupInv, SupTypeOK
    <3>6. \A i \in 1..Len(c) : c[i] <= t + 1
      <4>1. \A i \in 1..Len(c) : c[i] \in Nat /\ c[i] <= t
        BY <3>1 DEF SupInv
      <4> QED
        BY <3>1, <4>1
    <3> QED
      BY <3>2, <3>4, <3>5, <3>6 DEF SupInv, NeverFails
  <2>6. CASE UNCHANGED superVars
    BY <2>6 DEF superVars, SupInv, SupTypeOK, Waiting, NeverFails
  <2> QED
    BY <2>1, <2>2, <2>3, <2>4, <2>5, <2>6 DEF SupNext
<1> QED
  BY <1>1, <1>2, PTL DEF SupSpec

\* No supervised actor is ever marked Failed, whenever it crashes and however
\* often: the branch of decide_restart that gives up is out of reach
\* (NeverFails; supervisor.rs), against what its policy announces.
THEOREM NeverFailsHolds == SupSpec => []NeverFails
<1>1. SupInv => NeverFails
  BY DEF SupInv
<1> QED
  BY <1>1, SupInvariant, PTL

\* The wrapper, its clock and its history keep their types: the history never
\* outgrows RESTART_HISTORY_CAP (SupTypeOK; RestartHistory::record).
THEOREM SupTypesHold == SupSpec => []SupTypeOK
<1>1. SupInv => SupTypeOK
  BY DEF SupInv
<1> QED
  BY <1>1, SupInvariant, PTL
=============================================================================
