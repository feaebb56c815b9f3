----------------------------- MODULE Scheduler -----------------------------
(***************************************************************************)
(* The scheduler (crates/core/src/scheduler/actor.rs, fire_loop.rs): rows  *)
(* of schedules and of their runs, the wheel of next firings, the map of   *)
(* runs in flight, the fire loop, a watcher per run and the expiry sweep.  *)
(* Which entry of the wheel comes due next is left to chance; wheel counts *)
(* the entries of a schedule.                                              *)
(***************************************************************************)
EXTENDS Naturals, FiniteSets

CONSTANTS
  Schedules,           \* schedule ids, each created once
  MaxRuns,             \* runs are 1..MaxRuns
  MaxScFaults,         \* failures of the database and of start_session, dropped calls
  MaxScCrashes         \* Core crashes, each followed by a boot

ASSUME SchedulerAssumption ==
  IsFiniteSet(Schedules) /\ MaxRuns \in Nat /\ MaxScFaults \in Nat /\ MaxScCrashes \in Nat

VARIABLES
  sched,               \* id -> its row: "none", "active", "paused" or "gone"
  expired,             \* ids whose expires_at has passed
  creating,            \* ids inserted and not yet put on the wheel
  wheel,               \* id -> entries of it
  rebuild,             \* rebuild_wheel between its SELECT and its lock
  runs,                \* run -> its row
  inflight,            \* id -> run in the map, or 0
  fire,                \* the fire loop
  watch,               \* run -> its watcher
  agentOver,           \* runs whose session has ended its turn or exited
  heard,               \* runs whose watcher has an event, or a closed channel
  unarmed,             \* history: ids whose entry was dropped or never made, and
                       \* that no rebuild has armed since
  scfaults, sccrashes

rowVars == <<sched, expired>>
watchVars == <<watch, agentOver, heard>>
scVars == <<rowVars, creating, wheel, rebuild, runs, inflight, fire, watchVars,
            unarmed, scfaults, sccrashes>>

Run == 1..MaxRuns
NoRun == [of |-> "none", st |-> "none"]
Park == [pc |-> "park", id |-> "none", run |-> 0]
NoRebuild == [pc |-> "idle", list |-> {}]

SchedInit ==
  /\ sched = [i \in Schedules |-> "none"] /\ expired = {} /\ creating = {}
  /\ wheel = [i \in Schedules |-> 0] /\ rebuild = NoRebuild
  /\ runs = [r \in Run |-> NoRun]
  /\ inflight = [i \in Schedules |-> 0]
  /\ fire = Park
  /\ watch = [r \in Run |-> "none"] /\ agentOver = {} /\ heard = {}
  /\ unarmed = {} /\ scfaults = 0 /\ sccrashes = 0

ScFault == scfaults < MaxScFaults /\ scfaults' = scfaults + 1
Booting == rebuild.pc = "boot"
Open(i) == {r \in Run : runs[r] = [of |-> i, st |-> "open"]}

-----------------------------------------------------------------------------
(* The calls: create_schedule, pause_schedule, delete_schedule.            *)

InsertSchedule(i) ==
  /\ sched[i] = "none"
  /\ sched' = [sched EXCEPT ![i] = "active"]
  /\ creating' = creating \cup {i}
  /\ UNCHANGED <<expired, wheel, rebuild, runs, inflight, fire, watchVars, unarmed,
                 scfaults, sccrashes>>

StampWheel(i) ==
  /\ i \in creating
  /\ creating' = creating \ {i}
  /\ wheel' = [wheel EXCEPT ![i] = @ + 1]
  /\ UNCHANGED <<rowVars, rebuild, runs, inflight, fire, watchVars, unarmed,
                 scfaults, sccrashes>>

\* The row is read back between the two: one that is gone, a failed read or a
\* dropped call ends create_schedule, and an active row stays without an entry.
CreateStops(i) ==
  /\ i \in creating
  /\ IF sched[i] = "gone" THEN UNCHANGED scfaults ELSE ScFault
  /\ creating' = creating \ {i}
  /\ unarmed' = unarmed \cup {i}
  /\ UNCHANGED <<rowVars, wheel, rebuild, runs, inflight, fire, watchVars, sccrashes>>

\* The row and then the wheel; the entry of a firing under way is not there.
PauseSchedule(i) ==
  /\ sched[i] = "active"
  /\ sched' = [sched EXCEPT ![i] = "paused"]
  /\ wheel' = [wheel EXCEPT ![i] = 0]
  /\ UNCHANGED <<expired, creating, rebuild, runs, inflight, fire, watchVars, unarmed,
                 scfaults, sccrashes>>

\* The rows of its runs go with it.
DeleteSchedule(i) ==
  /\ sched[i] \in {"active", "paused"}
  /\ sched' = [sched EXCEPT ![i] = "gone"]
  /\ runs' = [r \in Run |-> IF runs[r].of = i THEN [runs[r] EXCEPT !.st = "deleted"] ELSE runs[r]]
  /\ wheel' = [wheel EXCEPT ![i] = 0]
  /\ inflight' = [inflight EXCEPT ![i] = 0]
  /\ UNCHANGED <<expired, creating, rebuild, fire, watchVars, unarmed, scfaults, sccrashes>>

-----------------------------------------------------------------------------
(* run_expiration_sweep and rebuild_wheel                                  *)

Expire(i) ==
  /\ sched[i] = "active" /\ i \notin expired
  /\ expired' = expired \cup {i}
  /\ UNCHANGED <<sched, creating, wheel, rebuild, runs, inflight, fire, watchVars,
                 unarmed, scfaults, sccrashes>>

Active(i) == sched[i] = "active" /\ i \notin expired

\* pause_expired; with any row paused, list_active of the rebuild.
SweepExpired ==
  /\ rebuild = NoRebuild
  /\ \E i \in expired : sched[i] = "active"
  /\ sched' = [i \in Schedules |-> IF i \in expired /\ sched[i] = "active" THEN "paused"
                                                                          ELSE sched[i]]
  /\ rebuild' = [pc |-> "sweep", list |-> {i \in Schedules : Active(i)}]
  /\ UNCHANGED <<expired, creating, wheel, runs, inflight, fire, watchVars, unarmed,
                 scfaults, sccrashes>>

\* The wheel is cleared and filled from a list read before the lock was taken.
SwapWheel ==
  /\ rebuild.pc # "idle"
  /\ wheel' = [i \in Schedules |-> IF i \in rebuild.list THEN 1 ELSE 0]
  /\ unarmed' = (unarmed \cup {i \in Schedules : wheel[i] > 0}) \ rebuild.list
  /\ rebuild' = NoRebuild
  /\ UNCHANGED <<rowVars, creating, runs, inflight, fire, watchVars, scfaults, sccrashes>>

\* list_active fails: the wheel is left as it is, which at a boot, where the
\* failure is logged and the actor goes on, is empty.
RebuildFails ==
  /\ rebuild.pc # "idle" /\ ScFault
  /\ unarmed' = IF Booting THEN unarmed \cup rebuild.list ELSE unarmed
  /\ rebuild' = NoRebuild
  /\ UNCHANGED <<rowVars, creating, wheel, runs, inflight, fire, watchVars, sccrashes>>

-----------------------------------------------------------------------------
(* run_fire_loop and fire_schedule                                         *)

PopDue(i) ==
  /\ ~Booting /\ fire = Park /\ wheel[i] > 0
  /\ wheel' = [wheel EXCEPT ![i] = @ - 1]
  /\ fire' = [Park EXCEPT !.pc = "read", !.id = i]
  /\ UNCHANGED <<rowVars, creating, rebuild, runs, inflight, watchVars, unarmed,
                 scfaults, sccrashes>>

\* A row that is there and not paused is re-armed after the firing.
ReadRowUnarmed ==
  /\ fire.pc = "read"
  /\ fire' = IF sched[fire.id] = "gone" THEN Park ELSE [fire EXCEPT !.pc = "fire"]
  /\ UNCHANGED <<rowVars, creating, wheel, rebuild, runs, inflight, watchVars, unarmed,
                 scfaults, sccrashes>>

\* The row is read again; one that is there and not paused is re-armed before
\* the firing, which a slow start may hold up.
ReadRow ==
  /\ fire.pc = "read"
  /\ fire' = IF sched[fire.id] = "gone" THEN Park
             ELSE [fire EXCEPT !.pc = IF sched[fire.id] = "active" THEN "rearm" ELSE "fire"]
  /\ UNCHANGED <<rowVars, creating, wheel, rebuild, runs, inflight, watchVars, unarmed,
                 scfaults, sccrashes>>

Rearm ==
  /\ fire.pc = "rearm"
  /\ fire' = [fire EXCEPT !.pc = "fire"]
  /\ wheel' = [wheel EXCEPT ![fire.id] = @ + 1]
  /\ UNCHANGED <<rowVars, creating, rebuild, runs, inflight, watchVars, unarmed,
                 scfaults, sccrashes>>

\* A row that cannot be read: the loop goes on without the popped entry.
ReadRowFails ==
  /\ fire.pc = "read" /\ ScFault
  /\ fire' = Park
  /\ unarmed' = unarmed \cup {fire.id}
  /\ UNCHANGED <<rowVars, creating, wheel, rebuild, runs, inflight, watchVars, sccrashes>>

\* Suppression that asks the map alone.
SuppressedByMap(i) == inflight[i] # 0

\* A run in flight suppresses the next: by the map, or by a row without an end
\* when a restart has emptied the map.
Suppressed(i) == inflight[i] # 0 \/ Open(i) # {}

FireSchedule ==
  /\ fire.pc = "fire"
  /\ LET i == fire.id IN
       fire' = IF Active(i) /\ ~Suppressed(i) THEN [fire EXCEPT !.pc = "insert"] ELSE Park
  /\ UNCHANGED <<rowVars, creating, wheel, rebuild, runs, inflight, watchVars, unarmed,
                 scfaults, sccrashes>>

InsertRun(r) ==
  /\ fire.pc = "insert"
  /\ runs[r] = NoRun /\ \A q \in Run : q < r => runs[q] # NoRun
  /\ IF sched[fire.id] = "gone"                           \* the foreign key
       THEN fire' = Park /\ UNCHANGED runs
       ELSE /\ runs' = [runs EXCEPT ![r] = [of |-> fire.id, st |-> "open"]]
            /\ fire' = [fire EXCEPT !.pc = "claim", !.run = r]
  /\ UNCHANGED <<rowVars, creating, wheel, rebuild, inflight, watchVars, unarmed,
                 scfaults, sccrashes>>

ClaimInflight ==
  /\ fire.pc = "claim"
  /\ inflight' = [inflight EXCEPT ![fire.id] = fire.run]
  /\ fire' = [fire EXCEPT !.pc = "start"]
  /\ UNCHANGED <<rowVars, creating, wheel, rebuild, runs, watchVars, unarmed,
                 scfaults, sccrashes>>

Ended(r, st) == IF runs[r].st = "open" THEN [runs EXCEPT ![r].st = st] ELSE runs

\* mark_run_failed, when there is no supervisor, no such agent, or the start
\* fails; the loop goes on with its next entry.
StartFails ==
  /\ fire.pc = "start" /\ ScFault
  /\ runs' = Ended(fire.run, "failed")
  /\ inflight' = [i \in Schedules |-> IF inflight[i] = fire.run THEN 0 ELSE inflight[i]]
  /\ fire' = Park
  /\ UNCHANGED <<rowVars, creating, wheel, rebuild, watchVars, unarmed, sccrashes>>

\* The lookup of the workarea, or after the start the transaction that stores
\* session_id and last_run_at, returns through `?`: row and slot stay taken.
FireAborts ==
  /\ fire.pc = "start" /\ ScFault
  /\ fire' = Park
  /\ UNCHANGED <<rowVars, creating, wheel, rebuild, runs, inflight, watchVars, unarmed,
                 sccrashes>>

StartSession ==
  /\ fire.pc = "start"
  /\ watch' = [watch EXCEPT ![fire.run] = "clone"]
  /\ fire' = Park
  /\ UNCHANGED <<rowVars, creating, wheel, rebuild, runs, inflight, agentOver, heard,
                 unarmed, scfaults, sccrashes>>

-----------------------------------------------------------------------------
(* The session of a run, and spawn_run_watcher.                            *)

\* TurnComplete or Exited; evicted is a session taken out of the map besides,
\* which closes the channel.
SessionOver(r, evicted) ==
  /\ watch[r] \in {"clone", "subscribe", "recv"} /\ r \notin agentOver
  /\ agentOver' = agentOver \cup {r}
  /\ heard' = IF watch[r] = "recv" \/ (watch[r] = "subscribe" /\ evicted)
                THEN heard \cup {r} ELSE heard
  /\ UNCHANGED <<rowVars, creating, wheel, rebuild, runs, inflight, fire, watch, unarmed,
                 scfaults, sccrashes>>

\* The replay is cloned, then the channel subscribed.
CloneReplay(r) ==
  /\ watch[r] = "clone"
  /\ watch' = [watch EXCEPT ![r] = IF r \in agentOver THEN "row" ELSE "subscribe"]
  /\ UNCHANGED <<rowVars, creating, wheel, rebuild, runs, inflight, fire, agentOver, heard,
                 unarmed, scfaults, sccrashes>>

Subscribe(r) ==
  /\ watch[r] = "subscribe"
  /\ watch' = [watch EXCEPT ![r] = "recv"]
  /\ UNCHANGED <<rowVars, creating, wheel, rebuild, runs, inflight, fire, agentOver, heard,
                 unarmed, scfaults, sccrashes>>

Hear(r) ==
  /\ watch[r] = "recv" /\ r \in heard
  /\ watch' = [watch EXCEPT ![r] = "row"]
  /\ UNCHANGED <<rowVars, creating, wheel, rebuild, runs, inflight, fire, agentOver, heard,
                 unarmed, scfaults, sccrashes>>

\* resolve_run: the row, best effort, and then the slot if it is still this
\* run's.
ResolveRow(r, ok) ==
  /\ watch[r] = "row"
  /\ IF ok THEN UNCHANGED scfaults ELSE ScFault
  /\ runs' = IF ok THEN Ended(r, "over") ELSE runs
  /\ watch' = [watch EXCEPT ![r] = "slot"]
  /\ UNCHANGED <<rowVars, creating, wheel, rebuild, inflight, fire, agentOver, heard,
                 unarmed, sccrashes>>

ResolveSlot(r) ==
  /\ watch[r] = "slot"
  /\ inflight' = [i \in Schedules |-> IF inflight[i] = r THEN 0 ELSE inflight[i]]
  /\ watch' = [watch EXCEPT ![r] = "none"]
  /\ UNCHANGED <<rowVars, creating, wheel, rebuild, runs, fire, agentOver, heard,
                 unarmed, scfaults, sccrashes>>

-----------------------------------------------------------------------------
\* Everything in memory goes; the boot rebuilds the wheel, and nothing else.
SchedCrash ==
  /\ sccrashes < MaxScCrashes
  /\ sccrashes' = sccrashes + 1
  /\ creating' = {} /\ wheel' = [i \in Schedules |-> 0]
  /\ inflight' = [i \in Schedules |-> 0]
  /\ fire' = Park
  /\ watch' = [r \in Run |-> "none"] /\ heard' = {}
  /\ rebuild' = [pc |-> "boot", list |-> {i \in Schedules : Active(i)}]
  /\ unarmed' = {}
  /\ UNCHANGED <<rowVars, runs, agentOver, scfaults>>

FireStep ==
  \/ \E i \in Schedules : PopDue(i)
  \/ ReadRow \/ Rearm \/ ReadRowFails \/ FireSchedule
  \/ \E r \in Run : InsertRun(r)
  \/ ClaimInflight \/ StartFails \/ FireAborts \/ StartSession

WatchStep(r) ==
  \/ CloneReplay(r) \/ Subscribe(r) \/ Hear(r) \/ ResolveSlot(r)
  \/ \E ok \in BOOLEAN : ResolveRow(r, ok)

SchedNext ==
  \/ \E i \in Schedules : \/ InsertSchedule(i) \/ StampWheel(i) \/ CreateStops(i)
                          \/ PauseSchedule(i) \/ DeleteSchedule(i) \/ Expire(i)
  \/ SweepExpired \/ SwapWheel \/ RebuildFails \/ FireStep
  \/ \E r \in Run : WatchStep(r) \/ \E evicted \in BOOLEAN : SessionOver(r, evicted)
  \/ SchedCrash

SchedSpec == SchedInit /\ [][SchedNext]_scVars

-----------------------------------------------------------------------------
SchedTypeOK ==
  /\ sched \in [Schedules -> {"none", "active", "paused", "gone"}]
  /\ expired \subseteq Schedules /\ creating \subseteq Schedules /\ unarmed \subseteq Schedules
  /\ wheel \in [Schedules -> Nat]
  /\ rebuild \in [pc : {"idle", "sweep", "boot"}, list : SUBSET Schedules]
  /\ runs \in [Run -> [of : Schedules \cup {"none"},
                       st : {"none", "open", "over", "failed", "deleted"}]]
  /\ inflight \in [Schedules -> 0..MaxRuns]
  /\ fire \in [pc : {"park", "read", "rearm", "fire", "insert", "claim", "start"},
               id : Schedules \cup {"none"}, run : 0..MaxRuns]
  /\ watch \in [Run -> {"none", "clone", "subscribe", "recv", "row", "slot"}]
  /\ agentOver \subseteq Run /\ heard \subseteq Run

\* A schedule has one run without an end at most, whatever becomes of the map:
\* a crash that empties it, a failed update, a run resolved late
\* (actor.rs:544-600).
OneOpenRun == \A i \in Schedules : Cardinality(Open(i)) <= 1

\* An active schedule stays on the wheel, or on its way there, through
\* firings, pauses, sweeps and restarts.  The exceptions are in unarmed: a row
\* that could not be read for a firing, a boot whose rebuild failed, a create
\* that ended between its row and its entry, and a wheel rebuilt from a list
\* older than a create (actor.rs:289-320, 392-440, 466-475, fire_loop.rs:60-117).
ActiveStaysArmed ==
  \A i \in Schedules :
    Active(i) => \/ wheel[i] > 0 \/ i \in creating \cup unarmed
                 \/ fire.id = i /\ fire.pc \in {"read", "rearm"}
                 \/ Booting /\ i \in rebuild.list

\* A run without an end is the fire loop's or has a watcher: "the run row
\* already has session_id NULL, which is the inert state - the watcher will
\* resolve it on its own" (actor.rs:654-656).
OpenRunIsWatched ==
  \A r \in Run : runs[r].st = "open" => watch[r] # "none" \/ fire.run = r
=============================================================================
