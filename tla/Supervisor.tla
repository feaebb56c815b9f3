----------------------------- MODULE Supervisor -----------------------------
(***************************************************************************)
(* One supervised actor of the Core (crates/core/src/supervisor.rs): the   *)
(* wrapper task that runs it, the crash history that decides its restarts, *)
(* and the runtime's shutdown.  Time is in seconds; what an actor does     *)
(* between its start and its end is not modelled.                          *)
(***************************************************************************)
EXTENDS Integers, Sequences, FiniteSets

CONSTANTS
  MaxSeconds,          \* seconds the clock runs
  MaxHealthy           \* seconds the actor spends running, in all

ASSUME SupervisorAssumption == MaxSeconds \in Nat /\ MaxHealthy \in Nat

VARIABLES
  seconds,             \* std::time::Instant
  wrapper,             \* the wrapper task: at the top of its loop, running the
                       \* actor, sleeping out a backoff, or gone
  wake,                \* when the sleep ends
  shown,               \* ActorState, as the status RPC reads it
  crashes,             \* RestartHistory.entries, oldest first
  total,               \* RestartHistory.total
  cancelled,           \* the shutdown token
  healthy              \* history: seconds spent running

superVars == <<seconds, wrapper, wake, shown, crashes, total, cancelled, healthy>>

RESTART_WINDOW == 60
MAX_RESTARTS_IN_WINDOW == 10
IMMEDIATE_RESTART_LIMIT == 3
RESTART_HISTORY_CAP == 16

SupInit ==
  /\ seconds = 0 /\ wrapper = "top" /\ wake = 0 /\ shown = "starting"
  /\ crashes = <<>> /\ total = 0 /\ cancelled = FALSE /\ healthy = 0

\* RestartHistory::record: the oldest of RESTART_HISTORY_CAP entries makes room.
Recorded(t) ==
  Append(IF Len(crashes) = RESTART_HISTORY_CAP THEN Tail(crashes) ELSE crashes, t)

CountInWindow(h, t) == Cardinality({i \in DOMAIN h : t - h[i] <= RESTART_WINDOW})

\* BACKOFF_TABLE, the last entry held for the tail.
BackoffTable == <<1, 2, 4, 8, 16, 32, 32>>
Backoff(n) ==
  IF n <= IMMEDIATE_RESTART_LIMIT THEN 0
  ELSE IF n - IMMEDIATE_RESTART_LIMIT <= 7 THEN BackoffTable[n - IMMEDIATE_RESTART_LIMIT] ELSE 32

StartActor ==
  /\ wrapper = "top" /\ ~cancelled
  /\ wrapper' = "run" /\ shown' = "running"
  /\ UNCHANGED <<seconds, wake, crashes, total, cancelled, healthy>>

\* run returned Err or panicked, and decide_restart.
CrashActor ==
  /\ wrapper = "run"
  /\ LET h == Recorded(seconds)
         n == CountInWindow(h, seconds)
     IN  /\ crashes' = h
         /\ total' = total + 1
         /\ IF n > MAX_RESTARTS_IN_WINDOW
              THEN wrapper' = "gone" /\ shown' = "failed" /\ UNCHANGED wake
              ELSE /\ shown' = "restarting"
                   /\ wake' = seconds + Backoff(n)
                   /\ wrapper' = IF Backoff(n) = 0 THEN "top" ELSE "sleep"
  /\ UNCHANGED <<seconds, cancelled, healthy>>

\* run returned Ok(()): the wrapper ends and leaves the state as it was.
CleanExit ==
  /\ wrapper = "run"
  /\ wrapper' = "gone"
  /\ UNCHANGED <<seconds, wake, shown, crashes, total, cancelled, healthy>>

BackoffEnds ==
  /\ wrapper = "sleep" /\ seconds >= wake
  /\ wrapper' = "top"
  /\ UNCHANGED <<seconds, wake, shown, crashes, total, cancelled, healthy>>

\* RootSupervisor::shutdown, or a signal.
CancelAll ==
  /\ ~cancelled /\ cancelled' = TRUE
  /\ UNCHANGED <<seconds, wrapper, wake, shown, crashes, total, healthy>>

\* Each select! of the wrapper, and the top of its loop, leave at once: a
\* running actor's future is dropped where it is.
SeeCancelled ==
  /\ cancelled /\ wrapper \in {"top", "run", "sleep"}
  /\ wrapper' = "gone"
  /\ UNCHANGED <<seconds, wake, shown, crashes, total, cancelled, healthy>>

\* A step that is ready is taken within the second; running costs `healthy`.
PassSecond ==
  /\ seconds < MaxSeconds
  /\ wrapper # "top" /\ ~(wrapper = "sleep" /\ seconds >= wake) /\ ~cancelled
  /\ seconds' = seconds + 1
  /\ IF wrapper = "run" THEN healthy < MaxHealthy /\ healthy' = healthy + 1
                     ELSE UNCHANGED healthy
  /\ UNCHANGED <<wrapper, wake, shown, crashes, total, cancelled>>

SupNext ==
  StartActor \/ CrashActor \/ CleanExit \/ BackoffEnds \/ CancelAll \/ SeeCancelled
    \/ PassSecond

SupSpec == SupInit /\ [][SupNext]_superVars

-----------------------------------------------------------------------------
SupTypeOK ==
  /\ seconds \in Nat /\ wake \in Nat /\ total \in Nat /\ healthy \in Nat
  /\ wrapper \in {"top", "run", "sleep", "gone"}
  /\ shown \in {"starting", "running", "restarting", "failed"}
  /\ crashes \in Seq(Nat) /\ Len(crashes) <= RESTART_HISTORY_CAP
  /\ cancelled \in BOOLEAN

\* "...and stop at the 11th crash with Failed" (supervisor.rs:735-737; the
\* policy is at 12-15).  The test pauses tokio's clock, which the crash
\* history, kept in std::time::Instant, does not follow.
EleventhCrashFails == total >= MAX_RESTARTS_IN_WINDOW + 1 => shown = "failed"

\* What the code does instead: the branch of decide_restart that marks an actor
\* Failed is never taken, because the backoffs between an actor's eleven last
\* crashes add up to more than the window.
NeverFails == shown # "failed"
=============================================================================
