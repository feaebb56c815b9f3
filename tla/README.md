# Concerto: a TLA+ model of the Core

Concerto runs coding agents (Claude Code and the like) for a user. A *Core*
daemon owns workspaces, sessions, schedules and permissions; every agent CLI
runs under a small *agent host* process of its own that outlives the Core,
keeps the agent's output in a ring, and lets the next Core adopt it. This
directory models the agent sessions and approvals in depth, and around them
the Core's services that keep state: workareas, pull request sets,
repositories, schedules, event streams, notifications, the audit log, devices
and the process's own lock. TLC checks the models on small instances; TLAPS
proves every safety property the passing runs check, for every value of the
constants, and that approvals, an agent's output and event streams implement
abstract specifications of what is promised of them. Liveness stays with TLC.

Paths below are relative to `src/`. `PROJECT.json` maps every definition that
models code to the lines it stands for, and lists components, hazards, runs,
mutants and theorems.

## Inventory of the system

### Agent sessions

**Agent Host** (`crates/agent-host/src`). One process per agent.
*State*: replay ring (chunks with sequence numbers, a byte count, a capacity),
`child_exited`, `connection_active`, the socket file, `final-info.json`.
*Tasks*: the supervisor thread (`run_pty` / `run_pipe`), the reader thread that
forwards output through a channel, the record task that pushes it into the
ring, the accept loop, and a reader and a writer per accepted connection.
*Hard*: they meet through one `Notify` whose `notify_waiters` keeps no permit;
the ring is looked at under one lock at several moments of a handshake; the
process must end after its agent did, whatever its connection does.
*Correct when*: output is lost only by eviction, the slot is held by one
connection, the exit comes after the output and ends up on disk.

**Bridge and read pump** (`crates/core/src/agent_supervisor/actor.rs`
`run_read_pump`, the tickers; `adopt.rs` `try_adopt_one`).
*State*: an acknowledgement watermark in memory, `last_acked_seq` in the row.
*Operations*: connect, Hello/Ready, receive, acknowledge (by bytes or by
ticker), persist (ticker, and once more at the end).
*Hard*: the Core can die at any step and the next one starts from the row.
*Correct when*: what is acknowledged or persisted is an unbroken prefix of
what was read, and the row never goes back.

**Session lifecycle** (`actor.rs`, `adopt.rs`, `cold_resume.rs`,
`crates/persist/src/sessions.rs`).
*State*: the row (status, end, cookie, socket), the files at the session's
fixed paths, the supervisor's map of entries, the pumps, the hosts alive.
*Operations*: start, cold resume, stop, delete, the pump's end, and the boot
sweep: a hot pass that adopts live hosts, a cold pass that classifies the rest.
*Hard*: five independent parties (user, Core, sweep, hosts, old pumps) write
one row and one path; hosts of earlier incarnations may still live; nothing
keeps two starts or resumes of one session apart.
*Correct when*: the map drives the host the row names (unless resumes
overlapped), a finished row stays finished, and after boot no row claims a host
the Core does not hold.

**Tool approvals** (`actor.rs` `dispatch_parse_event`, `resolve_approval`;
`approval.rs`; `security/permission.rs`, `tool_classes.rs`;
`workspace_manager/edit_mutex.rs`; `persist/src/tool_approvals.rs`).
*State*: the mode of the row, the resolver of the pump, parked waiters, the
audit rows, the workarea's edit mutex, what the agent has on its screen.
*Operations*: dispatch of a prompt, automatic and user decisions, acquiring
and dropping the mutex, injecting the answer, changing the mode, stop, restart.
*Hard*: the injected bytes carry no id, so *which* prompt they answer depends
on timing; several devices, a timeout and a crash race.
*Correct when*: an answer reaches the prompt it was given for, agrees with the
record and with the policy floor, and the mutex is given back on every path.

**Checkpoints** (`agent_supervisor/checkpoint.rs`).
*State*: the refs of each repository, the checkpoints table, the worktrees.
*Operations*: after each turn a task of its own numbers, commits, moves the ref
and inserts the row; a revert resets every repository of a turn.
*Hard*: tasks of two sessions overlap, any step may fail, the Core may die.
*Correct when*: a row's ref still holds the content of the turn it names.

### Workareas and repositories

**Workareas** (`workspace_manager/workarea.rs`, `fsm.rs`, `archive.rs`).
*State*: the row's status and archive time, the worktree directory, a watcher
per session with the receiver it reads, transitions in flight.
*Operations*: session events through the funnel `transition_workarea`, pause,
resume, archive, restore, boot adoption; creation over several repositories.
*Hard*: the funnel reads and writes without holding anything between, and a
directory, git's worktree list and a row are kept in step by hand.
*Correct when*: an archived workarea has no session of before running, a live
session is watched, a listed workarea has its worktrees.

**Pull request sets** (`workarea.rs`, `scheduler/wait_checks.rs`, `crates/vcs`).
*State*: GitHub's pull requests and checks, the cached rows, merges in flight.
*Operations*: create, re-read, order, coordinated merge with a wait for checks
after each member, revert in reverse.
*Hard*: a poll, a webhook and a deadline race; rows are a cache three
operations write. *Correct when*: no member is merged unless the previous one's
reported checks had all passed or the user said "anyway", and every call returns.

**Repository Manager** (`repo_manager`).
*State*: a write lock per repository, two prewarm permits, clones, cones in git
and in rows. *Operations*: clone, prewarm and its cancellation, set cones of a
worktree or the defaults of a repository. *Hard*: permits and locks are taken
in turn by tasks that can be aborted; cones are kept twice.
*Correct when*: git and row agree on the cones, every call ends.

**VCS cache and webhooks** (`crates/vcs`).
*State*: the check-run cache, recorded deliveries. *Hard*: fetches overlap each
other and a webhook's invalidation. *Correct when*: an answer is never staler
than the time to live.

### Services

**Scheduler** (`scheduler`). *State*: schedules and runs (rows), the wheel, the
map of runs in flight, a watcher per run. *Operations*: create, pause, delete,
expire, pop, fire, resolve, rebuild. *Hard*: a firing is six steps over four
stores, and a restart keeps the rows only; errors are logged or returned between
row and wheel. *Correct when*: one open run per schedule; an active schedule
stays on the wheel unless such an error dropped it.

**Streams** (`handlers/streams.rs`). *State*: a numbered ring per subject, the
subscribers' watermarks, the pump. *Hard*: subscribing, evicting, pruning by
acknowledgement and reconnecting interleave. *Correct when*: a subscriber that
reconnects gets every event it misses, or is told that it cannot.

**Supervisor and pid file** (`supervisor.rs`, `pid_file.rs`). *State*: restart
history, backoff; the lock, the record in the file, the path. *Correct when*:
a crash loop stops at its limit, and one Core runs.

**Notifications** (`notifications`). *State*: inbox rows, push tokens, chips.
*Hard*: look-up and write are two statements, several devices tap.
*Correct when*: exactly one tap acts.

**Suggestions** (`suggestions`). *State*: the sessions attached, the last
firing of each rule, the chips shown. *Hard*: window and retention are stamped
under two locks by the tasks of several sessions. *Correct when*: a rule is
suppressed only while its chip is shown.

**Audit log** (`audit`). *State*: the queue, the open file, the files of each
day. *Hard*: turning over by day and by size with steps that fail.
*Correct when*: what was written is kept until retention removes its day.

**Pairing and devices** (`security/pairing.rs`, `devices.rs`, `auth.rs`).
*State*: one-time tokens, device rows, the in-memory set of the revoked.
*Hard*: row and set are written one after the other, a call may be dropped, a
restart refills the set. *Correct when*: a device whose revocation was reported
is refused.

### How the parts interact

The supervisor spawns hosts and talks to each over its Unix socket
(`HostFrame`s: Hello, Ready, StdoutBytes, Ack, AgentExited and the refusals).
The pump feeds the parser, which raises events; each goes into the entry's
replay buffer and then to its broadcast. Five parties subscribe there: the
workarea's watchers, a scheduled run's watcher, the suggestion engine, the
streams and the checkpoints' task. An approval's decision goes back as
StdinBytes on the same connection. The row carries what one Core leaves to the
next: cookie, socket path, watermark, mode. A host leaves its exit code in
`final-info.json` for a Core that was not there to hear it. Apart from the
database, the services meet in the sessions they start and watch.

### Not modelled

| Component | Why |
|---|---|
| Maestro (`maestro`) | routing and digests read other components; its five write tools and their confirmation gate are not wired (`tools/mod.rs` answers them with an error) |
| Relay, Transport, connect bridges | forwarding is `iroh-relay`'s and QUIC's; the project's own part is one mutex over counters, and copying between library streams |
| Skills, Settings, LLM calls, Logging, MCP configuration | directory discovery, layered lookup, external processes, text |
| Identity, managed policy | key material; evaluation of a file |
| Workspaces, branches, diffs, context files, PR texts | rows and reads without a protocol |
| Fetch jobs and fsmonitor of the Repository Manager | one task with a timer each |
| Keychain, errors, wire types, test harness | wrappers and generated types |
| CLI, desktop, mobile, web, FFI | clients of the API |

The models stand for the parts in which several parties write one piece of
state. The rest of the source (handlers that translate requests, SQL rows, user
interfaces, parsing and formatting, most of it sequential) is by far the larger
share of the lines and has nothing for a model checker to interleave; this is
why the map covers a small share of the lines.

## Modules

| Module | Models | Extends |
|---|---|---|
| `BridgeWire` | frames and the two byte streams of a connection | |
| `AgentHost` | one host process; one action per critical section of each task | `BridgeWire` |
| `ReadPump` | the Core's side: handshake, watermark, tickers, crash | `BridgeWire` |
| `OutputContract` | what is promised of an agent's output, told apart from how | |
| `HostLink` | host and Core composed; fairness; properties; `DeliveryInv`, `HandoverInv`, `NothingMadeUp` | `AgentHost`, `ReadPump`, instance of `OutputContract` |
| `HostLinkProofs` | theorems about `HostLink` and its contract | `HostLink`, TLAPS |
| `AgentSession` | one session's rows, files, hosts, entry, pumps, boot sweep | |
| `AgentSessionProofs` | theorems about `AgentSession` | `AgentSession`, TLAPS |
| `ApprovalContract` | what a tool prompt is promised, told apart from how | |
| `ToolApproval` | prompts, gates, decisions, edit mutex of one workarea | instance of `ApprovalContract` |
| `ToolApprovalProofs` | theorems about `ToolApproval` and its contract | `ToolApproval`, TLAPS |
| `WorkareaFsm` | the status graph of `fsm.rs` | |
| `WorkareaLife` | one workarea's row, sessions, watchers, archive, boot | `WorkareaFsm` |
| `WorkareaCreate` | creation, archive and restore on rows, directories, git | |
| `PrSet` | a set of pull requests: merge on checks, revert, re-read | |
| `RepoManager` | clone, prewarm and cones under locks and permits | |
| `Supervisor` | restart decisions for one actor | |
| `Scheduler` | schedules, wheel, runs, watchers, fire loop, restart | |
| `StreamContract` | what a subscriber of a subject is promised, told apart from how | |
| `Streams` | one subject's ring, acknowledgements, subscribers | instance of `StreamContract` |
| `VcsSync` | check-run cache and webhook deliveries | |
| `Notifications` | inbox, push tokens, chips under one de-dup key | |
| `Audit` | queue, writer and files | |
| `PidFile` | the flock, the record and the path | |
| `Checkpoint` | turn checkpoints and reverts of one workarea | |
| `Devices` | pairing tokens, device rows, the revoked set | |
| `Suggestions` | engine attachment, rule window, chips | |
| `WorkareaProofs` | theorems about workareas, pull request sets and `MCCore` as a whole | `MCCore`, `RepoProofs`, `SchedulerProofs` |
| `RepoProofs` | theorems about cones, permits and creation | `RepoManager`, `WorkareaCreate`, `SchedulerProofs` |
| `SchedulerProofs` | theorems about schedules and the supervisor | `Scheduler`, `Supervisor`, TLAPS |
| `ServiceProofs` | theorems about suggestions, audit log, streams and `MCServices` as a whole | `MCServices`, `EdgeProofs`, `RepoProofs` |
| `EdgeProofs` | theorems about checkpoints and what comes from outside the Core | `VcsSync`, `Notifications`, `Devices`, `PidFile`, `Checkpoint`, `SchedulerProofs` |
| `MCHostLink`, `MCAgentSession`, `MCToolApproval` | model values and tool calls for TLC | |
| `MCCore`, `MCServices` | parts without common state, side by side in one run | |

In `MCCore` (`part`) and `MCServices` (`service`) a behaviour belongs to one of
the parts from its first state on. They share no variable, so exploring
them side by side costs the sum of their states, where a composition would cost
the product and say nothing more. `Together` picks which sessions a behaviour
of `WorkareaLife` starts.

### State and actions against the code

*AgentHost.* A chunk is its sequence number; `ring` is the set held, `size`
what each weighed. Every lock scope or await of a task is one action, so an
action boundary is a point where the code can really be interrupted:
`RecordPush` and `RecordNotify` are apart because the push is under the lock
and the notify is not; `WriterSnapshot`, `WriterDone` and `WriterPark` are
apart because that gap is where a notification is lost. `notify_waiters` wakes
the parked and no one else (`Woken`, `NotifyWaiters`). `SnapshotReplay`
follows `ClaimSlot` because the handshake takes two looks at the ring. The
two supervisors differ in what they do when the agent cannot be started
(`SpawnFails`, `FlagSpawnFailure`).

*ReadPump.* `received` is a history of what the pump read. `PersistTick` and
`AckTick` are the tickers, `FlushAck` the write after the loop, `CoreCrash`
drops everything but the row.

*HostLink.* Its actions are the host's and the pump's with the other side's
variables framed. Connections are numbered in the order a Core opens them; a
crash closes the Core's end and leaves in the wire what was sent.

*AgentSession.* Host `h` is the h-th spawned for the session, so its number
stands for its cookie and pid. `op[h]` is the start or resume in flight that is
to spawn `h`: `ResumeEject` has no guard against others, as
`cold_resume_existing` has none, and `overlapped` remembers that one began
beside another. A call's steps are its statements: the reset of row and socket
(`ResumeReset`), the spawn, the wait for the socket, `update_host`, the entry;
`OpFails` is the `?` of the first, second and fourth, `GiveUp` the failed
handshake, whose `mark_failed` may fail too. `ending` is a stop or delete past
its teardown. The pump's end is two actions,
`PumpExited` (the row) and `PumpReaps` (the map, and the wait on *whatever*
child is there): another call may come between. The sweep is one action per
answer a socket can give, in the order of `adopt_orphans`.

*ToolApproval.* One record of `gate` per AwaitingApproval event, with the
step it has reached; `asked`, `ans` and `writing` are the agent's side. A
gate's steps are those of the two match arms (automatic, in the pump; parked,
in a task). `muddled` marks sessions where a user typed or a prompt was read
twice: nothing in the code can tell whose answer is whose there, and the
properties say so by leaving them out.

*WorkareaLife.* `transition_workarea` is a task of two steps, since it holds
nothing between reading the row and writing it. The pump's tick attaches a
watcher to each session it finds and feeds it the replay before what the
receiver holds; the boot sweep and `adopt_orphans` come before the first tick.
Archive and restore are one action per statement.

*WorkareaCreate.* `rows`, `root`, `trees` and `known` are the four stores that
have to agree (git remembers a worktree whose directory is gone). A call
claims a composer name, adds its worktrees one at a time and cleans up after a
failure in the order of the code. `DiskStops` is every way an archive or a
restore ends early without a crash: git that cannot be spawned,
`remove_dir_all` that stops half-way, a row transaction that fails, a dropped
call. `torn` marks the names for which an archive ended so, or in a crash, with
the row as it was, or for which another call's cleanup removed the directory.

*PrSet.* `remote` and `checks` are GitHub's; `prRow` is the cache. A merge is a
poll loop with a deadline per member, a revert walks the members backwards, and
`reread` is a `get_pr` whose answer is in hand and not yet stored. `checks` is
the verdict over the runs reported so far, and `ReportChecks` may take it back
to "pending" after it was resolved: a later run registers, or one is run again.
`MergePr` leaves the member with any verdict, as without a merge commit the code
polls the head of the pull request, whose runs are there already. `green` is a
history of the members whose reported runs had all passed since the merge.

*RepoManager.* A call's steps are the points at which it waits for the
repository's lock, for a permit, for git, or for the database. `split` marks the
worktrees whose row could not be written after git was.

*Scheduler.* `wheel` counts entries, since pausing and resuming can leave two.
`fire` walks the steps of `fire_schedule`. A crash empties all but `sched` and
`runs`; `rebuild_wheel` selects and then locks. `unarmed` marks schedules that an
error kept off the wheel or a stale rebuild dropped, until a rebuild arms them
again: `CreateStops` (the read between insert and stamp fails, or the call is
dropped), `ReadRowFails`, and `RebuildFails`, which a boot only logs.

*Streams.* An event is its offset and its weight. A subscribe looks whether there
is a pump, builds a source if there is none, and then registers, reads the ring
and joins the live channel in one critical section; the pump stamps under the
lock and sends after it. A channel that is full loses its oldest event.
Acknowledgement prunes below the lowest watermark.

*VcsSync.* A fetch is three steps (look, await, store); a webhook is recorded,
then verified, then drops the cache entry. `checkRuns` keeps when each version
was last current, so that staleness can be stated.

*Notifications.* All events have one key. `hit` is the row a look-up found.
*Audit.* Files are `<<day, n>>`; a rotation is a rename, and each of its steps
may fail. *PidFile.* The path, the inode it names, its lock and the record in
it are apart; `stops` counts the guards dropped.

*Checkpoint.* One task per completed turn; contents of a worktree are numbers.
`LinkedTrees` are the repositories whose `.git` is a file. `overlapped` marks
turns whose tasks ran at the same time.

*Devices.* A token is consumed before the row is written and not given back on
failure. `told` are the phones whose revocation returned.

*Suggestions.* An event is the rule it makes apply. The poll clones, subscribes
and evaluates, and leaves a task per session, so two evaluations stamp the
window and the buffer in either order.

`WorkareaFsm` and `Supervisor` are read straight off their sources.

### Abstract specifications and their implementations

`ApprovalContract` knows of an approval two things: what was decided, and what
the agent was told. It is decided at most once, told at most once and after the
decision; a refusal may be told in the place of a consent (the edit mutex was
not to be had), a consent never in the place of a refusal. `ToolApproval`
implements it (`KeepsContract`, checked in `approvals`): `GateDecision` reads the
decision from the verdict of the policy, or from the audit row when a user had
to give it, and `GateTold` from the bytes the agent's terminal took in for that
gate. Between the two lie the steps that could lose a decision or turn it: the
waiter taken out of the map, the row written, the mutex waited for and timed
out, the stop of the session, the replay after a
restart.

`OutputContract` knows of an agent's output how much of it was recorded, what
the host still holds, what was read and what was lost for want of room, the
prefix on record as read, and whether a Core was told of the end. A chunk is
read when all before it are read or lost; the record only grows, and only over
what was passed; the host drops what was passed, or its oldest; the end is told
behind everything recorded before it. There are no connections, frames, tasks,
tickers or crashes in it. `HostLink` implements it (`KeepsOutput`, checked in
`host_link`) with `made`, `kept`, `lost` and `saved` as `next_seq - 1`, `ring`,
`evicted` and `last_acked_seq`: a chunk read twice, over a replay and the writer,
is `Read` twice, and a crash, a handshake or a kill is no step at all.
`AckNeverRegresses` and `ExitAfterOutput` are parts of it.

`StreamContract` knows of a subject how many events were numbered and which is
the oldest that can be asked for; of a subscriber, whether it is on, what it
reads next, what it read last, and whether it fell behind. A read is of the next
event; of one further on only if the subscriber fell behind, which takes a
channel's length of unread events; of the one before once more, when that event
was stamped and not yet sent as the subscriber registered. Who comes back is
given what follows its last read, or is told that it is gone and starts from
here. There is no ring, acknowledgement, pump, source, channel or lock in it.
`Streams` implements it (`StreamsKeepContract`, checked in `services`): `stamped`
is `counter`, `floor` the ring's floor. Eviction and pruning are both `Stamp`
without an event, and a source that starts, emits or ends is no step at all.
`NothingSkipped` says that what the contract lets a subscriber read next is there
for it to read; the contract that nothing else is.

## Runs

| Run | Question | States |
|---|---|---|
| `host_link` | delivery, watermark, byte count, slot, exit record, across two Cores; the contract | 3.8 million |
| `host_grace` | does the host end after its agent (liveness) | 226 thousand |
| `host_slot` | *violated*: a dropped connection gives its slot back | |
| `session` | one session through every interleaving of two hosts, calls that overlap, and three boots | 299 thousand |
| `session_hot` | *violated*: a failed adoption reads 'crashed' | |
| `approvals` | two sessions, every kind of call, one Core restart; the contract | 3.0 million |
| `approvals_live` | does a decided gate settle and free the mutex (liveness) | 234 thousand |
| `core` | workarea life, pull request sets, repositories, a supervised actor, with the liveness of each | 1.1 million |
| `services` | the ten services and their restarts; the contract of the stream | 3.1 million |
| `checkpoint` | *violated*: a turn in a workarea is checkpointed | |
| `supervisor` | *violated*: the eleventh crash in a minute fails the actor | |
| `scheduler` | *violated*: an open run has a watcher | |

What the properties of the `session` run and of the two composite runs say:

| Property | Says |
|---|---|
| `EntryMatchesRow` | the map drives the host whose cookie the row carries, unless resumes overlapped |
| `FinishedIsFinal` | while no start or resume is in flight, a finished row stays as it is until a resume or a deletion |
| `BootReconciles` | a Core that begins to serve holds the host of a row that says 'running' |
| `BootCompletes` | every boot sweep ends |
| `ArchiveLeavesNoOldSession` | once archived, no session of before is still running |
| `LiveSessionIsWatched` | time and again no live session is without a watcher |
| `MergesOnGreen` | a merge goes past a member only when it is merged and the runs reported for it had all passed at some time since, or on the user's word and the policy's leave |
| `MergeReturns`, `CallsEnd` | every merge and every repository call ends |
| `ConesAgree` | git and row have the same cones, except where a row write failed |
| `ListedIsMaterialized` | a workarea that is listed has its worktrees, on disk and in git's list, unless an archive stopped before its row or another call's cleanup removed them |
| `OneOpenRun` | a schedule has one open run at most, through restarts |
| `ActiveStaysArmed` | an active schedule is on the wheel or in the hands of the loop, a create or the boot, unless an error or a stale rebuild lost its entry |
| `NothingSkipped` | a subscriber misses no event unless it is told |
| `StreamsKeepContract` | what it reads is in order, each event once but the one under way, gaps are told |
| `StalenessBounded` | an answer from the check cache was current within the time to live |
| `OneDeviceActs` | of several devices that tap one chip, one acts |
| `WrittenIsKept` | a line once written is in some file until retention drops its day |
| `OneCoreUntilAStop` | two Cores never run, as long as none has stopped |
| `CheckpointRestorable` | a checkpoint's row names a ref that holds its turn, unless tasks overlapped |
| `RevokedIsRefused` | a device whose revocation was reported is refused from then on |
| `SuppressedIsShown` | a suggestion is suppressed only while its chip is on the screen |

Every property of a passing run has a *mutant*: a definition of the model
changed as a plausible bug would change the code, under which TLC finds the
property violated.

### Where the code and its own words part

The five violated runs check sentences of the code's comments; the findings of
`PROJECT.json` quote them. A silent agent's slot outlives the Core that
held it. A session that failed adoption reads 'finished'. No turn is ever
checkpointed in a workarea, whose repositories are all linked worktrees. An
actor that crashes at once is restarted for ever, as its backoffs outlast the
window. A run whose row was inserted just before a crash stays open and
suppresses its schedule.

These further sentences are definitions of the modules too, and TLC finds each
violated with the settings given; they are not runs, so that the number of runs
stays that of the questions.

| Definition | The sentence, and what it takes |
|---|---|
| `HostLink.ConnectedCoreHearsExit` | a connected Core is told of the exit; the notification falls between a look and a wait |
| `HostLink.SupervisorSetsFlag` | the supervisor sets the flag before it returns; a PTY that cannot be opened does not |
| `AgentSession.ColdPathOnlyUnreachable` | the cold path is for unreachable hosts; a busy host takes it |
| `ToolApproval.NewGateUsesRowMode` | a prompt is decided by the current mode; the pump keeps the mode it began with |
| `ToolApproval.OneWriterPerWorkarea` | one session writes at a time; the mutex covers the approval and not the write |
| `WorkareaLife.LastExitFinishes` | `workarea.rs:2709-2711`; one session, no user operation |
| `WorkareaCreate.LeftoversAreRemoved` | `workarea.rs:810-812`; what an earlier call left behind makes the next one fail |
| `PrSet.MergedIsRevertible` | `workarea.rs:2198-2199`; two members, one caller |
| `Streams.SubscriberIsFed` | `streams.rs:5-7`; `MaxIncarnations = 2`, the pump reads the session it began with |
| `VcsSync.AcceptedIsApplied` | `vcs/src/actor.rs:443-535`; `MaxVcsFaults = 1`, a redelivery is a duplicate |
| `Notifications.MarkedIsResolved` | `persist/src/notifications.rs:168` |
| `Audit.FilePresent` | `audit/jsonl.rs:300` |
| `PidFile.OneCore` | `pid_file.rs:5-9`; a guard that is dropped unlinks a file another Core has locked |
| `Suggestions.AttachedIsFed` | `suggestions/actor.rs:242-243`; `MaxTalks = 2`, a resumed session is not subscribed to again |

Each is why some passing property is worded as it is: `GateSettles` speaks of
decided gates, `PendingIsResolvable` leaves out the adopted session that was
stopped, `SlotHeldOnce` is about who holds the slot and not about when it comes
back, `OneCoreUntilAStop` ends where the first guard is dropped, `MergesOnGreen`
says "at some time since" and not "are", and `unarmed`, `torn`, `split` and
`overlapped` name the states in which the promise is lost.

What the four histories stand for, in the code: two resumes of one session that
overlap leave the map driving one host and the row carrying the other's cookie,
so that a restart adopts the other host, or none (`overlapped` of
`AgentSession`); an archive whose root cannot be removed, or whose row cannot be
written, returns its error and leaves an active workarea without worktrees
(`torn`, `archive.rs:158-168`, `workarea.rs:2536-2544`); a boot whose
`rebuild_wheel` fails goes on with an empty wheel, and a create that stops
between row and wheel leaves a schedule that is active and never fires, both
until the next rebuild (`unarmed`, `scheduler/actor.rs:307-309`, `471-475`); a
row that cannot be written after git was leaves two cones (`split`).

Met while reading, and not stated as properties: a stale `get_pr` can write
'merged' over 'reverted'; resuming a paused set merges its first member again;
an error while waiting for checks leaves a merged member unmarked; the
supervisor drops an actor's future at shutdown instead of draining it; a clean
exit leaves an actor's state 'running'; `AgentEvent::Crashed` is sent by
no one; fsmonitor's limit of three restarts in a minute cannot be reached by
probes half a minute apart; `add_repository` looks and inserts in two steps;
a clone cut off by a crash leaves a directory that refuses every later clone; a
session adopted at boot has no bridge to Maestro.

### Bounds and why they are enough

* `MaxConns = 2`: one Core, its crash, and the Core that adopts, which is where
  replay, seeding and the old connection's leftovers meet.
* `Capacity = 2`, `ChunkSizes = {1, 2}`, `MaxChunks = 2`: a chunk that fills
  the ring, one that evicts another, and a ring acknowledged to nothing.
* `MaxHosts = 2`, `MaxBoots = 3`: a second incarnation beside the first, a
  crash during it, and a sweep over what both left. The calls that overlap are
  then a start and a resume, which share all but their first steps; two resumes
  beside a living host take three hosts and more than the five minutes of a run.
  The theorems have no bound.
* Two sessions, `MaxPrompts = 2`, `MaxGates = 2`, one crash: the
  mutex contested, a late answer with a later prompt on the screen, a replayed
  prompt. The tool calls of `MCToolApproval` are one per way a decision can go.
* The byte streams of a connection are sequences without a bound of their
  own; the chunks and ticks that fill them are bounded, so they are.
* `core`: two sessions together, or one that asks; one user operation and one
  boot; two members and two callers of the merge; two repositories, two
  workareas and two calls under one permit; `MaxSeconds = 130`, as eleven
  crashes with their backoffs take 95.
* `services`: two of each actor, and one failure and one crash each; three
  processes for the pid file, where the third meets what the first two left;
  `MaxEvents = 4` on a ring of two, so that a gap can be missed and told;
  `ServicesBound` keeps pairs of bounds from being exhausted together.
  The passing run has `LinkedTrees = {}`: with linked worktrees there is no
  checkpoint to speak about. It has `MaxIncarnations = 1`, one failure for
  the webhooks and `MaxTalks = 1`: the table above says what a second brings.

`CHECK_DEADLOCK FALSE` everywhere: a host that ended, a session that was
deleted or a user who does nothing more are real ends of these systems.

### Fairness

`HostLink`: the host's tasks and the Core's pump run (weak fairness: tokio
polls what is ready), the supervisor thread goes on, a connection that waits
is accepted. Nothing is assumed of the agent's output, of users, of the Core's
crashes. `GraceOutlastsTasks` makes the timeout of the grace window fire only
when the connection's tasks are at rest, for runs that ask what a task does
when it does have the time; the safety run has it FALSE. `AgentSession`: the
sweep, the calls in flight and their handshake timeouts proceed; kills, exits
and users owe nothing. A host that is up answers: one that accepts and hangs is
not modelled (the sweep has no timeout on that read, a listed hazard).
`ToolApproval`: tasks of a gate proceed, the mutex timeout among them.
`WorkareaLife`: the ticks and the boot go on. `PrSet`: each merge's own steps
and its deadline, which is what ends a wait when GitHub never answers with a
verdict. `RepoManager`: each call's own step; tokio's mutex and semaphore are
first come first served, and with the calls bounded weak fairness of each step
says no more than that. Users, agents, GitHub and crashes owe nothing. The
services have no liveness property.

## Proofs

`tlapm` proves, with no theorem taken on trust, that each invariant and each
safety property of an action that a passing run checks holds in every
behaviour, whatever the constants. The temporal theorems below are of the form
`Spec => []Property`; each rests on an inductive invariant, which is why the
tables name it.

| Module | Theorems | Inductive invariant |
|---|---|---|
| `HostLinkProofs` | `TypeCorrect`, `NoOutputLost`, `WatermarkSound`, `RowNeverRegresses` | `DeliveryInv` |
| | `HostKeepsOutput` | `HandoverInv`, `NothingMadeUp`, `RingAccounting` |
| | `SlotIsHeldOnce`, `ExitFollowsOutput`, `ExitIsOnDisk` | `HandoverInv` |
| | `RingAccountingHolds` | the property itself |
| `AgentSessionProofs` | `SessionTypesHold`, `EntryIsOfRow`, `FinishedStays`, `BootLeavesNoGhost` | `SessionInv` |
| `ToolApprovalProofs` | `TypesHold`, `AnswersReachTheirPrompt`, `PolicyFloorHolds`, `EditLockIsExact`, `PendingStaysResolvable`, `GatesKeepContract` | `ApprovalInv` |
| `WorkareaProofs` | `ArchiveLeavesNoOldSessionHolds`, `LifeTypesHold` | `LifeInv`, with `EventsTyped` |
| | `MergesOnGreenHolds`, `PrTypesHold` | `PrInv` |
| | `CoreTypesHold`, `CoreKeepsAll` | those of the four parts |
| `RepoProofs` | `ConesAgreeHolds`, `PermitsAreHeld`, `RepoTypesHold` | `RepoInv`, with `StoresTyped` |
| | `ListedIsMaterializedHolds`, `CreateTypesHold` | `WcInv` |
| `SchedulerProofs` | `SchedTypesHold`, `OneOpenRunHolds`, `ActiveStaysArmedHolds` | `Typed`, `OpenInv`, the property |
| | `NeverFailsHolds`, `SupTypesHold` | `SupInv` |
| `ServiceProofs` | `SuppressedIsShownHolds`, `SuggestionsTypesHold` | `SgInv` |
| | `WrittenIsKeptHolds`, `AuditTypesHold` | `AdInv` |
| | `NothingSkippedHolds`, `StreamsTypesHold` | `StInv`, with `StBounds` |
| | `StreamsKeepContractHolds` | `StInv`, `StReads` |
| | `ServicesAreKept`, `ServicesTypesHold`, `ServicesKeepAll` | those of the ten services |
| `EdgeProofs` | `StalenessIsBounded`, `VcsTypesHold` | `VcsInv` |
| | `OneDeviceActsHolds`, `NotifTypesHold` | `NotifInv` |
| | `RevokedIsRefusedHolds`, `OneDevicePerTokenHolds`, `DevicesTypesHold` | `DevInv` |
| | `OneCoreUntilAStopHolds`, `PidTypesHold` | `PidInv` |
| | `CheckpointRestorableHolds`, `CkTypesHold` | `CkInv` |

The assumptions are those named in the modules that declare the constants:
naturals for bounds and capacities (positive where the code divides by them or
keeps at least one), finite sets where something is counted, non-empty chunks, a
boolean for each switch, a "none" that is no member. TLC evaluates them in every
run. `RepoTypesHold`, and with it `CoreTypesHold`, alone have hypotheses of
their own: that there is a repository, a workarea and a set of cones, as without
them a call has nothing to name.

*HostLink.* That no chunk is lost is not inductive: an Ack prunes the ring on
a number that travelled through the wire, came from a watermark that was
seeded from a row, and stands for chunks delivered by an earlier connection.
`DeliveryInv` follows that chain. `ClaimsCovered`: every number the Core
claims, in memory, on disk or in a frame not yet read, covers a prefix that was
read or evicted. `WireInOrder`: before a chunk on the wire come all earlier
ones still needed. `TaskCovered`: what lies below a connection task's mark is
delivered, on the wire or in its batch, which is what makes the handshake's
two looks at the ring harmless. `UnopenedIdle` and `SeededAck` are what the
crash and adoption steps need. `HandoverInv` adds `SlotOwned` (the flag is up
exactly while one connection holds the slot), `ExitSeen` (what the accept loop
and the disk know of the exit) and `ExitBehindOutput` (a writer that saw the
exit flag, and an AgentExited on its way, are behind all the output recorded
before the flag); `host_link` checks its parts as the properties they imply.
The ring's byte count is the number of `Places`, one per byte of each chunk
held, so that adding and removing chunks are unions and differences of finite
sets and no sum has to be folded. The proofs have one lemma per group of
actions and within it one step per conjunct that can change.

`HostKeepsOutput` maps each step to a step of `OutputContract` or to none. It
takes from `DeliveryInv` that an Ack names a passed prefix (`LetGo`), from
`WireInOrder` that the first frame on the wire has everything before it passed
(`Read`), from `SeededAck` that the row only moves up (`Save`), and from
`ExitBehindOutput` that the end comes last (`Tell`). Two things were missing.
`NothingMadeUp`: a number on the wire, in a batch or among those read was given
out by `push`, without which a Core could save more than there is; TLC checked
it, and `HandoverInv`, on the instance of `host_link` before it was proved.
`OldestEvicted`: what `evict` pops is older than all it leaves, from the way the
bytes of the older chunks add up.

*AgentSession.* `SessionInv` adds to the entry what keeps it right:
`OpMatchesRow` (a start or resume that has none beside it finds the map without
an entry, and from its reset on its own cookie in the row), `FreshRow` and
`SweepQuiet` (what a Core that sweeps has not begun yet, and that the one resume
it begins is alone: it is why adoption can insert the entry unchallenged).
`overlapped` falls only when a resume begins with no other call in flight, and
`ResumeEject` empties the map: this is what makes the invariant hold again.

*ToolApproval.* The bytes injected carry no id, so that an answer reaches its
prompt has to be followed from the gate to the screen. `GateOK`: a gate is of a
prompt the agent asked, and its decision and its audit row are such as its
stage allows, for the pump's gates (`OfPump`) and a user's (`OfWaiter`) apart.
`AnswersOK`: an answer taken in names a gate that has settled, and no gate is
answered twice. `ScreensOK`: in a session that is not muddled, at most one gate
still has to answer, and it is the one of the prompt on the screen. The policy
floor, the mutex and the refinement follow from these. TLC checked `ApprovalInv`
on the instance of `approvals` before it was proved. `GatesKeepContract` maps
each step to a step of `ApprovalContract` or to none: `GateDecision` and
`GateTold` change for one gate at a time.

*WorkareaLife.* `StopSound`: of the sessions an operation of the user listed,
those it has yet to stop have their entry and those it has stopped are ended.
*PrSet.* `MergeOK` says of every member a merge has gone past that it is merged
and in `green`, or was let through; a verdict that reads "green" puts its member
there, and no step takes one out, so that runs reported later do no harm; the rows of the cache are not part of
it, which is why the other writers cannot break it. `Ordered` gives each cached
row the place of its rank, and `EveryPlaceTaken` shows that no place is empty.
*WorkareaCreate.* `AdderSound` and `DiskSound` carry what a call in flight has
built or has still to add; `StopKeeps` shows that an archive or a restore that
ends early, at any of its steps, harms no name but its own.

*RepoManager.* `CallOK`: who works on a repository has its lock, and who is
between git's file and the row has written the file. *Checkpoint.* `Counted`
and `Behind`: numbers grow with the turns that have rows, and behind a task's
number there is no row of a task that ran alone.

*Scheduler.* `OpenInv`: a firing that has passed the test for an open run finds
none until it inserts its own, as the fire loop alone opens runs. *Supervisor.*
`Spaced` and `Waiting`: a crash comes no sooner than the backoff that the
crashes before it asked for. From this `ElevenWaits` adds up the backoffs
between eleven crashes, which is more than the window; so the branch of
`decide_restart` that marks an actor Failed is never taken, for any length of
time and any instants of crashing. The run `supervisor` shows one behaviour
against the comment, `NeverFailsHolds` that there is none for it. TLC explored
`SupInv` on 47 million states before it was proved.

*Streams.* `StInv`: the ring holds the last offsets stamped without a hole
(`Contig`), and every client that is not lagged has what was stamped since its
next offset in its frames or about to be sent (`Caught`). Eviction, replay and
pruning all leave a suffix (`From`), so one lemma about suffixes serves the
three. `PublishAll` is in closed form: the bound puts out after the last event
what it puts out after each. `StBounds` counts what is stamped against what one
incarnation emitted.

`StreamsKeepContractHolds` maps each step to a step of `StreamContract` or to
none. `StInv` says what is in a client's frames and nothing of their order, so
it is not enough. `StReads` adds it: the replay counts up from the next offset
wanted (`Feeds`); the channel counts up to the last offset sent (`Base`), and
begins where the replay ends, or at that event once more, unless the client fell
behind; what a client remembers is of a subject that has its pump, below
the counter (`Remembers`). A replay has to be every offset since, in order
(`ReplayIs`), and the floor may only rise, and not beyond what is stamped, when
the ring is evicted or pruned (`FloorRises`). TLC checked `StReads` on instances
with one and two incarnations and rings bounded by bytes before it was proved.

*Audit.* `FilesSound` and `QueueSound` keep every file's
lines in order and before the queue's. *Suggestions.* A stamp within the window
has its chip on the screen or in the hands of the task that carries it
(`OnItsWay`).

*VcsSync.* `Stamped`: each version held anywhere was current at the time it is
stamped with. *Notifications.* `NotesInPlace` and `OneWinner`: a row's marker is
the one device told to act. *Devices.* `TokensInv`: a token taken out of the
table is held by one call or borne by one device, and never comes back.
*PidFile.* `OneFile`: while no guard was dropped, the path has named one inode
and who runs holds its lock.

*The compositions.* `CoreSpec` and `ServicesSpec` interleave specifications that
share no variable. `CoreIsItsParts` and `ServicesAreKept` show that the composite
implements the specification of each part: a step is one of that part or leaves
all of its variables alone. Every theorem of a part then holds of the
composite (`CoreKeepsAll`, `ServicesKeepAll`), its type invariant with them
(`CoreTypesHold`, `ServicesTypesHold`): what the two runs check on one instance
is what is proved. That the parts share no variable is a claim about the code
as well, and the place where it is made is `UNCHANGED` in `CoreNext` and
`ServicesNext`; what passes between parts in the code is listed under "How the
parts interact".

Only model-checked: liveness (`GraceEndsHost`, `BootCompletes`, `GateSettles`,
`LiveSessionIsWatched`, `MergeReturns`, `CallsEnd`), which is out of the
prover's reach with ENABLED and fairness.

## What the models leave out

* Ping, Stdin and Resize frames, logs and the parser behind the pump: they read
  this state and do not change it. The order of log write and acknowledgement
  is a hazard without a property.
* Kernel socket buffers: a write never blocks in the model.
* Database failures in `AgentSession` outside a start or a resume (in them they
  are `OpFails` and `GiveUp`), and the resume token: no code of the Core writes
  it, so every row is taken to have one.
* A host that left by the grace window with AgentExited written counts as
  having delivered it (`GraceEndsDelivered` allows the exit from the moment the
  writer has sent it).
* A prompt that was in the parser's buffer when its session was stopped.
* Path and command matching: a call *is* denied or destructive.
* Where a socket lives (the fallback directory the sweep does not scan).
* Cron expressions: which entry of the wheel is due is left open.
* In the services, values no property tells apart: titles, bodies, scopes,
  certificates, branch names. Signatures are taken to be valid.

## Plan

Modelled: the session core, approvals with their contract, workareas, pull
request sets, repositories, and the services. Proved: all their safety. What
would be worth adding, in this order:

1. The services' liveness: that a firing's run ends, that a subscriber who
   keeps reading catches up, that a queued line is written.
2. The bridge between a session's turns and Maestro, as a module of its own.
