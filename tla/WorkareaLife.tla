---------------------------- MODULE WorkareaLife ----------------------------
(***************************************************************************)
(* The life of one workarea (crates/core/src/workspace_manager): its row,  *)
(* the sessions that run in it, the pump that derives the row's status     *)
(* from their events, and the user's pause, resume, archive and restore.   *)
(*                                                                         *)
(* transition_workarea is the funnel of status changes.  It reads the row, *)
(* consults the graph and writes the result, and holds nothing between the *)
(* read and the write, so every caller is a task of two steps.             *)
(***************************************************************************)
EXTENDS Naturals, Sequences, FiniteSetsExt, WorkareaFsm

CONSTANTS
  WaSessions,          \* sessions started in the workarea, each once
  Askers,              \* those whose agent asks the user once
  MaxUserOps,          \* pauses, resumes, archives and restores
  MaxWaBoots           \* Core crashes, each followed by a boot

ASSUME WaSessionsAssumption == IsFiniteSet(WaSessions) /\ Askers \subseteq WaSessions
ASSUME WaBoundsAssumption == MaxUserOps \in Nat /\ MaxWaBoots \in Nat

VARIABLES
  wa,                  \* the row: status and whether archived_at is set
  tree,                \* whether worktree_root is on disk
  sess,                \* session -> its row, as far as ended_at goes
  mapped,              \* sessions with an entry in the supervisor's map
  agent,               \* session -> what its agent is doing
  replay,              \* session -> events its entry has buffered
  attached,            \* sessions the pump's tick has taken on
  burst,               \* the replay the tick is feeding
  rx,                  \* session -> receiver of its pump task
  task,                \* caller -> its transition_workarea in flight
  user,                \* the user's operation in flight
  wcore,               \* "sweep" and "orphans" while booting, then "up"
  wops, wboots

supVars == <<sess, mapped, agent, replay>>
pumpVars == <<attached, burst>>
waVars == <<wa, tree, supVars, pumpVars, rx, task, user, wcore, wops, wboots>>

Callers == WaSessions \cup {"tick", "user"}
SessionEvent == {"Started", "AwaitingApproval", "ApprovalResolved", "Exited"}

\* WorkareaEvent of an AgentEvent; Exited asks for the live sessions first.
FsmEvent == [ev \in SessionEvent |->
               CASE ev = "Started"          -> "SessionStarted"
                 [] ev = "AwaitingApproval" -> "SessionAwaiting"
                 [] ev = "ApprovalResolved" -> "SessionResumed"
                 [] ev = "Exited"           -> "SessionFinished"]

Idle == [pc |-> "idle", on |-> "Pause", to |-> "created"]
Reading(on) == [pc |-> "read", on |-> on, to |-> "created"]
NoBurst == [of |-> {}, pc |-> "idle", q |-> <<>>]
NoReceiver == [st |-> "none", q |-> <<>>]
UserIdle == [pc |-> "idle", kind |-> "pause", listed |-> {}, todo |-> {}]

Live == {s \in WaSessions : sess[s] \in {"starting", "live"}}

LifeInit ==
  /\ wa = [status |-> "active", archived |-> FALSE]
  /\ tree = TRUE
  /\ sess \in [WaSessions -> {"none", "ended"}]
  /\ mapped = {}
  /\ agent = [s \in WaSessions |-> "none"]
  /\ replay = [s \in WaSessions |-> <<>>]
  /\ attached = {}
  /\ burst = NoBurst
  /\ rx = [s \in WaSessions |-> NoReceiver]
  /\ task = [c \in Callers |-> Idle]
  /\ user = UserIdle
  /\ wcore = "up"
  /\ wops = 0
  /\ wboots = 0

-----------------------------------------------------------------------------
(* The supervisor's side: sessions start, ask, are answered and end.       *)

\* push_replay, then the broadcast to whoever has subscribed.  The replay is
\* of no more use here once the tick has cloned it.
Emit(s, ev) ==
  /\ replay' = IF s \in attached THEN replay ELSE [replay EXCEPT ![s] = Append(@, ev)]
  /\ rx' = IF rx[s].st = "open" THEN [rx EXCEPT ![s].q = Append(@, ev)] ELSE rx

\* start_session reads archived_at, inserts the row some awaits later, and
\* has an entry and a Started event only after the host's handshake.
CheckWorkarea(s) ==
  /\ wcore = "up" /\ sess[s] = "none" /\ ~wa.archived
  /\ sess' = [sess EXCEPT ![s] = "checked"]
  /\ UNCHANGED <<wa, tree, mapped, agent, replay, pumpVars, rx, task, user, wcore,
                 wops, wboots>>

InsertSession(s) ==
  /\ sess[s] = "checked"
  /\ sess' = [sess EXCEPT ![s] = "starting"]
  /\ UNCHANGED <<wa, tree, mapped, agent, replay, pumpVars, rx, task, user, wcore,
                 wops, wboots>>

SessionUp(s) ==
  /\ sess[s] = "starting" /\ wcore = "up"
  /\ sess' = [sess EXCEPT ![s] = "live"]
  /\ agent' = [agent EXCEPT ![s] = "busy"]
  /\ mapped' = mapped \cup {s}
  /\ Emit(s, "Started")
  /\ UNCHANGED <<wa, tree, pumpVars, task, user, wcore, wops, wboots>>

AgentAsks(s) ==
  /\ s \in mapped \cap Askers /\ agent[s] = "busy"
  /\ agent' = [agent EXCEPT ![s] = "asking"]
  /\ Emit(s, "AwaitingApproval")
  /\ UNCHANGED <<wa, tree, sess, mapped, pumpVars, task, user, wcore, wops, wboots>>

AgentAnswered(s) ==
  /\ s \in mapped /\ agent[s] = "asking"
  /\ agent' = [agent EXCEPT ![s] = "done"]
  /\ Emit(s, "ApprovalResolved")
  /\ UNCHANGED <<wa, tree, sess, mapped, pumpVars, task, user, wcore, wops, wboots>>

\* The read pump meets AgentExited: the event goes out first ...
EmitExited(s) ==
  /\ s \in mapped /\ agent[s] \in {"busy", "asking", "done"}
  /\ agent' = [agent EXCEPT ![s] = "exited"]
  /\ Emit(s, "Exited")
  /\ UNCHANGED <<wa, tree, sess, mapped, pumpVars, task, user, wcore, wops, wboots>>

\* ... and ended_at is stamped after it.
MarkEnded(s) ==
  /\ agent[s] = "exited" /\ wcore = "up"
  /\ agent' = [agent EXCEPT ![s] = "none"]
  /\ sess' = [sess EXCEPT ![s] = "ended"]
  /\ UNCHANGED <<wa, tree, mapped, replay, pumpVars, rx, task, user, wcore, wops, wboots>>

-----------------------------------------------------------------------------
(* spawn_session_fsm_pump: a tick looks for live sessions, clones the       *)
(* replay of a new one, subscribes, feeds the replay and leaves a task      *)
(* behind that reads the receiver until its first error.                    *)

\* The attach without its second look: a session seen before its entry
\* exists stays on the list.
TickAttachOnce(s) ==
  /\ wcore = "up" /\ burst = NoBurst
  /\ s \in Live \ attached
  /\ attached' = attached \cup {s}
  /\ burst' = IF s \in mapped THEN [of |-> {s}, pc |-> "cloned", q |-> replay[s]] ELSE burst
  /\ UNCHANGED <<wa, tree, supVars, rx, task, user, wcore, wops, wboots>>

\* A session without an entry stays off the list, for a later tick.
TickAttach(s) ==
  /\ wcore = "up" /\ burst = NoBurst
  /\ s \in (Live \cap mapped) \ attached
  /\ attached' = attached \cup {s}
  /\ burst' = [of |-> {s}, pc |-> "cloned", q |-> replay[s]]
  /\ replay' = [replay EXCEPT ![s] = <<>>]
  /\ UNCHANGED <<wa, tree, sess, mapped, agent, rx, task, user, wcore, wops, wboots>>

TickSubscribe(s) ==
  /\ burst.of = {s} /\ burst.pc = "cloned"
  /\ burst' = [burst EXCEPT !.pc = "feed"]
  /\ rx' = [rx EXCEPT ![s] = [st |-> "open", q |-> <<>>]]
  /\ UNCHANGED <<wa, tree, supVars, attached, task, user, wcore, wops, wboots>>

\* apply_session_event, up to its first look at the database.
Apply(c, ev) ==
  task' = [task EXCEPT ![c] = [Reading(FsmEvent[ev]) EXCEPT
                                 !.pc = IF ev = "Exited" THEN "probe" ELSE "read"]]

TickFeed ==
  /\ burst.pc = "feed" /\ burst.q # <<>> /\ task["tick"] = Idle
  /\ Apply("tick", Head(burst.q))
  /\ burst' = [burst EXCEPT !.q = Tail(@)]
  /\ UNCHANGED <<wa, tree, supVars, attached, rx, user, wcore, wops, wboots>>

TickNext ==
  /\ burst.pc = "feed" /\ burst.q = <<>> /\ task["tick"] = Idle
  /\ burst' = NoBurst
  /\ UNCHANGED <<wa, tree, supVars, attached, rx, task, user, wcore, wops, wboots>>

PumpReceives(s) ==
  /\ rx[s].st = "open" /\ s \notin burst.of
  /\ rx[s].q # <<>> /\ task[s] = Idle
  /\ Apply(s, Head(rx[s].q))
  /\ rx' = [rx EXCEPT ![s].q = Tail(@)]
  /\ UNCHANGED <<wa, tree, supVars, pumpVars, user, wcore, wops, wboots>>

\* Output events overran the receiver: recv returns Lagged and the task ends.
PumpLags(s) ==
  /\ rx[s].st = "open" /\ s \notin burst.of
  /\ rx[s].q # <<>> /\ task[s] = Idle
  /\ rx' = [rx EXCEPT ![s] = [st |-> "ended", q |-> <<>>]]
  /\ UNCHANGED <<wa, tree, supVars, pumpVars, task, user, wcore, wops, wboots>>

-----------------------------------------------------------------------------
(* transition_workarea, for the pump tasks and for the user.               *)

\* Exited counts only when the workarea has no live session left.
ProbeLive(c) ==
  /\ task[c].pc = "probe"
  /\ task' = [task EXCEPT ![c] = IF Live = {} THEN [@ EXCEPT !.pc = "read"] ELSE Idle]
  /\ UNCHANGED <<wa, tree, supVars, pumpVars, rx, user, wcore, wops, wboots>>

ReadStatus(c) ==
  /\ task[c].pc = "read"
  /\ IF Allowed(wa.status, task[c].on)
       THEN /\ task' = [task EXCEPT ![c].pc = "write",
                                    ![c].to = Step(wa.status, task[c].on)]
            /\ UNCHANGED user
       ELSE /\ task' = [task EXCEPT ![c] = Idle]
            /\ user' = IF c = "user" THEN UserIdle ELSE user
  /\ UNCHANGED <<wa, tree, supVars, pumpVars, rx, wcore, wops, wboots>>

WriteStatus(c) ==
  /\ task[c].pc = "write"
  /\ wa' = [wa EXCEPT !.status = task[c].to]
  /\ task' = [task EXCEPT ![c] = Idle]
  /\ user' = IF c = "user" THEN UserIdle ELSE user
  /\ UNCHANGED <<tree, supVars, pumpVars, rx, wcore, wops, wboots>>

-----------------------------------------------------------------------------
(* pause_workarea, resume_workarea, archive_workarea, restore_workarea.    *)

UserBegins(kind) ==
  /\ wcore = "up" /\ user = UserIdle /\ wops < MaxUserOps
  /\ wops' = wops + 1
  /\ user' = [UserIdle EXCEPT !.kind = kind,
                !.pc = CASE kind \in {"pause", "archive"} -> "list"
                         [] kind = "resume" -> "row"
                         [] kind = "restore" -> "tree"]
  /\ task' = IF kind = "resume" THEN [task EXCEPT !["user"] = Reading("Resume")] ELSE task
  /\ UNCHANGED <<wa, tree, supVars, pumpVars, rx, wcore, wboots>>

\* A stop that lists the sessions and stops none of them.
ListLiveLate ==
  /\ user.pc = "list"
  /\ user' = [user EXCEPT !.pc = "stop", !.listed = Live \cap mapped]
  /\ UNCHANGED <<wa, tree, supVars, pumpVars, rx, task, wcore, wops, wboots>>

\* stop_live_sessions lists the live sessions once ...
ListLive ==
  /\ user.pc = "list"
  /\ user' = [user EXCEPT !.pc = "stop", !.listed = Live \cap mapped, !.todo = Live]
  /\ UNCHANGED <<wa, tree, supVars, pumpVars, rx, task, wcore, wops, wboots>>

\* ... and stops each; one without an entry is "not running", and passed by.
StopOne(s) ==
  /\ user.pc = "stop" /\ s \in user.todo
  /\ user' = [user EXCEPT !.todo = @ \ {s}]
  /\ IF s \in mapped
       THEN /\ mapped' = mapped \ {s}
            /\ sess' = [sess EXCEPT ![s] = "ended"]
            /\ agent' = [agent EXCEPT ![s] = "none"]
            /\ Emit(s, "Exited")
       ELSE UNCHANGED <<supVars, rx>>
  /\ UNCHANGED <<wa, tree, pumpVars, task, wcore, wops, wboots>>

\* What follows when every listed session was asked to stop.
Stopped == user.pc = "stop" /\ user.todo = {}

PauseRow ==
  /\ Stopped /\ user.kind = "pause"
  /\ user' = [user EXCEPT !.pc = "row"]
  /\ task' = [task EXCEPT !["user"] = Reading("Pause")]
  /\ UNCHANGED <<wa, tree, supVars, pumpVars, rx, wcore, wops, wboots>>

\* With remove_worktree the directory goes first; the row follows in one tx
\* that does not ask the state graph.
RemoveTree ==
  /\ Stopped /\ user.kind = "archive"
  /\ tree' = FALSE
  /\ user' = [user EXCEPT !.pc = "tx"]
  /\ UNCHANGED <<wa, supVars, pumpVars, rx, task, wcore, wops, wboots>>

ArchiveRow ==
  /\ user.kind = "archive" /\ (Stopped \/ user.pc = "tx")
  /\ wa' = [status |-> "archived", archived |-> TRUE]
  /\ user' = [user EXCEPT !.pc = "archived"]
  /\ UNCHANGED <<tree, supVars, pumpVars, rx, task, wcore, wops, wboots>>

ArchiveReturns ==
  /\ user.pc = "archived"
  /\ user' = UserIdle
  /\ UNCHANGED <<wa, tree, supVars, pumpVars, rx, task, wcore, wops, wboots>>

RecreateTree(ok) ==
  /\ user.pc = "tree"
  /\ IF ok THEN tree' = TRUE /\ user' = [user EXCEPT !.pc = "tx"]
           ELSE user' = UserIdle /\ UNCHANGED tree
  /\ UNCHANGED <<wa, supVars, pumpVars, rx, task, wcore, wops, wboots>>

RestoreRow ==
  /\ user.pc = "tx" /\ user.kind = "restore"
  /\ wa' = [status |-> "active", archived |-> FALSE]
  /\ user' = UserIdle
  /\ UNCHANGED <<tree, supVars, pumpVars, rx, task, wcore, wops, wboots>>

-----------------------------------------------------------------------------
(* A crash of the Core, and what its boot does for this workarea.          *)

WaCrash(gone) ==
  /\ wcore = "up" /\ wboots < MaxWaBoots
  /\ wcore' = "sweep" /\ wboots' = wboots + 1
  /\ tree' = (tree /\ ~gone)
  /\ sess' = [s \in WaSessions |-> IF sess[s] = "checked" THEN "none" ELSE sess[s]]
  /\ mapped' = {}
  /\ replay' = [s \in WaSessions |-> <<>>]
  /\ attached' = {} /\ burst' = NoBurst
  /\ rx' = [s \in WaSessions |-> NoReceiver]
  /\ task' = [c \in Callers |-> Idle]
  /\ user' = UserIdle
  /\ UNCHANGED <<wa, agent, wops>>

\* adopt_crashed_workareas, before anything else can write the row.
AdoptCrashed ==
  /\ wcore = "sweep"
  /\ wa' = IF ~wa.archived /\ ~tree /\ Allowed(wa.status, "AdoptCrashed")
             THEN [wa EXCEPT !.status = "crashed"] ELSE wa
  /\ wcore' = "orphans"
  /\ UNCHANGED <<tree, supVars, pumpVars, rx, task, user, wops, wboots>>

\* adopt_orphans: a session whose host answers has an entry again, without a
\* Started event; the others get ended_at, without any event.
AdoptSessions(up) ==
  /\ wcore = "orphans"
  /\ up \subseteq {s \in WaSessions : sess[s] = "live" /\ agent[s] # "exited"}
  /\ mapped' = up
  /\ sess' = [s \in WaSessions |-> IF s \in Live \ up THEN "ended" ELSE sess[s]]
  /\ agent' = [s \in WaSessions |-> IF s \in up THEN agent[s] ELSE "none"]
  /\ wcore' = "up"
  /\ UNCHANGED <<wa, tree, replay, pumpVars, rx, task, user, wops, wboots>>

-----------------------------------------------------------------------------
SessionStep(s) ==
  \/ CheckWorkarea(s) \/ InsertSession(s) \/ SessionUp(s)
  \/ AgentAsks(s) \/ AgentAnswered(s) \/ EmitExited(s) \/ MarkEnded(s)

PumpStep ==
  \/ \E s \in WaSessions : \/ TickAttach(s) \/ TickSubscribe(s)
                           \/ PumpReceives(s) \/ PumpLags(s)
  \/ TickFeed \/ TickNext

FunnelStep == \E c \in Callers : ProbeLive(c) \/ ReadStatus(c) \/ WriteStatus(c)

UserStep ==
  \/ \E kind \in {"pause", "resume", "archive", "restore"} : UserBegins(kind)
  \/ ListLive \/ \E s \in WaSessions : StopOne(s)
  \/ PauseRow \/ RemoveTree \/ ArchiveRow \/ ArchiveReturns
  \/ \E ok \in BOOLEAN : RecreateTree(ok)
  \/ RestoreRow

BootWork == AdoptCrashed \/ \E up \in SUBSET WaSessions : AdoptSessions(up)

BootStep ==
  \/ \E gone \in BOOLEAN : WaCrash(gone)
  \/ BootWork

LifeNext == \/ \E s \in WaSessions : SessionStep(s)
            \/ PumpStep \/ FunnelStep \/ UserStep \/ BootStep

\* The pump's ticker is one task of the runtime, which goes on with whatever
\* it has to do next; a boot ends.  Users, agents and crashes owe nothing.
TickWork ==
  \/ \E s \in WaSessions : TickAttach(s) \/ TickSubscribe(s)
  \/ TickFeed \/ TickNext
  \/ ProbeLive("tick") \/ ReadStatus("tick") \/ WriteStatus("tick")

LifeFairness == WF_waVars(TickWork) /\ WF_waVars(BootWork)

LifeSpec == LifeInit /\ [][LifeNext]_waVars /\ LifeFairness

-----------------------------------------------------------------------------
LifeTypeOK ==
  /\ wa \in [status : WaState, archived : BOOLEAN]
  /\ tree \in BOOLEAN
  /\ sess \in [WaSessions -> {"none", "checked", "starting", "live", "ended"}]
  /\ mapped \subseteq WaSessions
  /\ agent \in [WaSessions -> {"none", "busy", "asking", "done", "exited"}]
  /\ \A s \in WaSessions : /\ replay[s] \in Seq(SessionEvent)
                           /\ rx[s].q \in Seq(SessionEvent)
                           /\ rx[s].st \in {"none", "open", "ended"}
  /\ attached \subseteq WaSessions
  /\ burst.of \subseteq attached /\ burst.q \in Seq(SessionEvent)
  /\ burst.pc \in {"idle", "cloned", "feed"}
  /\ task \in [Callers -> [pc : {"idle", "probe", "read", "write"},
                           on : WaEvent, to : WaState]]
  /\ user \in [pc : {"idle", "list", "stop", "row", "tree", "tx", "archived"},
               kind : {"pause", "resume", "archive", "restore"},
               listed : SUBSET WaSessions, todo : SUBSET WaSessions]
  /\ wcore \in {"sweep", "orphans", "up"}
  /\ wops \in 0..MaxUserOps /\ wboots \in 0..MaxWaBoots

\* When archive_workarea has written the row, no session that was live and in
\* the supervisor's map when it looked still runs (workarea.rs:2522-2550).
\* Only one that slipped in behind the list can.
ArchiveLeavesNoOldSession ==
  user.pc = "archived" => \A s \in user.listed : sess[s] = "ended" /\ s \notin mapped

\* Time and again no live session is left without a subscription, although
\* the tick may see its row before the supervisor has an entry for it
\* (workarea.rs:2785-2793).
LiveSessionIsWatched ==
  []<>(\A s \in WaSessions : sess[s] = "live" => rx[s].st # "none")

\* The exit of the last live session is not passed over: "The supervisor has
\* already stamped this session's `ended_at` before emitting `Exited`, so an
\* empty live set means the last one ended" (workarea.rs:2709-2711).
LastExitFinishes ==
  [][\A s \in WaSessions :
       task[s].pc = "probe" /\ Live \subseteq {s} => task'[s].pc \in {"probe", "read"}]_waVars
=============================================================================
