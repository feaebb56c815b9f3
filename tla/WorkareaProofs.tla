--------------------------- MODULE WorkareaProofs ---------------------------
(***************************************************************************)
(* Proofs about workareas: the sessions an archive leaves behind           *)
(* (WorkareaLife), the merge of the pull requests of one (PrSet), and what *)
(* holds of these two beside RepoManager and Supervisor (MCCore), for any  *)
(* number of sessions, members, repositories and callers.                  *)
(***************************************************************************)
EXTENDS MCCore, RepoProofs, SchedulerProofs

-----------------------------------------------------------------------------
(* The sessions of an archive.                                              *)

UserStates == [pc : {"idle", "list", "stop", "row", "tree", "tx", "archived"},
               kind : {"pause", "resume", "archive", "restore"},
               listed : SUBSET WaSessions, todo : SUBSET WaSessions]

LifeTyped ==
  /\ sess \in [WaSessions -> {"none", "checked", "starting", "live", "ended"}]
  /\ mapped \subseteq WaSessions
  /\ user \in UserStates

\* Of the sessions the user's operation listed, those it has yet to stop still
\* have their entry, and those it has stopped are ended and without one.
StopSound ==
  user.pc \in {"stop", "tx", "archived"} =>
    /\ user.listed \cap user.todo \subseteq mapped
    /\ \A s \in user.listed \ user.todo : sess[s] = "ended" /\ s \notin mapped

LifeInv ==
  /\ LifeTyped /\ StopSound
  /\ user.pc \in {"tree", "tx", "archived"} => user.todo = {}
  /\ user.pc = "tree" => user.listed = {}
  /\ wcore # "up" => user = UserIdle

\* The user's next operation starts from a typed rest.
LEMMA UserIdleTypes ==
  UserIdle \in UserStates /\ UserIdle.pc = "idle" /\ UserIdle.todo = {}
<1> QED
  BY DEF UserIdle, UserStates

\* A workarea begins with no operation of its user.
LEMMA LifeInitially == LifeInit => LifeInv
<1> SUFFICES ASSUME LifeInit PROVE LifeInv
  OBVIOUS
<1>1. user = UserIdle /\ mapped = {}
  BY DEF LifeInit
<1>2. sess \in [WaSessions -> {"none", "checked", "starting", "live", "ended"}]
  BY DEF LifeInit
<1> QED
  BY <1>1, <1>2, UserIdleTypes DEF LifeInv, LifeTyped, StopSound

\* A step that leaves the user's operation alone disturbs no session it has
\* stopped: an ended session does not come back, and only a stop or a crash
\* takes an entry out of the map.
LEMMA SessionsMove ==
  ASSUME LifeInv, UNCHANGED <<user, wcore>>,
         \/ UNCHANGED <<sess, mapped>>
         \/ \E s \in WaSessions :
              \/ sess[s] # "ended" /\ mapped' \in {mapped, mapped \cup {s}}
                   /\ \E to \in {"checked", "starting", "live"} :
                        sess' = [sess EXCEPT ![s] = to]
              \/ mapped' = mapped /\ sess' = [sess EXCEPT ![s] = "ended"]
  PROVE  LifeInv'
<1>1. CASE UNCHANGED <<sess, mapped>>
  BY <1>1 DEF LifeInv, LifeTyped, StopSound
<1>2. CASE \E s \in WaSessions :
             \/ sess[s] # "ended" /\ mapped' \in {mapped, mapped \cup {s}}
                  /\ \E to \in {"checked", "starting", "live"} :
                       sess' = [sess EXCEPT ![s] = to]
             \/ mapped' = mapped /\ sess' = [sess EXCEPT ![s] = "ended"]
  <2>1. LifeTyped'
    BY <1>2 DEF LifeInv, LifeTyped
  <2>2. mapped \subseteq mapped'
    BY <1>2
  <2>3. ASSUME NEW t \in WaSessions, sess[t] = "ended"
        PROVE  sess'[t] = "ended" /\ (t \in mapped' => t \in mapped)
    BY <1>2, <2>3 DEF LifeInv, LifeTyped
  <2>4. user.listed \subseteq WaSessions
    BY DEF LifeInv, LifeTyped, UserStates
  <2>5. StopSound'
    BY <2>2, <2>3, <2>4 DEF LifeInv, StopSound
  <2> QED
    BY <2>1, <2>5 DEF LifeInv
<1> QED
  BY <1>1, <1>2

\* The sessions' own steps.
LEMMA SessionStepKeeps ==
  ASSUME LifeInv, NEW s \in WaSessions, SessionStep(s)
  PROVE  LifeInv'
<1>1. UNCHANGED <<user, wcore>>
  BY DEF SessionStep, CheckWorkarea, InsertSession, SessionUp, AgentAsks, AgentAnswered,
         EmitExited, MarkEnded
<1>2. \/ UNCHANGED <<sess, mapped>>
      \/ sess[s] # "ended" /\ mapped' \in {mapped, mapped \cup {s}}
           /\ \E to \in {"checked", "starting", "live"} : sess' = [sess EXCEPT ![s] = to]
      \/ mapped' = mapped /\ sess' = [sess EXCEPT ![s] = "ended"]
  BY DEF SessionStep, CheckWorkarea, InsertSession, SessionUp, AgentAsks, AgentAnswered,
         EmitExited, MarkEnded
<1> QED
  BY <1>1, <1>2, SessionsMove

\* The pump's steps touch neither rows nor entries.
LEMMA PumpStepKeeps == LifeInv /\ PumpStep => LifeInv'
<1> SUFFICES ASSUME LifeInv, PumpStep PROVE LifeInv'
  OBVIOUS
<1>1. UNCHANGED <<user, wcore, sess, mapped>>
  BY DEF PumpStep, TickAttach, TickSubscribe, PumpReceives, PumpLags, TickFeed, TickNext,
         supVars
<1> QED
  BY <1>1, SessionsMove

\* The user's operation returns, or none is left after a crash.
LEMMA UserReturns ==
  ASSUME LifeInv, user' = UserIdle, LifeTyped'
  PROVE  LifeInv'
<1> QED
  BY UserIdleTypes DEF LifeInv, StopSound

\* The funnel's steps: they write the status, and let the user's call return.
LEMMA FunnelStepKeeps == LifeInv /\ FunnelStep => LifeInv'
<1> SUFFICES ASSUME LifeInv, NEW c \in Callers, ProbeLive(c) \/ ReadStatus(c) \/ WriteStatus(c)
             PROVE  LifeInv'
  BY DEF FunnelStep
<1>1. UNCHANGED <<sess, mapped, wcore>> /\ user' \in {user, UserIdle}
  BY DEF ProbeLive, ReadStatus, WriteStatus, supVars
<1>2. CASE user' = user
  BY <1>1, <1>2, SessionsMove
<1>3. CASE user' = UserIdle
  <2>1. LifeTyped'
    BY <1>1, <1>3, UserIdleTypes DEF LifeInv, LifeTyped
  <2> QED
    BY <1>3, <2>1, UserReturns
<1> QED
  BY <1>1, <1>2, <1>3

\* The fields of the user's operation after an update.
LEMMA UserFields ==
  ASSUME LifeInv
  PROVE  /\ user = [pc |-> user.pc, kind |-> user.kind, listed |-> user.listed,
                    todo |-> user.todo]
         /\ user.listed \subseteq WaSessions /\ user.todo \subseteq WaSessions
<1> QED
  BY DEF LifeInv, LifeTyped, UserStates

\* stop_live_sessions and what comes before it.
LEMMA StopStepKeeps ==
  ASSUME LifeInv,
         \/ \E kind \in {"pause", "resume", "archive", "restore"} : UserBegins(kind)
         \/ ListLive \/ \E s \in WaSessions : StopOne(s)
  PROVE  LifeInv'
<1>1. CASE \E kind \in {"pause", "resume", "archive", "restore"} : UserBegins(kind)
  <2>1. PICK kind \in {"pause", "resume", "archive", "restore"} : UserBegins(kind)
    BY <1>1
  <2>2. UNCHANGED <<sess, mapped, wcore>> /\ wcore = "up"
    BY <2>1 DEF UserBegins, supVars
  <2>3. /\ user' \in UserStates /\ user'.pc \in {"list", "row", "tree"}
        /\ user'.listed = {} /\ user'.todo = {}
    BY <2>1 DEF UserBegins, UserIdle, UserStates
  <2> QED
    BY <2>2, <2>3 DEF LifeInv, LifeTyped, StopSound
<1>2. CASE ListLive
  <2>1. UNCHANGED <<sess, mapped, wcore>> /\ user.pc = "list"
    BY <1>2 DEF ListLive, supVars
  <2>2. Live \subseteq WaSessions
    BY DEF Live
  <2>3. /\ user' \in UserStates /\ user'.pc = "stop"
        /\ user'.listed = Live \cap mapped /\ user'.todo = Live
    BY <1>2, <2>2 DEF ListLive, LifeInv, LifeTyped, UserStates
  <2>4. wcore = "up"
    BY <2>1, UserIdleTypes DEF LifeInv
  <2> QED
    BY <2>1, <2>3, <2>4 DEF LifeInv, LifeTyped, StopSound
<1>3. ASSUME NEW s \in WaSessions, StopOne(s) PROVE LifeInv'
  <2>1. wcore' = wcore /\ user.pc = "stop" /\ s \in user.todo
    BY <1>3 DEF StopOne
  <2>2. wcore = "up"
    BY <2>1, UserIdleTypes DEF LifeInv
  <2>3. /\ user' \in UserStates /\ user'.pc = "stop"
        /\ user'.listed = user.listed /\ user'.todo = user.todo \ {s}
    BY <1>3 DEF StopOne, LifeInv, LifeTyped, UserStates
  <2>4. \/ /\ s \in mapped /\ mapped' = mapped \ {s}
           /\ sess' = [sess EXCEPT ![s] = "ended"]
        \/ s \notin mapped /\ UNCHANGED <<mapped, sess>>
    BY <1>3 DEF StopOne, supVars
  <2>5. LifeTyped'
    BY <2>3, <2>4 DEF LifeInv, LifeTyped
  <2>6. user.listed \cap user'.todo \subseteq mapped'
    BY <2>1, <2>3, <2>4 DEF LifeInv, StopSound
  <2>7. ASSUME NEW t \in user.listed \ user'.todo
        PROVE  sess'[t] = "ended" /\ t \notin mapped'
    <3>1. t \in WaSessions
      BY UserFields
    <3>2. CASE t = s
      BY <2>1, <2>4, <3>1, <3>2 DEF LifeInv, LifeTyped, StopSound
    <3>3. CASE t # s
      BY <2>1, <2>3, <2>4, <3>1, <3>3 DEF LifeInv, LifeTyped, StopSound
    <3> QED
      BY <3>2, <3>3
  <2> QED
    BY <2>1, <2>2, <2>3, <2>5, <2>6, <2>7 DEF LifeInv, StopSound
<1> QED
  BY <1>1, <1>2, <1>3

\* What follows the stops.
LEMMA AfterStopKeeps ==
  ASSUME LifeInv,
         \/ PauseRow \/ RemoveTree \/ ArchiveRow \/ ArchiveReturns
         \/ \E ok \in BOOLEAN : RecreateTree(ok)
         \/ RestoreRow
  PROVE  LifeInv'
<1>1. UNCHANGED <<sess, mapped, wcore>>
  BY DEF PauseRow, RemoveTree, ArchiveRow, ArchiveReturns, RecreateTree, RestoreRow, supVars
<1>2. user.pc # "idle"
  BY DEF PauseRow, RemoveTree, ArchiveRow, ArchiveReturns, RecreateTree, RestoreRow, Stopped
<1>3. wcore = "up"
  BY <1>2, UserIdleTypes DEF LifeInv
<1>4. CASE user' = UserIdle
  <2>1. LifeTyped'
    BY <1>1, <1>4, UserIdleTypes DEF LifeInv, LifeTyped
  <2> QED
    BY <1>4, <2>1, UserReturns
<1>5. CASE PauseRow
  <2>1. user' \in UserStates /\ user'.pc = "row"
    BY <1>5 DEF PauseRow, LifeInv, LifeTyped, UserStates
  <2> QED
    BY <1>1, <1>3, <2>1 DEF LifeInv, LifeTyped, StopSound
<1>6. CASE RemoveTree \/ ArchiveRow
  <2>1. /\ user' \in UserStates /\ user'.pc \in {"tx", "archived"}
        /\ user'.listed = user.listed /\ user'.todo = user.todo
    BY <1>6 DEF RemoveTree, ArchiveRow, LifeInv, LifeTyped, UserStates
  <2>2. user.pc \in {"stop", "tx"} /\ user.todo = {}
    BY <1>6 DEF RemoveTree, ArchiveRow, Stopped, LifeInv
  <2> QED
    BY <1>1, <1>3, <2>1, <2>2 DEF LifeInv, LifeTyped, StopSound
<1>7. ASSUME NEW ok \in BOOLEAN, RecreateTree(ok), user' # UserIdle PROVE LifeInv'
  <2>1. /\ user' \in UserStates /\ user'.pc = "tx"
        /\ user'.listed = user.listed /\ user'.todo = user.todo /\ user.pc = "tree"
    BY <1>7 DEF RecreateTree, LifeInv, LifeTyped, UserStates
  <2> QED
    BY <1>1, <1>3, <2>1 DEF LifeInv, LifeTyped, StopSound
<1> QED
  BY <1>4, <1>5, <1>6, <1>7 DEF ArchiveReturns, RecreateTree, RestoreRow

\* A crash forgets the user's operation, and a boot has none.
LEMMA BootStepKeeps == LifeInv /\ BootStep => LifeInv'
<1> SUFFICES ASSUME LifeInv, BootStep PROVE LifeInv'
  OBVIOUS
<1>1. CASE \E gone \in BOOLEAN : WaCrash(gone)
  <2>1. user' = UserIdle /\ mapped' = {}
    BY <1>1 DEF WaCrash
  <2>2. sess' \in [WaSessions -> {"none", "checked", "starting", "live", "ended"}]
    BY <1>1 DEF WaCrash, LifeInv, LifeTyped
  <2> QED
    BY <2>1, <2>2, UserReturns, UserIdleTypes DEF LifeTyped
<1>2. CASE AdoptCrashed
  <2>1. UNCHANGED <<sess, mapped, user>> /\ user = UserIdle
    BY <1>2 DEF AdoptCrashed, supVars, LifeInv
  <2> QED
    BY <2>1, UserReturns DEF LifeInv, LifeTyped
<1>3. ASSUME NEW up \in SUBSET WaSessions, AdoptSessions(up) PROVE LifeInv'
  <2>1. user' = UserIdle /\ mapped' = up
    BY <1>3 DEF AdoptSessions, LifeInv
  <2>2. sess' \in [WaSessions -> {"none", "checked", "starting", "live", "ended"}]
    BY <1>3 DEF AdoptSessions, LifeInv, LifeTyped
  <2> QED
    BY <2>1, <2>2, UserReturns, UserIdleTypes DEF LifeTyped
<1> QED
  BY <1>1, <1>2, <1>3 DEF BootStep, BootWork

\* LifeInv holds in every state of a workarea.
LEMMA LifeInvariant == LifeInit /\ [][LifeNext]_waVars => []LifeInv
<1>1. LifeInv /\ [LifeNext]_waVars => LifeInv'
  <2> SUFFICES ASSUME LifeInv, [LifeNext]_waVars PROVE LifeInv'
    OBVIOUS
  <2>1. CASE UNCHANGED waVars
    BY <2>1, SessionsMove DEF waVars, supVars
  <2>2. CASE LifeNext
    BY <2>2, SessionStepKeeps, PumpStepKeeps, FunnelStepKeeps, StopStepKeeps,
       AfterStopKeeps, BootStepKeeps DEF LifeNext, UserStep
  <2> QED
    BY <2>1, <2>2
<1> QED
  BY LifeInitially, <1>1, PTL

\* When archive_workarea has written the row, every session that was live and
\* in the supervisor's map when it looked is ended and out of the map, however
\* many sessions there are and whatever starts, exits or crashes meanwhile.
THEOREM ArchiveLeavesNoOldSessionHolds == LifeSpec => []ArchiveLeavesNoOldSession
<1>1. LifeInv => ArchiveLeavesNoOldSession
  BY DEF LifeInv, StopSound, ArchiveLeavesNoOldSession
<1> QED
  BY LifeInvariant, <1>1, PTL DEF LifeSpec


Tasks == [pc : {"idle", "probe", "read", "write"}, on : WaEvent, to : WaState]

\* What LifeInv leaves out of the types: the row, what the agents do, and the
\* events on their way from them to the row.
EventsTyped ==
  /\ wa \in [status : WaState, archived : BOOLEAN] /\ tree \in BOOLEAN
  /\ agent \in [WaSessions -> {"none", "busy", "asking", "done", "exited"}]
  /\ replay \in [WaSessions -> Seq(SessionEvent)]
  /\ rx \in [WaSessions -> [st : {"none", "open", "ended"}, q : Seq(SessionEvent)]]
  /\ attached \subseteq WaSessions
  /\ burst \in [of : SUBSET WaSessions, pc : {"idle", "cloned", "feed"},
                q : Seq(SessionEvent)]
  /\ burst.of \subseteq attached
  /\ task \in [Callers -> Tasks]
  /\ wcore \in {"sweep", "orphans", "up"}
  /\ wops \in 0..MaxUserOps /\ wboots \in 0..MaxWaBoots

\* The graph leads from states to states.
LEMMA StepIsState ==
  ASSUME NEW st \in WaState, NEW on \in WaEvent, Allowed(st, on)
  PROVE  Step(st, on) \in WaState
<1>1. \A e \in Edges : e.to \in WaState
  BY DEF Edges, Fan, WaState
<1>2. PICK e \in Edges : e.from = st /\ e.on = on
  BY DEF Allowed
<1>3. (CHOOSE f \in Edges : f.from = st /\ f.on = on) \in Edges
  BY <1>2
<1> QED
  BY <1>1, <1>3 DEF Step

\* The rests and the tasks that begin are typed.
LEMMA RestsTyped ==
  /\ Idle \in Tasks
  /\ \A on \in WaEvent : Reading(on) \in Tasks /\ [Reading(on) EXCEPT !.pc = "probe"] \in Tasks
                         /\ [Reading(on) EXCEPT !.pc = "read"] \in Tasks
  /\ NoBurst \in [of : SUBSET WaSessions, pc : {"idle", "cloned", "feed"},
                  q : Seq(SessionEvent)]
  /\ NoBurst.of = {}
  /\ NoReceiver \in [st : {"none", "open", "ended"}, q : Seq(SessionEvent)]
<1> QED
  BY DEF Idle, Reading, Tasks, NoBurst, NoReceiver, WaEvent, WaState

\* An event emitted is appended where it is awaited.
LEMMA EmitTypes ==
  ASSUME EventsTyped, NEW s \in WaSessions, NEW ev \in SessionEvent, Emit(s, ev)
  PROVE  /\ replay' \in [WaSessions -> Seq(SessionEvent)]
         /\ rx' \in [WaSessions -> [st : {"none", "open", "ended"}, q : Seq(SessionEvent)]]
<1>1. Append(replay[s], ev) \in Seq(SessionEvent) /\ Append(rx[s].q, ev) \in Seq(SessionEvent)
  BY DEF EventsTyped
<1>2. replay' \in [WaSessions -> Seq(SessionEvent)]
  BY <1>1 DEF EventsTyped, Emit
<1>3. rx[s] \in [st : {"none", "open", "ended"}, q : Seq(SessionEvent)]
  BY DEF EventsTyped
<1>4. PICK r : r = [rx[s] EXCEPT !.q = Append(rx[s].q, ev)]
  OBVIOUS
<1>5. r \in [st : {"none", "open", "ended"}, q : Seq(SessionEvent)]
  BY <1>1, <1>3, <1>4
<1>6. rx' = rx \/ rx' = [rx EXCEPT ![s] = r]
  BY <1>4 DEF Emit
<1>7. rx' \in [WaSessions -> [st : {"none", "open", "ended"}, q : Seq(SessionEvent)]]
  BY <1>5, <1>6 DEF EventsTyped
<1> QED
  BY <1>2, <1>7

\* An event applied becomes a task of its caller.
LEMMA ApplyTypes ==
  ASSUME EventsTyped, NEW c \in Callers, NEW ev \in SessionEvent, Apply(c, ev)
  PROVE  task' \in [Callers -> Tasks]
<1>1. FsmEvent[ev] \in WaEvent
  BY DEF FsmEvent, SessionEvent, WaEvent
<1>2. [Reading(FsmEvent[ev]) EXCEPT !.pc = IF ev = "Exited" THEN "probe" ELSE "read"] \in Tasks
  BY <1>1, RestsTyped
<1> QED
  BY <1>2 DEF EventsTyped, Apply

\* A workarea begins typed.
LEMMA EventsInitially == LifeInit => EventsTyped
<1> SUFFICES ASSUME LifeInit PROVE EventsTyped
  OBVIOUS
<1>1. wa \in [status : WaState, archived : BOOLEAN]
  BY DEF LifeInit, WaState
<1>2. 0 \in 0..MaxUserOps /\ 0 \in 0..MaxWaBoots
  BY WaBoundsAssumption
<1> QED
  BY <1>1, <1>2, RestsTyped DEF LifeInit, EventsTyped

\* The sessions' own steps keep the types of their events.
LEMMA SessionStepTypes ==
  ASSUME LifeInv, EventsTyped, NEW s \in WaSessions, SessionStep(s)
  PROVE  EventsTyped'
<1>1. UNCHANGED <<wa, tree, attached, burst, task, wcore, wops, wboots>>
  BY DEF SessionStep, CheckWorkarea, InsertSession, SessionUp, AgentAsks, AgentAnswered,
         EmitExited, MarkEnded, pumpVars
<1>2. agent' \in [WaSessions -> {"none", "busy", "asking", "done", "exited"}]
  BY ZenonT(40) DEF EventsTyped, SessionStep, CheckWorkarea, InsertSession, SessionUp, AgentAsks,
         AgentAnswered, EmitExited, MarkEnded
<1>3. UNCHANGED <<replay, rx>> \/ \E ev \in SessionEvent : Emit(s, ev)
  BY DEF SessionStep, CheckWorkarea, InsertSession, SessionUp, AgentAsks, AgentAnswered,
         EmitExited, MarkEnded, SessionEvent
<1>4. /\ replay' \in [WaSessions -> Seq(SessionEvent)]
      /\ rx' \in [WaSessions -> [st : {"none", "open", "ended"}, q : Seq(SessionEvent)]]
  <2>1. CASE UNCHANGED <<replay, rx>>
    BY <2>1 DEF EventsTyped
  <2>2. CASE \E ev \in SessionEvent : Emit(s, ev)
    BY <2>2, EmitTypes
  <2> QED
    BY <1>3, <2>1, <2>2
<1> QED
  BY <1>1, <1>2, <1>4 DEF EventsTyped

\* So do the tick and the pump tasks.
LEMMA PumpStepTypes == EventsTyped /\ PumpStep => EventsTyped'
<1> SUFFICES ASSUME EventsTyped, PumpStep PROVE EventsTyped'
  OBVIOUS
<1>0. UNCHANGED <<wa, tree, agent, wcore, wops, wboots>>
  BY DEF PumpStep, TickAttach, TickSubscribe, PumpReceives, PumpLags, TickFeed, TickNext,
         supVars
<1>1. ASSUME NEW s \in WaSessions, TickAttach(s) PROVE EventsTyped'
  <2>1. /\ attached' = attached \cup {s} /\ UNCHANGED <<rx, task>>
        /\ burst' = [of |-> {s}, pc |-> "cloned", q |-> replay[s]]
        /\ replay' = [replay EXCEPT ![s] = << >>]
    BY <1>1 DEF TickAttach
  <2>2. << >> \in Seq(SessionEvent) /\ replay[s] \in Seq(SessionEvent)
    BY DEF EventsTyped
  <2>3. burst' \in [of : SUBSET WaSessions, pc : {"idle", "cloned", "feed"},
                    q : Seq(SessionEvent)]
    BY <2>1, <2>2
  <2>4. replay' \in [WaSessions -> Seq(SessionEvent)]
    BY <2>1, <2>2 DEF EventsTyped
  <2> QED
    BY <1>0, <2>1, <2>3, <2>4 DEF EventsTyped
<1>2. ASSUME NEW s \in WaSessions, TickSubscribe(s) PROVE EventsTyped'
  <2>1. /\ burst' = [burst EXCEPT !.pc = "feed"] /\ UNCHANGED <<replay, attached, task>>
        /\ rx' = [rx EXCEPT ![s] = [st |-> "open", q |-> << >>]]
    BY <1>2 DEF TickSubscribe, supVars
  <2>2. [st |-> "open", q |-> << >>] \in [st : {"none", "open", "ended"}, q : Seq(SessionEvent)]
    OBVIOUS
  <2>3. /\ burst' \in [of : SUBSET WaSessions, pc : {"idle", "cloned", "feed"},
                       q : Seq(SessionEvent)]
        /\ burst'.of = burst.of
    BY <2>1 DEF EventsTyped
  <2> QED
    BY <1>0, <2>1, <2>2, <2>3 DEF EventsTyped
<1>3. ASSUME TickFeed PROVE EventsTyped'
  <2>1. burst.q \in Seq(SessionEvent) /\ burst.q # << >>
    BY <1>3 DEF TickFeed, EventsTyped
  <2>2. Head(burst.q) \in SessionEvent /\ Tail(burst.q) \in Seq(SessionEvent)
    BY <2>1
  <2>3. task' \in [Callers -> Tasks]
    BY <1>3, <2>2, ApplyTypes DEF TickFeed, Callers
  <2>4. burst' = [burst EXCEPT !.q = Tail(burst.q)] /\ UNCHANGED <<replay, rx, attached>>
    BY <1>3 DEF TickFeed, supVars
  <2>5. /\ burst' \in [of : SUBSET WaSessions, pc : {"idle", "cloned", "feed"},
                       q : Seq(SessionEvent)]
        /\ burst'.of = burst.of
    BY <2>2, <2>4 DEF EventsTyped
  <2> QED
    BY <1>0, <2>3, <2>4, <2>5 DEF EventsTyped
<1>4. ASSUME TickNext PROVE EventsTyped'
  BY <1>0, <1>4, RestsTyped DEF TickNext, supVars, EventsTyped
<1>5. ASSUME NEW s \in WaSessions, PumpReceives(s) \/ PumpLags(s) PROVE EventsTyped'
  <2>1. rx[s].q \in Seq(SessionEvent) /\ rx[s].q # << >>
    BY <1>5 DEF PumpReceives, PumpLags, EventsTyped
  <2>2. Head(rx[s].q) \in SessionEvent /\ Tail(rx[s].q) \in Seq(SessionEvent)
    BY <2>1
  <2>3. task' \in [Callers -> Tasks]
    BY <1>5, <2>2, ApplyTypes DEF PumpReceives, PumpLags, Callers, EventsTyped
  <2>4. UNCHANGED <<replay, attached, burst>>
    BY <1>5 DEF PumpReceives, PumpLags, supVars, pumpVars
  <2>5. PICK r \in [st : {"none", "open", "ended"}, q : Seq(SessionEvent)] :
          rx' = [rx EXCEPT ![s] = r]
    <3>1. rx[s] \in [st : {"none", "open", "ended"}, q : Seq(SessionEvent)]
      BY DEF EventsTyped
    <3>2. [rx[s] EXCEPT !.q = Tail(rx[s].q)]
            \in [st : {"none", "open", "ended"}, q : Seq(SessionEvent)]
      BY <2>2, <3>1
    <3>3. [st |-> "ended", q |-> << >>]
            \in [st : {"none", "open", "ended"}, q : Seq(SessionEvent)]
      OBVIOUS
    <3>4. \/ rx' = [rx EXCEPT ![s] = [rx[s] EXCEPT !.q = Tail(rx[s].q)]]
          \/ rx' = [rx EXCEPT ![s] = [st |-> "ended", q |-> << >>]]
      BY <1>5 DEF PumpReceives, PumpLags
    <3> QED
      BY <3>2, <3>3, <3>4
  <2>6. rx' \in [WaSessions -> [st : {"none", "open", "ended"}, q : Seq(SessionEvent)]]
    BY <2>5 DEF EventsTyped
  <2> QED
    BY <1>0, <2>3, <2>4, <2>6 DEF EventsTyped
<1> QED
  BY <1>1, <1>2, <1>3, <1>4, <1>5 DEF PumpStep

\* The funnel writes states of the graph.
LEMMA FunnelStepTypes == EventsTyped /\ FunnelStep => EventsTyped'
<1> SUFFICES ASSUME EventsTyped, NEW c \in Callers, ProbeLive(c) \/ ReadStatus(c) \/ WriteStatus(c)
             PROVE  EventsTyped'
  BY DEF FunnelStep
<1>0. UNCHANGED <<tree, agent, replay, attached, burst, rx, wcore, wops, wboots>>
  BY DEF ProbeLive, ReadStatus, WriteStatus, supVars, pumpVars
<1>1. /\ task[c] \in Tasks /\ task[c].on \in WaEvent /\ task[c].to \in WaState
      /\ wa.status \in WaState
  BY DEF EventsTyped, Tasks
<1>2. CASE ProbeLive(c)
  <2>1. wa' = wa /\ task' \in {[task EXCEPT ![c] = [task[c] EXCEPT !.pc = "read"]],
                               [task EXCEPT ![c] = Idle]}
    BY <1>2 DEF ProbeLive
  <2>2. [task[c] EXCEPT !.pc = "read"] \in Tasks
    BY <1>1 DEF Tasks
  <2>3. task' \in [Callers -> Tasks]
    BY <2>1, <2>2, RestsTyped DEF EventsTyped
  <2> QED
    BY <1>0, <2>1, <2>3 DEF EventsTyped
<1>3. CASE ReadStatus(c)
  <2>1. CASE Allowed(wa.status, task[c].on)
    <3>1. PICK x : x = Step(wa.status, task[c].on)
      OBVIOUS
    <3>2. x \in WaState
      BY <1>1, <2>1, <3>1, StepIsState
    <3>3. wa' = wa /\ task' = [task EXCEPT ![c].pc = "write", ![c].to = x]
      BY <1>3, <2>1, <3>1 DEF ReadStatus
    <3>4. task' \in [Callers -> Tasks]
      BY <1>1, <3>2, <3>3 DEF EventsTyped, Tasks
    <3> QED
      BY <1>0, <3>3, <3>4 DEF EventsTyped
  <2>2. CASE ~Allowed(wa.status, task[c].on)
    <3>1. wa' = wa /\ task' = [task EXCEPT ![c] = Idle]
      BY <1>3, <2>2 DEF ReadStatus
    <3> QED
      BY <1>0, <3>1, RestsTyped DEF EventsTyped
  <2> QED
    BY <2>1, <2>2
<1>4. CASE WriteStatus(c)
  <2>1. wa' = [wa EXCEPT !.status = task[c].to] /\ task' = [task EXCEPT ![c] = Idle]
    BY <1>4 DEF WriteStatus
  <2>2. wa' \in [status : WaState, archived : BOOLEAN]
    BY <1>1, <2>1 DEF EventsTyped
  <2> QED
    BY <1>0, <2>1, <2>2, RestsTyped DEF EventsTyped
<1> QED
  BY <1>2, <1>3, <1>4

\* The user's operations count, and end in 'archived' or 'active'.
LEMMA UserStepTypes == LifeInv /\ EventsTyped /\ UserStep => EventsTyped'
<1> SUFFICES ASSUME LifeInv, EventsTyped, UserStep PROVE EventsTyped'
  OBVIOUS
<1>1. UNCHANGED <<attached, burst, wcore, wboots>>
  BY DEF UserStep, UserBegins, ListLive, StopOne, PauseRow, RemoveTree, ArchiveRow,
         ArchiveReturns, RecreateTree, RestoreRow, pumpVars
<1>2. wops' \in 0..MaxUserOps
  <2>1. wops' = wops \/ (wops < MaxUserOps /\ wops' = wops + 1)
    BY DEF UserStep, UserBegins, ListLive, StopOne, PauseRow, RemoveTree, ArchiveRow,
           ArchiveReturns, RecreateTree, RestoreRow
  <2> QED
    BY <2>1, WaBoundsAssumption DEF EventsTyped
<1>3. task' \in [Callers -> Tasks]
  <2>1. \/ task' = task
        \/ task' = [task EXCEPT !["user"] = Reading("Resume")]
        \/ task' = [task EXCEPT !["user"] = Reading("Pause")]
    BY DEF UserStep, UserBegins, ListLive, StopOne, PauseRow, RemoveTree, ArchiveRow,
           ArchiveReturns, RecreateTree, RestoreRow
  <2>2. Reading("Resume") \in Tasks /\ Reading("Pause") \in Tasks
    BY RestsTyped DEF WaEvent
  <2> QED
    BY <2>1, <2>2 DEF EventsTyped
<1>4. wa' \in [status : WaState, archived : BOOLEAN] /\ tree' \in BOOLEAN
  <2>1. /\ wa' \in {wa, [status |-> "archived", archived |-> TRUE],
                    [status |-> "active", archived |-> FALSE]}
        /\ tree' \in {tree, TRUE, FALSE}
    BY DEF UserStep, UserBegins, ListLive, StopOne, PauseRow, RemoveTree, ArchiveRow,
           ArchiveReturns, RecreateTree, RestoreRow
  <2>2. /\ [status |-> "archived", archived |-> TRUE] \in [status : WaState, archived : BOOLEAN]
        /\ [status |-> "active", archived |-> FALSE] \in [status : WaState, archived : BOOLEAN]
    BY DEF WaState
  <2> QED
    BY <2>1, <2>2 DEF EventsTyped
<1>5. /\ agent' \in [WaSessions -> {"none", "busy", "asking", "done", "exited"}]
      /\ replay' \in [WaSessions -> Seq(SessionEvent)]
      /\ rx' \in [WaSessions -> [st : {"none", "open", "ended"}, q : Seq(SessionEvent)]]
  <2>1. CASE UNCHANGED <<agent, replay, rx>>
    BY <2>1 DEF EventsTyped
  <2>2. ASSUME NEW s \in WaSessions, StopOne(s), ~UNCHANGED <<agent, replay, rx>>
        PROVE  /\ agent' \in [WaSessions -> {"none", "busy", "asking", "done", "exited"}]
               /\ Emit(s, "Exited")
    BY <2>2 DEF StopOne, supVars, EventsTyped
  <2>3. UNCHANGED <<agent, replay, rx>> \/ \E s \in WaSessions : StopOne(s)
    BY DEF UserStep, UserBegins, ListLive, PauseRow, RemoveTree, ArchiveRow,
           ArchiveReturns, RecreateTree, RestoreRow, supVars
  <2> QED
    BY <2>1, <2>2, <2>3, EmitTypes DEF SessionEvent
<1> QED
  BY <1>1, <1>2, <1>3, <1>4, <1>5 DEF EventsTyped

\* A crash empties what the Core had in memory.
LEMMA BootStepTypes == EventsTyped /\ BootStep => EventsTyped'
<1> SUFFICES ASSUME EventsTyped, BootStep PROVE EventsTyped'
  OBVIOUS
<1>1. ASSUME NEW gone \in BOOLEAN, WaCrash(gone) PROVE EventsTyped'
  <2>1. wboots' \in 0..MaxWaBoots
    BY <1>1, WaBoundsAssumption DEF WaCrash, EventsTyped
  <2>2. /\ replay' \in [WaSessions -> Seq(SessionEvent)]
        /\ rx' \in [WaSessions -> [st : {"none", "open", "ended"}, q : Seq(SessionEvent)]]
        /\ task' \in [Callers -> Tasks]
    BY <1>1, RestsTyped DEF WaCrash
  <2> QED
    BY <1>1, <2>1, <2>2, RestsTyped DEF WaCrash, EventsTyped
<1>2. CASE AdoptCrashed
  <2>1. wa' \in {wa, [wa EXCEPT !.status = "crashed"]}
    BY <1>2 DEF AdoptCrashed
  <2>2. wa' \in [status : WaState, archived : BOOLEAN]
    BY <2>1 DEF EventsTyped, WaState
  <2> QED
    BY <1>2, <2>2 DEF AdoptCrashed, EventsTyped, supVars, pumpVars
<1>3. ASSUME NEW up \in SUBSET WaSessions, AdoptSessions(up) PROVE EventsTyped'
  <2>1. agent' \in [WaSessions -> {"none", "busy", "asking", "done", "exited"}]
    BY <1>3 DEF AdoptSessions, EventsTyped
  <2> QED
    BY <1>3, <2>1 DEF AdoptSessions, EventsTyped, pumpVars
<1> QED
  BY <1>1, <1>2, <1>3 DEF BootStep, BootWork

\* What the types of the life cycle rest on, without its fairness.
LEMMA LifeTypesInvariant == LifeInit /\ [][LifeNext]_waVars => []LifeTypeOK
<1>1. LifeInv /\ EventsTyped /\ [LifeNext]_waVars => EventsTyped'
  <2> SUFFICES ASSUME LifeInv, EventsTyped, [LifeNext]_waVars PROVE EventsTyped'
    OBVIOUS
  <2>1. CASE UNCHANGED waVars
    BY <2>1 DEF waVars, supVars, pumpVars, EventsTyped
  <2> QED
    BY <2>1, SessionStepTypes, PumpStepTypes, FunnelStepTypes, UserStepTypes, BootStepTypes
       DEF LifeNext
<1>2. LifeInv /\ EventsTyped => LifeTypeOK
  BY DEF LifeInv, LifeTyped, UserStates, EventsTyped, LifeTypeOK, Tasks
<1> QED
  BY LifeInvariant, EventsInitially, <1>1, <1>2, PTL

\* Row, sessions, watchers and calls in flight keep their types, the status is
\* always one of fsm.rs, and the tick feeds only sessions it has taken on.
THEOREM LifeTypesHold == LifeSpec => []LifeTypeOK
BY LifeTypesInvariant, PTL DEF LifeSpec

-----------------------------------------------------------------------------
(* The order of a set of pull requests.                                     *)

PrStates == {"none", "open", "merged", "reverted"}

MergeStates == [pc : {"idle", "merge", "poll", "sleep", "mark", "done"},
                plan : Seq(PrRepos), at : Nat, late : BOOLEAN, anyway : BOOLEAN,
                result : {"none", "merged", "paused", "error"}]

PrTyped ==
  /\ prRow \in [PrRepos -> [state : PrStates, order : Nat]]
  /\ remote \in [PrRepos -> PrStates]
  /\ checks \in [PrRepos -> {"none", "pending", "green", "red"}] /\ green \subseteq PrRepos
  /\ merge \in [MergeCalls -> MergeStates]
  /\ revert \in [pc : {"idle", "walk"}, left : Seq([repo : PrRepos, state : PrStates])]
  /\ reread.pc = "seen" => reread.repo \in PrRepos
  /\ reread.seen \in {"none", "open", "merged"}
  /\ tracker \subseteq PrRepos /\ anywayAllowed \in BOOLEAN

\* A finite set of naturals that is not empty has a greatest element: of the
\* sizes of sets without one there would be a least, and one element less
\* would do.
LEMMA GreatestExists ==
  ASSUME NEW T \in SUBSET Nat, IsFiniteSet(T), T # {}
  PROVE  \E x \in T : \A y \in T : x >= y
<1> DEFINE Topped(U) == \E x \in U : \A y \in U : x >= y
           Bad == {n \in Nat : \E U \in SUBSET Nat : /\ IsFiniteSet(U) /\ U # {}
                                                     /\ Cardinality(U) = n /\ ~Topped(U)}
<1> SUFFICES ASSUME ~Topped(T) PROVE FALSE
  OBVIOUS
<1>1. Cardinality(T) \in Bad
  BY FS_CardinalityType
<1>2. PICK n \in Bad : \A m \in Bad : n <= m
  BY <1>1, LeastExists
<1>3. PICK U \in SUBSET Nat : IsFiniteSet(U) /\ U # {} /\ Cardinality(U) = n /\ ~Topped(U)
  BY <1>2
<1>4. PICK x \in U : TRUE
  BY <1>3
<1>5. IsFiniteSet(U \ {x}) /\ Cardinality(U \ {x}) = n - 1
  BY <1>3, <1>4, FS_RemoveElement
<1>6. U \ {x} # {}
  <2>1. U \ {x} = {} => Topped(U)
    BY <1>4
  <2> QED
    BY <2>1, <1>3
<1>7. Topped(U \ {x})
  <2>1. n - 1 \in Nat
    BY <1>5, FS_CardinalityType
  <2>2. ~(n - 1 \in Bad)
    BY <1>2, <2>1
  <2> QED
    BY <1>5, <1>6, <2>1, <2>2
<1>8. Topped(U)
  <2>1. PICK y \in U \ {x} : \A z \in U \ {x} : y >= z
    BY <1>7
  <2>2. CASE x >= y
    BY <1>4, <2>1, <2>2
  <2>3. CASE ~(x >= y)
    BY <1>4, <2>1, <2>3
  <2> QED
    BY <2>2, <2>3
<1> QED
  BY <1>3, <1>8

\* The rows of a workarea are a finite set.
LEMMA CachedFinite == PrTyped => Cached \subseteq PrRepos /\ IsFiniteSet(Cached)
<1> QED
  BY PrAssumption, FS_Subset DEF Cached

\* MAX(merge_order) + 1 is a number.
LEMMA NextOrderType == PrTyped => NextMergeOrder \in Nat
<1> SUFFICES ASSUME PrTyped PROVE NextMergeOrder \in Nat
  OBVIOUS
<1> DEFINE orders == {prRow[r].order : r \in Cached}
<1>1. orders \in SUBSET Nat
  BY CachedFinite DEF PrTyped
<1>2. IsFiniteSet(orders)
  <2> DEFINE f == [r \in Cached |-> prRow[r].order]
  <2>1. f \in Surjection(Cached, orders)
    BY DEF Surjection
  <2> QED
    BY <2>1, CachedFinite, FS_Surjection
<1>3. ASSUME orders # {} PROVE Max(orders) \in Nat
  BY <1>1, <1>2, <1>3, GreatestExists DEF Max
<1> QED
  BY <1>3 DEF NextMergeOrder

\* Who comes before a row in list_by_workarea.
Ahead(r) == {q \in Cached : Before(q, r)}

\* Of two rows one comes first, and it has fewer rows before it.
LEMMA AheadGrows ==
  ASSUME PrTyped, NEW a \in Cached, NEW b \in Cached, Before(a, b)
  PROVE  Cardinality(Ahead(a)) < Cardinality(Ahead(b))
<1>1. /\ \A q \in Cached : q \in Nat /\ prRow[q].order \in Nat
      /\ IsFiniteSet(Cached)
  BY CachedFinite, PrAssumption DEF PrTyped
<1>2. IsFiniteSet(Ahead(b))
  BY <1>1, FS_Subset DEF Ahead
<1>3. Ahead(a) \in SUBSET Ahead(b)
  BY <1>1 DEF Ahead, Before
<1>4. a \in Ahead(b) /\ a \notin Ahead(a)
  BY <1>1 DEF Ahead, Before
<1>5. IsFiniteSet(Ahead(a)) /\ Cardinality(Ahead(a)) <= Cardinality(Ahead(b))
      /\ Cardinality(Ahead(a)) # Cardinality(Ahead(b))
  BY <1>2, <1>3, <1>4, FS_Subset
<1>6. Cardinality(Ahead(a)) \in Nat /\ Cardinality(Ahead(b)) \in Nat
  BY <1>2, <1>5, FS_CardinalityType
<1> QED
  BY <1>5, <1>6

\* list_by_workarea gives every place of the list to one of the rows.
LEMMA EveryPlaceTaken ==
  ASSUME PrTyped, NEW i \in 1..Cardinality(Cached)
  PROVE  \E r \in Cached : Cardinality(Ahead(r)) = i - 1
<1> DEFINE n == Cardinality(Cached)
           rank == [r \in Cached |-> Cardinality(Ahead(r)) + 1]
<1>1. IsFiniteSet(Cached) /\ n \in Nat
  BY CachedFinite, FS_CardinalityType
<1>2. ASSUME NEW r \in Cached PROVE rank[r] \in 1..n
  <2>1. Ahead(r) \in SUBSET Cached /\ r \notin Ahead(r)
    <3>1. r \in Nat /\ prRow[r].order \in Nat
      BY CachedFinite, PrAssumption DEF PrTyped
    <3> QED
      BY <3>1 DEF Ahead, Before
  <2>2. IsFiniteSet(Ahead(r)) /\ Cardinality(Ahead(r)) <= n /\ Cardinality(Ahead(r)) # n
    BY <1>1, <2>1, FS_Subset
  <2>3. Cardinality(Ahead(r)) \in Nat
    BY <2>2, FS_CardinalityType
  <2> QED
    BY <1>1, <2>2, <2>3
<1>3. ASSUME NEW a \in Cached, NEW b \in Cached, a # b PROVE rank[a] # rank[b]
  <2>0. /\ prRow[a].order \in Nat /\ prRow[b].order \in Nat
        /\ a \in Nat /\ b \in Nat
    BY CachedFinite, PrAssumption DEF PrTyped
  <2>1. Before(a, b) \/ Before(b, a)
    BY <1>3, <2>0 DEF Before
  <2>2. Cardinality(Ahead(a)) < Cardinality(Ahead(b))
          \/ Cardinality(Ahead(b)) < Cardinality(Ahead(a))
    BY <2>1, AheadGrows
  <2>3. rank[a] \in Nat /\ rank[b] \in Nat
        /\ rank[a] = Cardinality(Ahead(a)) + 1 /\ rank[b] = Cardinality(Ahead(b)) + 1
    BY <1>2
  <2>4. IsFiniteSet(Ahead(a)) /\ IsFiniteSet(Ahead(b))
    BY <1>1, FS_Subset DEF Ahead
  <2>5. Cardinality(Ahead(a)) \in Nat /\ Cardinality(Ahead(b)) \in Nat
    BY <2>4, FS_CardinalityType
  <2> HIDE DEF rank
  <2> QED
    BY <2>2, <2>3, <2>5
<1>4. rank \in Injection(Cached, 1..n)
  BY <1>2, <1>3 DEF Injection, IsInjective
<1>5. IsFiniteSet(1..n) /\ Cardinality(1..n) = n
  BY <1>1, FS_Interval
<1>6. rank \in Surjection(Cached, 1..n)
  BY <1>4, <1>5, FS_Injection
<1>7. PICK r \in Cached : rank[r] = i
  BY <1>6 DEF Surjection
<1>8. Cardinality(Ahead(r)) \in Nat
  BY <1>1, FS_Subset, FS_CardinalityType DEF Ahead
<1>9. Cardinality(Ahead(r)) + 1 = i
  BY <1>7
<1> QED
  BY <1>8, <1>9

\* The plan of a merge is a sequence of the workarea's repositories.
LEMMA OrderedType == PrTyped => Ordered \in Seq(PrRepos)
<1> SUFFICES ASSUME PrTyped PROVE Ordered \in Seq(PrRepos)
  OBVIOUS
<1>1. Cardinality(Cached) \in Nat
  BY CachedFinite, FS_CardinalityType
<1>2. ASSUME NEW i \in 1..Cardinality(Cached) PROVE Ordered[i] \in PrRepos
  <2>1. Ordered[i] = CHOOSE r \in Cached : Cardinality(Ahead(r)) = i - 1
    BY DEF Ordered, Ahead
  <2> QED
    BY <2>1, EveryPlaceTaken, CachedFinite
<1>3. Ordered = [i \in 1..Cardinality(Cached) |-> Ordered[i]]
  BY SMTT(30) DEF Ordered
<1> HIDE DEF Ordered
<1> QED
  BY <1>1, <1>2, <1>3

-----------------------------------------------------------------------------
(* The coordinated merge.                                                   *)

\* GitHub's side never goes back on a merge, and what has been green has been.
Settled(r) == remote[r] \in {"merged", "reverted"}
Green(c, r) == r \in green \/ merge[c].anyway

\* Where a merge is in its plan, and what holds of the members behind it.
MergeOK(c) ==
  LET m == merge[c]
  IN  /\ m.at \in 1..(Len(m.plan) + 1)
      /\ m.pc \in {"merge", "poll", "sleep", "mark"} => m.at # Len(m.plan) + 1
      /\ m.pc = "done" => m.at = Len(m.plan) + 1
      /\ m.anyway => anywayAllowed
      /\ m.pc \in {"poll", "sleep", "mark"} => Settled(m.plan[m.at])
      /\ m.pc = "mark" => Green(c, m.plan[m.at])
      /\ \A i \in 1..(m.at - 1) : Settled(m.plan[i]) /\ Green(c, m.plan[i])

PrInv ==
  /\ PrTyped
  /\ \A c \in MergeCalls : MergeOK(c)
  /\ \A r \in PrRepos : checks[r] = "green" => r \in green
  /\ \A r \in tracker : r \in green \/ anywayAllowed

\* A workarea begins without pull requests.
LEMMA PrInitially == PrInit => PrInv
<1> SUFFICES ASSUME PrInit PROVE PrInv
  OBVIOUS
<1>1. PrTyped
  <2>1. NoMerge \in MergeStates
    BY DEF NoMerge, MergeStates
  <2>2. NoPr \in [state : PrStates, order : Nat]
    BY DEF NoPr, PrStates
  <2>3. NoRevert \in [pc : {"idle", "walk"}, left : Seq([repo : PrRepos, state : PrStates])]
    BY DEF NoRevert
  <2> QED
    BY <2>1, <2>2, <2>3 DEF PrInit, PrTyped, PrStates, NoReread
<1>2. ASSUME NEW c \in MergeCalls PROVE MergeOK(c)
  BY DEF PrInit, MergeOK, NoMerge
<1> QED
  BY <1>1, <1>2 DEF PrInv, PrInit

\* Types are kept by the rows' own steps.
LEMMA RowStepTypes == PrTyped /\ RowStep => PrTyped'
<1> SUFFICES ASSUME PrTyped, RowStep PROVE PrTyped'
  OBVIOUS
<1>1. ASSUME NEW r \in PrRepos, CreatePr(r) \/ ViewPr(r) PROVE PrTyped'
  BY <1>1 DEF CreatePr, ViewPr, PrTyped, PrStates, prTables, checkVars
<1>2. ASSUME NEW r \in PrRepos, NEW n \in PrRepos, SetMergeOrder(r, n) PROVE PrTyped'
  <2>1. prRow' \in [PrRepos -> [state : PrStates, order : Nat]]
    BY <1>2, PrAssumption DEF SetMergeOrder, PrTyped
  <2> QED
    BY <1>2, <2>1 DEF SetMergeOrder, PrTyped, checkVars
<1>3. CASE UpsertPr
  <2> DEFINE r == reread.repo
             row == [state |-> reread.seen,
                     order |-> IF prRow[r].state = "none" THEN NextMergeOrder
                               ELSE prRow[r].order]
  <2>1. r \in PrRepos
    BY <1>3 DEF UpsertPr, PrTyped
  <2>2. row \in [state : PrStates, order : Nat]
    BY <2>1, NextOrderType DEF PrTyped, PrStates
  <2>3. prRow' = [prRow EXCEPT ![r] = row]
    BY <1>3 DEF UpsertPr
  <2> HIDE DEF row
  <2>4. prRow' \in [PrRepos -> [state : PrStates, order : Nat]]
    BY <2>2, <2>3 DEF PrTyped
  <2> QED
    BY <1>3, <2>4 DEF UpsertPr, PrTyped, NoReread, checkVars
<1> QED
  BY <1>1, <1>2, <1>3 DEF RowStep

\* mark_pr_merged and its counterpart write the state and nothing else.
LEMMA RowStateTypes ==
  ASSUME PrTyped, NEW q, NEW x \in PrStates
  PROVE  [prRow EXCEPT ![q].state = x] \in [PrRepos -> [state : PrStates, order : Nat]]
<1>1. CASE q \in PrRepos
  <2>1. prRow[q] \in [state : PrStates, order : Nat]
    BY <1>1 DEF PrTyped
  <2>2. [prRow[q] EXCEPT !.state = x] \in [state : PrStates, order : Nat]
    BY <2>1
  <2>3. [prRow EXCEPT ![q].state = x] = [prRow EXCEPT ![q] = [prRow[q] EXCEPT !.state = x]]
    OBVIOUS
  <2> QED
    BY <2>2, <2>3 DEF PrTyped
<1>2. CASE q \notin PrRepos
  <2>1. [prRow EXCEPT ![q].state = x] = prRow
    BY <1>2 DEF PrTyped
  <2> QED
    BY <2>1 DEF PrTyped
<1> QED
  BY <1>1, <1>2

\* A report of runs is of one PR's.
LEMMA ReportedTypes ==
  ASSUME PrTyped, NEW q \in PrRepos, NEW to \in {"none", "pending", "green", "red"},
         Reported(q, to)
  PROVE  /\ checks' \in [PrRepos -> {"none", "pending", "green", "red"}]
         /\ green' \subseteq PrRepos
BY DEF Reported, PrTyped

\* Types are kept by a merge.
LEMMA MergeTypes ==
  ASSUME PrTyped, NEW c \in MergeCalls, MergeOK(c),
         (\E anyway \in BOOLEAN : BeginMerge(c, anyway)) \/ MergeStep(c) \/ Deadline(c)
  PROVE  PrTyped' /\ merge' = [merge EXCEPT ![c] = merge'[c]]
<1>1. merge[c] \in MergeStates
  BY DEF PrTyped
<1>2. ASSUME NEW s \in MergeStates, merge' = [merge EXCEPT ![c] = s],
             prRow' \in [PrRepos -> [state : PrStates, order : Nat]],
             remote' \in [PrRepos -> PrStates], tracker' \subseteq PrRepos,
             checks' \in [PrRepos -> {"none", "pending", "green", "red"}],
             green' \subseteq PrRepos, UNCHANGED <<revert, reread, anywayAllowed>>
      PROVE  PrTyped' /\ merge' = [merge EXCEPT ![c] = merge'[c]]
  <2>1. merge' \in [MergeCalls -> MergeStates] /\ merge'[c] = s
    BY <1>2 DEF PrTyped
  <2> QED
    BY <1>2, <2>1 DEF PrTyped
<1>3. ASSUME NEW anyway \in BOOLEAN, BeginMerge(c, anyway)
      PROVE  PrTyped' /\ merge' = [merge EXCEPT ![c] = merge'[c]]
  <2>0. NoMerge \in MergeStates
    BY DEF NoMerge, MergeStates
  <2>1. [NoMerge EXCEPT !.result = "merged"] \in MergeStates
    BY <2>0 DEF MergeStates
  <2>2. [NoMerge EXCEPT !.pc = "merge", !.plan = Ordered, !.anyway = anyway] \in MergeStates
    BY <2>0, OrderedType DEF MergeStates
  <2> QED
    BY <1>2, <1>3, <2>1, <2>2 DEF BeginMerge, PrTyped, prTables, checkVars
<1>4. CASE MergePr(c)
  <2>1. [merge[c] EXCEPT !.pc = "poll", !.late = FALSE] \in MergeStates
    BY <1>1 DEF MergeStates
  <2>2. merge' = [merge EXCEPT ![c] = [merge[c] EXCEPT !.pc = "poll", !.late = FALSE]]
    BY <1>4 DEF MergePr
  <2>3. remote' \in [PrRepos -> PrStates]
    BY <1>4 DEF MergePr, PrTyped, PrStates
  <2>4. checks' \in [PrRepos -> {"none", "pending", "green", "red"}] /\ green' \subseteq PrRepos
    <3>1. PICK to \in {"none", "pending", "green", "red"} : Reported(Member(c), to)
      BY <1>4 DEF MergePr
    <3>2. merge[c].plan \in Seq(PrRepos) /\ merge[c].at \in 1..Len(merge[c].plan)
      BY <1>1, <1>4 DEF MergePr, MergeOK, MergeStates
    <3>3. Member(c) \in PrRepos
      BY <3>2 DEF Member
    <3>4. \A q \in PrRepos : Reported(q, to) =>
            /\ checks' \in [PrRepos -> {"none", "pending", "green", "red"}]
            /\ green' \subseteq PrRepos
      BY <3>1, ReportedTypes
    <3> QED
      BY <3>1, <3>3, <3>4
  <2> QED
    BY <1>2, <1>4, <2>1, <2>2, <2>3, <2>4 DEF MergePr, PrTyped
<1>5. ASSUME NEW s \in MergeStates, merge' = [merge EXCEPT ![c] = s],
             UNCHANGED <<prTables, revert, reread, tracker, anywayAllowed>>
      PROVE  PrTyped' /\ merge' = [merge EXCEPT ![c] = merge'[c]]
  BY <1>2, <1>5 DEF PrTyped, prTables, checkVars
<1>6. \A p \in {"poll", "sleep", "mark"} : [merge[c] EXCEPT !.pc = p] \in MergeStates
  BY <1>1 DEF MergeStates
<1>7. \A x \in {"paused", "error", "merged"} :
        [merge[c] EXCEPT !.pc = "idle", !.result = x] \in MergeStates
  BY <1>1 DEF MergeStates
<1>8. CASE MergeRejected(c) \/ PollFails(c)
  BY ZenonT(40), <1>5, <1>6, <1>7, <1>8 DEF MergeRejected, PollFails, Paused
<1>9. CASE Poll(c) \/ WakePoll(c)
  BY ZenonT(40), <1>5, <1>6, <1>7, <1>9 DEF Poll, WakePoll, Paused
<1>10. CASE Deadline(c)
  <2>1. [merge[c] EXCEPT !.late = TRUE] \in MergeStates
    BY <1>1 DEF MergeStates
  <2> QED
    BY <1>5, <1>10, <2>1 DEF Deadline
<1>11. ASSUME NEW ok \in BOOLEAN, StepCompleted(c, ok)
       PROVE  PrTyped' /\ merge' = [merge EXCEPT ![c] = merge'[c]]
  <2> DEFINE p == IF merge[c].at = Len(merge[c].plan) THEN "done" ELSE "merge"
             s == [merge[c] EXCEPT !.at = merge[c].at + 1, !.pc = p]
  <2>0. p \in {"merge", "done"} /\ merge[c].at + 1 \in Nat
    BY <1>1 DEF MergeStates
  <2>1. s \in MergeStates
    <3> HIDE DEF p
    <3> QED
      BY <1>1, <2>0 DEF MergeStates
  <2>2. merge' = [merge EXCEPT ![c] = s]
    BY <1>11 DEF StepCompleted
  <2>3. prRow' \in [PrRepos -> [state : PrStates, order : Nat]]
    <3>1. prRow' = prRow \/ prRow' = [prRow EXCEPT ![Member(c)].state = "merged"]
      BY <1>11 DEF StepCompleted
    <3>2. "merged" \in PrStates
      BY DEF PrStates
    <3>3. [prRow EXCEPT ![Member(c)].state = "merged"]
            \in [PrRepos -> [state : PrStates, order : Nat]]
      BY <3>2, RowStateTypes
    <3> QED
      BY <3>1, <3>3 DEF PrTyped
  <2> HIDE DEF s
  <2> QED
    BY <1>2, <1>11, <2>1, <2>2, <2>3 DEF StepCompleted, PrTyped, checkVars
<1>12. ASSUME NEW w \in BOOLEAN, SetMerged(c, w)
       PROVE  PrTyped' /\ merge' = [merge EXCEPT ![c] = merge'[c]]
  <2>1. ToSet(merge[c].plan) \subseteq PrRepos
    BY <1>1 DEF MergeStates, ToSet
  <2>2. tracker' \subseteq PrRepos
    BY <1>12, <2>1 DEF SetMerged, PrTyped
  <2> QED
    BY <1>2, <1>7, <1>12, <2>2 DEF SetMerged, PrTyped, prTables, checkVars
<1> QED
  BY <1>3, <1>4, <1>8, <1>9, <1>10, <1>11, <1>12 DEF MergeStep

\* Types are kept by a revert and by the checks.
LEMMA RevertTypes ==
  ASSUME PrTyped,
         \/ BeginRevert \/ (\E ok \in BOOLEAN : RevertMember(ok)) \/ RevertReturns
         \/ \E r \in PrRepos, to \in {"pending", "green", "red"} : ReportChecks(r, to)
  PROVE  PrTyped'
<1> DEFINE Members == [repo : PrRepos, state : PrStates]
<1>1. CASE BeginRevert
  <2>1. Ordered \in Seq(PrRepos)
    BY OrderedType
  <2> DEFINE walk == [i \in DOMAIN Ordered |->
                        LET r == Reverse(Ordered)[i]
                        IN  [repo |-> r, state |-> prRow[r].state]]
  <2>2. ASSUME NEW i \in DOMAIN Ordered PROVE walk[i] \in Members
    <3>1. Reverse(Ordered)[i] \in PrRepos
      BY <2>1, <2>2 DEF Reverse
    <3> QED
      BY <3>1 DEF PrTyped
  <2>3. walk \in Seq(Members)
    <3>1. DOMAIN Ordered = 1..Len(Ordered) /\ Len(Ordered) \in Nat
      BY <2>1
    <3> HIDE DEF Members
    <3>2. walk = [i \in 1..Len(Ordered) |-> walk[i]]
      BY <3>1
    <3> HIDE DEF walk
    <3> QED
      BY <2>2, <3>1, <3>2
  <2>4. revert' = [pc |-> "walk", left |-> walk]
    BY <1>1 DEF BeginRevert
  <2> HIDE DEF walk
  <2>5. revert' \in [pc : {"idle", "walk"}, left : Seq(Members)]
    BY <2>3, <2>4
  <2> QED
    BY <1>1, <2>5 DEF BeginRevert, PrTyped, prTables, checkVars
<1>2. ASSUME NEW ok \in BOOLEAN, RevertMember(ok) PROVE PrTyped'
  <2>1. Head(revert.left) \in Members /\ Tail(revert.left) \in Seq(Members)
    <3>1. revert.left \in Seq(Members) /\ revert.left # <<>>
      BY <1>2 DEF RevertMember, PrTyped
    <3> HIDE DEF Members
    <3> QED
      BY <3>1
  <2>2. revert' \in [pc : {"idle", "walk"}, left : Seq(Members)]
    <3> HIDE DEF Members
    <3> QED
      BY <1>2, <2>1 DEF RevertMember, PrTyped, Members
  <2>3. /\ prRow' \in [PrRepos -> [state : PrStates, order : Nat]]
        /\ remote' \in [PrRepos -> PrStates]
    <3>1. \/ UNCHANGED <<prRow, remote>>
          \/ \E q : /\ remote' = [remote EXCEPT ![q] = "reverted"]
                    /\ prRow' = [prRow EXCEPT ![q].state = "reverted"]
      BY <1>2 DEF RevertMember
    <3>2. "reverted" \in PrStates
      BY DEF PrStates
    <3>3. ASSUME NEW q
          PROVE  [prRow EXCEPT ![q].state = "reverted"]
                   \in [PrRepos -> [state : PrStates, order : Nat]]
      BY <3>2, RowStateTypes
    <3>4. ASSUME NEW q PROVE [remote EXCEPT ![q] = "reverted"] \in [PrRepos -> PrStates]
      BY <3>2 DEF PrTyped
    <3>5. CASE UNCHANGED <<prRow, remote>>
      BY <3>5 DEF PrTyped
    <3>6. ASSUME NEW q, remote' = [remote EXCEPT ![q] = "reverted"],
                 prRow' = [prRow EXCEPT ![q].state = "reverted"]
          PROVE  /\ prRow' \in [PrRepos -> [state : PrStates, order : Nat]]
                 /\ remote' \in [PrRepos -> PrStates]
      <4>1. prRow' \in [PrRepos -> [state : PrStates, order : Nat]]
        BY <3>3, <3>6
      <4>2. remote' \in [PrRepos -> PrStates]
        BY <3>4, <3>6
      <4> QED
        BY <4>1, <4>2
    <3> QED
      BY <3>1, <3>5, <3>6
  <2> QED
    BY <1>2, <2>2, <2>3 DEF RevertMember, PrTyped, checkVars
<1>3. CASE RevertReturns
  BY <1>3 DEF RevertReturns, PrTyped, NoRevert, prTables, checkVars
<1>4. CASE \E r \in PrRepos, to \in {"pending", "green", "red"} : ReportChecks(r, to)
  <2>1. PICK q \in PrRepos, to \in {"pending", "green", "red"} : ReportChecks(q, to)
    BY <1>4
  <2>2. /\ checks' \in [PrRepos -> {"none", "pending", "green", "red"}]
        /\ green' \subseteq PrRepos
    BY <2>1, ReportedTypes DEF ReportChecks
  <2> QED
    BY <2>1, <2>2 DEF ReportChecks, PrTyped
<1> QED
  BY <1>1, <1>2, <1>3, <1>4

\* What GitHub has merged stays merged or is reverted, what has been green has
\* been, and nobody changes managed.json.
LEMMA GitHubOnward ==
  ASSUME PrInv, [PrNext]_prVars
  PROVE  /\ anywayAllowed' = anywayAllowed /\ green \subseteq green'
         /\ \A r \in PrRepos : checks'[r] = "green" => r \in green'
         /\ \A r \in PrRepos : Settled(r) => Settled(r)'
<1>1. anywayAllowed' = anywayAllowed
  BY DEF PrNext, prVars, BeginMerge, MergeStep, Deadline, BeginRevert, RevertMember,
         RevertReturns, RowStep, ReportChecks, MergePr, MergeRejected, Poll, PollFails,
         WakePoll, StepCompleted, SetMerged, CreatePr, ViewPr, SetMergeOrder, UpsertPr
<1>2. green \subseteq green' /\ \A r \in PrRepos : checks'[r] = "green" => r \in green'
  <2>1. UNCHANGED <<checks, green>> \/ \E q, to : Reported(q, to)
    BY DEF PrNext, prVars, prTables, checkVars, BeginMerge, MergeStep, Deadline, BeginRevert,
           RevertMember, RevertReturns, RowStep, MergePr, MergeRejected, Poll, PollFails,
           WakePoll, StepCompleted, SetMerged, CreatePr, ViewPr, SetMergeOrder, UpsertPr,
           ReportChecks
  <2>2. ASSUME NEW q, NEW to, Reported(q, to)
        PROVE  green \subseteq green' /\ \A r \in PrRepos : checks'[r] = "green" => r \in green'
    BY <2>2 DEF Reported, PrInv, PrTyped
  <2> QED
    BY <2>1, <2>2 DEF PrInv
<1>3. ASSUME NEW r \in PrRepos, Settled(r) PROVE Settled(r)'
  <2>1. \/ remote' = remote
        \/ \E q \in PrRepos : remote[q] = "none" /\ remote' = [remote EXCEPT ![q] = "open"]
        \/ \E q : remote' = [remote EXCEPT ![q] = "merged"]
        \/ \E q : remote' = [remote EXCEPT ![q] = "reverted"]
    BY DEF PrNext, prVars, prTables, BeginMerge, MergeStep, Deadline, BeginRevert,
           RevertMember, RevertReturns, RowStep, MergePr, MergeRejected, Poll, PollFails,
           WakePoll, StepCompleted, SetMerged, CreatePr, ViewPr, SetMergeOrder, UpsertPr,
           ReportChecks
  <2> QED
    BY <1>3, <2>1 DEF Settled, PrInv, PrTyped
<1> QED
  BY <1>1, <1>2, <1>3

\* A call that takes no step keeps its place, and what is behind it.
LEMMA RestsOK ==
  ASSUME PrInv, [PrNext]_prVars, NEW c \in MergeCalls, merge'[c] = merge[c]
  PROVE  MergeOK(c)'
<1>1. merge[c] \in MergeStates /\ MergeOK(c)
  BY DEF PrInv, PrTyped
<1>2. /\ merge[c].plan \in Seq(PrRepos) /\ merge[c].at \in Nat
      /\ Len(merge[c].plan) \in Nat
  BY <1>1 DEF MergeStates
<1>3. \A i \in 1..Len(merge[c].plan) : merge[c].plan[i] \in PrRepos
  BY <1>2
<1>4. /\ anywayAllowed' = anywayAllowed /\ green \subseteq green'
      /\ \A r \in PrRepos : Settled(r) => Settled(r)'
  BY GitHubOnward
<1>5. ASSUME NEW i \in 1..Len(merge[c].plan)
      PROVE  /\ Settled(merge[c].plan[i]) => Settled(merge[c].plan[i])'
             /\ Green(c, merge[c].plan[i]) => Green(c, merge[c].plan[i])'
  BY <1>3, <1>4 DEF Settled, Green
<1> QED
  BY <1>1, <1>2, <1>5, <1>4 DEF MergeOK, Settled, Green

\* The call that takes a step of a merge keeps what is behind it settled and
\* green: the place moves on only past a member that is.
LEMMA MergeStepOK ==
  ASSUME PrInv, [PrNext]_prVars, NEW c \in MergeCalls,
         (\E anyway \in BOOLEAN : BeginMerge(c, anyway)) \/ MergeStep(c) \/ Deadline(c)
  PROVE  MergeOK(c)'
<1> DEFINE plan == merge[c].plan
           at == merge[c].at
           G(i) == plan[i] \in green' \/ merge[c].anyway
           S(i) == remote'[plan[i]] \in {"merged", "reverted"}
<1>1. merge[c] \in MergeStates /\ MergeOK(c) /\ PrTyped
  BY DEF PrInv, PrTyped
<1>2. plan \in Seq(PrRepos) /\ at \in Nat /\ Len(plan) \in Nat
  BY <1>1 DEF MergeStates
<1>3. \A i \in 1..Len(plan) : plan[i] \in PrRepos
  BY <1>2
<1>4. /\ anywayAllowed' = anywayAllowed /\ green \subseteq green'
      /\ \A r \in PrRepos : Settled(r) => Settled(r)'
  BY GitHubOnward
<1>5. ASSUME NEW i \in 1..Len(plan)
      PROVE  (Settled(plan[i]) => S(i)) /\ (Green(c, plan[i]) => G(i))
  BY <1>3, <1>4 DEF Settled, Green
<1>6. at \in 1..(Len(plan) + 1) /\ \A i \in 1..(at - 1) : S(i) /\ G(i)
  BY <1>1, <1>2, <1>5 DEF MergeOK
<1>7. merge' = [merge EXCEPT ![c] = merge'[c]] /\ PrTyped' /\ merge'[c] \in MergeStates
  BY <1>1, MergeTypes DEF PrTyped
<1>8. ASSUME merge'[c].plan = plan, merge'[c].at = at,
             merge'[c].anyway = merge[c].anyway,
             \/ merge'[c].pc = "idle"
             \/ at # Len(plan) + 1 /\ merge'[c].pc \in {"poll", "sleep"} /\ S(at)
             \/ at # Len(plan) + 1 /\ merge'[c].pc = "mark" /\ S(at) /\ G(at)
      PROVE  MergeOK(c)'
  BY <1>1, <1>4, <1>6, <1>8 DEF MergeOK, Settled, Green
<1>9. ASSUME NEW anyway \in BOOLEAN, BeginMerge(c, anyway) PROVE MergeOK(c)'
  <2>0. NoMerge \in MergeStates /\ NoMerge.plan = <<>> /\ NoMerge.at = 1 /\ ~NoMerge.anyway
        /\ NoMerge.pc = "idle"
    BY DEF NoMerge, MergeStates
  <2>1. Ordered \in Seq(PrRepos) /\ (anyway => anywayAllowed)
    BY <1>1, <1>9, OrderedType DEF BeginMerge
  <2>2. CASE Ordered = <<>>
    <3>1. merge'[c] = [NoMerge EXCEPT !.result = "merged"]
      BY <1>1, <1>9, <2>2 DEF BeginMerge, PrTyped
    <3>2. /\ merge'[c].plan = <<>> /\ merge'[c].at = 1 /\ ~merge'[c].anyway
          /\ merge'[c].pc = "idle"
      BY <2>0, <3>1 DEF MergeStates
    <3> QED
      BY <3>2 DEF MergeOK
  <2>3. CASE Ordered # <<>>
    <3>1. merge'[c] = [NoMerge EXCEPT !.pc = "merge", !.plan = Ordered, !.anyway = anyway]
      BY <1>1, <1>9, <2>3 DEF BeginMerge, PrTyped
    <3>2. /\ merge'[c].plan = Ordered /\ merge'[c].at = 1 /\ merge'[c].anyway = anyway
          /\ merge'[c].pc = "merge"
      BY <2>0, <3>1 DEF MergeStates
    <3>3. Len(Ordered) \in Nat \ {0}
      BY <2>1, <2>3
    <3> QED
      BY <1>4, <2>1, <3>2, <3>3 DEF MergeOK
  <2> QED
    BY <2>2, <2>3
<1>10. CASE MergePr(c)
  <2>1. /\ merge'[c].plan = plan /\ merge'[c].at = at
        /\ merge'[c].anyway = merge[c].anyway /\ merge'[c].pc = "poll"
    BY <1>1, <1>10 DEF MergePr, PrTyped, MergeStates
  <2>2. merge[c].pc = "merge" /\ at # Len(plan) + 1
    BY <1>1, <1>10 DEF MergePr, MergeOK
  <2>3. plan[at] \in PrRepos
    BY <1>3, <1>6, <2>2
  <2>4. S(at)
    BY <1>1, <1>10, <2>3 DEF MergePr, Member, PrTyped
  <2> QED
    BY <1>8, <2>1, <2>2, <2>4
<1>11. CASE MergeRejected(c)
  <2>1. /\ merge'[c].plan = plan /\ merge'[c].at = at
        /\ merge'[c].anyway = merge[c].anyway /\ merge'[c].pc = "idle"
    BY <1>1, <1>11 DEF MergeRejected, Paused, PrTyped, MergeStates
  <2> QED
    BY <1>8, <2>1
<1>12. ASSUME Poll(c) \/ PollFails(c) \/ WakePoll(c) \/ Deadline(c) PROVE MergeOK(c)'
  <2>1. /\ merge'[c].plan = plan /\ merge'[c].at = at
        /\ merge'[c].anyway = merge[c].anyway
    BY <1>1, <1>12 DEF Poll, PollFails, WakePoll, Deadline, Paused, PrTyped, MergeStates
  <2>2. merge[c].pc \in {"poll", "sleep"}
    BY <1>12 DEF Poll, PollFails, WakePoll, Deadline
  <2>3. at \in 1..Len(plan) /\ S(at)
    BY <1>1, <1>5, <1>6, <2>2 DEF MergeOK
  <2>4. \/ merge'[c].pc \in {"idle", "poll", "sleep"}
        \/ merge'[c].pc = "mark" /\ Green(c, plan[at])
    <3>0. checks[plan[at]] = "green" => plan[at] \in green
      BY <1>3, <2>3 DEF PrInv
    <3>1. CASE Poll(c)
      BY <1>1, <3>0, <3>1 DEF Poll, Paused, Passed, Resolved, Member, Green, PrTyped,
         MergeStates
    <3>3. CASE PollFails(c)
      BY <1>1, <3>3 DEF PollFails, Paused, Green, PrTyped, MergeStates
    <3>2. CASE WakePoll(c) \/ Deadline(c)
      BY <1>1, <2>2, <3>2 DEF WakePoll, Deadline, PrTyped, MergeStates
    <3> QED
      BY <1>12, <3>1, <3>2, <3>3
  <2>5. Green(c, plan[at]) => G(at)
    BY <1>5, <2>3
  <2> QED
    BY <1>8, <2>1, <2>3, <2>4, <2>5
<1>13. ASSUME NEW ok \in BOOLEAN, StepCompleted(c, ok) PROVE MergeOK(c)'
  <2>1. /\ merge'[c].plan = plan /\ merge'[c].at = at + 1
        /\ merge'[c].anyway = merge[c].anyway
        /\ merge'[c].pc = IF at = Len(plan) THEN "done" ELSE "merge"
    BY <1>1, <1>13 DEF StepCompleted, PrTyped, MergeStates
  <2>2. merge[c].pc = "mark" /\ at \in 1..Len(plan)
    BY <1>1, <1>6, <1>13 DEF StepCompleted, MergeOK
  <2>3. S(at) /\ G(at)
    BY <1>1, <1>5, <2>2 DEF MergeOK
  <2>4. \A i \in 1..at : S(i) /\ G(i)
    BY <1>2, <1>6, <2>3
  <2> QED
    BY <1>1, <1>2, <1>4, <2>1, <2>2, <2>4 DEF MergeOK, Settled, Green
<1>14. ASSUME NEW w \in BOOLEAN, SetMerged(c, w) PROVE MergeOK(c)'
  <2>1. /\ merge'[c].plan = plan /\ merge'[c].at = at
        /\ merge'[c].anyway = merge[c].anyway /\ merge'[c].pc = "idle"
    BY <1>1, <1>14 DEF SetMerged, PrTyped, MergeStates
  <2> QED
    BY <1>8, <2>1
<1> QED
  BY <1>9, <1>10, <1>11, <1>12, <1>13, <1>14 DEF MergeStep

\* An issue is closed for a plan that is green from end to end.
LEMMA TrackerGrows ==
  ASSUME PrInv, NEW c \in MergeCalls, MergeStep(c)
  PROVE  \A r \in tracker' : r \in green \/ anywayAllowed
<1>1. ASSUME NEW w \in BOOLEAN, SetMerged(c, w), NEW r \in ToSet(merge[c].plan)
      PROVE  r \in green \/ anywayAllowed
  <2>1. merge[c] \in MergeStates /\ MergeOK(c) /\ merge[c].pc = "done"
    BY <1>1 DEF SetMerged, PrInv, PrTyped
  <2>2. merge[c].plan \in Seq(PrRepos) /\ Len(merge[c].plan) \in Nat
        /\ merge[c].at = Len(merge[c].plan) + 1
    BY <2>1 DEF MergeStates, MergeOK
  <2>3. PICK i \in 1..Len(merge[c].plan) : r = merge[c].plan[i]
    BY <1>1, <2>2 DEF ToSet
  <2> QED
    BY <2>1, <2>2, <2>3 DEF MergeOK, Green
<1>2. \/ tracker' = tracker
      \/ \E w \in BOOLEAN : /\ SetMerged(c, w)
                            /\ tracker' = tracker \cup ToSet(merge[c].plan)
  BY DEF MergeStep, MergePr, MergeRejected, Poll, PollFails, WakePoll, StepCompleted, SetMerged
<1> QED
  BY <1>1, <1>2 DEF PrInv, PrTyped

\* Types are kept by every step, and one caller's merge moves at a time.
LEMMA PrStepTypes ==
  ASSUME PrInv, [PrNext]_prVars
  PROVE  /\ PrTyped'
         /\ \/ UNCHANGED <<merge, tracker>>
            \/ \E c \in MergeCalls :
                 /\ \A d \in MergeCalls \ {c} : merge'[d] = merge[d]
                 /\ \/ (\E anyway \in BOOLEAN : BeginMerge(c, anyway)) \/ MergeStep(c)
                    \/ Deadline(c)
                 /\ tracker' = tracker \/ MergeStep(c)
<1> DEFINE Goal == /\ PrTyped'
                   /\ \/ UNCHANGED <<merge, tracker>>
                      \/ \E c \in MergeCalls :
                           /\ \A d \in MergeCalls \ {c} : merge'[d] = merge[d]
                           /\ \/ (\E anyway \in BOOLEAN : BeginMerge(c, anyway))
                              \/ MergeStep(c) \/ Deadline(c)
                           /\ tracker' = tracker \/ MergeStep(c)
<1>0. PrTyped
  BY DEF PrInv
<1>1. CASE UNCHANGED prVars
  BY <1>0, <1>1 DEF prVars, prTables, checkVars, PrTyped
<1>2. ASSUME NEW c \in MergeCalls,
             (\E anyway \in BOOLEAN : BeginMerge(c, anyway)) \/ MergeStep(c) \/ Deadline(c)
      PROVE  Goal
  <2>1. PrTyped' /\ merge' = [merge EXCEPT ![c] = merge'[c]]
    BY <1>0, <1>2, MergeTypes DEF PrInv
  <2>2. \A d \in MergeCalls \ {c} : merge'[d] = merge[d]
    BY <2>1, <1>0 DEF PrTyped
  <2>3. tracker' = tracker \/ MergeStep(c)
    BY <1>2 DEF BeginMerge, Deadline
  <2> QED
    BY <1>2, <2>1, <2>2, <2>3
<1>3. ASSUME \/ BeginRevert \/ (\E ok \in BOOLEAN : RevertMember(ok)) \/ RevertReturns
             \/ \E r \in PrRepos, to \in {"pending", "green", "red"} : ReportChecks(r, to)
      PROVE  Goal
  <2>1. UNCHANGED <<merge, tracker>>
    BY <1>3 DEF BeginRevert, RevertMember, RevertReturns, ReportChecks
  <2> QED
    BY <1>0, <1>3, <2>1, RevertTypes
<1>4. CASE RowStep
  <2>1. UNCHANGED <<merge, tracker>>
    BY <1>4 DEF RowStep, CreatePr, ViewPr, SetMergeOrder, UpsertPr
  <2> QED
    BY <1>0, <1>4, <2>1, RowStepTypes
<1>5. CASE PrNext
  <2>1. \/ \E c \in MergeCalls :
             (\E anyway \in BOOLEAN : BeginMerge(c, anyway)) \/ MergeStep(c) \/ Deadline(c)
        \/ \/ BeginRevert \/ (\E ok \in BOOLEAN : RevertMember(ok)) \/ RevertReturns
           \/ \E r \in PrRepos, to \in {"pending", "green", "red"} : ReportChecks(r, to)
        \/ RowStep
    BY <1>5, Zenon DEF PrNext
  <2>2. CASE \E c \in MergeCalls :
               (\E anyway \in BOOLEAN : BeginMerge(c, anyway)) \/ MergeStep(c) \/ Deadline(c)
    BY <2>2, <1>2
  <2>3. CASE \/ BeginRevert \/ (\E ok \in BOOLEAN : RevertMember(ok)) \/ RevertReturns
             \/ \E r \in PrRepos, to \in {"pending", "green", "red"} : ReportChecks(r, to)
    BY <2>3, <1>3
  <2> QED
    BY <2>1, <2>2, <2>3, <1>4
<1> QED
  BY <1>1, <1>5

\* PrInv holds in every state of a set.
LEMMA PrInvariant == PrInit /\ [][PrNext]_prVars => []PrInv
<1>1. PrInv /\ [PrNext]_prVars => PrInv'
  <2> SUFFICES ASSUME PrInv, [PrNext]_prVars PROVE PrInv'
    OBVIOUS
  <2>1. PrTyped'
    BY PrStepTypes
  <2>2. /\ anywayAllowed' = anywayAllowed
        /\ green \subseteq green' /\ \A r \in PrRepos : checks'[r] = "green" => r \in green'
    BY GitHubOnward
  <2>3. CASE UNCHANGED <<merge, tracker>>
    <3>1. \A c \in MergeCalls : MergeOK(c)'
      BY <2>3, RestsOK
    <3>2. \A r \in tracker : r \in green \/ anywayAllowed
      BY DEF PrInv
    <3>3. \A r \in tracker' : r \in green' \/ anywayAllowed'
      BY <2>2, <2>3, <3>2
    <3> QED
      BY <2>1, <2>2, <3>1, <3>3 DEF PrInv
  <2>4. ASSUME NEW c \in MergeCalls,
               \A d \in MergeCalls \ {c} : merge'[d] = merge[d],
               \/ (\E anyway \in BOOLEAN : BeginMerge(c, anyway)) \/ MergeStep(c)
               \/ Deadline(c),
               tracker' = tracker \/ MergeStep(c)
        PROVE  PrInv'
    <3>1. MergeOK(c)'
      BY <2>4, MergeStepOK
    <3>2. \A d \in MergeCalls \ {c} : MergeOK(d)'
      BY <2>4, RestsOK
    <3>3. \A r \in tracker' : r \in green \/ anywayAllowed
      BY <2>4, TrackerGrows DEF PrInv
    <3>4. \A r \in tracker' : r \in green' \/ anywayAllowed'
      BY <2>2, <3>3
    <3>5. \A d \in MergeCalls : MergeOK(d)'
      BY <3>1, <3>2
    <3> QED
      BY <2>1, <2>2, <3>4, <3>5 DEF PrInv
  <2> QED
    BY <2>3, <2>4, PrStepTypes
<1> QED
  BY PrInitially, <1>1, PTL

\* A merge is past a member only when that member is merged and the runs
\* reported for it had all passed at some time since, or the caller asked to
\* override them and the policy lets him, for any number of members and of
\* callers, reorders, re-reads, reverts and runs reported in between.
THEOREM MergesOnGreenHolds == PrSpec => []MergesOnGreen
<1>1. PrInv => MergesOnGreen
  BY DEF PrInv, MergeOK, Settled, Green, MergesOnGreen
<1> QED
  BY PrInvariant, <1>1, PTL DEF PrSpec

\* Rows, merges, reverts and re-reads of a set keep their types; the order of
\* a row stays a number, and a plan a sequence of the set's repositories.
THEOREM PrTypesHold == PrSpec => []PrTypeOK
<1>1. PrInv => PrTypeOK
  BY DEF PrInv, PrTyped, PrStates, MergeStates, PrTypeOK
<1> QED
  BY PrInvariant, <1>1, PTL DEF PrSpec

-----------------------------------------------------------------------------
(* The four together.                                                       *)

\* A step of the composition is a step of each part or leaves its state alone.
LEMMA CoreStep ==
  ASSUME [CoreNext]_coreVars
  PROVE  [LifeNext]_waVars /\ [PrNext]_prVars /\ [RepoNext]_rmVars /\ [SupNext]_superVars
<1>1. CASE CoreNext
  BY <1>1 DEF CoreNext
<1>2. CASE UNCHANGED coreVars
  BY <1>2 DEF coreVars
<1> QED
  BY <1>1, <1>2

\* So the composition is a life of a workarea, of a set of pull requests, of
\* the repositories and of a supervised actor at once.
LEMMA CoreIsItsParts ==
  CoreSpec => /\ LifeInit /\ [][LifeNext]_waVars
              /\ PrInit /\ [][PrNext]_prVars
              /\ RepoInit /\ [][RepoNext]_rmVars
              /\ SupSpec
<1>1. CoreInit => LifeInit /\ PrInit /\ RepoInit /\ SupInit
  BY DEF CoreInit
<1>2. [CoreNext]_coreVars =>
        [LifeNext]_waVars /\ [PrNext]_prVars /\ [RepoNext]_rmVars /\ [SupNext]_superVars
  BY CoreStep
<1> QED
  BY <1>1, <1>2, PTL DEF CoreSpec, SupSpec

\* Workarea, pull requests, repositories and supervised actor keep their types
\* in one Core, whichever of them takes the next step, as soon as there is
\* something a repository's call could be about.
THEOREM CoreTypesHold ==
  ASSUME Clones # {}, Areas # {}, ConeSets # {}
  PROVE  CoreSpec => []CoreTypeOK
<1>1. RepoInit /\ [][RepoNext]_rmVars => []RepoTypeOK
  BY RepoTypesInvariant
<1>2. PrInv => PrTypeOK
  BY DEF PrInv, PrTyped, PrStates, MergeStates, PrTypeOK
<1>3. LifeTypeOK /\ PrTypeOK /\ RepoTypeOK /\ SupTypeOK => CoreTypeOK
  BY DEF CoreTypeOK
<1> QED
  BY CoreIsItsParts, LifeTypesInvariant, PrInvariant, SupTypesHold, <1>1, <1>2, <1>3, PTL

\* No archive leaves an old session, no merge runs ahead of the checks, the
\* row and git agree on the cones, no permit is lost and no actor is given up,
\* all in one Core: what LifeSpec, PrSpec, RepoSpec and SupSpec keep apart.
THEOREM CoreKeepsAll ==
  CoreSpec => /\ []ArchiveLeavesNoOldSession /\ []MergesOnGreen
              /\ []ConesAgree /\ []PermitsHeld /\ []NeverFails
<1>1. LifeInv => ArchiveLeavesNoOldSession
  BY DEF LifeInv, StopSound, ArchiveLeavesNoOldSession
<1>2. PrInv => MergesOnGreen
  BY DEF PrInv, MergeOK, Settled, Green, MergesOnGreen
<1>3. RepoInv => ConesAgree /\ PermitsHeld
  BY DEF RepoInv
<1> QED
  BY CoreIsItsParts, LifeInvariant, PrInvariant, RepoInvHolds, NeverFailsHolds,
     <1>1, <1>2, <1>3, PTL
=============================================================================
