---------------------------- MODULE AgentSession ----------------------------
(***************************************************************************)
(* The life of one session in the Agent Supervisor                         *)
(* (crates/core/src/agent_supervisor): its database row, the socket and    *)
(* final-info files at the session's fixed paths, the hosts spawned for it *)
(* one after the other, the supervisor's in-memory entry and read pumps,   *)
(* and the sweep adopt_orphans makes when a Core boots.                    *)
(*                                                                         *)
(* Host h is the h-th the session spawns; its cookie is fresh, so a cookie *)
(* is the number of the host it was made for.                              *)
(***************************************************************************)
EXTENDS Naturals

CONSTANTS
  MaxHosts,            \* hosts one behaviour may spawn
  MaxBoots,            \* Core processes one behaviour may start
  AutoResume           \* workspace setting auto_resume_agents

ASSUME MaxHostsAssumption == MaxHosts \in Nat
ASSUME MaxBootsAssumption == MaxBoots \in Nat \ {0}
ASSUME AutoResumeAssumption == AutoResume \in BOOLEAN

VARIABLES
  row,                 \* the sessions row
  sock,                \* host whose socket is at the path, 0 if no file
  info,                \* final-info.json: "none", "clean", "failed"
  host,                \* host -> "none", "spawned", "up", "dead"
  agent,               \* host -> "run", or how its agent ended
  slot,                \* hosts whose single-connection slot is taken
  spawned,             \* host numbers, that is cookies, drawn so far
  core, boots,         \* phase of the Core process; processes started
  entry,               \* SessionEntry in the supervisor's map
  pump,                \* hosts a run_read_pump of this Core is attached to
  exiting,             \* hosts whose pump ended their row, map lock to come
  op,                  \* host -> the start_session or cold_resume_existing in
                       \* flight that is to spawn it
  overlapped,          \* history: a resume began while another call was in
                       \* flight, and no resume has begun alone since
  ending,              \* stop_session / delete_session past its teardown
  waiting              \* host whose Child a pump awaits, map lock held

diskVars == <<row, sock, info>>
hostVars == <<host, agent, slot, spawned>>
opVars == <<op, overlapped>>
coreVars == <<core, boots, entry, pump, exiting, opVars, ending, waiting>>
vars == <<diskVars, hostVars, coreVars>>

Hosts == 1..MaxHosts

NoRow == [exists |-> FALSE, status |-> "finished", ended |-> FALSE, cookie |-> 0]
Deleted == [NoRow EXCEPT !.ended = TRUE]
NoEntry == [host |-> 0, child |-> FALSE]
Idle == [h \in Hosts |-> "idle"]

TypeOK ==
  /\ row \in [exists : BOOLEAN, ended : BOOLEAN, cookie : 0..MaxHosts,
              status : {"starting", "running", "finished", "crashed"}]
  /\ sock \in 0..MaxHosts
  /\ info \in {"none", "clean", "failed"}
  /\ host \in [Hosts -> {"none", "spawned", "up", "dead"}]
  /\ agent \in [Hosts -> {"run", "clean", "failed"}]
  /\ slot \subseteq Hosts
  /\ spawned \in 0..MaxHosts
  /\ core \in {"down", "hot", "adopt", "attach", "cold", "resume", "serving"}
  /\ boots \in 0..MaxBoots
  /\ entry \in [host : 0..MaxHosts, child : BOOLEAN]
  /\ pump \subseteq Hosts /\ exiting \subseteq Hosts
  /\ op \in [Hosts -> {"idle", "reset", "spawn", "wait", "ready", "marked"}]
  /\ overlapped \in BOOLEAN
  /\ ending \in {"no", "stop", "delete"}
  /\ waiting \in 0..MaxHosts

Init ==
  /\ row = NoRow
  /\ sock = 0
  /\ info = "none"
  /\ host = [h \in Hosts |-> "none"]
  /\ agent = [h \in Hosts |-> "run"]
  /\ slot = {}
  /\ spawned = 0
  /\ core = "serving"
  /\ boots = 1
  /\ entry = NoEntry
  /\ pump = {} /\ exiting = {}
  /\ op = Idle /\ overlapped = FALSE
  /\ ending = "no"
  /\ waiting = 0

-----------------------------------------------------------------------------
(* Updates of the row are UPDATE ... WHERE id = ?: no row, no effect.       *)

SetStatus(s) == [row EXCEPT !.status = s]
MarkEnded == [row EXCEPT !.status = "finished", !.ended = TRUE]
SetRow(r) == row' = IF row.exists THEN r ELSE row

(* Mutant of Live: the cold query forgets the rows that are 'running'.      *)
LiveStartingOnly(r) == r.exists /\ ~r.ended /\ r.status = "starting"

Live(r) == r.exists /\ ~r.ended /\ r.status \in {"starting", "running"}

MapFree == waiting = 0

(* mark_crashed of adopt.rs: update_status 'crashed', then mark_ended.      *)
MarkCrashed ==
  LET crashed == [row EXCEPT !.status = "crashed"]
  IN [crashed EXCEPT !.status = "finished", !.ended = TRUE]

-----------------------------------------------------------------------------
(* Hosts, each an instance of module AgentHost seen from outside.           *)

BindSocket(h) ==
  /\ host[h] = "spawned"
  /\ host' = [host EXCEPT ![h] = "up"]
  /\ sock' = h
  /\ UNCHANGED <<row, info, agent, slot, spawned, coreVars>>

AgentExit(h) ==
  /\ host[h] = "up" /\ agent[h] = "run"
  /\ \E how \in {"clean", "failed"} : agent' = [agent EXCEPT ![h] = how]
  /\ UNCHANGED <<diskVars, host, slot, spawned, coreVars>>

(* Mutant of HostExit: the host leaves without waiting for its agent.       *)
HostExitUnasked(h) ==
  /\ host[h] = "up"
  /\ host' = [host EXCEPT ![h] = "dead"]
  /\ info' = agent[h]
  /\ sock' = 0
  /\ UNCHANGED <<row, agent, slot, spawned, coreVars>>

(* Grace over: final-info is written and the socket path is removed.        *)
HostExit(h) ==
  /\ host[h] = "up" /\ agent[h] # "run"
  /\ host' = [host EXCEPT ![h] = "dead"]
  /\ info' = agent[h]
  /\ sock' = 0
  /\ UNCHANGED <<row, agent, slot, spawned, coreVars>>

HostKilled(h) ==
  /\ host[h] \in {"spawned", "up"}
  /\ host' = [host EXCEPT ![h] = "dead"]
  /\ UNCHANGED <<diskVars, agent, slot, spawned, coreVars>>

CoreEndOpen(h) == h \in pump \union exiting \/ entry.host = h \/ op[h] # "idle"
                    \/ (core \in {"adopt", "attach"} /\ row.cookie = h)

(* The host notices, when the agent next prints, that its Core is gone.     *)
ReleaseSlot(h) ==
  /\ host[h] = "up" /\ h \in slot /\ ~CoreEndOpen(h)
  /\ slot' = slot \ {h}
  /\ UNCHANGED <<diskVars, host, agent, spawned, coreVars>>

-----------------------------------------------------------------------------
(* start_session and cold_resume_existing.  Nothing keeps two of them from   *)
(* being in flight for one session: they share its row, its socket path and *)
(* its entry.  The resume token is not modelled: no code of the Core writes *)
(* it, so that a row that exists may have one.                              *)

StartInsert ==
  /\ core = "serving" /\ row = NoRow /\ MaxHosts > 0
  /\ spawned' = spawned + 1
  /\ row' = [exists |-> TRUE, status |-> "starting", ended |-> FALSE, cookie |-> spawned']
  /\ op' = [op EXCEPT ![spawned'] = "spawn"]
  /\ UNCHANGED <<sock, info, host, agent, slot, core, boots, entry, pump, exiting,
                 overlapped, ending, waiting>>

(* Mutant of Ejected: the entry of the earlier host stays in the map.       *)
NotEjected == entry

Ejected == NoEntry

(* The row is read, whatever its status, and the entry ejected; a sweep     *)
(* waits for the one resume it begins.                                      *)
ResumeEject ==
  /\ core = "serving" \/ (core = "resume" /\ op = Idle)
  /\ MapFree /\ row.exists /\ spawned < MaxHosts
  /\ entry' = Ejected
  /\ spawned' = spawned + 1
  /\ op' = [op EXCEPT ![spawned'] = "reset"]
  /\ overlapped' = (op # Idle)
  /\ UNCHANGED <<diskVars, host, agent, slot, core, boots, pump, exiting, ending, waiting>>

Done == core' = IF core = "resume" THEN "serving" ELSE core

Returns(h) == op' = [op EXCEPT ![h] = "idle"] /\ Done /\ UNCHANGED overlapped

(* Remove the socket, whosever it is, rotate the cookie, reset the row.     *)
ResumeReset(h) ==
  /\ op[h] = "reset"
  /\ sock' = 0
  /\ SetRow([row EXCEPT !.status = "starting", !.ended = FALSE, !.cookie = h])
  /\ op' = [op EXCEPT ![h] = "spawn"]
  /\ UNCHANGED <<info, hostVars, core, boots, entry, pump, exiting, overlapped, ending,
                 waiting>>

SpawnHost(h) ==
  /\ op[h] = "spawn"
  /\ host' = [host EXCEPT ![h] = "spawned"]
  /\ op' = [op EXCEPT ![h] = "wait"]
  /\ UNCHANGED <<diskVars, agent, slot, spawned, core, boots, entry, pump, exiting,
                 overlapped, ending, waiting>>

(* The reset, spawn_host or update_host fails: the error is returned, the   *)
(* row stays as it is, and so does a host that has answered.                *)
OpFails(h) ==
  /\ op[h] \in {"reset", "spawn", "ready"}
  /\ Returns(h)
  /\ UNCHANGED <<diskVars, hostVars, boots, entry, pump, exiting, ending, waiting>>

(* Kill the child; mark_failed, whose own failure is dropped.               *)
GiveUp(h) ==
  /\ host' = [host EXCEPT ![h] = "dead"]
  /\ SetRow(SetStatus("crashed")) \/ UNCHANGED row
  /\ Returns(h)
  /\ UNCHANGED <<sock, info, agent, slot, spawned, boots, entry, pump, exiting, ending,
                 waiting>>

Refused(h) == sock # 0 /\ (host[sock] # "up" \/ sock # h \/ sock \in slot)

(* Mutant of HandshakeFails: no limit on the wait for the socket.           *)
HandshakeWithoutTimeout(h) == op[h] = "wait" /\ Refused(h) /\ GiveUp(h)

(* Ten seconds without a socket, no connection, or the wrong answer to      *)
(* Hello, which may be that of another call's host.                         *)
HandshakeFails(h) == op[h] = "wait" /\ (sock = 0 \/ Refused(h)) /\ GiveUp(h)

HandshakeReady(h) ==
  /\ op[h] = "wait"
  /\ sock = h /\ host[h] = "up" /\ h \notin slot
  /\ slot' = slot \union {h}
  /\ op' = [op EXCEPT ![h] = "ready"]
  /\ UNCHANGED <<diskVars, host, agent, spawned, core, boots, entry, pump, exiting,
                 overlapped, ending, waiting>>

(* update_host asks for the session, not for the cookie of the call.        *)
MarkRunning(h) ==
  /\ op[h] = "ready"
  /\ SetRow(SetStatus("running"))
  /\ op' = [op EXCEPT ![h] = "marked"]
  /\ UNCHANGED <<sock, info, hostVars, core, boots, entry, pump, exiting, overlapped,
                 ending, waiting>>

InsertEntry(h) ==
  /\ op[h] = "marked" /\ MapFree
  /\ entry' = [host |-> h, child |-> TRUE]
  /\ pump' = pump \union {h}
  /\ Returns(h)
  /\ UNCHANGED <<diskVars, hostVars, boots, exiting, ending, waiting>>

-----------------------------------------------------------------------------
(* stop_session, delete_session: teardown, then the row.                    *)

Teardown ==
  /\ host' = IF entry.child THEN [host EXCEPT ![entry.host] = "dead"] ELSE host
  /\ sock' = 0
  /\ entry' = NoEntry

StopSession ==
  /\ core = "serving" /\ ending = "no" /\ MapFree /\ entry.host # 0
  /\ Teardown
  /\ ending' = "stop"
  /\ UNCHANGED <<row, info, agent, slot, spawned, core, boots, pump, exiting, opVars, waiting>>

StopMarkEnded ==
  /\ ending = "stop"
  /\ SetRow(MarkEnded)
  /\ ending' = "no"
  /\ UNCHANGED <<sock, info, hostVars, core, boots, entry, pump, exiting, opVars, waiting>>

(* The log directory, final-info.json in it, goes before the row does.      *)
DeleteSession ==
  /\ core = "serving" /\ ending = "no" /\ MapFree /\ row.exists
  /\ IF entry.host # 0 THEN Teardown ELSE UNCHANGED <<host, sock, entry>>
  /\ info' = "none"
  /\ ending' = "delete"
  /\ UNCHANGED <<row, agent, slot, spawned, core, boots, pump, exiting, opVars, waiting>>

DeleteRow ==
  /\ ending = "delete"
  /\ row' = Deleted
  /\ ending' = "no"
  /\ UNCHANGED <<sock, info, hostVars, core, boots, entry, pump, exiting, opVars, waiting>>

-----------------------------------------------------------------------------
(* run_read_pump: how it ends.                                              *)

(* AgentExited: mark_ended ...                                              *)
PumpExited(h) ==
  /\ h \in pump /\ agent[h] # "run"
  /\ SetRow(MarkEnded)
  /\ pump' = pump \ {h}
  /\ exiting' = exiting \union {h}
  /\ UNCHANGED <<sock, info, hostVars, core, boots, entry, opVars, ending, waiting>>

(* ... then the entry by then in the map, whichever host it is for, has its *)
(* Child awaited under the map lock.                                        *)
PumpReaps(h) ==
  /\ h \in exiting /\ MapFree
  /\ exiting' = exiting \ {h}
  /\ IF entry.child
     THEN /\ waiting' = entry.host
          /\ entry' = [entry EXCEPT !.child = FALSE]
          /\ UNCHANGED sock
     ELSE /\ sock' = IF entry.host # 0 THEN 0 ELSE sock
          /\ UNCHANGED <<entry, waiting>>
  /\ UNCHANGED <<row, info, hostVars, core, boots, pump, opVars, ending>>

ChildReaped ==
  /\ waiting # 0 /\ host[waiting] = "dead"
  /\ waiting' = 0
  /\ sock' = 0
  /\ UNCHANGED <<row, info, hostVars, core, boots, entry, pump, exiting, opVars, ending>>

(* End of file without AgentExited: the pump ends and the row is not told.  *)
PumpEof(h) ==
  /\ h \in pump /\ host[h] = "dead"
  /\ pump' = pump \ {h}
  /\ UNCHANGED <<diskVars, hostVars, core, boots, entry, exiting, opVars, ending, waiting>>

-----------------------------------------------------------------------------
(* The Core process.                                                        *)

CoreCrash ==
  /\ core # "down"
  /\ core' = "down"
  /\ entry' = NoEntry
  /\ pump' = {} /\ exiting' = {}
  /\ op' = Idle /\ overlapped' = FALSE
  /\ ending' = "no"
  /\ waiting' = 0
  /\ UNCHANGED <<diskVars, hostVars, boots>>

CoreBoot ==
  /\ core = "down" /\ boots < MaxBoots
  /\ core' = "hot"
  /\ boots' = boots + 1
  /\ UNCHANGED <<diskVars, hostVars, entry, pump, exiting, opVars, ending, waiting>>

bootFrame == <<info, host, agent, spawned, boots, entry, pump, exiting, opVars, ending,
               waiting>>

(* Mutant of Adoptable: the query no longer asks for ended_at IS NULL.      *)
AdoptableEnded == row.exists

Adoptable == row.exists /\ ~row.ended

(* try_adopt_one, up to the answer to Hello.                                *)
HotPassNoSocket ==
  /\ core = "hot"
  /\ sock = 0 \/ ~Adoptable
  /\ sock' = 0
  /\ core' = "cold"
  /\ UNCHANGED <<row, slot, bootFrame>>

(* The host died.  Nobody listens at the path, and the file is removed; or  *)
(* it died between the connection and Ready, and the file stays.            *)
HotPassDead ==
  /\ core = "hot" /\ sock # 0 /\ Adoptable /\ host[sock] # "up"
  /\ row' = MarkCrashed
  /\ sock' \in {0, sock}
  /\ core' = "cold"
  /\ UNCHANGED <<slot, bootFrame>>

HotPassMismatch ==
  /\ core = "hot" /\ sock # 0 /\ Adoptable /\ host[sock] = "up"
  /\ sock # row.cookie
  /\ row' = MarkCrashed
  /\ core' = "cold"
  /\ UNCHANGED <<sock, slot, bootFrame>>

HotPassBusy ==
  /\ core = "hot" /\ sock # 0 /\ Adoptable /\ host[sock] = "up"
  /\ sock = row.cookie /\ sock \in slot
  /\ core' = "cold"
  /\ UNCHANGED <<diskVars, slot, bootFrame>>

HotPassReady ==
  /\ core = "hot" /\ sock # 0 /\ Adoptable /\ host[sock] = "up"
  /\ sock = row.cookie /\ sock \notin slot
  /\ slot' = slot \union {sock}
  /\ core' = "adopt"
  /\ UNCHANGED <<diskVars, bootFrame>>

(* 'running' goes to the row before the bridge is attached ...              *)
AdoptRunning ==
  /\ core = "adopt"
  /\ row' = SetStatus("running")
  /\ core' = "attach"
  /\ UNCHANGED <<sock, slot, bootFrame>>

(* ... because the pump may at once read AgentExited and finish it.         *)
AdoptAttach ==
  /\ core = "attach"
  /\ entry' = [host |-> row.cookie, child |-> FALSE]
  /\ pump' = pump \union {row.cookie}
  /\ core' = "cold"
  /\ UNCHANGED <<diskVars, hostVars, boots, exiting, opVars, ending, waiting>>

ColdStatus == IF info = "clean" THEN "finished" ELSE "crashed"

(* find_cold_candidates, cold_path_one, maybe_auto_resume.                  *)
ColdPass ==
  /\ core = "cold" /\ MapFree /\ Live(row) /\ entry.host = 0
  /\ row' = [row EXCEPT !.status = ColdStatus, !.ended = TRUE]
  /\ core' = IF ColdStatus = "crashed" /\ AutoResume /\ spawned < MaxHosts
             THEN "resume" ELSE "serving"
  /\ UNCHANGED <<sock, slot, bootFrame>>

ColdPassNothing ==
  /\ core = "cold" /\ MapFree /\ ~(Live(row) /\ entry.host = 0)
  /\ core' = "serving"
  /\ UNCHANGED <<diskVars, slot, bootFrame>>

-----------------------------------------------------------------------------
HostStep ==
  \E h \in Hosts : \/ BindSocket(h) \/ AgentExit(h) \/ HostExit(h)
                   \/ HostKilled(h) \/ ReleaseSlot(h)

CallStep(h) ==
  \/ ResumeReset(h) \/ SpawnHost(h) \/ OpFails(h) \/ HandshakeFails(h)
  \/ HandshakeReady(h) \/ MarkRunning(h) \/ InsertEntry(h)

OpStep == StartInsert \/ ResumeEject \/ \E h \in Hosts : CallStep(h)

EndStep == StopSession \/ StopMarkEnded \/ DeleteSession \/ DeleteRow

PumpStep ==
  ChildReaped \/ \E h \in Hosts : PumpExited(h) \/ PumpReaps(h) \/ PumpEof(h)

BootStep ==
  \/ CoreBoot
  \/ HotPassNoSocket \/ HotPassDead \/ HotPassMismatch \/ HotPassBusy
  \/ HotPassReady \/ AdoptRunning \/ AdoptAttach \/ ColdPass \/ ColdPassNothing

Next == HostStep \/ OpStep \/ EndStep \/ PumpStep \/ BootStep \/ CoreCrash

Spec == Init /\ [][Next]_vars

Booting == core \in {"hot", "adopt", "attach", "cold", "resume"}

(* Tasks of a Core that is up run, its timeouts fire, a host that was        *)
(* spawned binds or dies.  Users, crashes and kills owe nothing.             *)
Fairness ==
  /\ WF_vars(BootStep /\ core # "down")
  /\ \A h \in Hosts : WF_vars(CallStep(h))
  /\ WF_vars(ResumeEject /\ core = "resume")
  /\ WF_vars(ChildReaped)

FairSpec == Spec /\ Fairness

-----------------------------------------------------------------------------
(* Properties.                                                              *)

(* While no start or resume is in flight, a finished row stays as it is     *)
(* until somebody resumes or deletes the session: no boot sweep, late pump  *)
(* or stop in flight revives it.  adopt.rs sets 'running' before it         *)
(* attaches for this reason.                                                *)
FinishedIsFinal ==
  [][row.exists /\ row.ended /\ row.status = "finished" /\ op = Idle
       => row' = row \/ op' # Idle \/ ~row'.exists]_vars

(* When a Core starts to serve, a row that says 'running' is of a host this *)
(* very Core holds an entry for.                                            *)
BootReconciles ==
  [][core # "serving" /\ core' = "serving" /\ row'.exists /\ ~row'.ended
       /\ row'.status = "running" => entry'.host = row'.cookie]_vars

(* The entry in the map is of the host whose cookie the row carries:        *)
(* neither adoption nor cold resume leaves the Core driving a host another  *)
(* incarnation of the session left behind, whatever call fails half-way and *)
(* whatever pump or stop comes late.  Resumes that overlap are excepted:    *)
(* cold_resume_existing has no guard, and the last to insert its entry need *)
(* not be the last to have written the row (actor.rs:1249-1467).            *)
EntryMatchesRow ==
  entry.host # 0 /\ row.exists /\ ~overlapped => entry.host = row.cookie

(* The sweep always ends, in a Core that serves or one that died: every     *)
(* handshake it starts is answered, refused or timed out.                   *)
BootCompletes == Booting ~> ~Booting

-----------------------------------------------------------------------------
(* The inductive invariant behind EntryMatchesRow, FinishedIsFinal and        *)
(* BootReconciles.                                                            *)

(* A call in flight that has none beside it finds the row as it left it, and  *)
(* the map without an entry.                                                  *)
OpMatchesRow ==
  \A h \in Hosts : op[h] # "idle" =>
    /\ h <= spawned
    /\ ~overlapped =>
         /\ \A g \in Hosts : op[g] # "idle" => g = h
         /\ entry = NoEntry
         /\ op[h] # "reset" /\ row.exists => row.cookie = h

(* Before its row was inserted, nothing was done for a session.               *)
FreshRow ==
  /\ row = NoRow => entry = NoEntry /\ op = Idle /\ spawned = 0
  /\ row.exists => row.cookie > 0

(* What a Core that sweeps has not begun yet, and what its one resume has.    *)
SweepQuiet ==
  /\ core \in {"down", "hot", "adopt", "attach", "cold"} => op = Idle
  /\ core # "serving" => ending = "no" /\ ~overlapped
  /\ core = "resume" /\ row.status = "running" => \E h \in Hosts : op[h] = "marked"
  /\ core \in {"down", "hot", "adopt", "attach"} => pump = {}
  /\ core = "adopt" => Adoptable
  /\ core = "attach" => row.exists

SessionInv ==
  TypeOK /\ EntryMatchesRow /\ OpMatchesRow /\ FreshRow /\ SweepQuiet

-----------------------------------------------------------------------------
(* Statements of the code's own comments that its behaviour does not keep.  *)

(* cold_resume.rs: the cold path runs "after the host's UDS has been        *)
(* determined to be unreachable".  A host that listens at the socket path   *)
(* and whose slot is taken has answered the sweep's Hello.                  *)
ColdPathOnlyUnreachable ==
  [][core = "cold" /\ row' # row =>
       ~(sock = row.cookie /\ host[sock] = "up" /\ sock \in slot)]_vars

(* adopt.rs: a socket that fails to be adopted has its session marked       *)
(* 'crashed'.                                                               *)
FailedAdoptionReadsCrashed ==
  [][core = "hot" /\ row' # row => row'.status = "crashed"]_vars
=============================================================================
