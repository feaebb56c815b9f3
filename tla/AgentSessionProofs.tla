-------------------------- MODULE AgentSessionProofs --------------------------
(***************************************************************************)
(* Proofs about AgentSession, for any number of hosts and of Core boots.   *)
(***************************************************************************)
EXTENDS AgentSession, TLAPS

Rows == [exists : BOOLEAN, ended : BOOLEAN, cookie : 0..MaxHosts,
         status : {"starting", "running", "finished", "crashed"}]

Phases == {"idle", "reset", "spawn", "wait", "ready", "marked"}

(* The initial state of a session satisfies the invariant.                  *)
LEMMA SessionInit == Init => SessionInv
<1> SUFFICES ASSUME Init PROVE SessionInv
  OBVIOUS
<1>1. 0 \in 0..MaxHosts
  BY MaxHostsAssumption
<1>2. boots \in 0..MaxBoots
  BY MaxBootsAssumption DEF Init
<1>3. row = NoRow /\ row \in [exists : BOOLEAN, ended : BOOLEAN, cookie : 0..MaxHosts,
                              status : {"starting", "running", "finished", "crashed"}]
  BY <1>1 DEF Init, NoRow
<1>4. op = Idle /\ entry = NoEntry /\ ~row.exists /\ row.status = "finished"
  BY <1>3 DEF Init, NoRow
<1>5. /\ op \in [Hosts -> Phases] /\ \A h \in Hosts : op[h] = "idle"
      /\ entry \in [host : 0..MaxHosts, child : BOOLEAN] /\ entry.host = 0
  BY <1>1 DEF Init, Idle, NoEntry, Phases
<1>6. TypeOK
  BY <1>1, <1>2, <1>3, <1>5 DEF Init, TypeOK, Phases
<1> QED
  BY <1>3, <1>4, <1>5, <1>6 DEF Init, SessionInv, TypeOK, EntryMatchesRow, OpMatchesRow, FreshRow,
     SweepQuiet

(* What the steps do that are not of a start or a resume: the calls in flight *)
(* keep their places, the row its cookie, and the entry goes or stays.        *)
Kept ==
  /\ UNCHANGED <<opVars, spawned>>
  /\ row'.exists => row.exists /\ row'.cookie = row.cookie
  /\ row' = NoRow => row = NoRow
  /\ entry' = NoEntry \/ (entry'.host = entry.host /\ (entry = NoEntry => entry' = NoEntry))

(* Such a step can only break the types and what the sweep relies on.         *)
LEMMA RestKeeps ==
  ASSUME SessionInv, Kept, TypeOK', SweepQuiet'
  PROVE  SessionInv'
<1>1. /\ op' = op /\ overlapped' = overlapped /\ spawned' = spawned
      /\ entry = NoEntry => entry' = NoEntry
      /\ entry'.host # 0 => entry'.host = entry.host
  BY DEF Kept, opVars, NoEntry
<1>2. EntryMatchesRow'
  BY <1>1 DEF SessionInv, EntryMatchesRow, Kept
<1>3. OpMatchesRow'
  BY <1>1 DEF SessionInv, OpMatchesRow, Kept
<1>4. FreshRow'
  BY <1>1 DEF SessionInv, FreshRow, Kept
<1> QED
  BY <1>2, <1>3, <1>4 DEF SessionInv

(* A step of a host changes neither the row nor anything of the Core.       *)
LEMMA HostKeeps == SessionInv /\ HostStep => SessionInv'
<1> SUFFICES ASSUME SessionInv, NEW h \in Hosts,
                    \/ BindSocket(h) \/ AgentExit(h) \/ HostExit(h)
                    \/ HostKilled(h) \/ ReleaseSlot(h)
             PROVE  SessionInv'
  BY DEF HostStep
<1>1. UNCHANGED <<row, spawned, coreVars>>
  BY DEF BindSocket, AgentExit, HostExit, HostKilled, ReleaseSlot, diskVars
<1>2. TypeOK'
  <2>1. host' \in [Hosts -> {"none", "spawned", "up", "dead"}]
    BY DEF BindSocket, AgentExit, HostExit, HostKilled, ReleaseSlot, SessionInv, TypeOK
  <2>2. agent' \in [Hosts -> {"run", "clean", "failed"}]
    BY DEF BindSocket, AgentExit, HostExit, HostKilled, ReleaseSlot, SessionInv, TypeOK
  <2>3. sock' \in 0..MaxHosts /\ slot' \subseteq Hosts
    <3>1. sock' \in {0, h, sock} /\ slot' \subseteq slot
      BY DEF BindSocket, AgentExit, HostExit, HostKilled, ReleaseSlot, diskVars
    <3>2. {0, h, sock} \subseteq 0..MaxHosts /\ slot \subseteq Hosts
      BY MaxHostsAssumption DEF SessionInv, TypeOK, Hosts
    <3> QED
      BY <3>1, <3>2
  <2>4. agent[h] \in {"run", "clean", "failed"} /\ info' \in {"none", "clean", "failed"}
    BY DEF BindSocket, AgentExit, HostExit, HostKilled, ReleaseSlot, diskVars, SessionInv, TypeOK
  <2> QED
    BY <1>1, <2>1, <2>2, <2>3, <2>4 DEF coreVars, opVars, SessionInv, TypeOK
<1>3. Kept /\ SweepQuiet'
  BY <1>1 DEF coreVars, opVars, Kept, SessionInv, SweepQuiet, Adoptable
<1> QED
  BY <1>2, <1>3, RestKeeps

(* What a call writes to a row that exists, and that one that does not is   *)
(* left as it is.                                                           *)
LEMMA WrittenRow ==
  ASSUME row \in Rows, NEW st \in {"starting", "running", "crashed"},
         row' = row \/ SetRow(SetStatus(st))
  PROVE  /\ row' \in Rows /\ row'.exists = row.exists /\ row'.cookie = row.cookie
         /\ row'.status \in {row.status, st}
         /\ (row' = NoRow => row = NoRow)
BY DEF SetRow, SetStatus, NoRow, Rows

(* The phases of the calls stay phases, and all of them rest again when the *)
(* last one returns.                                                        *)
LEMMA PhaseMoves ==
  ASSUME op \in [Hosts -> Phases], NEW h \in Hosts, NEW x \in Phases,
         op' = [op EXCEPT ![h] = x]
  PROVE  /\ op' \in [Hosts -> Phases] /\ op'[h] = x
         /\ \A g \in Hosts \ {h} : op'[g] = op[g]
         /\ x # "idle" => op' # Idle
BY DEF Idle

(* A step of start_session or cold_resume_existing once it is in flight.    *)
LEMMA CallKeeps == ASSUME SessionInv, NEW h \in Hosts, CallStep(h) PROVE SessionInv'
<1> USE MaxHostsAssumption
<1>1. /\ TypeOK /\ row \in Rows /\ op \in [Hosts -> Phases] /\ op[h] # "idle"
      /\ op # Idle /\ row # NoRow
  BY DEF SessionInv, TypeOK, Rows, Phases, FreshRow, CallStep, ResumeReset, SpawnHost, OpFails,
     HandshakeFails, HandshakeReady, MarkRunning, InsertEntry, Idle
<1>2. h \in 0..MaxHosts /\ h > 0
  BY DEF Hosts
<1>3. core \in {"serving", "resume"}
  BY <1>1 DEF SessionInv, TypeOK, SweepQuiet
<1>4. UNCHANGED <<boots, exiting, ending, waiting, info, agent, spawned, overlapped>>
  BY DEF CallStep, ResumeReset, SpawnHost, OpFails, HandshakeFails, HandshakeReady,
     MarkRunning, InsertEntry, GiveUp, Returns, diskVars, hostVars
<1>5. ASSUME row' \in Rows, row'.exists = row.exists, row' # NoRow,
             NEW x \in Phases, op' = [op EXCEPT ![h] = x],
             row'.exists => row'.cookie > 0,
             sock' \in {0, sock}, slot' \in {slot, slot \union {h}},
             host' \in [Hosts -> {"none", "spawned", "up", "dead"}],
             pump' \subseteq Hosts, entry' \in [host : 0..MaxHosts, child : BOOLEAN],
             core' \in {core, "serving"},
             core' = "resume" /\ row'.status = "running" =>
               x = "marked" \/ (op[h] # "marked" /\ row.status = "running"),
             ~overlapped /\ row.exists /\ x # "idle" /\ x # "reset" => row'.cookie = h,
             ~overlapped /\ x # "idle" => entry' = entry,
             ~overlapped /\ row.exists /\ entry'.host # 0 => entry'.host = row'.cookie
      PROVE  SessionInv'
  <2>1. /\ op' \in [Hosts -> Phases] /\ op'[h] = x
        /\ \A g \in Hosts \ {h} : op'[g] = op[g]
    BY <1>1, <1>5, PhaseMoves
  <2>2. sock' \in 0..MaxHosts /\ slot' \subseteq Hosts
    BY <1>1, <1>5 DEF TypeOK
  <2>3. core' \in {"serving", "resume"}
    BY <1>3, <1>5
  <2>4. TypeOK'
    BY <1>1, <1>4, <1>5, <2>1, <2>2, <2>3 DEF TypeOK, Rows, Phases
  <2>5. EntryMatchesRow'
    BY <1>4, <1>5 DEF EntryMatchesRow
  <2>6. OpMatchesRow'
    <3> SUFFICES ASSUME NEW g \in Hosts, op'[g] # "idle"
                 PROVE  /\ g <= spawned'
                        /\ ~overlapped' =>
                             /\ \A i \in Hosts : op'[i] # "idle" => i = g
                             /\ entry' = NoEntry
                             /\ op'[g] # "reset" /\ row'.exists => row'.cookie = g
      BY DEF OpMatchesRow
    <3>1. h <= spawned /\ op[g] # "idle" /\ g <= spawned
      BY <1>1, <2>1 DEF SessionInv, OpMatchesRow
    <3>2. ASSUME ~overlapped
          PROVE  g = h /\ entry = NoEntry /\ \A i \in Hosts : op'[i] # "idle" => i = g
      BY <1>1, <2>1, <3>1, <3>2 DEF SessionInv, OpMatchesRow
    <3> QED
      BY <1>4, <1>5, <2>1, <3>1, <3>2
  <2>7. FreshRow'
    BY <1>5 DEF FreshRow
  <2>8. SweepQuiet'
    <3>1. core' = "resume" => core = "resume"
      BY <1>3, <1>5
    <3>2. core' = "resume" => ending' = "no" /\ ~overlapped'
      BY <1>4, <3>1 DEF SessionInv, SweepQuiet
    <3>3. core' = "resume" /\ row'.status = "running" => \E g \in Hosts : op'[g] = "marked"
      <4>1. core' = "resume" /\ row'.status = "running" /\ x # "marked"
              => \E g \in Hosts : g # h /\ op[g] = "marked"
        BY <1>5, <3>1 DEF SessionInv, SweepQuiet
      <4> QED
        BY <2>1, <4>1
    <3> QED
      BY <2>3, <3>2, <3>3 DEF SweepQuiet
  <2> QED
    BY <2>4, <2>5, <2>6, <2>7, <2>8 DEF SessionInv
<1>6. CASE ResumeReset(h)
  <2>1. /\ row' \in Rows /\ row'.exists = row.exists /\ (row.exists => row'.cookie = h)
        /\ row' # NoRow /\ row'.status \in {row.status, "starting"}
    BY <1>1, <1>2, <1>6 DEF ResumeReset, SetRow, Rows, NoRow
  <2>2. ~overlapped => entry.host = 0
    BY <1>1 DEF SessionInv, OpMatchesRow, NoEntry
  <2>3. op[h] = "reset" /\ UNCHANGED <<host, slot, pump, entry, core>> /\ sock' = 0
        /\ op' = [op EXCEPT ![h] = "spawn"]
    BY <1>6 DEF ResumeReset, hostVars
  <2> QED
    BY <1>1, <1>2, <1>5, <2>1, <2>2, <2>3 DEF TypeOK, Phases
<1>7. CASE SpawnHost(h)
  <2>1. /\ op[h] = "spawn" /\ UNCHANGED <<row, sock, slot, pump, entry, core>>
        /\ op' = [op EXCEPT ![h] = "wait"]
        /\ host' \in [Hosts -> {"none", "spawned", "up", "dead"}]
    BY <1>1, <1>7 DEF SpawnHost, diskVars, TypeOK
  <2> QED
    BY <1>1, <1>5, <2>1 DEF TypeOK, Phases, SessionInv, OpMatchesRow, EntryMatchesRow, FreshRow
<1>8. CASE OpFails(h)
  <2>1. /\ op[h] # "marked" /\ UNCHANGED <<row, sock, slot, pump, entry, host>>
        /\ op' = [op EXCEPT ![h] = "idle"] /\ core' = "serving"
    BY <1>3, <1>8 DEF OpFails, Returns, Done, diskVars, hostVars
  <2> QED
    BY <1>1, <1>5, <2>1 DEF TypeOK, Phases, SessionInv, EntryMatchesRow, FreshRow
<1>9. CASE HandshakeFails(h)
  <2>1. /\ UNCHANGED <<sock, slot, pump, entry>> /\ (row' = row \/ SetRow(SetStatus("crashed")))
        /\ op' = [op EXCEPT ![h] = "idle"] /\ core' = "serving"
        /\ host' \in [Hosts -> {"none", "spawned", "up", "dead"}]
    BY <1>1, <1>3, <1>9 DEF HandshakeFails, GiveUp, Returns, Done, TypeOK
  <2>2. /\ row' \in Rows /\ row'.exists = row.exists /\ row'.cookie = row.cookie
        /\ row' # NoRow
    BY <1>1, <2>1, WrittenRow
  <2> QED
    BY <1>1, <1>5, <2>1, <2>2 DEF TypeOK, Phases, SessionInv, EntryMatchesRow, FreshRow
<1>10. CASE HandshakeReady(h)
  <2>1. /\ op[h] = "wait" /\ UNCHANGED <<row, sock, host, pump, entry, core>>
        /\ op' = [op EXCEPT ![h] = "ready"] /\ slot' = slot \union {h}
    BY <1>10 DEF HandshakeReady, diskVars
  <2> QED
    BY <1>1, <1>5, <2>1 DEF TypeOK, Phases, SessionInv, OpMatchesRow, EntryMatchesRow, FreshRow
<1>11. CASE MarkRunning(h)
  <2>1. /\ op[h] = "ready" /\ UNCHANGED <<sock, slot, host, pump, entry, core>>
        /\ SetRow(SetStatus("running")) /\ op' = [op EXCEPT ![h] = "marked"]
    BY <1>11 DEF MarkRunning, hostVars
  <2>2. /\ row' \in Rows /\ row'.exists = row.exists /\ row'.cookie = row.cookie
        /\ row' # NoRow
    BY <1>1, <2>1, WrittenRow
  <2> QED
    BY <1>1, <1>5, <2>1, <2>2 DEF TypeOK, Phases, SessionInv, OpMatchesRow, EntryMatchesRow,
       FreshRow
<1>12. CASE InsertEntry(h)
  <2>1. /\ op[h] = "marked" /\ UNCHANGED <<row, sock, slot, host>>
        /\ entry' = [host |-> h, child |-> TRUE] /\ pump' = pump \union {h}
        /\ op' = [op EXCEPT ![h] = "idle"] /\ core' = "serving"
    BY <1>3, <1>12 DEF InsertEntry, Returns, Done, diskVars, hostVars
  <2>2. ~overlapped /\ row.exists => row.cookie = h
    BY <2>1 DEF SessionInv, OpMatchesRow
  <2>3. entry' \in [host : 0..MaxHosts, child : BOOLEAN] /\ entry'.host = h
    BY <1>2, <2>1
  <2>4. pump' \subseteq Hosts
    BY <1>1, <2>1 DEF TypeOK
  <2> QED
    BY <1>1, <1>5, <2>1, <2>2, <2>3, <2>4 DEF TypeOK, Phases, SessionInv, FreshRow
<1> QED
  BY <1>6, <1>7, <1>8, <1>9, <1>10, <1>11, <1>12 DEF CallStep

(* A step of start_session or cold_resume_existing.                         *)
LEMMA OpKeeps == SessionInv /\ OpStep => SessionInv'
<1> SUFFICES ASSUME SessionInv, OpStep PROVE SessionInv'
  OBVIOUS
<1> USE MaxHostsAssumption
<1>0. /\ TypeOK /\ op \in [Hosts -> Phases] /\ \A h \in Hosts : Idle[h] = "idle"
  BY DEF SessionInv, TypeOK, Phases, Idle
<1>1. CASE StartInsert
  <2>1. /\ spawned = 0 /\ op = Idle /\ entry = NoEntry /\ 1 \in Hosts /\ spawned' = 1
        /\ row' = [exists |-> TRUE, status |-> "starting", ended |-> FALSE, cookie |-> 1]
        /\ op' = [op EXCEPT ![1] = "spawn"] /\ core = "serving"
        /\ UNCHANGED <<sock, info, host, agent, slot, core, boots, entry, pump, exiting,
                       overlapped, ending, waiting>>
    BY <1>1 DEF StartInsert, SessionInv, FreshRow, Hosts
  <2>2. /\ op' \in [Hosts -> Phases] /\ op'[1] = "spawn"
        /\ \A g \in Hosts \ {1} : op'[g] = "idle"
    BY <1>0, <2>1, PhaseMoves DEF Phases
  <2>3. row' \in Rows /\ row' # NoRow /\ row'.cookie = 1 /\ row'.exists
    BY <2>1 DEF Rows, NoRow, Hosts
  <2>4. TypeOK'
    BY <1>0, <2>1, <2>2, <2>3 DEF TypeOK, Rows, Phases, Hosts
  <2>5. entry'.host = 0
    BY <2>1 DEF NoEntry
  <2> QED
    BY <2>1, <2>2, <2>3, <2>4, <2>5 DEF SessionInv, EntryMatchesRow, OpMatchesRow, FreshRow,
       SweepQuiet
<1>2. CASE ResumeEject
  <2> DEFINE n == spawned + 1
  <2>1. /\ n \in Hosts /\ spawned' = n /\ row.exists /\ entry' = NoEntry
        /\ op' = [op EXCEPT ![n] = "reset"] /\ core \in {"serving", "resume"}
        /\ overlapped' = (op # Idle) /\ (core = "resume" => op = Idle)
        /\ UNCHANGED <<diskVars, host, agent, slot, core, boots, pump, exiting, ending, waiting>>
    BY <1>0, <1>2 DEF ResumeEject, Ejected, TypeOK, Hosts
  <2>2. /\ op' \in [Hosts -> Phases] /\ op'[n] = "reset"
        /\ \A g \in Hosts \ {n} : op'[g] = op[g]
    BY <1>0, <2>1, PhaseMoves DEF Phases
  <2>3. NoEntry \in [host : 0..MaxHosts, child : BOOLEAN] /\ NoEntry.host = 0
    BY DEF NoEntry
  <2>4. row # NoRow
    BY <2>1 DEF NoRow
  <2>5. TypeOK'
    BY <1>0, <2>1, <2>2, <2>3 DEF TypeOK, Phases, Hosts, diskVars
  <2>6. OpMatchesRow'
    <3>1. \A g \in Hosts : op'[g] # "idle" => g = n \/ (op[g] # "idle" /\ g <= spawned)
      BY <2>2 DEF SessionInv, OpMatchesRow
    <3>2. ~overlapped' => \A g \in Hosts : op'[g] # "idle" => g = n
      BY <1>0, <2>1, <2>2
    <3>3. \A g \in Hosts : op'[g] # "idle" => g <= spawned'
      BY <1>0, <2>1, <3>1 DEF Hosts, TypeOK
    <3> QED
      BY <2>1, <2>2, <3>2, <3>3 DEF OpMatchesRow
  <2>7. core = "resume" /\ row.status = "running" => FALSE
    BY <1>0, <2>1 DEF SessionInv, SweepQuiet
  <2>8. SweepQuiet'
    BY <2>1, <2>7 DEF SessionInv, SweepQuiet, diskVars
  <2> QED
    BY <2>1, <2>3, <2>4, <2>5, <2>6, <2>8 DEF SessionInv, EntryMatchesRow, FreshRow, diskVars
<1> QED
  BY <1>1, <1>2, CallKeeps DEF OpStep

(* The row a deletion leaves behind, and a row marked 'crashed'.            *)
LEMMA DeletedRow == Deleted \in Rows /\ Deleted.exists = FALSE /\ Deleted.ended = TRUE
<1>1. NoRow \in Rows
  BY MaxHostsAssumption DEF NoRow, Rows
<1>2. NoRow.exists = FALSE
  BY DEF NoRow
<1> QED
  BY <1>1, <1>2 DEF Deleted, Rows

(* A row marked crashed keeps its cookie.                                   *)
LEMMA CrashedRow ==
  ASSUME row \in Rows
  PROVE  MarkCrashed \in Rows /\ MarkCrashed.exists = row.exists /\ MarkCrashed.cookie = row.cookie
BY DEF MarkCrashed, Rows

(* A step of stop_session, of delete_session or of a read pump's end.       *)
LEMMA EndKeeps == SessionInv /\ (EndStep \/ PumpStep) => SessionInv'
<1> SUFFICES ASSUME SessionInv, EndStep \/ PumpStep PROVE SessionInv'
  OBVIOUS
<1> USE MaxHostsAssumption DEF hostVars, diskVars, opVars
<1>0. TypeOK /\ SweepQuiet /\ row \in Rows /\ entry \in [host : 0..MaxHosts, child : BOOLEAN]
  BY DEF SessionInv, TypeOK, Rows
<1>1. CASE StopSession
  <2>1. /\ host' \in [Hosts -> {"none", "spawned", "up", "dead"}] /\ sock' = 0
        /\ entry' = NoEntry /\ ending' = "stop" /\ core = "serving"
        /\ UNCHANGED <<row, info, agent, slot, spawned, core, boots, pump, exiting, opVars, waiting>>
    BY <1>0, <1>1 DEF StopSession, Teardown, TypeOK
  <2>2. TypeOK'
    BY <1>0, <2>1 DEF TypeOK, NoEntry
  <2> QED
    BY <2>1, <2>2, RestKeeps DEF Kept, SweepQuiet
<1>2. CASE StopMarkEnded
  <2>1. /\ row' \in Rows /\ row'.exists = row.exists /\ row'.cookie = row.cookie
        /\ (row' = NoRow => row = NoRow)
    BY <1>0, <1>2 DEF StopMarkEnded, SetRow, MarkEnded, NoRow, Rows
  <2>2. /\ UNCHANGED <<sock, info, hostVars, core, boots, entry, pump, exiting, opVars, waiting>>
        /\ ending' = "no" /\ core = "serving"
    BY <1>0, <1>2 DEF StopMarkEnded, SweepQuiet
  <2>3. TypeOK'
    BY <1>0, <2>1, <2>2 DEF TypeOK, Rows
  <2> QED
    BY <2>1, <2>2, <2>3, RestKeeps DEF Kept, SweepQuiet
<1>3. CASE DeleteSession
  <2>1. host' \in [Hosts -> {"none", "spawned", "up", "dead"}] /\ sock' \in {0, sock}
    BY <1>0, <1>3 DEF DeleteSession, Teardown, TypeOK
  <2>2. entry' \in {NoEntry, entry}
    BY <1>3 DEF DeleteSession, Teardown
  <2>3. /\ UNCHANGED <<row, agent, slot, spawned, core, boots, pump, exiting, opVars, waiting>>
        /\ info' = "none" /\ ending' = "delete" /\ core = "serving"
    BY <1>3 DEF DeleteSession
  <2>4. entry' \in [host : 0..MaxHosts, child : BOOLEAN] /\ sock' \in 0..MaxHosts
    <3>1. NoEntry \in [host : 0..MaxHosts, child : BOOLEAN]
      BY DEF NoEntry
    <3>2. {0, sock} \subseteq 0..MaxHosts
      BY <1>0 DEF TypeOK
    <3> QED
      BY ONLY <1>0, <2>1, <2>2, <3>1, <3>2
  <2>5. TypeOK'
    BY <1>0, <2>1, <2>3, <2>4 DEF TypeOK
  <2> QED
    BY <2>2, <2>3, <2>5, RestKeeps DEF Kept, SweepQuiet
<1>4. CASE DeleteRow
  <2>1. row' \in Rows /\ ~row'.exists /\ row' # NoRow
    <3>1. Deleted \in Rows /\ Deleted.exists = FALSE /\ Deleted.ended = TRUE
      BY DeletedRow
    <3>2. NoRow.ended = FALSE
      BY DEF NoRow
    <3>3. row' = Deleted
      BY <1>4 DEF DeleteRow
    <3> QED
      BY <3>1, <3>2, <3>3
  <2>2. /\ UNCHANGED <<sock, info, hostVars, core, boots, entry, pump, exiting, opVars, waiting>>
        /\ ending' = "no" /\ core = "serving"
    BY <1>0, <1>4 DEF DeleteRow, SweepQuiet
  <2>3. TypeOK'
    BY <1>0, <2>1, <2>2 DEF TypeOK, Rows
  <2> QED
    BY <2>1, <2>2, <2>3, RestKeeps DEF Kept, SweepQuiet
<1>5. ASSUME NEW h \in Hosts, PumpExited(h) PROVE SessionInv'
  <2>1. /\ row' \in Rows /\ row'.exists = row.exists /\ row'.cookie = row.cookie
        /\ (row'.status = "running" => row.status = "running")
        /\ (row' = NoRow => row = NoRow)
    BY <1>0, <1>5 DEF PumpExited, SetRow, MarkEnded, NoRow, Rows
  <2>2. /\ UNCHANGED <<sock, info, hostVars, core, boots, entry, opVars, ending, waiting>>
        /\ pump' \subseteq pump /\ pump # {} /\ exiting' \subseteq Hosts
    BY <1>0, <1>5 DEF PumpExited, TypeOK
  <2>3. TypeOK'
    BY <1>0, <2>1, <2>2 DEF TypeOK, Rows
  <2>4. SweepQuiet'
    BY <1>0, <2>1, <2>2 DEF SweepQuiet
  <2> QED
    BY <2>1, <2>2, <2>3, <2>4, RestKeeps DEF Kept
<1>6. ASSUME NEW h \in Hosts, PumpReaps(h) PROVE SessionInv'
  <2>1. sock' \in {0, sock} /\ waiting' \in {waiting, entry.host}
    BY <1>6 DEF PumpReaps
  <2>2. entry' \in {entry, [entry EXCEPT !.child = FALSE]}
    BY <1>6 DEF PumpReaps
  <2>3. entry = NoEntry => entry' = entry
    BY <1>6 DEF PumpReaps, NoEntry
  <2>4. entry' \in [host : 0..MaxHosts, child : BOOLEAN] /\ entry'.host = entry.host
    BY ONLY <1>0, <2>2
  <2>5. UNCHANGED <<row, info, hostVars, core, boots, pump, opVars, ending>>
        /\ exiting' \subseteq exiting
    BY <1>6 DEF PumpReaps
  <2>6. TypeOK'
    BY <1>0, <2>1, <2>4, <2>5 DEF TypeOK
  <2>7. SweepQuiet'
    BY <1>0, <2>5 DEF SweepQuiet, Adoptable
  <2> QED
    BY <2>3, <2>4, <2>5, <2>6, <2>7, RestKeeps DEF Kept
<1>7. CASE ChildReaped
  <2>1. UNCHANGED <<row, info, hostVars, core, boots, entry, pump, exiting, opVars, ending>>
        /\ waiting' = 0 /\ sock' = 0
    BY <1>7 DEF ChildReaped
  <2>2. TypeOK'
    BY <1>0, <2>1 DEF TypeOK
  <2>3. SweepQuiet'
    BY <1>0, <2>1 DEF SweepQuiet, Adoptable
  <2> QED
    BY <2>1, <2>2, <2>3, RestKeeps DEF Kept
<1>8. ASSUME NEW h \in Hosts, PumpEof(h) PROVE SessionInv'
  <2>1. /\ UNCHANGED <<row, sock, info, hostVars, core, boots, entry, exiting, opVars, ending, waiting>>
        /\ pump' \subseteq pump
    BY <1>8 DEF PumpEof
  <2>2. TypeOK'
    BY <1>0, <2>1 DEF TypeOK
  <2>3. SweepQuiet'
    BY <1>0, <2>1 DEF SweepQuiet, Adoptable
  <2> QED
    BY <2>1, <2>2, <2>3, RestKeeps DEF Kept
<1> QED
  BY <1>1, <1>2, <1>3, <1>4, <1>5, <1>6, <1>7, <1>8 DEF EndStep, PumpStep

(* A step of the boot sweep, and a crash of the Core.                       *)
LEMMA BootKeeps == SessionInv /\ (BootStep \/ CoreCrash) => SessionInv'
<1> SUFFICES ASSUME SessionInv, BootStep \/ CoreCrash PROVE SessionInv'
  OBVIOUS
<1> USE MaxHostsAssumption, MaxBootsAssumption DEF hostVars, diskVars, opVars, bootFrame
<1>0. TypeOK /\ SweepQuiet /\ row \in Rows
  BY DEF SessionInv, TypeOK, Rows
<1>1. CASE CoreBoot
  <2>1. /\ UNCHANGED <<diskVars, hostVars, entry, pump, exiting, opVars, ending, waiting>>
        /\ core = "down" /\ core' = "hot" /\ boots' \in 0..MaxBoots
    BY <1>0, <1>1 DEF CoreBoot, TypeOK
  <2>2. TypeOK'
    BY <1>0, <2>1 DEF TypeOK
  <2> QED
    BY <1>0, <2>1, <2>2, RestKeeps DEF Kept, SweepQuiet
<1>2. CASE HotPassNoSocket \/ HotPassBusy \/ ColdPassNothing
  <2>1. /\ UNCHANGED <<row, slot, bootFrame>> /\ sock' \in {0, sock}
        /\ core \in {"hot", "cold"} /\ core' \in {"cold", "serving"}
    BY <1>2 DEF HotPassNoSocket, HotPassBusy, ColdPassNothing
  <2>2. TypeOK'
    BY <1>0, <2>1 DEF TypeOK
  <2> QED
    BY <1>0, <2>1, <2>2, RestKeeps DEF Kept, SweepQuiet
<1>3. CASE HotPassDead \/ HotPassMismatch
  <2>1. /\ row \in Rows /\ row.exists /\ row' = MarkCrashed /\ sock' \in {0, sock}
        /\ core = "hot" /\ core' = "cold" /\ UNCHANGED <<slot, bootFrame>>
    BY <1>0, <1>3 DEF HotPassDead, HotPassMismatch, Adoptable
  <2>2. /\ row' \in Rows /\ row'.exists /\ row'.cookie = row.cookie /\ row' # NoRow
    <3>1. /\ MarkCrashed \in Rows /\ MarkCrashed.exists = row.exists
          /\ MarkCrashed.cookie = row.cookie
      BY <2>1, CrashedRow
    <3>2. NoRow.exists = FALSE
      BY DEF NoRow
    <3> QED
      BY ONLY <2>1, <3>1, <3>2
  <2>3. TypeOK'
    BY <1>0, <2>1, <2>2 DEF TypeOK, Rows
  <2> QED
    BY <1>0, <2>1, <2>2, <2>3, RestKeeps DEF Kept, SweepQuiet
<1>4. CASE HotPassReady
  <2>1. /\ slot' = slot \union {sock} /\ sock # 0 /\ core = "hot" /\ core' = "adopt"
        /\ UNCHANGED <<diskVars, bootFrame>> /\ Adoptable
    BY <1>4 DEF HotPassReady
  <2>2. sock \in Hosts
    BY <1>0, <2>1 DEF TypeOK, Hosts
  <2>3. TypeOK'
    BY <1>0, <2>1, <2>2 DEF TypeOK
  <2> QED
    BY <1>0, <2>1, <2>3, RestKeeps DEF Kept, SweepQuiet, Adoptable
<1>5. CASE AdoptRunning
  <2>1. /\ row.exists /\ row' \in Rows /\ row'.exists /\ row'.cookie = row.cookie
        /\ row' # NoRow
    BY <1>0, <1>5 DEF AdoptRunning, SetStatus, SweepQuiet, Adoptable, Rows, NoRow
  <2>2. core = "adopt" /\ core' = "attach" /\ UNCHANGED <<sock, slot, bootFrame>>
    BY <1>5 DEF AdoptRunning
  <2>3. TypeOK'
    BY <1>0, <2>1, <2>2 DEF TypeOK, Rows
  <2> QED
    BY <1>0, <2>1, <2>2, <2>3, RestKeeps DEF Kept, SweepQuiet
<1>6. CASE AdoptAttach
  <2>1. row.exists /\ row # NoRow /\ row.cookie \in Hosts
    BY <1>0, <1>6 DEF AdoptAttach, SweepQuiet, SessionInv, FreshRow, Rows, Hosts, NoRow
  <2>2. /\ entry' = [host |-> row.cookie, child |-> FALSE] /\ pump' = pump \union {row.cookie}
        /\ core = "attach" /\ core' = "cold"
        /\ UNCHANGED <<diskVars, hostVars, boots, exiting, opVars, ending, waiting>>
    BY <1>6 DEF AdoptAttach
  <2>3. entry' \in [host : 0..MaxHosts, child : BOOLEAN] /\ entry'.host = row.cookie
    BY <2>1, <2>2 DEF Hosts
  <2>4. TypeOK'
    BY <1>0, <2>1, <2>2, <2>3 DEF TypeOK
  <2>5. op = Idle
    BY <1>0, <2>2 DEF SweepQuiet
  <2>6. OpMatchesRow'
    BY <2>2, <2>5 DEF OpMatchesRow, Idle
  <2>7. FreshRow' /\ EntryMatchesRow'
    BY <2>1, <2>2, <2>3 DEF SessionInv, FreshRow, EntryMatchesRow
  <2>8. SweepQuiet'
    BY <1>0, <2>2 DEF SweepQuiet
  <2> QED
    BY <2>4, <2>6, <2>7, <2>8 DEF SessionInv
<1>7. CASE ColdPass
  <2>1. /\ row.exists /\ row' \in Rows /\ row'.exists /\ row'.cookie = row.cookie
        /\ row' # NoRow /\ row'.status # "running"
    BY <1>0, <1>7 DEF ColdPass, ColdStatus, Live, NoRow, Rows
  <2>2. core = "cold" /\ core' \in {"resume", "serving"} /\ UNCHANGED <<sock, slot, bootFrame>>
    BY <1>7 DEF ColdPass
  <2>3. TypeOK'
    BY <1>0, <2>1, <2>2 DEF TypeOK, Rows
  <2> QED
    BY <1>0, <2>1, <2>2, <2>3, RestKeeps DEF Kept, SweepQuiet
<1>8. CASE CoreCrash
  <2>1. /\ UNCHANGED <<diskVars, hostVars, boots>> /\ core' = "down" /\ entry' = NoEntry
        /\ pump' = {} /\ exiting' = {} /\ op' = Idle /\ ~overlapped' /\ ending' = "no"
        /\ waiting' = 0
    BY <1>8 DEF CoreCrash
  <2>2. Idle \in [Hosts -> Phases] /\ \A h \in Hosts : Idle[h] = "idle"
    BY SMTT(30) DEF Idle, Phases
  <2>3. NoEntry \in [host : 0..MaxHosts, child : BOOLEAN] /\ NoEntry.host = 0
    BY DEF NoEntry
  <2>4. TypeOK'
    BY <1>0, <1>8, <2>1, <2>2, <2>3 DEF CoreCrash, TypeOK, Phases
  <2>5. OpMatchesRow'
    BY <2>1, <2>2 DEF OpMatchesRow
  <2>6. FreshRow' /\ EntryMatchesRow' /\ SweepQuiet'
    BY <2>1, <2>3 DEF SessionInv, FreshRow, EntryMatchesRow, SweepQuiet
  <2> QED
    BY <2>4, <2>5, <2>6 DEF SessionInv
<1> QED
  BY <1>1, <1>2, <1>3, <1>4, <1>5, <1>6, <1>7, <1>8 DEF BootStep

(* SessionInv holds at the start and every step keeps it.                   *)
LEMMA SessionInvariant == Spec => []SessionInv
<1>1. SessionInv /\ [Next]_vars => SessionInv'
  <2> SUFFICES ASSUME SessionInv, [Next]_vars PROVE SessionInv'
    OBVIOUS
  <2>1. CASE UNCHANGED vars
    <3>1. TypeOK'
      BY <2>1 DEF vars, diskVars, hostVars, coreVars, opVars, SessionInv, TypeOK
    <3>2. SweepQuiet' /\ Kept
      BY <2>1 DEF vars, diskVars, hostVars, coreVars, opVars, SessionInv, SweepQuiet, Adoptable,
         Kept
    <3> QED
      BY <3>1, <3>2, RestKeeps
  <2> QED
    BY <2>1, HostKeeps, OpKeeps, EndKeeps, BootKeeps DEF Next
<1> QED
  BY <1>1, SessionInit, PTL DEF Spec

(* Row, entry, hosts, slot, operation in flight and sweep keep their types,  *)
(* for any number of hosts and of boots.                                     *)
THEOREM SessionTypesHold == Spec => []TypeOK
<1>1. SessionInv => TypeOK
  BY DEF SessionInv
<1> QED
  BY <1>1, SessionInvariant, PTL

(* Unless resumes overlap, the entry in the supervisor's map is of the host  *)
(* whose cookie the row carries, across starts, resumes that fail at any     *)
(* step, deletions, crashes and adoptions.                                   *)
THEOREM EntryIsOfRow == Spec => []EntryMatchesRow
<1>1. SessionInv => EntryMatchesRow
  BY DEF SessionInv
<1> QED
  BY <1>1, SessionInvariant, PTL

(* No sweep, late pump or stop in flight revives a finished row while no     *)
(* start or resume is in flight.                                             *)
THEOREM FinishedStays == Spec => FinishedIsFinal
<1> DEFINE Final == row.exists /\ row.ended /\ row.status = "finished" /\ op = Idle
                      => row' = row \/ op' # Idle \/ ~row'.exists
<1>1. SessionInv /\ [Next]_vars => [Final]_vars
  <2> SUFFICES ASSUME SessionInv, Next, row.exists, row.ended, row.status = "finished",
                      op = Idle
               PROVE  row' = row \/ op' # Idle \/ ~row'.exists
    OBVIOUS
  <2>1. MarkEnded = row
    BY DEF MarkEnded, SessionInv, TypeOK
  <2>2. CASE HostStep
    BY <2>2 DEF HostStep, BindSocket, AgentExit, HostExit, HostKilled, ReleaseSlot, diskVars
  <2>3. CASE OpStep
    <3>1. \A h \in Hosts : ~CallStep(h)
      BY DEF CallStep, ResumeReset, SpawnHost, OpFails, HandshakeFails, HandshakeReady,
         MarkRunning, InsertEntry, Idle
    <3>2. CASE ResumeEject
      BY <3>2 DEF ResumeEject, diskVars
    <3>3. CASE StartInsert
      BY <3>3 DEF StartInsert, NoRow
    <3> QED
      BY <2>3, <3>1, <3>2, <3>3 DEF OpStep
  <2>4. CASE EndStep \/ PumpStep
    BY <2>1, <2>4 DEF EndStep, PumpStep, StopSession, StopMarkEnded, DeleteSession, DeleteRow,
       Deleted, NoRow, ChildReaped, PumpExited, PumpReaps, PumpEof, SetRow, diskVars
  <2>5. CASE BootStep \/ CoreCrash
    BY <2>5 DEF BootStep, CoreCrash, CoreBoot, HotPassNoSocket, HotPassDead, HotPassMismatch,
       HotPassBusy, HotPassReady, AdoptRunning, AdoptAttach, ColdPass, ColdPassNothing,
       Live, Adoptable, SessionInv, SweepQuiet, diskVars
  <2> QED
    BY <2>2, <2>3, <2>4, <2>5 DEF Next
<1> QED
  BY <1>1, SessionInvariant, PTL DEF Spec, FinishedIsFinal

(* A Core that begins to serve has an entry for the host of every row that   *)
(* says 'running'.                                                           *)
THEOREM BootLeavesNoGhost == Spec => BootReconciles
<1> DEFINE Served == core # "serving" /\ core' = "serving" /\ row'.exists /\ ~row'.ended
                       /\ row'.status = "running" => entry'.host = row'.cookie
<1>1. SessionInv /\ [Next]_vars => [Served]_vars
  <2> SUFFICES ASSUME SessionInv, SessionInv', Next, core # "serving", core' = "serving",
                      row'.exists, ~row'.ended, row'.status = "running"
               PROVE  entry'.host = row'.cookie
    BY HostKeeps, OpKeeps, EndKeeps, BootKeeps DEF Next
  <2>1. CASE OpStep
    <3>1. PICK h \in Hosts : CallStep(h)
      BY <2>1 DEF OpStep, StartInsert, ResumeEject
    <3>2. core = "resume" /\ ~overlapped /\ op[h] # "idle"
      BY <3>1 DEF SessionInv, SweepQuiet, TypeOK, Idle, CallStep, ResumeReset, SpawnHost, OpFails,
         HandshakeFails, HandshakeReady, MarkRunning, InsertEntry
    <3>3. \A g \in Hosts : op[g] = "marked" => g = h
      BY <3>2 DEF SessionInv, OpMatchesRow
    <3>4. CASE InsertEntry(h)
      BY <3>2, <3>4 DEF InsertEntry, diskVars, SessionInv, OpMatchesRow
    <3>5. CASE OpFails(h) \/ HandshakeFails(h)
      <4>1. op[h] # "marked" /\ row'.status \in {row.status, "crashed"}
        BY <3>5 DEF OpFails, HandshakeFails, GiveUp, SetRow, SetStatus, diskVars, SessionInv, TypeOK
      <4> QED
        BY <3>2, <3>3, <4>1 DEF SessionInv, SweepQuiet
    <3> QED
      BY <3>1, <3>4, <3>5 DEF CallStep, ResumeReset, SpawnHost, HandshakeReady, MarkRunning
  <2>2. CASE ColdPass
    BY <2>2 DEF ColdPass, SessionInv, TypeOK
  <2>3. CASE ColdPassNothing
    BY <2>3 DEF ColdPassNothing, Live, bootFrame, diskVars, SessionInv, EntryMatchesRow,
       SweepQuiet
  <2> QED
    BY <2>1, <2>2, <2>3 DEF Next, HostStep, BindSocket, AgentExit, HostExit, HostKilled,
       ReleaseSlot, EndStep, PumpStep, StopSession, StopMarkEnded, DeleteSession, DeleteRow,
       ChildReaped, PumpExited, PumpReaps, PumpEof, BootStep, CoreCrash, CoreBoot, HotPassNoSocket,
       HotPassDead, HotPassMismatch, HotPassBusy, HotPassReady, AdoptRunning, AdoptAttach,
       coreVars
<1> QED
  BY <1>1, SessionInvariant, PTL DEF Spec, BootReconciles
=============================================================================
