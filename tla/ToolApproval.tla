---------------------------- MODULE ToolApproval ----------------------------
(***************************************************************************)
(* Tool approvals of the sessions of one workarea                          *)
(* (crates/core/src/agent_supervisor): the read pump's AwaitingApproval    *)
(* branch, the waiter it parks for a question only a user may answer,      *)
(* resolve_approval, and the workarea's edit mutex.                        *)
(*                                                                         *)
(* An agent shows one prompt at a time and takes the next line on its      *)
(* stdin for the answer.  The injected bytes carry no approval id, so they *)
(* answer whatever prompt is on the screen when they arrive.               *)
(***************************************************************************)
EXTENDS Naturals, Sequences, FiniteSetsExt

CONSTANTS
  Sessions,            \* sessions that share the workarea
  Calls,               \* tool calls an agent may ask for
  Modes,               \* permission modes in use
  Bypass,              \* bypass_destructive_guard of the effective row
  MaxPrompts,          \* prompts the agents show between them
  MaxGates,            \* AwaitingApproval events dispatched
  MaxCrashes           \* Core crashes, each followed by adoption

Call == [class : {"Safe", "Restricted", "Dangerous", "ReadOnly"},
         write : BOOLEAN, denied : BOOLEAN, destructive : BOOLEAN]

ASSUME SessionsAssumption == IsFiniteSet(Sessions)
ASSUME CallsAssumption == Calls \subseteq Call
ASSUME ModesAssumption == Modes \subseteq {"strict", "normal", "auto", "yolo"}
ASSUME BypassAssumption == Bypass \in BOOLEAN
ASSUME BoundsAssumption == /\ MaxPrompts \in Nat
                           /\ MaxGates \in Nat
                           /\ MaxCrashes \in Nat

VARIABLES
  mode,                \* session -> permission_mode of its row
  resolver,            \* session -> mode in the pump's PermissionResolver
  alive,               \* sessions whose agent runs, read by a pump
  mapped,              \* sessions in the supervisor's map
  adopted,             \* sessions this Core adopted: their entry has no Child
  asked,               \* session -> calls its agent has prompted for
  seen,                \* session -> prompts the pump has dispatched
  ans,                 \* session -> answers the agent took, in order
  writing,             \* sessions whose agent is executing a write
  gate,                \* one record per AwaitingApproval dispatched
  lock,                \* gate that holds the workarea's edit mutex, 0 if none
  muddled,             \* history: sessions with a prompt typed at or re-read
  crashes

agentVars == <<asked, ans, writing>>
mapVars == <<alive, mapped, adopted>>
vars == <<mode, resolver, mapVars, agentVars, seen, gate, lock, muddled, crashes>>

Settled == {"done", "dropped"}
Gates == [s : Sessions, p : 1..MaxPrompts, call : Calls,
          st : {"acquire", "insert", "parked", "deciding", "inject",
                "release"} \union Settled,
          by : {"pump", "waiter"},
          dec : {"AutoApprove", "AutoDeny", "MustAsk"},
          row : {"none", "null", "auto", "denied_by_policy", "approve", "deny"},
          unread : BOOLEAN]

TypeOK ==
  /\ mode \in [Sessions -> Modes]
  /\ resolver \in [Sessions -> Modes]
  /\ alive \subseteq Sessions /\ mapped \subseteq alive /\ adopted \subseteq Sessions
  /\ asked \in [Sessions -> Seq(Calls)]
  /\ ans \in [Sessions -> Seq([a : {"yes", "no"}, g : 0..MaxGates])]
  /\ \A s \in Sessions : /\ Len(asked[s]) <= MaxPrompts
                         /\ Len(ans[s]) <= Len(asked[s])
  /\ seen \in [Sessions -> 0..MaxPrompts]
  /\ writing \subseteq Sessions
  /\ gate \in Seq(Gates) /\ Len(gate) <= MaxGates
  /\ lock \in 0..Len(gate)
  /\ muddled \subseteq Sessions
  /\ crashes \in 0..MaxCrashes

Init ==
  /\ mode \in [Sessions -> Modes]
  /\ resolver = mode
  /\ alive = Sessions /\ mapped = Sessions /\ adopted = {}
  /\ asked = [s \in Sessions |-> <<>>]
  /\ seen = [s \in Sessions |-> 0]
  /\ ans = [s \in Sessions |-> <<>>]
  /\ writing = {}
  /\ gate = <<>>
  /\ lock = 0
  /\ muddled = {}
  /\ crashes = 0

-----------------------------------------------------------------------------
(* The agent CLI.                                                           *)

Showing(s) == Len(asked[s]) > Len(ans[s])

Prompts == UNION {{s} \X DOMAIN asked[s] : s \in Sessions}

AgentPrompts(s) ==
  /\ s \in alive /\ ~Showing(s) /\ s \notin writing
  /\ Cardinality(Prompts) < MaxPrompts
  /\ \E call \in Calls : asked' = [asked EXCEPT ![s] = Append(@, call)]
  /\ UNCHANGED <<mode, resolver, mapVars, seen, ans, writing, gate, lock, muddled, crashes>>

(* The agent reads a line: it answers the prompt on the screen, if any.      *)
Answer(s, a, g) ==
  IF s \in alive /\ Showing(s)
  THEN /\ ans' = [ans EXCEPT ![s] = Append(@, [a |-> a, g |-> g])]
       /\ writing' = IF a = "yes" /\ asked[s][Len(ans[s]) + 1].write
                     THEN writing \union {s} ELSE writing
  ELSE UNCHANGED <<ans, writing>>

WriteDone(s) ==
  /\ s \in writing
  /\ writing' = writing \ {s}
  /\ UNCHANGED <<mode, resolver, mapVars, seen, asked, ans, gate, lock, muddled, crashes>>

(* A user answers the prompt in the terminal pane; the gate is not told.     *)
SendInput(s) ==
  /\ s \in mapped /\ Showing(s)
  /\ \E a \in {"yes", "no"} : Answer(s, a, 0)
  /\ muddled' = muddled \union {s}
  /\ UNCHANGED <<mode, resolver, mapVars, seen, asked, gate, lock, crashes>>

-----------------------------------------------------------------------------
(* The verdict on a call.                                                   *)

Decide(m, call) ==
  IF \/ m = "strict" /\ call.class = "ReadOnly"
     \/ m = "normal" /\ call.class = "Safe"
     \/ m \in {"auto", "yolo"} /\ call.class # "Dangerous"
     \/ m = "yolo" /\ call.class = "Dangerous" /\ Bypass
  THEN "AutoApprove" ELSE "MustAsk"

(* Mutant of Verdict: the mode is asked before the deny-list.                *)
VerdictModeFirst(m, call, denied) ==
  IF denied /\ Decide(m, call) = "MustAsk" THEN "AutoDeny" ELSE Decide(m, call)

(* The deny-list is the floor, then the destructive-command intercept.       *)
Verdict(m, call, denied) ==
  CASE denied -> "AutoDeny"
    [] ~denied /\ call.destructive -> IF Bypass THEN "AutoApprove" ELSE "MustAsk"
    [] OTHER -> Decide(m, call)

Approving(d) == d = "AutoApprove"

-----------------------------------------------------------------------------
(* The read pump.  It dispatches one event at a time: an auto-decided gate   *)
(* keeps it until the bytes are injected.                                   *)

PumpBusy(s) ==
  \E g \in DOMAIN gate :
    gate[g].s = s /\ gate[g].by = "pump" /\ gate[g].st \notin Settled

FirstStop(d, call) ==
  CASE d = "MustAsk" -> "parked"
    [] Approving(d) /\ call.write -> "acquire"
    [] OTHER -> "insert"

(* The gate for prompt p.  For MustAsk the row is inserted undecided and the *)
(* sender put in pending_approvals in the same step: nobody knows the id     *)
(* before AwaitingApproval is emitted.  A deny-list that cannot be read is   *)
(* passed over, and a row that cannot be inserted is not missed.             *)
NewGate(s, p, read, row) ==
  LET call == asked[s][p]
      dec  == Verdict(resolver[s], call, call.denied /\ read)
      ask  == dec = "MustAsk"
  IN [s |-> s, p |-> p, call |-> call, st |-> FirstStop(dec, call),
      by |-> IF ask THEN "waiter" ELSE "pump", dec |-> dec,
      row |-> IF ask THEN row ELSE "none", unread |-> call.denied /\ ~read]

Fresh(s, p) ==
  /\ Showing(s) /\ p = Len(asked[s])
  /\ \A g \in DOMAIN gate :
       (gate[g].s = s /\ gate[g].p = p) => gate[g].st = "dropped"

Dispatch(s, p) ==
  /\ s \in alive /\ ~PumpBusy(s) /\ Len(gate) < MaxGates
  /\ \E read \in BOOLEAN, row \in {"null", "none"} :
       gate' = Append(gate, NewGate(s, p, read, row))
  /\ muddled' = IF Fresh(s, p) THEN muddled ELSE muddled \union {s}
  /\ UNCHANGED <<mode, resolver, mapVars, agentVars, lock, crashes>>

AwaitingApproval(s) ==
  /\ seen[s] < Len(asked[s])
  /\ Dispatch(s, seen[s] + 1)
  /\ seen' = [seen EXCEPT ![s] = @ + 1]

(* The agent redraws its prompt and the parser matches it a second time.     *)
PromptRedrawn(s) ==
  /\ Showing(s) /\ seen[s] = Len(asked[s])
  /\ Dispatch(s, seen[s])
  /\ UNCHANGED seen

gateFrame == <<mode, resolver, mapVars, asked, seen, muddled, crashes>>

To(g, st) == gate' = [gate EXCEPT ![g].st = st]

LockFree == lock = 0

(* EditMutexRegistry::acquire, by the pump or by a waiter.                   *)
AcquireEditLock(g) ==
  /\ gate[g].st = "acquire" /\ LockFree
  /\ lock' = g
  /\ To(g, IF gate[g].by = "pump" THEN "insert" ELSE "inject")
  /\ UNCHANGED <<gateFrame, ans, writing>>

(* Ten seconds went by: deny, tell the clients, leave the row as it is.      *)
EditMutexBlocked(g) ==
  /\ gate[g].st = "acquire" /\ ~LockFree
  /\ Answer(gate[g].s, "no", g)
  /\ To(g, "done")
  /\ UNCHANGED <<gateFrame, lock>>

(* The auto path's row; an insert that fails is not noticed.                 *)
InsertAutoRow(g) ==
  /\ gate[g].st = "insert"
  /\ \/ gate' = [gate EXCEPT ![g].st = "inject",
                             ![g].row = IF gate[g].dec = "AutoDeny"
                                        THEN "denied_by_policy" ELSE "auto"]
     \/ To(g, "inject")
  /\ UNCHANGED <<gateFrame, lock, ans, writing>>

(* Mutant of InjectApproval: a write that went through may be tried again.   *)
InjectApprovalAgain(g) ==
  /\ gate[g].st = "inject"
  /\ Answer(gate[g].s, IF Approving(gate[g].dec) THEN "yes" ELSE "no", g)
  /\ To(g, "release") \/ UNCHANGED gate
  /\ UNCHANGED <<gateFrame, lock>>

InjectApproval(g) ==
  /\ gate[g].st = "inject"
  /\ Answer(gate[g].s, IF Approving(gate[g].dec) THEN "yes" ELSE "no", g)
  /\ To(g, "release")
  /\ UNCHANGED <<gateFrame, lock>>

(* Mutant of DropGuard: the guard outlives its gate.                         *)
GuardForgotten(g) == UNCHANGED lock

DropGuard(g) == lock' = IF lock = g THEN 0 ELSE lock

EmitResolved(g) ==
  /\ gate[g].st = "release"
  /\ DropGuard(g)
  /\ To(g, "done")
  /\ UNCHANGED <<gateFrame, ans, writing>>

-----------------------------------------------------------------------------
(* resolve_approval, from any device; the sender leaves the map at once.     *)

ResolveApproval(g, d) ==
  /\ gate[g].st = "parked" /\ gate[g].s \in mapped
  /\ gate' = [gate EXCEPT ![g].st = "deciding", ![g].dec = d]
  /\ UNCHANGED <<gateFrame, lock, ans, writing>>

(* Mutant of UserDecision: the policy's own word goes to the row.            *)
DecisionVerbatim(d) == d

UserDecision(d) == IF Approving(d) THEN "approve" ELSE "deny"

(* Mutant of PersistDecision: the waiter is woken and the row left open.     *)
WakeBeforePersist(g) ==
  /\ gate[g].st = "deciding" /\ gate[g].row = "null"
  /\ To(g, IF Approving(gate[g].dec) /\ gate[g].call.write THEN "acquire" ELSE "inject")
  /\ UNCHANGED <<gateFrame, lock, ans, writing>>

(* update_decision: one undecided row changes; the waiter, woken, goes to   *)
(* the edit mutex or straight to the injection.                             *)
PersistDecision(g) ==
  /\ gate[g].st = "deciding" /\ gate[g].row = "null"
  /\ gate' = [gate EXCEPT
                ![g].row = UserDecision(gate[g].dec),
                ![g].st = IF Approving(gate[g].dec) /\ gate[g].call.write
                          THEN "acquire" ELSE "inject"]
  /\ UNCHANGED <<gateFrame, lock, ans, writing>>

(* No such row, or the database refuses: the sender is dropped unsent.       *)
DecisionLost(g) ==
  /\ gate[g].st = "deciding"
  /\ To(g, "dropped")
  /\ UNCHANGED <<gateFrame, lock, ans, writing>>

-----------------------------------------------------------------------------
(* update_session_permission_mode: the row and the entry, not the pump's     *)
(* own resolver.                                                             *)
UpdateSessionPermissionMode(s, m) ==
  /\ s \in alive
  /\ mode' = [mode EXCEPT ![s] = m]
  /\ UNCHANGED <<resolver, mapVars, agentVars, seen, gate, lock, muddled, crashes>>

(* stop_session: the entry goes, with it the agent and its parked waiters.   *)
(* An adopted session has no Child to kill: its agent, its pump and their    *)
(* waiters run on, out of reach.                                             *)
StopSession(s) ==
  /\ s \in mapped
  /\ mapped' = mapped \ {s}
  /\ IF s \in adopted
     THEN UNCHANGED <<alive, writing, gate>>
     ELSE /\ alive' = alive \ {s}
          /\ writing' = writing \ {s}
          /\ gate' = [g \in DOMAIN gate |->
                        IF gate[g].s = s /\ gate[g].st = "parked"
                        THEN [gate[g] EXCEPT !.st = "dropped"] ELSE gate[g]]
  /\ UNCHANGED <<mode, resolver, adopted, asked, seen, ans, lock, muddled, crashes>>

(* The Core dies and the next one adopts the hosts: tasks and locks are      *)
(* gone, resolvers are read from the rows, and each host replays the output  *)
(* it still holds, prompts already dispatched included.                      *)
CoreRestart ==
  /\ crashes < MaxCrashes
  /\ crashes' = crashes + 1
  /\ resolver' = mode
  /\ alive' = mapped /\ adopted' = mapped
  /\ gate' = [g \in DOMAIN gate |->
                IF gate[g].st \in Settled THEN gate[g]
                ELSE [gate[g] EXCEPT !.st = "dropped"]]
  /\ lock' = 0
  /\ seen' \in {f \in [Sessions -> 0..MaxPrompts] :
                  \A s \in Sessions : f[s] <= seen[s]}
  /\ UNCHANGED <<mode, mapped, agentVars, muddled>>

-----------------------------------------------------------------------------
AgentStep ==
  \E s \in Sessions : AgentPrompts(s) \/ WriteDone(s) \/ SendInput(s)

PumpStep == \E s \in Sessions : AwaitingApproval(s) \/ PromptRedrawn(s)

GateStep(g) ==
  \/ AcquireEditLock(g) \/ EditMutexBlocked(g)
  \/ InsertAutoRow(g) \/ InjectApproval(g) \/ EmitResolved(g)
  \/ PersistDecision(g) \/ DecisionLost(g)

UserStep ==
  \/ \E g \in DOMAIN gate, d \in {"AutoApprove", "AutoDeny"} : ResolveApproval(g, d)
  \/ \E s \in Sessions, m \in Modes : UpdateSessionPermissionMode(s, m)
  \/ \E s \in Sessions : StopSession(s)

Next ==
  \/ AgentStep \/ PumpStep \/ UserStep \/ CoreRestart
  \/ \E g \in DOMAIN gate : GateStep(g)

Spec == Init /\ [][Next]_vars

(* The tasks of a Core that is up run; users and agents owe nothing.         *)
FairSpec ==
  Spec /\ \A g \in 1..MaxGates : WF_vars(g \in DOMAIN gate /\ GateStep(g))

-----------------------------------------------------------------------------
(* Properties.                                                              *)

(* In a session nobody typed into and whose prompts were read once, the      *)
(* answer the agent took to a prompt comes from the gate of that prompt,     *)
(* and no gate answers twice: devices racing on one approval, a stop, a      *)
(* Core crash and the pump running on meanwhile included.                    *)
AnswerIsForItsPrompt ==
  \A s \in Sessions \ muddled : \A p \in DOMAIN ans[s] :
    LET g == ans[s][p].g IN g # 0 /\ gate[g].s = s /\ gate[g].p = p

(* The gates keep the contract of approvals: a decision is made once, by the  *)
(* policy at the dispatch or by the user once it is on record, the agent is   *)
(* told it once at most and never "yes" against it, whatever the edit mutex,  *)
(* restarts, redrawn prompts and a database that fails did (actor.rs          *)
(* 2291-2580, resolve_approval 807-850).                                      *)
GateDecision(g) ==
  IF g \notin DOMAIN gate THEN "unasked"
  ELSE IF gate[g].by = "waiter" /\ gate[g].row \notin {"approve", "deny"} THEN "open"
  ELSE IF Approving(gate[g].dec) THEN "yes" ELSE "no"

AnswersOf(g, a) ==
  {p \in DOMAIN ans[gate[g].s] : ans[gate[g].s][p] = [a |-> a, g |-> g]}

GateTold(g) ==
  [a \in {"yes", "no"} |-> IF g \in DOMAIN gate THEN Cardinality(AnswersOf(g, a)) ELSE 0]

Contract == INSTANCE ApprovalContract WITH
  Approvals <- 1..MaxGates,
  decision <- [g \in 1..MaxGates |-> GateDecision(g)],
  told <- [g \in 1..MaxGates |-> GateTold(g)]

KeepsContract == Contract!Spec

(* The deny-list and the destructive-command guard hold in every mode: the   *)
(* first is never approved, the second only by a user unless bypassed.       *)
PolicyFloor ==
  \A s \in Sessions \ muddled : \A p \in DOMAIN ans[s] :
    LET g == ans[s][p].g
    IN g # 0 /\ ~gate[g].unread /\ ans[s][p].a = "yes" =>
         /\ ~asked[s][p].denied
         /\ asked[s][p].destructive /\ ~Bypass => gate[g].row = "approve"

HasGuard(g) ==
  /\ gate[g].st \in {"insert", "inject", "release"}
  /\ Approving(gate[g].dec) /\ gate[g].call.write

(* The edit mutex is held by exactly the gate past its acquire: never two at *)
(* once, and never by a gate that is finished or was dropped.                *)
EditLockHeldOnce ==
  {g \in DOMAIN gate : HasGuard(g)} = IF lock = 0 THEN {} ELSE {lock}

(* An approval that is open on record has its decision being written, or a   *)
(* waiter parked beside a running agent; unless that session was adopted and *)
(* stopped, the user can still decide it.                                    *)
PendingIsResolvable ==
  \A g \in DOMAIN gate :
    LET s == gate[g].s
    IN gate[g].row = "null" /\ gate[g].st \notin {"dropped", "deciding"} =>
         gate[g].st = "parked" /\ s \in mapped \union (alive \cap adopted)

(* Once a decision was taken, automatic or a user's, the gate is settled and *)
(* gives the edit mutex back, stuck locks and lost races notwithstanding.    *)
GateSettles ==
  \A g \in 1..MaxGates :
    (g \in DOMAIN gate /\ gate[g].st \notin {"parked"} \union Settled)
      ~> (g \in DOMAIN gate /\ gate[g].st \in Settled /\ lock # g)

-----------------------------------------------------------------------------
(* Statements of the code's own comments that its behaviour does not keep.  *)

(* actor.rs, update_session_permission_mode: "Updates the in-memory entry's  *)
(* cached mode (if present) so downstream tool-approval checks (Task 33) see *)
(* the new value without a DB round-trip."                                   *)
NewGateUsesRowMode ==
  [][Len(gate') > Len(gate) /\ ~gate'[Len(gate')].unread =>
       LET g == gate'[Len(gate')]
       IN g.dec = Verdict(mode[g.s], g.call, g.call.denied)]_vars

(* edit_mutex.rs: "at most one session writes files at a time within a       *)
(* workarea", approvals typed in a terminal pane apart.                      *)
OneWriterPerWorkarea == Cardinality(writing \ muddled) <= 1
=============================================================================
