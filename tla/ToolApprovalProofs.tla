------------------------- MODULE ToolApprovalProofs -------------------------
(***************************************************************************)
(* Proofs about ToolApproval, for any number of sessions, calls, prompts,  *)
(* gates and crashes, any modes and either setting of the bypass.          *)
(***************************************************************************)
EXTENDS ToolApproval, FiniteSetTheorems, SequenceTheorems, TLAPS

-----------------------------------------------------------------------------
(* The inductive invariant.                                                 *)

\* A gate in one of these states has told its agent nothing yet.
Live == {"acquire", "insert", "parked", "deciding", "inject"}

OfPump(k) ==
  k.by = "pump" =>
    /\ k.dec # "MustAsk" /\ k.row \in {"none", "auto", "denied_by_policy"}
    /\ k.st \notin {"parked", "deciding"}
    /\ Approving(k.dec) => /\ k.call.denied => k.unread
                           /\ k.call.destructive => Bypass

OfWaiter(k) ==
  k.by = "waiter" =>
    /\ k.call.denied => k.unread
    /\ k.st # "insert"
    /\ k.row \in {"none", "null", "approve", "deny"}
    /\ k.row \in {"approve", "deny"} => k.dec # "MustAsk" /\ k.row = UserDecision(k.dec)
    /\ k.st \in {"acquire", "inject", "release", "done"} => k.row \in {"approve", "deny"}
    /\ k.st \in {"parked", "deciding"} => k.row \in {"none", "null"}
    /\ k.st = "deciding" => k.dec # "MustAsk"

GateOK(k) ==
  /\ k.p \in DOMAIN asked[k.s] /\ k.call = asked[k.s][k.p]
  /\ OfPump(k) /\ OfWaiter(k)
  /\ k.st = "acquire" => Approving(k.dec) /\ k.call.write
  /\ k.st = "parked" => k.s \in alive

GatesOK == \A g \in DOMAIN gate : GateOK(gate[g])

\* What an answer says of the gate it came from.
Told(s, x) ==
  x.g # 0 =>
    LET k == gate[x.g]
    IN /\ x.g \in DOMAIN gate /\ k.s = s /\ k.st \notin Live
       /\ k.by = "waiter" => k.row \in {"approve", "deny"}
       /\ x.a = "yes" => Approving(k.dec)

AnswersOK ==
  \A s \in Sessions :
    /\ \A p \in DOMAIN ans[s] : Told(s, ans[s][p])
    /\ \A p, q \in DOMAIN ans[s] : ans[s][p].g = ans[s][q].g /\ ans[s][p].g # 0 => p = q

\* One prompt is on the screen, and at most one gate of a session that was not
\* typed at has still to answer it.
Clean(s) ==
  /\ \A p \in DOMAIN ans[s] : ans[s][p].g # 0 /\ gate[ans[s][p].g].p = p
  /\ \A g \in DOMAIN gate : gate[g].s = s /\ gate[g].st \in Live =>
       /\ Showing(s) /\ gate[g].p = Len(asked[s])
       /\ \A h \in DOMAIN gate : gate[h].s = s /\ gate[h].st \in Live => h = g

ScreensOK ==
  /\ \A s \in Sessions : Len(asked[s]) <= Len(ans[s]) + 1
  /\ \A s \in Sessions \ muddled : Clean(s)

ApprovalInv ==
  /\ TypeOK /\ alive \subseteq mapped \union adopted
  /\ GatesOK /\ AnswersOK /\ ScreensOK /\ EditLockHeldOnce

-----------------------------------------------------------------------------
(* Type correctness.                                                        *)

\* The prompts shown are finitely many and a session's are among them.
LEMMA PromptsBound ==
  ASSUME TypeOK, NEW s \in Sessions
  PROVE  Len(asked[s]) <= Cardinality(Prompts) /\ Cardinality(Prompts) \in Nat
<1>1. \A t \in Sessions : asked[t] \in Seq(Calls) /\ Len(asked[t]) <= MaxPrompts
  BY DEF TypeOK
<1>2. IsFiniteSet(Sessions \X (1..MaxPrompts))
  <2>1. IsFiniteSet(1..MaxPrompts)
    <3>1. 1 \in Int /\ MaxPrompts \in Int
      BY BoundsAssumption
    <3> QED
      BY <3>1, FS_Interval
  <2> QED
    BY <2>1, FS_Product, SessionsAssumption
<1>3. Prompts \subseteq Sessions \X (1..MaxPrompts)
  BY <1>1, BoundsAssumption DEF Prompts
<1>4. IsFiniteSet(Prompts) /\ Cardinality(Prompts) \in Nat
  BY <1>2, <1>3, FS_Subset, FS_CardinalityType
<1> DEFINE mine == {s} \X DOMAIN asked[s]
<1>5. Cardinality(mine) = Len(asked[s])
  <2>1. DOMAIN asked[s] = 1..Len(asked[s]) /\ Len(asked[s]) \in Nat
    BY <1>1
  <2>2. IsFiniteSet(1..Len(asked[s])) /\ Cardinality(1..Len(asked[s])) = Len(asked[s])
    BY <2>1, FS_Interval
  <2>3. IsFiniteSet({s}) /\ Cardinality({s}) = 1
    BY FS_Singleton
  <2>4. Cardinality({s} \X (1..Len(asked[s]))) = 1 * Len(asked[s])
    BY ZenonT(40), <2>2, <2>3, FS_Product
  <2> QED
    BY <2>1, <2>4
<1>6. mine \subseteq Prompts
  BY DEF Prompts
<1>7. Cardinality(mine) <= Cardinality(Prompts)
  BY <1>4, <1>6, FS_Subset
<1> QED
  BY <1>4, <1>5, <1>7

\* A gate that moves on stays a gate, and the others stay as they are.
LEMMA MovedGateTypes ==
  ASSUME TypeOK, NEW g \in DOMAIN gate, NEW k \in Gates,
         gate' = [gate EXCEPT ![g] = k]
  PROVE  gate' \in Seq(Gates) /\ Len(gate') = Len(gate) /\ DOMAIN gate' = DOMAIN gate
BY DEF TypeOK

\* Gates that are dropped together stay gates.
LEMMA DroppedGateTypes ==
  ASSUME TypeOK, NEW S \in SUBSET DOMAIN gate,
         gate' = [g \in DOMAIN gate |->
                    IF g \in S THEN [gate[g] EXCEPT !.st = "dropped"] ELSE gate[g]]
  PROVE  gate' \in Seq(Gates) /\ Len(gate') = Len(gate)
<1>1. \A g \in DOMAIN gate : gate[g] \in Gates /\ [gate[g] EXCEPT !.st = "dropped"] \in Gates
  <2> SUFFICES ASSUME NEW g \in DOMAIN gate
               PROVE  gate[g] \in Gates /\ [gate[g] EXCEPT !.st = "dropped"] \in Gates
    OBVIOUS
  <2>1. gate[g] \in Gates
    BY DEF TypeOK
  <2> QED
    BY <2>1 DEF Gates, Settled
<1>2. gate' \in [1..Len(gate) -> Gates] /\ Len(gate) \in Nat
  BY <1>1 DEF TypeOK
<1> QED
  BY <1>2, IsASeq

\* An answer is one more answer of a session that was asked, or none.
LEMMA AnswerTypes ==
  ASSUME TypeOK, NEW s \in Sessions, NEW a \in {"yes", "no"}, NEW g \in 0..MaxGates,
         Answer(s, a, g)
  PROVE  /\ ans' \in [Sessions -> Seq([a : {"yes", "no"}, g : 0..MaxGates])]
         /\ \A t \in Sessions : Len(ans'[t]) <= Len(asked[t])
         /\ writing' \subseteq Sessions
<1> DEFINE Answers == [a : {"yes", "no"}, g : 0..MaxGates]
<1>1. CASE s \in alive /\ Showing(s)
  <2>1. ans' = [ans EXCEPT ![s] = Append(@, [a |-> a, g |-> g])]
    BY <1>1 DEF Answer
  <2>2. Append(ans[s], [a |-> a, g |-> g]) \in Seq(Answers)
    <3>1. ans[s] \in Seq(Answers)
      BY DEF TypeOK
    <3>2. [a |-> a, g |-> g] \in Answers
      OBVIOUS
    <3> HIDE DEF Answers
    <3> QED
      BY <3>1, <3>2
  <2>3. Len(Append(ans[s], [a |-> a, g |-> g])) = Len(ans[s]) + 1
    BY DEF TypeOK
  <2>4. ans' \in [Sessions -> Seq([a : {"yes", "no"}, g : 0..MaxGates])]
    BY <2>1, <2>2 DEF TypeOK
  <2>5. ASSUME NEW t \in Sessions PROVE Len(ans'[t]) <= Len(asked[t])
    <3>1. Len(asked[t]) \in Nat /\ Len(ans[t]) \in Nat /\ Len(ans[t]) <= Len(asked[t])
      BY DEF TypeOK
    <3>2. CASE t = s
      <4>1. Len(ans'[t]) = Len(ans[t]) + 1
        BY <2>1, <2>3, <3>2 DEF TypeOK
      <4> QED
        BY <1>1, <3>1, <3>2, <4>1 DEF Showing
    <3>3. CASE t # s
      BY <2>1, <3>1, <3>3 DEF TypeOK
    <3> QED
      BY <3>2, <3>3
  <2>6. writing' \subseteq Sessions
    BY <1>1 DEF Answer, TypeOK
  <2> QED
    BY <2>4, <2>5, <2>6
<1>2. CASE ~(s \in alive /\ Showing(s))
  BY <1>2 DEF Answer, TypeOK
<1> QED
  BY <1>1, <1>2

\* The gate a prompt gets is well formed.
LEMMA NewGateTypes ==
  ASSUME TypeOK, NEW s \in Sessions, NEW p \in DOMAIN asked[s],
         NEW read \in BOOLEAN, NEW row \in {"null", "none"}
  PROVE  /\ NewGate(s, p, read, row) \in Gates
         /\ NewGate(s, p, read, row).s = s
         /\ NewGate(s, p, read, row).p = p
         /\ NewGate(s, p, read, row).call = asked[s][p]
<1> DEFINE call == asked[s][p]
           dec == Verdict(resolver[s], call, call.denied /\ read)
<1>1. call \in Calls /\ p \in 1..MaxPrompts
  BY BoundsAssumption DEF TypeOK
<1>2. call.denied \in BOOLEAN
  BY <1>1, CallsAssumption DEF Call
<1>3. dec \in {"AutoApprove", "AutoDeny", "MustAsk"}
  <2>1. Decide(resolver[s], call) \in {"AutoApprove", "MustAsk"}
    BY DEF Decide
  <2> QED
    BY <2>1 DEF Verdict
<1> HIDE DEF call, dec
<1>4. FirstStop(dec, call) \in {"acquire", "insert", "parked"}
  BY <1>3 DEF FirstStop, Approving
<1>5. NewGate(s, p, read, row) =
        [s |-> s, p |-> p, call |-> call, st |-> FirstStop(dec, call),
         by |-> IF dec = "MustAsk" THEN "waiter" ELSE "pump", dec |-> dec,
         row |-> IF dec = "MustAsk" THEN row ELSE "none",
         unread |-> call.denied /\ ~read]
  BY DEF NewGate, call, dec
<1>6. (call.denied /\ ~read) \in BOOLEAN
  BY <1>2
<1>7. NewGate(s, p, read, row) \in Gates
  BY <1>1, <1>3, <1>4, <1>5, <1>6 DEF Gates, Settled
<1> QED
  BY <1>5, <1>7 DEF call

\* handle_tool_approval leaves prompts, gates and answers well typed.
LEMMA DispatchTypes ==
  ASSUME TypeOK, NEW s \in Sessions, NEW p \in DOMAIN asked[s], Dispatch(s, p)
  PROVE  /\ gate' \in Seq(Gates) /\ Len(gate') <= MaxGates
         /\ lock' \in 0..Len(gate') /\ muddled' \subseteq Sessions
<1>1. PICK read \in BOOLEAN, row \in {"null", "none"} :
        gate' = Append(gate, NewGate(s, p, read, row))
  BY DEF Dispatch
<1>2. gate \in Seq(Gates) /\ Len(gate) < MaxGates /\ Len(gate) \in Nat /\ lock \in 0..Len(gate)
  BY DEF TypeOK, Dispatch
<1>3. NewGate(s, p, read, row) \in Gates
  BY NewGateTypes
<1>4. gate' \in Seq(Gates) /\ Len(gate') = Len(gate) + 1
  BY <1>1, <1>2, <1>3
<1>5. Len(gate') <= MaxGates /\ lock' \in 0..Len(gate')
  BY <1>2, <1>4, BoundsAssumption DEF Dispatch
<1>6. muddled' \subseteq Sessions
  BY DEF Dispatch, TypeOK
<1> QED
  BY <1>4, <1>5, <1>6

\* The steps of one gate: of its pump or waiter, of the user or the database.
OneGateStep(g) == GateStep(g) \/ \E d \in {"AutoApprove", "AutoDeny"} : ResolveApproval(g, d)

\* Every step of an approval call is well typed.
LEMMA GateStepTypes ==
  ASSUME TypeOK, NEW g \in DOMAIN gate, OneGateStep(g)
  PROVE  TypeOK'
<1>0. gate[g] \in Gates /\ g \in 0..MaxGates /\ g \in 1..Len(gate) /\ Len(gate) \in Nat
  BY BoundsAssumption DEF TypeOK
<1>1. gate[g].s \in Sessions
  BY <1>0 DEF Gates
<1> SUFFICES /\ \E k \in Gates : gate' = [gate EXCEPT ![g] = k]
             /\ lock' \in 0..Len(gate)
             /\ UNCHANGED <<ans, writing>> \/ \E a \in {"yes", "no"} : Answer(gate[g].s, a, g)
             /\ UNCHANGED gateFrame
  <2>1. UNCHANGED <<ans, writing>> =>
          /\ ans' \in [Sessions -> Seq([a : {"yes", "no"}, g : 0..MaxGates])]
          /\ \A t \in Sessions : Len(ans'[t]) <= Len(asked[t])
          /\ writing' \subseteq Sessions
    BY DEF TypeOK
  <2>2. /\ ans' \in [Sessions -> Seq([a : {"yes", "no"}, g : 0..MaxGates])]
        /\ \A t \in Sessions : Len(ans'[t]) <= Len(asked[t])
        /\ writing' \subseteq Sessions
    BY <1>0, <1>1, <2>1, AnswerTypes
  <2>3. gate' \in Seq(Gates) /\ Len(gate') = Len(gate)
    BY MovedGateTypes
  <2> HIDE DEF Gates
  <2> QED
    BY <2>2, <2>3 DEF TypeOK, gateFrame, mapVars
<1>2. \A st \in {"inject", "release", "done", "dropped", "insert", "acquire"} :
        To(g, st) => \E k \in Gates : gate' = [gate EXCEPT ![g] = k]
  <2> SUFFICES ASSUME NEW st \in {"inject", "release", "done", "dropped", "insert", "acquire"},
                      To(g, st)
               PROVE  \E k \in Gates : gate' = [gate EXCEPT ![g] = k]
    OBVIOUS
  <2>1. [gate[g] EXCEPT !.st = st] \in Gates
    BY <1>0 DEF Gates, Settled
  <2>2. gate' = [gate EXCEPT ![g] = [gate[g] EXCEPT !.st = st]]
    BY DEF To
  <2> QED
    BY <2>1, <2>2
<1>3. CASE AcquireEditLock(g)
  BY <1>0, <1>2, <1>3 DEF AcquireEditLock
<1>4. CASE EditMutexBlocked(g)
  BY <1>0, <1>2, <1>4 DEF EditMutexBlocked, TypeOK
<1>5. CASE InsertAutoRow(g)
  <2>1. ASSUME NEW row \in {"denied_by_policy", "auto"},
               gate' = [gate EXCEPT ![g].st = "inject", ![g].row = row]
        PROVE  \E k \in Gates : gate' = [gate EXCEPT ![g] = k]
    <3>1. [gate[g] EXCEPT !.st = "inject", !.row = row] \in Gates
      BY <1>0 DEF Gates, Settled
    <3>2. gate' = [gate EXCEPT ![g] = [gate[g] EXCEPT !.st = "inject", !.row = row]]
      BY <2>1
    <3> QED
      BY <3>1, <3>2
  <2> QED
    BY <1>2, <1>5, <2>1 DEF InsertAutoRow, TypeOK
<1>6. CASE InjectApproval(g)
  BY <1>2, <1>6 DEF InjectApproval, TypeOK
<1>7. CASE EmitResolved(g)
  BY <1>2, <1>7 DEF EmitResolved, DropGuard, TypeOK
<1>8. CASE PersistDecision(g)
  <2>1. PICK row \in {"approve", "deny"}, st \in {"acquire", "inject"} :
          gate' = [gate EXCEPT ![g].row = row, ![g].st = st]
    BY <1>8 DEF PersistDecision, UserDecision
  <2>2. [gate[g] EXCEPT !.row = row, !.st = st] \in Gates
    BY <1>0 DEF Gates, Settled
  <2>3. gate' = [gate EXCEPT ![g] = [gate[g] EXCEPT !.row = row, !.st = st]]
    BY <2>1
  <2> QED
    BY <1>8, <2>2, <2>3 DEF PersistDecision, TypeOK
<1>9. CASE DecisionLost(g)
  BY <1>2, <1>9 DEF DecisionLost, TypeOK
<1>10. ASSUME NEW d \in {"AutoApprove", "AutoDeny"}, ResolveApproval(g, d)
       PROVE  /\ \E k \in Gates : gate' = [gate EXCEPT ![g] = k]
              /\ UNCHANGED <<gateFrame, lock, ans, writing>>
  <2>1. [gate[g] EXCEPT !.st = "deciding", !.dec = d] \in Gates
    BY <1>0 DEF Gates, Settled
  <2>2. gate' = [gate EXCEPT ![g] = [gate[g] EXCEPT !.st = "deciding", !.dec = d]]
    BY <1>10 DEF ResolveApproval
  <2> QED
    BY <1>10, <2>1, <2>2 DEF ResolveApproval
<1> QED
  BY <1>3, <1>4, <1>5, <1>6, <1>7, <1>8, <1>9, <1>10 DEF OneGateStep, GateStep, TypeOK

\* The approvals start well typed.
LEMMA InitTypes == Init => TypeOK
<1> SUFFICES ASSUME Init PROVE TypeOK
  OBVIOUS
<1>1. \A s \in Sessions : asked[s] = <<>> /\ ans[s] = <<>>
  BY DEF Init
<1>2. asked \in [Sessions -> Seq(Calls)]
  BY DEF Init
<1>3. ans \in [Sessions -> Seq([a : {"yes", "no"}, g : 0..MaxGates])]
  BY DEF Init
<1>4. /\ gate \in Seq(Gates) /\ Len(gate) = 0 /\ lock \in 0..Len(gate)
      /\ 0 <= MaxGates /\ 0 <= MaxPrompts /\ crashes \in 0..MaxCrashes
  BY BoundsAssumption DEF Init
<1>5. seen \in [Sessions -> 0..MaxPrompts]
  BY <1>4 DEF Init
<1> QED
  BY <1>1, <1>2, <1>3, <1>4, <1>5 DEF Init, TypeOK

\* Agents, approvals, screens and restarts keep the types.
LEMMA NextTypes == TypeOK /\ [Next]_vars => TypeOK'
<1> SUFFICES ASSUME TypeOK, [Next]_vars PROVE TypeOK'
  OBVIOUS
<1>1. ASSUME NEW s \in Sessions, AgentPrompts(s) PROVE TypeOK'
  <2>1. PICK call \in Calls : asked' = [asked EXCEPT ![s] = Append(@, call)]
    BY <1>1 DEF AgentPrompts
  <2>2. Len(asked[s]) < MaxPrompts
    <3>1. Len(asked[s]) <= Cardinality(Prompts) /\ Cardinality(Prompts) \in Nat
      BY PromptsBound
    <3>2. Cardinality(Prompts) < MaxPrompts
      BY <1>1 DEF AgentPrompts
    <3>3. Len(asked[s]) \in Nat
      BY DEF TypeOK
    <3> QED
      BY <3>1, <3>2, <3>3, BoundsAssumption
  <2>3. asked' \in [Sessions -> Seq(Calls)]
    BY <2>1 DEF TypeOK
  <2>4. ASSUME NEW t \in Sessions
        PROVE  Len(asked'[t]) <= MaxPrompts /\ Len(ans'[t]) <= Len(asked'[t])
    <3>1. /\ asked[t] \in Seq(Calls) /\ ans[t] \in Seq([a : {"yes", "no"}, g : 0..MaxGates])
          /\ Len(asked[t]) <= MaxPrompts /\ Len(ans[t]) <= Len(asked[t])
      BY DEF TypeOK
    <3>2. Len(asked[t]) \in Nat /\ Len(ans[t]) \in Nat /\ ans'[t] = ans[t]
      BY <1>1, <3>1 DEF AgentPrompts
    <3>3. Len(asked'[t]) = IF t = s THEN Len(asked[t]) + 1 ELSE Len(asked[t])
      BY <2>1, <3>1 DEF TypeOK
    <3> QED
      BY <2>2, <3>1, <3>2, <3>3, BoundsAssumption
  <2> QED
    BY <1>1, <2>3, <2>4 DEF AgentPrompts, TypeOK, mapVars
<1>2. ASSUME NEW s \in Sessions, WriteDone(s) PROVE TypeOK'
  BY <1>2 DEF WriteDone, TypeOK, mapVars
<1>3. ASSUME NEW s \in Sessions, SendInput(s) PROVE TypeOK'
  <2>1. PICK a \in {"yes", "no"} : Answer(s, a, 0)
    BY <1>3 DEF SendInput
  <2>2. 0 \in 0..MaxGates
    BY BoundsAssumption
  <2>3. /\ ans' \in [Sessions -> Seq([a : {"yes", "no"}, g : 0..MaxGates])]
        /\ \A t \in Sessions : Len(ans'[t]) <= Len(asked[t])
        /\ writing' \subseteq Sessions
    BY <2>1, <2>2, AnswerTypes
  <2> QED
    BY <1>3, <2>3 DEF SendInput, TypeOK, mapVars
<1>4. ASSUME NEW s \in Sessions, AwaitingApproval(s) PROVE TypeOK'
  <2>1. /\ seen[s] \in Nat /\ Len(asked[s]) \in Nat /\ seen[s] < Len(asked[s])
        /\ Len(asked[s]) <= MaxPrompts /\ asked[s] \in Seq(Calls)
    BY <1>4 DEF AwaitingApproval, TypeOK
  <2>2. seen[s] + 1 \in DOMAIN asked[s] /\ seen[s] + 1 \in 0..MaxPrompts
    BY <2>1, BoundsAssumption
  <2>3. Dispatch(s, seen[s] + 1)
    BY <1>4 DEF AwaitingApproval
  <2>4. /\ gate' \in Seq(Gates) /\ Len(gate') <= MaxGates
        /\ lock' \in 0..Len(gate') /\ muddled' \subseteq Sessions
    BY <2>2, <2>3, DispatchTypes
  <2>5. seen' \in [Sessions -> 0..MaxPrompts]
    BY <1>4, <2>2 DEF AwaitingApproval, TypeOK
  <2> QED
    BY <2>3, <2>4, <2>5 DEF Dispatch, TypeOK, mapVars, agentVars
<1>5. ASSUME NEW s \in Sessions, PromptRedrawn(s) PROVE TypeOK'
  <2>1. /\ seen[s] \in Nat /\ Len(asked[s]) \in Nat /\ Len(ans[s]) \in Nat
        /\ seen[s] = Len(asked[s]) /\ Len(asked[s]) > Len(ans[s]) /\ asked[s] \in Seq(Calls)
    BY <1>5 DEF PromptRedrawn, Showing, TypeOK
  <2>2. seen[s] \in DOMAIN asked[s]
    BY <2>1
  <2>3. Dispatch(s, seen[s])
    BY <1>5 DEF PromptRedrawn
  <2>4. /\ gate' \in Seq(Gates) /\ Len(gate') <= MaxGates
        /\ lock' \in 0..Len(gate') /\ muddled' \subseteq Sessions
    BY <2>2, <2>3, DispatchTypes
  <2> QED
    BY <1>5, <2>3, <2>4 DEF PromptRedrawn, Dispatch, TypeOK, mapVars, agentVars
<1>6. ASSUME NEW g \in DOMAIN gate, OneGateStep(g) PROVE TypeOK'
  BY <1>6, GateStepTypes
<1>7. ASSUME NEW s \in Sessions, NEW m \in Modes, UpdateSessionPermissionMode(s, m)
      PROVE  TypeOK'
  BY <1>7 DEF UpdateSessionPermissionMode, TypeOK, mapVars, agentVars
<1>8. ASSUME NEW s \in Sessions, StopSession(s) PROVE TypeOK'
  <2>1. gate' \in Seq(Gates) /\ Len(gate') = Len(gate)
    <3> DEFINE S == {g \in DOMAIN gate : gate[g].s = s /\ gate[g].st = "parked"}
    <3>1. CASE s \in adopted
      BY <1>8, <3>1 DEF StopSession, TypeOK
    <3>2. CASE s \notin adopted
      <4>1. gate' = [g \in DOMAIN gate |->
                       IF g \in S THEN [gate[g] EXCEPT !.st = "dropped"] ELSE gate[g]]
        BY <1>8, <3>2 DEF StopSession
      <4>2. S \in SUBSET DOMAIN gate
        OBVIOUS
      <4> HIDE DEF S
      <4> QED
        BY <4>1, <4>2, DroppedGateTypes
    <3> QED
      BY <3>1, <3>2
  <2> QED
    BY <1>8, <2>1 DEF StopSession, TypeOK
<1>9. CASE CoreRestart
  <2>1. gate' \in Seq(Gates) /\ Len(gate') = Len(gate)
    <3> DEFINE S == {g \in DOMAIN gate : gate[g].st \notin Settled}
    <3>1. gate' = [g \in DOMAIN gate |->
                     IF g \in S THEN [gate[g] EXCEPT !.st = "dropped"] ELSE gate[g]]
      BY <1>9 DEF CoreRestart
    <3>2. S \in SUBSET DOMAIN gate
      OBVIOUS
    <3> HIDE DEF S
    <3> QED
      BY <3>1, <3>2, DroppedGateTypes
  <2>2. crashes' \in 0..MaxCrashes
    BY <1>9, BoundsAssumption DEF CoreRestart, TypeOK
  <2>3. lock' \in 0..Len(gate') /\ seen' \in [Sessions -> 0..MaxPrompts]
    BY <1>9, <2>1 DEF CoreRestart, TypeOK
  <2> QED
    BY <1>9, <2>1, <2>2, <2>3 DEF CoreRestart, TypeOK, agentVars
<1>10. CASE UNCHANGED vars
  BY <1>10 DEF vars, mapVars, agentVars, TypeOK
<1> QED
  BY <1>1, <1>2, <1>3, <1>4, <1>5, <1>6, <1>7, <1>8, <1>9, <1>10
     DEF Next, AgentStep, PumpStep, UserStep, OneGateStep

(* The state of sessions, prompts, gates and edit mutex is well typed.       *)
THEOREM TypesHold == Spec => []TypeOK
BY InitTypes, NextTypes, PTL DEF Spec

-----------------------------------------------------------------------------
(* What the steps do to the gates.                                          *)

\* A gate starts out in order: the verdict is the floor's or the resolver's.
LEMMA NewGateOK ==
  ASSUME TypeOK, NEW s \in Sessions, NEW p \in DOMAIN asked[s], s \in alive,
         NEW read \in BOOLEAN, NEW row \in {"null", "none"}
  PROVE  GateOK(NewGate(s, p, read, row)) /\ NewGate(s, p, read, row).st \in Live
<1> DEFINE call == asked[s][p]
           den == call.denied /\ read
           dec == Verdict(resolver[s], call, den)
           k == NewGate(s, p, read, row)
<1>1. call \in Call
  BY CallsAssumption DEF TypeOK
<1>2. call.denied \in BOOLEAN /\ call.destructive \in BOOLEAN /\ call.write \in BOOLEAN
  BY <1>1 DEF Call
<1>3. /\ dec = "AutoApprove" => ~den /\ (call.destructive => Bypass)
      /\ dec = "MustAsk" => ~den
      /\ dec \in {"AutoApprove", "AutoDeny", "MustAsk"}
  <2>1. Decide(resolver[s], call) \in {"AutoApprove", "MustAsk"}
    BY DEF Decide
  <2> QED
    BY <1>2, <2>1, BypassAssumption DEF Verdict
<1> HIDE DEF call, den, dec
<1>4. k = [s |-> s, p |-> p, call |-> call, st |-> FirstStop(dec, call),
           by |-> IF dec = "MustAsk" THEN "waiter" ELSE "pump", dec |-> dec,
           row |-> IF dec = "MustAsk" THEN row ELSE "none",
           unread |-> call.denied /\ ~read]
  BY DEF NewGate, call, dec, den
<1>5. k.p \in DOMAIN asked[k.s] /\ k.call = asked[k.s][k.p] /\ k.s \in alive
  BY <1>4 DEF call
<1>6. FirstStop(dec, call) =
        IF dec = "MustAsk" THEN "parked"
        ELSE IF dec = "AutoApprove" /\ call.write THEN "acquire" ELSE "insert"
  BY <1>3 DEF FirstStop, Approving
<1>7. OfPump(k)
  BY <1>2, <1>3, <1>4, <1>6 DEF OfPump, Approving, den
<1>8. OfWaiter(k)
  BY <1>2, <1>3, <1>4, <1>6 DEF OfWaiter, den
<1>9. (k.st = "acquire" => Approving(k.dec) /\ k.call.write) /\ k.st \in Live
  BY <1>4, <1>6 DEF Approving, Live
<1> QED
  BY <1>5, <1>7, <1>8, <1>9 DEF GateOK

\* Dropping a gate leaves it in order.
LEMMA DroppedOK ==
  ASSUME NEW k \in Gates, GateOK(k)
  PROVE  /\ GateOK([k EXCEPT !.st = "dropped"])
         /\ [k EXCEPT !.st = "dropped"].s = k.s
         /\ [k EXCEPT !.st = "dropped"].p = k.p
         /\ [k EXCEPT !.st = "dropped"].by = k.by
         /\ [k EXCEPT !.st = "dropped"].dec = k.dec
         /\ [k EXCEPT !.st = "dropped"].row = k.row
         /\ [k EXCEPT !.st = "dropped"].call = k.call
         /\ [k EXCEPT !.st = "dropped"].unread = k.unread
         /\ [k EXCEPT !.st = "dropped"].st \notin Live
         /\ ~([k EXCEPT !.st = "dropped"].st \in {"parked", "insert", "inject", "release"})
BY DEF Gates, GateOK, OfPump, OfWaiter, Live

\* How far a gate may come in one step: it stays the gate of its prompt, a
\* decision on record is final, and one that is past its answer changes no more.
Moves(k, l) ==
  /\ l.s = k.s /\ l.p = k.p /\ l.call = k.call /\ l.by = k.by /\ l.unread = k.unread
  /\ k.st \notin Live => l.st \notin Live /\ l.row = k.row /\ l.dec = k.dec
  /\ k.by = "pump" \/ k.row \in {"approve", "deny"} => l.dec = k.dec
  /\ k.row \in {"approve", "deny"} => l.row = k.row

\* A step that tells the agent takes the gate past its answer, and the decision
\* is there.
Tells(k, l, g) ==
  /\ k.st \in Live /\ l.st \notin Live /\ l.row = k.row /\ l.dec = k.dec
  /\ k.by = "waiter" => k.row \in {"approve", "deny"}
  /\ \E a \in {"yes", "no"} : Answer(k.s, a, g) /\ (a = "yes" => Approving(k.dec))

\* A step of an approval call moves its own gate one stage on.
LEMMA GateStepMoves ==
  ASSUME TypeOK, NEW g \in DOMAIN gate, GateOK(gate[g]), OneGateStep(g)
  PROVE  /\ \E k \in Gates :
              /\ gate' = [gate EXCEPT ![g] = k] /\ GateOK(k) /\ Moves(gate[g], k)
              /\ UNCHANGED ans \/ Tells(gate[g], k, g)
         /\ UNCHANGED gateFrame
<1> DEFINE k == gate[g]
           Goal(l) == /\ l \in Gates
                      /\ gate' = [gate EXCEPT ![g] = l] /\ GateOK(l) /\ Moves(k, l)
                      /\ UNCHANGED ans \/ Tells(k, l, g)
<1>0. k \in Gates /\ GateOK(k)
  BY DEF TypeOK
<1> HIDE DEF k
<1>1. CASE AcquireEditLock(g)
  <2> DEFINE st == IF k.by = "pump" THEN "insert" ELSE "inject"
             l == [k EXCEPT !.st = st]
  <2>1. l \in Gates
    BY <1>0 DEF Gates, Settled
  <2>2. gate' = [gate EXCEPT ![g] = l] /\ k.st = "acquire"
    BY <1>1 DEF AcquireEditLock, To, k
  <2>3. GateOK(l) /\ Moves(k, l)
    BY <1>0, <2>2 DEF GateOK, OfPump, OfWaiter, Moves, Live, Gates
  <2>4. Goal(l) /\ UNCHANGED gateFrame
    BY <1>1, <2>1, <2>2, <2>3 DEF AcquireEditLock
  <2> QED
    BY <2>4 DEF k
<1>2. CASE EditMutexBlocked(g)
  <2> DEFINE l == [k EXCEPT !.st = "done"]
  <2>1. l \in Gates
    BY <1>0 DEF Gates, Settled
  <2>2. gate' = [gate EXCEPT ![g] = l] /\ k.st = "acquire" /\ Answer(k.s, "no", g)
    BY <1>2 DEF EditMutexBlocked, To, k
  <2>3. GateOK(l) /\ Moves(k, l)
    BY <1>0, <2>2 DEF GateOK, OfPump, OfWaiter, Moves, Live, Gates
  <2>4. Tells(k, l, g)
    BY <1>0, <2>2 DEF Tells, Live, Gates, GateOK, OfWaiter
  <2>5. Goal(l) /\ UNCHANGED gateFrame
    BY <1>2, <2>1, <2>2, <2>3, <2>4 DEF EditMutexBlocked
  <2> QED
    BY <2>5 DEF k
<1>3. CASE InsertAutoRow(g)
  <2>1. PICK row \in {k.row, "denied_by_policy", "auto"} :
          gate' = [gate EXCEPT ![g] = [k EXCEPT !.st = "inject", !.row = row]]
    <3>1. CASE To(g, "inject")
      <4>1. gate' = [gate EXCEPT ![g] = [k EXCEPT !.st = "inject", !.row = k.row]]
        BY <1>0, <3>1 DEF To, k, Gates
      <4> QED
        BY <4>1
    <3>2. ASSUME NEW row \in {"denied_by_policy", "auto"},
                 gate' = [gate EXCEPT ![g].st = "inject", ![g].row = row]
          PROVE  gate' = [gate EXCEPT ![g] = [k EXCEPT !.st = "inject", !.row = row]]
      BY <3>2 DEF k
    <3> QED
      BY <1>3, <3>1, <3>2 DEF InsertAutoRow
  <2> DEFINE l == [k EXCEPT !.st = "inject", !.row = row]
  <2>2. l \in Gates /\ k.st = "insert"
    BY <1>0, <1>3 DEF Gates, Settled, InsertAutoRow, k
  <2>3. GateOK(l) /\ Moves(k, l)
    BY <1>0, <2>2 DEF GateOK, OfPump, OfWaiter, Moves, Live, Gates
  <2>4. Goal(l) /\ UNCHANGED gateFrame
    BY <1>3, <2>1, <2>2, <2>3 DEF InsertAutoRow
  <2> QED
    BY <2>4 DEF k
<1>4. CASE InjectApproval(g)
  <2> DEFINE l == [k EXCEPT !.st = "release"]
             a == IF Approving(k.dec) THEN "yes" ELSE "no"
  <2>1. l \in Gates
    BY <1>0 DEF Gates, Settled
  <2>2. gate' = [gate EXCEPT ![g] = l] /\ k.st = "inject" /\ Answer(k.s, a, g)
    BY <1>4 DEF InjectApproval, To, k
  <2>3. GateOK(l) /\ Moves(k, l)
    BY <1>0, <2>2 DEF GateOK, OfPump, OfWaiter, Moves, Live, Gates
  <2>4. a \in {"yes", "no"} /\ (a = "yes" => Approving(k.dec))
    OBVIOUS
  <2>5. l.st \notin Live /\ l.row = k.row /\ l.dec = k.dec /\ k.st \in Live
    BY <1>0, <2>2 DEF Gates, Live
  <2>6. k.by = "waiter" => k.row \in {"approve", "deny"}
    BY <1>0, <2>2 DEF GateOK, OfWaiter
  <2> HIDE DEF a, l
  <2>7. Tells(k, l, g)
    BY <2>2, <2>4, <2>5, <2>6 DEF Tells
  <2>8. Goal(l) /\ UNCHANGED gateFrame
    BY <1>4, <2>1, <2>2, <2>3, <2>7 DEF InjectApproval, l
  <2> QED
    BY <2>8 DEF k
<1>5. CASE EmitResolved(g)
  <2> DEFINE l == [k EXCEPT !.st = "done"]
  <2>1. l \in Gates
    BY <1>0 DEF Gates, Settled
  <2>2. gate' = [gate EXCEPT ![g] = l] /\ k.st = "release"
    BY <1>5 DEF EmitResolved, To, k
  <2>3. GateOK(l) /\ Moves(k, l)
    BY <1>0, <2>2 DEF GateOK, OfPump, OfWaiter, Moves, Live, Gates
  <2>4. Goal(l) /\ UNCHANGED gateFrame
    BY <1>5, <2>1, <2>2, <2>3 DEF EmitResolved
  <2> QED
    BY <2>4 DEF k
<1>6. CASE PersistDecision(g)
  <2> DEFINE row == UserDecision(k.dec)
             st == IF Approving(k.dec) /\ k.call.write THEN "acquire" ELSE "inject"
             l == [k EXCEPT !.row = row, !.st = st]
  <2>1. l \in Gates /\ row \in {"approve", "deny"} /\ st \in {"acquire", "inject"}
    BY <1>0 DEF Gates, Settled, UserDecision
  <2>2. gate' = [gate EXCEPT ![g] = l] /\ k.st = "deciding" /\ k.row = "null"
    BY <1>6 DEF PersistDecision, k
  <2>3. /\ l.s = k.s /\ l.p = k.p /\ l.call = k.call /\ l.by = k.by
        /\ l.unread = k.unread /\ l.dec = k.dec /\ l.row = row /\ l.st = st
    BY <1>0 DEF Gates
  <2>4. st = "acquire" => Approving(k.dec) /\ k.call.write
    OBVIOUS
  <2>5. k.by = "waiter"
    BY <1>0, <2>2 DEF Gates, GateOK, OfPump
  <2>6. row = UserDecision(l.dec)
    BY <2>3
  <2> HIDE DEF l, st, row
  <2>7. GateOK(l)
    BY <1>0, <2>1, <2>2, <2>3, <2>4, <2>5, <2>6 DEF GateOK, OfPump, OfWaiter
  <2>8. Moves(k, l)
    BY <2>2, <2>3, <2>5 DEF Moves, Live
  <2>9. Goal(l) /\ UNCHANGED gateFrame
    BY <1>6, <2>1, <2>2, <2>7, <2>8 DEF PersistDecision
  <2> QED
    BY <2>9 DEF k
<1>7. CASE DecisionLost(g)
  <2> DEFINE l == [k EXCEPT !.st = "dropped"]
  <2>1. l \in Gates
    BY <1>0 DEF Gates, Settled
  <2>2. gate' = [gate EXCEPT ![g] = l] /\ k.st = "deciding"
    BY <1>7 DEF DecisionLost, To, k
  <2>3. GateOK(l) /\ Moves(k, l)
    BY <1>0, <2>2 DEF GateOK, OfPump, OfWaiter, Moves, Live, Gates
  <2>4. Goal(l) /\ UNCHANGED gateFrame
    BY <1>7, <2>1, <2>2, <2>3 DEF DecisionLost
  <2> QED
    BY <2>4 DEF k
<1>8. ASSUME NEW d \in {"AutoApprove", "AutoDeny"}, ResolveApproval(g, d)
      PROVE  (\E l \in Gates : Goal(l)) /\ UNCHANGED gateFrame
  <2> DEFINE l == [k EXCEPT !.st = "deciding", !.dec = d]
  <2>1. l \in Gates
    BY <1>0 DEF Gates, Settled
  <2>2. gate' = [gate EXCEPT ![g] = l] /\ k.st = "parked"
    BY <1>8 DEF ResolveApproval, k
  <2>3. k.by = "waiter" /\ k.row \in {"none", "null"}
    BY <1>0, <2>2 DEF Gates, GateOK, OfPump, OfWaiter
  <2>4. GateOK(l) /\ Moves(k, l)
    BY <1>0, <2>2, <2>3 DEF GateOK, OfPump, OfWaiter, Moves, Live, Gates
  <2>5. Goal(l) /\ UNCHANGED gateFrame
    BY <1>8, <2>1, <2>2, <2>4 DEF ResolveApproval
  <2> QED
    BY <2>5
<1> QED
  BY <1>1, <1>2, <1>3, <1>4, <1>5, <1>6, <1>7, <1>8 DEF OneGateStep, GateStep, k

\* A stop and a Core restart drop gates and tell nobody.
LEMMA GatesAreDropped ==
  ASSUME TypeOK, GatesOK, (\E s \in Sessions : StopSession(s)) \/ CoreRestart
  PROVE  /\ DOMAIN gate' = DOMAIN gate /\ UNCHANGED <<asked, ans, muddled>>
         /\ \A g \in DOMAIN gate :
              /\ gate'[g] \in {gate[g], [gate[g] EXCEPT !.st = "dropped"]}
              /\ gate'[g].st = "parked" => gate'[g].s \in alive'
<1>0. \A g \in DOMAIN gate : gate[g] \in Gates /\ GateOK(gate[g])
  BY DEF TypeOK, GatesOK
<1>1. ASSUME NEW s \in Sessions, StopSession(s), s \in adopted
      PROVE  /\ UNCHANGED <<gate, alive, asked, ans, muddled>>
             /\ \A g \in DOMAIN gate : gate[g].st = "parked" => gate[g].s \in alive
  BY <1>0, <1>1 DEF StopSession, GateOK
<1>2. ASSUME NEW s \in Sessions, StopSession(s), s \notin adopted
      PROVE  /\ DOMAIN gate' = DOMAIN gate /\ UNCHANGED <<asked, ans, muddled>>
             /\ \A g \in DOMAIN gate :
                  /\ gate'[g] \in {gate[g], [gate[g] EXCEPT !.st = "dropped"]}
                  /\ gate'[g].st = "parked" => gate'[g].s \in alive'
  <2>1. /\ gate' = [g \in DOMAIN gate |->
                      IF gate[g].s = s /\ gate[g].st = "parked"
                      THEN [gate[g] EXCEPT !.st = "dropped"] ELSE gate[g]]
        /\ alive' = alive \ {s} /\ UNCHANGED <<asked, ans, muddled>>
    BY <1>2 DEF StopSession
  <2>2. ASSUME NEW g \in DOMAIN gate
        PROVE  /\ gate'[g] \in {gate[g], [gate[g] EXCEPT !.st = "dropped"]}
               /\ gate'[g].st = "parked" => gate'[g].s \in alive'
    <3>1. CASE gate[g].s = s /\ gate[g].st = "parked"
      BY <1>0, <2>1, <3>1, DroppedOK
    <3>2. CASE ~(gate[g].s = s /\ gate[g].st = "parked")
      BY <1>0, <2>1, <3>2 DEF GateOK
    <3> QED
      BY <3>1, <3>2
  <2> QED
    BY <2>1, <2>2
<1>3. CASE CoreRestart
  <2>1. /\ gate' = [g \in DOMAIN gate |->
                      IF gate[g].st \in Settled THEN gate[g]
                      ELSE [gate[g] EXCEPT !.st = "dropped"]]
        /\ UNCHANGED <<asked, ans, muddled>>
    BY <1>3 DEF CoreRestart, agentVars
  <2>2. ASSUME NEW g \in DOMAIN gate
        PROVE  /\ gate'[g] \in {gate[g], [gate[g] EXCEPT !.st = "dropped"]}
               /\ gate'[g].st # "parked"
    <3>1. CASE gate[g].st \in Settled
      BY <2>1, <3>1 DEF Settled
    <3>2. CASE gate[g].st \notin Settled
      BY <1>0, <2>1, <3>2, DroppedOK
    <3> QED
      BY <3>1, <3>2
  <2> QED
    BY <2>1, <2>2
<1> QED
  BY <1>1, <1>2, <1>3

\* Steps that leave the gates alone and only add to what the agents asked.
QuietStep ==
  \/ \E s \in Sessions : AgentPrompts(s) \/ WriteDone(s) \/ SendInput(s)
  \/ \E s \in Sessions, m \in Modes : UpdateSessionPermissionMode(s, m)
  \/ UNCHANGED vars

DropStep == (\E s \in Sessions : StopSession(s)) \/ CoreRestart

\* The four ways the gates are touched.
LEMMA StepKinds ==
  ASSUME TypeOK, [Next]_vars
  PROVE  \/ QuietStep
         \/ \E s \in Sessions, p \in Nat : p \in DOMAIN asked[s] /\ Dispatch(s, p)
         \/ \E g \in DOMAIN gate : OneGateStep(g)
         \/ DropStep
<1>1. ASSUME NEW s \in Sessions, AwaitingApproval(s) \/ PromptRedrawn(s)
      PROVE  \E p \in Nat : p \in DOMAIN asked[s] /\ Dispatch(s, p)
  <2>0. /\ seen[s] \in Nat /\ Len(asked[s]) \in Nat /\ Len(ans[s]) \in Nat
        /\ DOMAIN asked[s] = 1..Len(asked[s])
    BY DEF TypeOK
  <2>1. CASE AwaitingApproval(s)
    BY <2>0, <2>1 DEF AwaitingApproval
  <2>2. CASE PromptRedrawn(s)
    BY <2>0, <2>2 DEF PromptRedrawn, Showing
  <2> QED
    BY <1>1, <2>1, <2>2
<1> QED
  BY <1>1 DEF Next, AgentStep, PumpStep, UserStep, OneGateStep, QuietStep, DropStep

\* Prompts are only ever added.
LEMMA QuietFacts ==
  ASSUME TypeOK, QuietStep
  PROVE  /\ UNCHANGED <<gate, alive, lock>>
         /\ \A s \in Sessions : \A p \in DOMAIN asked[s] :
              p \in DOMAIN asked'[s] /\ asked'[s][p] = asked[s][p]
<1>1. ASSUME NEW s \in Sessions, AgentPrompts(s)
      PROVE  /\ UNCHANGED <<gate, alive, lock>>
             /\ \A t \in Sessions : \A p \in DOMAIN asked[t] :
                  p \in DOMAIN asked'[t] /\ asked'[t][p] = asked[t][p]
  <2>1. PICK call \in Calls : asked' = [asked EXCEPT ![s] = Append(@, call)]
    BY <1>1 DEF AgentPrompts
  <2>2. ASSUME NEW t \in Sessions, NEW p \in DOMAIN asked[t]
        PROVE  p \in DOMAIN asked'[t] /\ asked'[t][p] = asked[t][p]
    <3>1. asked[t] \in Seq(Calls) /\ p \in 1..Len(asked[t]) /\ asked \in [Sessions -> Seq(Calls)]
      BY DEF TypeOK
    <3>2. CASE t = s
      <4>1. asked'[t] = Append(asked[t], call)
        BY <2>1, <3>1, <3>2
      <4> QED
        BY <3>1, <4>1
    <3>3. CASE t # s
      BY <2>1, <3>1, <3>3
    <3> QED
      BY <3>2, <3>3
  <2> QED
    BY <1>1, <2>2 DEF AgentPrompts, mapVars
<1> QED
  BY <1>1 DEF QuietStep, WriteDone, SendInput, UpdateSessionPermissionMode, vars,
              mapVars, agentVars

\* What a dispatch adds, and what it leaves.
LEMMA DispatchFacts ==
  ASSUME TypeOK, NEW s \in Sessions, NEW p \in DOMAIN asked[s], Dispatch(s, p)
  PROVE  \E k \in Gates :
           /\ GateOK(k) /\ k.st \in Live /\ k.s = s /\ k.p = p
           /\ DOMAIN gate' = DOMAIN gate \union {Len(gate) + 1}
           /\ Len(gate) + 1 \notin DOMAIN gate /\ Len(gate) \in Nat
           /\ gate'[Len(gate) + 1] = k
           /\ \A g \in DOMAIN gate : gate'[g] = gate[g]
           /\ UNCHANGED <<asked, ans, alive, lock>>
           /\ muddled' = IF Fresh(s, p) THEN muddled ELSE muddled \union {s}
<1>1. PICK read \in BOOLEAN, row \in {"null", "none"} :
        gate' = Append(gate, NewGate(s, p, read, row))
  BY DEF Dispatch
<1> DEFINE k == NewGate(s, p, read, row)
<1>2. k \in Gates /\ k.s = s /\ k.p = p
  BY NewGateTypes
<1>3. GateOK(k) /\ k.st \in Live
  BY NewGateOK DEF Dispatch
<1> HIDE DEF k
<1>4. gate \in Seq(Gates) /\ gate' = Append(gate, k)
  BY <1>1 DEF TypeOK, k
<1>5. Len(gate) \in Nat /\ DOMAIN gate = 1..Len(gate)
  BY <1>4
<1>6. Len(gate') = Len(gate) + 1 /\ gate' \in Seq(Gates)
  BY <1>2, <1>4
<1>7. DOMAIN gate' = 1..(Len(gate) + 1)
  BY <1>6
<1>8. \A g \in DOMAIN gate : gate'[g] = gate[g]
  BY <1>2, <1>4, <1>5
<1>9. gate'[Len(gate) + 1] = k
  BY <1>2, <1>4
<1> QED
  BY <1>2, <1>3, <1>5, <1>7, <1>8, <1>9 DEF Dispatch, mapVars, agentVars

-----------------------------------------------------------------------------
(* The invariant is kept, conjunct by conjunct.                             *)

\* A gate is a record of its prompt, its stage and its answer.
LEMMA GatesAreTyped ==
  ASSUME TypeOK
  PROVE  \A g \in DOMAIN gate : gate[g] \in Gates /\ gate[g].s \in Sessions
<1>1. \A g \in DOMAIN gate : gate[g] \in Gates
  BY DEF TypeOK
<1>2. \A k \in Gates : k.s \in Sessions
  BY DEF Gates
<1> QED
  BY <1>1, <1>2

\* No step lets a gate's stage, decision and row disagree.
LEMMA GatesStayOK ==
  ASSUME TypeOK, GatesOK, [Next]_vars
  PROVE  GatesOK'
<1>0. \A g \in DOMAIN gate : gate[g] \in Gates /\ GateOK(gate[g]) /\ gate[g].s \in Sessions
  BY GatesAreTyped DEF GatesOK
<1>1. CASE QuietStep
  <2>1. /\ UNCHANGED <<gate, alive, lock>>
        /\ \A s \in Sessions : \A p \in DOMAIN asked[s] :
             p \in DOMAIN asked'[s] /\ asked'[s][p] = asked[s][p]
    BY <1>1, QuietFacts
  <2> QED
    BY <1>0, <2>1 DEF GatesOK, GateOK, OfPump, OfWaiter
<1>2. ASSUME NEW s \in Sessions, NEW p \in DOMAIN asked[s], Dispatch(s, p)
      PROVE  GatesOK'
  <2>1. PICK k \in Gates :
          /\ GateOK(k)
          /\ DOMAIN gate' = DOMAIN gate \union {Len(gate) + 1}
          /\ gate'[Len(gate) + 1] = k
          /\ \A g \in DOMAIN gate : gate'[g] = gate[g]
          /\ UNCHANGED <<asked, ans, alive, lock>>
    BY <1>2, DispatchFacts
  <2>2. \A g \in DOMAIN gate' : GateOK(gate'[g])
    BY <1>0, <2>1
  <2> QED
    BY <2>1, <2>2 DEF GatesOK, GateOK, OfPump, OfWaiter
<1>3. ASSUME NEW g \in DOMAIN gate, OneGateStep(g)
      PROVE  GatesOK'
  <2>1. PICK k \in Gates : gate' = [gate EXCEPT ![g] = k] /\ GateOK(k)
    BY <1>0, <1>3, GateStepMoves
  <2>2. UNCHANGED <<asked, alive>>
    BY <1>0, <1>3, GateStepMoves DEF gateFrame, mapVars
  <2>3. \A h \in DOMAIN gate' : GateOK(gate'[h])
    BY <1>0, <2>1 DEF TypeOK
  <2> QED
    BY <2>2, <2>3 DEF GatesOK, GateOK, OfPump, OfWaiter
<1>4. CASE DropStep
  <2>1. /\ DOMAIN gate' = DOMAIN gate /\ asked' = asked
        /\ \A g \in DOMAIN gate :
             /\ gate'[g] \in {gate[g], [gate[g] EXCEPT !.st = "dropped"]}
             /\ gate'[g].st = "parked" => gate'[g].s \in alive'
    BY <1>4, GatesAreDropped DEF DropStep
  <2>2. \A g \in DOMAIN gate : GateOK(gate'[g])
    BY <1>0, <2>1, DroppedOK
  <2> QED
    BY <2>1, <2>2 DEF GatesOK, GateOK, OfPump, OfWaiter
<1> QED
  BY <1>1, <1>2, <1>3, <1>4, StepKinds

\* An answer taken is the last of its session, or there is none.
LEMMA AnswerAdds ==
  ASSUME TypeOK, NEW s \in Sessions, NEW a \in {"yes", "no"}, NEW g \in Nat, Answer(s, a, g)
  PROVE  \/ ans' = ans
         \/ /\ s \in alive /\ Showing(s)
            /\ \A t \in Sessions \ {s} : ans'[t] = ans[t]
            /\ Len(ans'[s]) = Len(ans[s]) + 1 /\ Len(ans[s]) \in Nat
            /\ DOMAIN ans'[s] = DOMAIN ans[s] \union {Len(ans[s]) + 1}
            /\ Len(ans[s]) + 1 \notin DOMAIN ans[s]
            /\ \A p \in DOMAIN ans[s] : ans'[s][p] = ans[s][p]
            /\ ans'[s][Len(ans[s]) + 1] = [a |-> a, g |-> g]
<1>1. CASE s \in alive /\ Showing(s)
  <2> DEFINE new == [a |-> a, g |-> g]
             Taken == [a : {"yes", "no"}, g : Nat]
  <2>1. ans' = [ans EXCEPT ![s] = Append(@, new)]
    BY <1>1 DEF Answer
  <2>2. ans[s] \in Seq(Taken) /\ ans \in [Sessions -> Seq(Taken)] /\ new \in Taken
    <3>1. 0..MaxGates \subseteq Nat
      BY BoundsAssumption
    <3>2. [a : {"yes", "no"}, g : 0..MaxGates] \subseteq Taken
      BY <3>1
    <3>3. \A S, T : S \subseteq T => Seq(S) \subseteq Seq(T)
      BY SeqMonotonic
    <3>4. ans \in [Sessions -> Seq([a : {"yes", "no"}, g : 0..MaxGates])]
      BY DEF TypeOK
    <3> HIDE DEF Taken
    <3>5. ans \in [Sessions -> Seq(Taken)]
      BY <3>2, <3>3, <3>4
    <3> QED
      BY <3>5 DEF Taken
  <2> HIDE DEF new, Taken
  <2>3. ans'[s] = Append(ans[s], new) /\ \A t \in Sessions \ {s} : ans'[t] = ans[t]
    BY <2>1, <2>2
  <2>4. Len(ans'[s]) = Len(ans[s]) + 1 /\ Len(ans[s]) \in Nat /\ ans'[s] \in Seq(Taken)
    BY <2>2, <2>3
  <2>5. DOMAIN ans'[s] = 1..(Len(ans[s]) + 1) /\ DOMAIN ans[s] = 1..Len(ans[s])
    BY <2>2, <2>4
  <2>6. \A p \in DOMAIN ans[s] : ans'[s][p] = ans[s][p]
    BY <2>2, <2>3, <2>5
  <2>7. ans'[s][Len(ans[s]) + 1] = new
    BY <2>2, <2>3
  <2> QED
    BY <1>1, <2>3, <2>4, <2>5, <2>6, <2>7 DEF new
<1>2. CASE ~(s \in alive /\ Showing(s))
  BY <1>2 DEF Answer
<1> QED
  BY <1>1, <1>2

\* No step tells an agent what its gate did not decide, or tells it twice.
LEMMA AnswersStayOK ==
  ASSUME TypeOK, GatesOK, AnswersOK, [Next]_vars
  PROVE  AnswersOK'
<1>0. \A g \in DOMAIN gate : gate[g] \in Gates /\ GateOK(gate[g]) /\ gate[g].s \in Sessions
  BY GatesAreTyped DEF GatesOK
<1>1. ASSUME NEW s \in Sessions, SendInput(s) PROVE AnswersOK'
  <2>1. PICK a \in {"yes", "no"} : Answer(s, a, 0)
    BY <1>1 DEF SendInput
  <2>2. UNCHANGED gate
    BY <1>1 DEF SendInput
  <2>3. \/ ans' = ans
        \/ /\ \A t \in Sessions \ {s} : ans'[t] = ans[t]
           /\ DOMAIN ans'[s] = DOMAIN ans[s] \union {Len(ans[s]) + 1}
           /\ \A p \in DOMAIN ans[s] : ans'[s][p] = ans[s][p]
           /\ ans'[s][Len(ans[s]) + 1] = [a |-> a, g |-> 0]
    BY <2>1, AnswerAdds
  <2> QED
    BY <2>2, <2>3 DEF AnswersOK, Told
<1>2. CASE QuietStep /\ UNCHANGED ans
  <2>1. UNCHANGED <<gate, ans>>
    BY <1>2, QuietFacts
  <2> QED
    BY <2>1 DEF AnswersOK, Told
<1>3. ASSUME NEW s \in Sessions, NEW p \in DOMAIN asked[s], Dispatch(s, p)
      PROVE  AnswersOK'
  <2>1. /\ DOMAIN gate' = DOMAIN gate \union {Len(gate) + 1}
        /\ \A g \in DOMAIN gate : gate'[g] = gate[g]
        /\ UNCHANGED ans
    BY <1>3, DispatchFacts
  <2> QED
    BY <2>1 DEF AnswersOK, Told
<1>4. ASSUME NEW g \in DOMAIN gate, OneGateStep(g)
      PROVE  AnswersOK'
  <2>1. PICK k \in Gates :
              /\ gate' = [gate EXCEPT ![g] = k] /\ GateOK(k) /\ Moves(gate[g], k)
              /\ UNCHANGED ans \/ Tells(gate[g], k, g)
    BY <1>0, <1>4, GateStepMoves
  <2>2. /\ DOMAIN gate' = DOMAIN gate /\ gate'[g] = k
        /\ \A h \in DOMAIN gate \ {g} : gate'[h] = gate[h]
    BY <2>1 DEF TypeOK
  <2>3. ASSUME NEW s \in Sessions, NEW x, Told(s, x) PROVE Told(s, x)'
    BY <2>1, <2>2, <2>3 DEF Told, Moves
  <2>4. CASE UNCHANGED ans
    BY <2>3, <2>4 DEF AnswersOK
  <2>5. CASE Tells(gate[g], k, g)
    <3>0. PICK s \in Sessions : s = gate[g].s
      BY <1>0
    <3> DEFINE n == Len(ans[s]) + 1
    <3>1. PICK a \in {"yes", "no"} : Answer(s, a, g) /\ (a = "yes" => Approving(k.dec))
      BY <2>1, <2>5, <3>0 DEF Tells, Moves
    <3>2. s \in Sessions /\ g \in Nat /\ g # 0
      BY <1>0 DEF TypeOK
    <3>3. \/ ans' = ans
          \/ /\ \A t \in Sessions \ {s} : ans'[t] = ans[t]
             /\ DOMAIN ans'[s] = DOMAIN ans[s] \union {n}
             /\ \A p \in DOMAIN ans[s] : ans'[s][p] = ans[s][p]
             /\ ans'[s][n] = [a |-> a, g |-> g]
      BY <3>1, <3>2, AnswerAdds
    <3>4. Told(s, [a |-> a, g |-> g])'
      BY <2>1, <2>2, <2>5, <3>0, <3>1, <3>2 DEF Tells, Told, Moves, Approving
    <3>5. \A p \in DOMAIN ans[s] : ans[s][p].g # g
      BY <2>5, <3>0, <3>2 DEF AnswersOK, Told, Tells
    <3> HIDE DEF n
    <3>6. \A t \in Sessions : \A p \in DOMAIN ans'[t] :
            \/ p \in DOMAIN ans[t] /\ ans'[t][p] = ans[t][p]
            \/ t = s /\ ans'[t][p] = [a |-> a, g |-> g]
      BY <3>2, <3>3
    <3>8. \A t \in Sessions : \A p \in DOMAIN ans'[t] :
            \E x : ans'[t][p] = x /\ Told(t, x)'
      <4> SUFFICES ASSUME NEW t \in Sessions, NEW p \in DOMAIN ans'[t]
                   PROVE  \E x : ans'[t][p] = x /\ Told(t, x)'
        OBVIOUS
      <4>1. CASE p \in DOMAIN ans[t] /\ ans'[t][p] = ans[t][p]
        <5>1. PICK x : x = ans[t][p]
          OBVIOUS
        <5>2. Told(t, x)
          BY <4>1, <5>1 DEF AnswersOK
        <5>3. Told(t, x)'
          BY <2>3, <5>2
        <5> QED
          BY <4>1, <5>1, <5>3
      <4>2. CASE t = s /\ ans'[t][p] = [a |-> a, g |-> g]
        BY <3>4, <4>2
      <4> QED
        BY <3>6, <4>1, <4>2
    <3>7. \A t \in Sessions : \A p, q \in DOMAIN ans'[t] :
            ans'[t][p].g = ans'[t][q].g /\ ans'[t][p].g # 0 => p = q
      BY <3>2, <3>3, <3>5 DEF AnswersOK
    <3> QED
      BY <3>7, <3>8 DEF AnswersOK, Told
  <2> QED
    BY <2>1, <2>4, <2>5
<1>5. CASE DropStep
  <2>1. /\ DOMAIN gate' = DOMAIN gate /\ ans' = ans
        /\ \A g \in DOMAIN gate : gate'[g] \in {gate[g], [gate[g] EXCEPT !.st = "dropped"]}
    BY <1>5, GatesAreDropped DEF DropStep
  <2>2. \A g \in DOMAIN gate :
          /\ gate'[g].s = gate[g].s /\ gate'[g].by = gate[g].by
          /\ gate'[g].row = gate[g].row /\ gate'[g].dec = gate[g].dec
          /\ gate'[g].st \in Live => gate[g].st \in Live
    BY ZenonT(40), <1>0, <2>1, DroppedOK
  <2>3. ASSUME NEW s \in Sessions, NEW x, Told(s, x) PROVE Told(s, x)'
    BY <2>1, <2>2, <2>3 DEF Told
  <2> QED
    BY <2>1, <2>3 DEF AnswersOK
<1> QED
  BY <1>1, <1>2, <1>3, <1>4, <1>5, StepKinds
     DEF QuietStep, AgentPrompts, WriteDone, UpdateSessionPermissionMode, vars, agentVars

\* In a session nobody typed at, each prompt stays with the one gate that answers it.
LEMMA ScreensStayOK ==
  ASSUME TypeOK, GatesOK, AnswersOK, ScreensOK, [Next]_vars
  PROVE  ScreensOK'
<1>0. \A g \in DOMAIN gate : gate[g] \in Gates /\ GateOK(gate[g]) /\ gate[g].s \in Sessions
  BY GatesAreTyped DEF GatesOK
<1>a. \A t \in Sessions :
        /\ Len(asked[t]) \in Nat /\ Len(ans[t]) \in Nat
        /\ Len(ans[t]) <= Len(asked[t]) /\ Len(asked[t]) <= Len(ans[t]) + 1
  BY DEF TypeOK, ScreensOK
<1>b. \A t \in Sessions \ muddled : \A p \in DOMAIN ans[t] : ans[t][p].g \in DOMAIN gate
  BY DEF ScreensOK, Clean, AnswersOK, Told
<1>1. ASSUME NEW s \in Sessions, AgentPrompts(s) PROVE ScreensOK'
  <2>1. /\ UNCHANGED <<gate, ans, muddled>> /\ ~Showing(s)
        /\ \E call \in Calls : asked' = [asked EXCEPT ![s] = Append(@, call)]
    BY <1>1 DEF AgentPrompts
  <2>2. Len(asked'[s]) = Len(asked[s]) + 1 /\ \A t \in Sessions \ {s} : asked'[t] = asked[t]
    BY <2>1 DEF TypeOK
  <2>3. \A t \in Sessions : Len(asked'[t]) <= Len(ans'[t]) + 1
    BY <1>a, <2>1, <2>2 DEF Showing
  <2>4. ASSUME NEW t \in Sessions \ muddled PROVE Clean(t)'
    <3>1. CASE t = s
      BY <2>1, <3>1 DEF ScreensOK, Clean
    <3>2. CASE t # s
      BY <2>1, <2>2, <3>2 DEF ScreensOK, Clean, Showing
    <3> QED
      BY <3>1, <3>2
  <2> QED
    BY <2>1, <2>3, <2>4 DEF ScreensOK
<1>2. ASSUME NEW s \in Sessions, SendInput(s) PROVE ScreensOK'
  <2>1. PICK a \in {"yes", "no"} : Answer(s, a, 0)
    BY <1>2 DEF SendInput
  <2>2. UNCHANGED <<gate, asked>> /\ muddled' = muddled \union {s}
    BY <1>2 DEF SendInput
  <2>3. \/ ans' = ans
        \/ /\ \A t \in Sessions \ {s} : ans'[t] = ans[t]
           /\ Len(ans'[s]) = Len(ans[s]) + 1
    BY <2>1, AnswerAdds
  <2>4. \A t \in Sessions : Len(asked'[t]) <= Len(ans'[t]) + 1
    BY <1>a, <2>2, <2>3
  <2>5. ASSUME NEW t \in Sessions \ (muddled \union {s}) PROVE Clean(t)'
    BY <2>2, <2>3 DEF ScreensOK, Clean, Showing
  <2> QED
    BY <2>2, <2>4, <2>5 DEF ScreensOK
<1>3. ASSUME UNCHANGED <<gate, asked, ans, muddled>> PROVE ScreensOK'
  BY <1>3 DEF ScreensOK, Clean, Showing
<1>4. ASSUME NEW s \in Sessions, NEW p \in DOMAIN asked[s], Dispatch(s, p)
      PROVE  ScreensOK'
  <2> DEFINE new == Len(gate) + 1
  <2>1. PICK k \in Gates :
          /\ k.st \in Live /\ k.s = s /\ k.p = p
          /\ DOMAIN gate' = DOMAIN gate \union {new}
          /\ new \notin DOMAIN gate /\ gate'[new] = k
          /\ \A g \in DOMAIN gate : gate'[g] = gate[g]
          /\ UNCHANGED <<asked, ans>>
          /\ muddled' = IF Fresh(s, p) THEN muddled ELSE muddled \union {s}
    BY <1>4, DispatchFacts
  <2> HIDE DEF new
  <2>2. ASSUME NEW t \in Sessions, t # s, t \notin muddled PROVE Clean(t)'
    BY <1>b, <2>1, <2>2 DEF ScreensOK, Clean, Showing
  <2>3. ASSUME s \notin muddled, Fresh(s, p) PROVE Clean(s)'
    <3>1. Showing(s) /\ p = Len(asked[s])
      BY <2>3 DEF Fresh
    <3>2. \A h \in DOMAIN gate : ~(gate[h].s = s /\ gate[h].st \in Live)
      BY <2>3, <3>1 DEF ScreensOK, Clean, Fresh, Live
    <3> QED
      BY <1>b, <2>1, <2>3, <3>1, <3>2 DEF ScreensOK, Clean, Showing
  <2> QED
    BY <2>1, <2>2, <2>3 DEF ScreensOK
<1>5. ASSUME NEW g \in DOMAIN gate, OneGateStep(g)
      PROVE  ScreensOK'
  <2>1. PICK k \in Gates :
              /\ gate' = [gate EXCEPT ![g] = k] /\ Moves(gate[g], k)
              /\ UNCHANGED ans \/ Tells(gate[g], k, g)
    BY <1>0, <1>5, GateStepMoves
  <2>2. /\ DOMAIN gate' = DOMAIN gate /\ gate'[g] = k
        /\ \A h \in DOMAIN gate \ {g} : gate'[h] = gate[h]
    BY <2>1 DEF TypeOK
  <2>3. UNCHANGED <<asked, muddled>>
    BY <1>0, <1>5, GateStepMoves DEF gateFrame
  <2>4. \A h \in DOMAIN gate : /\ gate'[h].s = gate[h].s /\ gate'[h].p = gate[h].p
                               /\ gate'[h].st \in Live => gate[h].st \in Live
    BY <2>1, <2>2 DEF Moves
  <2>5. CASE UNCHANGED ans
    <3>1. ASSUME NEW t \in Sessions \ muddled PROVE Clean(t)'
      BY <1>b, <2>2, <2>3, <2>4, <2>5 DEF ScreensOK, Clean, Showing
    <3> QED
      BY <2>3, <2>5, <3>1 DEF ScreensOK
  <2>6. CASE Tells(gate[g], k, g)
    <3>0. PICK s \in Sessions : s = gate[g].s
      BY <1>0
    <3> DEFINE n == Len(ans[s]) + 1
    <3>1. PICK a \in {"yes", "no"} : Answer(s, a, g)
      BY <2>6, <3>0 DEF Tells
    <3>2. g \in Nat /\ g # 0 /\ gate[g].st \in Live /\ k.st \notin Live
      BY <2>6 DEF TypeOK, Tells
    <3>3. \/ ans' = ans
          \/ /\ \A t \in Sessions \ {s} : ans'[t] = ans[t]
             /\ Len(ans'[s]) = n
             /\ DOMAIN ans'[s] = DOMAIN ans[s] \union {n}
             /\ \A p \in DOMAIN ans[s] : ans'[s][p] = ans[s][p]
             /\ ans'[s][n] = [a |-> a, g |-> g]
      BY <3>1, <3>2, AnswerAdds
    <3>4. CASE ans' = ans
      <4>1. ASSUME NEW t \in Sessions \ muddled PROVE Clean(t)'
        BY <1>b, <2>2, <2>3, <2>4, <3>4 DEF ScreensOK, Clean, Showing
      <4> QED
        BY <2>3, <3>4, <4>1 DEF ScreensOK
    <3>5. CASE ans' # ans
      <4>1. \A t \in Sessions : Len(asked'[t]) <= Len(ans'[t]) + 1
        BY <1>a, <2>3, <3>3, <3>5
      <4>2. ASSUME NEW t \in Sessions \ muddled, t # s PROVE Clean(t)'
        BY <1>b, <2>2, <2>3, <2>4, <3>3, <3>5, <4>2 DEF ScreensOK, Clean, Showing
      <4>3. ASSUME s \notin muddled PROVE Clean(s)'
        <5>1. /\ Showing(s) /\ gate[g].p = Len(asked[s])
              /\ \A h \in DOMAIN gate : gate[h].s = s /\ gate[h].st \in Live => h = g
          BY <3>0, <3>2, <4>3 DEF ScreensOK, Clean
        <5>2. Len(asked[s]) = n
          BY <1>a, <5>1 DEF Showing
        <5>3. \A h \in DOMAIN gate' : ~(gate'[h].s = s /\ gate'[h].st \in Live)
          BY <2>2, <2>4, <3>2, <5>1
        <5> HIDE DEF n
        <5>4. \A p \in DOMAIN ans[s] : ans[s][p].g # 0 /\ gate[ans[s][p].g].p = p
          BY <4>3 DEF ScreensOK, Clean
        <5>5. \A p \in DOMAIN ans'[s] : ans'[s][p].g # 0 /\ gate'[ans'[s][p].g].p = p
          BY <1>b, <2>2, <2>4, <3>2, <3>3, <3>5, <4>3, <5>1, <5>2, <5>4
        <5> QED
          BY <5>3, <5>5 DEF Clean
      <4> QED
        BY <2>3, <4>1, <4>2, <4>3 DEF ScreensOK
    <3> QED
      BY <3>4, <3>5
  <2> QED
    BY <2>1, <2>5, <2>6
<1>6. CASE DropStep
  <2>1. /\ DOMAIN gate' = DOMAIN gate /\ UNCHANGED <<asked, ans, muddled>>
        /\ \A g \in DOMAIN gate : gate'[g] \in {gate[g], [gate[g] EXCEPT !.st = "dropped"]}
    BY <1>6, GatesAreDropped DEF DropStep
  <2>2. \A g \in DOMAIN gate :
          /\ gate'[g].s = gate[g].s /\ gate'[g].p = gate[g].p
          /\ gate'[g].st \in Live => gate[g].st \in Live
    BY <1>0, <2>1, DroppedOK
  <2>3. ASSUME NEW t \in Sessions \ muddled PROVE Clean(t)'
    BY <1>b, <2>1, <2>2 DEF ScreensOK, Clean, Showing
  <2> QED
    BY <2>1, <2>3 DEF ScreensOK
<1> QED
  BY <1>1, <1>2, <1>3, <1>4, <1>5, <1>6, StepKinds, QuietFacts
     DEF QuietStep, WriteDone, UpdateSessionPermissionMode, vars, agentVars

\* No step gives the edit mutex to a second session.
LEMMA LockStaysOK ==
  ASSUME TypeOK, GatesOK, EditLockHeldOnce, [Next]_vars
  PROVE  EditLockHeldOnce'
<1>0. \A g \in DOMAIN gate : gate[g] \in Gates /\ GateOK(gate[g]) /\ gate[g].s \in Sessions
  BY GatesAreTyped DEF GatesOK
<1>a. lock \in Nat /\ DOMAIN gate \subseteq Nat \ {0}
  BY DEF TypeOK
<1>b. \A g \in DOMAIN gate : HasGuard(g) <=> g = lock
  BY <1>a DEF EditLockHeldOnce
<1>c. lock # 0 => lock \in DOMAIN gate
  BY <1>a DEF EditLockHeldOnce
<1> SUFFICES /\ \A g \in DOMAIN gate' : HasGuard(g)' <=> g = lock'
             /\ lock' # 0 => lock' \in DOMAIN gate'
             /\ 0 \notin DOMAIN gate'
  BY DEF EditLockHeldOnce
<1>1. ASSUME UNCHANGED <<gate, lock>>
      PROVE  /\ \A g \in DOMAIN gate' : HasGuard(g)' <=> g = lock'
             /\ lock' # 0 => lock' \in DOMAIN gate'
             /\ 0 \notin DOMAIN gate'
  BY <1>1, <1>a, <1>b, <1>c DEF HasGuard
<1>2. ASSUME NEW s \in Sessions, NEW p \in DOMAIN asked[s], Dispatch(s, p)
      PROVE  /\ \A g \in DOMAIN gate' : HasGuard(g)' <=> g = lock'
             /\ lock' # 0 => lock' \in DOMAIN gate'
             /\ 0 \notin DOMAIN gate'
  <2> DEFINE new == Len(gate) + 1
  <2>1. PICK k \in Gates :
          /\ GateOK(k) /\ k.st \in Live
          /\ DOMAIN gate' = DOMAIN gate \union {new}
          /\ new \notin DOMAIN gate /\ Len(gate) \in Nat /\ gate'[new] = k
          /\ \A g \in DOMAIN gate : gate'[g] = gate[g]
          /\ UNCHANGED lock
    BY <1>2, DispatchFacts
  <2>2. new # lock /\ new # 0
    BY <1>a, <1>c, <2>1
  <2>3. PICK read \in BOOLEAN, row \in {"null", "none"} :
          gate' = Append(gate, NewGate(s, p, read, row))
    BY <1>2 DEF Dispatch
  <2>4. ~(k.st \in {"insert", "inject", "release"} /\ Approving(k.dec) /\ k.call.write)
    <3>1. k = NewGate(s, p, read, row)
      <4>1. NewGate(s, p, read, row) \in Gates
        BY NewGateTypes
      <4>2. gate'[new] = NewGate(s, p, read, row)
        BY <2>3, <4>1 DEF TypeOK
      <4> QED
        BY <2>1, <4>2
    <3>2. k.st = FirstStop(k.dec, k.call)
      BY <3>1 DEF NewGate
    <3> QED
      BY <3>2 DEF FirstStop, Approving
  <2> HIDE DEF new
  <2> QED
    BY <1>a, <1>b, <1>c, <2>1, <2>2, <2>4 DEF HasGuard
<1>3. ASSUME NEW g \in DOMAIN gate, OneGateStep(g)
      PROVE  /\ \A h \in DOMAIN gate' : HasGuard(h)' <=> h = lock'
             /\ lock' # 0 => lock' \in DOMAIN gate'
             /\ 0 \notin DOMAIN gate'
  <2>1. PICK k \in Gates : gate' = [gate EXCEPT ![g] = k] /\ GateOK(k) /\ Moves(gate[g], k)
    BY <1>0, <1>3, GateStepMoves
  <2>2. /\ DOMAIN gate' = DOMAIN gate /\ gate'[g] = k
        /\ \A h \in DOMAIN gate \ {g} : gate'[h] = gate[h]
    BY <2>1 DEF TypeOK
  <2> DEFINE Guarded(l) == /\ l.st \in {"insert", "inject", "release"}
                           /\ Approving(l.dec) /\ l.call.write
  <2>3. \A h \in DOMAIN gate \ {g} : HasGuard(h)' <=> HasGuard(h)
    BY <2>2 DEF HasGuard
  <2>4. (HasGuard(g) <=> Guarded(gate[g])) /\ (HasGuard(g)' <=> Guarded(k))
    BY <2>2 DEF HasGuard
  <2> HIDE DEF Guarded
  <2>5. \/ lock = 0 /\ lock' = g /\ Guarded(k)
        \/ lock' = lock /\ (Guarded(k) <=> Guarded(gate[g]))
        \/ lock' = (IF lock = g THEN 0 ELSE lock) /\ ~Guarded(k)
    <3>1. CASE AcquireEditLock(g)
      <4>1. lock = 0 /\ lock' = g /\ gate[g].st = "acquire"
        BY <3>1 DEF AcquireEditLock, LockFree
      <4>2. k.st \in {"insert", "inject"} /\ k.dec = gate[g].dec /\ k.call = gate[g].call
        BY SMTT(30), <1>0, <2>2, <3>1 DEF AcquireEditLock, To, TypeOK, Gates
      <4>3. Approving(gate[g].dec) /\ gate[g].call.write
        BY <1>0, <4>1 DEF GateOK
      <4> QED
        BY <4>1, <4>2, <4>3 DEF Guarded
    <3>2. CASE EditMutexBlocked(g)
      <4>1. lock' = lock /\ gate[g].st = "acquire" /\ k.st = "done"
        BY <1>0, <2>2, <3>2 DEF EditMutexBlocked, To, TypeOK, Gates
      <4> QED
        BY <4>1 DEF Guarded
    <3>3. CASE InsertAutoRow(g)
      <4>1. lock' = lock /\ gate[g].st = "insert"
        BY <3>3 DEF InsertAutoRow
      <4>2. k.st = "inject" /\ k.dec = gate[g].dec /\ k.call = gate[g].call
        BY SMTT(30), <1>0, <2>2, <3>3 DEF InsertAutoRow, To, TypeOK, Gates
      <4> QED
        BY <4>1, <4>2 DEF Guarded
    <3>4. CASE InjectApproval(g)
      <4>1. lock' = lock /\ gate[g].st = "inject"
        BY <3>4 DEF InjectApproval
      <4>2. k.st = "release" /\ k.dec = gate[g].dec /\ k.call = gate[g].call
        BY <1>0, <2>2, <3>4 DEF InjectApproval, To, TypeOK, Gates
      <4> QED
        BY <4>1, <4>2 DEF Guarded
    <3>5. CASE EmitResolved(g)
      <4>1. lock' = (IF lock = g THEN 0 ELSE lock) /\ k.st = "done"
        BY <1>0, <2>2, <3>5 DEF EmitResolved, DropGuard, To, TypeOK, Gates
      <4> QED
        BY <4>1 DEF Guarded
    <3>6. CASE PersistDecision(g)
      <4>1. lock' = lock /\ gate[g].st = "deciding"
        BY <3>6 DEF PersistDecision
      <4>2. /\ k.st = IF Approving(gate[g].dec) /\ gate[g].call.write
                      THEN "acquire" ELSE "inject"
            /\ k.dec = gate[g].dec /\ k.call = gate[g].call
        BY ZenonT(40), <1>0, <2>2, <3>6 DEF PersistDecision, TypeOK, Gates
      <4> QED
        BY <4>1, <4>2 DEF Guarded
    <3>7. CASE DecisionLost(g)
      <4>1. lock' = lock /\ gate[g].st = "deciding" /\ k.st = "dropped"
        BY <1>0, <2>2, <3>7 DEF DecisionLost, To, TypeOK, Gates
      <4> QED
        BY <4>1 DEF Guarded
    <3>8. ASSUME NEW d \in {"AutoApprove", "AutoDeny"}, ResolveApproval(g, d)
          PROVE  lock' = lock /\ gate[g].st = "parked" /\ k.st = "deciding"
      BY <1>0, <2>2, <3>8 DEF ResolveApproval, TypeOK, Gates
    <3> QED
      BY <1>3, <3>1, <3>2, <3>3, <3>4, <3>5, <3>6, <3>7, <3>8
         DEF OneGateStep, GateStep, Guarded
  <2> QED
    BY <1>a, <1>b, <1>c, <2>2, <2>3, <2>4, <2>5
<1>4. ASSUME NEW s \in Sessions, StopSession(s)
      PROVE  /\ \A g \in DOMAIN gate' : HasGuard(g)' <=> g = lock'
             /\ lock' # 0 => lock' \in DOMAIN gate'
             /\ 0 \notin DOMAIN gate'
  <2>1. CASE s \in adopted
    BY <1>1, <1>4, <2>1 DEF StopSession
  <2>2. CASE s \notin adopted
    <3>1. /\ UNCHANGED lock
          /\ gate' = [g \in DOMAIN gate |->
                        IF gate[g].s = s /\ gate[g].st = "parked"
                        THEN [gate[g] EXCEPT !.st = "dropped"] ELSE gate[g]]
      BY <1>4, <2>2 DEF StopSession
    <3>2. ASSUME NEW g \in DOMAIN gate PROVE HasGuard(g)' <=> HasGuard(g)
      <4>1. CASE gate[g].s = s /\ gate[g].st = "parked"
        <5>1. gate'[g].st \notin {"insert", "inject", "release"}
          BY <1>0, <3>1, <4>1, DroppedOK
        <5> QED
          BY <4>1, <5>1 DEF HasGuard
      <4>2. CASE ~(gate[g].s = s /\ gate[g].st = "parked")
        BY <3>1, <4>2 DEF HasGuard
      <4> QED
        BY <4>1, <4>2
    <3> QED
      BY <1>a, <1>b, <1>c, <3>1, <3>2
  <2> QED
    BY <2>1, <2>2
<1>5. CASE CoreRestart
  <2>1. /\ lock' = 0
        /\ gate' = [g \in DOMAIN gate |->
                      IF gate[g].st \in Settled THEN gate[g]
                      ELSE [gate[g] EXCEPT !.st = "dropped"]]
    BY <1>5 DEF CoreRestart
  <2>2. ASSUME NEW g \in DOMAIN gate PROVE ~HasGuard(g)'
    <3>1. gate'[g].st \notin {"insert", "inject", "release"}
      BY <1>0, <2>1, DroppedOK DEF Settled
    <3> QED
      BY <3>1 DEF HasGuard
  <2> QED
    BY <1>a, <2>1, <2>2
<1> QED
  BY <1>1, <1>2, <1>3, <1>4, <1>5, StepKinds, QuietFacts DEF DropStep

-----------------------------------------------------------------------------
(* The theorems.                                                            *)

\* The inductive invariant holds at the start.
LEMMA InitInv == Init => ApprovalInv
<1> SUFFICES ASSUME Init PROVE ApprovalInv
  OBVIOUS
<1>1. TypeOK
  BY InitTypes
<1>2. gate = <<>> /\ lock = 0 /\ \A s \in Sessions : asked[s] = <<>> /\ ans[s] = <<>>
  BY DEF Init
<1>3. DOMAIN gate = {} /\ \A s \in Sessions : DOMAIN ans[s] = {} /\ Len(asked[s]) <= Len(ans[s]) + 1
  BY <1>2
<1>4. GatesOK /\ AnswersOK /\ ScreensOK /\ EditLockHeldOnce
  BY <1>2, <1>3 DEF GatesOK, AnswersOK, ScreensOK, Clean, EditLockHeldOnce
<1>5. alive \subseteq mapped \union adopted
  BY DEF Init
<1> QED
  BY <1>1, <1>4, <1>5 DEF ApprovalInv

\* Every step keeps the inductive invariant.
LEMMA NextInv == ApprovalInv /\ [Next]_vars => ApprovalInv'
<1> SUFFICES ASSUME ApprovalInv, [Next]_vars PROVE ApprovalInv'
  OBVIOUS
<1> USE DEF ApprovalInv
<1>1. TypeOK'
  BY NextTypes
<1>2. GatesOK' /\ AnswersOK' /\ ScreensOK' /\ EditLockHeldOnce'
  BY GatesStayOK, AnswersStayOK, ScreensStayOK, LockStaysOK
<1>3. (alive \subseteq mapped \union adopted)'
  <2>1. ASSUME NEW s \in Sessions, StopSession(s) PROVE (alive \subseteq mapped \union adopted)'
    BY <2>1 DEF StopSession
  <2>2. CASE CoreRestart
    BY <2>2 DEF CoreRestart
  <2>3. ASSUME NEW g \in DOMAIN gate, OneGateStep(g) PROVE (alive \subseteq mapped \union adopted)'
    <3>1. GateOK(gate[g])
      BY DEF GatesOK
    <3>2. UNCHANGED gateFrame
      BY <2>3, <3>1, GateStepMoves
    <3> QED
      BY <3>2 DEF gateFrame, mapVars
  <2>4. ASSUME UNCHANGED mapVars PROVE (alive \subseteq mapped \union adopted)'
    BY <2>4 DEF mapVars
  <2> QED
    BY <2>1, <2>2, <2>3, <2>4, StepKinds
       DEF QuietStep, DropStep, AgentPrompts, WriteDone, SendInput, Dispatch,
           UpdateSessionPermissionMode, vars
<1> QED
  BY <1>1, <1>2, <1>3

\* The inductive invariant of the tool approvals.
LEMMA InvHolds == Spec => []ApprovalInv
BY InitInv, NextInv, PTL DEF Spec

(* An answer reaches the prompt it was given for, once, in every session      *)
(* nobody typed into (AnswerIsForItsPrompt).                                 *)
THEOREM AnswersReachTheirPrompt == Spec => []AnswerIsForItsPrompt
<1>1. ApprovalInv => AnswerIsForItsPrompt
  BY DEF ApprovalInv, AnswerIsForItsPrompt, ScreensOK, Clean, AnswersOK, Told
<1> QED
  BY <1>1, InvHolds, PTL

(* A denied call is never approved and a destructive one only by its user,   *)
(* whatever the mode (PolicyFloor).                                          *)
THEOREM PolicyFloorHolds == Spec => []PolicyFloor
<1>1. ApprovalInv => PolicyFloor
  <2> SUFFICES ASSUME ApprovalInv, NEW s \in Sessions \ muddled, NEW p \in DOMAIN ans[s],
                      NEW g, g = ans[s][p].g, g # 0, ~gate[g].unread, ans[s][p].a = "yes"
               PROVE  /\ ~asked[s][p].denied
                      /\ asked[s][p].destructive /\ ~Bypass => gate[g].row = "approve"
    BY DEF PolicyFloor
  <2>1. /\ g \in DOMAIN gate /\ gate[g].s = s /\ Approving(gate[g].dec)
        /\ gate[g].by = "waiter" => gate[g].row \in {"approve", "deny"}
    BY DEF ApprovalInv, AnswersOK, Told
  <2>2. gate[g].p = p
    BY DEF ApprovalInv, ScreensOK, Clean
  <2>3. GateOK(gate[g]) /\ gate[g] \in Gates
    BY <2>1, GatesAreTyped DEF ApprovalInv, GatesOK
  <2>4. gate[g].call = asked[s][p] /\ gate[g].by \in {"pump", "waiter"}
    BY <2>1, <2>2, <2>3 DEF GateOK, Gates
  <2>5. CASE gate[g].by = "pump"
    BY <2>1, <2>3, <2>4, <2>5 DEF GateOK, OfPump
  <2>6. CASE gate[g].by = "waiter"
    BY <2>1, <2>3, <2>4, <2>6 DEF GateOK, OfWaiter, UserDecision
  <2> QED
    BY <2>4, <2>5, <2>6
<1> QED
  BY <1>1, InvHolds, PTL

(* The edit mutex is held by exactly the gate past its acquire               *)
(* (EditLockHeldOnce).                                                       *)
THEOREM EditLockIsExact == Spec => []EditLockHeldOnce
<1>1. ApprovalInv => EditLockHeldOnce
  BY DEF ApprovalInv
<1> QED
  BY <1>1, InvHolds, PTL

(* An approval that is open on record can still be decided                   *)
(* (PendingIsResolvable).                                                    *)
THEOREM PendingStaysResolvable == Spec => []PendingIsResolvable
<1>1. ApprovalInv => PendingIsResolvable
  <2> SUFFICES ASSUME ApprovalInv, NEW g \in DOMAIN gate,
                      gate[g].row = "null", gate[g].st \notin {"dropped", "deciding"}
               PROVE  /\ gate[g].st = "parked"
                      /\ gate[g].s \in mapped \union (alive \cap adopted)
    BY DEF PendingIsResolvable
  <2>1. GateOK(gate[g]) /\ gate[g] \in Gates
    BY GatesAreTyped DEF ApprovalInv, GatesOK
  <2>2. gate[g].by = "waiter"
    BY <2>1 DEF GateOK, OfPump, Gates
  <2>3. gate[g].st = "parked"
    BY <2>1, <2>2 DEF GateOK, OfWaiter, Gates, Settled
  <2> QED
    BY <2>1, <2>3 DEF GateOK, ApprovalInv
<1> QED
  BY <1>1, InvHolds, PTL

-----------------------------------------------------------------------------
(* The gates implement ApprovalContract.                                    *)

\* A gate was told the agent as often as answers carry its number.
Times(g, a) == IF g \in DOMAIN gate THEN Cardinality(AnswersOf(g, a)) ELSE 0

\* What the contract sees moves only where an answer or a decision does.
LEMMA ContractUnchanged ==
  ASSUME \A g \in 1..MaxGates : GateDecision(g)' = GateDecision(g),
         \A g \in 1..MaxGates : \A a \in {"yes", "no"} : Times(g, a)' = Times(g, a)
  PROVE  UNCHANGED Contract!contractVars
<1>1. \A g \in 1..MaxGates : GateTold(g)' = GateTold(g)
  BY DEF GateTold, Times
<1> QED
  BY <1>1 DEF Contract!contractVars

\* Every step of the approvals is a step of the contract, or none.
LEMMA ContractStep ==
  ASSUME ApprovalInv, ApprovalInv', [Next]_vars
  PROVE  [Contract!Next]_(Contract!contractVars)
<1>0. \A g \in DOMAIN gate : gate[g] \in Gates /\ GateOK(gate[g]) /\ gate[g].s \in Sessions
  BY GatesAreTyped DEF ApprovalInv, GatesOK
<1>a. TypeOK /\ GatesOK /\ AnswersOK
  BY DEF ApprovalInv
<1>1. ASSUME UNCHANGED <<gate, ans>> PROVE UNCHANGED Contract!contractVars
  BY <1>1, ContractUnchanged DEF GateDecision, Times, AnswersOf
<1>2. ASSUME NEW s \in Sessions, SendInput(s) PROVE UNCHANGED Contract!contractVars
  <2>1. PICK a \in {"yes", "no"} : Answer(s, a, 0)
    BY <1>2 DEF SendInput
  <2>2. UNCHANGED gate
    BY <1>2 DEF SendInput
  <2>3. \/ ans' = ans
        \/ /\ \A t \in Sessions \ {s} : ans'[t] = ans[t]
           /\ DOMAIN ans'[s] = DOMAIN ans[s] \union {Len(ans[s]) + 1}
           /\ \A p \in DOMAIN ans[s] : ans'[s][p] = ans[s][p]
           /\ ans'[s][Len(ans[s]) + 1] = [a |-> a, g |-> 0]
    BY <1>a, <2>1, AnswerAdds
  <2>4. ASSUME NEW g \in 1..MaxGates, NEW b \in {"yes", "no"}, g \in DOMAIN gate
        PROVE  AnswersOf(g, b)' = AnswersOf(g, b)
    <3>1. [a |-> a, g |-> 0] # [a |-> b, g |-> g]
      OBVIOUS
    <3> QED
      BY <1>0, <2>2, <2>3, <2>4, <3>1 DEF AnswersOf
  <2> QED
    BY <2>2, <2>4, ContractUnchanged DEF GateDecision, Times
<1>3. ASSUME NEW s \in Sessions, NEW p \in DOMAIN asked[s], Dispatch(s, p)
      PROVE  Contract!Next
  <2> DEFINE new == Len(gate) + 1
  <2>1. PICK k \in Gates :
          /\ GateOK(k) /\ k.st \in Live /\ k.s = s
          /\ DOMAIN gate' = DOMAIN gate \union {new}
          /\ new \notin DOMAIN gate /\ Len(gate) \in Nat
          /\ gate'[new] = k
          /\ \A g \in DOMAIN gate : gate'[g] = gate[g]
          /\ UNCHANGED ans
    BY <1>3, <1>a, DispatchFacts
  <2>2. new \in 1..MaxGates
    BY <1>3, <2>1, BoundsAssumption DEF Dispatch
  <2>3. PICK n \in 1..MaxGates : n = new
    BY <2>2
  <2> HIDE DEF new
  <2>4. GateDecision(n) = "unasked" /\ GateDecision(n)' \in {"open", "yes", "no"}
    BY <2>1, <2>3 DEF GateDecision
  <2>5. \A g \in 1..MaxGates : g # n => GateDecision(g)' = GateDecision(g)
    BY <2>1, <2>3 DEF GateDecision
  <2>6. ASSUME NEW g \in 1..MaxGates, NEW a \in {"yes", "no"}
        PROVE  Times(g, a)' = Times(g, a)
    <3>1. CASE g = n
      <4>1. \A q \in DOMAIN ans[s] : ans[s][q].g # g
        BY <1>a, <2>1, <2>3, <3>1 DEF AnswersOK, Told
      <4>2. AnswersOf(g, a)' = {}
        BY <2>1, <2>3, <3>1, <4>1 DEF AnswersOf
      <4> QED
        BY <2>1, <2>3, <3>1, <4>2, FS_EmptySet DEF Times
    <3>2. CASE g # n
      BY <2>1, <2>3, <3>2 DEF Times, AnswersOf
    <3> QED
      BY <3>1, <3>2
  <2>7. \A g \in 1..MaxGates : GateTold(g)' = GateTold(g)
    BY <2>6 DEF GateTold, Times
  <2>8. Contract!Ask(n)
    BY <2>4, <2>5, <2>7 DEF Contract!Ask
  <2> QED
    BY <2>8 DEF Contract!Next
<1>4. ASSUME NEW g \in DOMAIN gate, OneGateStep(g)
      PROVE  Contract!Next \/ UNCHANGED Contract!contractVars
  <2>0. g \in 1..MaxGates /\ g \in Nat /\ g # 0
    BY <1>a, BoundsAssumption DEF TypeOK
  <2>1. PICK k \in Gates :
              /\ gate' = [gate EXCEPT ![g] = k] /\ Moves(gate[g], k)
              /\ UNCHANGED ans \/ Tells(gate[g], k, g)
    BY <1>0, <1>4, <1>a, GateStepMoves
  <2>2. /\ DOMAIN gate' = DOMAIN gate /\ gate'[g] = k
        /\ \A h \in DOMAIN gate \ {g} : gate'[h] = gate[h]
    BY <1>a, <2>1 DEF TypeOK
  <2>3. \A h \in 1..MaxGates : h # g => GateDecision(h)' = GateDecision(h)
    BY <2>2 DEF GateDecision
  <2>4. \A h \in DOMAIN gate : gate'[h].s = gate[h].s
    BY <2>1, <2>2 DEF Moves
  <2>5. CASE UNCHANGED ans
    <3>1. \A h \in 1..MaxGates : GateTold(h)' = GateTold(h)
      BY <2>2, <2>4, <2>5 DEF GateTold, AnswersOf
    <3>2. \/ GateDecision(g)' = GateDecision(g)
          \/ GateDecision(g) = "open" /\ GateDecision(g)' \in {"yes", "no"}
      BY <1>0, <2>1, <2>2 DEF GateDecision, Moves, Gates
    <3>3. CASE GateDecision(g)' = GateDecision(g)
      BY <2>3, <3>1, <3>3 DEF Contract!contractVars
    <3>4. CASE GateDecision(g) = "open" /\ GateDecision(g)' \in {"yes", "no"}
      <4>1. Contract!Decide(g)
        BY <2>0, <2>3, <3>1, <3>4 DEF Contract!Decide
      <4> QED
        BY <2>0, <4>1 DEF Contract!Next
    <3> QED
      BY <3>2, <3>3, <3>4
  <2>6. CASE Tells(gate[g], k, g) /\ ans' # ans
    <3>0. PICK s \in Sessions : s = gate[g].s
      BY <1>0
    <3> DEFINE n == Len(ans[s]) + 1
    <3>1. PICK a \in {"yes", "no"} : Answer(s, a, g) /\ (a = "yes" => Approving(gate[g].dec))
      BY <2>6, <3>0 DEF Tells
    <3>2. /\ \A t \in Sessions \ {s} : ans'[t] = ans[t]
          /\ DOMAIN ans'[s] = DOMAIN ans[s] \union {n} /\ n \notin DOMAIN ans[s]
          /\ \A p \in DOMAIN ans[s] : ans'[s][p] = ans[s][p]
          /\ ans'[s][n] = [a |-> a, g |-> g]
      BY <1>a, <2>0, <2>6, <3>1, AnswerAdds
    <3>3. \A p \in DOMAIN ans[s] : ans[s][p].g # g
      BY <1>a, <2>0, <2>6, <3>0 DEF AnswersOK, Told, Tells
    <3>4. PICK m : m = n
      OBVIOUS
    <3> HIDE DEF n
    <3>5. ASSUME NEW b \in {"yes", "no"}
          PROVE  AnswersOf(g, b) = {} /\ AnswersOf(g, b)' = IF b = a THEN {m} ELSE {}
      <4>1. AnswersOf(g, b) = {}
        BY <3>0, <3>3 DEF AnswersOf
      <4>2. gate'[g].s = s
        BY <2>4, <3>0
      <4>3. [a |-> a, g |-> g] = [a |-> b, g |-> g] <=> a = b
        OBVIOUS
      <4> QED
        BY <3>2, <3>3, <3>4, <4>1, <4>2, <4>3 DEF AnswersOf
    <3>6. GateTold(g) = [b \in {"yes", "no"} |-> 0]
      BY <3>5, FS_EmptySet DEF GateTold
    <3>7. GateTold(g)' = [b \in {"yes", "no"} |-> IF b = a THEN 1 ELSE 0]
      <4>1. ASSUME NEW b \in {"yes", "no"}
            PROVE  Cardinality(AnswersOf(g, b)') = IF b = a THEN 1 ELSE 0
        BY <3>5, FS_EmptySet, FS_Singleton
      <4> QED
        BY <2>2, <4>1 DEF GateTold
    <3>8. ASSUME NEW h \in 1..MaxGates, h # g PROVE GateTold(h)' = GateTold(h)
      <4>1. ASSUME NEW b \in {"yes", "no"}, h \in DOMAIN gate
            PROVE  AnswersOf(h, b)' = AnswersOf(h, b)
        <5>1. [a |-> a, g |-> g] # [a |-> b, g |-> h]
          BY <3>8
        <5>2. gate'[h].s = gate[h].s /\ gate[h].s \in Sessions
          BY <1>0, <2>4, <4>1
        <5> QED
          BY <3>2, <5>1, <5>2 DEF AnswersOf
      <4> QED
        BY <2>2, <4>1 DEF GateTold
    <3>9. GateDecision(g)' = GateDecision(g)
      BY <1>0, <2>1, <2>2, <2>6 DEF GateDecision, Moves, Tells
    <3>10. GateDecision(g) \in {"yes", "no"} /\ (a = "yes" => GateDecision(g) = "yes")
      BY <1>0, <2>6, <3>1 DEF GateDecision, Tells, Gates
    <3>11. Contract!Tell(g)
      <4> DEFINE told == [h \in 1..MaxGates |-> GateTold(h)]
                 decision == [h \in 1..MaxGates |-> GateDecision(h)]
      <4>1. told[g] = Contract!Silence /\ decision[g] \in {"yes", "no"}
        BY <2>0, <3>6, <3>10 DEF Contract!Silence
      <4>2. GateTold(g)' = [GateTold(g) EXCEPT ![a] = 1]
        BY <3>6, <3>7
      <4>3. told' = [told EXCEPT ![g] = GateTold(g)']
        BY <2>0, <3>8
      <4>4. told' = [told EXCEPT ![g][a] = 1]
        BY <2>0, <4>2, <4>3
      <4>5. UNCHANGED decision
        BY <2>3, <3>9
      <4>6. a \in {decision[g], "no"}
        BY <2>0, <3>10
      <4> QED
        BY <4>1, <4>4, <4>5, <4>6 DEF Contract!Tell
    <3> QED
      BY <2>0, <3>11 DEF Contract!Next
  <2> QED
    BY <2>1, <2>5, <2>6
<1>5. CASE DropStep
  <2>1. /\ DOMAIN gate' = DOMAIN gate /\ UNCHANGED ans
        /\ \A g \in DOMAIN gate : gate'[g] \in {gate[g], [gate[g] EXCEPT !.st = "dropped"]}
    BY <1>5, <1>a, GatesAreDropped DEF DropStep
  <2>2. \A g \in DOMAIN gate :
          /\ gate'[g].s = gate[g].s /\ gate'[g].by = gate[g].by
          /\ gate'[g].row = gate[g].row /\ gate'[g].dec = gate[g].dec
    BY <1>0, <2>1, DroppedOK
  <2> QED
    BY <2>1, <2>2, ContractUnchanged DEF GateDecision, Times, AnswersOf
<1> QED
  BY <1>1, <1>2, <1>3, <1>4, <1>5, <1>a, StepKinds, QuietFacts
     DEF QuietStep, AgentPrompts, WriteDone, UpdateSessionPermissionMode, vars, agentVars

(* The gates keep the contract of approvals: decided once, told once, never   *)
(* "yes" against the decision (KeepsContract).                               *)
THEOREM GatesKeepContract == Spec => KeepsContract
<1>1. Init => Contract!Init
  <2> SUFFICES ASSUME Init PROVE Contract!Init
    OBVIOUS
  <2>1. DOMAIN gate = {}
    BY DEF Init
  <2>2. \A g \in 1..MaxGates : GateDecision(g) = "unasked"
    BY <2>1 DEF GateDecision
  <2>3. \A g \in 1..MaxGates : GateTold(g) = Contract!Silence
    BY <2>1 DEF GateTold, Contract!Silence
  <2> QED
    BY <2>2, <2>3 DEF Contract!Init
<1>2. ApprovalInv /\ ApprovalInv' /\ [Next]_vars => [Contract!Next]_(Contract!contractVars)
  BY ContractStep
<1> QED
  BY <1>1, <1>2, InvHolds, PTL DEF Spec, KeepsContract, Contract!Spec

=============================================================================
