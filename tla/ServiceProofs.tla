--------------------------- MODULE ServiceProofs ---------------------------
(***************************************************************************)
(* Proofs about services of the Core that keep something for their users:  *)
(* suggestions on the screen (Suggestions), the lines of the audit log     *)
(* (Audit) and the events a subscriber of a stream has not seen (Streams), *)
(* for any number of sessions, rules, events, days, subscribers and any    *)
(* window or limit.                                                        *)
(***************************************************************************)
EXTENDS MCServices, EdgeProofs, RepoProofs

-----------------------------------------------------------------------------
(* Suggestions.                                                             *)

TalkStates == [row : BOOLEAN, up : BOOLEAN, inc : 0..MaxTalks,
               log : Seq(Rules), sending : Rules \union {Nothing}]
FeedStates == [pc : {"off", "cloned", "replay", "live", "over"}, inc : 0..MaxTalks,
               replay : Seq(Rules), queue : Seq(Rules), lagged : BOOLEAN]
EvalStates == [pc : {"idle", "judge", "push"}, rule : Rules \union {Nothing}]

\* The chip of a stamp no older than the stamp, or the task that carries it.
OnItsWay(r) ==
  \/ \E c \in chips : c.rule = r /\ c.at >= lastEmit[r]
  \/ \E s \in Talkers : eval[s].pc = "push" /\ eval[s].rule = r

\* What evaluate_event is given is a rule.
Judging ==
  \A s \in Talkers : eval[s].pc # "idle" => eval[s].rule \in Rules

SgInv ==
  /\ SuggestionsTypeOK /\ Judging
  /\ \A r \in DOMAIN lastEmit : lastEmit[r] <= sgNow /\ (Fresh(lastEmit[r]) => OnItsWay(r))

\* An engine begins with nothing attached and nothing shown.
LEMMA SuggestionsInitially == SuggestionsInit => SgInv
<1> SUFFICES ASSUME SuggestionsInit PROVE SgInv
  OBVIOUS
<1>1. Unfed \in FeedStates
  BY SuggestionsAssumption DEF Unfed, FeedStates
<1>2. [row |-> FALSE, up |-> FALSE, inc |-> 0, log |-> << >>, sending |-> Nothing]
        \in TalkStates
  BY SuggestionsAssumption DEF TalkStates
<1>3. Calm \in EvalStates /\ Calm.pc = "idle"
  BY DEF Calm, EvalStates
<1>4. DOMAIN lastEmit = {}
  BY DEF SuggestionsInit
<1>5. /\ talk \in [Talkers -> TalkStates] /\ feed \in [Talkers -> FeedStates]
      /\ eval \in [Talkers -> EvalStates]
  BY <1>1, <1>2, <1>3 DEF SuggestionsInit
<1> QED
  BY <1>3, <1>4, <1>5, SuggestionsAssumption
     DEF SuggestionsInit, SgInv, SuggestionsTypeOK, Judging, TalkStates, FeedStates, EvalStates

\* A step that moves neither the clock, the stamps, the chips nor a push
\* suppresses nothing more.
LEMMA QuietStep ==
  ASSUME SgInv, SuggestionsTypeOK', UNCHANGED <<sgNow, lastEmit, chips>>,
         \/ eval' = eval
         \/ \E s \in Talkers, r \in Rules :
              eval[s] = Calm /\ eval' = [eval EXCEPT ![s] = [pc |-> "judge", rule |-> r]]
  PROVE  SgInv'
<1>1. \A s \in Talkers : eval[s].pc = "push" => eval'[s] = eval[s]
  BY DEF Calm, SgInv, SuggestionsTypeOK
<1>2. Judging'
  <2>1. \A t \in Talkers : eval'[t] = eval[t] \/ eval'[t].rule \in Rules
    BY DEF SgInv, SuggestionsTypeOK
  <2> QED
    BY <2>1 DEF SgInv, Judging
<1>3. \A r \in DOMAIN lastEmit : Fresh(lastEmit[r]) = Fresh(lastEmit[r])'
  BY DEF Fresh
<1>4. \A r \in DOMAIN lastEmit : OnItsWay(r) => OnItsWay(r)'
  BY <1>1 DEF OnItsWay
<1> QED
  BY <1>2, <1>3, <1>4 DEF SgInv

\* The sessions' steps, and the engine's until an event is evaluated.
LEMMA SessionsAndPoll ==
  ASSUME SgInv, NEW s \in Talkers,
         \/ TalkOpens(s) \/ TalkEnters(s) \/ TalkEnds(s) \/ TalkLeaves(s)
         \/ (\E r \in Rules : Says(s, r)) \/ Sends(s)
         \/ Attach(s) \/ CloneTalk(s) \/ SubscribeTalk(s) \/ SpawnFeed(s) \/ PollTick
  PROVE  SgInv'
<1>0. /\ talk \in [Talkers -> TalkStates] /\ feed \in [Talkers -> FeedStates]
      /\ talk[s] \in TalkStates /\ feed[s] \in FeedStates
  BY DEF SgInv, SuggestionsTypeOK, TalkStates, FeedStates
<1>1. UNCHANGED <<sgNow, lastEmit, chips, eval>>
  BY DEF TalkOpens, TalkEnters, TalkEnds, TalkLeaves, Says, Sends, Attach, CloneTalk,
         SubscribeTalk, SpawnFeed, PollTick, engine
<1>2. talk' \in [Talkers -> TalkStates]
  <2>1. CASE TalkOpens(s) \/ TalkEnds(s) \/ TalkLeaves(s)
    <3>1. \A b \in BOOLEAN : /\ [talk[s] EXCEPT !.row = b] \in TalkStates
                             /\ [talk[s] EXCEPT !.up = b] \in TalkStates
      BY <1>0 DEF TalkStates
    <3>2. talk' = [talk EXCEPT ![s] = [talk[s] EXCEPT !.row = TRUE]]
            \/ talk' = [talk EXCEPT ![s] = [talk[s] EXCEPT !.row = FALSE]]
            \/ talk' = [talk EXCEPT ![s] = [talk[s] EXCEPT !.up = FALSE]]
      BY <2>1 DEF TalkOpens, TalkEnds, TalkLeaves
    <3> QED
      BY <1>0, <3>1, <3>2
  <2>2. CASE TalkEnters(s)
    <3>1. talk[s].inc + 1 \in 0..MaxTalks
      BY <1>0, <2>2, SuggestionsAssumption DEF TalkEnters, TalkStates
    <3> DEFINE i == talk[s].inc + 1
    <3>2. << >> \in Seq(Rules) /\ TRUE \in BOOLEAN
      OBVIOUS
    <3>3. [talk[s] EXCEPT !.up = TRUE, !.inc = i, !.log = << >>] \in TalkStates
      <4> HIDE DEF i
      <4> QED
        BY <1>0, <3>1, <3>2 DEF TalkStates, i
    <3> QED
      BY <1>0, <2>2, <3>3 DEF TalkEnters
  <2>3. ASSUME NEW r \in Rules, Says(s, r) PROVE talk' \in [Talkers -> TalkStates]
    <3>1. Append(talk[s].log, r) \in Seq(Rules)
      BY <1>0 DEF TalkStates
    <3>2. [talk[s] EXCEPT !.log = Append(talk[s].log, r), !.sending = r] \in TalkStates
      BY <1>0, <3>1 DEF TalkStates
    <3> QED
      BY <1>0, <2>3, <3>2 DEF Says
  <2>4. CASE Sends(s)
    <3>1. [talk[s] EXCEPT !.sending = Nothing] \in TalkStates
      BY <1>0 DEF TalkStates
    <3> QED
      BY <1>0, <2>4, <3>1 DEF Sends
  <2>5. CASE Attach(s) \/ CloneTalk(s) \/ SubscribeTalk(s) \/ SpawnFeed(s) \/ PollTick
    BY <1>0, <2>5 DEF Attach, CloneTalk, SubscribeTalk, SpawnFeed, PollTick
  <2> QED
    BY <2>1, <2>2, <2>3, <2>4, <2>5
<1>3. feed' \in [Talkers -> FeedStates]
  <2>1. CASE Sends(s)
    <3> DEFINE q == Append(feed[s].queue, talk[s].sending)
               q2 == IF Len(q) > ChannelCap THEN Tail(q) ELSE q
               l2 == feed[s].lagged \/ Len(q) > ChannelCap
    <3>1. q \in Seq(Rules) /\ q # << >>
      <4>1. feed[s].queue \in Seq(Rules) /\ talk[s].sending \in Rules
        BY <1>0, <2>1 DEF Sends, FeedStates, TalkStates
      <4> QED
        BY <4>1
    <3>2. q2 \in Seq(Rules) /\ l2 \in BOOLEAN
      <4> HIDE DEF q
      <4> QED
        BY <1>0, <3>1 DEF FeedStates
    <3>3. [feed[s] EXCEPT !.queue = q2, !.lagged = l2] \in FeedStates
      <4> HIDE DEF q2, l2
      <4> QED
        BY <1>0, <3>2 DEF FeedStates
    <3>4. feed' = feed \/ feed' = [feed EXCEPT ![s] = [feed[s] EXCEPT !.queue = q2, !.lagged = l2]]
      BY <2>1 DEF Sends
    <3> HIDE DEF q2, l2
    <3> QED
      BY <1>0, <3>3, <3>4
  <2>2. CASE CloneTalk(s)
    <3>1. Unfed \in FeedStates
      BY SuggestionsAssumption DEF Unfed, FeedStates
    <3>2. [Unfed EXCEPT !.pc = "cloned", !.inc = talk[s].inc, !.replay = talk[s].log]
            \in FeedStates
      BY <1>0, <3>1 DEF TalkStates, FeedStates
    <3> QED
      BY <1>0, <2>2, <3>2 DEF CloneTalk
  <2>3. CASE SubscribeTalk(s) \/ SpawnFeed(s)
    <3>1. \A p \in {"replay", "live"} : [feed[s] EXCEPT !.pc = p] \in FeedStates
      BY <1>0 DEF FeedStates
    <3>2. \/ feed' = [feed EXCEPT ![s] = [feed[s] EXCEPT !.pc = "replay"]]
          \/ feed' = [feed EXCEPT ![s] = [feed[s] EXCEPT !.pc = "live"]]
      BY <2>3 DEF SubscribeTalk, SpawnFeed
    <3> QED
      BY <1>0, <3>1, <3>2
  <2> QED
    BY <1>0, <2>1, <2>2, <2>3 DEF TalkOpens, TalkEnters, TalkEnds, TalkLeaves, Says, Attach, PollTick
<1>4. /\ attached' \subseteq Talkers /\ said' \in 0..MaxSaid
      /\ poll' \in [todo : SUBSET Talkers, at : Talkers \union {Nothing}]
  <2>1. poll \in [todo : SUBSET Talkers, at : Talkers \union {Nothing}]
    BY DEF SgInv, SuggestionsTypeOK
  <2>2. attached' \subseteq Talkers
    BY DEF TalkOpens, TalkEnters, TalkEnds, TalkLeaves, Says, Sends, Attach, CloneTalk,
           SubscribeTalk, SpawnFeed, PollTick, engine, SgInv, SuggestionsTypeOK
  <2>3. said' \in 0..MaxSaid
    <3>1. said' = said \/ (said < MaxSaid /\ said' = said + 1)
      BY DEF TalkOpens, TalkEnters, TalkEnds, TalkLeaves, Says, Sends, Attach, CloneTalk,
             SubscribeTalk, SpawnFeed, PollTick
    <3>2. said \in 0..MaxSaid /\ MaxSaid \in Nat
      BY SuggestionsAssumption DEF SgInv, SuggestionsTypeOK
    <3> QED
      BY <3>1, <3>2
  <2>4. poll' \in [todo : SUBSET Talkers, at : Talkers \union {Nothing}]
    <3>1. CASE Attach(s)
      BY <2>1, <3>1 DEF Attach
    <3>2. CASE CloneTalk(s) \/ SpawnFeed(s)
      BY <2>1, <3>2 DEF CloneTalk, SpawnFeed
    <3>3. CASE PollTick
      BY <2>1, <3>3 DEF PollTick
    <3> QED
      BY <2>1, <3>1, <3>2, <3>3
         DEF TalkOpens, TalkEnters, TalkEnds, TalkLeaves, Says, Sends, SubscribeTalk, engine
  <2> QED
    BY <2>2, <2>3, <2>4
<1>5. SuggestionsTypeOK'
  BY <1>1, <1>2, <1>3, <1>4 DEF SgInv, SuggestionsTypeOK, TalkStates, FeedStates
<1> QED
  BY <1>1, <1>5, QuietStep

\* The step that hands an event to evaluate_event, or ends a session's task.
LEMMA TakeKeeps ==
  ASSUME SgInv, NEW s \in Talkers, TakeReplay(s) \/ TakeEvent(s)
  PROVE  SgInv'
<1>0. /\ feed \in [Talkers -> FeedStates] /\ feed[s] \in FeedStates
      /\ eval \in [Talkers -> EvalStates]
  BY DEF SgInv, SuggestionsTypeOK, FeedStates, EvalStates
<1>1. UNCHANGED <<sgNow, lastEmit, chips, talk, attached, poll, said>>
  BY DEF TakeReplay, TakeEvent
<1>2. ASSUME NEW q \in Seq(Rules), q # << >> PROVE Head(q) \in Rules /\ Tail(q) \in Seq(Rules)
  BY <1>2
<1>3. \/ /\ feed' \in [Talkers -> FeedStates] /\ eval' = eval
      \/ /\ feed' \in [Talkers -> FeedStates] /\ eval[s] = Calm
         /\ \E r \in Rules : eval' = [eval EXCEPT ![s] = [pc |-> "judge", rule |-> r]]
  <2>1. CASE TakeReplay(s)
    <3>1. feed[s].replay \in Seq(Rules) /\ feed[s].replay # << >>
      BY <1>0, <2>1 DEF TakeReplay, FeedStates
    <3>2. Head(feed[s].replay) \in Rules /\ Tail(feed[s].replay) \in Seq(Rules)
      BY <1>2, <3>1
    <3>3. [feed[s] EXCEPT !.replay = Tail(feed[s].replay)] \in FeedStates
      BY <1>0, <3>2 DEF FeedStates
    <3> QED
      BY <1>0, <2>1, <3>2, <3>3 DEF TakeReplay
  <2>2. CASE TakeEvent(s)
    <3>1. CASE feed' = [feed EXCEPT ![s] = [Unfed EXCEPT !.pc = "over"]] /\ eval' = eval
      <4>0. Unfed \in FeedStates
        BY SuggestionsAssumption DEF Unfed, FeedStates
      <4>1. [Unfed EXCEPT !.pc = "over"] \in FeedStates
        BY <4>0 DEF FeedStates
      <4> QED
        BY <1>0, <3>1, <4>1
    <3>2. CASE /\ feed[s].queue # << >>
               /\ eval' = [eval EXCEPT ![s] = [pc |-> "judge", rule |-> Head(feed[s].queue)]]
               /\ feed' = [feed EXCEPT ![s].queue = Tail(@)]
      <4>1. feed[s].queue \in Seq(Rules)
        BY <1>0 DEF FeedStates
      <4>2. Head(feed[s].queue) \in Rules /\ Tail(feed[s].queue) \in Seq(Rules)
        BY <1>2, <3>2, <4>1
      <4>3. [feed[s] EXCEPT !.queue = Tail(feed[s].queue)] \in FeedStates
        BY <1>0, <4>2 DEF FeedStates
      <4>4. eval[s] = Calm
        BY <2>2 DEF TakeEvent
      <4> QED
        BY <1>0, <3>2, <4>2, <4>3, <4>4
    <3> QED
      BY <2>2, <3>1, <3>2 DEF TakeEvent
  <2> QED
    BY <2>1, <2>2
<1>4. eval' \in [Talkers -> EvalStates]
  BY <1>0, <1>3 DEF EvalStates
<1>5. SuggestionsTypeOK'
  BY <1>1, <1>3, <1>4 DEF SgInv, SuggestionsTypeOK, FeedStates, EvalStates
<1> QED
  BY <1>1, <1>3, <1>5, QuietStep

\* A chip is suppressed from the stamp on, and the task that stamped carries it.
LEMMA JudgeKeeps ==
  ASSUME SgInv, NEW s \in Talkers, Judge(s)
  PROVE  SgInv'
<1> DEFINE r == eval[s].rule
           kept == {x \in DOMAIN lastEmit : Fresh(lastEmit[x])}
<1>0. /\ eval \in [Talkers -> EvalStates] /\ eval[s] \in EvalStates
      /\ sgNow \in Nat /\ DOMAIN lastEmit \subseteq Rules
      /\ \A x \in DOMAIN lastEmit : lastEmit[x] \in Nat
      /\ eval[s].pc = "judge" /\ r \in Rules
  BY DEF SgInv, SuggestionsTypeOK, EvalStates, Judge, Judging
<1>1. UNCHANGED <<sgNow, chips, talk, feed, attached, poll, said>>
  BY DEF Judge
<1>2. \A x : Fresh(x) = (sgNow < x + DEDUP_TTL)
  BY DEF Fresh
<1>3. ASSUME NEW x \in kept, eval' = [eval EXCEPT ![s] = eval'[s]],
             lastEmit'[x] = lastEmit[x]
      PROVE  lastEmit[x] <= sgNow /\ OnItsWay(x)'
  <2>1. lastEmit[x] <= sgNow /\ OnItsWay(x)
    BY DEF SgInv
  <2>2. ASSUME NEW t \in Talkers, eval[t].pc = "push" PROVE eval'[t] = eval[t]
    BY <1>0, <1>3, <2>2
  <2> QED
    BY <1>1, <1>3, <2>1, <2>2 DEF OnItsWay
<1>4. CASE eval' = [eval EXCEPT ![s] = Calm] /\ lastEmit' = [x \in kept |-> lastEmit[x]]
  <2>1. Calm \in EvalStates /\ Calm.pc = "idle"
    BY DEF Calm, EvalStates
  <2>2. /\ eval' \in [Talkers -> EvalStates] /\ eval'[s] = Calm
        /\ eval' = [eval EXCEPT ![s] = eval'[s]]
        /\ \A t \in Talkers \ {s} : eval'[t] = eval[t]
    BY <1>0, <1>4, <2>1
  <2>3. DOMAIN lastEmit' = kept /\ \A x \in kept : lastEmit'[x] = lastEmit[x]
    BY <1>4
  <2>4. SuggestionsTypeOK'
    BY <1>0, <1>1, <2>2, <2>3 DEF SgInv, SuggestionsTypeOK, EvalStates
  <2>5. Judging'
    BY <2>1, <2>2 DEF SgInv, Judging
  <2>6. \A x \in kept : lastEmit'[x] <= sgNow' /\ OnItsWay(x)'
    BY <1>1, <1>3, <2>2, <2>3
  <2> QED
    BY <2>3, <2>4, <2>5, <2>6 DEF SgInv
<1>5. CASE /\ r \notin kept /\ eval' = [eval EXCEPT ![s].pc = "push"]
           /\ lastEmit' = [x \in kept \union {r} |-> IF x = r THEN sgNow ELSE lastEmit[x]]
  <2>1. [eval[s] EXCEPT !.pc = "push"] \in EvalStates
    BY <1>0 DEF EvalStates
  <2>2. /\ eval' \in [Talkers -> EvalStates]
        /\ eval'[s].pc = "push" /\ eval'[s].rule = r
        /\ eval' = [eval EXCEPT ![s] = eval'[s]]
        /\ \A t \in Talkers \ {s} : eval'[t] = eval[t]
    BY <1>0, <1>5, <2>1 DEF EvalStates
  <2>3. PICK k \in Rules : k = r
    BY <1>0
  <2>4. /\ DOMAIN lastEmit' = kept \union {k} /\ lastEmit'[k] = sgNow
        /\ \A x \in kept : lastEmit'[x] = lastEmit[x]
    BY <1>5, <2>3
  <2>5. eval'[s].pc = "push" /\ eval'[s].rule = k
    BY <2>2, <2>3
  <2> HIDE DEF r, kept
  <2>6. SuggestionsTypeOK'
    BY <1>0, <1>1, <2>2, <2>4 DEF SgInv, SuggestionsTypeOK, EvalStates, kept
  <2>7. Judging'
    BY <1>0, <2>2 DEF SgInv, Judging
  <2>8. \A x \in kept : lastEmit'[x] <= sgNow' /\ OnItsWay(x)'
    BY <1>1, <1>3, <2>2, <2>4
  <2>9. lastEmit'[k] <= sgNow' /\ OnItsWay(k)'
    BY <1>0, <1>1, <2>5, <2>4 DEF OnItsWay
  <2> QED
    BY <2>4, <2>6, <2>7, <2>8, <2>9 DEF SgInv
<1> QED
  BY <1>4, <1>5 DEF Judge

\* The chip is stamped no earlier than the window, and pruned by the same rule.
LEMMA ChipsKeep ==
  ASSUME SgInv, ChipClock \/ ListChips \/ \E s \in Talkers : PushChip(s)
  PROVE  SgInv'
<1>0. /\ eval \in [Talkers -> EvalStates]
      /\ sgNow \in 0..MaxSgClock /\ DOMAIN lastEmit \subseteq Rules
      /\ \A x \in DOMAIN lastEmit : lastEmit[x] \in Nat
      /\ chips \subseteq [rule : Rules, at : Nat]
      /\ MaxSgClock \in Nat /\ DEDUP_TTL \in Nat
  BY SuggestionsAssumption DEF SgInv, SuggestionsTypeOK, EvalStates
<1>1. CASE ChipClock
  <2>1. /\ UNCHANGED <<talk, feed, attached, poll, eval, lastEmit, chips, said>>
        /\ sgNow' = sgNow + 1 /\ sgNow < MaxSgClock
    BY <1>1 DEF ChipClock, engine
  <2>2. SuggestionsTypeOK' /\ Judging'
    BY <1>0, <2>1 DEF SgInv, SuggestionsTypeOK, Judging
  <2>3. ASSUME NEW x \in DOMAIN lastEmit
        PROVE  lastEmit[x] <= sgNow' /\ (Fresh(lastEmit[x])' => Fresh(lastEmit[x]))
    BY <1>0, <2>1 DEF Fresh, SgInv
  <2>4. \A x \in DOMAIN lastEmit : OnItsWay(x) => OnItsWay(x)'
    BY <2>1 DEF OnItsWay
  <2> QED
    BY <2>1, <2>2, <2>3, <2>4 DEF SgInv
<1>2. CASE ListChips
  <2>1. /\ UNCHANGED <<sgNow, talk, feed, attached, poll, eval, lastEmit, said>>
        /\ chips' = {c \in chips : Shown(c)}
    BY <1>2 DEF ListChips
  <2>2. SuggestionsTypeOK' /\ Judging'
    BY <1>0, <2>1 DEF SgInv, SuggestionsTypeOK, Judging
  <2>3. ASSUME NEW x \in DOMAIN lastEmit, Fresh(lastEmit[x]) PROVE OnItsWay(x)'
    <3>1. OnItsWay(x)
      BY <2>3 DEF SgInv
    <3>2. ASSUME NEW c \in chips, c.at >= lastEmit[x] PROVE c \in chips'
      BY <1>0, <2>1, <2>3, <3>2 DEF Shown, Fresh
    <3> QED
      BY <2>1, <3>1, <3>2 DEF OnItsWay
  <2> QED
    BY <2>1, <2>2, <2>3 DEF SgInv, Fresh
<1>3. ASSUME NEW s \in Talkers, PushChip(s) PROVE SgInv'
  <2> DEFINE new == [rule |-> eval[s].rule, at |-> sgNow]
  <2>1. /\ UNCHANGED <<sgNow, talk, feed, attached, poll, lastEmit, said>>
        /\ chips' = chips \union {new} /\ eval' = [eval EXCEPT ![s] = Calm]
        /\ eval[s].pc = "push"
    BY <1>3 DEF PushChip
  <2>2. Calm \in EvalStates /\ Calm.pc = "idle"
    BY DEF Calm, EvalStates
  <2>3. eval[s].rule \in Rules
    BY <2>1 DEF SgInv, Judging
  <2>4. new \in [rule : Rules, at : Nat]
    BY <1>0, <2>3
  <2>5. SuggestionsTypeOK' /\ Judging'
    BY <1>0, <2>1, <2>2, <2>4 DEF SgInv, SuggestionsTypeOK, Judging, EvalStates
  <2>6. ASSUME NEW x \in DOMAIN lastEmit, OnItsWay(x) PROVE OnItsWay(x)'
    <3>1. CASE \E c \in chips : c.rule = x /\ c.at >= lastEmit[x]
      BY <2>1, <3>1 DEF OnItsWay
    <3>2. ASSUME NEW t \in Talkers, eval[t].pc = "push", eval[t].rule = x
          PROVE  OnItsWay(x)'
      <4>1. CASE t = s
        <5>1. new \in chips' /\ new.rule = x /\ new.at >= lastEmit'[x]
          BY <1>0, <2>1, <3>2, <4>1 DEF SgInv
        <5> QED
          BY <5>1 DEF OnItsWay
      <4>2. CASE t # s
        BY <1>0, <2>1, <3>2, <4>2 DEF OnItsWay
      <4> QED
        BY <4>1, <4>2
    <3> QED
      BY <2>6, <3>1, <3>2 DEF OnItsWay
  <2> QED
    BY <2>1, <2>5, <2>6 DEF SgInv, Fresh
<1> QED
  BY <1>1, <1>2, <1>3

\* SgInv holds in every state of the engine.
LEMMA SgInvariant == SuggestionsSpec => []SgInv
<1>1. SgInv /\ [SuggestionsNext]_sgVars => SgInv'
  <2> SUFFICES ASSUME SgInv, [SuggestionsNext]_sgVars PROVE SgInv'
    OBVIOUS
  <2>1. CASE UNCHANGED sgVars
    <3>1. SuggestionsTypeOK'
      BY <2>1 DEF SgInv, SuggestionsTypeOK, sgVars
    <3> QED
      BY <2>1, <3>1, QuietStep DEF sgVars
  <2>2. ASSUME PollTick PROVE SgInv'
    <3>1. SuggestionsTypeOK'
      BY <2>2 DEF PollTick, SgInv, SuggestionsTypeOK
    <3> QED
      BY <2>2, <3>1, QuietStep DEF PollTick
  <2> QED
    BY <2>1, <2>2, SessionsAndPoll, TakeKeeps, JudgeKeeps, ChipsKeep DEF SuggestionsNext
<1> QED
  BY SuggestionsInitially, <1>1, PTL DEF SuggestionsSpec

\* While a rule is suppressed its chip is on the screen or on the way there,
\* whichever sessions' tasks stamp in which order, and for any window.
THEOREM SuppressedIsShownHolds == SuggestionsSpec => []SuppressedIsShown
<1>1. SgInv => SuppressedIsShown
  <2> SUFFICES ASSUME SgInv, NEW r \in DOMAIN lastEmit, Fresh(lastEmit[r])
               PROVE  \/ \E c \in chips : c.rule = r /\ Fresh(c.at)
                      \/ \E s \in Talkers : eval[s] = [pc |-> "push", rule |-> r]
    BY DEF SuppressedIsShown
  <2>1. OnItsWay(r)
    BY DEF SgInv
  <2>2. ASSUME NEW c \in chips, c.rule = r, c.at >= lastEmit[r] PROVE Fresh(c.at)
    BY <2>2, SuggestionsAssumption DEF Fresh, SgInv, SuggestionsTypeOK
  <2>3. ASSUME NEW s \in Talkers, eval[s].pc = "push", eval[s].rule = r
        PROVE  eval[s] = [pc |-> "push", rule |-> r]
    BY <2>3 DEF SgInv, SuggestionsTypeOK
  <2> QED
    BY <2>1, <2>2, <2>3 DEF OnItsWay
<1> QED
  BY SgInvariant, <1>1, PTL

\* Sessions, feeds, evaluations, stamps and chips keep their types.
THEOREM SuggestionsTypesHold == SuggestionsSpec => []SuggestionsTypeOK
<1>1. SgInv => SuggestionsTypeOK
  BY DEF SgInv
<1> QED
  BY SgInvariant, <1>1, PTL

-----------------------------------------------------------------------------
(* The audit log.                                                           *)

Ascending(q) == \A i, j \in 1..Len(q) : i < j => q[i] < q[j]

\* What waits in the queue was numbered in the order it was appended.
QueueSound(q, n) ==
  /\ q \in Seq(Nat) /\ Ascending(q) /\ Len(q) <= n
  /\ \A i \in 1..Len(q) : 1 <= q[i] /\ q[i] <= n

\* The lines of a file are in order, and before all that waits.
LinesSound(l, q, n) ==
  /\ l \in Seq(Nat) /\ Ascending(l) /\ Len(l) + Len(q) <= n
  /\ \A i \in 1..Len(l) : /\ 1 <= l[i] /\ l[i] <= n
                          /\ \A k \in 1..Len(q) : l[i] < q[k]

\* Files numbered up to m, each sound.
FilesSound(fs, q, n, m) ==
  \A f \in DOMAIN fs : /\ f \in (0..MaxDays) \X Nat /\ f[2] <= m
                       /\ LinesSound(fs[f], q, n)

HasLine(fs, d, l) ==
  \E f \in DOMAIN fs : f[1] = d /\ \E i \in 1..Len(fs[f]) : fs[f][i] = l

\* What fs held of any day, gs holds, unless the day was dropped.
Carries(fs, gs, dropped) ==
  \A d, l : HasLine(fs, d, l) => d \in dropped \/ HasLine(gs, d, l)

AdInv ==
  /\ day \in 0..MaxDays /\ appends \in 0..MaxAppends
  /\ Len(queue) <= QueueCap
  /\ writer \in {"running", "draining", "ended", "panicked"}
  /\ open \in [date : NoDay..MaxDays, present : BOOLEAN, bytes : Nat]
  /\ pruned \subseteq 0..MaxDays /\ written \subseteq (1..MaxAppends) \X (0..MaxDays)
  /\ QueueSound(queue, appends)
  /\ FilesSound(files, queue, appends, appends - Len(queue))
  /\ open.bytes + Len(queue) <= appends
  /\ open.present => <<open.date, 0>> \in DOMAIN files
  /\ \A w \in written : w[2] \in pruned \/ HasLine(files, w[2], w[1])

\* A log begins empty.
LEMMA AuditInitially == AuditInit => AdInv
<1> SUFFICES ASSUME AuditInit PROVE AdInv
  OBVIOUS
<1>1. DOMAIN files = {} /\ queue = << >> /\ Len(queue) = 0
  BY DEF AuditInit
<1>2. QueueSound(queue, 0)
  BY <1>1 DEF QueueSound, Ascending
<1> QED
  BY <1>1, <1>2, AuditAssumption DEF AuditInit, AdInv, FilesSound, Unopened, NoDay

\* A queue whose head is taken is a queue, and its head is before the rest and
\* behind every line written.
LEMMA HeadTaken ==
  ASSUME NEW q, NEW n \in Nat, QueueSound(q, n), q # << >>
  PROVE  /\ QueueSound(Tail(q), n) /\ Len(Tail(q)) = Len(q) - 1
         /\ Len(q) \in Nat \ {0} /\ Head(q) \in 1..n
         /\ \A k \in 1..Len(Tail(q)) : Head(q) < Tail(q)[k] /\ Tail(q)[k] = q[k + 1]
<1>1. q \in Seq(Nat) /\ Len(q) \in Nat \ {0} /\ Head(q) = q[1]
  BY DEF QueueSound
<1>2. /\ Tail(q) \in Seq(Nat) /\ Len(Tail(q)) = Len(q) - 1
      /\ \A k \in 1..Len(Tail(q)) : Tail(q)[k] = q[k + 1]
  BY <1>1
<1>3. \A k \in 1..Len(Tail(q)) : k + 1 \in 1..Len(q) /\ 1 \in 1..Len(q) /\ 1 < k + 1
  BY <1>1, <1>2
<1>4. Head(q) \in 1..n
  BY <1>1 DEF QueueSound
<1>5. \A k \in 1..Len(Tail(q)) : Head(q) < Tail(q)[k]
  BY <1>1, <1>2, <1>3 DEF QueueSound, Ascending
<1>6. Ascending(Tail(q))
  <2> SUFFICES ASSUME NEW i \in 1..Len(Tail(q)), NEW j \in 1..Len(Tail(q)), i < j
               PROVE  Tail(q)[i] < Tail(q)[j]
    BY DEF Ascending
  <2>1. i + 1 \in 1..Len(q) /\ j + 1 \in 1..Len(q) /\ i + 1 < j + 1
    BY <1>3
  <2>2. q[i + 1] < q[j + 1]
    BY <2>1 DEF QueueSound, Ascending
  <2> QED
    BY <1>2, <2>2
<1> QED
  BY <1>1, <1>2, <1>3, <1>4, <1>5, <1>6 DEF QueueSound

\* Lines stay sound when the queue gets shorter at its head.
LEMMA LinesOutlive ==
  ASSUME NEW q, NEW n \in Nat, QueueSound(q, n), q # << >>, NEW l, LinesSound(l, q, n)
  PROVE  LinesSound(l, Tail(q), n)
<1>1. l \in Seq(Nat) /\ Len(l) \in Nat
  BY DEF LinesSound
<1>2. \A k \in 1..Len(Tail(q)) : k + 1 \in 1..Len(q)
  BY HeadTaken
<1> QED
  BY <1>1, <1>2, HeadTaken DEF LinesSound

\* A line appended to a file keeps its order.
LEMMA LineAppended ==
  ASSUME NEW q, NEW n \in Nat, QueueSound(q, n), q # << >>, NEW l, LinesSound(l, q, n)
  PROVE  LinesSound(Append(l, Head(q)), Tail(q), n)
<1> DEFINE m == Append(l, Head(q))
<1>1. l \in Seq(Nat) /\ Len(l) \in Nat /\ Head(q) \in Nat
  BY HeadTaken DEF LinesSound
<1>2. /\ m \in Seq(Nat) /\ Len(m) = Len(l) + 1 /\ m[Len(l) + 1] = Head(q)
      /\ \A i \in 1..Len(l) : m[i] = l[i]
  BY <1>1
<1>3. \A i \in 1..Len(l) : l[i] < Head(q)
  <2>1. Head(q) = q[1] /\ 1 \in 1..Len(q)
    BY HeadTaken DEF QueueSound
  <2> QED
    BY <2>1 DEF LinesSound
<1>a. \A i, j \in 1..Len(l) : i < j => l[i] < l[j]
  BY DEF LinesSound, Ascending
<1>4. Ascending(m)
  <2>1. SUFFICES ASSUME NEW i \in 1..Len(m), NEW j \in 1..Len(m), i < j PROVE m[i] < m[j]
    BY DEF Ascending
  <2> HIDE DEF m
  <2>2. i \in 1..Len(l) /\ m[i] = l[i]
    BY <1>1, <1>2, <2>1
  <2>3. CASE j \in 1..Len(l)
    BY <1>2, <1>a, <2>1, <2>2, <2>3
  <2>4. CASE j = Len(l) + 1
    BY <1>2, <1>3, <2>2, <2>4
  <2> QED
    BY <1>1, <1>2, <2>3, <2>4
<1>5. Len(m) + Len(Tail(q)) <= n
  BY <1>1, <1>2, HeadTaken DEF LinesSound
<1>6. LinesSound(l, Tail(q), n)
  BY LinesOutlive
<1> HIDE DEF m
<1>7. ASSUME NEW i \in 1..Len(m)
      PROVE  1 <= m[i] /\ m[i] <= n /\ \A k \in 1..Len(Tail(q)) : m[i] < Tail(q)[k]
  <2>1. CASE i \in 1..Len(l)
    <3>1. m[i] = l[i]
      BY <1>2, <2>1
    <3>2. 1 <= l[i] /\ l[i] <= n /\ \A k \in 1..Len(Tail(q)) : l[i] < Tail(q)[k]
      BY <1>6, <2>1 DEF LinesSound
    <3> QED
      BY <3>1, <3>2
  <2>2. CASE i = Len(l) + 1
    BY <1>2, <2>2, HeadTaken
  <2> QED
    BY <1>1, <1>2, <2>1, <2>2
<1> QED
  BY <1>2, <1>4, <1>5, <1>7 DEF LinesSound, m

\* The day's file in a map of files, opened or rolled: sound with the lines it
\* took over, still numbered within bounds, and nothing dropped but old days.
DayFile(fs, q, n, m, dropped) ==
  /\ Current \in DOMAIN fs
  /\ FilesSound(fs, q, n, m)
  /\ Carries(files, fs, dropped)

\* The number of files of a day stays within the events appended.
LEMMA FreeSeqIs ==
  ASSUME NEW fs, NEW q, NEW n \in 0..MaxAppends, NEW m \in 0..MaxAppends,
         FilesSound(fs, q, n, m)
  PROVE  FreeSeq(fs) \in 1..(m + 1) /\ <<day, FreeSeq(fs)>> \notin DOMAIN fs
<1> DEFINE S == {k \in 1..(MaxAppends + 1) : <<day, k>> \notin DOMAIN fs}
<1>0. MaxAppends \in Nat
  BY AuditAssumption
<1>1. m + 1 \in S
  <2>1. <<day, m + 1>> \in DOMAIN fs => m + 1 <= m
    <3>1. <<day, m + 1>>[2] = m + 1
      OBVIOUS
    <3> QED
      BY <3>1 DEF FilesSound
  <2> QED
    BY <1>0, <2>1
<1>2. S \in SUBSET Nat /\ S # {}
  BY <1>0, <1>1
<1>3. PICK k \in S : \A j \in S : k <= j
  BY <1>2, LeastExists
<1>4. \A j \in 1..(k - 1) : <<day, j>> \in DOMAIN fs
  BY <1>0, <1>3
<1>5. \E x \in 1..(MaxAppends + 1) :
        <<day, x>> \notin DOMAIN fs /\ \A j \in 1..(x - 1) : <<day, j>> \in DOMAIN fs
  BY <1>3, <1>4
<1>6. /\ FreeSeq(fs) \in 1..(MaxAppends + 1) /\ <<day, FreeSeq(fs)>> \notin DOMAIN fs
      /\ \A j \in 1..(FreeSeq(fs) - 1) : <<day, j>> \in DOMAIN fs
  BY <1>5, Zenon DEF FreeSeq
<1> HIDE DEF S
<1>7. ASSUME FreeSeq(fs) > m + 1 PROVE FALSE
  <2>1. m + 1 \in 1..(FreeSeq(fs) - 1)
    BY <1>0, <1>6, <1>7
  <2>2. <<day, m + 1>> \in DOMAIN fs
    BY <1>6, <2>1
  <2> QED
    BY <1>1, <2>2 DEF S
<1> QED
  BY <1>0, <1>6, <1>7

\* The facts about the bounds that every step of the writer starts from.
LEMMA WriterBounds ==
  ASSUME AdInv, Ready
  PROVE  /\ appends \in Nat /\ appends \in 0..MaxAppends /\ day \in Nat
         /\ QueueSound(queue, appends) /\ queue # << >>
         /\ Len(queue) \in Nat \ {0} /\ Len(Tail(queue)) = Len(queue) - 1
         /\ appends - Len(queue) \in 0..MaxAppends
         /\ appends - Len(Tail(queue)) = (appends - Len(queue)) + 1
         /\ Current \in (0..MaxDays) \X Nat /\ Current[1] = day /\ Current[2] = 0
<1>1. appends \in Nat /\ day \in Nat /\ MaxAppends \in Nat /\ appends \in 0..MaxAppends
  BY AuditAssumption DEF AdInv
<1>2. QueueSound(queue, appends) /\ queue # << >>
  BY DEF AdInv, Ready
<1>3. Len(queue) \in Nat \ {0} /\ Len(Tail(queue)) = Len(queue) - 1
  BY <1>1, <1>2, HeadTaken
<1>4. Len(queue) <= appends
  BY <1>2 DEF QueueSound
<1>5. Current \in (0..MaxDays) \X Nat /\ Current[1] = day /\ Current[2] = 0
  BY DEF Current, AdInv
<1> QED
  BY <1>1, <1>2, <1>3, <1>4, <1>5

\* What retention drops when the day's file is opened.
Dropped == IF TurnsOver THEN {d \in 0..MaxDays : d < day - RetentionDays} ELSE {}

\* Opening the day's file keeps every line of a day that retention keeps.
LEMMA OpenedIs ==
  ASSUME AdInv, Ready, TurnsOver \/ open.present
  PROVE  /\ DayFile(Opened.fs, queue, appends, appends - Len(queue), Dropped)
         /\ Opened.bytes \in Nat /\ Opened.bytes + Len(queue) <= appends
<1>0. /\ appends \in Nat /\ Len(queue) \in Nat /\ day \in Nat
      /\ Current \in (0..MaxDays) \X Nat /\ Current[1] = day /\ Current[2] = 0
      /\ appends - Len(queue) \in Nat /\ RetentionDays \in Nat
  BY WriterBounds, AuditAssumption
<1>1. FilesSound(files, queue, appends, appends - Len(queue))
  BY DEF AdInv
<1>2. CASE ~TurnsOver
  <2>1. Opened.fs = files /\ Opened.bytes = open.bytes
    BY <1>2 DEF Opened
  <2>2. Current \in DOMAIN files
    BY <1>2 DEF TurnsOver, Current, AdInv
  <2>3. Carries(files, files, Dropped)
    BY DEF Carries
  <2> QED
    BY <1>1, <2>1, <2>2, <2>3 DEF DayFile, AdInv
<1>3. CASE TurnsOver
  <2> DEFINE l == LinesOf(files, Current)
             fs == With(Kept(files), Current, l)
  <2>1. Opened.fs = fs /\ Opened.bytes = Len(l)
    BY <1>3 DEF Opened
  <2>2. LinesSound(l, queue, appends)
    <3>1. CASE Current \in DOMAIN files
      BY <1>1, <3>1 DEF LinesOf, FilesSound
    <3>2. CASE Current \notin DOMAIN files
      <4>1. l = << >> /\ << >> \in Seq(Nat) /\ Len(<< >>) = 0
        BY <3>2 DEF LinesOf
      <4>2. Len(queue) <= appends
        BY DEF AdInv, QueueSound
      <4> QED
        BY <1>0, <4>1, <4>2 DEF LinesSound, Ascending
    <3> QED
      BY <3>1, <3>2
  <2>3. /\ DOMAIN Kept(files) = {g \in DOMAIN files : g[1] >= day - RetentionDays}
        /\ \A g \in DOMAIN Kept(files) : Kept(files)[g] = files[g]
    BY DEF Kept
  <2>4. /\ DOMAIN fs = DOMAIN Kept(files) \cup {Current} /\ fs[Current] = l
        /\ \A g \in DOMAIN Kept(files) \ {Current} : fs[g] = files[g]
    <3> HIDE DEF l
    <3> QED
      BY <2>3 DEF With
  <2>5. \A g \in DOMAIN Kept(files) : fs[g] = files[g]
    BY <2>3, <2>4 DEF LinesOf
  <2> HIDE DEF fs
  <2>6. FilesSound(fs, queue, appends, appends - Len(queue))
    <3>1. ASSUME NEW f \in DOMAIN fs
          PROVE  /\ f \in (0..MaxDays) \X Nat /\ f[2] <= appends - Len(queue)
                 /\ LinesSound(fs[f], queue, appends)
      <4>1. CASE f = Current
        BY <1>0, <2>2, <2>4, <4>1
      <4>2. CASE f # Current
        BY <1>1, <2>3, <2>4, <4>2 DEF FilesSound
      <4> QED
        BY <4>1, <4>2
    <3> QED
      BY <3>1 DEF FilesSound
  <2>7. Carries(files, fs, Dropped)
    <3> SUFFICES ASSUME NEW f \in DOMAIN files, NEW i \in 1..Len(files[f]), f[1] \notin Dropped
                 PROVE  HasLine(fs, f[1], files[f][i])
      BY DEF Carries, HasLine
    <3>1. f[1] \in 0..MaxDays /\ MaxDays \in Nat
      BY <1>1, AuditAssumption DEF FilesSound
    <3>2. f \in DOMAIN Kept(files)
      BY <1>0, <1>3, <2>3, <3>1 DEF Dropped
    <3> QED
      BY <2>4, <2>5, <3>2 DEF HasLine
  <2>8. Len(l) \in Nat /\ Len(l) + Len(queue) <= appends
    BY <2>2 DEF LinesSound
  <2> QED
    BY <2>1, <2>4, <2>6, <2>7, <2>8 DEF DayFile
<1> QED
  BY <1>2, <1>3

\* Rolling by size puts the day's file under a free number: no line is lost,
\* and the day's file is there and empty.
LEMMA RolledIs ==
  ASSUME AdInv, Ready, TurnsOver \/ open.present
  PROVE  LET o == Rolled(Opened)
         IN  /\ DayFile(o.fs, queue, appends, (appends - Len(queue)) + 1, Dropped)
             /\ o.bytes \in Nat /\ o.bytes + Len(queue) <= appends
<1> DEFINE fs == Opened.fs
           k == FreeSeq(fs)
           num == <<day, k>>
           mid == With(fs, num, fs[Current])
           new == With(mid, Current, << >>)
           m == appends - Len(queue)
<1>0. /\ appends \in Nat /\ Len(queue) \in Nat /\ day \in Nat /\ m \in 0..MaxAppends
      /\ Current \in (0..MaxDays) \X Nat /\ Current[1] = day /\ Current[2] = 0
      /\ appends \in 0..MaxAppends
  BY WriterBounds
<1>1. /\ Current \in DOMAIN fs /\ FilesSound(fs, queue, appends, m)
      /\ Carries(files, fs, Dropped)
      /\ Opened.bytes \in Nat /\ Opened.bytes + Len(queue) <= appends
  BY OpenedIs DEF DayFile
<1> HIDE DEF m, fs
<1>2. FilesSound(fs, queue, appends, m + 1)
  BY <1>0, <1>1 DEF FilesSound
<1>3. CASE ~RollsOver(Opened.bytes)
  <2>1. Rolled(Opened).fs = fs /\ Rolled(Opened).bytes = Opened.bytes
    BY <1>3 DEF Rolled, fs
  <2> QED
    BY <1>1, <1>2, <2>1 DEF DayFile, m
<1>4. CASE RollsOver(Opened.bytes)
  <2>1. Rolled(Opened).fs = new /\ Rolled(Opened).bytes = 0
    BY <1>4 DEF Rolled, fs
  <2>2. k \in 1..(m + 1) /\ num \notin DOMAIN fs
    BY <1>0, <1>1, FreeSeqIs
  <2> HIDE DEF k
  <2>3. num # Current /\ num \in (0..MaxDays) \X Nat /\ num[1] = day /\ num[2] = k
    BY <1>0, <2>2 DEF Current
  <2>4. /\ DOMAIN mid = DOMAIN fs \cup {num} /\ mid[num] = fs[Current]
        /\ \A g \in DOMAIN fs \ {num} : mid[g] = fs[g]
    BY DEF With
  <2> HIDE DEF mid
  <2>5. /\ DOMAIN new = DOMAIN mid \cup {Current} /\ new[Current] = << >>
        /\ \A g \in DOMAIN mid \ {Current} : new[g] = mid[g]
    BY DEF With
  <2> HIDE DEF new
  <2>6. /\ DOMAIN new = DOMAIN fs \cup {num} /\ new[num] = fs[Current]
        /\ \A g \in DOMAIN fs \ {Current} : new[g] = fs[g]
    BY <1>1, <2>2, <2>3, <2>4, <2>5
  <2> HIDE DEF num
  <2>7. LinesSound(<< >>, queue, appends)
    <3>1. << >> \in Seq(Nat) /\ Len(<< >>) = 0
      OBVIOUS
    <3>2. Len(queue) <= appends
      BY DEF AdInv, QueueSound
    <3> QED
      BY <1>0, <3>1, <3>2 DEF LinesSound, Ascending
  <2>8. ASSUME NEW f \in DOMAIN new
        PROVE  /\ f \in (0..MaxDays) \X Nat /\ f[2] <= m + 1
               /\ LinesSound(new[f], queue, appends)
    <3>1. CASE f = Current
      BY <1>0, <2>5, <2>7, <3>1
    <3>2. CASE f = num
      BY <1>0, <1>1, <2>2, <2>3, <2>6, <3>2 DEF FilesSound
    <3>3. CASE f \in DOMAIN fs \ {Current}
      BY <1>2, <2>6, <3>3 DEF FilesSound
    <3> QED
      BY <2>6, <3>1, <3>2, <3>3
  <2>9. FilesSound(new, queue, appends, m + 1)
    BY <2>8 DEF FilesSound
  <2>10. Carries(files, new, Dropped)
    <3>1. ASSUME NEW d, NEW l, HasLine(fs, d, l) PROVE HasLine(new, d, l)
      <4>1. PICK f \in DOMAIN fs : f[1] = d /\ \E i \in 1..Len(fs[f]) : fs[f][i] = l
        BY <3>1 DEF HasLine
      <4>2. CASE f = Current
        BY <1>0, <2>3, <2>6, <4>1, <4>2 DEF HasLine
      <4>3. CASE f # Current
        BY <2>6, <4>1, <4>3 DEF HasLine
      <4> QED
        BY <4>2, <4>3
    <3> QED
      BY <1>1, <3>1 DEF Carries
  <2>11. Current \in DOMAIN new /\ 0 + Len(queue) <= appends
    BY <1>0, <1>1, <2>6 DEF AdInv, QueueSound
  <2> QED
    BY <2>1, <2>9, <2>10, <2>11 DEF DayFile, m
<1> QED
  BY <1>3, <1>4

\* Files that carry every line keep what was written, unless its day was
\* dropped.
LEMMA WrittenCarried ==
  ASSUME AdInv, NEW fs, NEW D, Carries(files, fs, D)
  PROVE  \A w \in written : w[2] \in pruned \cup D \/ HasLine(fs, w[2], w[1])
<1> QED
  BY DEF AdInv, Carries

\* With its head taken, the queue and the files stay sound.
LEMMA TakenKeeps ==
  ASSUME NEW q, NEW n \in Nat, QueueSound(q, n), q # << >>, NEW fs, NEW m,
         FilesSound(fs, q, n, m)
  PROVE  FilesSound(fs, Tail(q), n, m)
<1> QED
  BY LinesOutlive DEF FilesSound

\* What every step of the writer that takes the head of the queue leaves.
LEMMA WriterStep ==
  ASSUME AdInv, Ready, Taken, Prune \/ UNCHANGED pruned,
         UNCHANGED <<day, writer, appends>>
  PROVE  /\ day' \in 0..MaxDays /\ appends' \in 0..MaxAppends
         /\ Len(queue') <= QueueCap /\ Len(queue') = Len(queue) - 1
         /\ Len(queue) \in Nat \ {0}
         /\ writer' \in {"running", "draining", "ended", "panicked"}
         /\ pruned' \subseteq 0..MaxDays
         /\ QueueSound(queue', appends')
         /\ appends - Len(queue') = (appends - Len(queue)) + 1
<1>1. queue' = Tail(queue)
  BY DEF Taken
<1>2. /\ QueueSound(queue, appends) /\ queue # << >> /\ appends \in Nat
      /\ Len(Tail(queue)) = Len(queue) - 1 /\ Len(queue) \in Nat \ {0}
      /\ appends - Len(Tail(queue)) = (appends - Len(queue)) + 1
  BY WriterBounds
<1>3. QueueSound(Tail(queue), appends)
  BY <1>2, HeadTaken
<1>4. QueueCap \in Nat /\ Len(queue) <= QueueCap
  BY AuditAssumption DEF AdInv
<1>5. pruned' \subseteq 0..MaxDays
  BY DEF Prune, AdInv
<1> QED
  BY <1>1, <1>2, <1>3, <1>4, <1>5 DEF AdInv

\* What pruned becomes.
LEMMA PruneIs == ASSUME Prune PROVE pruned' = pruned \cup Dropped
<1> QED
  BY DEF Prune, Dropped

\* A write puts the line behind what the day's file holds.
LEMMA WriteLineKeeps == ASSUME AdInv, WriteLine PROVE AdInv'
<1> DEFINE o == Rolled(Opened)
           n == appends
           m == (appends - Len(queue)) + 1
<1>0. /\ Ready /\ (TurnsOver \/ open.present) /\ Prune /\ Taken
      /\ UNCHANGED <<day, writer, appends>>
      /\ files' = With(o.fs, Current, Append(o.fs[Current], Head(queue)))
      /\ open' = [date |-> day, present |-> TRUE, bytes |-> o.bytes + 1]
      /\ written' = written \cup {<<Head(queue), day>>}
  BY DEF WriteLine
<1>1. /\ DayFile(o.fs, queue, n, m, Dropped)
      /\ o.bytes \in Nat /\ o.bytes + Len(queue) <= n
  BY <1>0, RolledIs
<1>2. PICK fs : fs = o.fs
  OBVIOUS
<1>3. PICK b \in Nat : b = o.bytes
  BY <1>1
<1> HIDE DEF o, m
<1>4. /\ n \in Nat /\ n \in 0..MaxAppends /\ day \in Nat /\ QueueSound(queue, n)
      /\ queue # << >> /\ Current[1] = day /\ Current[2] = 0
      /\ Current \in (0..MaxDays) \X Nat /\ Len(queue) \in Nat \ {0}
      /\ appends - Len(queue) \in 0..MaxAppends
  BY <1>0, WriterBounds
<1>5. /\ Current \in DOMAIN fs /\ FilesSound(fs, queue, n, m) /\ Carries(files, fs, Dropped)
  BY <1>1, <1>2 DEF DayFile
<1>6. /\ DOMAIN files' = DOMAIN fs
      /\ files'[Current] = Append(fs[Current], Head(queue))
      /\ \A g \in DOMAIN fs \ {Current} : files'[g] = fs[g]
  BY <1>0, <1>2, <1>5 DEF With
<1>7. Head(queue) \in 1..n /\ Head(queue) \in 1..MaxAppends
  <2>1. Head(queue) \in 1..appends
    BY <1>4, HeadTaken
  <2>2. MaxAppends \in Nat
    BY AuditAssumption
  <2> QED
    BY <1>4, <2>1, <2>2
<1>8. LinesSound(fs[Current], queue, n) /\ fs[Current] \in Seq(Nat)
  BY <1>5 DEF FilesSound, LinesSound
<1>9. /\ \A i \in 1..Len(fs[Current]) : /\ i \in 1..Len(Append(fs[Current], Head(queue)))
                                        /\ Append(fs[Current], Head(queue))[i] = fs[Current][i]
      /\ Len(fs[Current]) + 1 \in 1..Len(Append(fs[Current], Head(queue)))
      /\ Append(fs[Current], Head(queue))[Len(fs[Current]) + 1] = Head(queue)
  BY <1>7, <1>8
<1>10. ASSUME NEW d, NEW l, HasLine(fs, d, l) PROVE HasLine(files', d, l)
  <2>1. PICK f \in DOMAIN fs : f[1] = d /\ \E i \in 1..Len(fs[f]) : fs[f][i] = l
    BY <1>10 DEF HasLine
  <2>2. CASE f = Current
    BY <1>6, <1>9, <2>1, <2>2 DEF HasLine
  <2>3. CASE f # Current
    BY <1>6, <2>1, <2>3 DEF HasLine
  <2> QED
    BY <2>2, <2>3
<1>11. HasLine(files', day, Head(queue))
  BY <1>4, <1>5, <1>6, <1>9 DEF HasLine
<1>12. ASSUME NEW w \in written' PROVE w[2] \in pruned' \/ HasLine(files', w[2], w[1])
  <2>1. CASE w \in written
    <3>1. w[2] \in pruned \cup Dropped \/ HasLine(fs, w[2], w[1])
      BY <1>5, <2>1, WrittenCarried
    <3> QED
      BY <1>0, <1>10, <3>1, PruneIs
  <2>2. CASE w = <<Head(queue), day>>
    BY <1>11, <2>2
  <2> QED
    BY <1>0, <2>1, <2>2
<1>13. FilesSound(files', queue', n, m)
  <2>1. FilesSound(fs, Tail(queue), n, m)
    BY <1>4, <1>5, TakenKeeps
  <2>2. LinesSound(files'[Current], Tail(queue), n)
    BY <1>4, <1>6, <1>8, LineAppended
  <2>3. queue' = Tail(queue)
    BY <1>0 DEF Taken
  <2>4. ASSUME NEW f \in DOMAIN files'
        PROVE  /\ f \in (0..MaxDays) \X Nat /\ f[2] <= m /\ LinesSound(files'[f], Tail(queue), n)
    <3>1. CASE f = Current
      BY <1>5, <2>2, <3>1 DEF FilesSound
    <3>2. CASE f # Current
      BY <1>6, <2>1, <2>4, <3>2 DEF FilesSound
    <3> QED
      BY <3>1, <3>2
  <2> QED
    BY <2>3, <2>4 DEF FilesSound
<1>14. /\ open' \in [date : NoDay..MaxDays, present : BOOLEAN, bytes : Nat]
       /\ open'.date = day /\ open'.bytes = b + 1 /\ open'.present
  <2>1. day \in NoDay..MaxDays /\ b + 1 \in Nat
    BY AuditAssumption DEF NoDay, AdInv
  <2> QED
    BY <1>0, <1>3, <2>1
<1>15. /\ day' \in 0..MaxDays /\ appends' \in 0..MaxAppends
       /\ Len(queue') <= QueueCap /\ Len(queue') = Len(queue) - 1
       /\ writer' \in {"running", "draining", "ended", "panicked"}
       /\ pruned' \subseteq 0..MaxDays
       /\ QueueSound(queue', appends')
       /\ m = appends - Len(queue')
  BY <1>0, WriterStep DEF m
<1>16. written' \subseteq (1..MaxAppends) \X (0..MaxDays)
  BY <1>0, <1>7 DEF AdInv
<1>17. open'.bytes + Len(queue') <= appends'
  BY <1>0, <1>1, <1>3, <1>4, <1>14, <1>15
<1>18. <<open'.date, 0>> \in DOMAIN files'
  BY <1>5, <1>6, <1>14 DEF Current
<1>19. FilesSound(files', queue', appends', appends' - Len(queue'))
  BY <1>0, <1>13, <1>15
<1> QED
  BY <1>12, <1>14, <1>15, <1>16, <1>17, <1>18, <1>19 DEF AdInv

\* Files that carry every line, a queue without its head and an open file that
\* is there or is not: the rest of the steps that take an event and write none.
LEMMA LostKeeps ==
  ASSUME AdInv, Ready, Taken, UNCHANGED <<day, writer, written, appends>>,
         NEW D, pruned' = pruned \cup D, Prune \/ UNCHANGED pruned,
         FilesSound(files', queue, appends, (appends - Len(queue)) + 1),
         Carries(files, files', D),
         open' \in [date : NoDay..MaxDays, present : BOOLEAN, bytes : Nat],
         open'.bytes + Len(queue) <= appends + 1,
         open'.present => <<open'.date, 0>> \in DOMAIN files'
  PROVE  AdInv'
<1>1. /\ day' \in 0..MaxDays /\ appends' \in 0..MaxAppends
      /\ Len(queue') <= QueueCap /\ Len(queue') = Len(queue) - 1
      /\ Len(queue) \in Nat \ {0}
      /\ writer' \in {"running", "draining", "ended", "panicked"}
      /\ pruned' \subseteq 0..MaxDays
      /\ QueueSound(queue', appends')
      /\ appends - Len(queue') = (appends - Len(queue)) + 1
  BY WriterStep
<1>2. FilesSound(files', Tail(queue), appends, (appends - Len(queue)) + 1)
  BY WriterBounds, TakenKeeps
<1>3. FilesSound(files', queue', appends', appends' - Len(queue'))
  BY <1>1, <1>2 DEF Taken
<1>4. ASSUME NEW w \in written PROVE w[2] \in pruned' \/ HasLine(files', w[2], w[1])
  BY DEF AdInv, Carries
<1>5. open'.bytes + Len(queue') <= appends'
  <2>1. open'.bytes \in Nat /\ appends \in Nat
    BY WriterBounds
  <2> QED
    BY <1>1, <2>1
<1> QED
  BY <1>1, <1>3, <1>4, <1>5 DEF AdInv

\* An event that cannot be written is lost, and nothing else is.
LEMMA WriteFailsKeeps == ASSUME AdInv, WriteFails PROVE AdInv'
<1> DEFINE o == Rolled(Opened)
<1>0. /\ Ready /\ (TurnsOver \/ open.present) /\ Prune /\ Taken
      /\ UNCHANGED <<day, writer, written, appends>>
      /\ files' = o.fs /\ open' = [date |-> day, present |-> TRUE, bytes |-> o.bytes]
  BY DEF WriteFails
<1>1. /\ DayFile(o.fs, queue, appends, (appends - Len(queue)) + 1, Dropped)
      /\ o.bytes \in Nat /\ o.bytes + Len(queue) <= appends
  BY <1>0, RolledIs
<1> HIDE DEF o
<1>2. /\ <<day, 0>> \in DOMAIN files'
      /\ FilesSound(files', queue, appends, (appends - Len(queue)) + 1)
      /\ Carries(files, files', Dropped)
  BY <1>0, <1>1 DEF DayFile, Current
<1>3. /\ open' \in [date : NoDay..MaxDays, present : BOOLEAN, bytes : Nat]
      /\ open'.date = day /\ open'.bytes = o.bytes
  <2>1. day \in NoDay..MaxDays
    BY AuditAssumption DEF NoDay, AdInv
  <2> QED
    BY <1>0, <1>1, <2>1
<1>4. open'.bytes + Len(queue) <= appends + 1
  BY <1>0, <1>1, <1>3, WriterBounds
<1>5. pruned' = pruned \cup Dropped
  BY <1>0, PruneIs
<1> QED
  BY <1>0, <1>2, <1>3, <1>4, <1>5, LostKeeps

\* A day's file that cannot be opened costs the event.
LEMMA OpenFailsKeeps == ASSUME AdInv, OpenFails PROVE AdInv'
<1>0. /\ Ready /\ Taken /\ UNCHANGED <<day, writer, written, appends, files, pruned>>
      /\ open' = [open EXCEPT !.present = FALSE]
  BY DEF OpenFails
<1>1. /\ appends \in Nat /\ Len(queue) \in Nat /\ appends - Len(queue) \in Nat
  BY <1>0, WriterBounds
<1>2. FilesSound(files, queue, appends, (appends - Len(queue)) + 1)
  BY <1>1 DEF AdInv, FilesSound
<1>3. Carries(files, files, {})
  BY DEF Carries
<1>4. /\ open' \in [date : NoDay..MaxDays, present : BOOLEAN, bytes : Nat]
      /\ open'.bytes = open.bytes /\ open'.present = FALSE
  BY <1>0 DEF AdInv
<1>5. open'.bytes + Len(queue) <= appends + 1
  BY <1>1, <1>4 DEF AdInv
<1>6. pruned' = pruned \cup {}
  BY <1>0
<1>7. /\ FilesSound(files', queue, appends, (appends - Len(queue)) + 1)
      /\ Carries(files, files', {})
  BY <1>0, <1>2, <1>3
<1> QED
  BY <1>0, <1>4, <1>5, <1>6, <1>7, LostKeeps

\* A rotation that fails half-way leaves the old lines under a number, or where
\* they were.
LEMMA RollFailsKeeps ==
  ASSUME AdInv, NEW renamed \in BOOLEAN, RollFails(renamed)
  PROVE  AdInv'
<1> DEFINE fs == Opened.fs
           k == FreeSeq(fs)
           num == <<day, k>>
           m == appends - Len(queue)
<1>0. /\ Ready /\ (TurnsOver \/ open.present) /\ Prune /\ Taken
      /\ UNCHANGED <<day, writer, written, appends>>
      /\ open' = [date |-> day, present |-> FALSE, bytes |-> Opened.bytes]
      /\ files' = IF renamed
                    THEN [f \in (DOMAIN fs \cup {num}) \ {Current} |->
                            IF f = num THEN fs[Current] ELSE fs[f]]
                    ELSE fs
  BY DEF RollFails
<1>1. /\ Current \in DOMAIN fs /\ FilesSound(fs, queue, appends, m)
      /\ Carries(files, fs, Dropped)
      /\ Opened.bytes \in Nat /\ Opened.bytes + Len(queue) <= appends
  BY <1>0, OpenedIs DEF DayFile
<1>2. /\ appends \in Nat /\ appends \in 0..MaxAppends /\ m \in 0..MaxAppends /\ day \in Nat
      /\ Current[1] = day /\ Current[2] = 0 /\ Current \in (0..MaxDays) \X Nat
      /\ Len(queue) \in Nat
  BY <1>0, WriterBounds
<1> HIDE DEF m
<1>3. k \in 1..(m + 1) /\ num \notin DOMAIN fs
  BY <1>1, <1>2, FreeSeqIs
<1> HIDE DEF fs, k
<1>4. num # Current /\ num \in (0..MaxDays) \X Nat /\ num[1] = day /\ num[2] = k
  BY <1>2, <1>3 DEF Current
<1> HIDE DEF num
<1>5. /\ FilesSound(files', queue, appends, m + 1)
      /\ Carries(files, files', Dropped)
  <2>1. CASE ~renamed
    <3>1. files' = fs
      BY <1>0, <2>1
    <3>2. FilesSound(fs, queue, appends, m + 1)
      BY <1>1, <1>2 DEF FilesSound
    <3> QED
      BY <1>1, <3>1, <3>2
  <2>2. CASE renamed
    <3>1. /\ DOMAIN files' = (DOMAIN fs \cup {num}) \ {Current}
          /\ files'[num] = fs[Current]
          /\ \A f \in DOMAIN fs \ {Current} : files'[f] = fs[f]
      BY <1>0, <1>3, <1>4, <2>2
    <3>2. ASSUME NEW f \in DOMAIN files'
          PROVE  /\ f \in (0..MaxDays) \X Nat /\ f[2] <= m + 1
                 /\ LinesSound(files'[f], queue, appends)
      <4>1. CASE f = num
        BY <1>1, <1>2, <1>3, <1>4, <3>1, <4>1 DEF FilesSound
      <4>2. CASE f # num
        BY <1>1, <1>2, <3>1, <3>2, <4>2 DEF FilesSound
      <4> QED
        BY <4>1, <4>2
    <3>3. FilesSound(files', queue, appends, m + 1)
      BY <3>2 DEF FilesSound
    <3>4. ASSUME NEW d, NEW l, HasLine(fs, d, l) PROVE HasLine(files', d, l)
      <4>1. PICK f \in DOMAIN fs : f[1] = d /\ \E i \in 1..Len(fs[f]) : fs[f][i] = l
        BY <3>4 DEF HasLine
      <4>2. CASE f = Current
        BY <1>2, <1>4, <3>1, <4>1, <4>2 DEF HasLine
      <4>3. CASE f # Current
        BY <3>1, <4>1, <4>3 DEF HasLine
      <4> QED
        BY <4>2, <4>3
    <3> QED
      BY <1>1, <3>3, <3>4 DEF Carries
  <2> QED
    BY <2>1, <2>2
<1>6. /\ open' \in [date : NoDay..MaxDays, present : BOOLEAN, bytes : Nat]
      /\ open'.bytes = Opened.bytes /\ open'.present = FALSE
  <2>1. day \in NoDay..MaxDays
    BY AuditAssumption DEF NoDay, AdInv
  <2> QED
    BY <1>0, <1>1, <2>1
<1>7. open'.bytes + Len(queue) <= appends + 1
  BY <1>1, <1>2, <1>6
<1>8. pruned' = pruned \cup Dropped
  BY <1>0, PruneIs
<1> QED
  BY <1>0, <1>5, <1>6, <1>7, <1>8, LostKeeps DEF m

\* An event appended is behind everything.
LEMMA AppendEventKeeps == ASSUME AdInv, AppendEvent PROVE AdInv'
<1> DEFINE n == appends
<1>0. /\ n \in Nat /\ n < MaxAppends /\ MaxAppends \in Nat /\ QueueCap \in Nat
      /\ appends' = n + 1
      /\ UNCHANGED <<day, writer, open, files, pruned, written>>
      /\ queue \in Seq(Nat) /\ Len(queue) \in Nat
  BY AuditAssumption DEF AppendEvent, AdInv, QueueSound
<1>1. /\ QueueSound(queue, n) /\ FilesSound(files, queue, n, n - Len(queue))
      /\ Len(queue) <= n /\ Len(queue) <= QueueCap
      /\ open.bytes \in Nat /\ open.bytes + Len(queue) <= n
  BY DEF AdInv, QueueSound
<1>2. CASE queue' = queue
  <2>1. QueueSound(queue, n + 1)
    BY <1>0, <1>1 DEF QueueSound
  <2>2. FilesSound(files, queue, n + 1, (n + 1) - Len(queue))
    <3>1. ASSUME NEW f \in DOMAIN files PROVE LinesSound(files[f], queue, n + 1)
      <4>1. LinesSound(files[f], queue, n)
        BY <1>1 DEF FilesSound
      <4>2. Len(files[f]) \in Nat
        BY <4>1 DEF LinesSound
      <4> QED
        BY <1>0, <4>1, <4>2 DEF LinesSound
    <3>2. ASSUME NEW f \in DOMAIN files PROVE f \in (0..MaxDays) \X Nat /\ f[2] <= (n + 1) - Len(queue)
      BY <1>0, <1>1 DEF FilesSound
    <3> QED
      BY <3>1, <3>2 DEF FilesSound
  <2>3. open.bytes + Len(queue) <= n + 1 /\ n + 1 \in 0..MaxAppends
    BY <1>0, <1>1
  <2> QED
    BY <1>0, <1>2, <2>1, <2>2, <2>3 DEF AdInv
<1>3. CASE queue' # queue
  <2>1. queue' = Append(queue, n + 1) /\ Len(queue) < QueueCap
    BY <1>3 DEF AppendEvent
  <2>2. /\ queue' \in Seq(Nat) /\ Len(queue') = Len(queue) + 1
        /\ queue'[Len(queue) + 1] = n + 1
        /\ \A i \in 1..Len(queue) : queue'[i] = queue[i]
    BY <1>0, <2>1
  <2>3. \A i \in 1..Len(queue) : 1 <= queue[i] /\ queue[i] <= n /\ queue[i] \in Nat
    BY <1>0, <1>1 DEF QueueSound
  <2>4. QueueSound(queue', n + 1)
    <3>1. ASSUME NEW i \in 1..Len(queue'), NEW j \in 1..Len(queue'), i < j
          PROVE  queue'[i] < queue'[j]
      <4>1. i \in 1..Len(queue) /\ queue'[i] = queue[i]
        BY <1>0, <2>2, <3>1
      <4>2. CASE j \in 1..Len(queue)
        BY <1>1, <2>2, <3>1, <4>1, <4>2 DEF QueueSound, Ascending
      <4>3. CASE j = Len(queue) + 1
        BY <1>0, <2>2, <2>3, <4>1, <4>3
      <4> QED
        BY <1>0, <2>2, <4>2, <4>3
    <3>2. ASSUME NEW i \in 1..Len(queue') PROVE 1 <= queue'[i] /\ queue'[i] <= n + 1
      <4>1. CASE i \in 1..Len(queue)
        BY <1>0, <2>2, <2>3, <4>1
      <4>2. CASE i = Len(queue) + 1
        BY <1>0, <2>2, <4>2
      <4> QED
        BY <1>0, <2>2, <4>1, <4>2
    <3>3. Len(queue') <= n + 1
      BY <1>0, <1>1, <2>2
    <3>4. Ascending(queue')
      BY <3>1, Zenon DEF Ascending
    <3> QED
      BY <2>2, <3>2, <3>3, <3>4 DEF QueueSound
  <2>5. ASSUME NEW f \in DOMAIN files
        PROVE  /\ f \in (0..MaxDays) \X Nat /\ f[2] <= (n + 1) - Len(queue')
               /\ LinesSound(files[f], queue', n + 1)
    <3>1. /\ f \in (0..MaxDays) \X Nat /\ f[2] <= n - Len(queue)
          /\ LinesSound(files[f], queue, n)
      BY <1>1 DEF FilesSound
    <3>2. /\ files[f] \in Seq(Nat) /\ Len(files[f]) \in Nat
          /\ Len(files[f]) + Len(queue) <= n
      BY <3>1 DEF LinesSound
    <3>3. ASSUME NEW i \in 1..Len(files[f])
          PROVE  /\ 1 <= files[f][i] /\ files[f][i] <= n + 1
                 /\ \A k \in 1..Len(queue') : files[f][i] < queue'[k]
      <4>1. /\ files[f][i] \in Nat /\ 1 <= files[f][i] /\ files[f][i] <= n
            /\ \A k \in 1..Len(queue) : files[f][i] < queue[k]
        BY <3>1, <3>2 DEF LinesSound
      <4>2. ASSUME NEW k \in 1..Len(queue') PROVE files[f][i] < queue'[k]
        <5>1. CASE k \in 1..Len(queue)
          BY <2>2, <4>1, <5>1
        <5>2. CASE k = Len(queue) + 1
          BY <1>0, <2>2, <4>1, <5>2
        <5> QED
          BY <1>0, <2>2, <5>1, <5>2
      <4> QED
        BY <1>0, <4>1, <4>2
    <3>4. Len(files[f]) + Len(queue') <= n + 1
      BY <1>0, <2>2, <3>2
    <3>5. LinesSound(files[f], queue', n + 1)
      BY <3>1, <3>3, <3>4 DEF LinesSound
    <3> QED
      BY <1>0, <2>2, <3>1, <3>5
  <2>6. FilesSound(files, queue', n + 1, (n + 1) - Len(queue'))
    BY <2>5 DEF FilesSound
  <2>7. open.bytes + Len(queue') <= n + 1 /\ n + 1 \in 0..MaxAppends /\ Len(queue') <= QueueCap
    BY <1>0, <1>1, <2>1, <2>2
  <2> QED
    BY <1>0, <2>4, <2>6, <2>7 DEF AdInv
<1> QED
  BY <1>2, <1>3

\* A panic loses what was queued, and a restart reads the disk anew.
LEMMA TaskKeeps ==
  ASSUME AdInv, NextDay \/ Panic \/ Shutdown \/ Drained \/ Restart
  PROVE  AdInv'
<1>1. ASSUME NextDay PROVE AdInv'
  <2>1. day' \in 0..MaxDays
    BY SMTT(30), <1>1, AuditAssumption DEF NextDay, AdInv
  <2> QED
    BY <1>1, <2>1 DEF NextDay, AdInv
<1>2. ASSUME Panic PROVE AdInv'
  <2>1. /\ queue' = << >> /\ Len(<< >>) = 0 /\ << >> \in Seq(Nat)
        /\ UNCHANGED <<day, open, files, pruned, written, appends>>
        /\ writer' \in {"running", "draining", "ended", "panicked"}
    BY <1>2 DEF Panic
  <2>2. appends \in Nat /\ QueueCap \in Nat /\ Len(queue) \in Nat /\ open.bytes \in Nat
    BY AuditAssumption DEF AdInv, QueueSound
  <2>3. QueueSound(<< >>, appends)
    BY <2>1, <2>2 DEF QueueSound, Ascending
  <2>4. FilesSound(files, << >>, appends, appends)
    BY <2>1, <2>2 DEF AdInv, FilesSound, LinesSound
  <2>5. Len(<< >>) <= QueueCap /\ open.bytes + Len(<< >>) <= appends /\ appends - Len(<< >>) = appends
    BY <2>1, <2>2 DEF AdInv
  <2> QED
    BY <2>1, <2>3, <2>4, <2>5 DEF AdInv
<1>3. ASSUME Shutdown \/ Drained PROVE AdInv'
  BY <1>3 DEF Shutdown, Drained, AdInv
<1>4. ASSUME Restart PROVE AdInv'
  <2>1. /\ open' = Unopened /\ writer' = "running"
        /\ UNCHANGED <<day, queue, files, pruned, written, appends>>
    BY <1>4 DEF Restart
  <2>2. /\ Unopened \in [date : NoDay..MaxDays, present : BOOLEAN, bytes : Nat]
        /\ ~Unopened.present /\ Unopened.bytes = 0
    BY AuditAssumption DEF Unopened, NoDay
  <2>3. 0 + Len(queue) <= appends
    BY DEF AdInv, QueueSound
  <2> QED
    BY <2>1, <2>2, <2>3 DEF AdInv
<1> QED
  BY <1>1, <1>2, <1>3, <1>4

\* AdInv holds in every state of the log.
LEMMA AuditInvariant == AuditSpec => []AdInv
<1>1. AdInv /\ [AuditNext]_adVars => AdInv'
  <2> SUFFICES ASSUME AdInv, [AuditNext]_adVars PROVE AdInv'
    OBVIOUS
  <2>1. CASE UNCHANGED adVars
    BY <2>1 DEF adVars, AdInv
  <2> QED
    BY <2>1, AppendEventKeeps, WriteLineKeeps, WriteFailsKeeps, OpenFailsKeeps,
       RollFailsKeeps, TaskKeeps DEF AuditNext
<1> QED
  BY AuditInitially, <1>1, PTL DEF AuditSpec

\* A line once written can be read until retention removes its day, and each
\* file's lines are in the order they were appended, whatever the queue, the
\* size of a file, the days kept and the failures of the disk.
THEOREM WrittenIsKeptHolds == AuditSpec => []WrittenIsKept
<1>1. AdInv => WrittenIsKept
  <2> SUFFICES ASSUME AdInv PROVE WrittenIsKept
    OBVIOUS
  <2>1. ASSUME NEW w \in written
        PROVE  w[2] \in pruned \/ \E f \in DOMAIN files : f[1] = w[2] /\ w[1] \in Lines(f)
    <3>1. w[2] \in pruned \/ HasLine(files, w[2], w[1])
      BY DEF AdInv
    <3> QED
      BY <3>1 DEF HasLine, Lines
  <2>2. ASSUME NEW f \in DOMAIN files PROVE Ascending(files[f])
    BY DEF AdInv, FilesSound, LinesSound
  <2> QED
    BY <2>1, <2>2 DEF WrittenIsKept, Ascending
<1> QED
  BY AuditInvariant, <1>1, PTL

\* Queue, files, open file and histories keep their types.
THEOREM AuditTypesHold == AuditSpec => []AuditTypeOK
<1>1. AdInv => AuditTypeOK
  <2> SUFFICES ASSUME AdInv PROVE AuditTypeOK
    OBVIOUS
  <2>1. appends \in 0..MaxAppends /\ MaxAppends \in Nat /\ Len(queue) \in Nat
    BY AuditAssumption DEF AdInv, QueueSound
  <2>2. ASSUME NEW q \in Seq(Nat), \A i \in 1..Len(q) : 1 <= q[i] /\ q[i] <= appends
        PROVE  q \in Seq(Event)
    <3>1. \A i \in 1..Len(q) : q[i] \in Event
      BY <2>1, <2>2 DEF Event
    <3> QED
      BY <2>2, <3>1
  <2>3. queue \in Seq(Event)
    BY <2>2 DEF AdInv, QueueSound
  <2>4. ASSUME NEW f \in DOMAIN files
        PROVE  files[f] \in Seq(Event) /\ f \in (0..MaxDays) \X (0..MaxAppends)
    <3>1. LinesSound(files[f], queue, appends) /\ f \in (0..MaxDays) \X Nat
          /\ f[2] <= appends - Len(queue)
      BY DEF AdInv, FilesSound
    <3>2. files[f] \in Seq(Event)
      BY <2>2, <3>1 DEF LinesSound
    <3>3. f[2] \in 0..MaxAppends
      BY <2>1, <3>1
    <3> QED
      BY <3>1, <3>2, <3>3
  <2>5. open.bytes \in 0..MaxAppends
    BY <2>1 DEF AdInv
  <2>6. open \in [date : NoDay..MaxDays, present : BOOLEAN, bytes : 0..MaxAppends]
    BY <2>5 DEF AdInv
  <2> QED
    BY <2>3, <2>4, <2>6 DEF AuditTypeOK, AdInv, Event
<1> QED
  BY AuditInvariant, <1>1, PTL

-----------------------------------------------------------------------------
(* The streams of a subject.                                                *)

RingEntries == [off : Nat, w : Weights]

\* The ring holds the last offsets stamped, without a hole.
Contig(q, n) ==
  /\ q \in Seq(RingEntries) /\ Len(q) <= n
  /\ \A i \in 1..Len(q) : q[i].off = (n - Len(q)) + (i - 1)

ClientStates ==
  [pc : {"closed", "build", "built", "join", "open"}, since : OffsetOrNone,
   snap : Seq(Weights), queue : Seq(Weights), prefix : Seq(Nat), inbox : Seq(Nat),
   next : Nat, at : Nat, from : Nat, lagged : BOOLEAN, seen : OffsetOrNone]

\* Client s, with sending under way, has what was stamped up to n ahead of it.
Caught(s, sending, n) ==
  s.pc = "open" /\ ~s.lagged =>
    \A o \in s.next..(n - 1) : o = sending \/ o \in ToSet(s.prefix \o s.inbox)

StInv ==
  /\ source \in [up : BOOLEAN, inc : Nat, events : Seq(Weights)]
  /\ source.up => source.inc >= 1
  /\ counter \in Nat /\ Contig(ring, counter)
  /\ acks \in [Clients -> OffsetOrNone]
  /\ pump \in [inc : Nat, queue : Seq(Weights), sending : OffsetOrNone]
  /\ client \in [Clients -> ClientStates]
  /\ \A c \in Clients :
       /\ client[c].pc = "built" => client[c].from >= 1
       /\ client[c].pc \in {"join", "open"} => pump.inc # 0
       /\ Caught(client[c], pump.sending, counter)

\* The least of a set of naturals is in it.
LEMMA MinIs ==
  ASSUME NEW S \in SUBSET Nat, S # {}
  PROVE  Min(S) \in S /\ \A x \in S : Min(S) <= x
<1>1. \E x \in S : \A y \in S : x <= y
  BY LeastExists
<1> QED
  BY <1>1 DEF Min

\* RingEntries that leave from the front leave the rest as it was.
LEMMA FromIs ==
  ASSUME NEW n \in Nat, NEW q, Contig(q, n), NEW k \in 1..(Len(q) + 1)
  PROVE  /\ Contig(From(q, k), n) /\ Len(From(q, k)) = Len(q) - k + 1
         /\ \A i \in 1..Len(From(q, k)) : From(q, k)[i] = q[k + i - 1]
<1>1. q \in Seq(RingEntries) /\ Len(q) \in Nat
  BY DEF Contig
<1>2. /\ From(q, k) \in Seq(RingEntries) /\ Len(From(q, k)) = Len(q) - k + 1
      /\ \A i \in 1..Len(From(q, k)) : From(q, k)[i] = q[k + i - 1]
  BY <1>1 DEF From
<1>3. ASSUME NEW i \in 1..Len(From(q, k))
      PROVE  From(q, k)[i].off = (n - Len(From(q, k))) + (i - 1)
  <2>1. k + i - 1 \in 1..Len(q)
    BY <1>1, <1>2
  <2>2. q[k + i - 1].off = (n - Len(q)) + ((k + i - 1) - 1)
    BY <2>1 DEF Contig
  <2> QED
    BY SMTT(30), <1>1, <1>2, <2>2
<1>4. Len(From(q, k)) <= n
  BY <1>1, <1>2 DEF Contig
<1> QED
  BY <1>2, <1>3, <1>4 DEF Contig

\* What is past an offset is a suffix, and nothing before it is past it.
LEMMA AfterIs ==
  ASSUME NEW n \in Nat, NEW q, Contig(q, n), NEW o \in Nat
  PROVE  \E k \in 1..(Len(q) + 1) :
           /\ After(q, o) = From(q, k)
           /\ \A j \in 1..Len(q) : j < k => q[j].off <= o
           /\ \A j \in 1..Len(q) : j >= k => q[j].off > o
<1> DEFINE S == {k \in 1..(Len(q) + 1) : k > Len(q) \/ q[k].off > o}
<1>1. q \in Seq(RingEntries) /\ Len(q) \in Nat /\ \A j \in 1..Len(q) : q[j].off \in Nat
  BY DEF Contig, RingEntries
<1>2. S \in SUBSET Nat /\ Len(q) + 1 \in S
  BY <1>1
<1>3. Min(S) \in S /\ \A x \in S : Min(S) <= x
  BY <1>2, MinIs
<1>4. After(q, o) = From(q, Min(S))
  BY DEF After
<1>5. ASSUME NEW j \in 1..Len(q), j < Min(S) PROVE q[j].off <= o
  <2>1. j \notin S
    BY <1>1, <1>2, <1>3, <1>5
  <2> QED
    BY <1>1, <2>1
<1>6. ASSUME NEW j \in 1..Len(q), j >= Min(S) PROVE q[j].off > o
  <2>1. PICK k \in 1..Len(q) : k = Min(S) /\ q[k].off > o
    <3>1. PICK k \in 1..(Len(q) + 1) : k = Min(S)
      BY <1>3
    <3>2. k \in S /\ k <= j
      BY <1>3, <1>6, <3>1
    <3>3. k \in 1..Len(q) /\ q[k].off > o
      BY <1>1, <3>2
    <3> QED
      BY <3>1, <3>3
  <2>2. q[k].off = (n - Len(q)) + (k - 1) /\ q[j].off = (n - Len(q)) + (j - 1)
    BY DEF Contig
  <2> QED
    BY <1>1, <1>6, <2>1, <2>2
<1> QED
  BY <1>3, <1>4, <1>5, <1>6

\* Eviction leaves the last entries, and at least the last one.
LEMMA EvictIs ==
  ASSUME NEW n \in Nat, NEW q, Contig(q, n), q # << >>
  PROVE  Contig(Evict(q), n) /\ Len(Evict(q)) <= Len(q)
<1> DEFINE S == {k \in 1..Len(q) : ~Over(From(q, k))}
<1>1. q \in Seq(RingEntries) /\ Len(q) \in Nat \ {0}
  BY DEF Contig
<1>2. Len(q) \in S
  <2>1. Len(From(q, Len(q))) = 1
    <3>1. PICK k \in 1..(Len(q) + 1) : k = Len(q)
      BY <1>1
    <3>2. Len(From(q, k)) = Len(q) - k + 1
      BY FromIs
    <3> QED
      BY <1>1, <3>1, <3>2
  <2>2. RingCap \in Nat \ {0}
    BY StreamsAssumption
  <2>3. ~Over(From(q, Len(q)))
    BY <2>1, <2>2 DEF Over
  <2> QED
    BY <1>1, <2>3
<1>3. S \in SUBSET Nat
  BY <1>1
<1>4. Min(S) \in S
  BY <1>2, <1>3, MinIs
<1>5. Evict(q) = From(q, Min(S))
  BY DEF Evict
<1>6. Min(S) \in 1..(Len(q) + 1)
  BY <1>1, <1>4
<1> HIDE DEF S
<1>7. PICK k \in 1..(Len(q) + 1) : Evict(q) = From(q, k)
  BY <1>5, <1>6
<1>8. Contig(From(q, k), n) /\ Len(From(q, k)) = Len(q) - k + 1
  BY FromIs
<1> QED
  BY <1>1, <1>7, <1>8

\* An event published takes the next offset.
LEMMA PublishIs ==
  ASSUME NEW n \in Nat, NEW q, Contig(q, n), NEW w \in Weights
  PROVE  Contig(Publish(q, n, w), n + 1) /\ Len(Publish(q, n, w)) <= Len(q) + 1
<1> DEFINE e == [off |-> n, w |-> w]
           r == Append(q, e)
<1>1. q \in Seq(RingEntries) /\ Len(q) \in Nat /\ Len(q) <= n /\ e \in RingEntries
  BY DEF Contig, RingEntries
<1>2. /\ r \in Seq(RingEntries) /\ Len(r) = Len(q) + 1 /\ r[Len(q) + 1] = e
      /\ \A i \in 1..Len(q) : r[i] = q[i]
  BY <1>1
<1>3. e.off = n
  OBVIOUS
<1> HIDE DEF r, e
<1>4. ASSUME NEW i \in 1..Len(r) PROVE r[i].off = ((n + 1) - Len(r)) + (i - 1)
  <2>1. CASE i \in 1..Len(q)
    BY <1>1, <1>2, <2>1 DEF Contig
  <2>2. CASE i = Len(q) + 1
    BY <1>1, <1>2, <1>3, <2>2
  <2> QED
    BY <1>1, <1>2, <2>1, <2>2
<1>5. Contig(r, n + 1) /\ r # << >>
  BY <1>1, <1>2, <1>4 DEF Contig
<1>6. Contig(Evict(r), n + 1) /\ Len(Evict(r)) <= Len(r)
  BY <1>5, EvictIs
<1>7. Publish(q, n, w) = Evict(r)
  BY DEF Publish, r, e
<1> QED
  BY <1>2, <1>6, <1>7

\* So do the events of a batch.
LEMMA PublishAllIs ==
  ASSUME StInv, NEW ws \in Seq(Weights)
  PROVE  LET b == PublishAll(ws)
         IN  /\ b.n = counter + Len(ws) /\ Contig(b.q, b.n)
             /\ Len(b.q) <= Len(ring) + Len(ws)
<1> DEFINE tail == [i \in 1..Len(ws) |-> [off |-> counter + i - 1, w |-> ws[i]]]
           r == ring \o tail
           n == counter + Len(ws)
<1>1. /\ counter \in Nat /\ ring \in Seq(RingEntries) /\ Len(ring) \in Nat /\ Len(ring) <= counter
      /\ Len(ws) \in Nat /\ n \in Nat
  BY DEF StInv, Contig
<1>2. tail \in Seq(RingEntries) /\ Len(tail) = Len(ws)
  <2>1. \A i \in 1..Len(ws) : ws[i] \in Weights /\ counter + i - 1 \in Nat
    BY <1>1
  <2>2. \A i \in 1..Len(ws) : [off |-> counter + i - 1, w |-> ws[i]] \in RingEntries
    BY <2>1 DEF RingEntries
  <2> QED
    BY <1>1, <2>2
<1>3. \A i \in 1..Len(tail) : tail[i].off = counter + i - 1
  BY <1>2
<1> HIDE DEF tail
<1>4. /\ r \in Seq(RingEntries) /\ Len(r) = Len(ring) + Len(ws)
      /\ \A i \in 1..Len(ring) : r[i] = ring[i]
      /\ \A i \in 1..Len(r) : i > Len(ring) => i - Len(ring) \in 1..Len(tail) /\ r[i] = tail[i - Len(ring)]
  BY <1>1, <1>2
<1> HIDE DEF r
<1>5. ASSUME NEW i \in 1..Len(r) PROVE r[i].off = (n - Len(r)) + (i - 1)
  <2>1. CASE i <= Len(ring)
    <3>1. i \in 1..Len(ring)
      BY <1>1, <1>4, <2>1
    <3>2. ring[i].off = (counter - Len(ring)) + (i - 1)
      BY <3>1 DEF StInv, Contig
    <3> QED
      BY <1>1, <1>4, <3>1, <3>2
  <2>2. CASE i > Len(ring)
    <3>1. r[i].off = counter + (i - Len(ring)) - 1
      BY <1>3, <1>4, <2>2
    <3> QED
      BY <1>1, <1>4, <3>1
  <2> QED
    BY <1>1, <1>4, <2>1, <2>2
<1>6. Contig(r, n)
  BY <1>1, <1>4, <1>5 DEF Contig
<1>7. PublishAll(ws) = [q |-> IF ws = << >> THEN ring ELSE Evict(r), n |-> n]
  BY DEF PublishAll, r, tail
<1>8. CASE ws = << >>
  <2>1. n = counter /\ Len(ws) = 0
    BY <1>1, <1>8
  <2> QED
    BY <1>1, <1>7, <1>8, <2>1 DEF StInv
<1>9. CASE ws # << >>
  <2>1. r # << >>
    <3>1. Len(r) # 0
      BY <1>1, <1>4, <1>9
    <3> QED
      BY <3>1
  <2>2. Contig(Evict(r), n) /\ Len(Evict(r)) <= Len(r)
    BY <1>1, <1>6, <2>1, EvictIs
  <2> QED
    BY <1>4, <1>7, <1>9, <2>2
<1> QED
  BY <1>8, <1>9

\* The floor is what the ring's length leaves below it.
LEMMA FloorIs ==
  ASSUME NEW n \in Nat, NEW q, Contig(q, n)
  PROVE  Floor(q, n) = n - Len(q) /\ Len(q) \in Nat /\ Len(q) <= n
<1>1. q \in Seq(RingEntries) /\ Len(q) \in Nat /\ Len(q) <= n
  BY DEF Contig
<1>2. CASE q = << >>
  BY <1>1, <1>2 DEF Floor
<1>3. CASE q # << >>
  <2>1. 1 \in 1..Len(q)
    BY <1>1, <1>3
  <2>2. q[1].off = (n - Len(q)) + (1 - 1)
    BY <2>1 DEF Contig
  <2> QED
    BY <1>1, <1>3, <2>2 DEF Floor
<1> QED
  BY <1>1, <1>2, <1>3

\* A replay from an offset the ring retains has all that was stamped since, in
\* order and nothing else.
LEMMA ReplayIs ==
  ASSUME NEW n \in Nat, NEW q, Contig(q, n), NEW since \in Nat
  PROVE  /\ ReplayAfter(q, since) \in Seq(Nat)
         /\ Floor(q, n) \in Nat
         /\ Retained(since, Floor(q, n)) =>
              \A o \in (since + 1)..(n - 1) : o \in ToSet(ReplayAfter(q, since))
         /\ Retained(since, Floor(q, n)) /\ since < n =>
              /\ Len(ReplayAfter(q, since)) = n - (since + 1)
              /\ \A i \in 1..Len(ReplayAfter(q, since)) :
                   ReplayAfter(q, since)[i] = (since + 1) + (i - 1)
<1>1. q \in Seq(RingEntries) /\ Len(q) \in Nat /\ Len(q) <= n
  BY DEF Contig
<1>2. PICK k \in 1..(Len(q) + 1) :
        /\ After(q, since) = From(q, k)
        /\ \A j \in 1..Len(q) : j < k => q[j].off <= since
        /\ \A j \in 1..Len(q) : j >= k => q[j].off > since
  BY AfterIs
<1>3. /\ Len(From(q, k)) = Len(q) - k + 1
      /\ \A i \in 1..Len(From(q, k)) : From(q, k)[i] = q[k + i - 1]
  BY FromIs
<1>4. \A i \in 1..Len(From(q, k)) : From(q, k)[i].off \in Nat
  <2>1. From(q, k) \in Seq(RingEntries)
    BY FromIs DEF Contig
  <2>2. \A i \in 1..Len(From(q, k)) : From(q, k)[i] \in RingEntries
    BY <2>1
  <2> QED
    BY <2>2 DEF RingEntries
<1>5. ReplayAfter(q, since) = [i \in 1..Len(From(q, k)) |-> From(q, k)[i].off]
  BY <1>2 DEF ReplayAfter, Offsets
<1>6. ReplayAfter(q, since) \in Seq(Nat)
  <2>1. Len(From(q, k)) \in Nat
    BY <1>1, <1>3
  <2> QED
    BY <1>4, <1>5, <2>1, SMTT(30)
<1>7. Floor(q, n) = n - Len(q)
  BY FloorIs
<1>8. ASSUME Retained(since, Floor(q, n)), NEW o \in (since + 1)..(n - 1)
      PROVE  o \in ToSet(ReplayAfter(q, since))
  <2>1. o >= n - Len(q) /\ o < n /\ o > since
    BY <1>1, <1>7, <1>8 DEF Retained
  <2>2. PICK j \in 1..Len(q) : j = o - (n - Len(q)) + 1
    BY <1>1, <2>1
  <2>3. q[j].off = o
    BY <1>1, <2>1, <2>2 DEF Contig
  <2>4. j >= k
    <3>1. j < k => q[j].off <= since
      BY <1>2
    <3> QED
      BY <1>1, <2>1, <2>3, <3>1
  <2>5. PICK i \in 1..Len(From(q, k)) : i = j - k + 1
    BY <1>1, <1>3, <2>4
  <2>6. From(q, k)[i].off = o
    <3>1. k + i - 1 = j
      BY <1>1, <2>5
    <3> QED
      BY <1>3, <2>3, <3>1
  <2> QED
    BY <1>5, <2>6 DEF ToSet
<1>9. ASSUME Retained(since, Floor(q, n)), since < n
      PROVE  /\ Len(ReplayAfter(q, since)) = n - (since + 1)
             /\ \A i \in 1..Len(ReplayAfter(q, since)) :
                  ReplayAfter(q, since)[i] = (since + 1) + (i - 1)
  <2>1. (n - Len(q)) + (k - 1) = since + 1
    <3>0. n - Len(q) <= since + 1
      BY <1>1, <1>7, <1>9 DEF Retained
    <3>1. k <= Len(q) => (n - Len(q)) + (k - 1) > since
      <4>1. k <= Len(q) => q[k].off = (n - Len(q)) + (k - 1) /\ q[k].off > since
        BY <1>1, <1>2 DEF Contig
      <4> QED
        BY <4>1
    <3>2. k > 1 => (n - Len(q)) + ((k - 1) - 1) <= since
      <4> SUFFICES ASSUME k > 1 PROVE (n - Len(q)) + ((k - 1) - 1) <= since
        OBVIOUS
      <4>1. PICK j \in 1..Len(q) : j = k - 1
        BY <1>1
      <4>2. q[j].off = (n - Len(q)) + (j - 1) /\ q[j].off <= since
        BY <1>1, <1>2, <4>1 DEF Contig
      <4> QED
        BY <4>1, <4>2
    <3> QED
      BY <1>1, <1>9, <3>0, <3>1, <3>2
  <2>2. Len(ReplayAfter(q, since)) = Len(From(q, k)) /\ Len(From(q, k)) = Len(q) - k + 1
    BY <1>1, <1>3, <1>5
  <2>3. ASSUME NEW i \in 1..Len(From(q, k))
        PROVE  ReplayAfter(q, since)[i] = (since + 1) + (i - 1)
    <3>1. ReplayAfter(q, since)[i] = q[k + i - 1].off /\ k + i - 1 \in 1..Len(q)
      <4>1. ReplayAfter(q, since)[i] = From(q, k)[i].off
        BY Zenon, <1>5
      <4>2. From(q, k)[i] = q[k + i - 1]
        BY <1>3
      <4>3. k + i - 1 \in 1..Len(q)
        BY <1>1, <1>3
      <4> QED
        BY <4>1, <4>2, <4>3
    <3>2. q[k + i - 1].off = (n - Len(q)) + ((k + i - 1) - 1)
      BY <3>1 DEF Contig
    <3>3. (n - Len(q)) + ((k + i - 1) - 1) = ((n - Len(q)) + (k - 1)) + (i - 1)
      BY <1>1
    <3> QED
      BY <2>1, <3>1, <3>2, <3>3
  <2> QED
    BY <1>1, <2>1, <2>2, <2>3
<1> QED
  BY <1>1, <1>6, <1>7, <1>8, <1>9

\* Types of the constants.
LEMMA StreamConstants ==
  /\ None \notin Nat /\ None \in OffsetOrNone /\ \A o \in Nat : o \in OffsetOrNone
  /\ Closed \in ClientStates /\ Closed.pc = "closed" /\ Closed.inbox = << >>
  /\ Closed.lagged = FALSE
<1>1. << >> \in Seq(Weights) /\ << >> \in Seq(Nat)
  OBVIOUS
<1>2. None \in OffsetOrNone /\ \A o \in Nat : o \in OffsetOrNone
  BY DEF OffsetOrNone
<1>3. None \notin Nat
  BY DEF None
<1> QED
  BY <1>1, <1>2, <1>3 DEF Closed, ClientStates

\* A subject begins without a pump, a ring or a client.
LEMMA StreamsInitially == StreamsInit => StInv
<1> SUFFICES ASSUME StreamsInit PROVE StInv
  OBVIOUS
<1>1. << >> \in Seq(Weights) /\ << >> \in Seq(RingEntries) /\ Len(<< >>) = 0
  OBVIOUS
<1>2. Contig(ring, counter)
  BY <1>1 DEF Contig, StreamsInit
<1>3. \A c \in Clients : client[c] = Closed
  BY DEF StreamsInit
<1>4. \A c \in Clients : Caught(client[c], pump.sending, counter)
  BY <1>3, StreamConstants DEF Caught
<1>5. client \in [Clients -> ClientStates] /\ acks \in [Clients -> OffsetOrNone]
  BY StreamConstants DEF StreamsInit
<1> QED
  BY <1>1, <1>2, <1>3, <1>4, <1>5, StreamConstants DEF StreamsInit, StInv

\* One client that comes to another state, if it is caught up there.
LEMMA ClientMoves ==
  ASSUME StInv, NEW c \in Clients, NEW s \in ClientStates, client' = [client EXCEPT ![c] = s],
         UNCHANGED <<source, ring, counter, acks, pump>>,
         s.pc = "built" => s.from >= 1,
         s.pc \in {"join", "open"} => pump.inc # 0,
         Caught(s, pump.sending, counter)
  PROVE  StInv'
<1>1. /\ client' \in [Clients -> ClientStates]
      /\ client'[c] = s /\ \A d \in Clients \ {c} : client'[d] = client[d]
  BY DEF StInv
<1>2. \A d \in Clients : Caught(client'[d], pump.sending, counter)
  BY <1>1 DEF StInv
<1>3. \A d \in Clients : Caught(client[d], pump.sending, counter)'
  BY <1>2 DEF Caught
<1>4. \A d \in Clients : /\ client'[d].pc = "built" => client'[d].from >= 1
                         /\ client'[d].pc \in {"join", "open"} => pump.inc # 0
  BY <1>1 DEF StInv
<1> QED
  BY <1>1, <1>3, <1>4 DEF StInv

\* What a subscriber registers with has it caught up with the ring.
LEMMA RegisterIs ==
  ASSUME StInv, NEW c \in Clients, NEW since \in OffsetOrNone, NEW n \in Nat, NEW q, Contig(q, n),
         NEW buffered \in Seq(Nat), Len(buffered) <= n,
         \A o \in (n - Len(buffered))..(n - 1) : o \in ToSet(buffered),
         Register(c, since, buffered, q, n)
  PROVE  /\ acks' \in [Clients -> OffsetOrNone] /\ client' \in [Clients -> ClientStates]
         /\ client'[c].pc = "open" /\ \A d \in Clients \ {c} : client'[d] = client[d]
         /\ \A x : Caught(client'[c], x, n)
<1> DEFINE floor == Floor(q, n)
           gap == since # None /\ ~Retained(since, floor)
           pre == IF since = None THEN buffered ELSE IF gap THEN << >> ELSE ReplayAfter(q, since)
           nxt == IF since = None THEN n - Len(buffered) ELSE IF gap THEN n ELSE since + 1
           sn == IF gap \/ since = None THEN None ELSE since
           s == [Closed EXCEPT !.pc = "open", !.since = since, !.at = client[c].at,
                               !.seen = sn, !.prefix = pre, !.next = nxt]
<1>0. /\ since # None => since \in Nat
      /\ floor \in Nat
      /\ acks \in [Clients -> OffsetOrNone] /\ client \in [Clients -> ClientStates]
      /\ Len(buffered) \in Nat /\ client[c].at \in Nat
  <2>1. Floor(q, n) \in Nat
    <3>1. 0 \in Nat
      OBVIOUS
    <3> QED
      BY <3>1, ReplayIs
  <2>2. since # None => since \in Nat
    BY DEF OffsetOrNone
  <2>3. client \in [Clients -> ClientStates] /\ acks \in [Clients -> OffsetOrNone]
    BY DEF StInv
  <2>4. client[c].at \in Nat
    BY <2>3 DEF ClientStates
  <2> QED
    BY <2>1, <2>2, <2>3, <2>4
<1>1. acks' = [acks EXCEPT ![c] = IF since # None THEN since
                                  ELSE IF floor = 0 THEN 0 ELSE floor - 1]
  BY DEF Register
<1>2. client' = [client EXCEPT ![c] = s]
  BY DEF Register
<1>3. acks' \in [Clients -> OffsetOrNone]
  <2>1. floor # 0 => floor - 1 \in Nat
    BY <1>0
  <2> HIDE DEF floor
  <2>2. (IF since # None THEN since ELSE IF floor = 0 THEN 0 ELSE floor - 1) \in OffsetOrNone
    BY <1>0, <2>1, StreamConstants
  <2> QED
    BY <1>0, <1>1, <2>2
<1>4. pre \in Seq(Nat) /\ nxt \in Nat /\ sn \in OffsetOrNone
  <2>1. since # None => ReplayAfter(q, since) \in Seq(Nat)
    BY <1>0, ReplayIs
  <2>2. << >> \in Seq(Nat)
    OBVIOUS
  <2>3. n - Len(buffered) \in Nat /\ (since # None => since + 1 \in Nat)
    BY <1>0
  <2> HIDE DEF gap
  <2> QED
    BY <2>1, <2>2, <2>3, StreamConstants
<1>5. \A o \in nxt..(n - 1) : o \in ToSet(pre)
  <2>1. CASE since = None
    BY <2>1
  <2>2. CASE since # None /\ gap
    BY <2>2
  <2>3. CASE since # None /\ ~gap
    <3>1. \A o \in (since + 1)..(n - 1) : o \in ToSet(ReplayAfter(q, since))
      BY <1>0, <2>3, ReplayIs
    <3> HIDE DEF gap
    <3> QED
      BY <2>3, <3>1
  <2> QED
    BY <2>1, <2>2, <2>3
<1> HIDE DEF pre, nxt, sn
<1>6. /\ s \in ClientStates /\ s.pc = "open" /\ s.prefix = pre /\ s.inbox = << >>
      /\ s.next = nxt
  BY <1>0, <1>4, StreamConstants DEF ClientStates
<1> HIDE DEF s
<1>7. /\ client' \in [Clients -> ClientStates]
      /\ client'[c] = s /\ \A d \in Clients \ {c} : client'[d] = client[d]
  BY <1>0, <1>2, <1>6
<1>8. s.prefix \o s.inbox = pre
  BY <1>4, <1>6
<1>9. \A x : Caught(s, x, n)
  BY <1>5, <1>6, <1>8 DEF Caught
<1> QED
  BY <1>3, <1>6, <1>7, <1>9

\* The session starts, ends and emits.
LEMMA SourceKeeps ==
  ASSUME StInv, SourceStarts \/ SourceEnds \/ \E w \in Weights : Emit(w)
  PROVE  StInv'
<1>0. << >> \in Seq(Weights)
  OBVIOUS
<1>1. ASSUME SourceStarts \/ SourceEnds PROVE StInv'
  <2>1. /\ source' \in [up : BOOLEAN, inc : Nat, events : Seq(Weights)]
        /\ source'.up => source'.inc >= 1
    <3>1. /\ source \in [up : BOOLEAN, inc : Nat, events : Seq(Weights)]
          /\ source.inc \in Nat
      BY DEF StInv
    <3>2. CASE source' = [up |-> TRUE, inc |-> source.inc + 1, events |-> << >>]
      BY <1>0, <3>1, <3>2
    <3>3. CASE source' = [source EXCEPT !.up = FALSE]
      BY <3>1, <3>3
    <3> QED
      BY <1>1, <3>2, <3>3 DEF SourceStarts, SourceEnds
  <2>2. UNCHANGED <<ring, counter, acks, pump, client>>
    BY <1>1 DEF SourceStarts, SourceEnds, buffer
  <2> QED
    BY <2>1, <2>2 DEF StInv, Caught
<1>2. ASSUME NEW w \in Weights, Emit(w) PROVE StInv'
  <2>1. /\ source' \in [up : BOOLEAN, inc : Nat, events : Seq(Weights)]
        /\ source'.up => source'.inc >= 1
    <3>1. /\ source \in [up : BOOLEAN, inc : Nat, events : Seq(Weights)]
          /\ Append(source.events, w) \in Seq(Weights)
      BY DEF StInv
    <3>2. source' = [source EXCEPT !.events = Append(source.events, w)]
      BY <1>2 DEF Emit
    <3>3. source'.up = source.up /\ source'.inc = source.inc
      BY <3>1, <3>2
    <3>4. source' \in [up : BOOLEAN, inc : Nat, events : Seq(Weights)]
      BY <3>1, <3>2
    <3> QED
      BY <3>3, <3>4 DEF StInv
  <2>2. /\ pump' \in [inc : Nat, queue : Seq(Weights), sending : OffsetOrNone]
        /\ pump'.inc = pump.inc /\ pump'.sending = pump.sending
    <3>1. Append(pump.queue, w) \in Seq(Weights)
      BY DEF StInv
    <3>2. pump' = pump \/ pump' = [pump EXCEPT !.queue = Append(pump.queue, w)]
      BY <1>2 DEF Emit
    <3> QED
      BY <3>1, <3>2 DEF StInv
  <2>3. UNCHANGED <<ring, counter, acks>>
    BY <1>2 DEF Emit, buffer
  <2>4. ASSUME NEW c \in Clients
        PROVE  /\ client'[c] \in ClientStates
               /\ client'[c].pc = client[c].pc /\ client'[c].from = client[c].from
               /\ Caught(client'[c], pump.sending, counter)
    <3>1. client[c] \in ClientStates /\ Caught(client[c], pump.sending, counter)
      BY DEF StInv
    <3>2. client'[c] = client[c] \/ client'[c] = [client[c] EXCEPT !.queue = Append(client[c].queue, w)]
      BY <1>2 DEF Emit
    <3>3. CASE client'[c] = client[c]
      BY <3>1, <3>3
    <3>4. CASE client'[c] = [client[c] EXCEPT !.queue = Append(client[c].queue, w)]
      <4>1. Append(client[c].queue, w) \in Seq(Weights)
        BY <3>1 DEF ClientStates
      <4>2. PICK t \in ClientStates : /\ client'[c] = t
                                      /\ t.pc = client[c].pc /\ t.lagged = client[c].lagged
                                      /\ t.next = client[c].next /\ t.from = client[c].from
                                      /\ t.prefix = client[c].prefix /\ t.inbox = client[c].inbox
        BY <3>1, <3>4, <4>1 DEF ClientStates
      <4>3. Caught(t, pump.sending, counter)
        BY <3>1, <4>2 DEF Caught
      <4> QED
        BY <4>2, <4>3
    <3> QED
      BY <3>2, <3>3, <3>4
  <2>5. client' \in [Clients -> ClientStates]
    <3>1. client' = [c \in Clients |-> client'[c]]
      BY <1>2 DEF Emit
    <3> QED
      BY <2>4, <3>1
  <2>6. \A c \in Clients : Caught(client[c], pump.sending, counter)'
    BY <2>2, <2>3, <2>4 DEF Caught
  <2>7. \A c \in Clients : /\ client'[c].pc = "built" => client'[c].from >= 1
                           /\ client'[c].pc \in {"join", "open"} => pump'.inc # 0
    BY <2>2, <2>4 DEF StInv
  <2> QED
    BY <2>1, <2>2, <2>3, <2>5, <2>6, <2>7 DEF StInv
<1> QED
  BY <1>1, <1>2

\* A subscribe before it registers, a stream that is read, one that drops.
LEMMA AttachKeeps ==
  ASSUME StInv, NEW c \in Clients, BeginAttach(c) \/ BuildSource(c)
  PROVE  StInv'
<1>0. /\ client[c] \in ClientStates /\ source.inc \in Nat /\ source.events \in Seq(Weights)
      /\ source.up => source.inc >= 1
      /\ client \in [Clients -> ClientStates]
  BY DEF StInv
<1>1. ASSUME BeginAttach(c) PROVE StInv'
  <2>1. PICK since \in Since(c) :
          IF pump.inc = 0
            THEN client' = [client EXCEPT ![c].pc = "build", ![c].since = since, ![c].at = source.inc]
            ELSE client' = [client EXCEPT ![c].pc = "join", ![c].since = since,
                                          ![c].at = IF source.up THEN source.inc ELSE 0]
    BY <1>1 DEF BeginAttach
  <2>2. PICK pc \in {"build", "join"}, at \in Nat :
          /\ client' = [client EXCEPT ![c] = [client[c] EXCEPT !.pc = pc, !.since = since, !.at = at]]
          /\ pc = "join" => pump.inc # 0
    <3>1. CASE pump.inc = 0
      <4>1. client' = [client EXCEPT ![c] = [client[c] EXCEPT !.pc = "build", !.since = since,
                                               !.at = source.inc]]
        BY <1>0, <2>1, <3>1
      <4> QED
        BY <1>0, <3>1, <4>1
    <3>2. CASE pump.inc # 0
      <4>1. (IF source.up THEN source.inc ELSE 0) \in Nat
        BY <1>0
      <4>2. client' = [client EXCEPT ![c] = [client[c] EXCEPT !.pc = "join", !.since = since,
                                               !.at = IF source.up THEN source.inc ELSE 0]]
        BY <1>0, <2>1, <3>2
      <4> QED
        BY <3>2, <4>1, <4>2
    <3> QED
      BY <3>1, <3>2
  <2>3. since \in OffsetOrNone
    BY <1>0, StreamConstants DEF Since, ClientStates
  <2>4. PICK s \in ClientStates : /\ s = [client[c] EXCEPT !.pc = pc, !.since = since, !.at = at]
                                  /\ s.pc = pc
    <3>1. /\ [client[c] EXCEPT !.pc = pc, !.since = since, !.at = at] \in ClientStates
          /\ [client[c] EXCEPT !.pc = pc, !.since = since, !.at = at].pc = pc
      BY <1>0, <2>3 DEF ClientStates
    <3> QED
      BY <3>1
  <2>5. client' = [client EXCEPT ![c] = s]
    BY <2>2, <2>4
  <2>6. UNCHANGED <<source, ring, counter, acks, pump>>
    BY <1>1 DEF BeginAttach, buffer
  <2>7. Caught(s, pump.sending, counter)
    BY <2>4 DEF Caught
  <2> QED
    BY <2>2, <2>4, <2>5, <2>6, <2>7, ClientMoves
<1>2. ASSUME BuildSource(c) PROVE StInv'
  <2>1. PICK s \in ClientStates : /\ client' = [client EXCEPT ![c] = s]
                                  /\ s.pc \in {"built", "closed"}
                                  /\ s.pc = "built" => s.from >= 1
    <3>1. /\ [client[c] EXCEPT !.pc = "built", !.snap = source.events, !.from = source.inc] \in ClientStates
          /\ [client[c] EXCEPT !.pc = "built", !.snap = source.events, !.from = source.inc].pc = "built"
          /\ [client[c] EXCEPT !.pc = "built", !.snap = source.events, !.from = source.inc].from = source.inc
      BY <1>0 DEF ClientStates
    <3>2. /\ [client[c] EXCEPT !.pc = "closed"] \in ClientStates
          /\ [client[c] EXCEPT !.pc = "closed"].pc = "closed"
      BY <1>0 DEF ClientStates
    <3> QED
      BY <1>0, <1>2, <3>1, <3>2 DEF BuildSource
  <2>2. UNCHANGED <<source, ring, counter, acks, pump>>
    BY <1>2 DEF BuildSource, buffer
  <2>3. Caught(s, pump.sending, counter)
    BY <2>1 DEF Caught
  <2> QED
    BY <2>1, <2>2, <2>3, ClientMoves
<1> QED
  BY <1>1, <1>2

\* The frame a client receives is one it has no need of any more.
LEMMA ReceiveKeeps ==
  ASSUME StInv, NEW c \in Clients, Receive(c) \/ Drop(c)
  PROVE  StInv'
<1>0. client[c] \in ClientStates /\ client \in [Clients -> ClientStates] /\ counter \in Nat
  BY DEF StInv
<1>1. ASSUME Drop(c) PROVE StInv'
  <2>1. client[c].seen \in OffsetOrNone
    BY <1>0 DEF ClientStates
  <2>2. PICK s \in ClientStates : s = [Closed EXCEPT !.seen = client[c].seen] /\ s.pc = "closed"
    <3>1. /\ [Closed EXCEPT !.seen = client[c].seen] \in ClientStates
          /\ [Closed EXCEPT !.seen = client[c].seen].pc = "closed"
      BY <2>1, StreamConstants DEF ClientStates
    <3> QED
      BY <3>1
  <2>3. client' = [client EXCEPT ![c] = s] /\ UNCHANGED <<source, ring, counter, acks, pump>>
    BY <1>1, <2>2 DEF Drop, buffer
  <2>4. Caught(s, pump.sending, counter)
    BY <2>2 DEF Caught
  <2> QED
    BY <2>2, <2>3, <2>4, ClientMoves
<1>2. ASSUME Receive(c) PROVE StInv'
  <2> DEFINE p == client[c].prefix
             i == client[c].inbox
             o == Head(p \o i)
             p2 == IF p = << >> THEN << >> ELSE Tail(p)
             i2 == IF p = << >> THEN Tail(i) ELSE i
             nxt == IF o >= client[c].next THEN o + 1 ELSE client[c].next
             s == [client[c] EXCEPT !.seen = o, !.next = nxt, !.prefix = p2, !.inbox = i2]
  <2>1. /\ client[c].pc = "open" /\ p \o i # << >>
        /\ UNCHANGED <<source, ring, counter, acks, pump>>
        /\ client' = [client EXCEPT ![c] = s]
    <3>1. client' = [client EXCEPT ![c] = s]
      BY <1>2 DEF Receive, Frames
    <3> HIDE DEF s
    <3> QED
      BY <1>2, <3>1 DEF Receive, Frames, buffer
  <2>2. p \in Seq(Nat) /\ i \in Seq(Nat) /\ client[c].next \in Nat
    BY <1>0 DEF ClientStates
  <2> HIDE DEF p, i
  <2>3. /\ p \o i \in Seq(Nat) /\ o \in Nat
        /\ p2 \in Seq(Nat) /\ i2 \in Seq(Nat)
        /\ p2 \o i2 = Tail(p \o i)
    <3>1. p \o i \in Seq(Nat) /\ Head(p \o i) \in Nat
      BY <2>1, <2>2
    <3>2. CASE p = << >>
      <4>1. p \o i = i /\ p2 = << >> /\ i2 = Tail(i) /\ i # << >>
        BY <2>1, <2>2, <3>2
      <4>2. Tail(i) \in Seq(Nat) /\ << >> \o Tail(i) = Tail(i)
        BY <2>2, <4>1
      <4> QED
        BY <2>2, <3>1, <3>2, <4>1, <4>2
    <3>3. CASE p # << >>
      <4>1. p2 = Tail(p) /\ i2 = i
        BY <3>3
      <4>2. Tail(p) \o i = Tail(p \o i) /\ Tail(p) \in Seq(Nat)
        BY SMTT(30), <2>2, <3>3
      <4> QED
        BY <2>2, <3>1, <4>1, <4>2
    <3> QED
      BY <3>2, <3>3
  <2> HIDE DEF o, p2, i2
  <2>4. nxt \in Nat /\ nxt >= client[c].next /\ nxt >= o + 1
    BY <2>2, <2>3
  <2> HIDE DEF nxt
  <2>5. /\ s \in ClientStates /\ s.pc = "open" /\ s.lagged = client[c].lagged
        /\ s.next = nxt /\ s.prefix = p2 /\ s.inbox = i2
    BY <1>0, <2>1, <2>3, <2>4, StreamConstants DEF ClientStates
  <2>6. Caught(s, pump.sending, counter)
    <3> SUFFICES ASSUME ~client[c].lagged, NEW x \in nxt..(counter - 1), x # pump.sending
                 PROVE  x \in ToSet(p2 \o i2)
      BY <2>5 DEF Caught
    <3>1. x \in client[c].next..(counter - 1) /\ x # o
      BY <1>0, <2>2, <2>3, <2>4
    <3>2. x \in ToSet(p \o i)
      BY <2>1, <3>1 DEF StInv, Caught, p, i
    <3>a. DOMAIN (p \o i) = 1..Len(p \o i)
      BY <2>3
    <3>3. PICK k \in 1..Len(p \o i) : (p \o i)[k] = x
      BY <3>2, <3>a DEF ToSet
    <3>4. k # 1
      BY <2>1, <2>3, <3>1, <3>3 DEF o
    <3>5. k - 1 \in 1..Len(Tail(p \o i)) /\ Tail(p \o i)[k - 1] = x
      <4>1. PICK u \in Seq(Nat) : u = p \o i
        BY <2>3
      <4>2. u # << >> /\ k \in 1..Len(u) /\ u[k] = x
        BY <2>1, <3>3, <4>1
      <4>3. k - 1 \in 1..Len(Tail(u)) /\ Tail(u)[k - 1] = x
        BY <3>4, <4>2
      <4> QED
        BY <4>1, <4>3
    <3>6. p2 \o i2 \in Seq(Nat) /\ k - 1 \in DOMAIN (p2 \o i2) /\ (p2 \o i2)[k - 1] = x
      BY <2>3, <3>5
    <3> QED
      BY <3>6 DEF ToSet
  <2>7. s.pc # "built" /\ pump.inc # 0
    BY <2>1, <2>5 DEF StInv
  <2> QED
    BY <2>1, <2>5, <2>6, <2>7, ClientMoves
<1> QED
  BY <1>1, <1>2

\* A subscriber that registers, after installing the pump or beside it.
LEMMA SubscribeKeeps ==
  ASSUME StInv, NEW c \in Clients, Install(c) \/ Join(c)
  PROVE  StInv'
<1>0. /\ client[c] \in ClientStates /\ counter \in Nat /\ Contig(ring, counter)
      /\ client \in [Clients -> ClientStates]
  BY DEF StInv
<1>1. client[c].since \in OffsetOrNone /\ client[c].snap \in Seq(Weights) /\ client[c].from \in Nat
      /\ client[c].queue \in Seq(Weights)
  BY <1>0 DEF ClientStates
<1>2. ASSUME Register(c, client[c].since, << >>, ring, counter), pump.inc # 0,
             UNCHANGED <<source, pump, ring, counter>>
      PROVE  StInv'
  <2>1. PICK q, n, since : q = ring /\ n = counter /\ since = client[c].since
    OBVIOUS
  <2>2. << >> \in Seq(Nat) /\ Len(<< >>) = 0 /\ n \in Nat /\ Contig(q, n)
    BY <1>0, <2>1
  <2>3. \A o \in (n - Len(<< >>))..(n - 1) : o \in ToSet(<< >>)
    BY <2>2
  <2>4. Register(c, since, << >>, q, n)
    BY <1>2, <2>1
  <2>5. /\ acks' \in [Clients -> OffsetOrNone] /\ client' \in [Clients -> ClientStates]
        /\ client'[c].pc = "open" /\ \A d \in Clients \ {c} : client'[d] = client[d]
        /\ \A x : Caught(client'[c], x, n)
    <3>1. PICK buffered \in Seq(Nat) : buffered = << >>
      BY <2>2
    <3>2. Len(buffered) <= n /\ since \in OffsetOrNone
      BY <1>1, <2>1, <2>2, <3>1
    <3>3. \A o \in (n - Len(buffered))..(n - 1) : o \in ToSet(buffered)
      BY <2>3, <3>1
    <3>4. Register(c, since, buffered, q, n)
      BY <2>4, <3>1
    <3> QED
      BY <2>2, <3>2, <3>3, <3>4, RegisterIs
  <2>6. \A d \in Clients : Caught(client'[d], pump.sending, counter)
    BY <2>1, <2>5 DEF StInv
  <2>7. \A d \in Clients : Caught(client[d], pump.sending, counter)'
    BY <1>2, <2>6 DEF Caught
  <2> QED
    BY <1>2, <2>5, <2>7 DEF StInv
<1>3. CASE Join(c)
  <2>1. client[c].pc = "join" /\ UNCHANGED <<source, pump, ring, counter>>
        /\ Register(c, client[c].since, << >>, ring, counter)
    BY <1>3 DEF Join
  <2>2. pump.inc # 0
    BY <2>1 DEF StInv
  <2> QED
    BY <1>2, <2>1, <2>2
<1>4. CASE Install(c) /\ pump.inc # 0
  BY <1>2, <1>4 DEF Install
<1>5. CASE Install(c) /\ pump.inc = 0
  <2>1. PICK ws \in Seq(Weights) : ws = client[c].snap
    BY <1>1
  <2>2. PICK q, n : q = PublishAll(ws).q /\ n = PublishAll(ws).n
    OBVIOUS
  <2>3. PICK k \in Nat : k = counter
    BY <1>0
  <2> DEFINE buffered == [i \in 1..Len(ws) |-> k + i - 1]
  <2>4. n = k + Len(ws) /\ Contig(q, n) /\ n \in Nat
    <3>1. PublishAll(ws).n = counter + Len(ws) /\ Contig(PublishAll(ws).q, PublishAll(ws).n)
      BY PublishAllIs
    <3>2. Len(ws) \in Nat
      OBVIOUS
    <3> QED
      BY <2>2, <2>3, <3>1, <3>2
  <2>5. buffered \in Seq(Nat) /\ Len(buffered) = Len(ws) /\ Len(ws) \in Nat
    BY <2>1
  <2>6. \A o \in (n - Len(buffered))..(n - 1) : o \in ToSet(buffered)
    <3> SUFFICES ASSUME NEW o \in (n - Len(buffered))..(n - 1) PROVE o \in ToSet(buffered)
      OBVIOUS
    <3>1. o - k + 1 \in 1..Len(ws) /\ buffered[o - k + 1] = o
      BY <2>3, <2>4, <2>5
    <3>2. DOMAIN buffered = 1..Len(ws)
      BY <2>5
    <3> QED
      BY <3>1, <3>2 DEF ToSet
  <2>7. PICK since \in OffsetOrNone : since = client[c].since
    BY <1>1
  <2>8. /\ client[c].pc = "built" /\ ring' = q /\ counter' = n /\ UNCHANGED source
        /\ pump' = [inc |-> client[c].from, queue |-> client[c].queue, sending |-> None]
        /\ Register(c, since, buffered, q, n)
    BY <1>5, <2>1, <2>2, <2>3, <2>7 DEF Install
  <2> HIDE DEF buffered
  <2>9. Len(buffered) <= n
    BY <2>3, <2>4, <2>5
  <2>10. /\ acks' \in [Clients -> OffsetOrNone] /\ client' \in [Clients -> ClientStates]
         /\ client'[c].pc = "open" /\ \A d \in Clients \ {c} : client'[d] = client[d]
         /\ \A x : Caught(client'[c], x, n)
    BY <2>4, <2>5, <2>6, <2>8, <2>9, RegisterIs
  <2>11. /\ pump' \in [inc : Nat, queue : Seq(Weights), sending : OffsetOrNone]
         /\ pump'.inc # 0
    <3>1. client[c].from >= 1
      BY <2>8 DEF StInv
    <3> QED
      BY <1>1, <2>8, <3>1, StreamConstants
  <2>12. \A d \in Clients : /\ client'[d].pc = "built" => client'[d].from >= 1
                            /\ client'[d].pc \in {"join", "open"} => pump'.inc # 0
    BY <2>10, <2>11 DEF StInv
  <2>13. ASSUME NEW d \in Clients PROVE \A x : Caught(client'[d], x, n)
    <3>1. CASE d = c
      BY <2>10, <3>1
    <3>2. CASE d # c
      <4>1. client'[d] = client[d] /\ client[d].pc # "open"
        BY <1>5, <2>10, <3>2 DEF StInv
      <4> QED
        BY <4>1 DEF Caught
    <3> QED
      BY <3>1, <3>2
  <2>14. \A d \in Clients : Caught(client[d], pump.sending, counter)'
    BY <2>8, <2>13 DEF Caught
  <2>15. Contig(ring, counter)' /\ counter' \in Nat
    BY <2>4, <2>8 DEF Contig
  <2>16. /\ source' \in [up : BOOLEAN, inc : Nat, events : Seq(Weights)]
         /\ source'.up => source'.inc >= 1
    BY <2>8 DEF StInv
  <2> QED
    BY <2>10, <2>11, <2>12, <2>14, <2>15, <2>16 DEF StInv
<1> QED
  BY <1>3, <1>4, <1>5

\* What the pump stamps is under way, and what it sends reaches every stream
\* that has not fallen behind.
LEMMA PumpKeeps == ASSUME StInv, PumpPublish \/ PumpSend PROVE StInv'
<1>0. /\ counter \in Nat /\ Contig(ring, counter)
      /\ client \in [Clients -> ClientStates]
      /\ pump \in [inc : Nat, queue : Seq(Weights), sending : OffsetOrNone]
      /\ None \notin Nat /\ None \in OffsetOrNone /\ \A o \in Nat : o \in OffsetOrNone
  BY StreamConstants DEF StInv
<1>1. ASSUME PumpPublish PROVE StInv'
  <2>1. /\ pump.sending = None /\ pump.queue # << >>
        /\ ring' = Publish(ring, counter, Head(pump.queue)) /\ counter' = counter + 1
        /\ pump' = [pump EXCEPT !.queue = Tail(pump.queue), !.sending = counter]
        /\ UNCHANGED <<source, acks, client>>
    BY <1>1 DEF PumpPublish
  <2>2. PICK w \in Weights : w = Head(pump.queue)
    BY <1>0, <2>1
  <2>3. PICK q, n : q = ring /\ n = counter
    OBVIOUS
  <2>4. Contig(Publish(q, n, w), n + 1)
    <3>1. n \in Nat /\ Contig(q, n)
      BY <1>0, <2>3
    <3> QED
      BY <3>1, PublishIs
  <2>5. Contig(ring, counter)' /\ counter' \in Nat
    <3>1. ring' = Publish(q, n, w) /\ counter' = n + 1 /\ n \in Nat
      BY <1>0, <2>1, <2>2, <2>3
    <3> QED
      BY <2>4, <3>1 DEF Contig
  <2>6. Tail(pump.queue) \in Seq(Weights)
    BY <1>0, <2>1
  <2>7. /\ pump' \in [inc : Nat, queue : Seq(Weights), sending : OffsetOrNone]
        /\ pump'.inc = pump.inc /\ pump'.sending = counter
    BY <1>0, <2>1, <2>6
  <2>8. ASSUME NEW d \in Clients PROVE Caught(client[d], counter, counter + 1)
    <3> SUFFICES ASSUME client[d].pc = "open", ~client[d].lagged,
                        NEW o \in client[d].next..((counter + 1) - 1), o # counter
                 PROVE  o \in ToSet(client[d].prefix \o client[d].inbox)
      BY DEF Caught
    <3>1. client[d].next \in Nat
      BY <1>0 DEF ClientStates
    <3>2. o \in client[d].next..(counter - 1) /\ o # None
      BY <1>0, <3>1
    <3>3. Caught(client[d], None, counter)
      BY <2>1 DEF StInv
    <3> QED
      BY <3>2, <3>3 DEF Caught
  <2>9. \A d \in Clients : Caught(client[d], pump.sending, counter)'
    BY <2>1, <2>7, <2>8 DEF Caught
  <2> QED
    BY <2>1, <2>5, <2>7, <2>9 DEF StInv
<1>2. ASSUME PumpSend PROVE StInv'
  <2>1. /\ pump.sending # None
        /\ client' = [c \in Clients |-> Deliver(client[c], pump.sending)]
        /\ pump' = [pump EXCEPT !.sending = None]
        /\ UNCHANGED <<source, ring, counter, acks>>
    BY <1>2 DEF PumpSend, buffer
  <2>2. PICK x \in Nat : x = pump.sending
    BY <1>0, <2>1 DEF OffsetOrNone
  <2>3. ASSUME NEW s \in ClientStates, NEW n, Caught(s, x, n)
        PROVE  /\ Deliver(s, x) \in ClientStates /\ Deliver(s, x).pc = s.pc
               /\ Deliver(s, x).from = s.from /\ Caught(Deliver(s, x), None, n)
    <3>1. CASE s.pc # "open"
      <4>1. Deliver(s, x) = s
        BY <3>1 DEF Deliver
      <4> QED
        BY <3>1, <4>1 DEF Caught
    <3>2. CASE s.pc = "open" /\ Len(s.inbox) < LiveCap
      <4>1. /\ s.inbox \in Seq(Nat) /\ s.prefix \in Seq(Nat)
            /\ Append(s.inbox, x) \in Seq(Nat)
        BY DEF ClientStates
      <4>2. Deliver(s, x) = [s EXCEPT !.inbox = Append(s.inbox, x)]
        BY <3>2 DEF Deliver
      <4>3. PICK t \in ClientStates :
              /\ Deliver(s, x) = t /\ t.pc = s.pc /\ t.from = s.from /\ t.lagged = s.lagged
              /\ t.next = s.next /\ t.prefix = s.prefix /\ t.inbox = Append(s.inbox, x)
        <5>1. [s EXCEPT !.inbox = Append(s.inbox, x)] \in ClientStates
          BY <4>1 DEF ClientStates
        <5> QED
          BY <4>2, <5>1 DEF ClientStates
      <4>4. ToSet(s.prefix \o s.inbox) \cup {x} \subseteq ToSet(t.prefix \o t.inbox)
        <5> DEFINE u == s.prefix \o s.inbox
                   v == s.prefix \o Append(s.inbox, x)
        <5>1. /\ u \in Seq(Nat) /\ v \in Seq(Nat) /\ Len(v) = Len(u) + 1 /\ Len(u) \in Nat
              /\ v[Len(u) + 1] = x
              /\ \A i \in 1..Len(u) : v[i] = u[i]
          <6>1. PICK b \in Seq(Nat), a \in Seq(Nat) : b = s.inbox /\ a = s.prefix
            BY <4>1
          <6>2. /\ Append(b, x) \in Seq(Nat) /\ Len(Append(b, x)) = Len(b) + 1
                /\ Append(b, x)[Len(b) + 1] = x /\ \A i \in 1..Len(b) : Append(b, x)[i] = b[i]
            OBVIOUS
          <6>3. PICK e \in Seq(Nat) : e = Append(b, x)
            BY <6>2
          <6>4. /\ a \o b \in Seq(Nat) /\ a \o e \in Seq(Nat)
                /\ Len(a \o b) = Len(a) + Len(b) /\ Len(a \o e) = Len(a) + Len(e)
                /\ Len(a) \in Nat /\ Len(b) \in Nat
            OBVIOUS
          <6>5. \A i \in 1..Len(a) : (a \o b)[i] = a[i] /\ (a \o e)[i] = a[i]
            OBVIOUS
          <6>6. \A i \in 1..Len(b) : (a \o b)[Len(a) + i] = b[i]
            OBVIOUS
          <6>7. \A i \in 1..Len(e) : (a \o e)[Len(a) + i] = e[i]
            OBVIOUS
          <6>8. \A i \in 1..Len(a \o b) : (a \o e)[i] = (a \o b)[i]
            <7> SUFFICES ASSUME NEW i \in 1..Len(a \o b) PROVE (a \o e)[i] = (a \o b)[i]
              OBVIOUS
            <7>1. CASE i \in 1..Len(a)
              BY <6>5, <7>1
            <7>2. CASE i \notin 1..Len(a)
              <8>1. PICK j \in 1..Len(b) : i = Len(a) + j
                <9>1. i - Len(a) \in 1..Len(b) /\ i = Len(a) + (i - Len(a))
                  BY <6>4, <7>2
                <9> QED
                  BY <9>1
              <8>2. j \in 1..Len(e) /\ e[j] = b[j]
                BY <6>2, <6>3, <6>4
              <8> QED
                BY <6>6, <6>7, <8>1, <8>2
            <7> QED
              BY <7>1, <7>2
          <6>9. Len(a \o e) = Len(a \o b) + 1 /\ (a \o e)[Len(a \o b) + 1] = x
            <7>1. Len(e) = Len(b) + 1 /\ e[Len(b) + 1] = x /\ Len(b) + 1 \in 1..Len(e)
              BY <6>2, <6>3, <6>4
            <7>2. (a \o e)[Len(a) + (Len(b) + 1)] = x
              BY <6>7, <7>1
            <7> QED
              BY <6>4, <7>1, <7>2
          <6>10. u = a \o b /\ v = a \o e
            BY <6>1, <6>3
          <6> HIDE DEF u, v
          <6> QED
            BY SMTT(30), <6>4, <6>8, <6>9, <6>10
        <5> HIDE DEF u, v
        <5>2. /\ DOMAIN u = 1..Len(u) /\ DOMAIN v = 1..Len(v)
              /\ Len(u) + 1 \in 1..Len(v) /\ \A i \in 1..Len(u) : i \in 1..Len(v)
          BY <5>1
        <5>3. ToSet(u) \cup {x} \subseteq ToSet(v)
          BY <5>1, <5>2 DEF ToSet
        <5> QED
          BY <4>3, <5>3 DEF u, v
      <4>5. Caught(t, None, n)
        BY <2>3, <4>3, <4>4 DEF Caught
      <4> QED
        BY <4>3, <4>5
    <3>3. CASE s.pc = "open" /\ ~(Len(s.inbox) < LiveCap)
      <4>1. Append(Tail(s.inbox), x) \in Seq(Nat)
        <5>1. s.inbox \in Seq(Nat) /\ LiveCap \in Nat \ {0} /\ Len(s.inbox) \in Nat
          BY StreamsAssumption DEF ClientStates
        <5>2. s.inbox # << >>
          BY <3>3, <5>1
        <5> QED
          BY <5>1, <5>2
      <4>2. Deliver(s, x) = [s EXCEPT !.inbox = Append(Tail(s.inbox), x), !.lagged = TRUE]
        BY <3>3 DEF Deliver
      <4>3. /\ Deliver(s, x) \in ClientStates /\ Deliver(s, x).pc = s.pc
            /\ Deliver(s, x).from = s.from /\ Deliver(s, x).lagged = TRUE
        BY <4>1, <4>2 DEF ClientStates
      <4> QED
        BY <4>3 DEF Caught
    <3> QED
      BY <3>1, <3>2, <3>3
  <2>4. ASSUME NEW d \in Clients
        PROVE  /\ client'[d] \in ClientStates /\ client'[d].pc = client[d].pc
               /\ client'[d].from = client[d].from /\ Caught(client'[d], None, counter)
    <3>1. PICK s \in ClientStates : s = client[d]
      BY <1>0
    <3>2. PICK n : n = counter
      OBVIOUS
    <3>3. Caught(s, x, n)
      BY <2>2, <3>1, <3>2 DEF StInv
    <3>4. client'[d] = Deliver(s, x)
      BY <2>1, <2>2, <3>1
    <3> QED
      BY <2>3, <3>1, <3>2, <3>3, <3>4
  <2>5. client' \in [Clients -> ClientStates]
    BY <2>1, <2>4
  <2>6. /\ pump' \in [inc : Nat, queue : Seq(Weights), sending : OffsetOrNone]
        /\ pump'.inc = pump.inc /\ pump'.sending = None
    BY <1>0, <2>1
  <2>7. \A d \in Clients : Caught(client[d], pump.sending, counter)'
    BY <2>1, <2>4, <2>6 DEF Caught
  <2>8. \A d \in Clients : /\ client'[d].pc = "built" => client'[d].from >= 1
                           /\ client'[d].pc \in {"join", "open"} => pump'.inc # 0
    BY <2>4, <2>6 DEF StInv
  <2> QED
    BY <2>1, <2>5, <2>6, <2>7, <2>8 DEF StInv
<1> QED
  BY <1>1, <1>2

\* Pruning takes from the front of the ring.
LEMMA PrunedIs ==
  ASSUME NEW n \in Nat, NEW q, Contig(q, n), NEW a \in [Clients -> OffsetOrNone]
  PROVE  Contig(Pruned(q, a), n) /\ Len(Pruned(q, a)) <= Len(q)
<1> DEFINE W == {a[d] : d \in Clients} \ {None}
<1>1. W \in SUBSET Nat /\ Len(q) \in Nat
  BY DEF OffsetOrNone, Contig
<1>2. CASE W = {}
  BY <1>1, <1>2 DEF Pruned
<1>3. CASE W # {}
  <2>1. PICK o \in Nat : o = Min(W)
    BY <1>1, <1>3, MinIs
  <2>2. Pruned(q, a) = After(q, o)
    BY <1>3, <2>1 DEF Pruned
  <2>3. PICK k \in 1..(Len(q) + 1) : After(q, o) = From(q, k)
    BY AfterIs
  <2>4. Contig(From(q, k), n) /\ Len(From(q, k)) = Len(q) - k + 1
    BY FromIs
  <2> QED
    BY <1>1, <2>2, <2>3, <2>4
<1> QED
  BY <1>2, <1>3

\* Acks only take from the front of the ring.
LEMMA AckKeeps ==
  ASSUME StInv, NEW c \in Clients, AckOffset(c) \/ Deregister(c)
  PROVE  StInv'
<1>0. /\ counter \in Nat /\ Contig(ring, counter) /\ acks \in [Clients -> OffsetOrNone]
      /\ client[c] \in ClientStates
  BY DEF StInv
<1>1. acks' \in [Clients -> OffsetOrNone]
  <2>1. client[c].seen \in OffsetOrNone
    BY <1>0 DEF ClientStates
  <2> QED
    BY <1>0, <2>1, StreamConstants DEF AckOffset, Deregister
<1>2. ring' = Pruned(ring, acks') /\ UNCHANGED <<source, counter, pump, client>>
  BY DEF AckOffset, Deregister
<1>3. PICK q, n, a : q = ring /\ n = counter /\ a = acks'
  OBVIOUS
<1>4. Contig(Pruned(q, a), n)
  <2>1. n \in Nat /\ Contig(q, n) /\ a \in [Clients -> OffsetOrNone]
    BY <1>0, <1>1, <1>3
  <2> QED
    BY <2>1, PrunedIs
<1>5. Contig(ring, counter)'
  BY <1>2, <1>3, <1>4 DEF Contig
<1>6. \A d \in Clients : Caught(client[d], pump.sending, counter)'
  BY <1>2 DEF StInv, Caught
<1> QED
  BY <1>1, <1>2, <1>5, <1>6 DEF StInv

\* StInv holds in every state of a subject.
LEMMA StreamsInvariant == StreamsSpec => []StInv
<1>1. StInv /\ [StreamsNext]_stVars => StInv'
  <2> SUFFICES ASSUME StInv, [StreamsNext]_stVars PROVE StInv'
    OBVIOUS
  <2>1. CASE UNCHANGED stVars
    BY <2>1 DEF stVars, StInv, Contig, Caught
  <2> QED
    BY <2>1, SourceKeeps, AttachKeeps, ReceiveKeeps, SubscribeKeeps, PumpKeeps, AckKeeps
       DEF StreamsNext
<1> QED
  BY StreamsInitially, <1>1, PTL DEF StreamsSpec

\* A subscriber misses nothing unless it is told or falls behind, for rings
\* bounded by events or by bytes, of any size, and any number of clients.
THEOREM NothingSkippedHolds == StreamsSpec => []NothingSkipped
<1>1. StInv => NothingSkipped
  BY DEF StInv, Caught, NothingSkipped, Frames
<1> QED
  BY StreamsInvariant, <1>1, PTL

-----------------------------------------------------------------------------
(* What a subscriber reads.                                                 *)

\* The offset of the first event in a client's channel, or else of the next
\* one to get there.
Base(s, sending, n) == (n - (IF sending = None THEN 0 ELSE 1)) - Len(s.inbox)

\* The replay runs on from what the client wants next, and the channel from
\* there: one event earlier if one was under way as the client registered, and
\* later only if the client fell behind.
Feeds(s, sending, n) ==
  s.pc = "open" =>
    /\ \A i \in 1..Len(s.prefix) : s.prefix[i] = s.next + (i - 1)
    /\ \A i \in 1..Len(s.inbox) : s.inbox[i] = Base(s, sending, n) + (i - 1)
    /\ s.next + Len(s.prefix) <= n
    /\ Base(s, sending, n) >= (s.next + Len(s.prefix)) - 1
    /\ ~s.lagged => Base(s, sending, n) <= s.next + Len(s.prefix)

\* What a client names when it comes back is what it saw last, of a subject
\* that has its pump.
Remembers(s, inc, n) ==
  /\ s.pc # "open" => ~s.lagged /\ s.next = 0
  /\ s.pc \in {"build", "built", "join"} => s.since \in {None, s.seen}
  /\ s.seen # None => s.seen < n /\ inc # 0

StReads ==
  /\ pump.sending # None => pump.sending = counter - 1
  /\ \A c \in Clients : /\ Feeds(client[c], pump.sending, counter)
                        /\ Remembers(client[c], pump.inc, counter)

\* What the contract sees of a client.
SameStream(s, t) ==
  /\ s.pc = "open" <=> t.pc = "open"
  /\ s.lagged = t.lagged /\ s.next = t.next /\ s.seen = t.seen

\* A step that no subscriber can tell.
LEMMA UnseenStep ==
  ASSUME ring' = ring, counter' = counter,
         \A c \in Clients : SameStream(client'[c], client[c])
  PROVE  UNCHANGED Contract!streamVars
<1>1. Floor(ring, counter)' = Floor(ring, counter)
  BY DEF Floor
<1>2. {c \in Clients : client[c].pc = "open"}' = {c \in Clients : client[c].pc = "open"}
  BY DEF SameStream
<1>3. {c \in Clients : client[c].lagged}' = {c \in Clients : client[c].lagged}
  BY DEF SameStream
<1>4. [c \in Clients |-> client[c].next]' = [c \in Clients |-> client[c].next]
  BY DEF SameStream
<1>5. [c \in Clients |-> client[c].seen]' = [c \in Clients |-> client[c].seen]
  BY DEF SameStream
<1> QED
  BY <1>1, <1>2, <1>3, <1>4, <1>5 DEF Contract!streamVars

\* The floor never sinks, and is within what was stamped.
LEMMA FloorRises ==
  ASSUME NEW n \in Nat, NEW q, Contig(q, n), NEW m \in Nat, NEW r, Contig(r, m),
         n <= m, Len(r) <= Len(q) + (m - n)
  PROVE  Floor(r, m) \in Floor(q, n)..m
<1>1. Floor(q, n) = n - Len(q) /\ Len(q) \in Nat
  BY FloorIs
<1>2. Floor(r, m) = m - Len(r) /\ Len(r) \in Nat /\ Len(r) <= m
  BY FloorIs
<1> QED
  BY <1>1, <1>2

\* One client that comes to another state, if it is fed there.
LEMMA ClientReads ==
  ASSUME StInv, StReads, NEW c \in Clients, NEW s, client' = [client EXCEPT ![c] = s],
         UNCHANGED <<counter, pump>>,
         Feeds(s, pump.sending, counter), Remembers(s, pump.inc, counter)
  PROVE  StReads'
<1>1. client'[c] = s /\ \A d \in Clients \ {c} : client'[d] = client[d]
  BY DEF StInv
<1>2. \A d \in Clients : /\ Feeds(client'[d], pump.sending, counter)
                         /\ Remembers(client'[d], pump.inc, counter)
  BY <1>1 DEF StReads
<1>3. \A d \in Clients : /\ Feeds(client[d], pump.sending, counter)'
                         /\ Remembers(client[d], pump.inc, counter)'
  BY <1>2 DEF Feeds, Base, Remembers
<1> QED
  BY <1>3 DEF StReads

\* Events and acks change nothing that a client reads.
LEMMA QuietReads ==
  ASSUME StInv, StReads, counter' = counter, pump'.inc = pump.inc, pump'.sending = pump.sending,
         \A c \in Clients :
           /\ SameStream(client'[c], client[c]) /\ client'[c].pc = client[c].pc
           /\ client'[c].since = client[c].since
           /\ client'[c].prefix = client[c].prefix /\ client'[c].inbox = client[c].inbox
  PROVE  StReads'
<1>1. ASSUME NEW c \in Clients
      PROVE  Feeds(client[c], pump.sending, counter)' /\ Remembers(client[c], pump.inc, counter)'
  <2>1. Feeds(client[c], pump.sending, counter) /\ Remembers(client[c], pump.inc, counter)
    BY DEF StReads
  <2>2. /\ SameStream(client'[c], client[c]) /\ client'[c].pc = client[c].pc
        /\ client'[c].since = client[c].since
        /\ client'[c].prefix = client[c].prefix /\ client'[c].inbox = client[c].inbox
    OBVIOUS
  <2>3. Feeds(client[c], pump.sending, counter)'
    BY <2>1, <2>2 DEF Feeds, Base, SameStream
  <2>4. Remembers(client[c], pump.inc, counter)'
    BY <2>1, <2>2 DEF Remembers, SameStream
  <2> QED
    BY <2>3, <2>4
<1> QED
  BY <1>1 DEF StReads

\* The session's steps, and the acks: at most the floor rises.
LEMMA SourceReads ==
  ASSUME StInv, StReads, SourceStarts \/ SourceEnds \/ \E w \in Weights : Emit(w)
  PROVE  StReads' /\ UNCHANGED Contract!streamVars
<1>1. /\ ring' = ring /\ counter' = counter
      /\ pump'.inc = pump.inc /\ pump'.sending = pump.sending
  <2>1. CASE SourceStarts \/ SourceEnds
    BY <2>1 DEF SourceStarts, SourceEnds, buffer
  <2>2. ASSUME NEW w \in Weights, Emit(w)
        PROVE  /\ ring' = ring /\ counter' = counter
               /\ pump'.inc = pump.inc /\ pump'.sending = pump.sending
    <3>1. pump' = pump \/ pump' = [pump EXCEPT !.queue = Append(pump.queue, w)]
      BY <2>2 DEF Emit
    <3>2. pump \in [inc : Nat, queue : Seq(Weights), sending : OffsetOrNone]
      BY DEF StInv
    <3> QED
      BY <2>2, <3>1, <3>2 DEF Emit, buffer
  <2> QED
    BY <2>1, <2>2
<1>2. ASSUME NEW c \in Clients
      PROVE  /\ SameStream(client'[c], client[c]) /\ client'[c].pc = client[c].pc
             /\ client'[c].since = client[c].since
             /\ client'[c].prefix = client[c].prefix /\ client'[c].inbox = client[c].inbox
  <2>1. CASE SourceStarts \/ SourceEnds
    BY <2>1 DEF SourceStarts, SourceEnds, SameStream
  <2>2. ASSUME NEW w \in Weights, Emit(w)
        PROVE  client'[c] = client[c] \/ client'[c] = [client[c] EXCEPT !.queue = Append(@, w)]
    BY <2>2 DEF Emit
  <2>3. client[c] \in ClientStates
    BY DEF StInv
  <2>4. CASE \E w \in Weights : Emit(w)
    BY <2>2, <2>3, <2>4 DEF ClientStates, SameStream
  <2> QED
    BY <2>1, <2>4
<1> QED
  BY <1>1, <1>2, QuietReads, UnseenStep

\* An ack, or the loss of one, lets go of events and gives a reader nothing else.
LEMMA AckReads ==
  ASSUME StInv, StReads, NEW c \in Clients, AckOffset(c) \/ Deregister(c)
  PROVE  StReads' /\ Contract!Next
<1>1. ring' = Pruned(ring, acks') /\ UNCHANGED <<counter, pump, client>>
  BY DEF AckOffset, Deregister
<1>2. StReads'
  BY <1>1, QuietReads DEF SameStream
<1>3. Floor(ring, counter)' \in Floor(ring, counter)..counter
  <2>1. PICK q, n, r : q = ring /\ n = counter /\ r = ring'
    OBVIOUS
  <2>2. n \in Nat /\ Contig(q, n)
    BY <2>1 DEF StInv
  <2>3. acks' \in [Clients -> OffsetOrNone]
    BY AckKeeps DEF StInv
  <2>4. PICK a \in [Clients -> OffsetOrNone] : a = acks'
    BY <2>3
  <2>5. r = Pruned(q, a)
    BY <1>1, <2>1, <2>4
  <2>6. Contig(r, n) /\ Len(r) <= Len(q)
    BY <2>2, <2>5, PrunedIs
  <2>7. Floor(r, n) \in Floor(q, n)..n
    BY <2>2, <2>6, FloorRises, FloorIs
  <2>8. Floor(ring, counter)' = Floor(r, n)
    BY <1>1, <2>1 DEF Floor
  <2> QED
    BY <2>1, <2>7, <2>8
<1>4. Contract!Stamp
  BY <1>1, <1>3 DEF Contract!Stamp, Contract!LetGo
<1> QED
  BY <1>2, <1>4 DEF Contract!Next

\* Asking and building are not seen; a client that leaves is off.
LEMMA AskReads ==
  ASSUME StInv, StReads, NEW c \in Clients, BeginAttach(c) \/ BuildSource(c)
  PROVE  StReads' /\ UNCHANGED Contract!streamVars
<1>0. /\ client \in [Clients -> ClientStates] /\ client[c] \in ClientStates
      /\ Remembers(client[c], pump.inc, counter)
      /\ UNCHANGED <<ring, counter, pump>>
  <2>1. UNCHANGED <<ring, counter, pump>>
    <3>1. BeginAttach(c) => UNCHANGED <<ring, counter, pump>>
      BY Zenon DEF BeginAttach, buffer
    <3>2. BuildSource(c) => UNCHANGED <<ring, counter, pump>>
      BY Zenon DEF BuildSource, buffer
    <3> QED
      BY <3>1, <3>2
  <2>2. client \in [Clients -> ClientStates]
    BY DEF StInv
  <2>3. Remembers(client[c], pump.inc, counter)
    BY DEF StReads
  <2> QED
    BY <2>1, <2>2, <2>3
<1>1. \E s : /\ client' = [client EXCEPT ![c] = s] /\ SameStream(s, client[c])
             /\ s.pc # "open" /\ Remembers(s, pump.inc, counter)
  <2>1. ASSUME BeginAttach(c)
        PROVE  \E s : /\ client' = [client EXCEPT ![c] = s] /\ SameStream(s, client[c])
                      /\ s.pc # "open" /\ Remembers(s, pump.inc, counter)
    <3>1. PICK since \in Since(c) :
            IF pump.inc = 0
              THEN client' = [client EXCEPT ![c].pc = "build", ![c].since = since, ![c].at = source.inc]
              ELSE client' = [client EXCEPT ![c].pc = "join", ![c].since = since,
                                            ![c].at = IF source.up THEN source.inc ELSE 0]
      BY Zenon, <2>1 DEF BeginAttach
    <3>2. PICK pc \in {"build", "join"} : \E at : client' = [client EXCEPT ![c] =
             [client[c] EXCEPT !.pc = pc, !.since = since, !.at = at]]
      <4>1. CASE pump.inc = 0
        <5>1. client' = [client EXCEPT ![c] = [client[c] EXCEPT !.pc = "build", !.since = since,
                                                 !.at = source.inc]]
          BY <1>0, <3>1, <4>1
        <5>2. \E at : client' = [client EXCEPT ![c] =
                [client[c] EXCEPT !.pc = "build", !.since = since, !.at = at]]
          BY Zenon, <5>1
        <5> QED
          BY Zenon, <5>2
      <4>2. CASE pump.inc # 0
        <5>1. client' = [client EXCEPT ![c] = [client[c] EXCEPT !.pc = "join", !.since = since,
                                                 !.at = IF source.up THEN source.inc ELSE 0]]
          BY <1>0, <3>1, <4>2
        <5>2. \E at : client' = [client EXCEPT ![c] =
                [client[c] EXCEPT !.pc = "join", !.since = since, !.at = at]]
          BY Zenon, <5>1
        <5> QED
          BY Zenon, <5>2
      <4> QED
        BY Zenon, <4>1, <4>2
    <3>a. PICK at : client' = [client EXCEPT ![c] =
             [client[c] EXCEPT !.pc = pc, !.since = since, !.at = at]]
      BY Zenon, <3>2
    <3>3. PICK s : s = [client[c] EXCEPT !.pc = pc, !.since = since, !.at = at]
      OBVIOUS
    <3>4. /\ s.pc = pc /\ s.since = since /\ s.next = client[c].next
          /\ s.lagged = client[c].lagged /\ s.seen = client[c].seen
      BY <1>0, <3>3 DEF ClientStates
    <3>5. client[c].pc = "closed" /\ since \in {None, client[c].seen}
      <4>1. client[c].pc = "closed"
        BY Zenon, <2>1 DEF BeginAttach
      <4> QED
        BY <3>1, <4>1 DEF Since
    <3> QED
      BY <1>0, <3>a, <3>3, <3>4, <3>5 DEF SameStream, Remembers
  <2>2. ASSUME BuildSource(c)
        PROVE  \E s : /\ client' = [client EXCEPT ![c] = s] /\ SameStream(s, client[c])
                      /\ s.pc # "open" /\ Remembers(s, pump.inc, counter)
    <3>1. PICK s : s = IF source.up THEN [client[c] EXCEPT !.pc = "built", !.snap = source.events,
                                                         !.from = source.inc]
                                    ELSE [client[c] EXCEPT !.pc = "closed"]
      OBVIOUS
    <3>2. client' = [client EXCEPT ![c] = s] /\ client[c].pc = "build"
      BY <2>2, <3>1 DEF BuildSource
    <3>3. /\ s.pc \in {"built", "closed"} /\ s.since = client[c].since /\ s.next = client[c].next
          /\ s.lagged = client[c].lagged /\ s.seen = client[c].seen
      BY <1>0, <3>1 DEF ClientStates
    <3> QED
      BY <1>0, <3>2, <3>3 DEF SameStream, Remembers
  <2> QED
    BY <2>1, <2>2
<1>2. PICK s : /\ client' = [client EXCEPT ![c] = s] /\ SameStream(s, client[c])
               /\ s.pc # "open" /\ Remembers(s, pump.inc, counter)
  BY <1>1
<1>3. StReads'
  BY <1>0, <1>2, ClientReads DEF Feeds
<1>4. \A d \in Clients : SameStream(client'[d], client[d])
  BY <1>0, <1>2 DEF SameStream
<1> QED
  BY <1>0, <1>3, <1>4, UnseenStep

\* The contract's variables after one client's step, by theirs before it.
LEMMA OneStreamMoves ==
  ASSUME StInv, NEW c \in Clients, NEW s, client' = [client EXCEPT ![c] = s]
  PROVE  /\ {d \in Clients : client[d].pc = "open"}' =
              IF s.pc = "open" THEN {d \in Clients : client[d].pc = "open"} \union {c}
                               ELSE {d \in Clients : client[d].pc = "open"} \ {c}
         /\ {d \in Clients : client[d].lagged}' =
              IF s.lagged THEN {d \in Clients : client[d].lagged} \union {c}
                          ELSE {d \in Clients : client[d].lagged} \ {c}
         /\ [d \in Clients |-> client[d].next]' =
              [[d \in Clients |-> client[d].next] EXCEPT ![c] = s.next]
         /\ [d \in Clients |-> client[d].seen]' =
              [[d \in Clients |-> client[d].seen] EXCEPT ![c] = s.seen]
         /\ UNCHANGED <<ring, counter>> => Floor(ring, counter)' = Floor(ring, counter)
<1>1. client'[c] = s /\ \A d \in Clients \ {c} : client'[d] = client[d]
  BY DEF StInv
<1>2. UNCHANGED <<ring, counter>> => Floor(ring, counter)' = Floor(ring, counter)
  BY DEF Floor
<1>3. {d \in Clients : client[d].pc = "open"}' =
        IF s.pc = "open" THEN {d \in Clients : client[d].pc = "open"} \union {c}
                         ELSE {d \in Clients : client[d].pc = "open"} \ {c}
  BY <1>1
<1>4. {d \in Clients : client[d].lagged}' =
        IF s.lagged THEN {d \in Clients : client[d].lagged} \union {c}
                    ELSE {d \in Clients : client[d].lagged} \ {c}
  BY <1>1
<1>5. [d \in Clients |-> client[d].next]' =
        [[d \in Clients |-> client[d].next] EXCEPT ![c] = s.next]
  <2>1. \A d \in Clients : client'[d].next = IF d = c THEN s.next ELSE client[d].next
    BY <1>1
  <2>2. [d \in Clients |-> client'[d].next] =
          [[d \in Clients |-> client[d].next] EXCEPT ![c] = s.next]
    BY <2>1
  <2> QED
    BY <2>2
<1>6. [d \in Clients |-> client[d].seen]' =
        [[d \in Clients |-> client[d].seen] EXCEPT ![c] = s.seen]
  <2>1. \A d \in Clients : client'[d].seen = IF d = c THEN s.seen ELSE client[d].seen
    BY <1>1
  <2>2. [d \in Clients |-> client'[d].seen] =
          [[d \in Clients |-> client[d].seen] EXCEPT ![c] = s.seen]
    BY <2>1
  <2> QED
    BY <2>2
<1> QED
  BY <1>2, <1>3, <1>4, <1>5, <1>6

\* A client that leaves remembers what it read last and is no longer behind.
LEMMA DropReads ==
  ASSUME StInv, StReads, NEW c \in Clients, Drop(c)
  PROVE  StReads' /\ Contract!Next
<1>0. /\ client \in [Clients -> ClientStates] /\ client[c] \in ClientStates
      /\ client[c].pc = "open" /\ UNCHANGED <<ring, counter, pump>>
      /\ Remembers(client[c], pump.inc, counter)
  BY DEF StInv, StReads, Drop, buffer
<1>1. PICK s : s = [Closed EXCEPT !.seen = client[c].seen]
  OBVIOUS
<1>2. client' = [client EXCEPT ![c] = s]
  BY <1>1 DEF Drop
<1>3. s.pc = "closed" /\ s.next = 0 /\ s.seen = client[c].seen /\ s.lagged = FALSE
  BY <1>1 DEF Closed
<1>4. StReads'
  BY <1>0, <1>2, <1>3, ClientReads DEF Feeds, Remembers
<1>5. [d \in Clients |-> client[d].seen]' = [d \in Clients |-> client[d].seen]
  BY <1>0, <1>2, <1>3
<1>6. Contract!Leave(c)
  BY <1>0, <1>2, <1>3, <1>5, OneStreamMoves DEF Contract!Leave
<1> QED
  BY <1>4, <1>6 DEF Contract!Next

\* What a client reads next, and what it holds then.
LEMMA FirstFrame ==
  ASSUME NEW p \in Seq(Nat), NEW b \in Seq(Nat), p \o b # << >>
  PROVE  /\ Head(p \o b) \in Nat
         /\ p # << >> =>
              /\ 1 \in 1..Len(p) /\ Head(p \o b) = p[1] /\ Len(Tail(p)) = Len(p) - 1
              /\ \A i \in 1..Len(Tail(p)) : i + 1 \in 1..Len(p) /\ Tail(p)[i] = p[i + 1]
         /\ p = << >> =>
              /\ b # << >> /\ 1 \in 1..Len(b) /\ Head(p \o b) = b[1]
              /\ Len(Tail(b)) = Len(b) - 1
              /\ \A i \in 1..Len(Tail(b)) : i + 1 \in 1..Len(b) /\ Tail(b)[i] = b[i + 1]
<1>1. ASSUME NEW q \in Seq(Nat), q # << >>
      PROVE  /\ 1 \in 1..Len(q) /\ Head(q) = q[1] /\ q[1] \in Nat /\ Len(Tail(q)) = Len(q) - 1
             /\ \A i \in 1..Len(Tail(q)) : i + 1 \in 1..Len(q) /\ Tail(q)[i] = q[i + 1]
  BY <1>1
<1>2. CASE p # << >>
  <2>1. (p \o b)[1] = p[1] /\ p \o b \in Seq(Nat)
    BY <1>1, <1>2
  <2>2. Head(p \o b) = p[1]
    BY <2>1
  <2> QED
    BY <1>1, <1>2, <2>2
<1>3. CASE p = << >>
  <2>1. p \o b = b
    BY <1>3
  <2> QED
    BY <1>1, <1>3, <2>1
<1> QED
  BY <1>2, <1>3

\* A frame of the replay is the one wanted next, and what stays is fed on.
LEMMA ReplayedFrame ==
  ASSUME NEW t \in ClientStates, NEW s, NEW x, NEW n \in Nat, Feeds(t, x, n), t.pc = "open",
         t.prefix # << >>, s.pc = "open", s.lagged = t.lagged, s.next = t.next + 1,
         s.prefix = Tail(t.prefix), s.inbox = t.inbox
  PROVE  t.prefix[1] = t.next /\ t.next < n /\ Feeds(s, x, n)
<1>1. /\ t.prefix \in Seq(Nat) /\ t.inbox \in Seq(Nat) /\ t.next \in Nat
      /\ Len(t.prefix) \in Nat /\ Len(t.inbox) \in Nat
  BY DEF ClientStates
<1>2. PICK p \in Seq(Nat) : p = t.prefix
  BY <1>1
<1>3. /\ 1 \in 1..Len(p) /\ Len(Tail(p)) = Len(p) - 1
      /\ \A i \in 1..Len(Tail(p)) : i + 1 \in 1..Len(p) /\ Tail(p)[i] = p[i + 1]
  <2>1. p \o << >> # << >> /\ << >> \in Seq(Nat) /\ p # << >>
    BY <1>2
  <2> QED
    BY <2>1, FirstFrame
<1>4. \A i \in 1..Len(p) : p[i] = t.next + (i - 1)
  BY <1>2 DEF Feeds
<1>5. p[1] = t.next
  <2>1. t.next + (1 - 1) = t.next
    BY <1>1
  <2>2. p[1] = t.next + (1 - 1)
    BY <1>3, <1>4
  <2> QED
    BY <2>1, <2>2
<1>6. Len(p) \in Nat /\ Len(p) >= 1 /\ t.next + Len(p) <= n
  BY <1>2, <1>3 DEF Feeds
<1>7. \A i \in 1..Len(Tail(p)) : Tail(p)[i] = (t.next + 1) + (i - 1)
  <2> SUFFICES ASSUME NEW i \in 1..Len(Tail(p)) PROVE Tail(p)[i] = (t.next + 1) + (i - 1)
    OBVIOUS
  <2>1. Tail(p)[i] = t.next + ((i + 1) - 1)
    BY <1>3, <1>4
  <2> QED
    BY <1>1, <2>1
<1>8. Base(s, x, n) = Base(t, x, n)
  BY DEF Base
<1>9. (t.next + 1) + Len(Tail(p)) = t.next + Len(p)
  BY <1>1, <1>3, <1>6
<1>10. Feeds(s, x, n)
  BY <1>2, <1>7, <1>8, <1>9 DEF Feeds
<1> QED
  BY <1>1, <1>2, <1>5, <1>6, <1>10

\* A frame of the channel is the one wanted next or the one before it, or one
\* further on if the client fell behind.
LEMMA LiveFrame ==
  ASSUME NEW t \in ClientStates, NEW s, NEW x, NEW n \in Nat, NEW o, Feeds(t, x, n), t.pc = "open",
         t.prefix = << >>, t.inbox # << >>, o = t.inbox[1],
         s.pc = "open", s.lagged = t.lagged, s.next = IF o >= t.next THEN o + 1 ELSE t.next,
         s.prefix = << >>, s.inbox = Tail(t.inbox)
  PROVE  /\ o < n /\ o >= t.next - 1 /\ (~t.lagged => o <= t.next)
         /\ Feeds(s, x, n)
<1>1. /\ t.inbox \in Seq(Nat) /\ t.next \in Nat /\ Len(t.inbox) \in Nat /\ Len(t.prefix) = 0
  BY DEF ClientStates
<1>2. PICK b \in Seq(Nat) : b = t.inbox
  BY <1>1
<1>3. /\ 1 \in 1..Len(b) /\ Len(Tail(b)) = Len(b) - 1 /\ b[1] = o /\ o \in Nat
      /\ \A i \in 1..Len(Tail(b)) : i + 1 \in 1..Len(b) /\ Tail(b)[i] = b[i + 1]
  <2>1. b \o << >> # << >> /\ << >> \in Seq(Nat) /\ b # << >> /\ b[1] = o
    BY <1>2
  <2> QED
    BY <2>1, FirstFrame
<1>k. PICK k \in {0, 1} : k = IF x = None THEN 0 ELSE 1
  OBVIOUS
<1>4. PICK e \in Int : e = Base(t, x, n) /\ e = (n - k) - Len(b)
  <2>1. Base(t, x, n) = (n - k) - Len(b) /\ Len(b) \in Nat
    BY <1>2, <1>k DEF Base
  <2>2. (n - k) - Len(b) \in Int
    BY <2>1
  <2> QED
    BY Zenon, <2>1, <2>2
<1>5. \A i \in 1..Len(b) : b[i] = e + (i - 1)
  BY <1>2, <1>4 DEF Feeds
<1>6. o = e
  BY <1>3, <1>4, <1>5
<1>7. /\ t.next + 0 <= n /\ e >= (t.next + 0) - 1 /\ (~t.lagged => e <= t.next + 0)
  BY <1>1, <1>4 DEF Feeds
<1>8. Len(b) \in Nat /\ Len(b) >= 1
  BY <1>3
<1>9. /\ o < n /\ o >= t.next - 1 /\ (~t.lagged => o <= t.next)
  <2>1. o <= n - 1
    BY <1>4, <1>6, <1>8
  <2> QED
    BY <1>1, <1>3, <1>6, <1>7, <2>1
<1>10. \A i \in 1..Len(Tail(b)) : Tail(b)[i] = (o + 1) + (i - 1)
  <2> SUFFICES ASSUME NEW i \in 1..Len(Tail(b)) PROVE Tail(b)[i] = (o + 1) + (i - 1)
    OBVIOUS
  <2>1. Tail(b)[i] = e + ((i + 1) - 1)
    BY <1>3, <1>5
  <2> QED
    BY <1>3, <1>6, <2>1
<1>11. Base(s, x, n) = o + 1
  <2>1. Base(s, x, n) = (n - k) - Len(Tail(b))
    BY <1>2, <1>k DEF Base
  <2>2. (n - k) - (Len(b) - 1) = ((n - k) - Len(b)) + 1
    BY <1>8
  <2> QED
    BY <1>3, <1>4, <1>6, <2>1, <2>2
<1>12. /\ s.next \in Nat /\ s.next + 0 <= n /\ o + 1 >= (s.next + 0) - 1
       /\ (~t.lagged => o + 1 <= s.next + 0)
  <2>1. CASE o >= t.next
    <3>1. s.next = o + 1
      BY <2>1
    <3>2. PICK v \in Nat : v = o
      BY <1>3
    <3>3. v + 1 \in Nat /\ (v + 1) + 0 <= n /\ v + 1 >= ((v + 1) + 0) - 1 /\ v + 1 <= (v + 1) + 0
      BY <1>9, <3>2, SMTT(30)
    <3> QED
      BY <3>1, <3>2, <3>3
  <2>2. CASE ~(o >= t.next)
    <3>1. s.next = t.next
      BY <2>2
    <3> QED
      BY <1>1, <1>3, <1>7, <1>9, <2>2, <3>1, SMTT(30)
  <2> QED
    BY <2>1, <2>2
<1>13. Len(s.prefix) = 0 /\ \A i \in 1..Len(s.prefix) : FALSE
  OBVIOUS
<1>14. Feeds(s, x, n)
  BY <1>2, <1>10, <1>11, <1>12, <1>13 DEF Feeds
<1> QED
  BY <1>9, <1>14

\* A frame is the next one wanted, or the one before it, or later if the
\* client fell behind.
LEMMA ReceiveReads ==
  ASSUME StInv, StReads, NEW c \in Clients, Receive(c)
  PROVE  StReads' /\ Contract!Next
<1>0. /\ client \in [Clients -> ClientStates] /\ counter \in Nat
      /\ pump.sending \in OffsetOrNone /\ pump.inc # 0
      /\ UNCHANGED <<ring, counter, pump>>
  BY DEF StInv, Receive, buffer
<1>1. PICK t \in ClientStates : t = client[c]
  BY <1>0
<1>2. PICK x \in OffsetOrNone, n \in Nat : x = pump.sending /\ n = counter
  BY <1>0
<1>3. Feeds(t, x, n) /\ Remembers(t, pump.inc, n) /\ (x # None => x = n - 1)
  BY <1>1, <1>2 DEF StReads
<1>4. /\ t.prefix \in Seq(Nat) /\ t.inbox \in Seq(Nat) /\ t.next \in Nat
      /\ Len(t.prefix) \in Nat /\ Len(t.inbox) \in Nat
      /\ t.pc = "open" /\ t.prefix \o t.inbox # << >>
  <2>1. t.pc = "open" /\ t.prefix \o t.inbox # << >>
    BY <1>1 DEF Receive, Frames
  <2>2. t.prefix \in Seq(Nat) /\ t.inbox \in Seq(Nat) /\ t.next \in Nat
    BY DEF ClientStates
  <2> QED
    BY <2>1, <2>2
<1>5. Base(t, x, n) \in Int /\ Base(t, x, n) <= n - Len(t.inbox)
  BY <1>4 DEF Base
<1> DEFINE o == Head(t.prefix \o t.inbox)
           nxt == IF o >= t.next THEN o + 1 ELSE t.next
           p2 == IF t.prefix = << >> THEN << >> ELSE Tail(t.prefix)
           i2 == IF t.prefix = << >> THEN Tail(t.inbox) ELSE t.inbox
<1>6. PICK s : s = [t EXCEPT !.seen = o, !.next = nxt, !.prefix = p2, !.inbox = i2]
  OBVIOUS
<1>7. client' = [client EXCEPT ![c] = s]
  BY <1>1, <1>6 DEF Receive, Frames
<1>8. /\ s.pc = "open" /\ s.seen = o /\ s.next = nxt /\ s.prefix = p2 /\ s.inbox = i2
      /\ s.lagged = t.lagged
  BY <1>4, <1>6 DEF ClientStates
<1>9. /\ o \in Nat /\ o < n /\ o >= t.next - 1 /\ (~t.lagged => o <= t.next)
      /\ Feeds(s, x, n)
  <2>1. CASE t.prefix # << >>
    <3>1. o = t.prefix[1] /\ o \in Nat
      BY <1>4, <2>1, FirstFrame
    <3>2. t.prefix[1] = t.next
      <4>1. 1 \in 1..Len(t.prefix) /\ \A i \in 1..Len(t.prefix) : t.prefix[i] = t.next + (i - 1)
        BY <1>3, <1>4, <2>1 DEF Feeds
      <4> QED
        BY <1>4, <4>1
    <3>3. p2 = Tail(t.prefix) /\ i2 = t.inbox
      BY <2>1
    <3>a. nxt = t.next + 1
      <4>1. o = t.next
        BY <3>1, <3>2
      <4> HIDE DEF o
      <4> QED
        BY <1>4, <4>1
    <3> HIDE DEF o, nxt, p2, i2
    <3>4. t.next < n /\ Feeds(s, x, n)
      BY <1>3, <1>4, <1>8, <2>1, <3>3, <3>a, ReplayedFrame
    <3> QED
      BY <1>4, <3>1, <3>2, <3>4
  <2>2. CASE t.prefix = << >>
    <3>1. o = t.inbox[1] /\ o \in Nat /\ t.inbox # << >>
      BY <1>4, <2>2, FirstFrame
    <3>2. p2 = << >> /\ i2 = Tail(t.inbox)
      BY <2>2
    <3> HIDE DEF o, p2, i2
    <3> QED
      BY <1>3, <1>4, <1>8, <2>2, <3>1, <3>2, LiveFrame
  <2> QED
    BY <2>1, <2>2
<1> HIDE DEF o, p2, i2
<1>10. Remembers(s, pump.inc, counter)
  BY <1>0, <1>2, <1>8, <1>9, StreamConstants DEF Remembers
<1>11. StReads'
  BY <1>0, <1>2, <1>7, <1>9, <1>10, ClientReads
<1>12. Contract!Read(c, o)
  <2>1. {d \in Clients : client[d].pc = "open"}' = {d \in Clients : client[d].pc = "open"}
    BY <1>0, <1>1, <1>4, <1>7, <1>8, OneStreamMoves
  <2>2. {d \in Clients : client[d].lagged}' = {d \in Clients : client[d].lagged}
    BY <1>0, <1>1, <1>7, <1>8, OneStreamMoves
  <2>3. nxt = IF o < t.next THEN t.next ELSE o + 1
    BY <1>4, <1>9
  <2>4. o \in {t.next - 1, t.next} \/ (t.lagged /\ o > t.next)
    BY <1>4, <1>9
  <2>5. /\ [d \in Clients |-> client[d].next]' =
             [[d \in Clients |-> client[d].next] EXCEPT ![c] = nxt]
        /\ [d \in Clients |-> client[d].seen]' =
             [[d \in Clients |-> client[d].seen] EXCEPT ![c] = o]
        /\ Floor(ring, counter)' = Floor(ring, counter)
    BY <1>0, <1>7, <1>8, OneStreamMoves
  <2>6. [d \in Clients |-> client[d].next][c] = t.next
    BY <1>1
  <2> HIDE DEF nxt
  <2> QED
    BY <1>0, <1>1, <1>2, <1>4, <1>9, <2>1, <2>2, <2>3, <2>4, <2>5, <2>6 DEF Contract!Read
<1>13. o \in 0..(counter - 1)
  BY <1>0, <1>2, <1>9
<1> QED
  BY <1>11, <1>12, <1>13 DEF Contract!Next

\* A stream registered after since, or without one, when n events are stamped:
\* k of them are the ones that came with the source.
Registered(s, since, n, low, k) ==
  /\ s.pc = "open" /\ s.lagged = FALSE
  /\ \A x : Feeds(s, x, n)
  /\ since = None => s.next = n - k /\ s.seen = None
  /\ since # None =>
       IF since + 1 >= low THEN s.next = since + 1 /\ s.seen = since
                           ELSE s.next = n /\ s.seen = None
  /\ s.seen # None => s.seen < n

\* A client that registers reads from where it left off, or from here on, up to
\* what is stamped.
LEMMA RegisterReads ==
  ASSUME StInv, NEW c \in Clients, NEW since \in OffsetOrNone, NEW n \in Nat, NEW q, Contig(q, n),
         NEW buffered \in Seq(Nat), Len(buffered) <= n,
         \A i \in 1..Len(buffered) : buffered[i] = (n - Len(buffered)) + (i - 1),
         since # None => since < n,
         Register(c, since, buffered, q, n)
  PROVE  \E s : client' = [client EXCEPT ![c] = s] /\ Registered(s, since, n, Floor(q, n), Len(buffered))
<1> DEFINE floor == Floor(q, n)
           gap == since # None /\ ~Retained(since, floor)
           pre == IF since = None THEN buffered ELSE IF gap THEN << >> ELSE ReplayAfter(q, since)
           nxt == IF since = None THEN n - Len(buffered) ELSE IF gap THEN n ELSE since + 1
           sn == IF gap \/ since = None THEN None ELSE since
<1>1. PICK s : s = [Closed EXCEPT !.pc = "open", !.since = since, !.at = client[c].at,
                                  !.seen = sn, !.prefix = pre, !.next = nxt]
  OBVIOUS
<1>2. client' = [client EXCEPT ![c] = s]
  BY <1>1 DEF Register
<1>3. /\ s.pc = "open" /\ s.lagged = FALSE /\ s.prefix = pre /\ s.inbox = << >>
      /\ s.next = nxt /\ s.seen = sn
  BY <1>1 DEF Closed
<1>4. floor \in Nat /\ Len(buffered) \in Nat /\ (since # None => since \in Nat)
  <2>1. Floor(q, n) = n - Len(q) /\ Len(q) \in Nat /\ Len(q) <= n
    BY FloorIs
  <2> QED
    BY <2>1 DEF OffsetOrNone
<1>5. since # None => (gap <=> ~(since + 1 >= floor))
  BY <1>4 DEF Retained
<1>6. /\ nxt \in Nat /\ nxt + Len(pre) = n
      /\ \A i \in 1..Len(pre) : pre[i] = nxt + (i - 1)
  <2>1. CASE since = None
    <3>1. pre = buffered /\ nxt = n - Len(buffered)
      BY <2>1
    <3> HIDE DEF pre, nxt
    <3> QED
      BY <1>4, <3>1
  <2>2. CASE since # None /\ gap
    <3>1. pre = << >> /\ nxt = n
      BY <2>2
    <3>2. Len(<< >>) = 0
      OBVIOUS
    <3> HIDE DEF pre, nxt
    <3> QED
      BY <3>1, <3>2
  <2>3. CASE since # None /\ ~gap
    <3>1. pre = ReplayAfter(q, since) /\ nxt = since + 1
      BY <2>3
    <3>2. /\ Len(ReplayAfter(q, since)) = n - (since + 1)
          /\ \A i \in 1..Len(ReplayAfter(q, since)) :
               ReplayAfter(q, since)[i] = (since + 1) + (i - 1)
      BY <1>4, <2>3, ReplayIs
    <3> HIDE DEF pre, nxt, gap, floor
    <3> QED
      BY <1>4, <2>3, <3>1, <3>2
  <2> QED
    BY <2>1, <2>2, <2>3
<1> HIDE DEF pre
<1>7. ASSUME NEW x PROVE Feeds(s, x, n)
  <2>1. PICK k \in {0, 1} : k = IF x = None THEN 0 ELSE 1
    OBVIOUS
  <2>2. Base(s, x, n) = n - k
    BY <1>3, <2>1 DEF Base
  <2>3. Len(s.inbox) = 0 /\ \A i \in 1..Len(s.inbox) : FALSE
    BY <1>3
  <2> HIDE DEF nxt
  <2>4. /\ nxt + Len(pre) <= n
        /\ n - k >= (nxt + Len(pre)) - 1 /\ n - k <= nxt + Len(pre)
    BY <1>6, <2>1
  <2> QED
    BY <1>3, <1>6, <2>2, <2>3, <2>4 DEF Feeds
<1>8. since = None => s.next = n - Len(buffered) /\ s.seen = None
  BY <1>3
<1>9. since # None => IF since + 1 >= floor THEN s.next = since + 1 /\ s.seen = since
                                            ELSE s.next = n /\ s.seen = None
  <2> HIDE DEF floor
  <2>1. CASE since # None /\ gap
    BY <1>3, <1>5, <2>1
  <2>2. CASE since # None /\ ~gap
    BY <1>3, <1>5, <2>2
  <2> QED
    BY <2>1, <2>2
<1>10. s.seen # None => s.seen < n
  BY <1>3
<1> QED
  BY Zenon, <1>2, <1>3, <1>7, <1>8, <1>9, <1>10 DEF Registered

\* A client that registers with a running pump.
LEMMA JoinReads ==
  ASSUME StInv, StReads, NEW c \in Clients, client[c].pc \in {"built", "join"}, pump.inc # 0,
         UNCHANGED <<ring, counter, pump>>,
         Register(c, client[c].since, << >>, ring, counter)
  PROVE  StReads' /\ Contract!Next
<1>1. PICK q, n, since, t : q = ring /\ n = counter /\ since = client[c].since /\ t = client[c]
  OBVIOUS
<1>2. /\ n \in Nat /\ Contig(q, n) /\ t \in ClientStates /\ since \in OffsetOrNone
      /\ Remembers(t, pump.inc, n) /\ t.seen \in OffsetOrNone
  BY <1>1 DEF StInv, StReads, ClientStates
<1>3. t.lagged = FALSE /\ since \in {None, t.seen} /\ (t.seen # None => t.seen < n) /\ t.pc # "open"
  BY <1>1, <1>2 DEF Remembers, ClientStates
<1>4. PICK s : /\ client' = [client EXCEPT ![c] = s] /\ s.pc = "open" /\ s.lagged = FALSE
               /\ \A x : Feeds(s, x, n)
               /\ since = None => s.next = n /\ s.seen = None
               /\ since # None =>
                    IF since + 1 >= Floor(q, n) THEN s.next = since + 1 /\ s.seen = since
                                                ELSE s.next = n /\ s.seen = None
               /\ s.seen # None => s.seen < n
  <2>a. << >> \in Seq(Nat)
    OBVIOUS
  <2>1. PICK buffered \in Seq(Nat) : buffered = << >>
    BY Zenon, <2>a
  <2>2. Len(buffered) = 0 /\ \A i \in 1..Len(buffered) : FALSE
    BY <2>1
  <2>3. Register(c, since, buffered, q, n)
    BY <1>1, <2>1
  <2>4. Len(buffered) <= n /\ n - Len(buffered) = n
    BY <1>2, <2>2
  <2>5. since # None => since < n
    BY <1>3
  <2>6. \A i \in 1..Len(buffered) : buffered[i] = (n - Len(buffered)) + (i - 1)
    BY <2>2
  <2>7. PICK s : /\ client' = [client EXCEPT ![c] = s]
                 /\ Registered(s, since, n, Floor(q, n), Len(buffered))
    BY <1>2, <2>3, <2>4, <2>5, <2>6, RegisterReads
  <2> QED
    BY Zenon, <2>4, <2>7 DEF Registered
<1>5. StReads'
  <2>1. Remembers(s, pump.inc, counter)
    BY <1>1, <1>4 DEF Remembers
  <2>2. Feeds(s, pump.sending, counter)
    BY <1>1, <1>4
  <2> QED
    BY <1>4, <2>1, <2>2, ClientReads
<1>6. /\ {d \in Clients : client[d].pc = "open"}' =
           {d \in Clients : client[d].pc = "open"} \union {c}
      /\ {d \in Clients : client[d].lagged}' = {d \in Clients : client[d].lagged}
      /\ [d \in Clients |-> client[d].next]' =
           [[d \in Clients |-> client[d].next] EXCEPT ![c] = s.next]
      /\ [d \in Clients |-> client[d].seen]' =
           [[d \in Clients |-> client[d].seen] EXCEPT ![c] = s.seen]
      /\ Floor(ring, counter)' = Floor(ring, counter)
  <2>1. {d \in Clients : client[d].lagged} \ {c} = {d \in Clients : client[d].lagged}
    BY <1>1, <1>3
  <2> QED
    BY <1>4, <2>1, OneStreamMoves
<1>7. c \notin {d \in Clients : client[d].pc = "open"} /\ [d \in Clients |-> client[d].seen][c] = t.seen
  BY <1>1, <1>3
<1>8. CASE since = None
  <2>1. Contract!Joins(c, counter, None)
    BY <1>1, <1>4, <1>6, <1>8 DEF Contract!Joins
  <2>2. counter' >= counter /\ Floor(ring, counter)' \in Floor(ring, counter)..counter'
    <3>1. Floor(q, n) = n - Len(q) /\ Len(q) \in Nat /\ Len(q) <= n
      BY <1>2, FloorIs
    <3>2. Floor(q, n) \in Floor(q, n)..n /\ n >= n
      BY <1>2, <3>1
    <3> QED
      BY <1>1, <1>6, <3>2
  <2>3. Contract!Subscribe(c)
    BY <1>7, <2>1, <2>2 DEF Contract!Subscribe, Contract!LetGo
  <2> QED
    BY <1>5, <2>3 DEF Contract!Next
<1>9. CASE since # None
  <2>1. since = t.seen
    BY <1>3, <1>9
  <2>2. IF since + 1 >= Floor(ring, counter) THEN Contract!Joins(c, since + 1, since)
                                             ELSE Contract!Joins(c, counter, None)
    BY <1>1, <1>4, <1>6, <1>9 DEF Contract!Joins
  <2>3. PICK l : l = [d \in Clients |-> client[d].seen]
    OBVIOUS
  <2>4. l[c] = since
    BY Zenon, <1>7, <2>1, <2>3
  <2>5. ASSUME since + 1 >= Floor(ring, counter) PROVE Contract!Resume(c)
    <3>1. /\ [d \in Clients |-> client[d].seen][c] = since
          /\ [d \in Clients |-> client[d].seen][c] # None
          /\ [d \in Clients |-> client[d].seen][c] + 1 >= Floor(ring, counter)
      BY Zenon, <1>7, <1>9, <2>1, <2>5
    <3>2. [d \in Clients |-> client[d].next]' =
            [[d \in Clients |-> client[d].next]
               EXCEPT ![c] = [d \in Clients |-> client[d].seen][c] + 1]
      BY Zenon, <1>1, <1>4, <1>6, <1>9, <2>5, <3>1
    <3>3. [d \in Clients |-> client[d].seen]' =
            [[d \in Clients |-> client[d].seen]
               EXCEPT ![c] = [d \in Clients |-> client[d].seen][c]]
      BY Zenon, <1>1, <1>4, <1>6, <1>9, <2>5, <3>1
    <3>4. UNCHANGED <<counter, Floor(ring, counter)>>
      BY <1>6
    <3> QED
      BY Zenon, <1>6, <1>7, <3>1, <3>2, <3>3, <3>4 DEF Contract!Resume, Contract!Joins
  <2>6. ASSUME ~(since + 1 >= Floor(ring, counter)) PROVE Contract!Resume(c)
    <3>1. ~(l[c] + 1 >= Floor(ring, counter)) /\ Contract!Joins(c, counter, None)
      BY <2>2, <2>4, <2>6
    <3>2. l[c] # None /\ UNCHANGED <<counter, Floor(ring, counter)>>
      BY <1>6, <1>9, <2>4
    <3> QED
      BY Zenon, <1>7, <2>3, <3>1, <3>2 DEF Contract!Resume
  <2> QED
    BY <1>5, <2>5, <2>6 DEF Contract!Next
<1> QED
  BY <1>8, <1>9

\* The first client to register brings the source, and reads it from the start.
LEMMA InstallReads ==
  ASSUME StInv, StReads, NEW c \in Clients, Install(c), pump.inc = 0
  PROVE  StReads' /\ Contract!Next
<1>1. PICK t \in ClientStates : t = client[c]
  BY DEF StInv
<1>k. PICK k \in Nat : k = counter
  BY DEF StInv
<1>2. PICK r : k = counter /\ r = ring
  BY <1>k
<1>3. /\ Contig(r, k) /\ Remembers(t, pump.inc, k) /\ t.pc = "built"
      /\ t.snap \in Seq(Weights) /\ t.from \in Nat /\ t.from >= 1
  BY <1>1, <1>2 DEF StInv, StReads, Install, ClientStates
<1>4. PICK ws \in Seq(Weights) : ws = t.snap
  BY <1>3
<1>5. PICK q, n : q = PublishAll(ws).q /\ n = PublishAll(ws).n
  OBVIOUS
<1>6. n = k + Len(ws) /\ Len(ws) \in Nat /\ n \in Nat /\ Contig(q, n) /\ Len(q) <= Len(r) + Len(ws)
  <2>1. /\ PublishAll(ws).n = counter + Len(ws) /\ Contig(PublishAll(ws).q, PublishAll(ws).n)
        /\ Len(PublishAll(ws).q) <= Len(ring) + Len(ws)
    BY PublishAllIs
  <2> QED
    BY <1>2, <1>5, <2>1
<1>7. t.since = None /\ t.lagged = FALSE /\ t.seen = None
  BY <1>3 DEF Remembers, ClientStates
<1> DEFINE buffered == [i \in 1..Len(ws) |-> k + i - 1]
<1>8. /\ ring' = q /\ counter' = n
      /\ pump' = [inc |-> t.from, queue |-> t.queue, sending |-> None]
      /\ Register(c, None, buffered, q, n)
  BY <1>1, <1>2, <1>4, <1>5, <1>7 DEF Install
<1>9. /\ buffered \in Seq(Nat) /\ Len(buffered) = Len(ws) /\ Len(buffered) <= n
      /\ n - Len(buffered) = k
      /\ \A i \in 1..Len(buffered) : buffered[i] = (n - Len(buffered)) + (i - 1)
  <2>1. \A i \in 1..Len(ws) : k + i - 1 \in Nat /\ k + i - 1 = k + (i - 1)
    BY <1>6
  <2>2. buffered \in Seq(Nat) /\ Len(buffered) = Len(ws)
    BY <1>6, <2>1
  <2>3. n - Len(buffered) = k /\ Len(buffered) <= n
    BY <1>6, <2>2
  <2>4. \A i \in 1..Len(buffered) : buffered[i] = k + (i - 1)
    BY <2>1, <2>2
  <2> QED
    BY <2>2, <2>3, <2>4
<1> HIDE DEF buffered
<1>10. PICK s : /\ client' = [client EXCEPT ![c] = s] /\ s.pc = "open" /\ s.lagged = FALSE
                /\ \A x : Feeds(s, x, n)
                /\ s.next = k /\ s.seen = None
  <2>1. None \in OffsetOrNone
    BY StreamConstants
  <2>2. PICK since \in OffsetOrNone : since = None
    BY <2>1
  <2>3. Register(c, since, buffered, q, n) /\ (since # None => since < n)
    BY <1>8, <2>2
  <2>4. PICK s : /\ client' = [client EXCEPT ![c] = s]
                 /\ Registered(s, since, n, Floor(q, n), Len(buffered))
    BY <1>6, <1>9, <2>3, RegisterReads
  <2> QED
    BY Zenon, <1>9, <2>2, <2>4 DEF Registered
<1>11. StReads'
  <2>1. client'[c] = s /\ \A d \in Clients \ {c} : client'[d] = client[d]
    BY <1>10 DEF StInv
  <2>2. ASSUME NEW d \in Clients, d # c
        PROVE  Feeds(client[d], None, n) /\ Remembers(client[d], t.from, n)
    <3>1. client[d].pc # "open"
      BY DEF StInv
    <3>2. Remembers(client[d], pump.inc, counter)
      BY DEF StReads
    <3> QED
      BY <3>1, <3>2 DEF Feeds, Remembers
  <2>3. Feeds(s, None, n) /\ Remembers(s, t.from, n)
    BY <1>10 DEF Remembers
  <2>4. \A d \in Clients : Feeds(client'[d], None, n) /\ Remembers(client'[d], t.from, n)
    BY <2>1, <2>2, <2>3
  <2>5. pump'.inc = t.from /\ pump'.sending = None
    BY <1>8
  <2>6. \A d \in Clients : /\ Feeds(client[d], pump.sending, counter)'
                           /\ Remembers(client[d], pump.inc, counter)'
    BY <1>8, <2>4, <2>5 DEF Feeds, Base, Remembers
  <2> QED
    BY <2>5, <2>6 DEF StReads
<1>12. /\ {d \in Clients : client[d].pc = "open"}' =
            {d \in Clients : client[d].pc = "open"} \union {c}
       /\ {d \in Clients : client[d].lagged}' = {d \in Clients : client[d].lagged}
       /\ [d \in Clients |-> client[d].next]' =
            [[d \in Clients |-> client[d].next] EXCEPT ![c] = s.next]
       /\ [d \in Clients |-> client[d].seen]' =
            [[d \in Clients |-> client[d].seen] EXCEPT ![c] = s.seen]
  <2>1. {d \in Clients : client[d].lagged} \ {c} = {d \in Clients : client[d].lagged}
    BY <1>1, <1>7
  <2> QED
    BY <1>10, <2>1, OneStreamMoves
<1>13. counter' >= counter /\ Floor(ring, counter)' \in Floor(ring, counter)..counter'
  <2>1. Floor(ring, counter)' = Floor(q, n)
    BY <1>8 DEF Floor
  <2>2. n >= k /\ k <= n /\ Len(q) <= Len(r) + (n - k)
    BY <1>6
  <2>3. Floor(q, n) \in Floor(r, k)..n
    BY <1>3, <1>6, <2>2, FloorRises
  <2> QED
    BY <1>2, <1>8, <2>1, <2>2, <2>3
<1>14. c \notin {d \in Clients : client[d].pc = "open"}
  BY <1>1, <1>3
<1>15. Contract!Joins(c, counter, None)
  BY <1>2, <1>10, <1>12 DEF Contract!Joins
<1>16. Contract!Subscribe(c)
  BY <1>13, <1>14, <1>15 DEF Contract!Subscribe, Contract!LetGo
<1> QED
  BY <1>11, <1>16 DEF Contract!Next

\* An event stamped is under way to everybody.
LEMMA StampReads ==
  ASSUME StInv, StReads, PumpPublish
  PROVE  StReads' /\ Contract!Next
<1>0. /\ counter \in Nat /\ Contig(ring, counter) /\ client' = client
      /\ pump \in [inc : Nat, queue : Seq(Weights), sending : OffsetOrNone]
      /\ pump.sending = None /\ pump.queue # << >> /\ counter' = counter + 1
      /\ ring' = Publish(ring, counter, Head(pump.queue))
  BY DEF StInv, PumpPublish
<1>1. pump'.inc = pump.inc /\ pump'.sending = counter
  <2>1. pump' = [pump EXCEPT !.queue = Tail(pump.queue), !.sending = counter]
    BY DEF PumpPublish
  <2> QED
    BY <1>0, <2>1
<1>2. PICK n \in Nat : n = counter
  BY <1>0
<1>3. n # None /\ None = None
  BY StreamConstants
<1>4. ASSUME NEW d \in Clients
      PROVE  Feeds(client[d], n, n + 1) /\ Remembers(client[d], pump.inc, n + 1)
  <2>1. PICK t \in ClientStates : t = client[d]
    BY DEF StInv
  <2>2. Feeds(t, None, n) /\ Remembers(t, pump.inc, n)
    BY <1>0, <1>2, <2>1 DEF StReads
  <2>3. Base(t, n, n + 1) = Base(t, None, n)
    <3>1. (n + 1) - 1 = n - 0
      OBVIOUS
    <3> QED
      BY <1>3, <3>1 DEF Base
  <2>4. t.next \in Nat /\ Len(t.prefix) \in Nat /\ t.seen \in OffsetOrNone
    BY DEF ClientStates
  <2>5. Feeds(t, n, n + 1)
    <3>1. t.next + Len(t.prefix) <= n => t.next + Len(t.prefix) <= n + 1
      BY <2>4
    <3> QED
      BY <2>2, <2>3, <3>1 DEF Feeds
  <2>6. Remembers(t, pump.inc, n + 1)
    <3>1. t.seen # None => t.seen \in Nat
      BY <2>4 DEF OffsetOrNone
    <3> QED
      BY <2>2, <3>1 DEF Remembers
  <2> QED
    BY <2>1, <2>5, <2>6
<1>5. StReads'
  <2>1. \A d \in Clients : /\ Feeds(client[d], pump.sending, counter)'
                           /\ Remembers(client[d], pump.inc, counter)'
    BY <1>0, <1>1, <1>2, <1>4 DEF Feeds, Base, Remembers
  <2>2. pump'.sending = counter' - 1
    BY <1>0, <1>1
  <2> QED
    BY <2>1, <2>2 DEF StReads
<1>6. Floor(ring, counter)' \in Floor(ring, counter)..counter'
  <2>1. PICK q, r : q = ring /\ r = ring'
    OBVIOUS
  <2>2. PICK w \in Weights : w = Head(pump.queue)
    BY <1>0
  <2>3. Contig(q, n) /\ r = Publish(q, n, w)
    BY <1>0, <1>2, <2>1, <2>2
  <2>4. Contig(r, n + 1) /\ Len(r) <= Len(q) + 1 /\ (n + 1) - n = 1
    BY <2>3, PublishIs
  <2>5. Floor(r, n + 1) \in Floor(q, n)..(n + 1)
    <3>1. n <= n + 1 /\ n + 1 \in Nat /\ Len(r) <= Len(q) + ((n + 1) - n)
      BY <2>4
    <3> QED
      BY <2>3, <2>4, <3>1, FloorRises
  <2>6. Floor(ring, counter)' = Floor(r, n + 1)
    BY <1>0, <1>2, <2>1 DEF Floor
  <2> QED
    BY <1>0, <1>2, <2>1, <2>5, <2>6
<1>7. Contract!Stamp
  BY <1>0, <1>6 DEF Contract!Stamp, Contract!LetGo
<1> QED
  BY <1>5, <1>7 DEF Contract!Next

\* What a full channel delivers shifts it by one, and no other one is shifted.
LEMMA DeliverReads ==
  ASSUME NEW t \in ClientStates, NEW n \in Nat, NEW x \in Nat, x = n - 1, Feeds(t, x, n),
         NEW s, s = Deliver(t, x)
  PROVE  /\ Feeds(s, None, n)
         /\ s.pc = t.pc /\ s.next = t.next /\ s.seen = t.seen /\ s.since = t.since
         /\ s.lagged <=> t.lagged \/ (t.pc = "open" /\ Len(t.inbox) >= LiveCap)
         /\ t.pc = "open" /\ Len(t.inbox) >= LiveCap => n - t.next >= LiveCap
<1>0. LiveCap \in Nat \ {0} /\ x # None /\ t.lagged \in BOOLEAN
  BY StreamsAssumption, StreamConstants DEF ClientStates
<1>1. PICK b, m, p, f : b = t.inbox /\ m = Len(b) /\ p = Len(t.prefix) /\ f = t.next
  OBVIOUS
<1>2. b \in Seq(Nat) /\ m \in Nat /\ p \in Nat /\ f \in Nat
  BY <1>1 DEF ClientStates
<1>3. Base(t, x, n) = (n - 1) - m
  BY <1>0, <1>1 DEF Base
<1>4. t.pc = "open" => /\ f + p <= n /\ (n - 1) - m >= (f + p) - 1
                       /\ (~t.lagged => (n - 1) - m <= f + p)
                       /\ \A i \in 1..p : t.prefix[i] = f + (i - 1)
                       /\ \A i \in 1..m : b[i] = ((n - 1) - m) + (i - 1)
  BY <1>1, <1>3 DEF Feeds
<1>5. CASE t.pc # "open"
  BY <1>5 DEF Deliver, Feeds
<1>6. CASE t.pc = "open" /\ m < LiveCap
  <2>1. s = [t EXCEPT !.inbox = Append(b, x)]
    BY <1>1, <1>6 DEF Deliver
  <2>2. /\ s.pc = t.pc /\ s.next = t.next /\ s.seen = t.seen /\ s.since = t.since
        /\ s.lagged = t.lagged /\ s.prefix = t.prefix /\ s.inbox = Append(b, x)
    BY <2>1 DEF ClientStates
  <2>3. /\ Len(Append(b, x)) = m + 1 /\ Append(b, x)[m + 1] = x
        /\ \A i \in 1..m : Append(b, x)[i] = b[i]
    BY <1>1, <1>2
  <2>4. Base(s, None, n) = (n - 1) - m
    <3>1. Base(s, None, n) = (n - 0) - (m + 1)
      BY <2>2, <2>3 DEF Base
    <3>2. (n - 0) - (m + 1) = (n - 1) - m
      BY <1>2
    <3> QED
      BY <3>1, <3>2
  <2>5. ASSUME NEW i \in 1..(m + 1) PROVE Append(b, x)[i] = ((n - 1) - m) + (i - 1)
    <3>1. CASE i \in 1..m
      BY <1>4, <1>6, <2>3, <3>1
    <3>2. CASE i = m + 1
      <4>1. n - 1 = ((n - 1) - m) + ((m + 1) - 1)
        BY <1>2
      <4> QED
        BY <2>3, <3>2, <4>1
    <3>3. i \in 1..m \/ i = m + 1
      BY <1>2
    <3> QED
      BY <3>1, <3>2, <3>3
  <2>6. Feeds(s, None, n)
    <3>1. /\ s.next + Len(s.prefix) <= n /\ (n - 1) - m >= (s.next + Len(s.prefix)) - 1
          /\ \A i \in 1..Len(s.prefix) : s.prefix[i] = s.next + (i - 1)
          /\ (~s.lagged => (n - 1) - m <= s.next + Len(s.prefix))
      BY <1>1, <1>4, <1>6, <2>2
    <3>2. \A i \in 1..Len(s.inbox) : s.inbox[i] = ((n - 1) - m) + (i - 1)
      BY <2>2, <2>3, <2>5
    <3> QED
      BY <1>1, <1>6, <2>2, <2>4, <3>1, <3>2 DEF Feeds
  <2>7. ~(m >= LiveCap)
    BY <1>0, <1>2, <1>6
  <2> QED
    BY <1>1, <2>2, <2>6, <2>7
<1>7. CASE t.pc = "open" /\ ~(m < LiveCap)
  <2>1. s = [t EXCEPT !.inbox = Append(Tail(b), x), !.lagged = TRUE]
    BY <1>1, <1>7 DEF Deliver
  <2>2. /\ s.pc = t.pc /\ s.next = t.next /\ s.seen = t.seen /\ s.since = t.since
        /\ s.lagged = TRUE /\ s.prefix = t.prefix /\ s.inbox = Append(Tail(b), x)
    BY <2>1 DEF ClientStates
  <2>3. m >= 1 /\ m >= LiveCap
    BY <1>0, <1>2, <1>7
  <2>4. PICK e, k : e = Tail(b) /\ k = m - 1
    OBVIOUS
  <2>5. /\ e \in Seq(Nat) /\ k \in Nat /\ Len(e) = k
        /\ \A i \in 1..k : e[i] = b[i + 1]
    <3>1. b # << >>
      BY <1>1, <1>2, <2>3
    <3>2. e \in Seq(Nat) /\ Len(e) = Len(b) - 1 /\ \A i \in 1..Len(e) : e[i] = b[i + 1]
      BY <1>2, <2>4, <3>1
    <3>3. m - 1 \in Nat
      BY <1>2, <2>3
    <3> QED
      BY <1>1, <2>4, <3>2, <3>3
  <2>6. /\ Len(Append(e, x)) = m /\ Append(e, x)[m] = x
        /\ \A i \in 1..k : Append(e, x)[i] = e[i]
    <3>1. /\ Len(Append(e, x)) = k + 1 /\ Append(e, x)[k + 1] = x
          /\ \A i \in 1..k : Append(e, x)[i] = e[i]
      BY <2>5
    <3>2. k + 1 = m
      BY <1>2, <2>4
    <3> QED
      BY <3>1, <3>2
  <2>7. Base(s, None, n) = n - m
    <3>1. Base(s, None, n) = (n - 0) - m
      BY <2>2, <2>4, <2>6 DEF Base
    <3> QED
      BY <1>2, <3>1
  <2>8. ASSUME NEW i \in 1..m PROVE Append(e, x)[i] = (n - m) + (i - 1)
    <3>1. CASE i \in 1..k
      <4>1. i + 1 \in 1..m /\ ((n - 1) - m) + ((i + 1) - 1) = (n - m) + (i - 1)
        BY <1>2, <2>4, <3>1
      <4>2. b[i + 1] = ((n - 1) - m) + ((i + 1) - 1)
        BY <1>4, <1>7, <4>1
      <4> QED
        BY <2>5, <2>6, <3>1, <4>1, <4>2
    <3>2. CASE i = m
      <4>1. n - 1 = (n - m) + (m - 1)
        BY <1>2
      <4> QED
        BY <2>6, <3>2, <4>1
    <3>3. i \in 1..k \/ i = m
      BY <1>2, <2>4
    <3> QED
      BY <3>1, <3>2, <3>3
  <2>9. Feeds(s, None, n)
    <3>1. f + p <= n /\ n - m >= (f + p) - 1
      BY <1>2, <1>4, <1>7
    <3>2. /\ s.next + Len(s.prefix) <= n /\ n - m >= (s.next + Len(s.prefix)) - 1
          /\ \A i \in 1..Len(s.prefix) : s.prefix[i] = s.next + (i - 1)
      BY <1>1, <1>4, <1>7, <2>2, <3>1
    <3>3. \A i \in 1..Len(s.inbox) : s.inbox[i] = (n - m) + (i - 1)
      <4>1. s.inbox = Append(e, x) /\ Len(s.inbox) = m
        BY <2>2, <2>4, <2>6
      <4> QED
        BY <2>8, <4>1
    <3> QED
      BY <1>7, <2>2, <2>7, <3>2, <3>3 DEF Feeds
  <2>10. n - f >= LiveCap
    BY <1>0, <1>2, <1>4, <1>7, <2>3
  <2> QED
    BY <1>1, <1>7, <2>2, <2>3, <2>9, <2>10
<1> QED
  BY <1>5, <1>6, <1>7

\* An event sent reaches every channel, and only one that holds LiveCap of them
\* already loses its oldest.
LEMMA SendReads ==
  ASSUME StInv, StReads, PumpSend
  PROVE  StReads' /\ Contract!Next
<1>0. /\ counter \in Nat /\ UNCHANGED <<ring, counter>> /\ pump.sending # None
      /\ pump \in [inc : Nat, queue : Seq(Weights), sending : OffsetOrNone]
      /\ client' = [d \in Clients |-> Deliver(client[d], pump.sending)]
  BY DEF StInv, PumpSend, buffer
<1>1. pump'.inc = pump.inc /\ pump'.sending = None
  <2>1. pump' = [pump EXCEPT !.sending = None]
    BY DEF PumpSend
  <2> QED
    BY <1>0, <2>1
<1>2. PICK n \in Nat, x \in Nat : n = counter /\ x = pump.sending
  BY <1>0 DEF OffsetOrNone
<1>3. x = n - 1
  BY <1>0, <1>2 DEF StReads
<1> DEFINE Full == {d \in Clients : client[d].pc = "open" /\ Len(client[d].inbox) >= LiveCap}
<1>4. ASSUME NEW d \in Clients
      PROVE  /\ Feeds(client'[d], None, n) /\ Remembers(client'[d], pump.inc, n)
             /\ client'[d].pc = client[d].pc /\ client'[d].next = client[d].next
             /\ client'[d].seen = client[d].seen
             /\ client'[d].lagged <=> client[d].lagged \/ d \in Full
             /\ d \in Full => n - client[d].next >= LiveCap
  <2>1. PICK t \in ClientStates : t = client[d]
    BY DEF StInv
  <2>2. PICK s : s = Deliver(t, x)
    OBVIOUS
  <2>3. client'[d] = s
    BY <1>0, <1>2, <2>1, <2>2
  <2>4. Feeds(t, x, n) /\ Remembers(t, pump.inc, n)
    BY <1>2, <2>1 DEF StReads
  <2>5. /\ Feeds(s, None, n)
        /\ s.pc = t.pc /\ s.next = t.next /\ s.seen = t.seen /\ s.since = t.since
        /\ s.lagged <=> t.lagged \/ (t.pc = "open" /\ Len(t.inbox) >= LiveCap)
        /\ t.pc = "open" /\ Len(t.inbox) >= LiveCap => n - t.next >= LiveCap
    BY <1>3, <2>2, <2>4, DeliverReads
  <2>6. Remembers(s, pump.inc, n)
    BY <2>4, <2>5 DEF Remembers
  <2>7. d \in Full <=> t.pc = "open" /\ Len(t.inbox) >= LiveCap
    BY <2>1
  <2> HIDE DEF Full
  <2> QED
    BY <2>1, <2>3, <2>5, <2>6, <2>7
<1>5. StReads'
  <2>1. \A d \in Clients : /\ Feeds(client[d], pump.sending, counter)'
                           /\ Remembers(client[d], pump.inc, counter)'
    <3> SUFFICES ASSUME NEW d \in Clients
                 PROVE  Feeds(client[d], pump.sending, counter)'
                        /\ Remembers(client[d], pump.inc, counter)'
      OBVIOUS
    <3>1. Feeds(client'[d], None, n) /\ Remembers(client'[d], pump.inc, n)
      BY <1>4
    <3>2. pump'.sending = None /\ pump'.inc = pump.inc /\ counter' = n
      BY <1>0, <1>1, <1>2
    <3> QED
      BY <3>1, <3>2 DEF Feeds, Base, Remembers
  <2> QED
    BY <1>1, <2>1 DEF StReads
<1>6. PICK C : C = Full
  OBVIOUS
<1>7. C \in SUBSET {d \in Clients : client[d].pc = "open"}
  BY <1>6
<1> HIDE DEF Full
<1>8. {d \in Clients : client[d].pc = "open"}' = {d \in Clients : client[d].pc = "open"}
  BY <1>4
<1>9. {d \in Clients : client[d].lagged}' = {d \in Clients : client[d].lagged} \union C
  BY <1>4, <1>6, <1>7
<1>10. [d \in Clients |-> client[d].next]' = [d \in Clients |-> client[d].next]
  BY <1>4
<1>11. [d \in Clients |-> client[d].seen]' = [d \in Clients |-> client[d].seen]
  BY <1>4
<1>12. Floor(ring, counter)' = Floor(ring, counter)
  BY <1>0 DEF Floor
<1>13. \A d \in C : counter - [e \in Clients |-> client[e].next][d] >= LiveCap
  BY <1>2, <1>4, <1>6, <1>7
<1>14. Contract!FallBehind(C)
  BY <1>0, <1>8, <1>9, <1>10, <1>11, <1>12, <1>13 DEF Contract!FallBehind
<1>15. \E D \in SUBSET {d \in Clients : client[d].pc = "open"} : Contract!FallBehind(D)
  BY Zenon, <1>7, <1>14
<1> QED
  BY Zenon, <1>5, <1>15 DEF Contract!Next

\* A step of the buffer, its pump or a client is a step of the contract or is
\* not seen by it.
LEMMA StreamStepKeepsContract ==
  ASSUME StInv, StReads, StreamsNext
  PROVE  StReads' /\ (Contract!Next \/ UNCHANGED Contract!streamVars)
<1>1. CASE SourceStarts \/ SourceEnds \/ \E w \in Weights : Emit(w)
  BY <1>1, SourceReads
<1>2. CASE PumpPublish \/ PumpSend
  BY <1>2, StampReads, SendReads
<1>3. ASSUME NEW c \in Clients, BeginAttach(c) \/ BuildSource(c) \/ Receive(c) \/ Drop(c)
                                \/ AckOffset(c) \/ Deregister(c)
      PROVE  StReads' /\ (Contract!Next \/ UNCHANGED Contract!streamVars)
  BY <1>3, AskReads, ReceiveReads, DropReads, AckReads
<1>4. ASSUME NEW c \in Clients, Install(c) \/ Join(c)
      PROVE  StReads' /\ Contract!Next
  <2>1. CASE Install(c) /\ pump.inc = 0
    BY <2>1, InstallReads
  <2>2. CASE Install(c) /\ pump.inc # 0
    <3>1. /\ client[c].pc \in {"built", "join"} /\ UNCHANGED <<ring, counter, pump>>
          /\ Register(c, client[c].since, << >>, ring, counter)
      BY <2>2 DEF Install
    <3> QED
      BY <2>2, <3>1, JoinReads
  <2>3. CASE Join(c)
    <3>1. /\ client[c].pc \in {"built", "join"} /\ UNCHANGED <<ring, counter, pump>>
          /\ Register(c, client[c].since, << >>, ring, counter)
      BY <2>3 DEF Join
    <3>2. pump.inc # 0
      BY <2>3 DEF Join, StInv
    <3> QED
      BY <3>1, <3>2, JoinReads
  <2> QED
    BY <1>4, <2>1, <2>2, <2>3
<1> QED
  BY Zenon, <1>1, <1>2, <1>3, <1>4 DEF StreamsNext

\* Buffers, pumps and channels implement StreamContract: a subscriber reads the
\* subject's events in order, from where it joined or left off, and skips some
\* only when it was told that the ring no longer holds them or fell LiveCap
\* behind, for rings of any size and bound and any number of clients.
THEOREM StreamsKeepContractHolds == StreamsSpec => StreamsKeepContract
<1>1. StreamsInit => Contract!Init /\ StReads
  <2> SUFFICES ASSUME StreamsInit PROVE Contract!Init /\ StReads
    OBVIOUS
  <2>1. \A c \in Clients : /\ client[c].pc = "closed" /\ client[c].lagged = FALSE
                           /\ client[c].next = 0 /\ client[c].seen = None
    BY DEF StreamsInit, Closed
  <2>2. counter = 0 /\ Floor(ring, counter) = 0
    BY DEF StreamsInit, Floor
  <2>3. Contract!Init
    BY <2>1, <2>2 DEF Contract!Init
  <2>4. StReads
    BY <2>1 DEF StReads, Feeds, Remembers, StreamsInit
  <2> QED
    BY <2>3, <2>4
<1>2. StInv /\ StReads /\ [StreamsNext]_stVars
        => StReads' /\ [Contract!Next]_(Contract!streamVars)
  <2> SUFFICES ASSUME StInv, StReads, [StreamsNext]_stVars
               PROVE  StReads' /\ (Contract!Next \/ UNCHANGED Contract!streamVars)
    OBVIOUS
  <2>1. CASE UNCHANGED stVars
    <3>1. UNCHANGED <<ring, counter, pump, client>>
      BY <2>1 DEF stVars
    <3> QED
      BY <3>1, QuietReads, UnseenStep DEF SameStream
  <2> QED
    BY <2>1, StreamStepKeepsContract
<1> QED
  BY <1>1, <1>2, StreamsInvariant, PTL DEF StreamsSpec, StreamsKeepContract, Contract!Spec

\* What a client holds of the events emitted: nothing, but between building
\* a source and installing it.
Held(s, n) ==
  /\ s.pc # "built" => s.queue = << >>
  /\ s.pc = "built" => s.from <= MaxIncarnations /\ Len(s.snap) + Len(s.queue) <= n

\* What is stamped, and what waits to be, was emitted by one incarnation: the
\* one whose pump was installed, as no other takes its place.
StBounds ==
  /\ source.inc <= MaxIncarnations /\ emitted \in 0..MaxEvents
  /\ Len(source.events) <= emitted
  /\ pump.inc <= MaxIncarnations
  /\ pump.inc = 0 => counter = 0 /\ pump.queue = << >>
  /\ counter + Len(pump.queue) <= emitted
  /\ \A c \in Clients : Held(client[c], emitted)
  /\ leaving \subseteq Clients

\* An event emitted is counted, and appended where it is awaited.
LEMMA EmitBounds ==
  ASSUME StInv, StBounds, NEW w \in Weights, Emit(w)
  PROVE  StBounds'
<1>1. /\ source.events \in Seq(Weights) /\ source.inc \in Nat
      /\ source \in [up : BOOLEAN, inc : Nat, events : Seq(Weights)]
      /\ pump \in [inc : Nat, queue : Seq(Weights), sending : OffsetOrNone]
      /\ pump.queue \in Seq(Weights) /\ counter \in Nat /\ emitted \in Nat
  BY StreamsAssumption DEF StInv, StBounds
<1>2. emitted' = emitted + 1 /\ emitted' \in 0..MaxEvents
  BY SMTT(30), <1>1, StreamsAssumption DEF Emit
<1>3. source'.inc = source.inc /\ Len(source'.events) <= emitted'
  <2>1. source' = [source EXCEPT !.events = Append(source.events, w)]
    BY DEF Emit
  <2>2. source'.inc = source.inc /\ source'.events = Append(source.events, w)
    BY <1>1, <2>1
  <2>3. Len(Append(source.events, w)) = Len(source.events) + 1 /\ Len(source.events) \in Nat
    BY <1>1
  <2> QED
    BY <1>1, <1>2, <2>2, <2>3 DEF StBounds
<1>4. /\ pump'.inc = pump.inc /\ counter' = counter
      /\ pump.inc = 0 => pump'.queue = pump.queue
      /\ counter' + Len(pump'.queue) <= emitted'
  <2>1. counter' = counter /\ source.inc >= 1
    BY DEF Emit, buffer, StInv
  <2>2. Len(Append(pump.queue, w)) = Len(pump.queue) + 1 /\ Len(pump.queue) \in Nat
    BY <1>1
  <2>3. CASE pump.inc = source.inc
    <3>1. pump' = [pump EXCEPT !.queue = Append(pump.queue, w)]
      BY <2>3 DEF Emit
    <3>2. pump'.inc = pump.inc /\ pump'.queue = Append(pump.queue, w)
      BY <1>1, <3>1
    <3> QED
      BY <1>1, <1>2, <2>1, <2>2, <2>3, <3>2 DEF StBounds
  <2>4. CASE pump.inc # source.inc
    <3>1. pump' = pump
      BY <2>4 DEF Emit
    <3> QED
      BY <1>1, <1>2, <2>1, <2>2, <3>1 DEF StBounds
  <2> QED
    BY <2>3, <2>4
<1>5. ASSUME NEW c \in Clients PROVE Held(client'[c], emitted')
  <2>1. PICK s \in ClientStates : s = client[c]
    BY DEF StInv
  <2>2. PICK n \in Nat : n = emitted
    BY <1>1
  <2>3. Held(s, n)
    BY <2>1, <2>2 DEF StBounds
  <2>4. /\ s.snap \in Seq(Weights) /\ s.queue \in Seq(Weights)
        /\ Append(s.queue, w) \in Seq(Weights)
        /\ Len(Append(s.queue, w)) = Len(s.queue) + 1
        /\ Len(s.snap) \in Nat /\ Len(s.queue) \in Nat
    BY DEF ClientStates
  <2>5. client'[c] = IF s.pc = "built" /\ s.from = source.inc
                       THEN [s EXCEPT !.queue = Append(s.queue, w)] ELSE s
    BY <2>1 DEF Emit
  <2>6. PICK t : t = client'[c]
    OBVIOUS
  <2>7. PICK a, b \in Nat : a = Len(s.snap) /\ b = Len(s.queue)
    BY <2>4
  <2>8. CASE t = s
    <3>1. s.pc = "built" => s.from <= MaxIncarnations /\ a + b <= n
      BY <2>3, <2>7 DEF Held
    <3>2. s.pc = "built" => s.from <= MaxIncarnations /\ a + b <= n + 1
      BY <3>1
    <3>3. Held(t, n + 1)
      BY <2>3, <2>7, <2>8, <3>2 DEF Held
    <3> QED
      BY <1>2, <2>2, <2>6, <3>3
  <2>9. CASE s.pc = "built" /\ t = [s EXCEPT !.queue = Append(s.queue, w)]
    <3>1. t.pc = s.pc /\ t.from = s.from /\ t.snap = s.snap /\ t.queue = Append(s.queue, w)
      BY <2>9 DEF ClientStates
    <3>2. s.from <= MaxIncarnations /\ a + b <= n
      BY <2>3, <2>7, <2>9 DEF Held
    <3>3. a + (b + 1) <= n + 1
      BY <3>2
    <3>4. Len(t.snap) = a /\ Len(t.queue) = b + 1
      BY <2>4, <2>7, <3>1
    <3>5. Held(t, n + 1)
      BY <2>9, <3>1, <3>2, <3>3, <3>4 DEF Held
    <3> QED
      BY <1>2, <2>2, <2>6, <3>5
  <2> QED
    BY <2>5, <2>6, <2>8, <2>9
<1>6. leaving' = leaving
  BY DEF Emit
<1> QED
  BY <1>1, <1>2, <1>3, <1>4, <1>5, <1>6 DEF StBounds

\* The session's own start and end.
LEMMA SourceBounds ==
  ASSUME StInv, StBounds, SourceStarts \/ SourceEnds
  PROVE  StBounds'
<1>1. UNCHANGED <<counter, pump, client, leaving, emitted>>
  BY DEF SourceStarts, SourceEnds, buffer
<1>2. source'.inc <= MaxIncarnations /\ Len(source'.events) <= emitted
  <2>1. emitted \in Nat
    BY StreamsAssumption DEF StBounds
  <2>2. CASE SourceStarts
    <3>1. source' = [up |-> TRUE, inc |-> source.inc + 1, events |-> << >>]
          /\ source.inc < MaxIncarnations
      BY <2>2 DEF SourceStarts
    <3> QED
      BY <2>1, <3>1, StreamsAssumption DEF StInv
  <2>3. CASE SourceEnds
    <3>1. source' = [source EXCEPT !.up = FALSE]
      BY <2>3 DEF SourceEnds
    <3>2. source'.inc = source.inc /\ source'.events = source.events
      BY <3>1 DEF StInv
    <3> QED
      BY <3>2 DEF StBounds
  <2> QED
    BY <2>2, <2>3
<1> QED
  BY <1>1, <1>2 DEF StBounds

\* A step of one client that leaves it with nothing, or with the events of a
\* source it has just built.
LEMMA ClientBounds ==
  ASSUME StInv, StBounds, NEW c \in Clients, NEW s, Held(s, emitted),
         client' = [client EXCEPT ![c] = s],
         UNCHANGED <<source, counter, pump, emitted>>, leaving' \subseteq Clients
  PROVE  StBounds'
<1>1. \A d \in Clients : client'[d] = s \/ client'[d] = client[d]
  BY DEF StInv
<1>2. \A d \in Clients : Held(client'[d], emitted)
  BY <1>1 DEF StBounds
<1> QED
  BY <1>2 DEF StBounds

\* Registered, a client holds nothing of the source it may have built.
LEMMA RegisterHolds ==
  ASSUME NEW c \in Clients, NEW since, NEW buffered, NEW q, NEW n, NEW m,
         Register(c, since, buffered, q, n)
  PROVE  \E s : client' = [client EXCEPT ![c] = s] /\ Held(s, m)
<1> DEFINE floor == Floor(q, n)
           gap == since # None /\ ~Retained(since, floor)
           s == [Closed EXCEPT !.pc = "open", !.since = since, !.at = client[c].at,
                   !.seen = IF gap \/ since = None THEN None ELSE since,
                   !.prefix = IF since = None THEN buffered
                              ELSE IF gap THEN << >> ELSE ReplayAfter(q, since),
                   !.next = IF since = None THEN n - Len(buffered)
                            ELSE IF gap THEN n ELSE since + 1]
<1>1. client' = [client EXCEPT ![c] = s]
  BY DEF Register
<1>2. s.pc = "open" /\ s.queue = << >>
  BY DEF Closed
<1> HIDE DEF s
<1>3. Held(s, m)
  BY <1>2 DEF Held
<1> QED
  BY <1>1, <1>3

\* A client that asks holds nothing yet.
LEMMA BeginBounds ==
  ASSUME StInv, StBounds, NEW c \in Clients, BeginAttach(c)
  PROVE  StBounds'
<1>0. /\ client[c] \in ClientStates /\ client \in [Clients -> ClientStates]
      /\ source.inc \in Nat
  BY DEF StInv
<1>1. client[c].pc = "closed" /\ client[c].queue = << >>
  BY DEF BeginAttach, StBounds, Held
<1>2. UNCHANGED <<source, counter, pump, emitted, leaving>>
  BY DEF BeginAttach, buffer
<1>3. PICK since \in Since(c) :
        IF pump.inc = 0
          THEN client' = [client EXCEPT ![c].pc = "build", ![c].since = since, ![c].at = source.inc]
          ELSE client' = [client EXCEPT ![c].pc = "join", ![c].since = since,
                                        ![c].at = IF source.up THEN source.inc ELSE 0]
  BY Zenon DEF BeginAttach
<1>4. /\ client' = [client EXCEPT ![c] = client'[c]]
      /\ client'[c].pc # "built" /\ client'[c].queue = << >>
  <2>1. CASE pump.inc = 0
    <3>1. PICK t : t = [client[c] EXCEPT !.pc = "build", !.since = since, !.at = source.inc]
      OBVIOUS
    <3>2. client' = [client EXCEPT ![c] = t]
      BY <1>0, <1>3, <2>1, <3>1
    <3>3. t.pc = "build" /\ t.queue = << >>
      BY <1>0, <1>1, <3>1 DEF ClientStates
    <3> QED
      BY <1>0, <3>2, <3>3
  <2>2. CASE pump.inc # 0
    <3>1. PICK t : t = [client[c] EXCEPT !.pc = "join", !.since = since,
                                         !.at = IF source.up THEN source.inc ELSE 0]
      OBVIOUS
    <3>2. client' = [client EXCEPT ![c] = t]
      BY <1>0, <1>3, <2>2, <3>1
    <3>3. t.pc = "join" /\ t.queue = << >>
      BY <1>0, <1>1, <3>1 DEF ClientStates
    <3> QED
      BY <1>0, <3>2, <3>3
  <2> QED
    BY <2>1, <2>2
<1>5. PICK t : t = client'[c]
  OBVIOUS
<1>6. Held(t, emitted)
  BY <1>4, <1>5 DEF Held
<1>7. client' = [client EXCEPT ![c] = t] /\ leaving' \subseteq Clients
  BY <1>2, <1>4, <1>5 DEF StBounds
<1> QED
  BY <1>2, <1>6, <1>7, ClientBounds

\* One that builds a source holds what the session has emitted so far.
LEMMA BuildBounds ==
  ASSUME StInv, StBounds, NEW c \in Clients, BuildSource(c)
  PROVE  StBounds'
<1>0. PICK s \in ClientStates : s = client[c]
  BY DEF StInv
<1>1. s.pc = "build" /\ s.queue = << >>
  BY <1>0 DEF BuildSource, StBounds, Held
<1>2. UNCHANGED <<source, counter, pump, emitted>> /\ leaving' \subseteq Clients
  BY DEF BuildSource, buffer, StBounds
<1>3. PICK t : t = IF source.up THEN [s EXCEPT !.pc = "built", !.snap = source.events,
                                            !.from = source.inc]
                                ELSE [s EXCEPT !.pc = "closed"]
  OBVIOUS
<1>4. client' = [client EXCEPT ![c] = t]
  BY <1>0, <1>3 DEF BuildSource
<1>5. Held(t, emitted)
  <2>1. CASE source.up
    <3>1. /\ t.pc = "built" /\ t.snap = source.events /\ t.from = source.inc
          /\ t.queue = << >>
      BY <1>1, <1>3, <2>1 DEF ClientStates
    <3>2. /\ Len(source.events) \in Nat /\ Len(source.events) <= emitted
          /\ source.inc <= MaxIncarnations
      BY DEF StInv, StBounds
    <3>3. Len(t.queue) = 0 /\ Len(t.snap) + 0 <= emitted
      BY <3>1, <3>2
    <3> QED
      BY <3>1, <3>2, <3>3 DEF Held
  <2>2. CASE ~source.up
    <3>1. t.pc = "closed" /\ t.queue = << >>
      BY <1>1, <1>3, <2>2 DEF ClientStates
    <3> QED
      BY <3>1 DEF Held
  <2> QED
    BY <2>1, <2>2
<1> QED
  BY <1>2, <1>4, <1>5, ClientBounds

\* One that joins a running pump holds nothing of its own.
LEMMA JoinBounds ==
  ASSUME StInv, StBounds, NEW c \in Clients, Join(c)
  PROVE  StBounds'
<1>1. UNCHANGED <<source, counter, pump, emitted>> /\ leaving' \subseteq Clients
  BY DEF Join, StBounds
<1>2. Register(c, client[c].since, << >>, ring, counter)
  BY DEF Join
<1>3. \E t : client' = [client EXCEPT ![c] = t] /\ Held(t, emitted)
  BY <1>2, RegisterHolds
<1> QED
  BY <1>1, <1>3, ClientBounds

\* Nor does one that reads its frames or leaves.
LEMMA OpenBounds ==
  ASSUME StInv, StBounds, NEW c \in Clients, Receive(c) \/ Drop(c)
  PROVE  StBounds'
<1>0. client[c] \in ClientStates /\ client \in [Clients -> ClientStates]
  BY DEF StInv
<1>1. client[c].pc = "open" /\ client[c].queue = << >>
  BY DEF Receive, Drop, StBounds, Held
<1>2. UNCHANGED <<source, counter, pump, emitted>>
  BY DEF Receive, Drop, buffer
<1>3. leaving' \subseteq Clients
  BY DEF Receive, Drop, StBounds
<1>4. client'[c].pc # "built" /\ client'[c].queue = << >>
  <2>1. CASE Receive(c)
    BY <1>0, <1>1, <2>1 DEF Receive, ClientStates
  <2>2. CASE Drop(c)
    BY <1>0, <2>2 DEF Drop, Closed
  <2> QED
    BY <2>1, <2>2
<1>5. PICK t : t = client'[c]
  OBVIOUS
<1>6. client' = [client EXCEPT ![c] = t]
  BY <1>0, <1>5 DEF Receive, Drop
<1>7. Held(t, emitted)
  BY <1>4, <1>5 DEF Held
<1> QED
  BY <1>2, <1>3, <1>6, <1>7, ClientBounds

\* The first to install a source hands its pump what it holds.
LEMMA InstallBounds ==
  ASSUME StInv, StBounds, NEW c \in Clients, Install(c)
  PROVE  StBounds'
<1>0. PICK s \in ClientStates : s = client[c]
  BY DEF StInv
<1>1. /\ Held(s, emitted) /\ s.pc = "built" /\ emitted \in Nat /\ leaving \subseteq Clients
      /\ UNCHANGED <<source, leaving, emitted>>
  BY <1>0, StreamsAssumption DEF StBounds, Install
<1>2. \E t : client' = [client EXCEPT ![c] = t] /\ Held(t, emitted)
  BY <1>1, RegisterHolds DEF Install
<1>3. CASE pump.inc # 0
  BY <1>1, <1>2, <1>3, ClientBounds DEF Install
<1>4. CASE pump.inc = 0
  <2>1. \A d \in Clients : Held(client'[d], emitted)
    <3>1. PICK t : client' = [client EXCEPT ![c] = t] /\ Held(t, emitted)
      BY <1>2
    <3>2. \A d \in Clients : client'[d] = t \/ client'[d] = client[d]
      BY <3>1 DEF StInv
    <3> QED
      BY <3>1, <3>2 DEF StBounds
  <2>2. /\ pump' = [inc |-> s.from, queue |-> s.queue, sending |-> None]
        /\ counter' = PublishAll(s.snap).n
    BY <1>0, <1>4 DEF Install
  <2>3. s.snap \in Seq(Weights) /\ s.from \in Nat
    BY DEF ClientStates
  <2>4. counter' = counter + Len(s.snap)
    BY <2>2, <2>3, PublishAllIs
  <2>5. counter = 0 /\ s.from >= 1 /\ s.from <= MaxIncarnations
        /\ Len(s.snap) + Len(s.queue) <= emitted
    BY <1>0, <1>1, <1>4 DEF StBounds, StInv, Held
  <2>6. pump'.inc = s.from /\ pump'.queue = s.queue
    BY <2>2
  <2>7. Len(s.snap) \in Nat /\ Len(s.queue) \in Nat
    BY DEF ClientStates
  <2>8. counter' + Len(pump'.queue) <= emitted
    <3>1. PICK a, b \in Nat : a = Len(s.snap) /\ b = Len(s.queue)
      BY <2>7
    <3>2. Len(pump'.queue) = b /\ a + b <= emitted
      BY <2>5, <2>6, <3>1
    <3>3. counter' = 0 + a
      BY <2>4, <2>5, <3>1
    <3> QED
      BY <3>2, <3>3
  <2>9. pump'.inc # 0 /\ pump'.inc <= MaxIncarnations
    BY <2>3, <2>5, <2>6
  <2> QED
    BY <1>1, <2>1, <2>8, <2>9 DEF StBounds
<1> QED
  BY <1>3, <1>4

\* The pump stamps what it had not read, and sends what it stamped.
LEMMA PumpBounds ==
  ASSUME StInv, StBounds, PumpPublish \/ PumpSend
  PROVE  StBounds'
<1>0. pump \in [inc : Nat, queue : Seq(Weights), sending : OffsetOrNone] /\ counter \in Nat
  BY DEF StInv
<1>1. UNCHANGED <<source, leaving, emitted>>
  BY DEF PumpPublish, PumpSend
<1>2. CASE PumpPublish
  <2>1. /\ counter' = counter + 1 /\ pump.queue # << >> /\ client' = client
        /\ pump' = [pump EXCEPT !.queue = Tail(pump.queue), !.sending = counter]
    BY <1>2 DEF PumpPublish
  <2>2. pump'.inc = pump.inc /\ pump'.queue = Tail(pump.queue)
    BY <1>0, <2>1
  <2>3. Len(Tail(pump.queue)) = Len(pump.queue) - 1 /\ Len(pump.queue) \in Nat
    BY <1>0, <2>1
  <2>4. pump.inc # 0 /\ emitted \in Nat
    BY <2>1, StreamsAssumption DEF StBounds
  <2>5. counter' + Len(pump'.queue) <= emitted
    BY <1>0, <2>1, <2>2, <2>3, <2>4 DEF StBounds
  <2> QED
    BY <1>1, <2>1, <2>2, <2>4, <2>5 DEF StBounds
<1>3. CASE PumpSend
  <2>1. /\ counter' = counter /\ pump' = [pump EXCEPT !.sending = None]
        /\ client' = [c \in Clients |-> Deliver(client[c], pump.sending)]
    BY <1>3 DEF PumpSend, buffer
  <2>2. pump'.inc = pump.inc /\ pump'.queue = pump.queue
    BY <1>0, <2>1
  <2>3. ASSUME NEW c \in Clients PROVE Held(client'[c], emitted)
    <3>1. PICK s, x, t, n :
            /\ s \in ClientStates /\ s = client[c]
            /\ x = pump.sending /\ t = Deliver(s, x) /\ n = emitted
      BY DEF StInv
    <3>2. /\ t.pc = s.pc /\ t.queue = s.queue /\ t.from = s.from /\ t.snap = s.snap
      BY <3>1 DEF Deliver, ClientStates
    <3>3. Held(s, n)
      BY <3>1 DEF StBounds
    <3>4. Held(t, n)
      BY <3>2, <3>3 DEF Held
    <3>5. client'[c] = t
      BY <2>1, <3>1
    <3> QED
      BY <3>1, <3>4, <3>5
  <2> QED
    BY <1>1, <2>1, <2>2, <2>3 DEF StBounds
<1> QED
  BY <1>2, <1>3

\* Ring, watermarks, pump and clients keep their types, and no more offsets
\* are stamped than events were emitted, however often the session is resumed.
THEOREM StreamsTypesHold == StreamsSpec => []StreamsTypeOK
<1>1. StreamsInit => StBounds
  <2> SUFFICES ASSUME StreamsInit PROVE StBounds
    OBVIOUS
  <2>1. \A c \in Clients : Held(client[c], emitted)
    BY DEF StreamsInit, Held, Closed
  <2> QED
    BY <2>1, StreamsAssumption DEF StreamsInit, StBounds
<1>2. StInv /\ StBounds /\ [StreamsNext]_stVars => StBounds'
  <2> SUFFICES ASSUME StInv, StBounds, [StreamsNext]_stVars PROVE StBounds'
    OBVIOUS
  <2>1. CASE UNCHANGED stVars
    BY <2>1 DEF stVars, StBounds
  <2>2. ASSUME NEW c \in Clients, AckOffset(c) \/ Deregister(c) PROVE StBounds'
    <3>1. UNCHANGED <<source, counter, pump, client, emitted>> /\ leaving' \subseteq leaving
      BY <2>2 DEF AckOffset, Deregister
    <3> QED
      BY <3>1 DEF StBounds
  <2> QED
    BY <2>1, <2>2, SourceBounds, EmitBounds, BeginBounds, BuildBounds, JoinBounds,
       OpenBounds, InstallBounds, PumpBounds DEF StreamsNext
<1>3. StInv /\ StBounds => StreamsTypeOK
  <2> SUFFICES ASSUME StInv, StBounds PROVE StreamsTypeOK
    OBVIOUS
  <2>1. /\ source \in [up : BOOLEAN, inc : Nat, events : Seq(Weights)]
        /\ pump \in [inc : Nat, queue : Seq(Weights), sending : OffsetOrNone]
        /\ counter \in Nat /\ ring \in Seq(RingEntries)
    BY DEF StInv, Contig
  <2>2. counter \in 0..(MaxIncarnations * MaxEvents)
    <3>1. Len(pump.queue) \in Nat /\ MaxEvents \in Nat /\ MaxIncarnations \in Nat
      BY <2>1, StreamsAssumption
    <3>2. counter <= MaxEvents
      BY <2>1, <3>1 DEF StBounds
    <3>3. CASE pump.inc = 0
      <4>1. counter = 0 /\ MaxIncarnations * MaxEvents \in Nat
        BY <3>1, <3>3 DEF StBounds
      <4> QED
        BY <4>1
    <3>4. CASE pump.inc # 0
      <4>1. MaxIncarnations >= 1
        BY <2>1, <3>1, <3>4 DEF StBounds
      <4>2. \A a, b \in Nat : a >= 1 => a * b \in Nat /\ b <= a * b
        BY SMT
      <4> QED
        BY <2>1, <3>1, <3>2, <4>1, <4>2
    <3> QED
      BY <3>3, <3>4
  <2>3. source.inc \in 0..MaxIncarnations /\ pump.inc \in 0..MaxIncarnations
    BY <2>1, StreamsAssumption DEF StBounds
  <2>4. source \in [up : BOOLEAN, inc : 0..MaxIncarnations, events : Seq(Weights)]
    BY <2>1, <2>3
  <2>5. pump \in [inc : 0..MaxIncarnations, queue : Seq(Weights), sending : OffsetOrNone]
    BY <2>1, <2>3
  <2> QED
    BY <2>1, <2>2, <2>4, <2>5 DEF StInv, StBounds, StreamsTypeOK, RingEntries, ClientStates
<1> QED
  BY StreamsInvariant, <1>1, <1>2, <1>3, PTL DEF StreamsSpec

-----------------------------------------------------------------------------
(* The ten together.                                                        *)

\* A step of the composition is a step of each service or leaves its state alone.
LEMMA ServicesStep ==
  ASSUME [ServicesNext]_servicesVars
  PROVE  /\ [CreateNext]_wcVars /\ [SchedNext]_scVars /\ [StreamsNext]_stVars
         /\ [VcsNext]_vcsVars /\ [NotifNext]_ntVars /\ [AuditNext]_adVars
         /\ [PidNext]_pidVars /\ [CkNext]_ckVars /\ [DevicesNext]_devVars
         /\ [SuggestionsNext]_sgVars
<1>1. CASE ServicesNext
  BY <1>1 DEF ServicesNext, core, agents, edges
<1>2. CASE UNCHANGED servicesVars
  BY <1>2 DEF servicesVars, core, agents, edges
<1> QED
  BY <1>1, <1>2

\* The composition implements each service's own specification.
THEOREM ServicesAreKept ==
  ServicesSpec => /\ CreateSpec /\ SchedSpec /\ StreamsSpec /\ VcsSpec /\ NotifSpec
                  /\ AuditSpec /\ PidSpec /\ CkSpec /\ DevicesSpec /\ SuggestionsSpec
<1>1. ServicesInit => /\ CreateInit /\ SchedInit /\ StreamsInit /\ VcsInit /\ NotifInit
                      /\ AuditInit /\ PidInit /\ CkInit /\ DevicesInit /\ SuggestionsInit
  BY DEF ServicesInit
<1>2. [ServicesNext]_servicesVars =>
         /\ [CreateNext]_wcVars /\ [SchedNext]_scVars /\ [StreamsNext]_stVars
         /\ [VcsNext]_vcsVars /\ [NotifNext]_ntVars /\ [AuditNext]_adVars
         /\ [PidNext]_pidVars /\ [CkNext]_ckVars /\ [DevicesNext]_devVars
         /\ [SuggestionsNext]_sgVars
  BY ServicesStep
<1> QED
  BY <1>1, <1>2, PTL DEF ServicesSpec, CreateSpec, SchedSpec, StreamsSpec, VcsSpec, NotifSpec,
     AuditSpec, PidSpec, CkSpec, DevicesSpec, SuggestionsSpec

\* Every service of one Core keeps its types whichever takes the next step.
THEOREM ServicesTypesHold == ServicesSpec => []ServicesTypeOK
<1>1. /\ CreateTypeOK /\ SchedTypeOK /\ StreamsTypeOK /\ VcsTypeOK /\ NotifTypeOK
      /\ AuditTypeOK /\ PidTypeOK /\ CkTypeOK /\ DevicesTypeOK /\ SuggestionsTypeOK
      => ServicesTypeOK
  BY DEF ServicesTypeOK
<1> QED
  BY ServicesAreKept, CreateTypesHold, SchedTypesHold, StreamsTypesHold, VcsTypesHold,
     NotifTypesHold, AuditTypesHold, PidTypesHold, CkTypesHold, DevicesTypesHold,
     SuggestionsTypesHold, <1>1, PTL

\* What is proved of each service alone holds of all of them in one Core.
THEOREM ServicesKeepAll ==
  ServicesSpec => /\ []ListedIsMaterialized /\ []OneOpenRun /\ []ActiveStaysArmed
                  /\ []NothingSkipped /\ []StalenessBounded /\ []OneDeviceActs
                  /\ []WrittenIsKept /\ []OneCoreUntilAStop /\ []CheckpointRestorable
                  /\ []RevokedIsRefused /\ []SuppressedIsShown /\ StreamsKeepContract
BY ServicesAreKept, ListedIsMaterializedHolds, OneOpenRunHolds, ActiveStaysArmedHolds,
   NothingSkippedHolds, StalenessIsBounded, OneDeviceActsHolds, WrittenIsKeptHolds,
   OneCoreUntilAStopHolds, CheckpointRestorableHolds, RevokedIsRefusedHolds,
   SuppressedIsShownHolds, StreamsKeepContractHolds, PTL
=============================================================================
