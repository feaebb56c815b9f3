----------------------------- MODULE Suggestions ------------------------------
(***************************************************************************)
(* The suggestion engine (crates/core/src/suggestions/actor.rs) and the    *)
(* sessions of one workarea that feed it.  A poll attaches every session   *)
(* whose row is live: it clones the events so far, subscribes, evaluates   *)
(* the clone and leaves the rest to a task.  An event is the rule it makes *)
(* apply; a rule that fired within the window is suppressed, since its     *)
(* chip is still on the user's screen.                                     *)
(***************************************************************************)
EXTENDS Naturals, Sequences, FiniteSets

CONSTANTS
  Talkers,             \* sessions of the workarea
  Rules,               \* rule ids
  COMMIT_RULE,         \* turn_complete_with_uncommitted
  DEDUP_TTL,           \* and CHIP_RETENTION
  ChannelCap,          \* EVENTS_CAPACITY
  MaxSgClock, MaxSaid, MaxTalks     \* bounds: the clock, events, resumes

ASSUME SuggestionsAssumption ==
  /\ COMMIT_RULE \in Rules
  /\ {DEDUP_TTL, ChannelCap} \subseteq Nat \ {0}
  /\ {MaxSgClock, MaxSaid, MaxTalks} \subseteq Nat

VARIABLES
  sgNow,               \* the clock
  talk,                \* session -> its row, its supervisor entry and the
                       \* incarnation behind it, and the event being sent
  feed,                \* session -> the subscription of the engine to it
  attached,            \* attached_sessions
  poll,                \* what is left of this tick, and the session at hand
  eval,                \* session -> the evaluation its events have reached
  lastEmit,            \* rule -> when it last fired, for those that did
  chips,               \* the workarea's buffer
  said                 \* bound

sgVars == <<sgNow, talk, feed, attached, poll, eval, lastEmit, chips, said>>

Nothing == "nothing"
Unfed == [pc |-> "off", inc |-> 0, replay |-> << >>, queue |-> << >>, lagged |-> FALSE]
Calm == [pc |-> "idle", rule |-> Nothing]

SuggestionsInit ==
  /\ sgNow = 0 /\ said = 0
  /\ talk = [s \in Talkers |-> [row |-> FALSE, up |-> FALSE, inc |-> 0,
                                log |-> << >>, sending |-> Nothing]]
  /\ feed = [s \in Talkers |-> Unfed]
  /\ attached = {} /\ poll = [todo |-> {}, at |-> Nothing]
  /\ eval = [s \in Talkers |-> Calm]
  /\ lastEmit = [r \in {} |-> 0] /\ chips = {}

engine == <<attached, poll, eval, lastEmit, chips>>

ChipClock ==
  /\ sgNow < MaxSgClock /\ sgNow' = sgNow + 1
  /\ UNCHANGED <<talk, feed, engine, said>>

-----------------------------------------------------------------------------
(* The sessions                                                            *)

\* start_session or a resume: the row is live before the entry is there.
TalkOpens(s) ==
  /\ ~talk[s].row /\ talk[s].inc < MaxTalks
  /\ talk' = [talk EXCEPT ![s].row = TRUE]
  /\ UNCHANGED <<sgNow, feed, engine, said>>

\* The entry, new or in the place of the last one, with an empty replay and a
\* broadcast of its own.
TalkEnters(s) ==
  /\ talk[s].row /\ talk[s].sending = Nothing /\ talk[s].inc < MaxTalks
  /\ feed[s].pc # "cloned"
  /\ talk' = [talk EXCEPT ![s].up = TRUE, ![s].inc = @ + 1, ![s].log = << >>]
  /\ UNCHANGED <<sgNow, feed, engine, said>>

\* The row ends with the pump or with stop_session, which takes the entry out
\* before it ends the row.  An agent that exits leaves its entry behind.  A
\* subscriber that has cloned and not subscribed yet holds the map's lock.
TalkEnds(s) ==
  /\ talk[s].row /\ talk' = [talk EXCEPT ![s].row = FALSE]
  /\ UNCHANGED <<sgNow, feed, engine, said>>
TalkLeaves(s) ==
  /\ talk[s].up /\ feed[s].pc # "cloned"
  /\ talk' = [talk EXCEPT ![s].up = FALSE]
  /\ UNCHANGED <<sgNow, feed, engine, said>>

\* push_replay, and then the send.
Says(s, r) ==
  /\ talk[s].row /\ talk[s].up /\ talk[s].sending = Nothing /\ said < MaxSaid
  /\ said' = said + 1
  /\ talk' = [talk EXCEPT ![s].log = Append(@, r), ![s].sending = r]
  /\ UNCHANGED <<sgNow, feed, engine>>

\* A receiver of this incarnation that is full loses the oldest event.
Sends(s) ==
  LET q == Append(feed[s].queue, talk[s].sending) IN
  /\ talk[s].sending # Nothing
  /\ talk' = [talk EXCEPT ![s].sending = Nothing]
  /\ feed' = IF feed[s].pc \in {"replay", "live"} /\ feed[s].inc = talk[s].inc
               THEN [feed EXCEPT ![s].queue = IF Len(q) > ChannelCap THEN Tail(q) ELSE q,
                                 ![s].lagged = @ \/ Len(q) > ChannelCap]
               ELSE feed
  /\ UNCHANGED <<sgNow, engine, said>>

-----------------------------------------------------------------------------
(* spawn_session_pump, attach_session                                      *)

\* A tick reads the live rows; it may fail, which is a tick that reads none.
PollTick ==
  /\ poll.todo = {} /\ poll.at = Nothing
  /\ poll' = [poll EXCEPT !.todo = {s \in Talkers : talk[s].row}]
  /\ UNCHANGED <<sgNow, talk, feed, attached, eval, lastEmit, chips, said>>

Attach(s) ==
  /\ s \in poll.todo /\ poll.at = Nothing
  /\ attached' = attached \union {s}
  /\ poll' = [todo |-> poll.todo \ {s}, at |-> IF s \in attached THEN Nothing ELSE s]
  /\ UNCHANGED <<sgNow, talk, feed, eval, lastEmit, chips, said>>

\* subscribe_events_with_replay: the clone; or no entry, and the attachment is
\* forgotten for a later tick.
CloneTalk(s) ==
  /\ poll.at = s /\ feed[s].pc = "off"
  /\ IF talk[s].up
       THEN /\ feed' = [feed EXCEPT ![s] = [Unfed EXCEPT !.pc = "cloned", !.inc = talk[s].inc,
                                                         !.replay = talk[s].log]]
            /\ UNCHANGED <<attached, poll>>
       ELSE /\ attached' = attached \ {s} /\ poll' = [poll EXCEPT !.at = Nothing]
            /\ UNCHANGED feed
  /\ UNCHANGED <<sgNow, talk, eval, lastEmit, chips, said>>

SubscribeTalk(s) ==
  /\ feed[s].pc = "cloned" /\ feed' = [feed EXCEPT ![s].pc = "replay"]
  /\ UNCHANGED <<sgNow, talk, engine, said>>

\* The poll itself evaluates the replay; then a task takes the receiver.
TakeReplay(s) ==
  /\ feed[s].pc = "replay" /\ feed[s].replay # << >> /\ eval[s] = Calm
  /\ eval' = [eval EXCEPT ![s] = [pc |-> "judge", rule |-> Head(feed[s].replay)]]
  /\ feed' = [feed EXCEPT ![s].replay = Tail(@)]
  /\ UNCHANGED <<sgNow, talk, attached, poll, lastEmit, chips, said>>
SpawnFeed(s) ==
  /\ feed[s].pc = "replay" /\ feed[s].replay = << >> /\ eval[s] = Calm
  /\ feed' = [feed EXCEPT ![s].pc = "live"]
  /\ poll' = [poll EXCEPT !.at = Nothing]
  /\ UNCHANGED <<sgNow, talk, attached, eval, lastEmit, chips, said>>

\* The task's loop ends at the first error of recv, Lagged or Closed, and
\* nothing takes the session out of attached_sessions.
TakeEvent(s) ==
  /\ feed[s].pc = "live" /\ eval[s] = Calm
  /\ \/ /\ ~feed[s].lagged /\ feed[s].queue # << >>
        /\ eval' = [eval EXCEPT ![s] = [pc |-> "judge", rule |-> Head(feed[s].queue)]]
        /\ feed' = [feed EXCEPT ![s].queue = Tail(@)]
     \/ /\ \/ feed[s].lagged
           \/ /\ feed[s].queue = << >>
              /\ \/ feed[s].inc # talk[s].inc
                 \/ ~talk[s].up /\ talk[s].sending = Nothing
        /\ feed' = [feed EXCEPT ![s] = [Unfed EXCEPT !.pc = "over"]]
        /\ UNCHANGED eval
  /\ UNCHANGED <<sgNow, talk, attached, poll, lastEmit, chips, said>>

-----------------------------------------------------------------------------
(* evaluate_event                                                          *)

Fresh(t) == sgNow < t + DEDUP_TTL

\* A chip's retention, and before it a slip by one.
ShownShort(c) == sgNow + 1 < c.at + DEDUP_TTL
Shown(c) == Fresh(c.at)

\* The side check may find the worktree clean; what survives it is de-duped
\* and stamped under one lock.  Stale stamps are dropped on the way.
Judge(s) ==
  LET r == eval[s].rule
      kept == {x \in DOMAIN lastEmit : Fresh(lastEmit[x])}
  IN /\ eval[s].pc = "judge"
     /\ \/ /\ r = COMMIT_RULE /\ eval' = [eval EXCEPT ![s] = Calm]
           /\ lastEmit' = [x \in kept |-> lastEmit[x]]
        \/ /\ r \in kept /\ eval' = [eval EXCEPT ![s] = Calm]
           /\ lastEmit' = [x \in kept |-> lastEmit[x]]
        \/ /\ r \notin kept /\ eval' = [eval EXCEPT ![s].pc = "push"]
           /\ lastEmit' = [x \in kept \union {r} |-> IF x = r THEN sgNow ELSE lastEmit[x]]
     /\ UNCHANGED <<sgNow, talk, feed, attached, poll, chips, said>>

\* The buffer and the broadcast, under the buffer's lock and stamped anew.
PushChip(s) ==
  /\ eval[s].pc = "push" /\ eval' = [eval EXCEPT ![s] = Calm]
  /\ chips' = chips \union {[rule |-> eval[s].rule, at |-> sgNow]}
  /\ UNCHANGED <<sgNow, talk, feed, attached, poll, lastEmit, said>>

\* list_for_workarea drops what is past its retention.
ListChips ==
  /\ chips' = {c \in chips : Shown(c)}
  /\ chips' # chips
  /\ UNCHANGED <<sgNow, talk, feed, attached, poll, eval, lastEmit, said>>

SuggestionsNext ==
  \/ ChipClock \/ PollTick \/ ListChips
  \/ \E s \in Talkers :
       \/ TalkOpens(s) \/ TalkEnters(s) \/ TalkEnds(s) \/ TalkLeaves(s)
       \/ (\E r \in Rules : Says(s, r)) \/ Sends(s)
       \/ Attach(s) \/ CloneTalk(s) \/ SubscribeTalk(s) \/ TakeReplay(s) \/ SpawnFeed(s)
       \/ TakeEvent(s) \/ Judge(s) \/ PushChip(s)

SuggestionsSpec == SuggestionsInit /\ [][SuggestionsNext]_sgVars

-----------------------------------------------------------------------------
(* Properties                                                              *)

\* Type correctness.
SuggestionsTypeOK ==
  /\ sgNow \in 0..MaxSgClock /\ said \in 0..MaxSaid
  /\ talk \in [Talkers -> [row : BOOLEAN, up : BOOLEAN, inc : 0..MaxTalks,
                           log : Seq(Rules), sending : Rules \union {Nothing}]]
  /\ feed \in [Talkers -> [pc : {"off", "cloned", "replay", "live", "over"}, inc : 0..MaxTalks,
                           replay : Seq(Rules), queue : Seq(Rules), lagged : BOOLEAN]]
  /\ attached \subseteq Talkers
  /\ poll \in [todo : SUBSET Talkers, at : Talkers \union {Nothing}]
  /\ eval \in [Talkers -> [pc : {"idle", "judge", "push"}, rule : Rules \union {Nothing}]]
  /\ DOMAIN lastEmit \subseteq Rules /\ \A r \in DOMAIN lastEmit : lastEmit[r] \in Nat
  /\ chips \subseteq [rule : Rules, at : Nat]

\* While a rule is suppressed its chip is before the user, or on the way there:
\* window and retention "stay in sync" (suggestions/actor.rs:61-63) although
\* they are stamped under two locks, by the tasks of several sessions, and a
\* reader prunes in between.
SuppressedIsShown ==
  \A r \in DOMAIN lastEmit : Fresh(lastEmit[r]) =>
    \/ \E c \in chips : c.rule = r /\ Fresh(c.at)
    \/ \E s \in Talkers : eval[s] = [pc |-> "push", rule |-> r]

\* "Walk every active workarea's live sessions and ensure the engine is
\* subscribed" (suggestions/actor.rs:242-243).  It is not, once the task of an
\* earlier incarnation has ended or lagged.
AttachedIsFed ==
  \A s \in Talkers : talk[s].row /\ talk[s].up /\ s \in attached => feed[s].pc # "over"
=============================================================================
