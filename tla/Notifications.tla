--------------------------- MODULE Notifications ----------------------------
(***************************************************************************)
(* notify, the inbox and the chips (crates/core/src/notifications).  All   *)
(* events here have one de-dup key.  notify looks for an unread row of the *)
(* key, then refreshes it or inserts a new one and wakes the devices; the  *)
(* look-up and the write are separate statements, and readers, chips and   *)
(* token registrations come between.                                       *)
(***************************************************************************)
EXTENDS Naturals, FiniteSets

CONSTANTS
  Events,              \* notify calls of one key, each a body of its own
  Devices,             \* paired devices
  Window,              \* DEDUP_WINDOW_MS
  MaxNow, MaxPushFaults

ASSUME NotificationsAssumption ==
  /\ IsFiniteSet(Events) /\ IsFiniteSet(Devices)
  /\ {Window, MaxNow, MaxPushFaults} \subseteq Nat

VARIABLES
  now,
  inbox,               \* event -> the row its notify inserted, or NoNote
  notifying,           \* event -> its call
  token,               \* device -> generation of its push token, 0 when NULL
  chip,                \* <<event, device>> -> a device's ActOnChip on that row
  acted,               \* history: the rows whose chip action was carried out
  pushFaults

ntVars == <<now, inbox, notifying, token, chip, acted, pushFaults>>

NoNote == [at |-> 0, bodies |-> {}, read |-> FALSE, marker |-> {}]
NotYet == [pc |-> "none", at |-> 0, hit |-> {}, targets |-> {}]
Taps == Events \X Devices

NotifInit ==
  /\ now = 0
  /\ inbox = [e \in Events |-> NoNote]
  /\ notifying = [e \in Events |-> NotYet]
  /\ token = [d \in Devices |-> 1]
  /\ chip = [t \in Taps |-> "none"]
  /\ acted = {}
  /\ pushFaults = 0

PushFault == pushFaults < MaxPushFaults /\ pushFaults' = pushFaults + 1
Rows == {e \in Events : inbox[e] # NoNote}

TimePasses ==
  /\ now < MaxNow
  /\ now' = now + 1
  /\ UNCHANGED <<inbox, notifying, token, chip, acted, pushFaults>>

-----------------------------------------------------------------------------
(* notify                                                                  *)

\* find_unread_for_dedup_key and decide: the newest unread row in the window.
Candidates == {r \in Rows : inbox[r].at + Window >= now /\ ~inbox[r].read}

Lookup(e) ==
  /\ notifying[e].pc = "none"
  /\ \/ Candidates = {} /\ notifying' = [notifying EXCEPT ![e].pc = "insert", ![e].at = now]
     \/ \E r \in Candidates :
          /\ \A q \in Candidates : inbox[q].at <= inbox[r].at
          /\ notifying' = [notifying EXCEPT ![e] = [@ EXCEPT !.pc = "refresh", !.at = now, !.hit = {r}]]
  /\ UNCHANGED <<now, inbox, token, chip, acted, pushFaults>>

\* update_body_and_at matches on the id alone; no wakeup follows.
Refresh(e) ==
  /\ notifying[e].pc = "refresh"
  /\ inbox' = [r \in Events |-> IF r \in notifying[e].hit
                 THEN [inbox[r] EXCEPT !.at = notifying[e].at, !.bodies = @ \cup {e}]
                 ELSE inbox[r]]
  /\ notifying' = [notifying EXCEPT ![e].pc = "done"]
  /\ UNCHANGED <<now, token, chip, acted, pushFaults>>

InsertNote(e) ==
  /\ notifying[e].pc = "insert"
  /\ inbox' = [inbox EXCEPT ![e] = [NoNote EXCEPT !.at = notifying[e].at, !.bodies = {e}]]
  /\ notifying' = [notifying EXCEPT ![e].pc = "plan"]
  /\ UNCHANGED <<now, token, chip, acted, pushFaults>>

\* should_push refuses, or the workspace has opted out, or every device is
\* looking at it: nobody is woken.  Otherwise the devices with a token are.
PlanFanout(e) ==
  /\ notifying[e].pc = "plan"
  /\ \E viewing \in SUBSET Devices :
       notifying' = [notifying EXCEPT ![e].pc = "push",
                       ![e].targets = {d \in Devices : token[d] # 0} \ viewing]
  /\ UNCHANGED <<now, inbox, token, chip, acted, pushFaults>>

\* deliver reports every target, then the reports are written one by one.
Woken(e, d) ==
  /\ notifying[e].pc = "push" /\ d \in notifying[e].targets
  /\ notifying' = [notifying EXCEPT ![e].targets = @ \ {d}]
  /\ UNCHANGED <<now, inbox, token, chip, acted, pushFaults>>

\* All attempts failed, or DeviceNotRegistered: that clears the device's token,
\* whichever it holds by now.
NotWoken(e, d, unregistered) ==
  /\ notifying[e].pc = "push" /\ d \in notifying[e].targets
  /\ PushFault
  /\ token' = IF unregistered THEN [token EXCEPT ![d] = 0] ELSE token
  /\ notifying' = [notifying EXCEPT ![e].targets = @ \ {d}]
  /\ UNCHANGED <<now, inbox, chip, acted>>

Notified(e) ==
  /\ notifying[e].pc = "push" /\ notifying[e].targets = {}
  /\ notifying' = [notifying EXCEPT ![e].pc = "done"]
  /\ UNCHANGED <<now, inbox, token, chip, acted, pushFaults>>

-----------------------------------------------------------------------------
(* The devices                                                             *)

UpdatePushToken(d) ==
  /\ token[d] < 2
  /\ token' = [token EXCEPT ![d] = 2]
  /\ UNCHANGED <<now, inbox, notifying, chip, acted, pushFaults>>

MarkRead(r) ==
  /\ r \in Rows /\ ~inbox[r].read
  /\ inbox' = [inbox EXCEPT ![r].read = TRUE]
  /\ UNCHANGED <<now, notifying, token, chip, acted, pushFaults>>

\* act_on_chip reads the row, then claims it where action_taken is NULL.
TapChip(r, d) ==
  /\ r \in Rows /\ chip[<<r, d>>] = "none"
  /\ chip' = [chip EXCEPT ![<<r, d>>] = "tapped"]
  /\ UNCHANGED <<now, inbox, notifying, token, acted, pushFaults>>

\* set_action_taken, and one without its condition on the marker.
ClaimAlways(r, d) ==
  /\ inbox' = [inbox EXCEPT ![r].marker = {d}]
  /\ chip' = [chip EXCEPT ![<<r, d>>] = "won"]

Claim(r, d) ==
  IF inbox[r].marker = {}
    THEN ClaimAlways(r, d)
    ELSE UNCHANGED inbox /\ chip' = [chip EXCEPT ![<<r, d>>] = "lost"]

SetActionTaken(r, d) ==
  /\ chip[<<r, d>>] = "tapped"
  /\ Claim(r, d)
  /\ UNCHANGED <<now, notifying, token, acted, pushFaults>>

\* The answer names the call; the winning device makes it, if it still can.
Dispatch(r, d) ==
  /\ chip[<<r, d>>] = "won" /\ r \notin acted
  /\ acted' = acted \cup {r}
  /\ UNCHANGED <<now, inbox, notifying, token, chip, pushFaults>>

NotifNext ==
  \/ TimePasses
  \/ \E e \in Events :
       \/ Lookup(e) \/ Refresh(e) \/ InsertNote(e) \/ PlanFanout(e) \/ Notified(e) \/ MarkRead(e)
       \/ \E d \in Devices :
            \/ Woken(e, d) \/ TapChip(e, d) \/ SetActionTaken(e, d) \/ Dispatch(e, d)
            \/ \E unregistered \in BOOLEAN : NotWoken(e, d, unregistered)
  \/ \E d \in Devices : UpdatePushToken(d)

NotifSpec == NotifInit /\ [][NotifNext]_ntVars

-----------------------------------------------------------------------------
NotifTypeOK ==
  /\ now \in 0..MaxNow
  /\ inbox \in [Events -> [at : 0..MaxNow, bodies : SUBSET Events, read : BOOLEAN,
                           marker : SUBSET Devices]]
  /\ notifying \in [Events -> [pc : {"none", "insert", "refresh", "plan", "push", "done"},
                               at : 0..MaxNow, hit : SUBSET Events, targets : SUBSET Devices]]
  /\ token \in [Devices -> 0..2] /\ acted \subseteq Events
  /\ chip \in [Taps -> {"none", "tapped", "won", "lost"}]

\* Of the devices that tap chips of one notification, at any time and whatever
\* refreshes the row meanwhile, one is told to carry the action out, and it is
\* the one on record (chip_dispatch.rs:85-113).
OneDeviceActs ==
  \A r \in Events : {d \in Devices : chip[<<r, d>>] = "won"} = inbox[r].marker
                    /\ Cardinality(inbox[r].marker) <= 1

\* "Record the denormalized first-wins UI marker AFTER the underlying action
\* resolved" (persist/src/notifications.rs:168).
MarkedIsResolved == \A r \in Events : inbox[r].marker # {} => r \in acted
=============================================================================
