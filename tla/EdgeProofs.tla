----------------------------- MODULE EdgeProofs -----------------------------
(***************************************************************************)
(* Proofs about what the Core meets from outside: the provider's check     *)
(* runs (VcsSync), the devices that tap a notification (Notifications) or  *)
(* are revoked (Devices), another Core (PidFile), and git's numbered refs  *)
(* of checkpoints (Checkpoint).                                            *)
(***************************************************************************)
EXTENDS VcsSync, Notifications, Devices, PidFile, Checkpoint, SchedulerProofs

-----------------------------------------------------------------------------
(* The check-run cache.                                                     *)

\* Version v was the provider's answer at a time t or later; a version that is
\* not replaced yet is current to the end of time.
CurrentAt(v, t) == v \in 1..checkRuns.v /\ t \in Nat /\ t <= clock /\ checkRuns.until[v] >= t

Entries == [at : 0..MaxClock, v : 0..(MaxChanges + 1)]
Fetchers == Readers \cup Deliveries
FetcherStates == [pc : {"idle", "fetch", "insert"}, start : 0..MaxClock, v : 0..(MaxChanges + 1)]
IngestStates == [pc : {"out", "verify", "refetch"}, answer : {"none", "accepted", "error"}]

\* A delivery is on record before its signature is checked.
NonceTaken == \A d \in Deliveries : ingest[d].pc = "verify" => d \in recorded

VcsTyped ==
  /\ clock \in 0..MaxClock
  /\ checkRuns \in [v : 1..(MaxChanges + 1), until : [1..(MaxChanges + 1) -> 0..MaxClock]]
  /\ cache \in Entries /\ served \in Entries
  /\ reader \in [Fetchers -> FetcherStates]
  /\ recorded \subseteq Deliveries /\ applied \subseteq recorded
  /\ ingest \in [Deliveries -> IngestStates]
  /\ NonceTaken

\* What a fetch and a cache entry begin with is well typed (checks.rs).
LEMMA VcsConstants ==
  /\ MaxClock \in Nat /\ MaxChanges \in Nat /\ Ttl \in Nat \ {0}
  /\ Empty \in Entries /\ Idle \in FetcherStates
  /\ VcsTyped => VcsTypeOK
<1>1. MaxClock \in Nat /\ MaxChanges \in Nat /\ Ttl \in Nat \ {0}
  BY VcsAssumption
<1> QED
  BY <1>1 DEF Entries, Empty, Idle, FetcherStates, VcsTyped, VcsTypeOK, Fetchers, IngestStates

\* Readers, deliveries, the provider and a restart keep the types.
LEMMA VcsNextTypes ==
  ASSUME VcsTyped, [VcsNext]_vcsVars
  PROVE  VcsTyped'
<1> USE VcsConstants DEF VcsTyped, NonceTaken
<1>00. ASSUME NEW r \in Fetchers PROVE Fetching(r) \in [Fetchers -> FetcherStates]
  <2>1. [Idle EXCEPT !.pc = "fetch", !.start = clock] \in FetcherStates
    BY DEF Idle, FetcherStates
  <2> QED
    BY <2>1 DEF Fetching
<1>Answers. ASSUME NEW d \in Deliveries, NEW a \in {"error", "accepted"},
                   ingest' = [ingest EXCEPT ![d] = [pc |-> "out", answer |-> a]]
            PROVE  /\ ingest' \in [Deliveries -> IngestStates]
                   /\ \A e \in Deliveries : ingest'[e].pc = "verify" => e \in recorded
  <2>1. [pc |-> "out", answer |-> a] \in IngestStates
    BY DEF IngestStates
  <2> QED
    BY <2>1, <1>Answers
<1>1. CASE Tick
  BY <1>1 DEF Tick
<1>2. CASE Change
  <2>1. checkRuns.v + 1 \in 1..(MaxChanges + 1)
    BY <1>2 DEF Change
  <2>2. [checkRuns.until EXCEPT ![checkRuns.v] = clock] \in [1..(MaxChanges + 1) -> 0..MaxClock]
    OBVIOUS
  <2> QED
    BY <1>2, <2>1, <2>2 DEF Change
<1>3. CASE VcsRestart
  <2>1. reader' \in [Fetchers -> FetcherStates]
    BY <1>3 DEF VcsRestart, Fetchers
  <2>2. ingest' \in [Deliveries -> IngestStates] /\ \A d \in Deliveries : ingest'[d].pc # "verify"
    BY <1>3 DEF VcsRestart, IngestStates
  <2> QED
    BY <1>3, <2>1, <2>2 DEF VcsRestart
<1>4. ASSUME NEW r \in Readers, ReadCache(r) PROVE VcsTyped'
  BY <1>4 DEF ReadCache, Entries
<1>5. ASSUME NEW r \in Readers, BeginFetch(r) PROVE VcsTyped'
  <2>1. reader' \in [Fetchers -> FetcherStates]
    BY <1>00, <1>5 DEF BeginFetch, Fetchers
  <2> QED
    BY <1>5, <2>1 DEF BeginFetch
<1>6. ASSUME NEW r \in Fetchers, Answered(r) PROVE VcsTyped'
  <2>1. [reader[r] EXCEPT !.pc = "insert", !.v = checkRuns.v] \in FetcherStates
    <3>1. reader[r] \in FetcherStates /\ checkRuns.v \in 0..(MaxChanges + 1)
      OBVIOUS
    <3> QED
      BY ONLY <3>1 DEF FetcherStates
  <2>2. reader' = [reader EXCEPT ![r] = [reader[r] EXCEPT !.pc = "insert", !.v = checkRuns.v]]
    BY <1>6 DEF Answered
  <2>3. reader' \in [Fetchers -> FetcherStates]
    BY <2>1, <2>2
  <2> QED
    BY <1>6, <2>3 DEF Answered
<1>7. ASSUME NEW r \in Fetchers, FetchFails(r) PROVE VcsTyped'
  BY <1>7 DEF FetchFails
<1>8. ASSUME NEW r \in Fetchers, Insert(r) PROVE VcsTyped'
  <2>1. Entry(r) \in Entries
    BY DEF Entry, Entries, FetcherStates
  <2> QED
    BY <1>8, <2>1 DEF Insert
<1>9. ASSUME NEW d \in Deliveries, DeliverWebhook(d) PROVE VcsTyped'
  <2>1. CASE d \in recorded
    <3>1. ingest' = [ingest EXCEPT ![d] = [pc |-> "out", answer |-> "accepted"]]
          /\ UNCHANGED <<clock, checkRuns, cache, reader, served, recorded, applied>>
      BY <1>9, <2>1 DEF DeliverWebhook, Answer
    <3> QED
      BY <3>1, <1>Answers
  <2>2. CASE d \notin recorded
    <3>1. recorded' = recorded \cup {d} /\ ingest' = [ingest EXCEPT ![d].pc = "verify"]
          /\ UNCHANGED <<clock, checkRuns, cache, reader, served, applied>>
      BY <1>9, <2>2 DEF DeliverWebhook
    <3>2. ingest' \in [Deliveries -> IngestStates]
      BY <3>1 DEF IngestStates
    <3>3. \A e \in Deliveries : ingest'[e].pc = "verify" => e \in recorded'
      BY <3>1
    <3> QED
      BY <3>1, <3>2, <3>3
  <2> QED
    BY <2>1, <2>2
<1>10. ASSUME NEW d \in Deliveries, RecordFails(d) \/ SecretFails(d) \/ Accept(d) PROVE VcsTyped'
  <2>1. PICK a \in {"error", "accepted"} :
          ingest' = [ingest EXCEPT ![d] = [pc |-> "out", answer |-> a]]
    BY <1>10 DEF RecordFails, SecretFails, Accept, Answer
  <2>2. UNCHANGED <<clock, checkRuns, cache, reader, served, recorded, applied>>
    BY <1>10 DEF RecordFails, SecretFails, Accept
  <2> QED
    BY <2>1, <2>2, <1>Answers
<1>11. ASSUME NEW d \in Deliveries, Invalidate(d) PROVE VcsTyped'
  <2>1. reader' \in [Fetchers -> FetcherStates]
    BY <1>00, <1>11 DEF Invalidate, Fetchers
  <2>2. ingest' \in [Deliveries -> IngestStates]
    BY <1>11 DEF Invalidate, IngestStates
  <2>3. \A e \in Deliveries : ingest'[e].pc = "verify" => e \in recorded
    BY <1>11 DEF Invalidate, IngestStates
  <2> QED
    BY <1>11, <2>1, <2>2, <2>3 DEF Invalidate
<1>12. CASE UNCHANGED vcsVars
  BY <1>12 DEF vcsVars
<1> QED
  BY <1>1, <1>2, <1>3, <1>4, <1>5, <1>6, <1>7, <1>8, <1>9, <1>10, <1>11, <1>12
     DEF VcsNext, Fetchers

\* Every version the cache, a fetcher or a reader holds was current when its
\* time stamp says, or later.
Stamped ==
  /\ \A v \in 1..(MaxChanges + 1) : v >= checkRuns.v => checkRuns.until[v] = MaxClock
  /\ cache # Empty => CurrentAt(cache.v, cache.at)
  /\ \A r \in Fetchers :
       /\ reader[r].start <= clock
       /\ reader[r].pc = "insert" => CurrentAt(reader[r].v, reader[r].start)
  /\ served # Empty => /\ served.v \in 1..checkRuns.v /\ served.at <= clock
                       /\ checkRuns.until[served.v] > served.at - Ttl

VcsInv == VcsTyped /\ Stamped

\* At the start nothing is cached, fetched or served.
LEMMA VcsInitInv == VcsInit => VcsInv
<1> SUFFICES ASSUME VcsInit PROVE VcsInv
  OBVIOUS
<1>1. VcsTyped
  BY VcsConstants DEF VcsInit, VcsTyped, NonceTaken, Fetchers, IngestStates
<1> QED
  BY <1>1, VcsConstants DEF VcsInit, VcsInv, Stamped, Idle, Fetchers

\* Time and the provider move on; what was current at a time stays so.
LEMMA CurrentStays ==
  ASSUME VcsTyped, Tick \/ Change \/ (UNCHANGED <<clock, checkRuns>>),
         NEW v, NEW t, CurrentAt(v, t)
  PROVE  CurrentAt(v, t)'
<1>1. CASE Tick
  BY <1>1, VcsConstants DEF Tick, CurrentAt, VcsTyped
<1>2. CASE Change
  BY <1>2, VcsConstants DEF Change, CurrentAt, VcsTyped
<1>3. CASE UNCHANGED <<clock, checkRuns>>
  BY <1>3 DEF CurrentAt
<1> QED
  BY <1>1, <1>2, <1>3

\* A fetch holds what the provider said after it began, and its entry bears
\* the time it began (fetched_at in check_runs).
LEMMA VcsNextInv == VcsInv /\ [VcsNext]_vcsVars => VcsInv'
<1> SUFFICES ASSUME VcsInv, [VcsNext]_vcsVars PROVE Stamped'
  BY VcsNextTypes DEF VcsInv
<1>0. VcsTyped /\ Stamped
  BY DEF VcsInv
<1> USE VcsConstants
<1>1. CASE Tick \/ Change
  <2>1. UNCHANGED <<cache, reader, served>>
    BY <1>1 DEF Tick, Change
  <2>2. \A v \in 1..(MaxChanges + 1) : v >= checkRuns'.v => checkRuns'.until[v] = MaxClock
    BY SMTT(30), <1>0, <1>1 DEF Tick, Change, Stamped, VcsTyped
  <2>3. ASSUME cache # Empty PROVE CurrentAt(cache.v, cache.at)'
    <3>1. PICK v, t : v = cache.v /\ t = cache.at /\ CurrentAt(v, t)
      BY <1>0, <2>3 DEF Stamped
    <3>2. CurrentAt(v, t)'
      BY <1>0, <1>1, <3>1, CurrentStays
    <3> QED
      BY <2>1, <3>1, <3>2 DEF CurrentAt
  <2>4. ASSUME NEW r \in Fetchers
        PROVE  /\ reader'[r].start <= clock'
               /\ reader'[r].pc = "insert" => CurrentAt(reader[r].v, reader[r].start)'
    <3>1. reader[r].start <= clock' 
      <4>1. reader[r].start \in 0..MaxClock /\ reader[r].start <= clock
        BY <1>0 DEF VcsTyped, FetcherStates, Stamped
      <4> QED
        BY <1>0, <1>1, <4>1 DEF Tick, Change, VcsTyped
    <3>2. ASSUME reader[r].pc = "insert" PROVE CurrentAt(reader[r].v, reader[r].start)'
      <4>1. PICK v, t : v = reader[r].v /\ t = reader[r].start /\ CurrentAt(v, t)
        BY <1>0, <3>2 DEF Stamped
      <4>2. CurrentAt(v, t)'
        BY <1>0, <1>1, <4>1, CurrentStays
      <4> QED
        BY <2>1, <4>1, <4>2 DEF CurrentAt
    <3> QED
      BY <2>1, <3>1, <3>2
  <2>5. ASSUME served # Empty
        PROVE  /\ served.v \in 1..checkRuns'.v /\ served.at <= clock'
               /\ checkRuns'.until[served.v] > served.at - Ttl
    <3>1. /\ served.v \in 1..checkRuns.v /\ served.at <= clock /\ served.at \in 0..MaxClock
          /\ checkRuns.until[served.v] > served.at - Ttl
      BY <1>0, <2>5 DEF Stamped, VcsTyped, Entries
    <3>2. CASE Tick
      BY <1>0, <3>1, <3>2 DEF Tick, VcsTyped
    <3>3. CASE Change
      <4>1. /\ checkRuns'.v = checkRuns.v + 1 /\ clock' = clock
            /\ checkRuns'.until = [checkRuns.until EXCEPT ![checkRuns.v] = clock]
        BY <3>3 DEF Change
      <4> QED
        BY SMTT(30), <1>0, <3>1, <4>1 DEF VcsTyped
    <3> QED
      BY <1>1, <3>2, <3>3
  <2> QED
    BY <2>1, <2>2, <2>3, <2>4, <2>5 DEF Stamped
<1>2. CASE VcsRestart
  BY <1>0, <1>2 DEF VcsRestart, Stamped, VcsTyped, CurrentAt, Idle, Fetchers
<1>3. ASSUME NEW r \in Readers, ReadCache(r) PROVE Stamped'
  <2>1. CurrentAt(cache.v, cache.at) /\ clock - cache.at < Ttl
    BY <1>0, <1>3 DEF ReadCache, Stamped
  <2>2. /\ served' = [at |-> clock, v |-> cache.v]
        /\ UNCHANGED <<clock, checkRuns, cache, reader>>
    BY <1>3 DEF ReadCache
  <2>3. checkRuns.until[cache.v] > clock - Ttl
    BY SMTT(30), <1>0, <2>1 DEF CurrentAt, VcsTyped, Entries
  <2>4. served'.v \in 1..checkRuns.v /\ served'.at = clock /\ served'.v = cache.v
    BY <2>1, <2>2 DEF CurrentAt
  <2> QED
    BY <1>0, <2>2, <2>3, <2>4 DEF Stamped, CurrentAt, VcsTyped
<1>4. ASSUME NEW r \in Fetchers, reader' = Fetching(r), cache' \in {cache, Empty},
             UNCHANGED <<clock, checkRuns, served>>
      PROVE  Stamped'
  <2>1. /\ reader'[r].pc = "fetch" /\ reader'[r].start = clock
        /\ \A q \in Fetchers \ {r} : reader'[q] = reader[q]
    BY <1>0, <1>4 DEF Fetching, Idle, VcsTyped
  <2>2. cache' # Empty => CurrentAt(cache.v, cache.at) /\ cache' = cache
    BY <1>0, <1>4 DEF Stamped
  <2>3. \A q \in Fetchers :
           /\ reader'[q].start <= clock
           /\ reader'[q].pc = "insert" => CurrentAt(reader'[q].v, reader'[q].start)
    BY <1>0, <2>1 DEF Stamped, VcsTyped
  <2> QED
    BY <1>0, <1>4, <2>2, <2>3 DEF Stamped, CurrentAt
<1>5. ASSUME NEW r \in Fetchers, Answered(r) PROVE Stamped'
  <2>1. /\ reader'[r].v = checkRuns.v /\ reader'[r].start = reader[r].start
        /\ \A q \in Fetchers \ {r} : reader'[q] = reader[q]
        /\ UNCHANGED <<clock, checkRuns, cache, served>>
    BY <1>0, <1>5 DEF Answered, VcsTyped, FetcherStates
  <2>2. CurrentAt(checkRuns.v, reader[r].start)
    BY <1>0 DEF CurrentAt, Stamped, VcsTyped, FetcherStates
  <2> QED
    BY <1>0, <2>1, <2>2 DEF Stamped, CurrentAt, VcsTyped
<1>6. ASSUME NEW r \in Fetchers, reader' = [reader EXCEPT ![r] = Idle],
             cache' = cache \/ (reader[r].pc = "insert" /\ cache' = Entry(r)),
             UNCHANGED <<clock, checkRuns, served>>
      PROVE  Stamped'
  <2>1. /\ reader'[r] = Idle /\ \A q \in Fetchers \ {r} : reader'[q] = reader[q]
    BY <1>0, <1>6 DEF VcsTyped
  <2>2. reader[r].pc = "insert" => CurrentAt(Entry(r).v, Entry(r).at)
    BY <1>0 DEF Stamped, Entry
  <2> QED
    BY <1>0, <1>6, <2>1, <2>2 DEF Stamped, CurrentAt, VcsTyped, Idle
<1>7. ASSUME UNCHANGED <<clock, checkRuns, cache, reader, served>> PROVE Stamped'
  BY <1>0, <1>7 DEF Stamped, CurrentAt
<1> QED
  BY <1>1, <1>2, <1>3, <1>4, <1>5, <1>6, <1>7
     DEF VcsNext, BeginFetch, FetchFails, Insert, DeliverWebhook, RecordFails, SecretFails,
         Invalidate, Accept, Fetchers, vcsVars

(* What the cache serves was current at the provider less than Ttl ago       *)
(* (StalenessBounded).                                                       *)
THEOREM StalenessIsBounded == VcsSpec => []StalenessBounded
<1>1. VcsInv => StalenessBounded
  BY DEF VcsInv, Stamped, StalenessBounded
<1> QED
  BY <1>1, VcsInitInv, VcsNextInv, PTL DEF VcsSpec

(* Provider, cache, fetchers and deliveries are well typed, and only what is *)
(* on record is applied.                                                     *)
THEOREM VcsTypesHold == VcsSpec => []VcsTypeOK
<1>1. VcsInv => VcsTypeOK
  BY VcsConstants DEF VcsInv
<1> QED
  BY <1>1, VcsInitInv, VcsNextInv, PTL DEF VcsSpec
-----------------------------------------------------------------------------
(* The inbox and its chips.                                                 *)

NoteStates == [at : 0..MaxNow, bodies : SUBSET Events, read : BOOLEAN, marker : SUBSET Devices]
NotifyStates == [pc : {"none", "insert", "refresh", "plan", "push", "done"},
                 at : 0..MaxNow, hit : SUBSET Events, targets : SUBSET Devices]

\* A notify has no row of its own before it inserts one, it refreshes rows that
\* are there, and chips are tapped on rows that are there.
NotesInPlace ==
  /\ \A e \in Events : notifying[e].pc \in {"none", "insert"} => inbox[e] = NoNote
  /\ \A e \in Events : notifying[e].hit \subseteq Rows
  /\ \A r \in Events, d \in Devices : chip[<<r, d>>] # "none" => r \in Rows

\* The devices that were told to act on a row are the one on its marker.
OneWinner(r) ==
  /\ {d \in Devices : chip[<<r, d>>] = "won"} = inbox[r].marker
  /\ \A c, d \in inbox[r].marker : c = d

NotifInv == NotifTypeOK /\ NotesInPlace /\ \A r \in Events : OneWinner(r)

\* What a row and a notify call begin with is well typed.
LEMMA NotifConstants ==
  /\ MaxNow \in Nat /\ NoNote \in NoteStates /\ NotYet \in NotifyStates
  /\ NotifTypeOK => /\ inbox \in [Events -> NoteStates] /\ notifying \in [Events -> NotifyStates]
                    /\ now \in 0..MaxNow /\ token \in [Devices -> 0..2] /\ acted \subseteq Events
                    /\ chip \in [Taps -> {"none", "tapped", "won", "lost"}]
<1>1. MaxNow \in Nat
  BY NotificationsAssumption
<1> QED
  BY <1>1 DEF NoNote, NotYet, NoteStates, NotifyStates, NotifTypeOK

\* Every write of an inbox row or of a call's progress is well typed.
LEMMA NotifNextTypes == NotifTypeOK /\ [NotifNext]_ntVars => NotifTypeOK'
<1> SUFFICES ASSUME NotifTypeOK, [NotifNext]_ntVars PROVE NotifTypeOK'
  OBVIOUS
<1>0. /\ MaxNow \in Nat /\ NoNote \in NoteStates
      /\ inbox \in [Events -> NoteStates] /\ notifying \in [Events -> NotifyStates]
      /\ now \in 0..MaxNow /\ token \in [Devices -> 0..2] /\ acted \subseteq Events
      /\ chip \in [Taps -> {"none", "tapped", "won", "lost"}]
  BY NotifConstants
<1>s. SUFFICES /\ inbox' \in [Events -> NoteStates] /\ notifying' \in [Events -> NotifyStates]
               /\ now' \in 0..MaxNow /\ token' \in [Devices -> 0..2] /\ acted' \subseteq Events
               /\ chip' \in [Taps -> {"none", "tapped", "won", "lost"}]
  BY DEF NoteStates, NotifyStates, NotifTypeOK
<1>1. CASE TimePasses
  BY <1>0, <1>1 DEF TimePasses
<1>2. ASSUME NEW e \in Events, notifying[e] \in NotifyStates,
             NEW s \in NotifyStates, notifying' = [notifying EXCEPT ![e] = s],
             UNCHANGED <<now, inbox, chip, acted>>, token' \in [Devices -> 0..2]
      PROVE  <1>s!1
  BY <1>0, <1>2
<1>3. ASSUME NEW e \in Events, Lookup(e) PROVE <1>s!1
  <2>0. notifying[e] \in NotifyStates
    BY <1>0
  <2>1. [notifying[e] EXCEPT !.pc = "insert", !.at = now] \in NotifyStates
    BY <1>0, <2>0 DEF NotifyStates
  <2>2. \A r \in Events : [notifying[e] EXCEPT !.pc = "refresh", !.at = now, !.hit = {r}] \in NotifyStates
    BY <1>0, <2>0 DEF NotifyStates
  <2>3. CASE notifying' = [notifying EXCEPT ![e].pc = "insert", ![e].at = now]
    <3>1. notifying' = [notifying EXCEPT ![e] = [notifying[e] EXCEPT !.pc = "insert", !.at = now]]
      BY <1>0, <2>3
    <3> QED
      BY <1>2, <1>3, <1>0, <2>0, <2>1, <3>1 DEF Lookup
  <2>4. ASSUME NEW r \in Candidates,
               notifying' = [notifying EXCEPT ![e] = [@ EXCEPT !.pc = "refresh", !.at = now, !.hit = {r}]]
        PROVE  <1>s!1
    <3>1. r \in Events
      BY DEF Candidates, Rows
    <3>2. notifying' = [notifying EXCEPT ![e] =
                          [notifying[e] EXCEPT !.pc = "refresh", !.at = now, !.hit = {r}]]
      BY <1>0, <2>4
    <3> QED
      BY <1>2, <1>3, <1>0, <2>0, <2>2, <3>1, <3>2 DEF Lookup
  <2> QED
    BY <1>3, <2>3, <2>4 DEF Lookup
<1>4. ASSUME NEW e \in Events, Refresh(e) PROVE <1>s!1
  <2>1. notifying[e] \in NotifyStates
    BY <1>0
  <2>2. [notifying[e] EXCEPT !.pc = "done"] \in NotifyStates
    BY <2>1 DEF NotifyStates
  <2>3. ASSUME NEW r \in Events
        PROVE  [inbox[r] EXCEPT !.at = notifying[e].at, !.bodies = @ \cup {e}] \in NoteStates
    <3>1. inbox[r] \in NoteStates /\ notifying[e].at \in 0..MaxNow
      BY <1>0, <2>1 DEF NotifyStates
    <3> QED
      BY <3>1 DEF NoteStates
  <2>4. inbox' \in [Events -> NoteStates]
    BY <1>0, <1>4, <2>3 DEF Refresh
  <2>5. notifying' = [notifying EXCEPT ![e] = [notifying[e] EXCEPT !.pc = "done"]]
    BY <1>0, <1>4 DEF Refresh
  <2>6. notifying' \in [Events -> NotifyStates]
    BY <1>0, <2>2, <2>5
  <2> QED
    BY <1>0, <1>4, <2>4, <2>6 DEF Refresh
<1>5. ASSUME NEW e \in Events, InsertNote(e) PROVE <1>s!1
  <2>1. notifying[e] \in NotifyStates
    BY <1>0
  <2>2. [notifying[e] EXCEPT !.pc = "plan"] \in NotifyStates
    BY <2>1 DEF NotifyStates
  <2>3. [NoNote EXCEPT !.at = notifying[e].at, !.bodies = {e}] \in NoteStates
    BY <1>0, <2>1 DEF NotifyStates, NoteStates
  <2>4. notifying' = [notifying EXCEPT ![e] = [notifying[e] EXCEPT !.pc = "plan"]]
    BY <1>0, <1>5 DEF InsertNote
  <2>5. notifying' \in [Events -> NotifyStates]
    BY <1>0, <2>2, <2>4
  <2>6. inbox' \in [Events -> NoteStates]
    BY <1>0, <1>5, <2>3 DEF InsertNote
  <2> QED
    BY <1>0, <1>5, <2>5, <2>6 DEF InsertNote
<1>6. ASSUME NEW e \in Events, PlanFanout(e) PROVE <1>s!1
  <2>1. PICK viewing \in SUBSET Devices :
          notifying' = [notifying EXCEPT ![e].pc = "push",
                          ![e].targets = {d \in Devices : token[d] # 0} \ viewing]
    BY <1>6 DEF PlanFanout
  <2> DEFINE targets == {d \in Devices : token[d] # 0} \ viewing
  <2>2. notifying[e] \in NotifyStates /\ targets \subseteq Devices
    BY <1>0
  <2>3. notifying' = [notifying EXCEPT ![e] = [notifying[e] EXCEPT !.pc = "push", !.targets = targets]]
    BY <1>0, <2>1
  <2> HIDE DEF targets
  <2>4. [notifying[e] EXCEPT !.pc = "push", !.targets = targets] \in NotifyStates
    BY <2>2 DEF NotifyStates
  <2> QED
    BY <1>0, <1>2, <1>6, <2>2, <2>3, <2>4 DEF PlanFanout
<1>7. ASSUME NEW e \in Events, NEW d \in Devices,
             notifying' = [notifying EXCEPT ![e].targets = @ \ {d}],
             UNCHANGED <<now, inbox, chip, acted>>, token' \in [Devices -> 0..2]
      PROVE  <1>s!1
  <2>1. notifying[e] \in NotifyStates
    BY <1>0
  <2>2. [notifying[e] EXCEPT !.targets = @ \ {d}] \in NotifyStates
    BY <2>1 DEF NotifyStates
  <2>3. notifying' = [notifying EXCEPT ![e] = [notifying[e] EXCEPT !.targets = @ \ {d}]]
    BY <1>0, <1>7
  <2> QED
    BY <1>2, <1>7, <2>1, <2>2, <2>3
<1>8. ASSUME NEW e \in Events, NEW d \in Devices,
             Woken(e, d) \/ \E unregistered \in BOOLEAN : NotWoken(e, d, unregistered)
      PROVE  <1>s!1
  <2>1. /\ notifying' = [notifying EXCEPT ![e].targets = @ \ {d}]
        /\ UNCHANGED <<now, inbox, chip, acted>>
        /\ token' \in {token, [token EXCEPT ![d] = 0]}
    BY <1>8 DEF Woken, NotWoken
  <2>2. token' \in [Devices -> 0..2]
    BY <1>0, <2>1
  <2> QED
    BY <1>7, <2>1, <2>2
<1>9. ASSUME NEW e \in Events, Notified(e) PROVE <1>s!1
  <2>1. notifying[e] \in NotifyStates
    BY <1>0
  <2>2. [notifying[e] EXCEPT !.pc = "done"] \in NotifyStates
    BY <2>1 DEF NotifyStates
  <2>3. notifying' = [notifying EXCEPT ![e] = [notifying[e] EXCEPT !.pc = "done"]]
    BY <1>0, <1>9 DEF Notified
  <2> QED
    BY <1>0, <1>2, <1>9, <2>1, <2>2, <2>3 DEF Notified
<1>10. ASSUME NEW r \in Events, MarkRead(r) PROVE <1>s!1
  <2>1. inbox[r] \in NoteStates
    BY <1>0
  <2>2. [inbox[r] EXCEPT !.read = TRUE] \in NoteStates
    BY <2>1 DEF NoteStates
  <2>3. inbox' = [inbox EXCEPT ![r] = [inbox[r] EXCEPT !.read = TRUE]]
    BY <1>0, <1>10 DEF MarkRead
  <2> QED
    BY <1>0, <1>10, <2>2, <2>3 DEF MarkRead
<1>11. ASSUME NEW r \in Events, NEW d \in Devices,
              TapChip(r, d) \/ SetActionTaken(r, d) \/ Dispatch(r, d)
       PROVE  <1>s!1
  <2>1. <<r, d>> \in Taps /\ inbox[r] \in NoteStates
    BY <1>0 DEF Taps
  <2>2. [inbox[r] EXCEPT !.marker = {d}] \in NoteStates
    BY <2>1 DEF NoteStates
  <2>3. /\ UNCHANGED <<now, notifying, token>> /\ acted' \subseteq Events
        /\ \E a \in {"none", "tapped", "won", "lost"} : chip' = [chip EXCEPT ![<<r, d>>] = a] \/ chip' = chip
        /\ inbox' = inbox \/ inbox' = [inbox EXCEPT ![r].marker = {d}]
    BY <1>0, <1>11 DEF TapChip, SetActionTaken, Claim, ClaimAlways, Dispatch
  <2>4. inbox' \in [Events -> NoteStates]
    <3>1. inbox' = inbox \/ inbox' = [inbox EXCEPT ![r] = [inbox[r] EXCEPT !.marker = {d}]]
      BY <1>0, <2>3
    <3> QED
      BY <1>0, <2>2, <3>1
  <2>5. chip' \in [Taps -> {"none", "tapped", "won", "lost"}]
    BY <1>0, <2>1, <2>3
  <2> QED
    BY <1>0, <2>3, <2>4, <2>5
<1>12. ASSUME NEW d \in Devices, UpdatePushToken(d) PROVE <1>s!1
  BY <1>0, <1>12 DEF UpdatePushToken
<1>13. CASE UNCHANGED ntVars
  BY <1>0, <1>13 DEF ntVars
<1> QED
  BY <1>1, <1>3, <1>4, <1>5, <1>6, <1>8, <1>9, <1>10, <1>11, <1>12, <1>13 DEF NotifNext

\* At the start no row and no chip is there.
LEMMA NotifInitInv == NotifInit => NotifInv
<1> SUFFICES ASSUME NotifInit PROVE NotifInv
  OBVIOUS
<1>1. NotifTypeOK
  BY NotifConstants DEF NotifInit, NotifTypeOK, NoteStates, NotifyStates
<1>2. NotesInPlace
  BY DEF NotifInit, NotesInPlace, Taps, NotYet
<1>3. \A r \in Events : OneWinner(r)
  BY DEF NotifInit, OneWinner, Taps, NoNote
<1> QED
  BY <1>1, <1>2, <1>3 DEF NotifInv

\* What a step leaves of a row: it keeps a row a row, and what is no row becomes
\* one by the insert of its own notify only.
LEMMA NotifNextInv == NotifInv /\ [NotifNext]_ntVars => NotifInv'
<1> SUFFICES ASSUME NotifInv, [NotifNext]_ntVars PROVE NotesInPlace' /\ \A r \in Events : OneWinner(r)'
  BY NotifNextTypes DEF NotifInv
<1>0. /\ NoNote \in NoteStates
      /\ inbox \in [Events -> NoteStates] /\ notifying \in [Events -> NotifyStates]
      /\ chip \in [Taps -> {"none", "tapped", "won", "lost"}]
      /\ NotesInPlace /\ \A r \in Events : OneWinner(r)
  BY NotifConstants DEF NotifInv
<1> DEFINE Goal == NotesInPlace' /\ \A r \in Events : OneWinner(r)'
<1>1. ASSUME UNCHANGED <<inbox, chip>>,
             NEW e \in Events, \A f \in Events \ {e} : notifying'[f] = notifying[f],
             notifying'[e].pc \in {"none", "insert"} => notifying[e].pc \in {"none", "insert"},
             notifying'[e].hit \subseteq Rows
      PROVE  Goal
  <2>1. NotesInPlace'
    BY <1>0, <1>1 DEF NotesInPlace, Rows
  <2>2. \A r \in Events : OneWinner(r)'
    BY <1>0, <1>1 DEF OneWinner
  <2> QED
    BY <2>1, <2>2
<1>2. CASE UNCHANGED <<inbox, chip, notifying>>
  <2>1. NotesInPlace'
    BY <1>0, <1>2 DEF NotesInPlace, Rows
  <2>2. \A r \in Events : OneWinner(r)'
    BY <1>0, <1>2 DEF OneWinner
  <2> QED
    BY <2>1, <2>2
<1>3. ASSUME NEW e \in Events,
             \/ Lookup(e) \/ PlanFanout(e) \/ Notified(e)
             \/ \E d \in Devices : Woken(e, d) \/ \E u \in BOOLEAN : NotWoken(e, d, u)
      PROVE  Goal
  <2>0. notifying[e] \in NotifyStates /\ notifying[e].hit \subseteq Rows
    BY <1>0 DEF NotesInPlace
  <2>1. UNCHANGED <<inbox, chip>> /\ \A f \in Events \ {e} : notifying'[f] = notifying[f]
    BY <1>0, <1>3 DEF Lookup, PlanFanout, Notified, Woken, NotWoken
  <2>2. /\ notifying'[e].pc \in {"none", "insert"} => notifying[e].pc \in {"none", "insert"}
        /\ notifying'[e].hit \subseteq Rows
    <3>1. CASE Lookup(e)
      <4>1. notifying[e].pc = "none"
        BY <3>1 DEF Lookup
      <4>2. CASE notifying' = [notifying EXCEPT ![e].pc = "insert", ![e].at = now]
        BY <1>0, <2>0, <4>1, <4>2 DEF NotifyStates
      <4>3. ASSUME NEW r \in Candidates,
                   notifying' = [notifying EXCEPT ![e] = [@ EXCEPT !.pc = "refresh", !.at = now, !.hit = {r}]]
            PROVE  notifying'[e].hit \subseteq Rows /\ notifying[e].pc = "none"
        BY <1>0, <2>0, <4>1, <4>3 DEF NotifyStates, Candidates
      <4> QED
        BY <3>1, <4>1, <4>2, <4>3 DEF Lookup
    <3>2. CASE PlanFanout(e)
      <4>1. PICK viewing \in SUBSET Devices :
              notifying' = [notifying EXCEPT ![e].pc = "push",
                              ![e].targets = {d \in Devices : token[d] # 0} \ viewing]
        BY <3>2 DEF PlanFanout
      <4> QED
        BY <1>0, <2>0, <4>1 DEF NotifyStates
    <3>3. CASE Notified(e)
      BY <1>0, <2>0, <3>3 DEF Notified, NotifyStates
    <3>4. ASSUME NEW d \in Devices, notifying' = [notifying EXCEPT ![e].targets = @ \ {d}]
          PROVE  notifying'[e].pc = notifying[e].pc /\ notifying'[e].hit = notifying[e].hit
      BY <1>0, <2>0, <3>4 DEF NotifyStates
    <3> QED
      BY <1>3, <2>0, <3>1, <3>2, <3>3, <3>4 DEF Woken, NotWoken
  <2> QED
    BY <1>1, <2>1, <2>2
<1>4. ASSUME Rows \subseteq Rows',
             \A r \in Events : inbox'[r].marker = inbox[r].marker,
             UNCHANGED chip,
             \A e \in Events : /\ notifying'[e].hit = notifying[e].hit
                               /\ notifying'[e].pc \in {"none", "insert"} =>
                                    inbox'[e] = inbox[e] /\ notifying[e].pc \in {"none", "insert"}
      PROVE  Goal
  <2>1. NotesInPlace'
    <3>1. \A e \in Events : notifying'[e].pc \in {"none", "insert"} => inbox'[e] = NoNote
      BY <1>0, <1>4 DEF NotesInPlace
    <3>2. \A e \in Events : notifying'[e].hit \subseteq Rows'
      BY <1>0, <1>4 DEF NotesInPlace
    <3>3. \A r \in Events, d \in Devices : chip'[<<r, d>>] # "none" => r \in Rows'
      BY <1>0, <1>4 DEF NotesInPlace
    <3> QED
      BY <3>1, <3>2, <3>3 DEF NotesInPlace
  <2>2. \A r \in Events : OneWinner(r)'
    BY <1>0, <1>4 DEF OneWinner
  <2> QED
    BY <2>1, <2>2
<1>5. ASSUME NEW e \in Events, Refresh(e) PROVE Goal
  <2>0. notifying[e] \in NotifyStates /\ notifying[e].hit \subseteq Rows
    BY <1>0 DEF NotesInPlace
  <2>1. ASSUME NEW r \in Events
        PROVE  /\ r \in notifying[e].hit => inbox'[r].bodies = inbox[r].bodies \cup {e}
               /\ r \notin notifying[e].hit => inbox'[r] = inbox[r]
               /\ inbox'[r].marker = inbox[r].marker
    <3>1. inbox[r] \in NoteStates
      BY <1>0
    <3> QED
      BY <1>5, <3>1 DEF Refresh, NoteStates
  <2>2. Rows \subseteq Rows'
    <3>1. ASSUME NEW r \in Rows PROVE r \in Rows'
      <4>1. r \in Events /\ inbox[r] # NoNote
        BY DEF Rows
      <4>2. CASE r \in notifying[e].hit
        <5>1. e \in inbox'[r].bodies /\ NoNote.bodies = {}
          BY <2>1, <4>1, <4>2 DEF NoNote
        <5> QED
          BY <4>1, <5>1 DEF Rows
      <4>3. CASE r \notin notifying[e].hit
        BY <2>1, <4>1, <4>3 DEF Rows, NoNote
      <4> QED
        BY <4>2, <4>3
    <3> QED
      BY <3>1
  <2>3. \A f \in Events : notifying'[f] = IF f = e THEN [notifying[e] EXCEPT !.pc = "done"] ELSE notifying[f]
    BY <1>0, <1>5 DEF Refresh
  <2>4. ASSUME NEW f \in Events
        PROVE  /\ notifying'[f].hit = notifying[f].hit
               /\ notifying'[f].pc \in {"none", "insert"} =>
                    inbox'[f] = inbox[f] /\ notifying[f].pc \in {"none", "insert"}
    <3>1. notifying[f].pc \in {"none", "insert"} => f \notin notifying[e].hit
      BY <1>0, <2>0 DEF NotesInPlace, Rows
    <3> QED
      BY <2>0, <2>1, <2>3, <3>1 DEF NotifyStates
  <2> QED
    BY <1>4, <1>5, <2>1, <2>2, <2>4 DEF Refresh
<1>6. ASSUME NEW e \in Events, InsertNote(e) PROVE Goal
  <2>0. notifying[e] \in NotifyStates /\ inbox[e] = NoNote
    BY <1>0, <1>6 DEF NotesInPlace, InsertNote
  <2>1. /\ inbox'[e].bodies = {e} /\ inbox'[e].marker = {} /\ NoNote.marker = {} /\ NoNote.bodies = {}
        /\ \A r \in Events \ {e} : inbox'[r] = inbox[r]
    BY <1>0, <1>6 DEF InsertNote, NoNote
  <2>2. Rows \subseteq Rows'
    <3>1. ASSUME NEW r \in Rows PROVE r \in Rows'
      <4>1. r \in Events \ {e} /\ inbox[r] # NoNote
        BY <2>0 DEF Rows
      <4>2. inbox'[r] = inbox[r]
        BY <2>1, <4>1
      <4> QED
        BY <4>1, <4>2 DEF Rows, NoNote
    <3> QED
      BY <3>1
  <2>3. /\ notifying'[e].pc = "plan" /\ notifying'[e].hit = notifying[e].hit
        /\ \A f \in Events \ {e} : notifying'[f] = notifying[f]
    BY <1>0, <1>6, <2>0 DEF InsertNote, NotifyStates
  <2> QED
    BY <1>4, <1>6, <2>0, <2>1, <2>2, <2>3 DEF InsertNote
<1>7. ASSUME NEW r \in Events, MarkRead(r) PROVE Goal
  <2>0. inbox[r] \in NoteStates /\ inbox[r] # NoNote
    BY <1>0, <1>7 DEF MarkRead, Rows
  <2>1. /\ inbox'[r].read = TRUE /\ inbox'[r].marker = inbox[r].marker
        /\ \A q \in Events \ {r} : inbox'[q] = inbox[q]
    BY <1>0, <1>7, <2>0 DEF MarkRead, NoteStates
  <2>2. Rows \subseteq Rows'
    BY <2>1 DEF Rows, NoNote
  <2>3. notifying[r].pc \notin {"none", "insert"}
    BY <1>0, <2>0 DEF NotesInPlace
  <2> QED
    BY <1>4, <1>7, <2>1, <2>2, <2>3 DEF MarkRead
<1>8. ASSUME NEW r \in Events, NEW d \in Devices, TapChip(r, d) PROVE Goal
  <2>1. /\ UNCHANGED <<inbox, notifying>> /\ r \in Rows
        /\ \A q \in Events, c \in Devices :
             <<q, c>> # <<r, d>> => chip'[<<q, c>>] = chip[<<q, c>>]
        /\ chip[<<r, d>>] = "none" /\ chip'[<<r, d>>] = "tapped"
    BY <1>0, <1>8 DEF TapChip, Taps
  <2>2. NotesInPlace'
    BY <1>0, <2>1 DEF NotesInPlace, Rows
  <2>3. \A q \in Events : OneWinner(q)'
    BY <1>0, <2>1 DEF OneWinner
  <2> QED
    BY <2>2, <2>3
<1>9. ASSUME NEW r \in Events, NEW d \in Devices, SetActionTaken(r, d) PROVE Goal
  <2>0. <<r, d>> \in Taps /\ r \in Rows /\ inbox[r] \in NoteStates
    BY <1>0, <1>9 DEF Taps, SetActionTaken, NotesInPlace
  <2>1. CASE inbox[r].marker = {}
    <3>1. /\ UNCHANGED notifying
          /\ inbox' = [inbox EXCEPT ![r].marker = {d}]
          /\ chip' = [chip EXCEPT ![<<r, d>>] = "won"]
      BY <1>9, <2>1 DEF SetActionTaken, Claim, ClaimAlways
    <3>2. /\ inbox'[r].marker = {d} /\ \A q \in Events \ {r} : inbox'[q] = inbox[q]
          /\ chip'[<<r, d>>] = "won"
          /\ \A q \in Events, c \in Devices :
               <<q, c>> # <<r, d>> => chip'[<<q, c>>] = chip[<<q, c>>]
      BY <1>0, <2>0, <3>1 DEF NoteStates, Taps
    <3>3. Rows \subseteq Rows'
      BY <3>2 DEF Rows, NoNote
    <3>4. notifying[r].pc \notin {"none", "insert"}
      BY <1>0, <2>0 DEF NotesInPlace, Rows
    <3>5. NotesInPlace'
      <4>1. \A e \in Events : notifying'[e].pc \in {"none", "insert"} => inbox'[e] = NoNote
        BY <1>0, <3>1, <3>2, <3>4 DEF NotesInPlace
      <4>2. \A e \in Events : notifying'[e].hit \subseteq Rows'
        BY <1>0, <3>1, <3>3 DEF NotesInPlace
      <4>3. \A q \in Events, c \in Devices : chip'[<<q, c>>] # "none" => q \in Rows'
        BY <1>0, <2>0, <3>2, <3>3 DEF NotesInPlace
      <4> QED
        BY <4>1, <4>2, <4>3 DEF NotesInPlace
    <3>6. ASSUME NEW q \in Events PROVE OneWinner(q)'
      <4>1. OneWinner(q)
        BY <1>0
      <4>2. CASE q = r
        <5>1. {c \in Devices : chip[<<r, c>>] = "won"} = {}
          BY <4>1, <4>2, <2>1 DEF OneWinner
        <5>2. {c \in Devices : chip'[<<r, c>>] = "won"} = {d}
          BY <3>2, <5>1
        <5> QED
          BY <3>2, <4>2, <5>2 DEF OneWinner
      <4>3. CASE q # r
        <5>1. inbox'[q] = inbox[q] /\ \A c \in Devices : chip'[<<q, c>>] = chip[<<q, c>>]
          BY <3>2, <4>3
        <5> QED
          BY <4>1, <5>1 DEF OneWinner
      <4> QED
        BY <4>2, <4>3
    <3> QED
      BY <3>5, <3>6
  <2>2. CASE inbox[r].marker # {}
    <3>1. /\ UNCHANGED <<inbox, notifying>>
          /\ chip[<<r, d>>] = "tapped" /\ chip'[<<r, d>>] = "lost"
          /\ \A q \in Events, c \in Devices :
               <<q, c>> # <<r, d>> => chip'[<<q, c>>] = chip[<<q, c>>]
      BY <1>0, <1>9, <2>0, <2>2 DEF SetActionTaken, Claim, Taps
    <3>2. NotesInPlace'
      BY <1>0, <2>0, <3>1 DEF NotesInPlace, Rows
    <3>3. \A q \in Events : OneWinner(q)'
      BY <1>0, <3>1 DEF OneWinner
    <3> QED
      BY <3>2, <3>3
  <2> QED
    BY <2>1, <2>2
<1> QED
  BY <1>2, <1>3, <1>5, <1>6, <1>7, <1>8, <1>9
     DEF NotifNext, TimePasses, Dispatch, UpdatePushToken, ntVars

(* However many devices tap chips of one notification, and whatever refreshes *)
(* its row meanwhile, one is told to act and is the one on record             *)
(* (OneDeviceActs; act_on_chip, set_action_taken).                            *)
THEOREM OneDeviceActsHolds == NotifSpec => []OneDeviceActs
<1>1. NotifInv => OneDeviceActs
  <2> SUFFICES ASSUME NotifInv, NEW r \in Events
               PROVE  /\ {d \in Devices : chip[<<r, d>>] = "won"} = inbox[r].marker
                      /\ Cardinality(inbox[r].marker) <= 1
    BY DEF OneDeviceActs
  <2>1. OneWinner(r)
    BY DEF NotifInv
  <2> QED
    BY <2>1, AtMostOne DEF OneWinner
<1> QED
  BY <1>1, NotifInitInv, NotifNextInv, PTL DEF NotifSpec

(* The rows, tokens and calls of the notifications keep their types         *)
(* (notifications/mod.rs), whatever the interleaving of events and taps.    *)
THEOREM NotifTypesHold == NotifSpec => []NotifTypeOK
<1>1. NotifInv => NotifTypeOK
  BY DEF NotifInv
<1> QED
  BY <1>1, NotifInitInv, NotifNextInv, PTL DEF NotifSpec
-----------------------------------------------------------------------------
(* Paired devices: the tokens.                                              *)

AttemptStates == [pc : {"idle", "verified", "issue", "paired", "refused"},
                  token : 0..MaxTokens, at : 0..MaxMoments]
DeviceStates == [state : {"none", "paired", "revoked"}, token : 0..MaxTokens, at : 0..MaxMoments]
RevokeStates == [pc : {"idle", "row"}, hit : BOOLEAN]

DevTyped ==
  /\ moment \in 0..MaxMoments /\ minted \in 0..MaxTokens
  /\ DOMAIN tokens \subseteq 1..minted /\ Cardinality(DOMAIN tokens) <= TokenCap
  /\ attempt \in [Attempts -> AttemptStates]
  /\ devices \in [Phones -> DeviceStates]
  /\ revoking \in [Phones -> RevokeStates]
  /\ revokedSet \subseteq Phones /\ told \subseteq Phones

\* A token that is taken out never comes back.
Spent(k) == k \in (1..minted) \ DOMAIN tokens
Holds(a, k) == attempt[a].pc = "issue" /\ attempt[a].token = k
Bears(d, k) == devices[d].state # "none" /\ devices[d].token = k

\* A token out of the table is held by one call or borne by one device, at most.
TokensInv ==
  /\ \A a \in Attempts : attempt[a].token <= minted
  /\ \A a \in Attempts, k \in Nat : Holds(a, k) => Spent(k)
  /\ \A d \in Phones, k \in Nat : Bears(d, k) => Spent(k)
  /\ \A a, b \in Attempts, k \in Nat : Holds(a, k) /\ Holds(b, k) => a = b
  /\ \A d, e \in Phones, k \in Nat : Bears(d, k) /\ Bears(e, k) => d = e
  /\ \A a \in Attempts, d \in Phones, k \in Nat : ~(Holds(a, k) /\ Bears(d, k))
  /\ \A d \in Phones : devices[d].state = "none" => devices[d].token = 0

\* Whose revocation has reached its row, and whose has been reported.
RevokedInv ==
  /\ told \subseteq revokedSet
  /\ \A d \in Phones : d \in told \/ revoking[d].pc = "row" => devices[d].state = "revoked"

DevInv == DevTyped /\ TokensInv /\ RevokedInv

\* What a pairing, a device and a revocation begin with is well typed.
LEMMA DevConstants ==
  /\ MaxMoments \in Nat /\ MaxTokens \in Nat /\ TokenCap \in Nat \ {0}
  /\ NoAttempt \in AttemptStates /\ NoDevice \in DeviceStates /\ Rest \in RevokeStates
<1>1. MaxMoments \in Nat /\ MaxTokens \in Nat /\ TokenCap \in Nat \ {0}
  BY DevicesAssumption
<1> QED
  BY <1>1 DEF NoAttempt, NoDevice, Rest, AttemptStates, DeviceStates, RevokeStates

\* A table made of part of another keeps the bound on active tokens.
LEMMA FewerTokens ==
  ASSUME DevTyped, NEW S, S \subseteq DOMAIN tokens
  PROVE  IsFiniteSet(S) /\ Cardinality(S) \in Nat /\ Cardinality(S) <= TokenCap
<1>1. IsFiniteSet(DOMAIN tokens) /\ DOMAIN tokens \subseteq 1..minted
  <2>1. IsFiniteSet(1..minted)
    <3>1. 1 \in Int /\ minted \in Int
      BY DevConstants DEF DevTyped
    <3> QED
      BY <3>1, FS_Interval
  <2> QED
    BY <2>1, FS_Subset DEF DevTyped
<1>2. IsFiniteSet(S) /\ Cardinality(S) <= Cardinality(DOMAIN tokens)
  BY <1>1, FS_Subset
<1>3. Cardinality(S) \in Nat /\ Cardinality(DOMAIN tokens) \in Nat /\ TokenCap \in Nat
  BY <1>1, <1>2, FS_CardinalityType, DevConstants
<1> QED
  BY <1>2, <1>3 DEF DevTyped

\* mint, after the oldest have made room.
LEMMA MintTypes ==
  ASSUME DevTyped, StartPairing
  PROVE  /\ minted' = minted + 1 /\ minted < MaxTokens
         /\ DOMAIN tokens' \subseteq DOMAIN tokens \cup {minted'}
         /\ Cardinality(DOMAIN tokens') <= TokenCap
<1>1. PICK keep \in SUBSET Live(moment) :
        /\ Cardinality(keep) = IF Cardinality(Live(moment)) < TokenCap
                                 THEN Cardinality(Live(moment)) ELSE TokenCap - 1
        /\ tokens' = [k \in keep \cup {minted'} |-> IF k = minted' THEN moment ELSE tokens[k]]
  BY DEF StartPairing
<1>2. DOMAIN tokens' = keep \cup {minted'} /\ Live(moment) \subseteq DOMAIN tokens
  BY <1>1 DEF Live
<1>3. IsFiniteSet(keep) /\ Cardinality(keep) \in Nat /\ Cardinality(Live(moment)) \in Nat
  BY <1>1, <1>2, FewerTokens
<1>4. Cardinality(keep \cup {minted'}) <= Cardinality(keep) + 1
  BY <1>3, FS_AddElement
<1>5. Cardinality(keep) + 1 <= TokenCap
  BY <1>1, <1>3, DevConstants
<1>6. Cardinality(keep \cup {minted'}) \in Nat
  BY <1>3, FS_AddElement, FS_CardinalityType
<1> QED
  BY <1>1, <1>2, <1>3, <1>4, <1>5, <1>6, DevConstants DEF StartPairing

\* Every step of the pairing and the revocation calls is well typed.
LEMMA DevNextTypes == DevInv /\ [DevicesNext]_devVars => DevTyped'
<1> SUFFICES ASSUME DevInv, [DevicesNext]_devVars PROVE DevTyped'
  OBVIOUS
<1>0. DevTyped /\ TokensInv
  BY DEF DevInv
<1> USE DevConstants DEF DevTyped
<1>1. CASE TokenTick
  BY <1>0, <1>1 DEF TokenTick
<1>2. CASE StartPairing
  BY <1>0, <1>2, MintTypes DEF StartPairing
<1>3. CASE DevicesBoot
  <2>1. \A a \in Attempts : [attempt[a] EXCEPT !.pc = "refused"] \in AttemptStates
    <3>1. \A a \in Attempts : attempt[a] \in AttemptStates
      BY <1>0
    <3> QED
      BY <3>1 DEF AttemptStates
  <2>2. attempt' \in [Attempts -> AttemptStates] /\ revoking' \in [Phones -> RevokeStates]
    BY <1>0, <1>3, <2>1 DEF DevicesBoot
  <2>3. DOMAIN tokens' = {} /\ Cardinality({}) = 0
    BY <1>3, FS_EmptySet DEF DevicesBoot
  <2> QED
    BY <1>0, <1>3, <2>2, <2>3 DEF DevicesBoot
<1>4. ASSUME NEW a \in Attempts, NEW k \in Token, BeginPairing(a, k) PROVE DevTyped'
  <2>1. [pc |-> "verified", token |-> k, at |-> moment] \in AttemptStates
    BY <1>0 DEF AttemptStates, Token
  <2> QED
    BY <1>0, <1>4, <2>1 DEF BeginPairing
<1>5. ASSUME NEW a \in Attempts, NEW p \in {"issue", "paired", "refused"},
             attempt' = [attempt EXCEPT ![a].pc = p]
      PROVE  attempt' \in [Attempts -> AttemptStates]
  <2>1. attempt[a] \in AttemptStates
    BY <1>0
  <2>2. [attempt[a] EXCEPT !.pc = p] \in AttemptStates
    BY <2>1 DEF AttemptStates
  <2>3. attempt' = [attempt EXCEPT ![a] = [attempt[a] EXCEPT !.pc = p]]
    BY <1>0, <1>5
  <2> QED
    BY <1>0, <2>2, <2>3
<1>6. ASSUME NEW a \in Attempts, Consume(a) PROVE DevTyped'
  <2>1. attempt' \in [Attempts -> AttemptStates]
    BY <1>5, <1>6 DEF Consume
  <2>2. DOMAIN tokens' \subseteq DOMAIN tokens
    BY <1>6 DEF Consume, Consumed
  <2>3. Cardinality(DOMAIN tokens') <= TokenCap
    BY <1>0, <2>2, FewerTokens
  <2> QED
    BY <1>0, <1>6, <2>1, <2>2, <2>3 DEF Consume
<1>7. ASSUME NEW a \in Attempts, NEW d \in Phones, InsertDevice(a, d) PROVE DevTyped'
  <2>0. attempt[a] \in AttemptStates
    BY <1>0
  <2>1. attempt' \in [Attempts -> AttemptStates]
    BY <1>5, <1>7 DEF InsertDevice
  <2>2. [state |-> "paired", token |-> attempt[a].token, at |-> attempt[a].at] \in DeviceStates
    BY <2>0 DEF AttemptStates, DeviceStates
  <2> QED
    BY <1>0, <1>7, <2>1, <2>2 DEF InsertDevice
<1>8. ASSUME NEW a \in Attempts, InsertDeviceFails(a) PROVE DevTyped'
  <2>1. attempt' \in [Attempts -> AttemptStates]
    BY <1>5, <1>8 DEF InsertDeviceFails
  <2> QED
    BY <1>0, <1>8, <2>1 DEF InsertDeviceFails
<1>9. ASSUME NEW d \in Phones, RevokeRow(d) PROVE DevTyped'
  <2>1. devices[d] \in DeviceStates
    BY <1>0
  <2>2. [devices[d] EXCEPT !.state = "revoked"] \in DeviceStates
    BY <2>1 DEF DeviceStates
  <2>3. devices' = [devices EXCEPT ![d] = [devices[d] EXCEPT !.state = "revoked"]]
    BY <1>0, <1>9 DEF RevokeRow
  <2>4. [pc |-> "row", hit |-> devices[d].state = "paired"] \in RevokeStates
    BY DEF RevokeStates
  <2> QED
    BY <1>0, <1>9, <2>2, <2>3, <2>4 DEF RevokeRow
<1>10. ASSUME NEW d \in Phones, MirrorRevoked(d) \/ RevokeDropped(d) PROVE DevTyped'
  BY <1>0, <1>10 DEF MirrorRevoked, RevokeDropped, Refused
<1>11. CASE UNCHANGED devVars
  BY <1>0, <1>11 DEF devVars
<1> QED
  BY <1>1, <1>2, <1>3, <1>4, <1>6, <1>7, <1>8, <1>9, <1>10, <1>11 DEF DevicesNext

\* How tokens move: minted, taken out by one call, handed to one device.
LEMMA DevNextTokens == DevInv /\ [DevicesNext]_devVars => TokensInv'
<1> SUFFICES ASSUME DevInv, [DevicesNext]_devVars PROVE TokensInv'
  OBVIOUS
<1>0. /\ DevTyped /\ TokensInv /\ DevTyped'
      /\ attempt \in [Attempts -> AttemptStates] /\ devices \in [Phones -> DeviceStates]
      /\ minted \in Nat /\ DOMAIN tokens \subseteq 1..minted
  BY DevNextTypes, DevConstants DEF DevInv, DevTyped
<1>1. ASSUME minted' \in Nat, minted' >= minted, DOMAIN tokens' \cap (1..minted) \subseteq DOMAIN tokens,
             \A a \in Attempts, k \in Nat : Holds(a, k)' => Holds(a, k),
             \A d \in Phones, k \in Nat : Bears(d, k)' => Bears(d, k),
             \A a \in Attempts : attempt'[a].token <= minted',
             \A d \in Phones : devices'[d].state = "none" => devices'[d].token = 0
      PROVE  TokensInv'
  <2>1. \A k \in Nat : Spent(k) => Spent(k)'
    BY <1>0, <1>1 DEF Spent
  <2>2. \A a \in Attempts, k \in Nat : Holds(a, k)' => Spent(k)'
    BY <1>0, <1>1, <2>1 DEF TokensInv
  <2>3. \A d \in Phones, k \in Nat : Bears(d, k)' => Spent(k)'
    BY <1>0, <1>1, <2>1 DEF TokensInv
  <2>4. \A a, b \in Attempts, k \in Nat : Holds(a, k)' /\ Holds(b, k)' => a = b
    BY <1>0, <1>1 DEF TokensInv
  <2>5. \A d, e \in Phones, k \in Nat : Bears(d, k)' /\ Bears(e, k)' => d = e
    BY <1>0, <1>1 DEF TokensInv
  <2>6. \A a \in Attempts, d \in Phones, k \in Nat : ~(Holds(a, k)' /\ Bears(d, k)')
    BY <1>0, <1>1 DEF TokensInv
  <2> QED
    BY <1>1, <2>2, <2>3, <2>4, <2>5, <2>6 DEF TokensInv
<1>2. CASE StartPairing
  <2>1. /\ UNCHANGED <<attempt, devices>> /\ minted' = minted + 1
        /\ DOMAIN tokens' \subseteq DOMAIN tokens \cup {minted'}
    BY <1>0, <1>2, MintTypes DEF StartPairing
  <2>2. \A a \in Attempts : attempt[a].token \in Nat
    BY <1>0, DevConstants DEF AttemptStates
  <2> QED
    BY <1>0, <1>1, <2>1, <2>2 DEF Holds, Bears, TokensInv
<1>3. CASE DevicesBoot
  <2>1. /\ UNCHANGED <<minted, devices>> /\ DOMAIN tokens' = {}
        /\ \A a \in Attempts : attempt'[a] = IF attempt[a].pc \in {"verified", "issue"}
                                      THEN [attempt[a] EXCEPT !.pc = "refused"] ELSE attempt[a]
    BY <1>3 DEF DevicesBoot
  <2>2. \A a \in Attempts : attempt[a] \in AttemptStates
    BY <1>0
  <2>3. \A a \in Attempts : attempt'[a].token = attempt[a].token /\ attempt'[a].pc # "issue"
    BY <2>1, <2>2 DEF AttemptStates
  <2> QED
    BY <1>0, <1>1, <2>1, <2>3 DEF Holds, Bears, TokensInv
<1>4. ASSUME NEW a \in Attempts, NEW k \in Token, BeginPairing(a, k) PROVE TokensInv'
  <2>1. /\ UNCHANGED <<minted, tokens, devices>>
        /\ attempt'[a].pc = "verified" /\ attempt'[a].token = k /\ k <= minted
        /\ \A b \in Attempts \ {a} : attempt'[b] = attempt[b]
    BY <1>0, <1>4 DEF BeginPairing
  <2> QED
    BY <1>0, <1>1, <2>1 DEF Holds, Bears, TokensInv
<1>5. ASSUME NEW a \in Attempts, NEW p \in {"paired", "refused"},
             attempt' = [attempt EXCEPT ![a].pc = p],
             minted' = minted, DOMAIN tokens' \subseteq DOMAIN tokens, devices' = devices
      PROVE  TokensInv'
  <2>1. attempt[a] \in AttemptStates
    BY <1>0
  <2>2. /\ attempt'[a].pc = p /\ attempt'[a].token = attempt[a].token
        /\ \A b \in Attempts \ {a} : attempt'[b] = attempt[b]
    BY <1>0, <1>5, <2>1 DEF AttemptStates
  <2> QED
    BY <1>0, <1>1, <1>5, <2>2 DEF Holds, Bears, TokensInv
<1>6. ASSUME NEW a \in Attempts, Consume(a) PROVE TokensInv'
  <2>0. attempt[a] \in AttemptStates
    BY <1>0
  <2> DEFINE k == attempt[a].token
  <2>1. UNCHANGED <<minted, devices>> /\ DOMAIN tokens' = DOMAIN tokens \ {k}
    BY <1>6 DEF Consume, Consumed
  <2>2. CASE k \in Live(attempt[a].at)
    <3>1. attempt' = [attempt EXCEPT ![a].pc = "issue"] /\ k \in DOMAIN tokens
      BY <1>6, <2>2 DEF Consume, Live
    <3>2. /\ attempt'[a].pc = "issue" /\ attempt'[a].token = k
          /\ \A b \in Attempts \ {a} : attempt'[b] = attempt[b]
      BY <1>0, <2>0, <3>1 DEF AttemptStates
    <3>3. k \in Nat /\ ~Spent(k)
      BY <1>0, <3>1 DEF Spent
    <3> HIDE DEF k
    <3>4. \A b \in Attempts, j \in Nat : Holds(b, j)' => Holds(b, j) \/ (b = a /\ j = k)
      BY <3>2 DEF Holds
    <3>5. \A d \in Phones, j \in Nat : Bears(d, j)' <=> Bears(d, j)
      BY <2>1 DEF Bears
    <3>6. \A j \in Nat : Spent(j)' <=> Spent(j) \/ j = k
      BY <1>0, <2>1, <3>1, <3>3 DEF Spent
    <3>7. \A b \in Attempts : attempt'[b].token <= minted'
      BY <1>0, <2>1, <3>2 DEF TokensInv, k
    <3>8. \A b \in Attempts : ~Holds(b, k)
      BY <1>0, <3>3 DEF TokensInv
    <3>9. \A d \in Phones : ~Bears(d, k)
      BY <1>0, <3>3 DEF TokensInv
    <3>10. \A b, c \in Attempts, j \in Nat : Holds(b, j)' /\ Holds(c, j)' => b = c
      BY <1>0, <3>4, <3>8 DEF TokensInv
    <3>11. \A b \in Attempts, d \in Phones, j \in Nat : ~(Holds(b, j)' /\ Bears(d, j)')
      BY <1>0, <3>4, <3>5, <3>9 DEF TokensInv
    <3>12. \A d, e \in Phones, j \in Nat : Bears(d, j)' /\ Bears(e, j)' => d = e
      BY <1>0, <3>5 DEF TokensInv
    <3>13. \A b \in Attempts, j \in Nat : Holds(b, j)' => Spent(j)'
      BY <1>0, <3>4, <3>6 DEF TokensInv
    <3>14. \A d \in Phones, j \in Nat : Bears(d, j)' => Spent(j)'
      BY <1>0, <3>5, <3>6 DEF TokensInv
    <3>15. \A d \in Phones : devices'[d].state = "none" => devices'[d].token = 0
      BY <1>0, <2>1 DEF TokensInv
    <3> QED
      BY <3>7, <3>10, <3>11, <3>12, <3>13, <3>14, <3>15 DEF TokensInv
  <2>3. CASE k \notin Live(attempt[a].at)
    <3>1. attempt' = [attempt EXCEPT ![a].pc = "refused"]
      BY <1>6, <2>3 DEF Consume
    <3> QED
      BY <1>5, <2>1, <3>1
  <2> QED
    BY <2>2, <2>3
<1>7. ASSUME NEW a \in Attempts, NEW d \in Phones, InsertDevice(a, d) PROVE TokensInv'
  <2>0. attempt[a] \in AttemptStates
    BY <1>0
  <2>1. CASE devices[d].state = "none"
    <3> DEFINE k == attempt[a].token
    <3>1. /\ UNCHANGED <<minted, tokens>>
          /\ devices' = [devices EXCEPT ![d] = [state |-> "paired", token |-> k, at |-> attempt[a].at]]
          /\ attempt' = [attempt EXCEPT ![a].pc = "paired"]
      BY <1>7, <2>1 DEF InsertDevice
    <3>2. /\ devices'[d].state = "paired" /\ devices'[d].token = k
          /\ \A e \in Phones \ {d} : devices'[e] = devices[e]
      BY <1>0, <3>1
    <3>3. /\ attempt'[a].pc = "paired" /\ attempt'[a].token = k
          /\ \A b \in Attempts \ {a} : attempt'[b] = attempt[b]
      BY <1>0, <2>0, <3>1 DEF AttemptStates
    <3>4. k \in Nat /\ Holds(a, k)
      BY <1>7, <2>0, DevConstants DEF InsertDevice, Holds, AttemptStates
    <3> HIDE DEF k
    <3>5. \A b \in Attempts, j \in Nat : Holds(b, j)' => Holds(b, j) /\ j # k
      BY <1>0, <3>3, <3>4 DEF Holds, TokensInv
    <3>6. \A e \in Phones, j \in Nat : Bears(e, j)' => Bears(e, j) \/ (e = d /\ j = k)
      BY <3>2 DEF Bears
    <3>7. \A j \in Nat : Spent(j)' <=> Spent(j)
      BY <3>1 DEF Spent
    <3>8. Spent(k) /\ \A e \in Phones : ~Bears(e, k)
      BY <1>0, <3>4 DEF TokensInv
    <3>9. \A b \in Attempts : attempt'[b].token <= minted'
      BY <1>0, <3>1, <3>3 DEF TokensInv, k
    <3>10. \A b, c \in Attempts, j \in Nat : Holds(b, j)' /\ Holds(c, j)' => b = c
      BY <1>0, <3>5 DEF TokensInv
    <3>11. \A b \in Attempts, e \in Phones, j \in Nat : ~(Holds(b, j)' /\ Bears(e, j)')
      BY <1>0, <3>5, <3>6 DEF TokensInv
    <3>12. \A c, e \in Phones, j \in Nat : Bears(c, j)' /\ Bears(e, j)' => c = e
      BY <1>0, <3>6, <3>8 DEF TokensInv
    <3>13. \A b \in Attempts, j \in Nat : Holds(b, j)' => Spent(j)'
      BY <1>0, <3>5, <3>7 DEF TokensInv
    <3>14. \A e \in Phones, j \in Nat : Bears(e, j)' => Spent(j)'
      BY <1>0, <3>6, <3>7, <3>8 DEF TokensInv
    <3>15. \A e \in Phones : devices'[e].state = "none" => devices'[e].token = 0
      BY <1>0, <3>2 DEF TokensInv
    <3> QED
      BY <3>9, <3>10, <3>11, <3>12, <3>13, <3>14, <3>15 DEF TokensInv
  <2>2. CASE devices[d].state # "none"
    <3>1. attempt' = [attempt EXCEPT ![a].pc = "refused"] /\ UNCHANGED <<minted, tokens, devices>>
      BY <1>7, <2>2 DEF InsertDevice
    <3> QED
      BY <1>5, <3>1
  <2> QED
    BY <2>1, <2>2
<1>8. ASSUME NEW a \in Attempts, InsertDeviceFails(a) PROVE TokensInv'
  BY <1>5, <1>8 DEF InsertDeviceFails
<1>9. ASSUME NEW d \in Phones, RevokeRow(d) PROVE TokensInv'
  <2>0. devices[d] \in DeviceStates
    BY <1>0
  <2>1. /\ UNCHANGED <<minted, tokens, attempt>> /\ devices[d].state # "none"
        /\ devices'[d].state = "revoked" /\ devices'[d].token = devices[d].token
        /\ \A e \in Phones \ {d} : devices'[e] = devices[e]
    BY <1>0, <1>9, <2>0 DEF RevokeRow, DeviceStates
  <2> QED
    BY <1>0, <1>1, <2>1 DEF Holds, Bears, TokensInv
<1>10. CASE UNCHANGED <<minted, tokens, attempt, devices>>
  BY <1>0, <1>1, <1>10 DEF Holds, Bears, TokensInv
<1> QED
  BY <1>2, <1>3, <1>4, <1>6, <1>7, <1>8, <1>9, <1>10
     DEF DevicesNext, TokenTick, MirrorRevoked, RevokeDropped, devVars

\* The row is written before the set, and what a restart loses of the set it
\* reads back from the rows.
LEMMA DevNextRevoked == DevInv /\ [DevicesNext]_devVars => RevokedInv'
<1> SUFFICES ASSUME DevInv, [DevicesNext]_devVars PROVE RevokedInv'
  OBVIOUS
<1>0. /\ RevokedInv /\ devices \in [Phones -> DeviceStates] /\ revoking \in [Phones -> RevokeStates]
      /\ told \subseteq Phones
  BY DEF DevInv, DevTyped
<1>1. CASE DevicesBoot
  BY <1>0, <1>1 DEF DevicesBoot, RevokedInv, Rest
<1>2. ASSUME NEW a \in Attempts, NEW d \in Phones, InsertDevice(a, d) PROVE RevokedInv'
  <2>1. /\ UNCHANGED <<revoking, revokedSet, told>>
        /\ \A e \in Phones : devices[e].state # "none" => devices'[e] = devices[e]
    BY <1>0, <1>2 DEF InsertDevice
  <2> QED
    BY <1>0, <2>1 DEF RevokedInv
<1>3. ASSUME NEW d \in Phones, RevokeRow(d) PROVE RevokedInv'
  <2>0. devices[d] \in DeviceStates
    BY <1>0
  <2>1. /\ UNCHANGED <<revokedSet, told>> /\ devices'[d].state = "revoked"
        /\ \A e \in Phones \ {d} : devices'[e] = devices[e] /\ revoking'[e] = revoking[e]
    BY <1>0, <1>3, <2>0 DEF RevokeRow, DeviceStates
  <2> QED
    BY <1>0, <2>1 DEF RevokedInv
<1>4. ASSUME NEW d \in Phones, MirrorRevoked(d) \/ RevokeDropped(d) PROVE RevokedInv'
  <2>1. /\ UNCHANGED devices /\ revoking'[d].pc = "idle"
        /\ \A e \in Phones \ {d} : revoking'[e] = revoking[e]
    BY <1>0, <1>4 DEF MirrorRevoked, RevokeDropped, Rest
  <2> QED
    BY <1>0, <1>4, <2>1 DEF RevokedInv, MirrorRevoked, RevokeDropped, Refused
<1>5. CASE UNCHANGED <<devices, revoking, revokedSet, told>>
  BY <1>0, <1>5 DEF RevokedInv
<1> QED
  BY <1>1, <1>2, <1>3, <1>4, <1>5
     DEF DevicesNext, TokenTick, StartPairing, BeginPairing, Consume, InsertDeviceFails, devVars

\* The inductive invariant of the devices.
LEMMA DevInvHolds == DevicesSpec => []DevInv
<1>1. DevicesInit => DevInv
  <2> SUFFICES ASSUME DevicesInit PROVE DevInv
    OBVIOUS
  <2>1. DOMAIN tokens = {} /\ Cardinality({}) = 0
    BY FS_EmptySet DEF DevicesInit
  <2>2. DevTyped
    BY <2>1, DevConstants DEF DevicesInit, DevTyped
  <2>3. TokensInv
    BY DevConstants DEF DevicesInit, TokensInv, Holds, Bears, NoAttempt, NoDevice
  <2>4. RevokedInv
    BY DEF DevicesInit, RevokedInv, Rest
  <2> QED
    BY <2>2, <2>3, <2>4 DEF DevInv
<1> QED
  BY <1>1, DevNextTypes, DevNextTokens, DevNextRevoked, PTL DEF DevicesSpec, DevInv

(* A device whose revocation was reported is in the set that requests are    *)
(* checked against, although the row and the set are written apart, a call   *)
(* may be dropped between them, and the set does not survive a restart       *)
(* (RevokedIsRefused; revoke_device, mirror_revoked_devices).                *)
THEOREM RevokedIsRefusedHolds == DevicesSpec => []RevokedIsRefused
<1>1. DevInv => RevokedIsRefused
  BY DEF DevInv, RevokedInv, RevokedIsRefused
<1> QED
  BY <1>1, DevInvHolds, PTL

(* One pairing token pairs one device, however many calls present it and     *)
(* whatever is restarted between (OneDevicePerToken; consume, issue).        *)
THEOREM OneDevicePerTokenHolds == DevicesSpec => []OneDevicePerToken
<1>1. DevInv => OneDevicePerToken
  <2> SUFFICES ASSUME DevInv, NEW d \in Phones, NEW e \in Phones, d # e, devices[d].state # "none"
               PROVE  devices[d].token # devices[e].token
    BY DEF OneDevicePerToken
  <2>1. devices[d].token \in Nat /\ Bears(d, devices[d].token) /\ TokensInv
    BY DevConstants DEF DevInv, DevTyped, DeviceStates, Bears
  <2>2. Spent(devices[d].token)
    BY <2>1 DEF TokensInv
  <2>3. CASE devices[e].state = "none"
    BY <2>1, <2>2, <2>3 DEF TokensInv, Spent
  <2>4. CASE devices[e].state # "none"
    BY <2>1, <2>4 DEF TokensInv, Bears
  <2> QED
    BY <2>3, <2>4
<1> QED
  BY <1>1, DevInvHolds, PTL

(* The tables of pairing and revocation are well typed, and no more than      *)
(* TokenCap tokens are active (DevicesTypeOK; mint's eviction of the oldest). *)
THEOREM DevicesTypesHold == DevicesSpec => []DevicesTypeOK
<1>1. DevInv => DevicesTypeOK
  BY DevConstants DEF DevInv, DevTyped, DevicesTypeOK, AttemptStates, DeviceStates, RevokeStates, Token
<1> QED
  BY <1>1, DevInvHolds, PTL
-----------------------------------------------------------------------------
(* The pid file.                                                            *)

ProcStates == [at : {"out", "open", "probe", "break", "retake", "locked", "held", "unlink"},
               fd : 0..MaxInodes]

\* While no Core has stopped, the path has named one file since it was created:
\* everyone who has a file open has that one, and who runs holds its lock.
OneFile ==
  /\ path = made
  /\ \A p \in Cores :
       /\ proc[p].at # "unlink"
       /\ proc[p].at \in {"open", "probe", "retake", "locked", "held"} =>
            proc[p].fd = path /\ path # 0
       /\ proc[p].at \in {"locked", "held"} => holder[path] = p

PidInv == PidTypeOK /\ stops \in Nat /\ (stops = 0 => OneFile)

\* Every step of a starting, running or dying Core is well typed.
LEMMA PidNextTypes == PidTypeOK /\ [PidNext]_pidVars => PidTypeOK'
<1> SUFFICES ASSUME PidTypeOK, [PidNext]_pidVars PROVE PidTypeOK'
  OBVIOUS
<1>0. /\ MaxInodes \in Nat \ {0} /\ path \in 0..MaxInodes /\ made \in 0..MaxInodes
      /\ holder \in [Inode -> Cores \cup {NoCore}] /\ stamped \in [Inode -> Cores \cup {NoCore}]
      /\ proc \in [Cores -> ProcStates] /\ Out \in ProcStates
  BY PidAssumption DEF PidTypeOK, ProcStates, Out
<1>s. SUFFICES /\ path' \in 0..MaxInodes /\ made' \in 0..MaxInodes
               /\ holder' \in [Inode -> Cores \cup {NoCore}]
               /\ stamped' \in [Inode -> Cores \cup {NoCore}]
               /\ proc' \in [Cores -> ProcStates]
  BY DEF PidTypeOK, ProcStates
<1>1. ASSUME NEW p \in Cores, NEW a \in {"open", "retake"}, Opens(p, a)
      PROVE  /\ path' \in 0..MaxInodes /\ made' \in 0..MaxInodes /\ proc' \in [Cores -> ProcStates]
  <2>1. path' \in 0..MaxInodes /\ made' \in 0..MaxInodes
    BY <1>0, <1>1 DEF Opens
  <2>2. [at |-> a, fd |-> path'] \in ProcStates
    BY <2>1 DEF ProcStates
  <2> QED
    BY <1>0, <1>1, <2>1, <2>2 DEF Opens
<1>2. ASSUME NEW p \in Cores, StartCore(p) \/ Break(p) PROVE <1>s!1
  BY <1>0, <1>1, <1>2 DEF StartCore, Break
<1>3. ASSUME NEW p \in Cores, NEW a \in {"probe", "locked", "held"}
      PROVE  [proc[p] EXCEPT !.at = a] \in ProcStates
  <2>1. proc[p] \in ProcStates
    BY <1>0
  <2> QED
    BY <2>1 DEF ProcStates
<1>4. ASSUME NEW p \in Cores, TryLock(p) PROVE <1>s!1
  <2>1. proc' = [proc EXCEPT ![p] = [proc[p] EXCEPT !.at = "locked"]]
        \/ proc' = [proc EXCEPT ![p] = [proc[p] EXCEPT !.at = "probe"]]
        \/ proc' = [proc EXCEPT ![p] = Out]
    BY <1>0, <1>4 DEF TryLock
  <2>2. proc' \in [Cores -> ProcStates]
    BY <1>0, <1>3, <2>1
  <2> QED
    BY <1>0, <1>4, <2>2 DEF TryLock
<1>5. ASSUME NEW p \in Cores, WriteRecord(p) PROVE <1>s!1
  <2>1. proc' = [proc EXCEPT ![p] = [proc[p] EXCEPT !.at = "held"]]
    BY <1>0, <1>5 DEF WriteRecord
  <2>2. proc' \in [Cores -> ProcStates]
    BY <1>0, <1>3, <2>1
  <2> QED
    BY <1>0, <1>5, <2>2 DEF WriteRecord
<1>6. ASSUME NEW p \in Cores, Probe(p) \/ DropFd(p) \/ RemoveFile(p) \/ KillCore(p) PROVE <1>s!1
  <2>1. [at |-> "break", fd |-> 0] \in ProcStates /\ [at |-> "unlink", fd |-> 0] \in ProcStates
    BY <1>0 DEF ProcStates
  <2> QED
    BY <1>0, <1>6, <2>1 DEF Probe, DropFd, RemoveFile, KillCore, Freed
<1>7. CASE UNCHANGED pidVars
  BY <1>0, <1>7 DEF pidVars
<1> QED
  BY <1>2, <1>4, <1>5, <1>6, <1>7 DEF PidNext

\* Starts, kills and breaks keep to the one file.
LEMMA PidNextInv == PidInv /\ [PidNext]_pidVars => PidInv'
<1> SUFFICES ASSUME PidInv, [PidNext]_pidVars PROVE stops' \in Nat /\ (stops' = 0 => OneFile')
  BY PidNextTypes DEF PidInv
<1>0. /\ MaxInodes \in Nat \ {0} /\ path \in 0..MaxInodes /\ made \in 0..MaxInodes
      /\ NoCore \notin Cores
      /\ holder \in [Inode -> Cores \cup {NoCore}] /\ proc \in [Cores -> ProcStates]
      /\ stops \in Nat /\ (stops = 0 => OneFile)
  BY PidAssumption DEF PidInv, PidTypeOK, ProcStates
<1> DEFINE Goal == stops' \in Nat /\ (stops' = 0 => OneFile')
<1>1. ASSUME NEW p \in Cores, StartCore(p) \/ Break(p) PROVE Goal
  <2>1. PICK a \in {"open", "retake"} : Opens(p, a) /\ UNCHANGED <<holder, stops>>
    BY <1>1 DEF StartCore, Break
  <2>2. /\ proc'[p].at = a /\ proc'[p].fd = path' /\ \A q \in Cores \ {p} : proc'[q] = proc[q]
        /\ IF path # 0 THEN UNCHANGED <<path, made>> ELSE made' = made + 1 /\ path' = made + 1
    BY <1>0, <2>1 DEF Opens
  <2> QED
    BY <1>0, <2>1, <2>2 DEF OneFile
<1>2. ASSUME NEW p \in Cores, TryLock(p) PROVE Goal
  <2>0. proc[p] \in ProcStates
    BY <1>0
  <2>1. UNCHANGED <<path, made, stops>> /\ proc[p].at \in {"open", "retake"}
    BY <1>2 DEF TryLock
  <2>2. CASE holder[proc[p].fd] = NoCore
    <3>1. /\ holder' = [holder EXCEPT ![proc[p].fd] = p]
          /\ proc'[p].at = "locked" /\ proc'[p].fd = proc[p].fd
          /\ \A q \in Cores \ {p} : proc'[q] = proc[q]
      BY <1>0, <1>2, <2>0, <2>2 DEF TryLock, ProcStates
    <3> SUFFICES ASSUME stops = 0 PROVE OneFile'
      BY <1>0, <2>1
    <3>2. OneFile /\ proc[p].fd = path /\ path \in Inode
      BY <1>0, <2>1 DEF OneFile, Inode
    <3>3. \A q \in Cores \ {p} : proc[q].at \notin {"locked", "held"}
      BY <1>0, <2>2, <3>2 DEF OneFile
    <3> QED
      BY <1>0, <2>1, <3>1, <3>2, <3>3 DEF OneFile
  <2>3. CASE holder[proc[p].fd] # NoCore
    <3>1. /\ UNCHANGED holder
          /\ proc'[p] \in {[proc[p] EXCEPT !.at = "probe"], Out}
          /\ \A q \in Cores \ {p} : proc'[q] = proc[q]
      BY <1>0, <1>2, <2>3 DEF TryLock
    <3>2. proc'[p].at \in {"probe", "out"} /\ (proc'[p].at = "probe" => proc'[p].fd = proc[p].fd)
      BY <2>0, <3>1 DEF ProcStates, Out
    <3> QED
      BY <1>0, <2>1, <3>1, <3>2 DEF OneFile
  <2> QED
    BY <2>2, <2>3
<1>3. ASSUME NEW p \in Cores, WriteRecord(p) PROVE Goal
  <2>0. proc[p] \in ProcStates
    BY <1>0
  <2>1. /\ UNCHANGED <<path, made, holder, stops>> /\ proc[p].at = "locked"
        /\ proc'[p].at = "held" /\ proc'[p].fd = proc[p].fd
        /\ \A q \in Cores \ {p} : proc'[q] = proc[q]
    BY <1>0, <1>3, <2>0 DEF WriteRecord, ProcStates
  <2> QED
    BY <1>0, <2>1 DEF OneFile
<1>4. ASSUME NEW p \in Cores, Probe(p) PROVE Goal
  <2>1. /\ UNCHANGED <<path, made, holder, stops>> /\ proc'[p].at \in {"out", "break"}
        /\ \A q \in Cores \ {p} : proc'[q] = proc[q]
    BY <1>0, <1>4 DEF Probe, Out
  <2> QED
    BY <1>0, <2>1 DEF OneFile
<1>5. ASSUME NEW p \in Cores, DropFd(p) PROVE Goal
  BY <1>0, <1>5 DEF DropFd
<1>6. ASSUME NEW p \in Cores, RemoveFile(p) PROVE Goal
  BY <1>0, <1>6 DEF RemoveFile, OneFile
<1>7. ASSUME NEW p \in Cores, KillCore(p) PROVE Goal
  <2>1. /\ UNCHANGED <<path, made, stops>> /\ holder' = Freed(p) /\ proc'[p].at = "out"
        /\ \A q \in Cores \ {p} : proc'[q] = proc[q]
    BY <1>0, <1>7 DEF KillCore, Out
  <2>2. \A i \in Inode, q \in Cores \ {p} : holder[i] = q => holder'[i] = q
    BY <2>1 DEF Freed
  <2>3. path # 0 => path \in Inode
    BY <1>0 DEF Inode
  <2> QED
    BY <1>0, <2>1, <2>2, <2>3 DEF OneFile
<1>8. CASE UNCHANGED pidVars
  BY <1>0, <1>8 DEF pidVars, OneFile
<1> QED
  BY <1>1, <1>2, <1>3, <1>4, <1>5, <1>6, <1>7, <1>8 DEF PidNext

(* Until a Core stops in an orderly way at most one runs, whatever is killed *)
(* between a lock and its record and however many processes take the same    *)
(* record for stale (OneCoreUntilAStop; acquire, break_and_retake).               *)
THEOREM OneCoreUntilAStopHolds == PidSpec => []OneCoreUntilAStop
<1>1. PidInit => PidInv
  BY PidAssumption DEF PidInit, PidInv, PidTypeOK, OneFile, Out, Inode
<1>2. PidInv => OneCoreUntilAStop
  <2> SUFFICES ASSUME PidInv, stops = 0 PROVE Cardinality(Running) <= 1
    BY DEF OneCoreUntilAStop
  <2>1. \A p, q \in Running : p = q
    BY DEF PidInv, OneFile, Running
  <2> QED
    BY <2>1, AtMostOne
<1> QED
  BY <1>1, <1>2, PidNextInv, PTL DEF PidSpec

(* The lock, the path and the processes of pid_file.rs keep their types.    *)
THEOREM PidTypesHold == PidSpec => []PidTypeOK
<1>1. PidInit => PidInv
  BY PidAssumption DEF PidInit, PidInv, PidTypeOK, OneFile, Out, Inode
<1>2. PidInv => PidTypeOK
  BY DEF PidInv
<1> QED
  BY <1>1, <1>2, PidNextInv, PTL DEF PidSpec

-----------------------------------------------------------------------------
(* Checkpoints: numbers.                                                    *)

\* Max of a set of naturals up to n: max_n_for's SELECT MAX.
LEMMA MaxIs ==
  ASSUME NEW n \in Nat, NEW S \in SUBSET (0..n), S # {}
  PROVE  Max(S) \in S /\ \A y \in S : Max(S) >= y
<1> DEFINE U == {k \in Nat : \A y \in S : y <= k}
<1>1. U \in SUBSET Nat /\ n \in U
  OBVIOUS
<1>2. PICK m \in U : \A k \in U : m <= k
  BY <1>1, LeastExists
<1>3. PICK z \in S : TRUE
  OBVIOUS
<1>4. ASSUME m \notin S PROVE m - 1 \in U
  <2>1. m \in Nat /\ z \in Nat /\ z <= m
    BY <1>2, <1>3
  <2>2. m - 1 \in Nat
    BY <1>3, <1>4, <2>1
  <2> QED
    BY <1>2, <1>4, <2>1, <2>2
<1>5. m \in S
  BY <1>2, <1>4
<1>6. \E x \in S : \A y \in S : x >= y
  BY <1>2, <1>5
<1> QED
  BY <1>6 DEF Max

Commits == [turn : SUBSET Turns, of : 0..MaxWrites]
CkRows == [turn : Turns, repo : Trees, n : RefN, commit : Commits]
TaskStates == [pc : {"new", "max", "commit", "ref", "row", "done", "failed"}, at : Nat,
               repo : Trees, n : 0..(Cardinality(Turns) + 1), commit : Commits, hurt : BOOLEAN]
Reverts == [on : BOOLEAN, left : SUBSET CkRows, turn : SUBSET Turns]

CkTyped ==
  /\ tree \in [Trees -> 0..MaxWrites] /\ writes \in 0..MaxWrites
  /\ refs \in [Trees -> [RefN -> Commits]]
  /\ ckrows \subseteq CkRows
  /\ task \in [Turns -> TaskStates]
  /\ revert \in Reverts /\ revert.left \subseteq ckrows
  /\ superseded \subseteq Turns /\ overlapped \subseteq Turns

\* The turns that have begun, those with a row at a repository, and those whose
\* task has taken its number there.
Started == {u \in Turns : task[u].pc # "new"}
TurnsAt(ks, r) == {u \in Turns : \E k \in ks : k.turn = u /\ k.repo = r}
Numbered == {t \in Turns : task[t].pc \in {"commit", "ref", "row"}}

\* Times and numbers do not outgrow the turns they count.
Counted ==
  /\ \A u \in Turns : task[u].at <= Cardinality(Started)
  /\ \A k \in ckrows : k.n <= Cardinality(TurnsAt(ckrows, k.repo))
  /\ \A t \in Numbered : task[t].n \in 1..(Cardinality(TurnsAt(ckrows, task[t].repo)) + 1)

\* A task writes behind its rows, and behind its number no row of a task that
\* ran alone.
Behind ==
  /\ \A t, u \in InFlight : t # u => t \in overlapped
  /\ \A k \in ckrows : /\ task[k.turn].pc # "new"
                       /\ k.turn \in InFlight => k.repo < task[k.turn].repo
  /\ \A t \in Numbered, k \in ckrows :
       k.repo = task[t].repo /\ k.turn \notin overlapped => k.n < task[t].n
  /\ \A t \in Turns : task[t].pc = "row" /\ t \notin overlapped =>
       refs[task[t].repo][task[t].n] = task[t].commit

CkInv == CkTyped /\ Counted /\ Behind /\ CheckpointRestorable

\* The counts are of subsets of the turns.
LEMMA CountsAreNat ==
  /\ TreeCount \in Nat \ {0} /\ MaxWrites \in Nat /\ Cardinality(Turns) \in Nat
  /\ \A S \in SUBSET Turns : /\ IsFiniteSet(S) /\ Cardinality(S) \in Nat
                             /\ Cardinality(S) <= Cardinality(Turns)
<1> QED
  BY CheckpointAssumption, FS_Subset, FS_CardinalityType

\* What a ref, a task and a revert begin with is well typed.
LEMMA CkConstants ==
  /\ NoRef \in Commits /\ NotRun \in TaskStates /\ NoRevert \in Reverts
  /\ CkTyped => CkTypeOK
<1>1. NoRef \in Commits
  BY CountsAreNat DEF NoRef, Commits
<1>2. NotRun \in TaskStates
  BY <1>1, CountsAreNat DEF NotRun, TaskStates, Trees
<1>3. NoRevert \in Reverts
  BY DEF NoRevert, Reverts
<1>4. CkTyped => CkTypeOK
  <2> SUFFICES ASSUME CkTyped PROVE CkTypeOK
    OBVIOUS
  <2>1. \A r \in Trees, n \in RefN : refs[r][n] \in Commits
    BY DEF CkTyped
  <2>2. \A t \in Turns : task[t] \in TaskStates
    BY DEF CkTyped
  <2>3. \A k \in ckrows : k \in CkRows
    BY DEF CkTyped
  <2> QED
    BY <2>1, <2>2, <2>3 DEF CkTyped, CkTypeOK, Commits, TaskStates, CkRows
<1> QED
  BY <1>1, <1>2, <1>3, <1>4

\* max_n_for plus one is above every number at the repository, and within one of
\* their count.
LEMMA NextNIs ==
  ASSUME CkTyped, Counted, NEW r \in Trees
  PROVE  /\ NextN(r) \in 1..(Cardinality(TurnsAt(ckrows, r)) + 1)
         /\ \A k \in ckrows : k.repo = r => k.n < NextN(r)
<1> DEFINE c == Cardinality(TurnsAt(ckrows, r))
           S == {0} \cup {k.n : k \in {k \in ckrows : k.repo = r}}
<1>1. c \in Nat
  BY CountsAreNat DEF TurnsAt
<1>2. \A k \in ckrows : k.n \in Nat /\ (k.repo = r => k.n <= c)
  BY CountsAreNat DEF CkTyped, Counted, CkRows, RefN
<1>3. S \in SUBSET (0..c) /\ S # {}
  BY <1>1, <1>2
<1>4. Max(S) \in S /\ \A y \in S : Max(S) >= y
  BY <1>1, <1>3, MaxIs
<1>5. NextN(r) = Max(S) + 1
  BY DEF NextN
<1>6. Max(S) \in 0..c
  BY <1>3, <1>4
<1>7. \A k \in ckrows : k.repo = r => k.n \in S
  OBVIOUS
<1> HIDE DEF S
<1> QED
  BY <1>1, <1>2, <1>4, <1>5, <1>6, <1>7

\* The turn that completes is the latest, by one.
LEMMA LatestIs ==
  ASSUME CkTyped, Counted, NEW t \in Turns
  PROVE  Max({task[u].at : u \in Turns}) \in 0..Cardinality(Started)
<1> DEFINE S == {task[u].at : u \in Turns}
<1>1. Cardinality(Started) \in Nat
  BY CountsAreNat DEF Started
<1>2. \A u \in Turns : task[u].at \in Nat /\ task[u].at <= Cardinality(Started)
  BY DEF CkTyped, TaskStates, Counted
<1>3. S \in SUBSET (0..Cardinality(Started)) /\ S # {}
  BY <1>1, <1>2
<1>4. Max(S) \in S
  BY <1>1, <1>3, MaxIs
<1> QED
  BY <1>3, <1>4

\* The step of a checkpoint task, seen from its row: where it goes and what it
\* takes along.
LEMMA TaskMoves ==
  ASSUME CkTyped, Counted, NEW t \in Turns,
         \/ CompleteTurn(t) \/ ReadMax(t) \/ CommitTree(t) \/ UpdateRef(t)
         \/ InsertCheckpoint(t) \/ TaskFails(t)
  PROVE  /\ task'[t] \in TaskStates /\ task' = [task EXCEPT ![t] = task'[t]]
         /\ task'[t].at = IF task[t].pc = "new" THEN 1 + Max({task[u].at : u \in Turns}) ELSE task[t].at
         /\ \/ CompleteTurn(t) /\ task[t].pc = "new" /\ task'[t].pc = "max"
            \/ /\ ReadMax(t) /\ task[t].pc = "max" /\ task'[t].pc = "commit"
               /\ task'[t].repo = task[t].repo /\ task'[t].n = NextN(task[t].repo)
            \/ /\ CommitTree(t) /\ task[t].pc = "commit" /\ task'[t].pc \in {"ref", "failed"}
               /\ task'[t].repo = task[t].repo /\ task'[t].n = task[t].n
            \/ /\ UpdateRef(t) /\ task[t].pc = "ref" /\ task'[t].pc = "row"
               /\ task'[t].repo = task[t].repo /\ task'[t].n = task[t].n
               /\ task'[t].commit = task[t].commit
            \/ /\ InsertCheckpoint(t) /\ task[t].pc = "row"
               /\ \/ task'[t].pc = "done"
                  \/ task'[t].pc = "max" /\ task'[t].repo = task[t].repo + 1
            \/ TaskFails(t) /\ task[t].pc \in {"commit", "ref", "row"} /\ task'[t].pc = "failed"
<1>0. /\ task \in [Turns -> TaskStates] /\ task[t] \in TaskStates
      /\ Max({task[u].at : u \in Turns}) \in Nat
      /\ tree \in [Trees -> 0..MaxWrites]
  <2>1. Cardinality(Started) \in Nat
    BY CountsAreNat DEF Started
  <2> QED
    BY <2>1, LatestIs DEF CkTyped
<1>1. ASSUME NEW s \in TaskStates, task' = [task EXCEPT ![t] = s]
      PROVE  task'[t] = s /\ task' = [task EXCEPT ![t] = task'[t]]
  BY <1>0, <1>1
<1>2. CASE CompleteTurn(t)
  <2> DEFINE m == Max({task[u].at : u \in Turns})
             s == [task[t] EXCEPT !.pc = "max", !.at = 1 + m]
  <2>1. task' = [task EXCEPT ![t] = s] /\ task[t].pc = "new"
    BY <1>0, <1>2 DEF CompleteTurn
  <2> HIDE DEF m
  <2>2. 1 + m \in Nat
    BY <1>0 DEF m
  <2>3. s \in TaskStates /\ s.pc = "max" /\ s.at = 1 + m
    BY <1>0, <2>2 DEF TaskStates
  <2> HIDE DEF s
  <2>4. task'[t] = s /\ task' = [task EXCEPT ![t] = task'[t]]
    BY <1>1, <2>1, <2>3
  <2> QED
    BY <1>2, <2>1, <2>3, <2>4 DEF m
<1>3. CASE ReadMax(t)
  <2> DEFINE s == [task[t] EXCEPT !.pc = "commit", !.n = NextN(task[t].repo)]
  <2>1. task' = [task EXCEPT ![t] = s] /\ task[t].pc = "max"
    BY <1>0, <1>3 DEF ReadMax
  <2>2. NextN(task[t].repo) \in 0..(Cardinality(Turns) + 1)
    <3>1. task[t].repo \in Trees
      BY <1>0 DEF TaskStates
    <3>2. TurnsAt(ckrows, task[t].repo) \in SUBSET Turns
      BY DEF TurnsAt
    <3>3. Cardinality(TurnsAt(ckrows, task[t].repo)) \in Nat
          /\ Cardinality(TurnsAt(ckrows, task[t].repo)) <= Cardinality(Turns)
      BY <3>2, CountsAreNat
    <3> QED
      BY <3>1, <3>3, NextNIs, CountsAreNat
  <2>3. /\ s \in TaskStates /\ s.pc = "commit" /\ s.at = task[t].at
        /\ s.repo = task[t].repo /\ s.n = NextN(task[t].repo)
    BY <1>0, <2>2 DEF TaskStates
  <2> HIDE DEF s
  <2>4. task'[t] = s /\ task' = [task EXCEPT ![t] = task'[t]]
    BY <1>1, <2>1, <2>3
  <2> QED
    BY <1>3, <2>1, <2>3, <2>4
<1>4. CASE CommitTree(t)
  <2> DEFINE k == [turn |-> {t}, of |-> tree[task[t].repo]]
             s == [task[t] EXCEPT !.pc = "ref", !.commit = k]
             f == [task[t] EXCEPT !.pc = "failed"]
  <2>1. task[t].pc = "commit"
        /\ (task' = [task EXCEPT ![t] = s] \/ task' = [task EXCEPT ![t] = f])
    BY <1>0, <1>4 DEF CommitTree
  <2>2. k \in Commits
    BY <1>0 DEF TaskStates, Commits
  <2> HIDE DEF k
  <2>3. /\ s \in TaskStates /\ s.pc = "ref" /\ s.at = task[t].at /\ s.repo = task[t].repo /\ s.n = task[t].n
        /\ f \in TaskStates /\ f.pc = "failed" /\ f.at = task[t].at /\ f.repo = task[t].repo /\ f.n = task[t].n
    BY <1>0, <2>2 DEF TaskStates
  <2> HIDE DEF s, f
  <2>4. task'[t] \in {s, f} /\ task' = [task EXCEPT ![t] = task'[t]]
    BY <1>1, <2>1, <2>3
  <2> QED
    BY <1>4, <2>1, <2>3, <2>4
<1>5. CASE UpdateRef(t)
  <2> DEFINE s == [task[t] EXCEPT !.pc = "row"]
  <2>1. task' = [task EXCEPT ![t] = s] /\ task[t].pc = "ref"
    BY <1>0, <1>5 DEF UpdateRef
  <2>3. /\ s \in TaskStates /\ s.pc = "row" /\ s.at = task[t].at
        /\ s.repo = task[t].repo /\ s.n = task[t].n /\ s.commit = task[t].commit
    BY <1>0 DEF TaskStates
  <2> HIDE DEF s
  <2>4. task'[t] = s /\ task' = [task EXCEPT ![t] = task'[t]]
    BY <1>1, <2>1, <2>3
  <2> QED
    BY <1>5, <2>1, <2>3, <2>4
<1>6. CASE InsertCheckpoint(t)
  <2>0. task[t].pc = "row"
    BY <1>6 DEF InsertCheckpoint
  <2>1. CASE task[t].repo = TreeCount
    <3> DEFINE s == [task[t] EXCEPT !.pc = "done"]
    <3>1. task' = [task EXCEPT ![t] = s]
      BY <1>0, <1>6, <2>1 DEF InsertCheckpoint
    <3>2. s \in TaskStates /\ s.pc = "done" /\ s.at = task[t].at
      BY <1>0 DEF TaskStates
    <3> HIDE DEF s
    <3>3. task'[t] = s /\ task' = [task EXCEPT ![t] = task'[t]]
      BY <1>1, <3>1, <3>2
    <3> QED
      BY <1>6, <2>0, <3>2, <3>3
  <2>2. CASE task[t].repo # TreeCount
    <3> DEFINE s == [task[t] EXCEPT !.pc = "max", !.repo = @ + 1]
    <3>1. task' = [task EXCEPT ![t] = s]
      BY <1>0, <1>6, <2>2 DEF InsertCheckpoint
    <3>2. task[t].repo + 1 \in Trees
      BY <1>0, <2>2, CountsAreNat DEF TaskStates, Trees
    <3>3. s \in TaskStates /\ s.pc = "max" /\ s.at = task[t].at /\ s.repo = task[t].repo + 1
      BY <1>0, <3>2 DEF TaskStates
    <3> HIDE DEF s
    <3>4. task'[t] = s /\ task' = [task EXCEPT ![t] = task'[t]]
      BY <1>1, <3>1, <3>3
    <3> QED
      BY <1>6, <2>0, <3>3, <3>4
  <2> QED
    BY <2>1, <2>2
<1>7. CASE TaskFails(t)
  <2> DEFINE s == [task[t] EXCEPT !.pc = "failed", !.hurt = TRUE]
  <2>1. task' = [task EXCEPT ![t] = s] /\ task[t].pc \in {"commit", "ref", "row"}
    BY <1>0, <1>7 DEF TaskFails
  <2>3. /\ s \in TaskStates /\ s.pc = "failed" /\ s.at = task[t].at
        /\ s.repo = task[t].repo /\ s.n = task[t].n
    BY <1>0 DEF TaskStates
  <2> HIDE DEF s
  <2>4. task'[t] = s /\ task' = [task EXCEPT ![t] = task'[t]]
    BY <1>1, <2>1, <2>3
  <2> QED
    BY <1>7, <2>1, <2>3, <2>4
<1> QED
  BY <1>2, <1>3, <1>4, <1>5, <1>6, <1>7

\* Every step of a task, a revert, an agent or a crash is well typed.
LEMMA CkNextTypes == CkInv /\ [CkNext]_ckVars => CkTyped'
<1> SUFFICES ASSUME CkInv, [CkNext]_ckVars PROVE CkTyped'
  OBVIOUS
<1>0. /\ CkTyped /\ Counted
      /\ tree \in [Trees -> 0..MaxWrites] /\ writes \in 0..MaxWrites
      /\ refs \in [Trees -> [RefN -> Commits]]
      /\ ckrows \subseteq CkRows
      /\ task \in [Turns -> TaskStates]
      /\ revert \in Reverts /\ revert.left \subseteq ckrows
      /\ superseded \subseteq Turns /\ overlapped \subseteq Turns
  BY DEF CkInv, CkTyped
<1>1. ASSUME NEW r \in Trees, AgentWrites(r) PROVE CkTyped'
  BY <1>0, <1>1, CountsAreNat DEF AgentWrites, CkTyped
<1>2. ASSUME NEW t \in Turns,
             \/ CompleteTurn(t) \/ ReadMax(t) \/ CommitTree(t) \/ UpdateRef(t)
             \/ InsertCheckpoint(t) \/ TaskFails(t)
      PROVE  CkTyped'
  <2>0. task[t] \in TaskStates
    BY <1>0
  <2>1. task' \in [Turns -> TaskStates]
    BY <1>0, <1>2, TaskMoves
  <2>2. overlapped' \subseteq Turns
    BY <1>0, <1>2 DEF CompleteTurn, ReadMax, CommitTree, UpdateRef, InsertCheckpoint, TaskFails, InFlight
  <2>3. refs' \in [Trees -> [RefN -> Commits]]
    <3>1. CASE UpdateRef(t)
      <4>1. refs' = [refs EXCEPT ![task[t].repo][task[t].n] = task[t].commit]
        BY <3>1 DEF UpdateRef
      <4>2. task[t].commit \in Commits
        BY <2>0 DEF TaskStates
      <4> QED
        BY <1>0, <4>1, <4>2
    <3>2. CASE ~UpdateRef(t)
      BY <1>0, <1>2, <3>2 DEF CompleteTurn, ReadMax, CommitTree, InsertCheckpoint, TaskFails
    <3> QED
      BY <3>1, <3>2
  <2>4. ckrows' \subseteq CkRows /\ ckrows \subseteq ckrows'
    <3>1. CASE InsertCheckpoint(t)
      <4>1. /\ ckrows' = ckrows \cup {[turn |-> t, repo |-> task[t].repo, n |-> task[t].n,
                                       commit |-> task[t].commit]}
            /\ t \in Numbered
        BY <3>1 DEF InsertCheckpoint, Numbered
      <4>2. task[t].n >= 1
        <5>1. TurnsAt(ckrows, task[t].repo) \in SUBSET Turns
          BY DEF TurnsAt
        <5>2. Cardinality(TurnsAt(ckrows, task[t].repo)) \in Nat
          BY <5>1, CountsAreNat
        <5> QED
          BY <1>0, <4>1, <5>2 DEF Counted
      <4>3. task[t].n \in RefN /\ task[t].repo \in Trees /\ task[t].commit \in Commits
        BY <2>0, <4>2, CountsAreNat DEF TaskStates, RefN
      <4> QED
        BY <1>0, <4>1, <4>3 DEF CkRows
    <3>2. CASE ~InsertCheckpoint(t)
      BY <1>0, <1>2, <3>2 DEF CompleteTurn, ReadMax, CommitTree, UpdateRef, TaskFails
    <3> QED
      BY <3>1, <3>2
  <2>5. UNCHANGED <<tree, writes, revert, superseded>>
    BY <1>2 DEF CompleteTurn, ReadMax, CommitTree, UpdateRef, InsertCheckpoint, TaskFails
  <2> QED
    BY <1>0, <2>1, <2>2, <2>3, <2>4, <2>5 DEF CkTyped
<1>3. ASSUME NEW t \in Turns, BeginTurnRevert(t) PROVE CkTyped'
  <2>1. /\ revert' = [on |-> TRUE, left |-> {k \in ckrows : k.turn = t}, turn |-> {t}]
        /\ UNCHANGED <<tree, writes, refs, ckrows, task, superseded, overlapped>>
    BY <1>3 DEF BeginTurnRevert
  <2>2. revert' \in Reverts /\ revert'.left \subseteq ckrows
    BY <1>0, <2>1 DEF Reverts
  <2> QED
    BY <1>0, <2>1, <2>2 DEF CkTyped
<1>4. ASSUME NEW k \in ckrows, HardReset(k) PROVE CkTyped'
  <2>1. /\ tree' = [tree EXCEPT ![k.repo] = refs[k.repo][k.n].of]
        /\ revert' = [revert EXCEPT !.left = @ \ {k}]
        /\ UNCHANGED <<writes, refs, ckrows, task, superseded, overlapped>>
    BY <1>4 DEF HardReset
  <2>2. k \in CkRows
    BY <1>0
  <2>3. refs[k.repo][k.n] \in Commits
    BY <1>0, <2>2 DEF CkRows
  <2>4. tree' \in [Trees -> 0..MaxWrites]
    BY <1>0, <2>1, <2>3 DEF Commits
  <2>5. revert' \in Reverts /\ revert'.left \subseteq ckrows
    BY <1>0, <2>1 DEF Reverts
  <2> QED
    BY <1>0, <2>1, <2>4, <2>5 DEF CkTyped
<1>5. CASE HardResetFails \/ SupersedeLater
  <2>1. /\ revert' = NoRevert /\ superseded' \subseteq Turns
        /\ UNCHANGED <<tree, writes, refs, ckrows, task, overlapped>>
    BY <1>0, <1>5 DEF HardResetFails, SupersedeLater
  <2> QED
    BY <1>0, <2>1, CkConstants DEF CkTyped, NoRevert
<1>6. CASE CrashTasks
  <2>1. /\ revert' = NoRevert
        /\ UNCHANGED <<tree, writes, refs, ckrows, superseded, overlapped>>
    BY <1>6 DEF CrashTasks
  <2>2. \A t \in Turns : [task[t] EXCEPT !.pc = "failed", !.hurt = TRUE] \in TaskStates
    <3>1. \A t \in Turns : task[t] \in TaskStates
      BY <1>0
    <3> QED
      BY <3>1 DEF TaskStates
  <2>3. task' \in [Turns -> TaskStates]
    BY <1>0, <1>6, <2>2 DEF CrashTasks
  <2> QED
    BY <1>0, <2>1, <2>3, CkConstants DEF CkTyped, NoRevert
<1>7. CASE UNCHANGED ckVars
  BY <1>0, <1>7 DEF ckVars, CkTyped
<1> QED
  BY <1>1, <1>2, <1>3, <1>4, <1>5, <1>6, <1>7 DEF CkNext

\* A task's step keeps the counts: its time and its number are one above at most,
\* and its row adds it to the turns of its repository.
LEMMA TaskCounted ==
  ASSUME CkInv, NEW t \in Turns,
         \/ CompleteTurn(t) \/ ReadMax(t) \/ CommitTree(t) \/ UpdateRef(t)
         \/ InsertCheckpoint(t) \/ TaskFails(t)
  PROVE  Counted'
<1>0. /\ CkTyped /\ Counted /\ Behind /\ task \in [Turns -> TaskStates] /\ task[t] \in TaskStates
      /\ ckrows \subseteq CkRows
  BY DEF CkInv, CkTyped
<1>1. /\ task'[t] \in TaskStates /\ task' = [task EXCEPT ![t] = task'[t]]
      /\ task'[t].at = IF task[t].pc = "new" THEN 1 + Max({task[u].at : u \in Turns}) ELSE task[t].at
  BY <1>0, TaskMoves
<1>2. \A u \in Turns \ {t} : task'[u] = task[u]
  BY <1>0, <1>1
<1>3. task'[t].pc # "new"
  BY <1>0, TaskMoves
<1>4. \A u \in Turns : task'[u].at <= Cardinality(Started')
  <2>1. Started' = Started \cup {t} /\ IsFiniteSet(Started) /\ Cardinality(Started) \in Nat
    BY <1>1, <1>2, <1>3, CountsAreNat DEF Started
  <2>2. Cardinality(Started') = IF t \in Started THEN Cardinality(Started) ELSE Cardinality(Started) + 1
    BY <2>1, FS_AddElement
  <2>3. Max({task[u].at : u \in Turns}) \in 0..Cardinality(Started)
    BY <1>0, LatestIs
  <2>4. t \in Started <=> task[t].pc # "new"
    BY DEF Started
  <2>5. \A u \in Turns : task[u].at \in Nat /\ task[u].at <= Cardinality(Started)
    BY <1>0 DEF TaskStates, Counted
  <2> QED
    BY <1>1, <1>2, <2>1, <2>2, <2>3, <2>4, <2>5
<1>5. CASE ~InsertCheckpoint(t)
  <2>1. ckrows' = ckrows
    BY <1>5 DEF CompleteTurn, ReadMax, CommitTree, UpdateRef, TaskFails
  <2>2. \A r : TurnsAt(ckrows', r) = TurnsAt(ckrows, r)
    BY <2>1 DEF TurnsAt
  <2>3. \A k \in ckrows' : k.n <= Cardinality(TurnsAt(ckrows', k.repo))
    BY <1>0, <2>1, <2>2 DEF Counted
  <2>4. ASSUME NEW u \in Numbered'
        PROVE  task'[u].n \in 1..(Cardinality(TurnsAt(ckrows, task'[u].repo)) + 1)
    <3>1. CASE u = t
      <4>1. \/ task'[t].repo = task[t].repo /\ task'[t].n = NextN(task[t].repo)
            \/ task'[t].repo = task[t].repo /\ task'[t].n = task[t].n /\ t \in Numbered
        BY <1>0, <1>5, <2>4, <3>1, TaskMoves DEF Numbered
      <4>2. task[t].repo \in Trees
        BY <1>0 DEF TaskStates
      <4> QED
        BY <1>0, <3>1, <4>1, <4>2, NextNIs DEF Counted
    <3>2. CASE u # t
      BY <1>0, <1>2, <2>4, <3>2 DEF Counted, Numbered
    <3> QED
      BY <3>1, <3>2
  <2>5. \A u \in Numbered' : task'[u].n \in 1..(Cardinality(TurnsAt(ckrows', task'[u].repo)) + 1)
    BY <2>2, <2>4
  <2> QED
    BY <1>4, <2>3, <2>5 DEF Counted
<1>6. CASE InsertCheckpoint(t)
  <2> DEFINE r == task[t].repo
  <2> DEFINE w == [turn |-> t, repo |-> r, n |-> task[t].n, commit |-> task[t].commit]
  <2>1. ckrows' = ckrows \cup {w} /\ t \in Numbered
    BY <1>6 DEF InsertCheckpoint, Numbered
  <2>w. w.turn = t /\ w.repo = r /\ w.n = task[t].n
    OBVIOUS
  <2> HIDE DEF w
  <2>2. t \notin Numbered'
    BY <1>0, <1>1, <1>6, TaskMoves DEF Numbered, CompleteTurn, ReadMax, CommitTree, UpdateRef, InsertCheckpoint
  <2>3. t \notin TurnsAt(ckrows, r)
    <3>1. t \in InFlight /\ r \in Nat
      BY <1>0, <2>1 DEF Numbered, InFlight, TaskStates, Trees
    <3> QED
      BY <1>0, <3>1 DEF Behind, TurnsAt
  <2>4. TurnsAt(ckrows', r) = TurnsAt(ckrows, r) \cup {t}
    BY <2>1, <2>w DEF TurnsAt
  <2>5. ASSUME NEW q \in Trees
        PROVE  /\ Cardinality(TurnsAt(ckrows, q)) \in Nat /\ Cardinality(TurnsAt(ckrows', q)) \in Nat
               /\ Cardinality(TurnsAt(ckrows', q)) >= Cardinality(TurnsAt(ckrows, q))
    <3>1. TurnsAt(ckrows, q) \subseteq Turns /\ TurnsAt(ckrows', q) \subseteq Turns /\ TurnsAt(ckrows, q) \subseteq TurnsAt(ckrows', q)
      BY <2>1 DEF TurnsAt
    <3>2. IsFiniteSet(TurnsAt(ckrows', q))
      BY <3>1, CountsAreNat
    <3> QED
      BY <3>1, <3>2, CountsAreNat, FS_Subset
  <2>6. Cardinality(TurnsAt(ckrows', r)) = Cardinality(TurnsAt(ckrows, r)) + 1
    <3>1. IsFiniteSet(TurnsAt(ckrows, r))
      BY CountsAreNat DEF TurnsAt
    <3> QED
      BY <2>3, <2>4, <3>1, FS_AddElement
  <2>7. task[t].n <= Cardinality(TurnsAt(ckrows', r))
    <3>1. task[t].n \in 1..(Cardinality(TurnsAt(ckrows, r)) + 1) /\ r \in Trees
      BY <1>0, <2>1 DEF Counted, TaskStates
    <3> QED
      BY <2>5, <2>6, <3>1
  <2>8. \A k \in ckrows' : k.n <= Cardinality(TurnsAt(ckrows', k.repo))
    <3>1. ASSUME NEW k \in ckrows PROVE k.n <= Cardinality(TurnsAt(ckrows', k.repo))
      <4>1. k.repo \in Trees /\ k.n \in Nat /\ k.n <= Cardinality(TurnsAt(ckrows, k.repo))
        BY <1>0, CountsAreNat DEF Counted, CkRows, RefN
      <4> QED
        BY <2>5, <4>1
    <3> QED
      BY <2>1, <2>w, <2>7, <3>1
  <2>9. \A u \in Numbered' : task'[u].n \in 1..(Cardinality(TurnsAt(ckrows', task'[u].repo)) + 1)
    <3> SUFFICES ASSUME NEW u \in Numbered'
                 PROVE  task'[u].n \in 1..(Cardinality(TurnsAt(ckrows', task'[u].repo)) + 1)
      OBVIOUS
    <3>1. u # t /\ u \in Turns /\ task'[u] = task[u] /\ u \in Numbered
      BY <1>2, <2>2 DEF Numbered
    <3>2. task[u].n \in 1..(Cardinality(TurnsAt(ckrows, task[u].repo)) + 1) /\ task[u].repo \in Trees
      BY <1>0, <3>1 DEF Counted, TaskStates
    <3>3. PICK q \in Trees : q = task[u].repo
      BY <3>2
    <3>4. task[u].n \in 1..(Cardinality(TurnsAt(ckrows', q)) + 1)
      BY <2>5, <3>2, <3>3
    <3> QED
      BY <3>1, <3>3, <3>4
  <2> QED
    BY <1>4, <2>8, <2>9 DEF Counted
<1> QED
  BY <1>5, <1>6

\* A task's step stays behind its rows, and in front of those of tasks that ran
\* alone; the ref it moves is named by no such row.
LEMMA TaskBehind ==
  ASSUME CkInv, NEW t \in Turns,
         \/ CompleteTurn(t) \/ ReadMax(t) \/ CommitTree(t) \/ UpdateRef(t)
         \/ InsertCheckpoint(t) \/ TaskFails(t)
  PROVE  Behind' /\ CheckpointRestorable'
<1>0. /\ CkTyped /\ Counted /\ Behind /\ CheckpointRestorable
      /\ task \in [Turns -> TaskStates] /\ task[t] \in TaskStates
      /\ refs \in [Trees -> [RefN -> Commits]] /\ ckrows \subseteq CkRows
  BY DEF CkInv, CkTyped
<1>1. /\ task'[t] \in TaskStates /\ task' = [task EXCEPT ![t] = task'[t]]
  BY <1>0, TaskMoves
<1>2. \A u \in Turns \ {t} : task'[u] = task[u]
  BY <1>0, <1>1
<1>3. CASE CompleteTurn(t)
  <2>1. /\ task[t].pc = "new" /\ task'[t].pc = "max"
        /\ UNCHANGED <<refs, ckrows>>
        /\ overlapped' = IF InFlight = {} THEN overlapped ELSE overlapped \cup InFlight \cup {t}
    BY <1>0, <1>3, TaskMoves DEF CompleteTurn, ReadMax, CommitTree, UpdateRef, InsertCheckpoint, TaskFails
  <2>2. InFlight' = InFlight \cup {t} /\ t \notin InFlight
    BY <1>2, <2>1 DEF InFlight
  <2>3. \A u, v \in InFlight' : u # v => u \in overlapped'
    BY <1>0, <2>1, <2>2 DEF Behind
  <2>4. \A k \in ckrows : k.turn \in Turns \ {t} /\ task'[k.turn] = task[k.turn]
    BY <1>0, <1>2, <2>1 DEF Behind, CkRows
  <2>5. \A k \in ckrows' : /\ task'[k.turn].pc # "new"
                           /\ k.turn \in InFlight' => k.repo < task'[k.turn].repo
    BY <1>0, <2>1, <2>2, <2>4 DEF Behind
  <2>6. Numbered' = Numbered /\ t \notin Numbered
    BY <1>2, <2>1 DEF Numbered
  <2>7. \A u \in Numbered', k \in ckrows' :
          k.repo = task'[u].repo /\ k.turn \notin overlapped' => k.n < task'[u].n
    BY <1>0, <1>2, <2>1, <2>6 DEF Behind, Numbered
  <2>8. \A u \in Turns : task'[u].pc = "row" /\ u \notin overlapped' =>
          refs'[task'[u].repo][task'[u].n] = task'[u].commit
    BY <1>0, <1>2, <2>1 DEF Behind
  <2>9. CheckpointRestorable'
    BY <1>0, <2>1 DEF CheckpointRestorable
  <2> QED
    BY <2>3, <2>5, <2>7, <2>8, <2>9 DEF Behind
<1>4. ASSUME UNCHANGED <<overlapped, ckrows>>,
             task[t].pc \in {"max", "commit", "ref", "row"},
             task'[t].pc \in {"commit", "ref", "row", "failed"},
             task'[t].pc = "failed" \/ task'[t].repo = task[t].repo,
             task'[t].pc \in {"commit", "ref", "row"} =>
               \A k \in ckrows : k.repo = task[t].repo /\ k.turn \notin overlapped => k.n < task'[t].n
      PROVE  /\ \A u, v \in InFlight' : u # v => u \in overlapped'
             /\ \A k \in ckrows' : /\ task'[k.turn].pc # "new"
                                   /\ k.turn \in InFlight' => k.repo < task'[k.turn].repo
             /\ \A u \in Numbered', k \in ckrows' :
                  k.repo = task'[u].repo /\ k.turn \notin overlapped' => k.n < task'[u].n
  <2>1. InFlight' \subseteq InFlight /\ t \in InFlight
    BY <1>2, <1>4 DEF InFlight
  <2>2. \A u, v \in InFlight' : u # v => u \in overlapped'
    BY <1>0, <1>4, <2>1 DEF Behind
  <2>3. \A k \in ckrows' : /\ task'[k.turn].pc # "new"
                           /\ k.turn \in InFlight' => k.repo < task'[k.turn].repo
    <3> SUFFICES ASSUME NEW k \in ckrows
                 PROVE  /\ task'[k.turn].pc # "new"
                        /\ k.turn \in InFlight' => k.repo < task'[k.turn].repo
      BY <1>4
    <3>1. k.turn \in Turns /\ task[k.turn].pc # "new" /\ (k.turn \in InFlight => k.repo < task[k.turn].repo)
      BY <1>0 DEF Behind, CkRows
    <3>2. CASE k.turn = t
      BY <1>4, <2>1, <3>1, <3>2 DEF InFlight
    <3>3. CASE k.turn # t
      BY <1>2, <2>1, <3>1, <3>3
    <3> QED
      BY <3>2, <3>3
  <2>4. ASSUME NEW u \in Numbered', NEW k \in ckrows, k.repo = task'[u].repo, k.turn \notin overlapped
        PROVE  k.n < task'[u].n
    <3>1. CASE u = t
      BY <1>4, <2>4, <3>1 DEF Numbered
    <3>2. CASE u # t
      <4>1. u \in Numbered /\ task'[u] = task[u]
        BY <1>2, <3>2 DEF Numbered
      <4> QED
        BY <1>0, <2>4, <4>1 DEF Behind
    <3> QED
      BY <3>1, <3>2
  <2> QED
    BY <1>4, <2>2, <2>3, <2>4
<1>5. CASE ReadMax(t) \/ CommitTree(t) \/ TaskFails(t)
  <2>1. UNCHANGED <<refs, overlapped, ckrows>>
    BY <1>5 DEF ReadMax, CommitTree, TaskFails
  <2>2. /\ task[t].pc \in {"max", "commit", "ref", "row"}
        /\ task'[t].pc \in {"commit", "ref", "failed"}
        /\ task'[t].pc = "failed" \/ task'[t].repo = task[t].repo
        /\ \/ task'[t].pc = "failed"
           \/ task'[t].n = NextN(task[t].repo)
           \/ task[t].pc = "commit" /\ task'[t].n = task[t].n
    <3>1. CASE ReadMax(t)
      <4>1. task[t].pc = "max"
        BY <3>1 DEF ReadMax
      <4> QED
        BY <1>0, <3>1, <4>1, TaskMoves
    <3>2. CASE CommitTree(t)
      <4>1. task[t].pc = "commit"
        BY <3>2 DEF CommitTree
      <4> QED
        BY <1>0, <3>2, <4>1, TaskMoves
    <3>3. CASE TaskFails(t)
      <4>1. task[t].pc \in {"commit", "ref", "row"} /\ task'[t].pc = "failed"
        BY <1>0, <3>3 DEF TaskFails, TaskStates
      <4> QED
        BY <4>1
    <3> QED
      BY <1>5, <3>1, <3>2, <3>3
  <2>3. task[t].repo \in Trees
    BY <1>0 DEF TaskStates
  <2>4. task'[t].pc \in {"commit", "ref", "row"} =>
          \A k \in ckrows : k.repo = task[t].repo /\ k.turn \notin overlapped => k.n < task'[t].n
    BY <1>0, <2>2, <2>3, NextNIs DEF Behind, Numbered
  <2>5. \A u \in Turns : task'[u].pc = "row" /\ u \notin overlapped' =>
          refs'[task'[u].repo][task'[u].n] = task'[u].commit
    BY <1>0, <1>2, <2>1, <2>2 DEF Behind
  <2>6. CheckpointRestorable'
    BY <1>0, <2>1 DEF CheckpointRestorable
  <2> QED
    BY <1>4, <2>1, <2>2, <2>4, <2>5, <2>6 DEF Behind
<1>6. CASE UpdateRef(t)
  <2>1. /\ UNCHANGED <<overlapped, ckrows>>
        /\ refs' = [refs EXCEPT ![task[t].repo][task[t].n] = task[t].commit]
        /\ task[t].pc = "ref" /\ task'[t].pc = "row" /\ task'[t].repo = task[t].repo
        /\ task'[t].n = task[t].n /\ task'[t].commit = task[t].commit
    <3>1. /\ UNCHANGED <<overlapped, ckrows>>
          /\ refs' = [refs EXCEPT ![task[t].repo][task[t].n] = task[t].commit]
          /\ task[t].pc = "ref" /\ task' = [task EXCEPT ![t].pc = "row"]
      BY <1>6 DEF UpdateRef
    <3>2. task'[t].pc # "failed"
      BY <1>0, <3>1 DEF TaskStates
    <3> QED
      BY <1>0, <1>6, <3>1, <3>2, TaskMoves
  <2>2. \A k \in ckrows : k.repo = task[t].repo /\ k.turn \notin overlapped => k.n < task[t].n
    BY <1>0, <2>1 DEF Behind, Numbered
  <2>3. task[t].repo \in Trees /\ task[t].n \in RefN
    <3>1. task[t].repo \in Trees /\ task[t].n \in 0..(Cardinality(Turns) + 1)
      BY <1>0 DEF TaskStates
    <3>2. TurnsAt(ckrows, task[t].repo) \in SUBSET Turns
      BY DEF TurnsAt
    <3>3. Cardinality(TurnsAt(ckrows, task[t].repo)) \in Nat
      BY <3>2, CountsAreNat
    <3>4. task[t].n \in 1..(Cardinality(TurnsAt(ckrows, task[t].repo)) + 1)
      BY <1>0, <2>1 DEF Counted, Numbered
    <3> QED
      BY <3>1, <3>3, <3>4, CountsAreNat DEF RefN
  <2>4. /\ refs'[task[t].repo][task[t].n] = task[t].commit
        /\ \A r \in Trees, n \in RefN : r # task[t].repo \/ n # task[t].n => refs'[r][n] = refs[r][n]
    BY <1>0, <2>1, <2>3
  <2>5. ASSUME NEW u \in Turns, task'[u].pc = "row", u \notin overlapped
        PROVE  refs'[task'[u].repo][task'[u].n] = task'[u].commit
    <3>1. CASE u = t
      BY <2>1, <2>4, <3>1
    <3>2. CASE u # t
      <4>1. u \in InFlight /\ t \in InFlight
        BY <1>2, <2>1, <2>5, <3>2 DEF InFlight
      <4> QED
        BY <1>0, <2>5, <3>2, <4>1 DEF Behind
    <3> QED
      BY <3>1, <3>2
  <2>6. ASSUME NEW k \in ckrows, k.turn \notin overlapped PROVE refs'[k.repo][k.n] = k.commit
    <3>1. k.repo \in Trees /\ k.n \in RefN /\ refs[k.repo][k.n] = k.commit
      BY <1>0, <2>6 DEF CkRows, CheckpointRestorable
    <3>2. k.repo # task[t].repo \/ k.n # task[t].n
      BY <2>2, <2>3, <2>6, <3>1, CountsAreNat DEF RefN
    <3> QED
      BY <2>4, <3>1, <3>2
  <2>7. CheckpointRestorable'
    BY <2>1, <2>6 DEF CheckpointRestorable
  <2> QED
    BY <1>4, <2>1, <2>2, <2>5, <2>7 DEF Behind
<1>7. CASE InsertCheckpoint(t)
  <2> DEFINE w == [turn |-> t, repo |-> task[t].repo, n |-> task[t].n, commit |-> task[t].commit]
  <2>1. /\ UNCHANGED <<overlapped, refs>> /\ ckrows' = ckrows \cup {w} /\ task[t].pc = "row"
    BY <1>7 DEF InsertCheckpoint
  <2>2. w.turn = t /\ w.repo = task[t].repo /\ w.n = task[t].n /\ w.commit = task[t].commit
    OBVIOUS
  <2> HIDE DEF w
  <2>3. \/ task'[t].pc = "done"
        \/ task'[t].pc = "max" /\ task'[t].repo = task[t].repo + 1
    <3>1. task'[t].pc # "failed"
      BY <1>0, <1>7 DEF InsertCheckpoint, TaskStates
    <3> QED
      BY <1>0, <2>1, <3>1, TaskMoves
  <2>4. /\ InFlight' \subseteq InFlight /\ t \in InFlight
        /\ Numbered' \subseteq Numbered \ {t} /\ task[t].repo \in Nat
    BY <1>0, <1>2, <2>1, <2>3 DEF InFlight, Numbered, TaskStates, Trees
  <2>5. \A u, v \in InFlight' : u # v => u \in overlapped'
    BY <1>0, <2>1, <2>4 DEF Behind
  <2>6. ASSUME NEW k \in ckrows'
        PROVE  task'[k.turn].pc # "new" /\ (k.turn \in InFlight' => k.repo < task'[k.turn].repo)
    <3>1. CASE k = w
      BY <2>2, <2>3, <2>4, <3>1 DEF InFlight
    <3>2. CASE k \in ckrows
      <4>1. /\ k.turn \in Turns /\ task[k.turn].pc # "new" /\ k.repo \in Nat
            /\ k.turn \in InFlight => k.repo < task[k.turn].repo
        BY <1>0, <3>2 DEF Behind, CkRows, Trees
      <4>2. CASE k.turn = t
        BY <2>3, <2>4, <4>1, <4>2 DEF InFlight
      <4>3. CASE k.turn # t
        BY <1>2, <2>4, <4>1, <4>3
      <4> QED
        BY <4>2, <4>3
    <3> QED
      BY <2>1, <3>1, <3>2
  <2>7. ASSUME NEW u \in Numbered', NEW k \in ckrows', k.repo = task'[u].repo, k.turn \notin overlapped
        PROVE  k.n < task'[u].n
    <3>1. u \in Numbered /\ u # t /\ task'[u] = task[u] /\ u \in InFlight
      BY <1>2, <2>4 DEF Numbered, InFlight
    <3>2. CASE k = w
      BY <1>0, <2>2, <2>4, <2>7, <3>1, <3>2 DEF Behind
    <3>3. CASE k \in ckrows
      BY <1>0, <2>7, <3>1, <3>3 DEF Behind
    <3> QED
      BY <2>1, <3>2, <3>3
  <2>8. \A u \in Turns : task'[u].pc = "row" /\ u \notin overlapped' =>
          refs'[task'[u].repo][task'[u].n] = task'[u].commit
    BY <1>0, <1>2, <2>1, <2>3 DEF Behind
  <2>9. CheckpointRestorable'
    <3>1. t \notin overlapped => refs[w.repo][w.n] = w.commit
      BY <1>0, <2>1, <2>2 DEF Behind
    <3> QED
      BY <1>0, <2>1, <2>2, <3>1 DEF CheckpointRestorable
  <2> QED
    BY <2>1, <2>5, <2>6, <2>7, <2>8, <2>9 DEF Behind
<1> QED
  BY <1>3, <1>5, <1>6, <1>7

\* A crash ends every task in flight.
LEMMA CrashBehind ==
  ASSUME CkInv, CrashTasks
  PROVE  Counted' /\ Behind' /\ CheckpointRestorable'
<1>1. /\ Counted /\ Behind /\ CheckpointRestorable
      /\ task \in [Turns -> TaskStates] /\ ckrows \subseteq CkRows
      /\ UNCHANGED <<refs, ckrows, overlapped>>
  BY DEF CkInv, CkTyped, CrashTasks
<1>2. ASSUME NEW u \in Turns
      PROVE  /\ task'[u].at = task[u].at
             /\ task'[u].pc \in {"new", "done", "failed"}
             /\ task'[u].pc = "new" <=> task[u].pc = "new"
  <2>1. task[u] \in TaskStates
    BY <1>1
  <2>2. task'[u] = IF u \in InFlight THEN [task[u] EXCEPT !.pc = "failed", !.hurt = TRUE] ELSE task[u]
    BY DEF CrashTasks
  <2> QED
    BY <2>1, <2>2 DEF TaskStates, InFlight
<1>3. Started' = Started /\ InFlight' = {} /\ Numbered' = {}
  BY <1>2 DEF Started, InFlight, Numbered
<1>4. Counted'
  BY <1>1, <1>2, <1>3 DEF Counted
<1>5. Behind'
  BY <1>1, <1>2, <1>3 DEF Behind, CkRows
<1>6. CheckpointRestorable'
  BY <1>1 DEF CheckpointRestorable
<1> QED
  BY <1>4, <1>5, <1>6

\* The inductive invariant of the checkpoints.
LEMMA CkInvHolds == CkSpec => []CkInv
<1>1. CkInit => CkInv
  <2> SUFFICES ASSUME CkInit PROVE CkInv
    OBVIOUS
  <2>1. CkTyped
    BY CkConstants, CountsAreNat DEF CkInit, CkTyped, NoRevert
  <2>2. \A t \in Turns : task[t].pc = "new" /\ task[t].at = 0
    BY DEF CkInit, NotRun
  <2>3. Cardinality(Started) \in Nat /\ Numbered = {} /\ InFlight = {} /\ ckrows = {}
    BY <2>2, CountsAreNat DEF Started, Numbered, InFlight, CkInit
  <2> QED
    BY <2>1, <2>2, <2>3 DEF CkInv, Counted, Behind, CheckpointRestorable
<1>2. CkInv /\ [CkNext]_ckVars => CkInv'
  <2> SUFFICES ASSUME CkInv, [CkNext]_ckVars PROVE CkInv'
    OBVIOUS
  <2>1. CkTyped'
    BY CkNextTypes
  <2>2. CASE UNCHANGED <<refs, ckrows, task, overlapped>>
    <3>1. Counted'
      BY <2>2 DEF CkInv, Counted, Started, Numbered
    <3>2. Behind' /\ CheckpointRestorable'
      BY <2>2 DEF CkInv, Behind, CheckpointRestorable, InFlight, Numbered
    <3> QED
      BY <2>1, <3>1, <3>2 DEF CkInv
  <2>3. ASSUME NEW t \in Turns,
               \/ CompleteTurn(t) \/ ReadMax(t) \/ CommitTree(t) \/ UpdateRef(t)
               \/ InsertCheckpoint(t) \/ TaskFails(t)
        PROVE  CkInv'
    BY <2>1, <2>3, TaskCounted, TaskBehind DEF CkInv
  <2>4. CASE CrashTasks
    BY <2>1, <2>4, CrashBehind DEF CkInv
  <2> QED
    BY <2>2, <2>3, <2>4
       DEF CkNext, AgentWrites, BeginTurnRevert, HardReset, HardResetFails, SupersedeLater, ckVars
<1> QED
  BY <1>1, <1>2, PTL DEF CkSpec

(* A row's ref names the commit its turn made, through failures and crashes  *)
(* between the commit, the ref and the row, and through reverts; only tasks  *)
(* that ran at the same time may take the same number (CheckpointRestorable).*)
THEOREM CheckpointRestorableHolds == CkSpec => []CheckpointRestorable
<1>1. CkInv => CheckpointRestorable
  BY DEF CkInv
<1> QED
  BY <1>1, CkInvHolds, PTL

(* Trees, refs, rows, tasks and reverts are well typed: no number outgrows   *)
(* the turns there are, and a revert resets to rows of the table (CkTypeOK). *)
THEOREM CkTypesHold == CkSpec => []CkTypeOK
<1>1. CkInv => CkTypeOK
  BY CkConstants DEF CkInv
<1> QED
  BY <1>1, CkInvHolds, PTL
=============================================================================
