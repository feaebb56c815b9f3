------------------------------ MODULE VcsSync -------------------------------
(***************************************************************************)
(* The check-run cache of one (repository, sha) and the webhooks that      *)
(* invalidate it (crates/vcs/src/checks.rs, ingest_webhook in actor.rs).   *)
(* A reader looks at the cache, awaits the provider and writes the cache   *)
(* in separate critical sections; readers overlap each other and the       *)
(* webhook's forced fetch.  Deliveries are recorded before they are        *)
(* verified; GitHub sends a delivery again when it was not answered 200.   *)
(***************************************************************************)
EXTENDS Integers, FiniteSets

CONSTANTS
  Readers,             \* concurrent calls of check_runs
  Deliveries,          \* webhook delivery ids, each authentic
  Ttl,                 \* CHECK_CACHE_TTL_SECS
  MaxClock, MaxChanges, MaxVcsFaults

ASSUME VcsAssumption ==
  /\ IsFiniteSet(Readers) /\ IsFiniteSet(Deliveries)
  /\ Ttl \in Nat \ {0} /\ {MaxClock, MaxChanges, MaxVcsFaults} \subseteq Nat

VARIABLES
  clock,
  checkRuns,           \* the provider's answer: a version, and when each of
                       \* the earlier ones was last current
  cache,               \* [at, v], v = 0 when there is no entry
  reader,              \* who is fetching: readers and ingested deliveries
  served,              \* history: the last answer from the cache
  recorded,            \* webhook_deliveries, which survives a restart
  ingest,              \* delivery -> its call, and GitHub's last answer
  applied,             \* history: deliveries that dropped the cache entry
  vcsFaults

vcsVars == <<clock, checkRuns, cache, reader, served, recorded, ingest, applied, vcsFaults>>

Empty == [at |-> 0, v |-> 0]
Idle == [pc |-> "idle", start |-> 0, v |-> 0]

VcsInit ==
  /\ clock = 0
  /\ checkRuns = [v |-> 1, until |-> [u \in 1..(MaxChanges + 1) |-> MaxClock]]
  /\ cache = Empty
  /\ reader = [r \in Readers \cup Deliveries |-> Idle]
  /\ served = Empty
  /\ recorded = {}
  /\ ingest = [d \in Deliveries |-> [pc |-> "out", answer |-> "none"]]
  /\ applied = {}
  /\ vcsFaults = 0

VcsFault == vcsFaults < MaxVcsFaults /\ vcsFaults' = vcsFaults + 1

Tick ==
  /\ clock < MaxClock
  /\ clock' = clock + 1
  /\ UNCHANGED <<checkRuns, cache, reader, served, recorded, ingest, applied, vcsFaults>>

\* A check run changes at the provider.
Change ==
  /\ checkRuns.v <= MaxChanges
  /\ checkRuns' = [v |-> checkRuns.v + 1, until |-> [checkRuns.until EXCEPT ![checkRuns.v] = clock]]
  /\ UNCHANGED <<clock, cache, reader, served, recorded, ingest, applied, vcsFaults>>

-----------------------------------------------------------------------------
(* check_runs                                                              *)

Fetching(r) == [reader EXCEPT ![r] = [Idle EXCEPT !.pc = "fetch", !.start = clock]]

\* A fresh entry is served; the clock is read before anything else.
ReadCache(r) ==
  /\ reader[r].pc = "idle" /\ cache # Empty /\ clock - cache.at < Ttl
  /\ served' = [at |-> clock, v |-> cache.v]
  /\ UNCHANGED <<clock, checkRuns, cache, reader, recorded, ingest, applied, vcsFaults>>

\* No fresh entry, or force; refresh_workarea_pr drops the entry first.
BeginFetch(r) ==
  /\ reader[r].pc = "idle"
  /\ cache' \in {cache, Empty}
  /\ reader' = Fetching(r)
  /\ UNCHANGED <<clock, checkRuns, served, recorded, ingest, applied, vcsFaults>>

\* provider.list_check_runs answers, or fails and the call returns.
Answered(r) ==
  /\ reader[r].pc = "fetch"
  /\ reader' = [reader EXCEPT ![r].pc = "insert", ![r].v = checkRuns.v]
  /\ UNCHANGED <<clock, checkRuns, cache, served, recorded, ingest, applied, vcsFaults>>

FetchFails(r) ==
  /\ reader[r].pc = "fetch" /\ VcsFault
  /\ reader' = [reader EXCEPT ![r] = Idle]
  /\ UNCHANGED <<clock, checkRuns, cache, served, recorded, ingest, applied>>

\* fetched_at is the time the call began; a slip takes the time it ended.
EntryStampedLate(r) == [at |-> clock, v |-> reader[r].v]

Entry(r) == [at |-> reader[r].start, v |-> reader[r].v]

Insert(r) ==
  /\ reader[r].pc = "insert"
  /\ cache' = Entry(r)
  /\ reader' = [reader EXCEPT ![r] = Idle]
  /\ UNCHANGED <<clock, checkRuns, served, recorded, ingest, applied, vcsFaults>>

-----------------------------------------------------------------------------
(* ingest_webhook: record, verify, invalidate.                             *)

Answer(d, a) == ingest' = [ingest EXCEPT ![d] = [pc |-> "out", answer |-> a]]

\* GitHub sends, or sends again what it has no 200 for.  INSERT OR IGNORE
\* tells a replay from a first arrival.
DeliverWebhook(d) ==
  /\ ingest[d].pc = "out" /\ ingest[d].answer \in {"none", "error"}
  /\ IF d \in recorded
       THEN Answer(d, "accepted") /\ UNCHANGED recorded
       ELSE /\ recorded' = recorded \cup {d}
            /\ ingest' = [ingest EXCEPT ![d].pc = "verify"]
  /\ UNCHANGED <<clock, checkRuns, cache, reader, served, applied, vcsFaults>>

RecordFails(d) ==
  /\ ingest[d].pc = "out" /\ ingest[d].answer \in {"none", "error"}
  /\ VcsFault
  /\ Answer(d, "error")
  /\ UNCHANGED <<clock, checkRuns, cache, reader, served, recorded, applied>>

\* The secret cannot be read: 5xx, and the record stays.
SecretFails(d) ==
  /\ ingest[d].pc = "verify" /\ VcsFault
  /\ Answer(d, "error")
  /\ UNCHANGED <<clock, checkRuns, cache, reader, served, recorded, applied>>

\* invalidate_check_runs drops the entry and forces a fetch.
Invalidate(d) ==
  /\ ingest[d].pc = "verify"
  /\ cache' = Empty
  /\ applied' = applied \cup {d}
  /\ reader' = Fetching(d)
  /\ ingest' = [ingest EXCEPT ![d].pc = "refetch"]
  /\ UNCHANGED <<clock, checkRuns, served, recorded, vcsFaults>>

\* The answer does not depend on how the fetch went.
Accept(d) ==
  /\ ingest[d].pc = "refetch" /\ reader[d].pc = "idle"
  /\ Answer(d, "accepted")
  /\ UNCHANGED <<clock, checkRuns, cache, reader, served, recorded, applied, vcsFaults>>

\* A Core restart: the caches are in memory, the record is not.  GitHub takes
\* a call cut short as failed.
VcsRestart ==
  /\ VcsFault
  /\ cache' = Empty
  /\ reader' = [r \in Readers \cup Deliveries |-> Idle]
  /\ ingest' = [d \in Deliveries |->
                  IF ingest[d].pc = "out" THEN ingest[d] ELSE [pc |-> "out", answer |-> "error"]]
  /\ UNCHANGED <<clock, checkRuns, served, recorded, applied>>

VcsNext ==
  \/ Tick \/ Change \/ VcsRestart
  \/ \E r \in Readers : ReadCache(r) \/ BeginFetch(r)
  \/ \E r \in Readers \cup Deliveries :
       Answered(r) \/ FetchFails(r) \/ Insert(r)
  \/ \E d \in Deliveries :
       DeliverWebhook(d) \/ RecordFails(d) \/ SecretFails(d) \/ Invalidate(d) \/ Accept(d)

VcsSpec == VcsInit /\ [][VcsNext]_vcsVars

-----------------------------------------------------------------------------
VcsTypeOK ==
  LET entry == [at : 0..MaxClock, v : 0..(MaxChanges + 1)]
  IN  /\ clock \in 0..MaxClock
      /\ checkRuns \in [v : 1..(MaxChanges + 1), until : [1..(MaxChanges + 1) -> 0..MaxClock]]
      /\ {cache, served} \subseteq entry
      /\ reader \in [Readers \cup Deliveries ->
                       [pc : {"idle", "fetch", "insert"},
                        start : 0..MaxClock, v : 0..(MaxChanges + 1)]]
      /\ recorded \subseteq Deliveries /\ applied \subseteq recorded
      /\ ingest \in [Deliveries -> [pc : {"out", "verify", "refetch"},
                                    answer : {"none", "accepted", "error"}]]

\* What the cache serves was current at the provider less than Ttl ago, although
\* an older fetch may overwrite a newer one, and a webhook's or a refresh's
\* drop may be undone by a fetch that began before it (checks.rs:375-420).
StalenessBounded ==
  served # Empty => checkRuns.until[served.v] > served.at - Ttl

\* GitHub redelivers what is answered 5xx, and a redelivery it is told was
\* accepted has been applied (crates/vcs/src/actor.rs:443-535).
AcceptedIsApplied ==
  \A d \in Deliveries : ingest[d].answer = "accepted" => d \in applied
=============================================================================
