------------------------------- MODULE PrSet -------------------------------
(***************************************************************************)
(* The pull requests of one workarea: created and re-read through gh,      *)
(* merged in order with a wait for checks after each, reverted in reverse  *)
(* (crates/core/src/workspace_manager/workarea.rs, scheduler/wait_checks.rs*)
(* and vcs/src/actor.rs).  GitHub holds the truth; the pull_requests rows  *)
(* are a cache that a merge, a revert and a re-read write without looking  *)
(* at each other.                                                          *)
(***************************************************************************)
EXTENDS Integers, SequencesExt

CONSTANTS
  PrRepos,             \* repositories of the workarea, naturals: the PR number
  MergeCalls,          \* concurrent calls of merge_workarea_pr_set
  MaxPrCalls,          \* merges, reverts, reorders and re-reads in all
  MaxPrFaults          \* rejections, API errors and database failures

ASSUME PrAssumption ==
  /\ IsFiniteSet(PrRepos) /\ PrRepos \subseteq Nat
  /\ MaxPrCalls \in Nat /\ MaxPrFaults \in Nat

VARIABLES
  prRow,               \* repo -> the cached row
  remote,              \* repo -> the PR as GitHub has it
  checks,              \* repo -> the runs reported so far, taken together, of the
                       \* commit that is polled once the PR is merged
  green,               \* history: PRs whose reported runs had all passed at once
  merge,               \* caller -> merge_workarea_pr_set in flight
  revert,              \* revert_workarea_pr_set in flight
  reread,              \* get_pr between its answer from gh and its upsert
  tracker,             \* members of the set whose merge closed the issue
  anywayAllowed,       \* allowMergeWithFailingChecks of managed.json
  nprcalls, nprfaults

checkVars == <<checks, green>>
prTables == <<prRow, remote, checkVars>>
prVars == <<prTables, merge, revert, reread, tracker, anywayAllowed, nprcalls, nprfaults>>

NoPr == [state |-> "none", order |-> 0]
NoMerge == [pc |-> "idle", plan |-> <<>>, at |-> 1, late |-> FALSE,
            anyway |-> FALSE, result |-> "none"]
NoRevert == [pc |-> "idle", left |-> <<>>]
NoReread == [pc |-> "idle", repo |-> 0, seen |-> "none"]

PrInit ==
  /\ prRow = [r \in PrRepos |-> NoPr]
  /\ remote = [r \in PrRepos |-> "none"]
  /\ checks = [r \in PrRepos |-> "none"] /\ green = {}
  /\ merge = [c \in MergeCalls |-> NoMerge]
  /\ revert = NoRevert
  /\ reread = NoReread
  /\ tracker = {}
  /\ anywayAllowed \in BOOLEAN
  /\ nprcalls = 0 /\ nprfaults = 0

PrFault == nprfaults < MaxPrFaults /\ nprfaults' = nprfaults + 1
PrCall == nprcalls < MaxPrCalls /\ nprcalls' = nprcalls + 1

\* list_by_workarea: ORDER BY merge_order, pr_number.
Cached == {r \in PrRepos : prRow[r].state # "none"}

Before(a, b) == \/ prRow[a].order < prRow[b].order
                \/ prRow[a].order = prRow[b].order /\ a < b

Ordered == [i \in 1..Cardinality(Cached) |->
              CHOOSE r \in Cached : Cardinality({q \in Cached : Before(q, r)}) = i - 1]

-----------------------------------------------------------------------------
(* The rows: create_pr, get_pr, set_merge_order.                           *)

NextMergeOrder ==
  LET orders == {prRow[r].order : r \in Cached}
  IN  IF orders = {} THEN 0 ELSE Max(orders) + 1

\* `gh pr create`, then the view whose answer the upsert stores.
CreatePr(r) ==
  /\ reread = NoReread /\ remote[r] = "none"
  /\ remote' = [remote EXCEPT ![r] = "open"]
  /\ reread' = [pc |-> "seen", repo |-> r, seen |-> "open"]
  /\ UNCHANGED <<prRow, checkVars, merge, revert, tracker, anywayAllowed, nprcalls, nprfaults>>

\* A PR whose change was reverted still reads MERGED.
ViewPr(r) ==
  /\ reread = NoReread /\ remote[r] # "none" /\ PrCall
  /\ reread' = [pc |-> "seen", repo |-> r,
                seen |-> IF remote[r] = "open" THEN "open" ELSE "merged"]
  /\ UNCHANGED <<prTables, merge, revert, tracker, anywayAllowed, nprfaults>>

\* The writer lock covers MAX(merge_order) and the upsert; a row that exists
\* keeps its order and takes everything else.
UpsertPr ==
  LET r == reread.repo
  IN  /\ reread.pc = "seen"
      /\ prRow' = [prRow EXCEPT ![r] =
           [state |-> reread.seen,
            order |-> IF @.state = "none" THEN NextMergeOrder ELSE @.order]]
      /\ reread' = NoReread
      /\ UNCHANGED <<remote, checkVars, merge, revert, tracker, anywayAllowed,
                     nprcalls, nprfaults>>

SetMergeOrder(r, n) ==
  /\ prRow[r].state # "none" /\ prRow[r].order # n /\ PrCall
  /\ prRow' = [prRow EXCEPT ![r].order = n]
  /\ UNCHANGED <<remote, checkVars, merge, revert, reread, tracker, anywayAllowed, nprfaults>>

-----------------------------------------------------------------------------
(* merge_workarea_pr_set                                                   *)

\* The override is refused before anything is merged; an empty set is merged.
BeginMerge(c, anyway) ==
  /\ merge[c].pc = "idle" /\ PrCall
  /\ anyway => anywayAllowed
  /\ merge' = [merge EXCEPT ![c] =
       IF Ordered = <<>> THEN [NoMerge EXCEPT !.result = "merged"]
       ELSE [NoMerge EXCEPT !.pc = "merge", !.plan = Ordered, !.anyway = anyway]]
  /\ UNCHANGED <<prTables, revert, reread, tracker, anywayAllowed, nprfaults>>

Member(c) == merge[c].plan[merge[c].at]

\* pause_merge: frames for the listeners, and the call returns.
Paused(c) == merge' = [merge EXCEPT ![c].pc = "idle", ![c].result = "paused"]

Reported(r, runs) ==
  /\ checks' = [checks EXCEPT ![r] = runs]
  /\ green' = IF runs = "green" THEN green \cup {r} ELSE green

\* The commit to poll is the merge commit, which has no runs yet, or where the
\* provider names none the PR's head, which may have any.
MergePr(c) ==
  /\ merge[c].pc = "merge" /\ remote[Member(c)] = "open"
  /\ remote' = [remote EXCEPT ![Member(c)] = "merged"]
  /\ \E runs \in {"none", "pending", "green", "red"} : Reported(Member(c), runs)
  /\ merge' = [merge EXCEPT ![c].pc = "poll", ![c].late = FALSE]
  /\ UNCHANGED <<prRow, revert, reread, tracker, anywayAllowed, nprcalls, nprfaults>>

\* A conflict or an API error, or a PR that is merged already.
MergeRejected(c) ==
  /\ merge[c].pc = "merge"
  /\ IF remote[Member(c)] = "open" THEN PrFault ELSE UNCHANGED nprfaults
  /\ Paused(c)
  /\ UNCHANGED <<prTables, revert, reread, tracker, anywayAllowed, nprcalls>>

\* RequiredChecks::AllTerminal, over the runs reported so far: none of them is
\* not resolved, and one that is reported later is not waited for.
ResolvedEarly(r) == checks[r] # "pending"
Resolved(r) == checks[r] \in {"green", "red"}
Passed(r) == Resolved(r) /\ checks[r] # "red"

\* A poll that never looks at the deadline.
PollOnAndOn(c) ==
  /\ merge[c].pc = "poll"
  /\ IF Resolved(Member(c))
       THEN IF Passed(Member(c)) \/ merge[c].anyway
              THEN merge' = [merge EXCEPT ![c].pc = "mark"] ELSE Paused(c)
       ELSE merge' = [merge EXCEPT ![c].pc = "sleep"]
  /\ UNCHANGED <<prTables, revert, reread, tracker, anywayAllowed, nprcalls, nprfaults>>

\* run_wait_loop: the deadline is looked at after the runs.
Poll(c) ==
  /\ merge[c].pc = "poll"
  /\ IF Resolved(Member(c)) \/ merge[c].late
       THEN IF Passed(Member(c)) \/ merge[c].anyway
              THEN merge' = [merge EXCEPT ![c].pc = "mark"]
              ELSE Paused(c)
       ELSE merge' = [merge EXCEPT ![c].pc = "sleep"]
  /\ UNCHANGED <<prTables, revert, reread, tracker, anywayAllowed, nprcalls, nprfaults>>

\* A source that cannot be read ends the whole call, past any pause; at the
\* deadline it is a timeout.
PollFails(c) ==
  /\ merge[c].pc = "poll" /\ PrFault
  /\ \/ merge' = [merge EXCEPT ![c].pc = "idle", ![c].result = "error"]
     \/ merge[c].late /\ ~merge[c].anyway /\ Paused(c)
     \/ merge[c].late /\ merge[c].anyway /\ merge' = [merge EXCEPT ![c].pc = "mark"]
  /\ UNCHANGED <<prTables, revert, reread, tracker, anywayAllowed, nprcalls>>

\* The back-off runs out, or a webhook for the repository cuts it short.
WakePoll(c) ==
  /\ merge[c].pc = "sleep"
  /\ merge' = [merge EXCEPT ![c].pc = "poll"]
  /\ UNCHANGED <<prTables, revert, reread, tracker, anywayAllowed, nprcalls, nprfaults>>

Deadline(c) ==
  /\ merge[c].pc \in {"poll", "sleep"} /\ ~merge[c].late
  /\ merge' = [merge EXCEPT ![c].late = TRUE]
  /\ UNCHANGED <<prTables, revert, reread, tracker, anywayAllowed, nprcalls, nprfaults>>

\* mark_pr_merged is best effort: ok is FALSE when the statement fails.
StepCompleted(c, ok) ==
  /\ merge[c].pc = "mark"
  /\ IF ok THEN prRow' = [prRow EXCEPT ![Member(c)].state = "merged"] /\ UNCHANGED nprfaults
           ELSE PrFault /\ UNCHANGED prRow
  /\ merge' = [merge EXCEPT ![c].at = @ + 1,
                 ![c].pc = IF merge[c].at = Len(merge[c].plan) THEN "done" ELSE "merge"]
  /\ UNCHANGED <<remote, checkVars, revert, reread, tracker, anywayAllowed, nprcalls>>

\* SetMerged, then run_issue_write_back, whose outcome changes nothing here.
SetMerged(c, written) ==
  /\ merge[c].pc = "done"
  /\ merge' = [merge EXCEPT ![c].pc = "idle", ![c].result = "merged"]
  /\ tracker' = IF written THEN tracker \cup ToSet(merge[c].plan) ELSE tracker
  /\ UNCHANGED <<prTables, revert, reread, anywayAllowed, nprcalls, nprfaults>>

-----------------------------------------------------------------------------
(* revert_workarea_pr_set                                                  *)

BeginRevert ==
  /\ revert.pc = "idle" /\ PrCall
  /\ revert' = [pc |-> "walk", left |-> [i \in DOMAIN Ordered |->
                   LET r == Reverse(Ordered)[i] IN [repo |-> r, state |-> prRow[r].state]]]
  /\ UNCHANGED <<prTables, merge, reread, tracker, anywayAllowed, nprfaults>>

\* The rows were read at the start: a member not 'merged' then is skipped, and
\* one that fails is reported and does not stop the walk.
RevertMember(ok) ==
  LET m == Head(revert.left)
  IN  /\ revert.pc = "walk" /\ revert.left # <<>>
      /\ revert' = [revert EXCEPT !.left = Tail(@)]
      /\ IF m.state = "merged" /\ ok
           THEN /\ remote' = [remote EXCEPT ![m.repo] = "reverted"]
                /\ prRow' = [prRow EXCEPT ![m.repo].state = "reverted"]
           ELSE UNCHANGED <<remote, prRow>>
      /\ IF m.state = "merged" /\ ~ok THEN PrFault ELSE ok /\ UNCHANGED nprfaults
      /\ UNCHANGED <<checkVars, merge, reread, tracker, anywayAllowed, nprcalls>>

RevertReturns ==
  /\ revert.pc = "walk" /\ revert.left = <<>>
  /\ revert' = NoRevert
  /\ UNCHANGED <<prTables, merge, reread, tracker, anywayAllowed, nprcalls, nprfaults>>

-----------------------------------------------------------------------------
\* The runs of the commit: the first is reported, all end, and another is
\* reported or one is run again after all had ended.
ReportChecks(r, runs) ==
  /\ remote[r] \notin {"none", "open"}
  /\ <<checks[r], runs>> \in ({"none", "green", "red"} \X {"pending"})
                              \cup ({"pending"} \X {"green", "red"})
  /\ Reported(r, runs)
  /\ UNCHANGED <<prRow, remote, merge, revert, reread, tracker, anywayAllowed,
                 nprcalls, nprfaults>>

MergeStep(c) ==
  \/ MergePr(c) \/ MergeRejected(c)
  \/ Poll(c) \/ PollFails(c) \/ WakePoll(c)
  \/ \E ok \in BOOLEAN : StepCompleted(c, ok) \/ SetMerged(c, ok)

RowStep ==
  \/ \E r \in PrRepos : CreatePr(r) \/ ViewPr(r)
  \/ \E r, n \in PrRepos : SetMergeOrder(r, n)
  \/ UpsertPr

PrNext ==
  \/ \E c \in MergeCalls : \/ \E anyway \in BOOLEAN : BeginMerge(c, anyway)
                           \/ MergeStep(c) \/ Deadline(c)
  \/ BeginRevert \/ (\E ok \in BOOLEAN : RevertMember(ok)) \/ RevertReturns
  \/ RowStep
  \/ \E r \in PrRepos, runs \in {"pending", "green", "red"} : ReportChecks(r, runs)

\* A call is one task, and its timeout is a timer; GitHub owes nothing.
PrFairness == \A c \in MergeCalls : WF_prVars(MergeStep(c)) /\ WF_prVars(Deadline(c))

PrSpec == PrInit /\ [][PrNext]_prVars /\ PrFairness

-----------------------------------------------------------------------------
PrTypeOK ==
  /\ prRow \in [PrRepos -> [state : {"none", "open", "merged", "reverted"}, order : Nat]]
  /\ remote \in [PrRepos -> {"none", "open", "merged", "reverted"}]
  /\ checks \in [PrRepos -> {"none", "pending", "green", "red"}] /\ green \subseteq PrRepos
  /\ \A c \in MergeCalls :
       /\ merge[c].pc \in {"idle", "merge", "poll", "sleep", "mark", "done"}
       /\ merge[c].plan \in Seq(PrRepos) /\ merge[c].at \in Nat
       /\ merge[c].result \in {"none", "merged", "paused", "error"}
       /\ merge[c].late \in BOOLEAN /\ merge[c].anyway \in BOOLEAN
  /\ revert.pc \in {"idle", "walk"}
  /\ reread.seen \in {"none", "open", "merged"}
  /\ tracker \subseteq PrRepos /\ anywayAllowed \in BOOLEAN

\* A merge goes on to its next member only when the one before is merged and
\* the runs reported for it had all passed at some time since, and an issue is
\* closed only for a set of such members: whatever is reordered, re-read,
\* reverted, run again or merged by another call meanwhile, and whatever
\* override the caller asks for where managed.json forbids it.  It is not that
\* the checks are green: a run reported after the poll is not waited for, and
\* without a merge commit the runs are the PR's own
\* (workarea.rs:1806-2012, wait_checks.rs:130-166, 259-344).
MergesOnGreen ==
  /\ \A c \in MergeCalls : \A i \in 1..(merge[c].at - 1) :
       LET r == merge[c].plan[i]
       IN  /\ remote[r] \in {"merged", "reverted"}
           /\ r \in green \/ (merge[c].anyway /\ anywayAllowed)
  /\ \A r \in tracker : r \in green \/ anywayAllowed

\* A merge of the set returns, although its checks may never report and a
\* webhook may wake the wait again and again (wait_checks.rs:259-340).
MergeReturns == []<>(\A c \in MergeCalls : merge[c].pc = "idle")

\* A revert that starts while nothing is being merged finds every member that
\* was merged: "Walk the workarea's merged members in REVERSE `merge_order`
\* and `revert_pr` each" (workarea.rs:2198-2199).
MergedIsRevertible ==
  [][revert.pc = "idle" /\ revert'.pc = "walk" /\ (\A c \in MergeCalls : merge[c].pc = "idle")
       => \A r \in PrRepos : remote[r] = "merged" =>
            \E i \in DOMAIN revert'.left : revert'.left[i] = [repo |-> r, state |-> "merged"]]_prVars
=============================================================================
