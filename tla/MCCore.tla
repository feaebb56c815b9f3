------------------------------- MODULE MCCore -------------------------------
(* Parts of the Core that share no state: one supervised actor, and of a   *)
(* workarea its life cycle, its set of pull requests and the repositories   *)
(* under it.  A behaviour is of one of them, "part", so that one run        *)
(* explores the sum of their states; the others stay as they begin.  The    *)
(* fairness is that of LifeSpec, PrSpec and RepoSpec.                       *)
EXTENDS WorkareaLife, PrSet, RepoManager, Supervisor

CONSTANT Together      \* the sets of sessions that start in one behaviour

VARIABLE part

coreVars == <<part, waVars, prVars, rmVars, superVars>>

CoreInit ==
  /\ part \in {"life", "prs", "repos", "supervise"}
  /\ LifeInit /\ PrInit /\ RepoInit /\ SupInit
  /\ IF part = "life" THEN {s \in WaSessions : sess[s] = "none"} \in Together
                      ELSE sess = [s \in WaSessions |-> "ended"]
  /\ part # "prs" => anywayAllowed
  /\ part # "repos" => clone = [r \in Clones |-> "none"]

CoreNext ==
  /\ UNCHANGED part
  /\ \/ part = "life" /\ LifeNext /\ UNCHANGED <<prVars, rmVars, superVars>>
     \/ part = "prs" /\ PrNext /\ UNCHANGED <<waVars, rmVars, superVars>>
     \/ part = "repos" /\ RepoNext /\ UNCHANGED <<waVars, prVars, superVars>>
     \/ part = "supervise" /\ SupNext /\ UNCHANGED <<waVars, prVars, rmVars>>

CoreSpec ==
  /\ CoreInit /\ [][CoreNext]_coreVars
  /\ WF_waVars(part = "life" /\ TickWork) /\ WF_waVars(part = "life" /\ BootWork)
  /\ \A c \in MergeCalls : /\ WF_prVars(part = "prs" /\ MergeStep(c))
                           /\ WF_prVars(part = "prs" /\ Deadline(c))
  /\ \A c \in RepoCalls : WF_rmVars(part = "repos" /\ CallStep(c))

\* The type invariants of the four, each for the states of its own part.
CoreTypeOK ==
  /\ part = "life" => LifeTypeOK
  /\ part = "prs" => PrTypeOK
  /\ part = "repos" => RepoTypeOK
  /\ part = "supervise" => SupTypeOK
=============================================================================
