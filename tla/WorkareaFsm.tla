---------------------------- MODULE WorkareaFsm ----------------------------
(***************************************************************************)
(* The workarea state graph (crates/core/src/workspace_manager/fsm.rs).    *)
(* The graph is a set of edges; Step follows one, and a pair of state and  *)
(* event without an edge is rejected.                                      *)
(***************************************************************************)
EXTENDS FiniteSets

WaState == {"created", "active", "running", "awaiting", "paused", "finished",
            "partial", "crashed", "archived"}

WaEvent == {"SessionStarted", "SessionAwaiting", "SessionResumed",
            "SessionFinished", "SessionCrashed", "Pause", "Resume", "Archive",
            "Restore", "AdoptCrashed"}

Edge == [from : WaState, on : WaEvent, to : WaState]

\* The edges on an event, from each state of a set to one state.
Fan(froms, event, target) == [from : froms, on : {event}, to : {target}]

Edges ==
  UNION {Fan({"active", "finished", "partial", "crashed"}, "SessionStarted", "running"),
         Fan({"running"}, "SessionAwaiting", "awaiting"),
         Fan({"awaiting"}, "SessionResumed", "running"),
         Fan({"partial"}, "SessionResumed", "active"),
         Fan({"running", "awaiting"}, "SessionFinished", "finished"),
         Fan({"running", "awaiting"}, "SessionCrashed", "crashed"),
         Fan({"active", "running", "awaiting"}, "Pause", "paused"),
         Fan({"paused"}, "Resume", "active"),
         Fan(WaState, "Archive", "archived"),
         Fan({"archived"}, "Restore", "active"),
         Fan(WaState \ {"created", "crashed", "archived"}, "AdoptCrashed", "crashed")}

Allowed(s, on) == \E e \in Edges : e.from = s /\ e.on = on

Step(s, on) == (CHOOSE e \in Edges : e.from = s /\ e.on = on).to
============================================================================
