---------------------------- MODULE MCServices -----------------------------
(* The Core's services and the creation of workareas, which share no state. *)
(* A behaviour is of one of them, "service", so that one run explores the   *)
(* sum of their states; the others stay as they begin.                      *)
EXTENDS WorkareaCreate, Scheduler, Streams, VcsSync, Notifications, Audit,
        PidFile, Checkpoint, Devices, Suggestions

VARIABLE service

core == <<scVars, pidVars>>
agents == <<wcVars, ckVars, sgVars>>
edges == <<stVars, vcsVars, ntVars, adVars, devVars>>
servicesVars == <<service, core, agents, edges>>

ServicesInit ==
  /\ service \in {"create", "schedule", "streams", "vcs", "notify", "audit",
                  "pid", "checkpoint", "devices", "suggest"}
  /\ CreateInit /\ SchedInit /\ StreamsInit /\ VcsInit /\ NotifInit
  /\ AuditInit /\ PidInit /\ CkInit /\ DevicesInit /\ SuggestionsInit

ServicesNext ==
  /\ UNCHANGED service
  /\ \/ /\ service = "create" /\ CreateNext
        /\ UNCHANGED <<core, ckVars, sgVars, edges>>
     \/ /\ service = "checkpoint" /\ CkNext
        /\ UNCHANGED <<core, wcVars, sgVars, edges>>
     \/ /\ service = "suggest" /\ SuggestionsNext
        /\ UNCHANGED <<core, wcVars, ckVars, edges>>
     \/ /\ service = "schedule" /\ SchedNext
        /\ UNCHANGED <<pidVars, agents, edges>>
     \/ /\ service = "pid" /\ PidNext
        /\ UNCHANGED <<scVars, agents, edges>>
     \/ /\ service = "streams" /\ StreamsNext
        /\ UNCHANGED <<core, agents, vcsVars, ntVars, adVars, devVars>>
     \/ /\ service = "vcs" /\ VcsNext
        /\ UNCHANGED <<core, agents, stVars, ntVars, adVars, devVars>>
     \/ /\ service = "notify" /\ NotifNext
        /\ UNCHANGED <<core, agents, stVars, vcsVars, adVars, devVars>>
     \/ /\ service = "audit" /\ AuditNext
        /\ UNCHANGED <<core, agents, stVars, vcsVars, ntVars, devVars>>
     \/ /\ service = "devices" /\ DevicesNext
        /\ UNCHANGED <<core, agents, stVars, vcsVars, ntVars, adVars>>

ServicesSpec == ServicesInit /\ [][ServicesNext]_servicesVars

\* Where two bounds multiply, only one of them is exhausted: a second schedule
\* or a second run; a crash or a third create; a failed push or a second event; one
\* device registers a new push token, or the other; one device taps one of the
\* chips, where both tap the other; one session of the workarea ends, or the other.
ServicesBound ==
  /\ \/ \E i \in Schedules : sched[i] = "none"
     \/ Cardinality({r \in Run : runs[r] # NoRun}) <= 1
  /\ wcrashes = 0 \/ ncreates < MaxCreates
  /\ pushFaults = 0 \/ Cardinality({e \in Events : notifying[e] # NotYet}) <= 1
  /\ Cardinality({d \in Devices : token[d] = 2}) <= 1
  /\ Cardinality({t \in Taps : chip[t] # "none"}) <= 3
  /\ Cardinality({s \in Talkers : talk[s].inc = MaxTalks /\ ~talk[s].row}) <= 1

\* The type invariants of the ten, each for the states of its own service.
ServicesTypeOK ==
  /\ service = "create" => CreateTypeOK
  /\ service = "schedule" => SchedTypeOK
  /\ service = "streams" => StreamsTypeOK
  /\ service = "vcs" => VcsTypeOK
  /\ service = "notify" => NotifTypeOK
  /\ service = "audit" => AuditTypeOK
  /\ service = "pid" => PidTypeOK
  /\ service = "checkpoint" => CkTypeOK
  /\ service = "devices" => DevicesTypeOK
  /\ service = "suggest" => SuggestionsTypeOK
=============================================================================
