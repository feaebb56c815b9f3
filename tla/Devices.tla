------------------------------ MODULE Devices ------------------------------
(***************************************************************************)
(* Paired devices (core security/pairing.rs, devices.rs, auth.rs): the     *)
(* in-memory pairing tokens, the devices table, and the in-memory set of   *)
(* revoked devices that every request is checked against.  Signatures and  *)
(* certificates are taken to be good: what is modelled is the bookkeeping. *)
(***************************************************************************)
EXTENDS Naturals, FiniteSets

CONSTANTS
  Phones,              \* devices, by key
  Attempts,            \* complete_pairing calls
  TokenCap,            \* MAX_ACTIVE_TOKENS
  TokenTtl,            \* PAIRING_TOKEN_TTL
  MaxTokens,           \* tokens minted, in all
  MaxMoments,          \* the clock's bound
  MaxDevFaults,        \* database errors and cancelled calls
  MaxDevBoots          \* restarts

ASSUME DevicesAssumption ==
  /\ TokenCap \in Nat \ {0} /\ TokenTtl \in Nat \ {0} /\ MaxTokens \in Nat
  /\ MaxMoments \in Nat /\ MaxDevFaults \in Nat /\ MaxDevBoots \in Nat

VARIABLES
  moment,              \* the clock
  minted,              \* tokens minted
  tokens,              \* active tokens -> when they were issued
  attempt,             \* attempt -> what it has got to
  devices,             \* the devices table
  revoking,            \* phone -> the revoke_device call in flight
  revokedSet,          \* RevokedSet
  told,                \* history: phones whose revocation returned Ok
  devFaults, devBoots

devVars == <<moment, minted, tokens, attempt, devices, revoking, revokedSet, told,
             devFaults, devBoots>>

Token == 1..MaxTokens
NoDevice == [state |-> "none", token |-> 0, at |-> 0]
NoAttempt == [pc |-> "idle", token |-> 0, at |-> 0]
Rest == [pc |-> "idle", hit |-> FALSE]

DevicesInit ==
  /\ moment = 0 /\ minted = 0 /\ tokens = [k \in {} |-> 0]
  /\ attempt = [a \in Attempts |-> NoAttempt]
  /\ devices = [d \in Phones |-> NoDevice]
  /\ revoking = [d \in Phones |-> Rest]
  /\ revokedSet = {} /\ told = {}
  /\ devFaults = 0 /\ devBoots = 0

DevFault == devFaults < MaxDevFaults /\ devFaults' = devFaults + 1

TokenTick ==
  /\ moment < MaxMoments /\ moment' = moment + 1
  /\ UNCHANGED <<minted, tokens, attempt, devices, revoking, revokedSet, told, devFaults, devBoots>>

-----------------------------------------------------------------------------
(* Pairing                                                                 *)

Live(at) == {k \in DOMAIN tokens : tokens[k] + TokenTtl > at}

\* A mint that only lets expired tokens go.
MintBeyondCap ==
  /\ minted < MaxTokens /\ minted' = minted + 1
  /\ tokens' = [k \in Live(moment) \cup {minted'} |-> IF k = minted' THEN moment ELSE tokens[k]]
  /\ UNCHANGED <<moment, attempt, devices, revoking, revokedSet, told, devFaults, devBoots>>

\* mint: expired tokens go, then the oldest until there is room.
StartPairing ==
  /\ minted < MaxTokens /\ minted' = minted + 1
  /\ \E keep \in SUBSET Live(moment) :
       /\ Cardinality(keep) = IF Cardinality(Live(moment)) < TokenCap
                                THEN Cardinality(Live(moment)) ELSE TokenCap - 1
       /\ \A k \in keep, j \in Live(moment) \ keep : tokens[j] <= tokens[k]
       /\ tokens' = [k \in keep \cup {minted'} |-> IF k = minted' THEN moment ELSE tokens[k]]
  /\ UNCHANGED <<moment, attempt, devices, revoking, revokedSet, told, devFaults, devBoots>>

\* The clock is read when the call begins, before the signature is checked.
BeginPairing(a, k) ==
  /\ attempt[a].pc = "idle" /\ k <= minted
  /\ attempt' = [attempt EXCEPT ![a] = [pc |-> "verified", token |-> k, at |-> moment]]
  /\ UNCHANGED <<moment, minted, tokens, devices, revoking, revokedSet, told, devFaults, devBoots>>

\* consume takes the token out under the lock whether it has expired or not.
Consumed(k) == [j \in DOMAIN tokens \ {k} |-> tokens[j]]

Consume(a) ==
  LET k == attempt[a].token
  IN  /\ attempt[a].pc = "verified"
      /\ tokens' = Consumed(k)
      /\ attempt' = [attempt EXCEPT ![a].pc = IF k \in Live(attempt[a].at) THEN "issue" ELSE "refused"]
      /\ UNCHANGED <<moment, minted, devices, revoking, revokedSet, told, devFaults, devBoots>>

\* The row's key is the device's: a device paired before, revoked or not, is a
\* conflict, and the token is spent.
InsertDevice(a, d) ==
  /\ attempt[a].pc = "issue"
  /\ IF devices[d].state = "none"
       THEN /\ devices' = [devices EXCEPT ![d] =
                 [state |-> "paired", token |-> attempt[a].token, at |-> attempt[a].at]]
            /\ attempt' = [attempt EXCEPT ![a].pc = "paired"]
       ELSE /\ attempt' = [attempt EXCEPT ![a].pc = "refused"]
            /\ UNCHANGED devices
  /\ UNCHANGED <<moment, minted, tokens, revoking, revokedSet, told, devFaults, devBoots>>

InsertDeviceFails(a) ==
  /\ attempt[a].pc = "issue" /\ DevFault
  /\ attempt' = [attempt EXCEPT ![a].pc = "refused"]
  /\ UNCHANGED <<moment, minted, tokens, devices, revoking, revokedSet, told, devBoots>>

-----------------------------------------------------------------------------
(* Revocation                                                              *)

\* UPDATE ... WHERE revoked_at IS NULL, and whether it touched a row.
RevokeRow(d) ==
  /\ revoking[d].pc = "idle" /\ devices[d].state # "none"
  /\ revoking' = [revoking EXCEPT ![d] = [pc |-> "row", hit |-> devices[d].state = "paired"]]
  /\ devices' = [devices EXCEPT ![d].state = "revoked"]
  /\ UNCHANGED <<moment, minted, tokens, attempt, revokedSet, told, devFaults, devBoots>>

\* A repeat that has nothing left to do, and the one in the code: the set is
\* refreshed whether the row changed or not.
RefusedOnHit(d) == IF revoking[d].hit THEN {d} ELSE {}
Refused(d) == {d}

\* insert_revoked, then the sessions, the audit and the broadcast, and Ok.
MirrorRevoked(d) ==
  /\ revoking[d].pc = "row"
  /\ revokedSet' = revokedSet \cup Refused(d)
  /\ told' = told \cup {d}
  /\ revoking' = [revoking EXCEPT ![d] = Rest]
  /\ UNCHANGED <<moment, minted, tokens, attempt, devices, devFaults, devBoots>>

\* The caller goes away and the call is dropped, or the EXISTS query fails.
RevokeDropped(d) ==
  /\ revoking[d].pc = "row" /\ DevFault
  /\ revoking' = [revoking EXCEPT ![d] = Rest]
  /\ UNCHANGED <<moment, minted, tokens, attempt, devices, revokedSet, told, devBoots>>

\* A restart loses the tokens and the set; mirror_revoked_devices refills the
\* set before the API serves.
DevicesBoot ==
  /\ devBoots < MaxDevBoots /\ devBoots' = devBoots + 1
  /\ tokens' = [k \in {} |-> 0]
  /\ attempt' = [a \in Attempts |-> IF attempt[a].pc \in {"verified", "issue"}
                                      THEN [attempt[a] EXCEPT !.pc = "refused"] ELSE attempt[a]]
  /\ revoking' = [d \in Phones |-> Rest]
  /\ revokedSet' = {d \in Phones : devices[d].state = "revoked"}
  /\ UNCHANGED <<moment, minted, devices, told, devFaults>>

DevicesNext ==
  \/ TokenTick \/ StartPairing \/ DevicesBoot
  \/ \E a \in Attempts :
       \/ \E k \in Token : BeginPairing(a, k)
       \/ Consume(a) \/ InsertDeviceFails(a)
       \/ \E d \in Phones : InsertDevice(a, d)
  \/ \E d \in Phones : RevokeRow(d) \/ MirrorRevoked(d) \/ RevokeDropped(d)

DevicesSpec == DevicesInit /\ [][DevicesNext]_devVars

-----------------------------------------------------------------------------
DevicesTypeOK ==
  /\ moment \in 0..MaxMoments /\ minted \in 0..MaxTokens
  /\ DOMAIN tokens \subseteq Token /\ Cardinality(DOMAIN tokens) <= TokenCap
  /\ attempt \in [Attempts -> [pc : {"idle", "verified", "issue", "paired", "refused"},
                               token : 0..MaxTokens, at : 0..MaxMoments]]
  /\ devices \in [Phones -> [state : {"none", "paired", "revoked"},
                             token : 0..MaxTokens, at : 0..MaxMoments]]
  /\ revoking \in [Phones -> [pc : {"idle", "row"}, hit : BOOLEAN]]
  /\ revokedSet \subseteq Phones /\ told \subseteq Phones

\* One token pairs one device, however many calls present it at once
\* (pairing.rs:172-194, 325-380).
OneDevicePerToken ==
  \A d, e \in Phones :
    d # e /\ devices[d].state # "none" => devices[d].token # devices[e].token

\* A device whose revocation was reported is in the set requests are checked
\* against, although the row and the set are written apart, a call may be
\* dropped between them and repeated, and the set does not survive a restart
\* (devices.rs:276-345, auth.rs mirror_revoked_devices).
RevokedIsRefused == told \subseteq revokedSet
=============================================================================
