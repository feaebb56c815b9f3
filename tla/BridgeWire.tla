----------------------------- MODULE BridgeWire -----------------------------
(***************************************************************************)
(* The Unix-domain socket between an agent host and the Core: for every    *)
(* connection the host accepts, one FIFO channel of frames in each         *)
(* direction (crates/agent-host/src/api.rs, enum HostFrame).               *)
(*                                                                         *)
(* A frame is its kind and the sequence number it carries (0 when it has   *)
(* none).  Frames that change no modelled state (StdinBytes, Resize, Ping, *)
(* Pong) are left out.                                                     *)
(***************************************************************************)
EXTENDS Naturals, Sequences, FiniteSets

CONSTANT MaxConns      \* connections opened over the life of one host

ASSUME MaxConnsAssumption == MaxConns \in Nat

VARIABLES
  toCore,              \* connection -> frames the host wrote, unread
  toHost,              \* connection -> frames the Core wrote, unread
  coreOpen             \* connections whose Core end is open

wireVars == <<toCore, toHost, coreOpen>>

Conns == 1..MaxConns

HostFrames ==
  [t : {"Ready", "StdoutBytes", "AgentExited", "CookieMismatch",
        "AlreadyConnected"}, seq : Nat]

CoreFrames == [t : {"Hello", "BadHello", "Ack"}, seq : Nat]

Frame(kind, n) == [t |-> kind, seq |-> n]

WireInit ==
  /\ toCore = [c \in Conns |-> <<>>]
  /\ toHost = [c \in Conns |-> <<>>]
  /\ coreOpen = {}

WireTypeOK ==
  /\ toCore \in [Conns -> Seq(HostFrames)]
  /\ toHost \in [Conns -> Seq(CoreFrames)]
  /\ coreOpen \subseteq Conns

(* Chunk s is among the first n frames of a channel to the Core. *)
Carried(frames, n, s) ==
  \E j \in 1..n : frames[j].t = "StdoutBytes" /\ frames[j].seq = s

OnWire(c, s) == Carried(toCore[c], Len(toCore[c]), s)
=============================================================================
