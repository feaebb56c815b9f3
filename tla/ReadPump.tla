------------------------------ MODULE ReadPump ------------------------------
(***************************************************************************)
(* The Core's end of the bridge (crates/core/src/agent_supervisor): the    *)
(* connect-and-Hello of start_session and adopt_orphans, run_read_pump and *)
(* its two ack tickers.  A Core process attaches to the host once; a crash *)
(* loses everything but the session row's last_acked_seq.                  *)
(***************************************************************************)
EXTENDS BridgeWire

VARIABLES
  core,                \* where the Core process is with this session
  attempt,             \* connections opened so far; the last is the Core's
  ack_watermark,       \* highest seq the pump has taken off the wire
  last_sent,           \* the ack ticker's own memory
  last_acked_seq,      \* the session row, on disk
  received,            \* history: chunks a Core has read off the wire
  heard                \* history: a Core has read AgentExited

memVars  == <<ack_watermark, last_sent>>
pumpVars == <<core, attempt, memVars, last_acked_seq, received, heard>>

CoreStates == {"down", "hello", "pump", "flush", "ended", "refused"}

PumpInit ==
  /\ core = "down"
  /\ attempt = 0
  /\ ack_watermark = 0
  /\ last_sent = 0
  /\ last_acked_seq = 0
  /\ received = {}
  /\ heard = FALSE

PumpTypeOK ==
  /\ core \in CoreStates
  /\ attempt \in 0..MaxConns
  /\ core # "down" => attempt > 0
  /\ ack_watermark \in Nat /\ last_sent \in Nat /\ last_acked_seq \in Nat
  /\ received \subseteq Nat
  /\ heard \in BOOLEAN

-----------------------------------------------------------------------------
Incoming(kind) ==
  /\ toCore[attempt] # <<>>
  /\ Head(toCore[attempt]).t = kind

TakeFrame == toCore' = [toCore EXCEPT ![attempt] = Tail(@)]

SendToHost(frame) == toHost' = [toHost EXCEPT ![attempt] = Append(@, frame)]

Seed == last_acked_seq

(* Connect and send Hello with the row's watermark: 0 on the first start,   *)
(* the persisted value when a restarted Core adopts the host.  The cookie   *)
(* is the row's; a row rewritten since the host started carries another.    *)
Connect ==
  /\ core = "down" /\ attempt < MaxConns
  /\ attempt' = attempt + 1
  /\ coreOpen' = coreOpen \union {attempt + 1}
  /\ \E hello \in {"Hello", "BadHello"} :
       toHost' = [toHost EXCEPT ![attempt + 1] =
                    Append(@, Frame(hello, last_acked_seq))]
  /\ core' = "hello"
  /\ ack_watermark' = Seed
  /\ last_sent' = 0
  /\ UNCHANGED <<last_acked_seq, received, heard, toCore>>

RecvReady ==
  /\ core = "hello" /\ Incoming("Ready")
  /\ TakeFrame
  /\ core' = "pump"
  /\ UNCHANGED <<attempt, memVars, last_acked_seq, received, heard,
                 toHost, coreOpen>>

(* CookieMismatch or AlreadyConnected: this Core drops the connection and   *)
(* does not try again.                                                      *)
RecvRefusal ==
  /\ core = "hello" /\ (Incoming("CookieMismatch") \/ Incoming("AlreadyConnected"))
  /\ TakeFrame
  /\ core' = "refused"
  /\ coreOpen' = coreOpen \ {attempt}
  /\ UNCHANGED <<attempt, memVars, last_acked_seq, received, heard, toHost>>

(* StdoutBytes: advance the watermark, append to the session log, parse.    *)
RecvStdout ==
  /\ core = "pump" /\ Incoming("StdoutBytes")
  /\ LET seq == Head(toCore[attempt]).seq
     IN /\ ack_watermark' = IF seq > ack_watermark THEN seq ELSE ack_watermark
        /\ received' = received \union {seq}
  /\ TakeFrame
  /\ UNCHANGED <<core, attempt, last_sent, last_acked_seq, heard, toHost, coreOpen>>

(* The 100 ms ticker.  The pump's own acknowledgement past the 100-byte     *)
(* threshold is this step taken at once; it sends the same frame.           *)
AckTick ==
  /\ core = "pump" /\ ack_watermark > last_sent
  /\ last_sent' = ack_watermark
  /\ SendToHost(Frame("Ack", ack_watermark))
  /\ UNCHANGED <<core, attempt, ack_watermark, last_acked_seq, received, heard,
                 toCore, coreOpen>>

(* The 5 s ticker.  It is the row's only writer while the pump runs, so its *)
(* memory of the last value written is the row, the seeded value included:  *)
(* writing that once more changes nothing.                                  *)
PersistTick ==
  /\ core = "pump" /\ ack_watermark > 0 /\ ack_watermark # last_acked_seq
  /\ last_acked_seq' = ack_watermark
  /\ UNCHANGED <<core, attempt, memVars, received, heard, wireVars>>

RecvExited ==
  /\ core = "pump" /\ Incoming("AgentExited")
  /\ heard' = TRUE
  /\ TakeFrame
  /\ core' = "flush"
  /\ UNCHANGED <<attempt, memVars, last_acked_seq, received, toHost, coreOpen>>

(* End of the pump: the final watermark goes to the row.                    *)
FlushAck ==
  /\ core = "flush"
  /\ last_acked_seq' = IF ack_watermark > 0 THEN ack_watermark ELSE last_acked_seq
  /\ core' = "ended"
  /\ UNCHANGED <<attempt, memVars, received, heard, wireVars>>

(* The Core process dies: its end of the socket closes and the frames it    *)
(* had not read are gone.                                                   *)
CoreCrash ==
  /\ core # "down"
  /\ core' = "down"
  /\ coreOpen' = coreOpen \ {attempt}
  /\ toCore' = [toCore EXCEPT ![attempt] = <<>>]
  /\ ack_watermark' = 0
  /\ last_sent' = 0
  /\ UNCHANGED <<attempt, last_acked_seq, received, heard, toHost>>

(* The host's end closed and everything it wrote was read.  During the      *)
(* handshake this fails the attach; in the pump it ends it.                 *)
RecvEof ==
  /\ core \in {"hello", "pump"} /\ toCore[attempt] = <<>>
  /\ core' = IF core = "hello" THEN "refused" ELSE "flush"
  /\ coreOpen' = IF core = "hello" THEN coreOpen \ {attempt} ELSE coreOpen
  /\ UNCHANGED <<attempt, memVars, last_acked_seq, received, heard,
                 toCore, toHost>>
=============================================================================
