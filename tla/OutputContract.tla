--------------------------- MODULE OutputContract ---------------------------
(***************************************************************************)
(* What the agent host and the Core promise of an agent's output, without  *)
(* connections, frames, tasks and tickers: it is read in order and saved   *)
(* as read without a gap, a Core is told of the end behind all of it, and  *)
(* what the host drops was read, but for the oldest when room runs out.    *)
(***************************************************************************)
EXTENDS Naturals

VARIABLES
  made,                \* how many chunks were recorded; they are 1..made
  kept,                \* the chunks the host still holds
  lost,                \* chunks dropped for want of room
  read,                \* chunks a Core has read
  saved,               \* the prefix of the output that is on record as read
  ended, last,         \* the agent is over, after the chunk "last"
  told                 \* a Core was told so

outputVars == <<made, kept, lost, read, saved, ended, last, told>>

Passed(n) == (1..n) \subseteq read \union lost

Init ==
  /\ made = 0 /\ kept = {} /\ lost = {} /\ read = {} /\ saved = 0
  /\ ended = FALSE /\ last = 0 /\ told = FALSE

\* A chunk more; the oldest ones make room.
Record(gone) ==
  /\ made' = made + 1
  /\ gone \subseteq kept \union {made'}
  /\ kept' = (kept \union {made'}) \ gone
  /\ \A s \in gone, t \in kept' : s < t
  /\ lost' = lost \union gone
  /\ UNCHANGED <<read, saved, ended, last, told>>

\* The oldest chunks are let go of, none that was not read or lost.
LetGo(n) ==
  /\ Passed(n)
  /\ kept' = {s \in kept : s > n}
  /\ UNCHANGED <<made, lost, read, saved, ended, last, told>>

\* A chunk is read, or read once more, when the ones before it are.
Read(s) ==
  /\ s \in 1..made /\ Passed(s - 1)
  /\ read' = read \union {s}
  /\ UNCHANGED <<made, kept, lost, saved, ended, last, told>>

Save(n) ==
  /\ n > saved /\ n <= made /\ Passed(n)
  /\ saved' = n
  /\ UNCHANGED <<made, kept, lost, read, ended, last, told>>

End ==
  /\ ~ended /\ ended' = TRUE /\ last' = made
  /\ UNCHANGED <<made, kept, lost, read, saved, told>>

Tell ==
  /\ ended /\ Passed(last) /\ told' = TRUE
  /\ UNCHANGED <<made, kept, lost, read, saved, ended, last>>

Next ==
  \/ \E gone \in SUBSET (kept \union {made + 1}) : Record(gone)
  \/ \E n \in 1..made : LetGo(n) \/ Read(n) \/ Save(n)
  \/ End \/ Tell

Spec == Init /\ [][Next]_outputVars
=============================================================================
