--------------------------- MODULE StreamContract ---------------------------
(***************************************************************************)
(* What Streams.Subscribe promises of one subject, without rings, acks,    *)
(* pumps, sources and channels: events are numbered as they come, a        *)
(* subscriber reads them in order from where it joined or from where it    *)
(* left off, and skips some only if it was told that they are gone or fell *)
(* Room behind.                                                            *)
(***************************************************************************)
EXTENDS Integers

CONSTANTS Subscribers, Room, Nothing

VARIABLES
  stamped,             \* how many events were numbered; they are 0..(stamped - 1)
  floor,               \* the oldest of them that can still be asked for
  on,                  \* who is subscribed
  behind,              \* who of them fell behind
  want,                \* subscriber -> what it reads next; 0 when not subscribed
  last                 \* subscriber -> what it read last, across subscriptions

streamVars == <<stamped, floor, on, behind, want, last>>

Init ==
  /\ stamped = 0 /\ floor = 0 /\ on = {} /\ behind = {}
  /\ want = [c \in Subscribers |-> 0] /\ last = [c \in Subscribers |-> Nothing]

LetGo == floor' \in floor..stamped'

\* One event more, or none and the oldest are let go of.
Stamp ==
  /\ stamped' \in {stamped, stamped + 1} /\ LetGo
  /\ UNCHANGED <<on, behind, want, last>>

Joins(c, next, seen) ==
  /\ on' = on \union {c}
  /\ want' = [want EXCEPT ![c] = next] /\ last' = [last EXCEPT ![c] = seen]
  /\ UNCHANGED behind

\* To read what comes from now on.  The first to come brings the events there
\* were before anyone asked, and reads those too.
Subscribe(c) ==
  /\ c \notin on
  /\ stamped' >= stamped /\ LetGo
  /\ Joins(c, stamped, Nothing)

\* To read on from the last one read: all of it, or told that it is gone.
Resume(c) ==
  /\ c \notin on /\ last[c] # Nothing
  /\ IF last[c] + 1 >= floor THEN Joins(c, last[c] + 1, last[c])
                             ELSE Joins(c, stamped, Nothing)
  /\ UNCHANGED <<stamped, floor>>

\* The next one, or the one before it once more: an event that is numbered when
\* a subscriber joins may still be on its way.
Read(c, o) ==
  /\ c \in on /\ o < stamped
  /\ o \in {want[c] - 1, want[c]} \/ (c \in behind /\ o > want[c])
  /\ last' = [last EXCEPT ![c] = o]
  /\ want' = [want EXCEPT ![c] = IF o < want[c] THEN want[c] ELSE o + 1]
  /\ UNCHANGED <<stamped, floor, on, behind>>

FallBehind(C) ==
  /\ \A c \in C : stamped - want[c] >= Room
  /\ behind' = behind \union C
  /\ UNCHANGED <<stamped, floor, on, want, last>>

Leave(c) ==
  /\ c \in on
  /\ on' = on \ {c} /\ behind' = behind \ {c} /\ want' = [want EXCEPT ![c] = 0]
  /\ UNCHANGED <<stamped, floor, last>>

Next ==
  \/ Stamp
  \/ \E c \in Subscribers : \/ Subscribe(c) \/ Resume(c) \/ Leave(c)
                            \/ \E o \in 0..(stamped - 1) : Read(c, o)
  \/ \E C \in SUBSET on : FallBehind(C)

Spec == Init /\ [][Next]_streamVars
=============================================================================
