----------------------------- MODULE AtMostOnce -----------------------------
(***************************************************************************)
(* What the trigger path promises of the matches it is given, without its  *)
(* goroutines, channel and database: a match waits, is picked by one of a  *)
(* bounded number of firers, and ends.  It may end without ever being      *)
(* fired (the queue is full, the process dies), it never waits or fires    *)
(* again after it was picked, and a picked match does end.  Triggers       *)
(* implements this specification.                                          *)
(***************************************************************************)
EXTENDS Naturals, FiniteSets

CONSTANTS Ids,      \* the identities a match may have
          Firers    \* how many matches may be fired at a time

VARIABLES waiting,  \* found, and not yet picked
          firing,   \* picked, and still being fired
          ended     \* fired, given up, dropped or lost

vars == <<waiting, firing, ended>>

Init == waiting = {} /\ firing = {} /\ ended = {}

Find(i) ==
  /\ i \notin waiting \cup firing \cup ended
  /\ waiting' = waiting \cup {i}
  /\ UNCHANGED <<firing, ended>>

Pick(i) ==
  /\ i \in waiting /\ Cardinality(firing) < Firers
  /\ waiting' = waiting \ {i}
  /\ firing' = firing \cup {i}
  /\ UNCHANGED ended

End(i) ==
  /\ i \in firing
  /\ firing' = firing \ {i}
  /\ ended' = ended \cup {i}
  /\ UNCHANGED waiting

Drop(i) ==
  /\ i \in waiting
  /\ waiting' = waiting \ {i}
  /\ ended' = ended \cup {i}
  /\ UNCHANGED firing

\* Whatever has not ended is lost with the process.
Crash ==
  /\ waiting' = {} /\ firing' = {}
  /\ ended' = ended \cup waiting \cup firing

Next ==
  \/ \E i \in Ids : Find(i) \/ Pick(i) \/ End(i) \/ Drop(i)
  \/ Crash

\* What may happen to a match, without what must.
Safety == Init /\ [][Next]_vars

Spec == Safety /\ \A i \in Ids : WF_vars(End(i))
=============================================================================
