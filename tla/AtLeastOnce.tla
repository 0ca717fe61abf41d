----------------------------- MODULE AtLeastOnce -----------------------------
(***************************************************************************)
(* What the consumer promises about the queue it reads, with no            *)
(* connections, tasks or acknowledgements in sight: a message whose event  *)
(* type has a handler leaves the queue only after that handler has run to  *)
(* completion.  It may run more than once.                                 *)
(***************************************************************************)
CONSTANTS Messages,   \* the messages of the queue
          Events      \* those that some registered handler accepts

VARIABLES inbox,      \* messages the broker still holds
          done        \* messages whose handler has completed at least once

aloVars == <<inbox, done>>

Init == inbox = Messages /\ done = {}

Handle(m) ==
  /\ m \in inbox \cap Events
  /\ done' = done \cup {m}
  /\ UNCHANGED inbox

Remove(m) ==
  /\ m \in inbox
  /\ m \in Events => m \in done
  /\ inbox' = inbox \ {m}
  /\ UNCHANGED done

Next == \E m \in Messages : Handle(m) \/ Remove(m)

Spec == Init /\ [][Next]_aloVars
=============================================================================
