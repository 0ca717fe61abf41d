----------------------------- MODULE HealthWatch -----------------------------
(***************************************************************************)
(* What whoever watches the health of RabbitMQ is promised, GET /health on *)
(* one side and the hooks on the other, whoever writes the status: a hook  *)
(* fires with a change of the status it names and with no other step, the  *)
(* status turns good only through an announced recovery, and is never      *)
(* "unknown" again.                                                        *)
(*                                                                         *)
(* The hooks need not alternate: the consumer takes a status down to       *)
(* DEGRADED in silence, so that a second "down" may follow a first.        *)
(***************************************************************************)
VARIABLES status, announced

Init == status = "unknown" /\ announced = "none"

Good == {"recovered", "alive"}

Recover ==
  /\ status \notin Good
  /\ status' = "recovered" /\ announced' = "recovered"

StayGood == status \in Good /\ status' = "alive" /\ UNCHANGED announced

LoseQueue ==
  /\ status # "degraded"
  /\ status' = "degraded" /\ announced' = "queue_missing"

GoDown == status # "dead" /\ status' = "dead" /\ announced' = "down"

Degrade == status' = "degraded" /\ UNCHANGED announced

Next == Recover \/ StayGood \/ LoseQueue \/ GoDown \/ Degrade

Spec == Init /\ [][Next]_<<status, announced>>
=============================================================================
