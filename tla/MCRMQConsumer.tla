---------------------------- MODULE MCRMQConsumer ----------------------------
(***************************************************************************)
(* Instances of RMQConsumer for TLC, and the statements of the docs and    *)
(* comments of the repository that the consumer does not keep.             *)
(***************************************************************************)
EXTENDS RMQConsumer, TLC

CONSTANTS e1, e2, x, j, l    \* two events, an unknown type, bad JSON, a list

KindOf == (e1 :> "event") @@ (e2 :> "event") @@ (x :> "unknown")
            @@ (j :> "bad_json") @@ (l :> "not_object")
MCKind == [m \in Messages |-> KindOf[m]]

MCSymmetry == Permutations(Tasks)

-----------------------------------------------------------------------------
\* consumer.py:111 and :119 say of a bad JSON body and of an unknown event
\* type "nack, requeue=False", README.md:104 "nack, no requeue".  A message
\* nacked like that goes to the queue's dead-letter exchange; it is never acked.
DroppedAreNacked ==
  \A m \in Messages :
    Kind[m] \in {"unknown", "bad_json"} => where[m] # "acked"

\* consumer.py:151-152, _drain_tasks: "Wait for all in-flight tasks to finish
\* before shutdown. Gives handlers time to ack their messages cleanly."  So
\* entering the drain leaves the channels of the tasks in flight open.
DrainLetsHandlersAck ==
  [][loop # "draining" /\ loop' = "draining"
       => \A t \in Active : live[t] => live'[t]]_vars

\* consumer.py:178: "Task tracker -> no orphaned tasks; clean drain on
\* shutdown".  When the consumer has stopped, no task is left.
NoOrphansAfterStop == loop = "stopped" => Active = {}
=============================================================================
