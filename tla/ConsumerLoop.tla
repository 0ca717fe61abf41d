---------------------------- MODULE ConsumerLoop ----------------------------
(***************************************************************************)
(* The control skeleton of rmq_consumer() in fastapi_app/rmq/consumer.py:  *)
(* the `while True` loop that connects, declares, consumes, and is thrown  *)
(* out of all three by exceptions and by cancellation.                     *)
(*                                                                         *)
(* The environment is free: any await of the loop may succeed or raise.    *)
(* RMQConsumer adds the messages and their tasks to each of these actions, *)
(* RMQHealth adds the health state and a broker that constrains them.      *)
(*                                                                         *)
(* Leaving the try block always runs the exits of `async with queue        *)
(* .iterator()` and `async with connection` BEFORE an except clause, so    *)
(* every action that leaves it closes the connection in the same step.     *)
(***************************************************************************)
VARIABLES
  loop,     \* where the coroutine rmq_consumer() is suspended
  link      \* its connection: none, up, or lost (robust reconnect pending)

loopVars == <<loop, link>>

LoopStates == {"connecting", "declaring", "consuming",
               "backoff", "draining", "stopped"}
LinkStates == {"none", "up", "lost"}

\* The awaits inside the try block of the loop.
InTry == loop \in {"connecting", "declaring", "consuming"}

LoopTypeOK == loop \in LoopStates /\ link \in LinkStates

LoopInit == loop = "connecting" /\ link = "none"

-----------------------------------------------------------------------------
\* connect_robust() and connection.channel() both returned.
ChannelOpened ==
  /\ loop = "connecting"
  /\ loop' = "declaring" /\ link' = "up"

\* set_qos, declare_exchange, the passive declare_queue and bind returned.
Declared ==
  /\ loop = "declaring" /\ link = "up"
  /\ loop' = "consuming" /\ UNCHANGED link

\* An exception other than CancelledError leaves the try block; each of the
\* three except clauses that can catch it ends in asyncio.sleep.
Raise ==
  /\ InTry
  /\ loop' = "backoff" /\ link' = "none"

\* `async for` is exhausted: no exception, so the loop reconnects at once.
IteratorEnds ==
  /\ loop = "consuming"
  /\ loop' = "connecting" /\ link' = "none"

BackoffElapsed ==
  /\ loop = "backoff"
  /\ loop' = "connecting" /\ UNCHANGED link

\* Safety layer 4 of the docstring: the robust connection drops and comes
\* back under the iterator, without the coroutine noticing.
TransientDrop ==
  /\ loop \in {"declaring", "consuming"} /\ link = "up"
  /\ link' = "lost" /\ UNCHANGED loop

RobustReconnect ==
  /\ link = "lost"
  /\ link' = "up" /\ UNCHANGED loop

\* task.cancel() from the lifespan, at an await of the try block: the
\* CancelledError clause drains.
CancelInTry ==
  /\ InTry
  /\ loop' = "draining" /\ link' = "none"

\* task.cancel() during the asyncio.sleep of an except clause: a sibling
\* clause does not catch it, so the coroutine ends without draining.
CancelInBackoff ==
  /\ loop = "backoff"
  /\ loop' = "stopped" /\ UNCHANGED link

DrainDone ==
  /\ loop = "draining"
  /\ loop' = "stopped" /\ UNCHANGED link

\* The process exits or is killed, and is started again.
Restart ==
  /\ loop' = "connecting" /\ link' = "none"

=============================================================================
