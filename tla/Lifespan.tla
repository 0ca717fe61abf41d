------------------------------ MODULE Lifespan ------------------------------
(***************************************************************************)
(* The lifespan of fastapi_app/main.py over the two tasks it owns: it      *)
(* starts the consumer and the checker of RMQHealth, and after the yield   *)
(* cancels and awaits them one after the other and cleans up.              *)
(*                                                                         *)
(* cancel() only asks.  The task meets a CancelledError when it runs next; *)
(* what it makes of it, and when it is done, is its own affair, and await  *)
(* re-raises whatever it ended with.  close_publisher() is a step of the   *)
(* clean-up that finds nothing to close: it belongs to the module object   *)
(* fastapi_app.rmq.publisher, the routers publish through rmq.publisher.   *)
(***************************************************************************)
EXTENDS RMQHealth

VARIABLES
  phase,    \* where lifespan() is suspended
  client    \* app.state.http_client: open or closed

lifeVars == <<vars, phase, client>>

Phases == {"serving",          \* at the yield
           "cancelling",       \* consumer_task.cancel() not delivered yet
           "awaiting",         \* delivered; the consumer is on its way out
           "stranded",         \* delivered, and swallowed by the consumer
           "cancelling_checker", "cleaning", "ended", "raised"}

LifespanInit == Init /\ phase = "serving" /\ client = "open"

Go(from, to) == phase = from /\ phase' = to /\ UNCHANGED client
Stay == UNCHANGED <<phase, client>>

-----------------------------------------------------------------------------
\* The tasks while nobody cancels them.
ConsumerRuns ==
  /\ phase \in {"serving", "stranded"}
  /\ \/ ConsumerOpens \/ ConsumerDeclares \/ ConsumerChannelError
     \/ ConsumerOtherError \/ ConsumerIteratorEnds \/ ConsumerRetries
  /\ Stay

LinkMoves == (LinkDrops \/ LinkReturns) /\ Stay

CheckerRuns ==
  /\ phase # "cancelling_checker"
  /\ Checker \/ (probe = "answered" /\ CheckerCrashes)
  /\ Stay

-----------------------------------------------------------------------------
\* The server is done, the lifespan resumes and cancels the consumer.
Shutdown == Go("serving", "cancelling") /\ UNCHANGED vars

\* Fault: the consumer has no clause for CancelledError.
DeliveredUncaught ==
  /\ Go("cancelling", "awaiting")
  /\ loop' = "stopped" /\ link' = "none"
  /\ CloseChannel
  /\ UNCHANGED <<env, shared, probeVars, stateVars>>

\* The CancelledError reaches the consumer in its try block or its back-off.
Delivered ==
  /\ Go("cancelling", "awaiting")
  /\ ConsumerCancelled \/ (loop = "backoff" /\ ConsumerStops)

\* It reaches the try block, but an exit of `async with` raises in its place
\* (basic.cancel on a channel that is closing, say): a sibling clause catches
\* that, sleeps, and the loop goes on with nobody left to cancel it.
Swallowed ==
  /\ Go("cancelling", "stranded")
  /\ ConsumerOtherError \/ ConsumerChannelError

Drained == phase = "awaiting" /\ loop = "draining" /\ ConsumerStops /\ Stay

\* Fault: the consumer is cancelled and not awaited.
ConsumerNotAwaited == Go("awaiting", "cancelling_checker") /\ UNCHANGED vars

\* await returns, and the checker is cancelled.
ConsumerAwaited ==
  /\ loop = "stopped"
  /\ Go("awaiting", "cancelling_checker") /\ UNCHANGED vars

CheckerEnds ==
  /\ phase = "cancelling_checker"
  /\ CheckerCancelled \/ CheckerCrashes
  /\ Stay

\* Fault: the lifespan waits for a checker that was cancelled, and only that.
CheckerAwaitedOnlyCancelled ==
  /\ probe = "stopped"
  /\ Go("cancelling_checker", "cleaning") /\ UNCHANGED vars

\* Fault: except Exception in place of except CancelledError, or neither.
CheckerAwaitedNever ==
  Go("cancelling_checker", "cleaning") /\ UNCHANGED vars

\* await returns, or re-raises what the checker ended with.
CheckerAwaited ==
  /\ probe \in {"stopped", "crashed"}
  /\ Go("cancelling_checker",
        IF probe = "stopped" THEN "cleaning" ELSE "raised")
  /\ UNCHANGED vars

\* close_publisher(), http_client.aclose().
CleanUp ==
  /\ phase = "cleaning"
  /\ phase' = "ended" /\ client' = "closed"
  /\ UNCHANGED vars

-----------------------------------------------------------------------------
Resume ==
  \/ Delivered \/ Swallowed \/ Drained \/ ConsumerAwaited
  \/ CheckerEnds \/ CheckerAwaited \/ CleanUp

LifespanNext ==
  \/ Environment /\ Stay
  \/ ConsumerRuns \/ LinkMoves \/ CheckerRuns
  \/ Shutdown \/ Resume

LifespanSpec == LifespanInit /\ [][LifespanNext]_lifeVars

\* asyncio delivers a cancellation and resumes an await that is over; the
\* drain ends (RMQConsumer, DrainEnds).  The checker is as fair as before.
LifespanFairSpec ==
  LifespanSpec /\ WF_lifeVars(CheckerRuns /\ Checker) /\ WF_lifeVars(Resume)

-----------------------------------------------------------------------------
LifespanTypeOK ==
  TypeOK /\ phase \in Phases /\ client \in {"open", "closed"}

\* Nothing is cleaned up under a task that still runs: past the two awaits
\* the consumer has stopped and the checker has ended.  A checker that
\* crashed, at any time before, makes the lifespan raise there and clean up
\* nothing; nothing else does.
TasksEndFirst ==
  phase \in {"cleaning", "ended", "raised"} =>
    /\ loop = "stopped"
    /\ probe = (IF phase = "raised" THEN "crashed" ELSE "stopped")

\* The checker watches to the end: it is cancelled only after the consumer is
\* gone, so that an outage during the drain is still announced.
CheckerOutlivesConsumer == probe = "stopped" => loop = "stopped"

\* The lifespan runs its tasks as RMQHealth says they run.
ImplementsHealth == Spec

\* A shutdown comes to an end, cleaned up or not, unless the consumer
\* swallows its cancellation: then lifespan() waits for ever.
ShutdownEnds ==
  (phase # "serving") ~> (phase \in {"ended", "raised", "stranded"})
=============================================================================
