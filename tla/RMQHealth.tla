------------------------------ MODULE RMQHealth ------------------------------
(***************************************************************************)
(* The health checker of fastapi_app/rmq/health.py, running beside the     *)
(* consumer loop of ConsumerLoop.  The two coroutines share the consumer's *)
(* channel (_shared_channel: registered by the consumer, probed and        *)
(* cleared by the checker) and the state object (rmq_health.status:        *)
(* written by the checker, and set to DEGRADED by the consumer).           *)
(*                                                                         *)
(* A probe spans awaits.  Its answer is taken when the broker gives it and *)
(* applied by a later step, so the environment and the consumer may move   *)
(* in between.  From the resumption to the hook there is no suspension:    *)
(* clearing the channel, reading prev_status and writing the state are one *)
(* step.                                                                   *)
(*                                                                         *)
(* MaxFailures bounds consecutive_failures, which saturates there; the     *)
(* code's counter has no bound.                                            *)
(***************************************************************************)
EXTENDS Integers, ConsumerLoop

CONSTANT MaxFailures
ASSUME MaxFailuresAssumption == MaxFailures \in Nat \ {0}

VARIABLES
  broker,       \* does the broker answer within RMQ_PROBE_TIMEOUT_SECS?
  queue,        \* does the queue exist on it?
  open,         \* is the consumer's latest channel open?
  shared,       \* is _shared_channel that channel (or None)?
  probe,        \* where rmq_health_checker() is suspended
  method,       \* ProbeResult.method of the probe under way
  doomed,       \* the channel under the passive probe was closed meanwhile
  answer,       \* the answer of the probe, not yet applied
  status,       \* rmq_health.status
  failures,     \* rmq_health.consecutive_failures
  queueExists,  \* rmq_health.queue_exists
  announced,    \* history: the last of on_rabbitmq_down / on_queue_missing /
                \* on_rabbitmq_recovered to fire
  alerted       \* history: on_queue_missing fired since the last other verdict

env == <<broker, queue>>
channelVars == <<open, shared, doomed>>
probeVars == <<probe, method, answer>>
stateVars == <<status, failures, queueExists, announced, alerted>>
vars == <<loop, link, broker, queue, open, shared, probe, method, doomed,
          answer, status, failures, queueExists, announced, alerted>>

Statuses == {"unknown", "alive", "dead", "recovered", "degraded"}
Answers == {"healthy", "missing", "unreachable"}
Announcements == {"none", "down", "queue_missing", "recovered"}

Init ==
  /\ LoopInit
  /\ broker \in BOOLEAN /\ queue \in BOOLEAN
  /\ open = FALSE /\ shared = FALSE /\ doomed = FALSE
  /\ probe = "sleeping" /\ method = "none" /\ answer = "none"
  /\ status = "unknown" /\ failures = 0 /\ queueExists = "unknown"
  /\ announced = "none" /\ alerted = FALSE

-----------------------------------------------------------------------------
\* The environment: the broker comes and goes, operators delete and recreate
\* the queue.
BrokerChanges ==
  /\ broker' = ~ broker
  /\ UNCHANGED <<loopVars, queue, channelVars, probeVars, stateVars>>

QueueChanges ==
  /\ broker
  /\ queue' = ~ queue
  /\ UNCHANGED <<loopVars, broker, channelVars, probeVars, stateVars>>

-----------------------------------------------------------------------------
\* The consumer.  Closing its channel fails a passive probe in flight on it.
CloseChannel ==
  /\ open' = FALSE
  /\ doomed' = (doomed \/ (probe = "asking" /\ method = "passive"))

ConsumerOpens ==
  /\ ChannelOpened /\ broker
  /\ open' = TRUE /\ shared' = TRUE
  /\ UNCHANGED <<env, doomed, probeVars, stateVars>>

ConsumerDeclares ==
  /\ Declared /\ broker /\ queue /\ open
  /\ UNCHANGED <<env, channelVars, probeVars, stateVars>>

\* except AMQPChannelError: the queue is missing, or the broker closed the
\* channel for any other reason.
ConsumerChannelError ==
  /\ Raise /\ loop # "connecting"
  /\ status' = "degraded" /\ shared' = FALSE
  /\ CloseChannel
  /\ UNCHANGED <<env, probeVars, failures, queueExists, announced, alerted>>

\* except AMQPConnectionError, except Exception.
ConsumerOtherError ==
  /\ Raise
  /\ shared' = FALSE
  /\ CloseChannel
  /\ UNCHANGED <<env, probeVars, stateVars>>

\* The iterator is exhausted: the connection closes, nothing is cleared.
ConsumerIteratorEnds ==
  /\ IteratorEnds
  /\ CloseChannel
  /\ UNCHANGED <<env, shared, probeVars, stateVars>>

ConsumerRetries ==
  /\ BackoffElapsed
  /\ UNCHANGED <<env, channelVars, probeVars, stateVars>>

LinkDrops ==
  /\ TransientDrop
  /\ CloseChannel
  /\ UNCHANGED <<env, shared, probeVars, stateVars>>

\* The robust connection reopens the same channel object.
LinkReturns ==
  /\ RobustReconnect /\ broker
  /\ open' = TRUE
  /\ UNCHANGED <<env, shared, doomed, probeVars, stateVars>>

\* Fault: except CancelledError leaves the channel registered.
ConsumerCancelledKeepsChannel ==
  /\ CancelInTry
  /\ CloseChannel
  /\ UNCHANGED <<env, shared, probeVars, stateVars>>

\* except CancelledError.
ConsumerCancelled ==
  /\ CancelInTry
  /\ shared' = FALSE
  /\ CloseChannel
  /\ UNCHANGED <<env, probeVars, stateVars>>

ConsumerStops ==
  /\ CancelInBackoff \/ DrainDone
  /\ UNCHANGED <<env, channelVars, probeVars, stateVars>>

-----------------------------------------------------------------------------
\* The checker.  _probe() picks the channel only when it looks open.
StartProbe ==
  /\ probe = "sleeping"
  /\ probe' = "asking" /\ doomed' = FALSE
  /\ method' = IF shared /\ open THEN "passive" ELSE "new_connection"
  /\ UNCHANGED <<loopVars, env, open, shared, answer, stateVars>>

BrokerAnswer == IF ~ broker THEN "unreachable"
                ELSE IF queue THEN "healthy" ELSE "missing"

\* A 404 makes the broker close the channel that asked, the consumer's.
PassiveAnswered ==
  /\ probe = "asking" /\ method = "passive"
  /\ probe' = "answered"
  /\ answer' = IF doomed THEN "unreachable" ELSE BrokerAnswer
  /\ open' = (open /\ answer' # "missing")
  /\ UNCHANGED <<loopVars, env, shared, doomed, method, stateVars>>

\* Fault: no inner except clause, so the 404 falls into `except Exception`.
NewConnectionAnsweredNo404 ==
  /\ probe = "asking" /\ method = "new_connection"
  /\ probe' = "answered"
  /\ answer' = IF broker /\ queue THEN "healthy" ELSE "unreachable"
  /\ UNCHANGED <<loopVars, env, channelVars, method, stateVars>>

\* The answer is there; conn.close() in the finally clause is still awaited.
NewConnectionAnswered ==
  /\ probe = "asking" /\ method = "new_connection"
  /\ probe' = "answered"
  /\ answer' = BrokerAnswer
  /\ UNCHANGED <<loopVars, env, channelVars, method, stateVars>>

\* What every tick does around the verdict: a passive probe that did not
\* find the queue clears the shared channel, whichever is registered by now.
EndProbe ==
  /\ probe = "answered"
  /\ probe' = "sleeping" /\ answer' = "none" /\ method' = "none"
  /\ shared' = (shared /\ (method = "passive" => answer = "healthy"))
  /\ UNCHANGED <<loopVars, env, open, doomed>>

CountFailure ==
  failures' = IF failures < MaxFailures THEN failures + 1 ELSE failures

\* Fault: a healthy probe forgives one failure instead of resetting them.
TickHealthyForgivesOne ==
  /\ answer = "healthy" /\ EndProbe
  /\ queueExists' = "yes" /\ failures' = failures - 1 /\ alerted' = FALSE
  /\ status' = IF status \in {"dead", "unknown", "degraded"}
               THEN "recovered" ELSE "alive"
  /\ announced' = IF status' = "recovered" THEN "recovered" ELSE announced

\* Fault: DEGRADED is missing from the tuple of statuses one recovers from.
TickHealthySilent ==
  /\ answer = "healthy" /\ EndProbe
  /\ queueExists' = "yes" /\ failures' = 0 /\ alerted' = FALSE
  /\ status' = IF status \in {"dead", "unknown"} THEN "recovered" ELSE "alive"
  /\ announced' = IF status' = "recovered" THEN "recovered" ELSE announced

\* Fault: RECOVERED is not considered alive yet.
TickHealthySticks ==
  /\ answer = "healthy" /\ EndProbe
  /\ queueExists' = "yes" /\ failures' = 0 /\ alerted' = FALSE
  /\ status' = IF status = "alive" THEN "alive" ELSE "recovered"
  /\ announced' = IF status' = "recovered" THEN "recovered" ELSE announced

\* Fully healthy.
TickHealthy ==
  /\ answer = "healthy" /\ EndProbe
  /\ queueExists' = "yes" /\ failures' = 0 /\ alerted' = FALSE
  /\ status' = IF status \in {"dead", "unknown", "degraded"}
               THEN "recovered" ELSE "alive"
  /\ announced' = IF status' = "recovered" THEN "recovered" ELSE announced

\* Fault: prev_status is read before the probe is awaited, and the DEGRADED
\* that the consumer wrote meanwhile is passed over.
TickMissingStale ==
  /\ answer = "missing" /\ EndProbe
  /\ queueExists' = "no" /\ CountFailure
  /\ status' = "degraded"
  /\ \E prev \in {status, "alive"} :
       announced' = IF prev # "degraded" THEN "queue_missing" ELSE announced
  /\ alerted' = (alerted \/ announced' # announced)

\* Broker up, queue missing.
TickMissing ==
  /\ answer = "missing" /\ EndProbe
  /\ queueExists' = "no" /\ CountFailure
  /\ status' = "degraded"
  /\ announced' = IF status # "degraded" THEN "queue_missing" ELSE announced
  /\ alerted' = (alerted \/ status # "degraded")

\* Fault: queue_exists is kept when the probe cannot tell.
TickUnreachableKeepsQueue ==
  /\ answer = "unreachable" /\ EndProbe
  /\ UNCHANGED queueExists /\ CountFailure
  /\ status' = "dead" /\ alerted' = FALSE
  /\ announced' = IF status # "dead" THEN "down" ELSE announced

\* Fault: DEGRADED counts as already down.
TickUnreachableSticks ==
  /\ answer = "unreachable" /\ EndProbe
  /\ queueExists' = "unknown" /\ CountFailure
  /\ status' = IF status = "degraded" THEN "degraded" ELSE "dead"
  /\ alerted' = FALSE
  /\ announced' = IF status' # status THEN "down" ELSE announced

\* Broker down.
TickUnreachable ==
  /\ answer = "unreachable" /\ EndProbe
  /\ queueExists' = "unknown" /\ CountFailure
  /\ status' = "dead" /\ alerted' = FALSE
  /\ announced' = IF status # "dead" THEN "down" ELSE announced

\* conn.close() in the finally clause of a probe by new connection raises,
\* after the answer or when the probe is cancelled.  The checker catches only
\* CancelledError, so its task ends and the answer is never applied.
CheckerCrashes ==
  /\ method = "new_connection" /\ probe \in {"asking", "answered"}
  /\ probe' = "crashed" /\ answer' = "none" /\ method' = "none"
  /\ UNCHANGED <<loopVars, env, channelVars, stateVars>>

\* except CancelledError re-raises.
CheckerCancelled ==
  /\ probe \notin {"stopped", "crashed"}
  /\ probe' = "stopped"
  /\ UNCHANGED <<loopVars, env, channelVars, method, answer, stateVars>>

-----------------------------------------------------------------------------
Environment == BrokerChanges \/ QueueChanges

Consumer ==
  \/ ConsumerOpens \/ ConsumerDeclares \/ ConsumerChannelError
  \/ ConsumerOtherError \/ ConsumerIteratorEnds \/ ConsumerRetries
  \/ LinkDrops \/ LinkReturns \/ ConsumerCancelled \/ ConsumerStops

Checker ==
  \/ StartProbe \/ PassiveAnswered \/ NewConnectionAnswered
  \/ TickHealthy \/ TickMissing \/ TickUnreachable

Next ==
  Environment \/ Consumer \/ Checker \/ CheckerCrashes \/ CheckerCancelled

Spec == Init /\ [][Next]_vars

\* asyncio wakes the checker from its sleep, and every await of a probe has
\* a timeout: the checker always goes on.  Nothing is assumed of the rest.
FairSpec == Spec /\ WF_vars(Checker)

-----------------------------------------------------------------------------
TypeOK ==
  /\ LoopTypeOK
  /\ broker \in BOOLEAN /\ queue \in BOOLEAN
  /\ open \in BOOLEAN /\ shared \in BOOLEAN /\ doomed \in BOOLEAN
  /\ probe \in {"sleeping", "asking", "answered", "crashed", "stopped"}
  /\ method \in {"none", "passive", "new_connection"}
  /\ answer \in Answers \cup {"none"}
  /\ status \in Statuses /\ failures \in 0..MaxFailures
  /\ queueExists \in {"unknown", "yes", "no"}
  /\ announced \in Announcements /\ alerted \in BOOLEAN

\* What to_dict() reports fits together whatever the status says, although
\* two coroutines write it: good statuses come with no failures and a queue,
\* DEAD with failures and no claim about the queue.
ReportConsistent ==
  /\ status \in {"alive", "recovered"} => failures = 0 /\ queueExists = "yes"
  /\ status = "dead" => failures > 0 /\ queueExists = "unknown"
  /\ status = "unknown" => failures = 0 /\ queueExists = "unknown"

\* Whoever listens to the hooks has the right picture: while the status is
\* good the last thing announced is a recovery, while it is DEAD an outage.
AnnouncementsMatch ==
  /\ status \in {"alive", "recovered"} => announced = "recovered"
  /\ status = "dead" => announced = "down"

\* The checker never holds a channel of a consumer that has given it up:
\* outside its try block the loop leaves nothing registered, so no probe
\* starts on it during the backoff, the drain or after the shutdown.
NoChannelWithoutConsumer ==
  loop \in {"backoff", "draining", "stopped"} => ~ shared

\* Checker and consumer write the status between each other's awaits, and yet
\* whoever polls it and listens to the hooks sees the state machine of the
\* docstring of rmq_health_checker(), with the consumer's silent DEGRADED.
Watch == INSTANCE HealthWatch
ImplementsWatch == Watch!Spec

-----------------------------------------------------------------------------
\* The status settles on the truth once the truth settles, from any mixture
\* of stale answers, stale channels and consumer writes before that, as long
\* as there is a checker: one that crashes freezes the status for good.
Serving ==
  loop \notin {"draining", "stopped"} /\ probe \notin {"crashed", "stopped"}

\* A broker with its queue and a consumer that stays connected.
ConvergesToAlive ==
  <>[](broker /\ queue /\ Serving /\ loop = "consuming" /\ link = "up")
    => <>[](status = "alive")

\* A broker that stays away.
ConvergesToDead == <>[](~ broker /\ Serving) => <>[](status = "dead")

\* A queue that stays deleted.  The status is never good again, and it says
\* DEGRADED again and again as long as probes by new connection go on: with
\* the default delays several of them fit into each backoff of the consumer.
\* (Between them the consumer's next attempt may register a channel, lose it
\* under a passive probe and so have the broker reported DEAD.)
MissingQueueShows ==
  <>[](broker /\ ~ queue /\ Serving) =>
    /\ <>[](status \in {"degraded", "dead"})
    /\ []<><<NewConnectionAnswered>>_vars => []<>(status = "degraded")
=============================================================================
