----------------------------- MODULE RMQConsumer -----------------------------
(***************************************************************************)
(* The data plane of fastapi_app/rmq/consumer.py: deliveries, one asyncio  *)
(* task per delivery (_spawn_task), the semaphore of _process_message, the *)
(* ack / nack / reject of each outcome, and the drain at shutdown, over    *)
(* the loop of ConsumerLoop.                                               *)
(*                                                                         *)
(* Constants                                                               *)
(*   Kind           what json.loads and _handlers.get make of a message    *)
(*   Prefetch       settings.RMQ_PREFETCH_COUNT                            *)
(*   MaxConcurrent  settings.RMQ_MAX_CONCURRENT_TASKS                      *)
(*   Tasks          identities for asyncio tasks; a model bound, the code  *)
(*                  has none                                               *)
(***************************************************************************)
EXTENDS Integers, FiniteSets, ConsumerLoop

CONSTANTS Messages, Kind, Tasks, Prefetch, MaxConcurrent, NoMessage

Kinds == {"event", "unknown", "bad_json", "not_object"}

ASSUME KindAssumption == Kind \in [Messages -> Kinds]
ASSUME LimitsAssumption ==
  Prefetch \in Nat \ {0} /\ MaxConcurrent \in Nat \ {0}
ASSUME TasksAssumption == IsFiniteSet(Tasks)
ASSUME NoMessageAssumption == NoMessage \notin Messages

VARIABLES
  where,      \* broker: where each message is
  wire,       \* settlement frames sent and not yet applied by the broker
  pc,         \* where each task is suspended
  msg,        \* the message each task carries
  live,       \* is the channel the message came on still open?
  permits,    \* _semaphore._value
  completed   \* history: events whose handler returned at least once

consumerVars == <<where, wire, pc, msg, live, permits, completed>>
vars == <<loop, link, where, wire, pc, msg, live, permits, completed>>

Events == {m \in Messages : Kind[m] = "event"}
Active == {t \in Tasks : pc[t] # "free"}            \* _active_tasks
Holders == {t \in Tasks : pc[t] \notin {"free", "waiting"}}
Unacked == {m \in Messages : where[m] = "unacked"}

PCs == {"free", "waiting", "handling", "acking", "nacking", "rejecting"}
Places == {"ready", "unacked", "acked", "dead"}
Verdicts == {"ack", "requeue", "reject"}

\* What _process_message does first with a message of each kind.  A return
\* inside `async with message.process(requeue=False)` is a normal exit, and
\* a normal exit acks; body.get on a list raises, and an exception rejects.
Route == [event |-> "handling", unknown |-> "acking",
          bad_json |-> "acking", not_object |-> "rejecting"]

\* The frame a task sends from each settling state.
Verdict == [acking |-> "ack", nacking |-> "requeue", rejecting |-> "reject"]

\* Where the broker puts the message on each frame.
Outcome == [ack |-> "acked", requeue |-> "ready", reject |-> "dead"]

Init ==
  /\ LoopInit
  /\ where = [m \in Messages |-> "ready"]
  /\ wire = {}
  /\ pc = [t \in Tasks |-> "free"]
  /\ msg = [t \in Tasks |-> NoMessage]
  /\ live = [t \in Tasks |-> FALSE]
  /\ permits = MaxConcurrent
  /\ completed = {}

-----------------------------------------------------------------------------
\* The loop.  Losing the connection loses the frames in flight; the broker
\* requeues what is unacked; tasks of the old channel live on, unable to settle.
Disconnect ==
  /\ wire' = {}
  /\ where' = [m \in Messages |-> IF where[m] = "unacked" THEN "ready"
                                                          ELSE where[m]]
  /\ live' = [t \in Tasks |-> FALSE]

Connect ==
  /\ ChannelOpened \/ Declared \/ RobustReconnect \/ BackoffElapsed
  /\ UNCHANGED consumerVars

LoseConnection ==
  /\ Raise \/ IteratorEnds \/ TransientDrop
  /\ Disconnect
  /\ UNCHANGED <<pc, msg, permits, completed>>

\* The broker pushes a message within the prefetch window; the iterator
\* yields it and _spawn_task creates and tracks its task.
Deliver(m, t) ==
  /\ loop = "consuming" /\ link = "up"
  /\ where[m] = "ready" /\ pc[t] = "free"
  /\ Cardinality(Unacked) < Prefetch
  /\ where' = [where EXCEPT ![m] = "unacked"]
  /\ pc' = [pc EXCEPT ![t] = "waiting"]
  /\ msg' = [msg EXCEPT ![t] = m]
  /\ live' = [live EXCEPT ![t] = TRUE]
  /\ UNCHANGED <<loop, link, wire, permits, completed>>

-----------------------------------------------------------------------------
\* The tasks.  A fault is a plausible bug in the action it stands before;
\* it is not part of Next.

\* Fault: auto-ack, the frame goes out before the handler runs.
AcquireAutoAck(t) ==
  /\ pc[t] = "waiting" /\ permits > 0
  /\ permits' = permits - 1
  /\ pc' = [pc EXCEPT ![t] = Route[Kind[msg[t]]]]
  /\ wire' = IF live[t] THEN wire \cup {<<msg[t], "ack">>} ELSE wire
  /\ live' = [live EXCEPT ![t] = FALSE]
  /\ UNCHANGED <<loop, link, where, msg, completed>>

\* `async with semaphore`, then process(), json.loads and the handler lookup,
\* with no await between them.
Acquire(t) ==
  /\ pc[t] = "waiting" /\ permits > 0
  /\ permits' = permits - 1
  /\ pc' = [pc EXCEPT ![t] = Route[Kind[msg[t]]]]
  /\ UNCHANGED <<loop, link, where, wire, msg, live, completed>>

HandlerReturns(t) ==
  /\ pc[t] = "handling"
  /\ pc' = [pc EXCEPT ![t] = "acking"]
  /\ completed' = completed \cup {msg[t]}
  /\ UNCHANGED <<loop, link, where, wire, msg, live, permits>>

\* Fault: the exception is logged and swallowed, so process() acks.
HandlerRaisesSwallowed(t) ==
  /\ pc[t] = "handling"
  /\ pc' = [pc EXCEPT ![t] = "acking"]
  /\ UNCHANGED <<loop, link, where, wire, msg, live, permits, completed>>

HandlerRaises(t) ==
  /\ pc[t] = "handling"
  /\ pc' = [pc EXCEPT ![t] = "nacking"]
  /\ UNCHANGED <<loop, link, where, wire, msg, live, permits, completed>>

EndTask(t, frames, released) ==
  /\ wire' = wire \cup frames
  /\ permits' = permits + released
  /\ pc' = [pc EXCEPT ![t] = "free"]
  /\ msg' = [msg EXCEPT ![t] = NoMessage]
  /\ live' = [live EXCEPT ![t] = FALSE]
  /\ UNCHANGED <<loop, link, where, completed>>

\* The frame task t puts on the wire; none when its channel is closed.
FrameOf(t) == IF live[t] THEN {<<msg[t], Verdict[pc[t]]>>} ELSE {}

\* Fault: an explicit release() next to `async with semaphore`.
SettleReleasesTwice(t) ==
  pc[t] \in DOMAIN Verdict /\ EndTask(t, FrameOf(t), 2)

\* Fault: acquire() without the `async with`, so nothing releases.
SettleLeaksSlot(t) ==
  pc[t] \in DOMAIN Verdict /\ EndTask(t, FrameOf(t), 0)

\* Fault: the reject of process() is not refused after a nack.
SettleTwice(t) ==
  /\ pc[t] \in DOMAIN Verdict
  /\ EndTask(t, FrameOf(t) \cup IF live[t] /\ pc[t] = "nacking"
                                 THEN {<<msg[t], "reject">>} ELSE {}, 1)

\* The task sends its frame and ends; on a closed channel the call raises
\* and the task ends all the same.  After a nack, the reject that process()
\* attempts on the re-raised exception is refused: already processed.  The
\* semaphore slot is released on every path.
Settle(t) ==
  pc[t] \in DOMAIN Verdict /\ EndTask(t, FrameOf(t), 1)

BrokerSettles(m, v) ==
  /\ <<m, v>> \in wire
  /\ wire' = wire \ {<<m, v>>}
  /\ where' = [where EXCEPT ![m] = Outcome[v]]
  /\ UNCHANGED <<loop, link, pc, msg, live, permits, completed>>

-----------------------------------------------------------------------------
\* Shutdown.

\* Fault: the tasks are drained while the channel is still open.
BeginDrainChannelOpen ==
  /\ CancelInTry
  /\ UNCHANGED consumerVars

\* The connection is closed on the way to the except clause, so _drain_tasks
\* waits for tasks whose channel is already gone.
BeginDrain ==
  /\ CancelInTry
  /\ Disconnect
  /\ UNCHANGED <<pc, msg, permits, completed>>

CancelWithoutDrain ==
  /\ CancelInBackoff
  /\ UNCHANGED consumerVars

\* Cancel the given tasks: one still waiting for a slot ends there, one
\* inside its handler goes to the given state.
CancelTasks(ts, handlingTo) ==
  LET waiting == {t \in ts : pc[t] = "waiting"} IN
    /\ pc' = [t \in Tasks |->
                CASE t \in waiting -> "free"
                  [] t \in ts /\ pc[t] = "handling" -> handlingTo
                  [] OTHER -> pc[t]]
    /\ msg' = [t \in Tasks |->
                 IF pc'[t] = "free" THEN NoMessage ELSE msg[t]]
    /\ live' = [t \in Tasks |-> pc'[t] # "free" /\ live[t]]
    /\ UNCHANGED <<loop, link, where, wire, permits, completed>>

Cancellable == {t \in Tasks : pc[t] \in {"waiting", "handling"}}

\* Fault: a cancelled handler's task vanishes with its slot.
DrainTimeoutLeaksSlot ==
  /\ loop = "draining" /\ Cancellable # {}
  /\ CancelTasks(Tasks, "free")

\* Fault: only the tasks without a slot are cancelled.
DrainTimeoutSparesHandlers ==
  /\ loop = "draining" /\ Cancellable # {}
  /\ CancelTasks({t \in Tasks : pc[t] = "waiting"}, "rejecting")

\* wait_for gives up after RMQ_DRAIN_TIMEOUT_SECS and every task is
\* cancelled; a cancelled handler leaves process(requeue=False) with an
\* exception, which rejects.
DrainTimeout ==
  /\ loop = "draining" /\ Cancellable # {}
  /\ CancelTasks(Tasks, "rejecting")

FinishDrain ==
  /\ Active = {}
  /\ DrainDone
  /\ UNCHANGED consumerVars

\* The process dies, at any time, or exits after the shutdown; the broker
\* sees its connection close.
ProcessRestart ==
  /\ Restart
  /\ Disconnect
  /\ pc' = [t \in Tasks |-> "free"]
  /\ msg' = [t \in Tasks |-> NoMessage]
  /\ permits' = MaxConcurrent
  /\ UNCHANGED completed

-----------------------------------------------------------------------------
TaskStep(t) ==
  Acquire(t) \/ HandlerReturns(t) \/ HandlerRaises(t) \/ Settle(t)

Next ==
  \/ Connect
  \/ LoseConnection
  \/ \E m \in Messages, t \in Tasks : Deliver(m, t)
  \/ \E t \in Tasks : TaskStep(t)
  \/ \E m \in Messages, v \in Verdicts : BrokerSettles(m, v)
  \/ BeginDrain
  \/ CancelWithoutDrain
  \/ DrainTimeout
  \/ FinishDrain
  \/ ProcessRestart

Spec == Init /\ [][Next]_vars

\* Fairness.  asyncio runs every ready task and fires every timer; the
\* broker delivers, applies frames and accepts connections.  Nothing makes a
\* handler return, so HandlerReturns and HandlerRaises are not fair here.
Fairness ==
  /\ WF_vars(Connect)
  /\ \A t \in Tasks : SF_vars(Acquire(t)) /\ WF_vars(Settle(t))
  /\ \A m \in Messages : SF_vars(\E t \in Tasks : Deliver(m, t))
  /\ \A m \in Messages, v \in Verdicts : WF_vars(BrokerSettles(m, v))
  /\ WF_vars(DrainTimeout) /\ WF_vars(FinishDrain)

FairSpec == Spec /\ Fairness

-----------------------------------------------------------------------------
\* Every variable has its type, and a free task carries nothing.
TypeOK ==
  /\ LoopTypeOK
  /\ where \in [Messages -> Places]
  /\ wire \subseteq Messages \X Verdicts
  /\ pc \in [Tasks -> PCs]
  /\ msg \in [Tasks -> Messages \cup {NoMessage}]
  /\ live \in [Tasks -> BOOLEAN]
  /\ permits \in 0..MaxConcurrent
  /\ completed \subseteq Events
  /\ \A t \in Tasks : pc[t] = "free" <=> msg[t] = NoMessage
  /\ \A t \in Tasks : live[t] => pc[t] # "free"

\* The semaphore of _process_message never leaks a slot or makes one up: the
\* permits left and the tasks holding one always add up to the cap, whatever
\* mixture of acks, failures, cancellations and reconnects came before.
SlotsConserved == permits + Cardinality(Holders) = MaxConcurrent

Carries(t, m) == live[t] /\ msg[t] = m
Framed(m, v) == <<m, v>> \in wire

\* While a message is unacked at the broker, exactly one party is going to
\* settle it: one task on the open channel, or one frame in flight.  With
\* none the message would hang until the connection drops; with two the
\* broker would close the channel on the second settlement.
OneOwner ==
  \A m \in Messages :
    /\ where[m] = "unacked" <=> \/ \E t \in Tasks : Carries(t, m)
                              \/ \E v \in Verdicts : Framed(m, v)
    /\ \A t, u \in Tasks : Carries(t, m) /\ Carries(u, m) => t = u
    /\ \A v, w \in Verdicts : Framed(m, v) /\ Framed(m, w) => v = w
    /\ ~ \E t \in Tasks, v \in Verdicts : Carries(t, m) /\ Framed(m, v)

\* At-least-once processing: an event leaves the queue (acked or dead-
\* lettered) only after its handler has run to completion, through crashes,
\* lost acks, reconnects and drains that time out.
NoEventLost ==
  \A m \in Events : where[m] \in {"acked", "dead"} => m \in completed

\* An event is never dead-lettered, not even when the drain timeout cancels
\* its handler and process(requeue=False) tries to reject it.
NoEventDeadLettered == \A m \in Events : where[m] # "dead"

\* The consumer implements AtLeastOnce: the broker's copy is the inbox.
Abstract == INSTANCE AtLeastOnce WITH
  inbox <- {m \in Messages : where[m] \in {"ready", "unacked"}},
  done <- completed
ImplementsAtLeastOnce == Abstract!Spec

-----------------------------------------------------------------------------
\* Once the consumer stays connected, a message whose handler returns when it
\* is run again and again is settled for good, even if the handler of another
\* raises each time and gets its message back each time: handlers have to end,
\* one way or the other, so that the slots go round.
HandlersEnd == \A t \in Tasks : WF_vars(HandlerReturns(t) \/ HandlerRaises(t))
HandlerReturnsFor(m) ==
  \A t \in Tasks : SF_vars(msg[t] = m /\ HandlerReturns(t))
StableConnectionSettlesAll ==
  HandlersEnd /\ <>[](loop = "consuming" /\ link = "up")
    => \A m \in Messages :
         HandlerReturnsFor(m) => <>(where[m] \in {"acked", "dead"})

\* A drain always ends, even if the handlers it waits for never do.
DrainEnds == (loop = "draining") ~> (loop # "draining")
=============================================================================
