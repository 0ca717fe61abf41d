--------------------------- MODULE LifespanProofs ---------------------------
(***************************************************************************)
(* Proofs about Lifespan: it runs its tasks as RMQHealth says, so that     *)
(* what is proved there holds here, and it ends them before it cleans up.  *)
(***************************************************************************)
EXTENDS Lifespan, RMQHealthProofs

LEMMA LifespanStepRefines == LifespanNext => [Next]_vars
BY DEF LifespanNext, ConsumerRuns, LinkMoves, CheckerRuns, Shutdown, Resume,
       Delivered, Swallowed, Drained, ConsumerAwaited, CheckerEnds,
       CheckerAwaited, CleanUp, Next, Consumer

\* The lifespan restricts when its tasks move, never how.
THEOREM LifespanRefinesHealth == LifespanSpec => ImplementsHealth
<1>1. LifespanInit => Init
  BY DEF LifespanInit
<1>2. [LifespanNext]_lifeVars => [Next]_vars
  BY LifespanStepRefines DEF lifeVars
<1> QED
  BY <1>1, <1>2, PTL DEF LifespanSpec, ImplementsHealth, Spec

-----------------------------------------------------------------------------
\* Which of the two tasks may be where in each phase.
TasksInPhase ==
  /\ phase \in {"serving", "cancelling", "stranded"} =>
       loop \notin {"draining", "stopped"} /\ probe # "stopped"
  /\ phase = "awaiting" =>
       loop \in {"draining", "stopped"} /\ probe # "stopped"
  /\ phase = "cancelling_checker" => loop = "stopped"

PhaseInv ==
  /\ phase \in Phases /\ client \in {"open", "closed"}
  /\ TasksInPhase /\ TasksEndFirst

\* No step of the checker revives it or ends it in silence.
LEMMA CheckerStep ==
  ASSUME Checker \/ (probe = "answered" /\ CheckerCrashes)
  PROVE  /\ probe \in {"sleeping", "asking", "answered"}
         /\ probe' # "stopped" /\ loop' = loop
BY DEF Checker, StartProbe, PassiveAnswered, NewConnectionAnswered, TickHealthy,
       TickMissing, TickUnreachable, EndProbe, CheckerCrashes, loopVars

\* A consumer that is not cancelled neither drains nor stops.
LEMMA ConsumerStep ==
  ASSUME \/ ConsumerOpens \/ ConsumerDeclares \/ ConsumerChannelError
         \/ ConsumerOtherError \/ ConsumerIteratorEnds \/ ConsumerRetries
  PROVE  loop' \notin {"draining", "stopped"} /\ probe' = probe
BY DEF ConsumerOpens, ConsumerDeclares, ConsumerChannelError,
       ConsumerOtherError, ConsumerIteratorEnds, ConsumerRetries,
       ChannelOpened, Declared, Raise, IteratorEnds, BackoffElapsed, probeVars

LEMMA PhaseStep == PhaseInv /\ [LifespanNext]_lifeVars => PhaseInv'
<1> SUFFICES ASSUME PhaseInv, [LifespanNext]_lifeVars PROVE PhaseInv'
  OBVIOUS
<1> USE DEF PhaseInv, Phases, TasksInPhase, TasksEndFirst, Go, Stay
<1>1. CASE Environment /\ Stay
  BY <1>1 DEF Environment, BrokerChanges, QueueChanges, loopVars, probeVars
<1>2. CASE ConsumerRuns
  BY <1>2, ConsumerStep DEF ConsumerRuns
<1>3. CASE LinkMoves
  BY <1>3 DEF LinkMoves, LinkDrops, LinkReturns, TransientDrop,
              RobustReconnect, probeVars
<1>4. CASE CheckerRuns
  BY <1>4, CheckerStep DEF CheckerRuns
<1>5. CASE Shutdown \/ ConsumerAwaited \/ CheckerAwaited \/ CleanUp
  BY <1>5 DEF Shutdown, ConsumerAwaited, CheckerAwaited, CleanUp, vars
<1>6. CASE Delivered
  BY <1>6 DEF Delivered, ConsumerCancelled, ConsumerStops, CancelInTry,
              CancelInBackoff, DrainDone, probeVars
<1>7. CASE Swallowed
  BY <1>7, ConsumerStep DEF Swallowed
<1>8. CASE Drained
  BY <1>8 DEF Drained, ConsumerStops, CancelInBackoff, DrainDone, probeVars
<1>9. CASE CheckerEnds
  BY <1>9 DEF CheckerEnds, CheckerCancelled, CheckerCrashes, loopVars
<1>10. CASE UNCHANGED lifeVars
  BY <1>10 DEF lifeVars, vars
<1> QED
  BY <1>1, <1>2, <1>3, <1>4, <1>5, <1>6, <1>7, <1>8, <1>9, <1>10
  DEF LifespanNext, Resume

LEMMA PhaseAlways == LifespanSpec => []PhaseInv
<1>1. LifespanInit => PhaseInv
  BY DEF LifespanInit, Init, LoopInit, PhaseInv, Phases, TasksInPhase,
         TasksEndFirst
<1> QED
  BY <1>1, PhaseStep, PTL DEF LifespanSpec

\* Every variable keeps its type.
THEOREM LifespanTypeCorrect == LifespanSpec => []LifespanTypeOK
<1>1. PhaseInv /\ TypeOK => LifespanTypeOK
  BY DEF PhaseInv, LifespanTypeOK
<1> QED
  BY <1>1, PhaseAlways, LifespanRefinesHealth, HealthTypeCorrect, PTL
  DEF ImplementsHealth

\* Both tasks have ended before anything is cleaned up, and only a crashed
\* checker keeps the lifespan from cleaning up.
THEOREM TasksAlwaysEndFirst == LifespanSpec => []TasksEndFirst
<1>1. PhaseInv => TasksEndFirst
  BY DEF PhaseInv
<1> QED
  BY <1>1, PhaseAlways, PTL

\* The checker is stopped last.
THEOREM CheckerAlwaysOutlives == LifespanSpec => []CheckerOutlivesConsumer
<1>1. PhaseInv => CheckerOutlivesConsumer
  BY DEF PhaseInv, Phases, TasksInPhase, TasksEndFirst, CheckerOutlivesConsumer
<1> QED
  BY <1>1, PhaseAlways, PTL

-----------------------------------------------------------------------------
\* From start to shutdown the fields of rmq_health never contradict each
\* other, the last hook tells the status, and no channel is left registered.
THEOREM HealthHoldsInLifespan ==
  LifespanSpec =>
    [](ReportConsistent /\ AnnouncementsMatch /\ NoChannelWithoutConsumer)
BY LifespanRefinesHealth, ReportAlwaysConsistent, AnnouncementsAlwaysMatch,
   ChannelAlwaysCleared, PTL DEF ImplementsHealth

\* From start to shutdown checker and consumer run the state machine that
\* HealthWatch promises: one refinement on top of the other.
THEOREM LifespanImplementsWatch == LifespanSpec => ImplementsWatch
BY LifespanRefinesHealth, HealthImplementsWatch, PTL DEF ImplementsHealth
=============================================================================
