--------------------------- MODULE RMQHealthProofs ---------------------------
(***************************************************************************)
(* Proofs about RMQHealth, for every bound MaxFailures: its safety         *)
(* invariants are inductive together with its types.                       *)
(***************************************************************************)
EXTENDS RMQHealth, TLAPS

HealthInv ==
  TypeOK /\ ReportConsistent /\ AnnouncementsMatch /\ NoChannelWithoutConsumer

LEMMA HealthInit == Init => HealthInv
<1> SUFFICES ASSUME Init PROVE HealthInv
  OBVIOUS
<1>1. TypeOK
  <2>1. LoopTypeOK
    BY DEF Init, LoopInit, LoopTypeOK, LoopStates, LinkStates
  <2>2. failures \in 0..MaxFailures
    BY MaxFailuresAssumption DEF Init
  <2> QED
    BY <2>1, <2>2 DEF Init, TypeOK, Statuses, Announcements
<1>2. ReportConsistent /\ AnnouncementsMatch
  BY DEF Init, ReportConsistent, AnnouncementsMatch
<1>3. NoChannelWithoutConsumer
  BY DEF Init, NoChannelWithoutConsumer
<1> QED
  BY <1>1, <1>2, <1>3 DEF HealthInv

\* A step that leaves the report alone.
LEMMA ReportUnchanged ==
  ASSUME HealthInv, UNCHANGED stateVars
  PROVE  ReportConsistent' /\ AnnouncementsMatch'
  BY DEF HealthInv, stateVars, ReportConsistent, AnnouncementsMatch

\* A failing tick counts one failure, up to the bound.
LEMMA FailureCounted ==
  ASSUME TypeOK, CountFailure
  PROVE  failures' \in 0..MaxFailures /\ failures' > 0
  BY MaxFailuresAssumption DEF TypeOK, CountFailure

\* Closing a channel keeps the types of what it writes.
LEMMA CloseChannelTypes ==
  ASSUME TypeOK, CloseChannel
  PROVE  open' \in BOOLEAN /\ doomed' \in BOOLEAN
  BY DEF TypeOK, CloseChannel

LEMMA HealthStep == HealthInv /\ [Next]_vars => HealthInv'
<1> SUFFICES ASSUME HealthInv, [Next]_vars PROVE HealthInv'
  OBVIOUS
<1> USE DEF HealthInv
<1>1. CASE Environment \/ UNCHANGED vars
  <2>1. /\ UNCHANGED <<loopVars, channelVars, probeVars, stateVars>>
        /\ broker' \in BOOLEAN /\ queue' \in BOOLEAN
    BY <1>1 DEF Environment, BrokerChanges, QueueChanges, vars, loopVars,
                channelVars, probeVars, stateVars, TypeOK
  <2>2. TypeOK'
    BY <2>1 DEF loopVars, channelVars, probeVars, stateVars, TypeOK,
                LoopTypeOK
  <2>3. NoChannelWithoutConsumer'
    BY <2>1 DEF loopVars, channelVars, NoChannelWithoutConsumer
  <2> QED
    BY <2>1, <2>2, <2>3, ReportUnchanged
<1>2. CASE Consumer
  <2>1. LoopTypeOK'
    BY <1>2
    DEF Consumer, ConsumerOpens, ConsumerDeclares, ConsumerChannelError,
        ConsumerOtherError, ConsumerIteratorEnds, ConsumerRetries, LinkDrops,
        LinkReturns, ConsumerCancelled, ConsumerStops, TypeOK, LoopTypeOK,
        LoopStates, LinkStates, ChannelOpened, Declared, Raise, IteratorEnds,
        BackoffElapsed, TransientDrop, RobustReconnect, CancelInTry,
        CancelInBackoff, DrainDone
  <2>2. CASE ConsumerOpens \/ ConsumerDeclares \/ ConsumerRetries
    <3>1. /\ UNCHANGED <<env, doomed, probeVars, stateVars>>
          /\ open' \in BOOLEAN /\ shared' \in BOOLEAN
      BY <2>2 DEF ConsumerOpens, ConsumerDeclares, ConsumerRetries, TypeOK,
                  channelVars
    <3>2. TypeOK'
      BY <2>1, <3>1 DEF env, probeVars, stateVars, TypeOK
    <3>3. NoChannelWithoutConsumer'
      BY <2>2 DEF ConsumerOpens, ConsumerDeclares, ConsumerRetries,
                  ChannelOpened, Declared, BackoffElapsed,
                  NoChannelWithoutConsumer
    <3> QED
      BY <3>1, <3>2, <3>3, ReportUnchanged
  <2>3. CASE ConsumerChannelError
    BY <2>1, <2>3, CloseChannelTypes
    DEF ConsumerChannelError, env, probeVars, TypeOK, Statuses,
        ReportConsistent, AnnouncementsMatch, NoChannelWithoutConsumer
  <2>4. CASE ConsumerOtherError \/ ConsumerCancelled
    BY <2>1, <2>4, CloseChannelTypes
    DEF ConsumerOtherError, ConsumerCancelled, env, probeVars, stateVars,
        TypeOK, ReportConsistent, AnnouncementsMatch, NoChannelWithoutConsumer
  <2>5. CASE ConsumerIteratorEnds \/ LinkDrops
    BY <2>1, <2>5, CloseChannelTypes
    DEF ConsumerIteratorEnds, LinkDrops, IteratorEnds, TransientDrop, env,
        probeVars, stateVars, TypeOK, ReportConsistent, AnnouncementsMatch,
        NoChannelWithoutConsumer
  <2>6. CASE LinkReturns
    BY <2>1, <2>6
    DEF LinkReturns, RobustReconnect, env, probeVars, stateVars, TypeOK,
        ReportConsistent, AnnouncementsMatch, NoChannelWithoutConsumer
  <2>7. CASE ConsumerStops
    BY <2>1, <2>7
    DEF ConsumerStops, CancelInBackoff, DrainDone, env, channelVars,
        probeVars, stateVars, TypeOK, ReportConsistent, AnnouncementsMatch,
        NoChannelWithoutConsumer
  <2> QED
    BY <1>2, <2>2, <2>3, <2>4, <2>5, <2>6, <2>7 DEF Consumer
<1>3. CASE StartProbe \/ NewConnectionAnswered \/ PassiveAnswered
           \/ CheckerCrashes \/ CheckerCancelled
  <2>1. BrokerAnswer \in Answers /\ "unreachable" \in Answers
    BY DEF BrokerAnswer, Answers
  <2>2. TypeOK'
    BY <1>3, <2>1
    DEF StartProbe, NewConnectionAnswered, PassiveAnswered, CheckerCrashes,
        CheckerCancelled,
        loopVars, env, channelVars, stateVars, TypeOK, LoopTypeOK
  <2> QED
    BY <1>3, <2>2
    DEF StartProbe, NewConnectionAnswered, PassiveAnswered, CheckerCrashes,
        CheckerCancelled,
        loopVars, channelVars, stateVars, ReportConsistent,
        AnnouncementsMatch, NoChannelWithoutConsumer
<1>4. ASSUME EndProbe
      PROVE  /\ NoChannelWithoutConsumer'
             /\ status' \in Statuses /\ failures' \in 0..MaxFailures
                /\ queueExists' \in {"unknown", "yes", "no"}
                /\ announced' \in Announcements /\ alerted' \in BOOLEAN
                => TypeOK'
  BY <1>4
  DEF EndProbe, loopVars, env, TypeOK, LoopTypeOK, NoChannelWithoutConsumer
<1>5. CASE TickHealthy
  <2>1. status' \in {"recovered", "alive"} /\ announced' = "recovered"
    BY <1>5 DEF TickHealthy, TypeOK, Statuses, AnnouncementsMatch
  <2>2. /\ EndProbe /\ queueExists' = "yes" /\ failures' = 0
        /\ alerted' \in BOOLEAN
    BY <1>5 DEF TickHealthy
  <2>3. failures' \in 0..MaxFailures
    BY <2>2, MaxFailuresAssumption
  <2>4. TypeOK' /\ NoChannelWithoutConsumer'
    BY <1>4, <2>1, <2>2, <2>3 DEF Statuses, Announcements
  <2>5. ReportConsistent' /\ AnnouncementsMatch'
    BY <2>1, <2>2 DEF ReportConsistent, AnnouncementsMatch
  <2> QED
    BY <2>4, <2>5
<1>6. CASE TickMissing
  BY <1>4, <1>6, FailureCounted
  DEF TickMissing, TypeOK, Statuses, Announcements, ReportConsistent,
      AnnouncementsMatch
<1>7. CASE TickUnreachable
  BY <1>4, <1>7, FailureCounted
  DEF TickUnreachable, TypeOK, Statuses, Announcements, ReportConsistent,
      AnnouncementsMatch
<1> QED
  BY <1>1, <1>2, <1>3, <1>5, <1>6, <1>7 DEF Next, Checker

LEMMA HealthAlways == Spec => []HealthInv
  BY HealthInit, HealthStep, PTL DEF Spec

\* Every variable keeps its type.
THEOREM HealthTypeCorrect == Spec => []TypeOK
<1>1. HealthInv => TypeOK
  BY DEF HealthInv
<1> QED
  BY <1>1, HealthAlways, PTL

\* The fields of rmq_health never contradict each other.
THEOREM ReportAlwaysConsistent == Spec => []ReportConsistent
<1>1. HealthInv => ReportConsistent
  BY DEF HealthInv
<1> QED
  BY <1>1, HealthAlways, PTL

\* The hooks that fired tell the status.
THEOREM AnnouncementsAlwaysMatch == Spec => []AnnouncementsMatch
<1>1. HealthInv => AnnouncementsMatch
  BY DEF HealthInv
<1> QED
  BY <1>1, HealthAlways, PTL

\* No channel stays registered behind the consumer's back.
THEOREM ChannelAlwaysCleared == Spec => []NoChannelWithoutConsumer
<1>1. HealthInv => NoChannelWithoutConsumer
  BY DEF HealthInv
<1> QED
  BY <1>1, HealthAlways, PTL

-----------------------------------------------------------------------------
\* The refinement of HealthWatch.
LEMMA WatchInit == Init => Watch!Init
  BY DEF Init, Watch!Init

\* Every step is a step of the state machine, or leaves status and hooks be.
LEMMA WatchStep ==
  TypeOK /\ [Next]_vars => [Watch!Next]_<<status, announced>>
<1> SUFFICES ASSUME TypeOK, [Next]_vars
             PROVE  Watch!Next \/ UNCHANGED <<status, announced>>
  OBVIOUS
<1>1. CASE Environment \/ CheckerCrashes \/ CheckerCancelled
           \/ UNCHANGED vars
  BY <1>1 DEF Environment, BrokerChanges, QueueChanges, CheckerCrashes,
              CheckerCancelled, stateVars, vars
<1>2. CASE Consumer
  <2>1. CASE ConsumerChannelError
    BY <2>1 DEF ConsumerChannelError, Watch!Next, Watch!Degrade
  <2>2. CASE ~ ConsumerChannelError
    BY <1>2, <2>2
    DEF Consumer, ConsumerOpens, ConsumerDeclares, ConsumerOtherError,
        ConsumerIteratorEnds, ConsumerRetries, LinkDrops, LinkReturns,
        ConsumerCancelled, ConsumerStops, stateVars
  <2> QED
    BY <2>1, <2>2
<1>3. CASE StartProbe \/ PassiveAnswered \/ NewConnectionAnswered
  BY <1>3 DEF StartProbe, PassiveAnswered, NewConnectionAnswered, stateVars
<1>4. CASE TickHealthy
  <2>1. CASE status \in Watch!Good
    BY <1>4, <2>1 DEF TickHealthy, Watch!Next, Watch!StayGood, Watch!Good
  <2>2. CASE status \notin Watch!Good
    BY <1>4, <2>2 DEF TickHealthy, TypeOK, Statuses, Watch!Next,
                      Watch!Recover, Watch!Good
  <2> QED
    BY <2>1, <2>2
<1>5. CASE TickMissing
  BY <1>5 DEF TickMissing, Watch!Next, Watch!LoseQueue
<1>6. CASE TickUnreachable
  BY <1>6 DEF TickUnreachable, Watch!Next, Watch!GoDown
<1> QED
  BY <1>1, <1>2, <1>3, <1>4, <1>5, <1>6 DEF Next, Checker

\* Checker and consumer together run the state machine of HealthWatch.
THEOREM HealthImplementsWatch == Spec => ImplementsWatch
<1>1. HealthInv => TypeOK
  BY DEF HealthInv
<1> QED
  BY <1>1, WatchInit, WatchStep, HealthAlways, PTL
     DEF Spec, ImplementsWatch, Watch!Spec
=============================================================================
