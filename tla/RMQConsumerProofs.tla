-------------------------- MODULE RMQConsumerProofs --------------------------
(***************************************************************************)
(* Proofs about RMQConsumer, for every set of messages and kinds, every    *)
(* finite set of tasks and every pair of limits.                           *)
(*                                                                         *)
(*   Slots       TypeOK and SlotsConserved are inductive together: the     *)
(*               upper bound of permits is the conservation law.           *)
(*   Safety      OneOwner, NoEventLost and NoEventDeadLettered, by the     *)
(*               strengthening SafetyInv below.                            *)
(*   Refinement  every step is a step of AtLeastOnce or a stutter.         *)
(***************************************************************************)
EXTENDS RMQConsumer, FiniteSetTheorems, TLAPS

-----------------------------------------------------------------------------
\* Counting the slots.
\* Only an event ever gets a handler.
HandlesEvents == \A t \in Tasks : pc[t] = "handling" => msg[t] \in Events

SlotInv == TypeOK /\ SlotsConserved /\ HandlesEvents

LEMMA HoldersFinite == IsFiniteSet(Holders) /\ Cardinality(Holders) \in Nat
<1>1. Holders \in SUBSET Tasks
  BY DEF Holders
<1>2. IsFiniteSet(Holders)
  BY <1>1, FS_Subset, TasksAssumption
<1> QED
  BY <1>2, FS_CardinalityType

LEMMA HoldersFinitePrime ==
  IsFiniteSet(Holders') /\ Cardinality(Holders') \in Nat
<1>1. Holders' \in SUBSET Tasks
  BY DEF Holders
<1>2. IsFiniteSet(Holders')
  BY <1>1, FS_Subset, TasksAssumption
<1> QED
  BY <1>2, FS_CardinalityType

\* A step that leaves the holders and the permits alone conserves the slots.
LEMMA HoldersUnchanged ==
  ASSUME SlotInv, permits' = permits, Holders' = Holders
  PROVE  SlotsConserved' /\ permits' \in 0..MaxConcurrent
  BY DEF SlotInv, TypeOK, SlotsConserved

\* Taking a slot.
LEMMA HolderJoins ==
  ASSUME SlotInv, NEW t \in Tasks, t \notin Holders, permits > 0,
         permits' = permits - 1, Holders' = Holders \cup {t}
  PROVE  SlotsConserved' /\ permits' \in 0..MaxConcurrent
<1>1. Cardinality(Holders') = Cardinality(Holders) + 1
  BY HoldersFinite, FS_AddElement
<1>2. permits \in 0..MaxConcurrent
  BY DEF SlotInv, TypeOK
<1> QED
  BY <1>1, <1>2, HoldersFinite, LimitsAssumption DEF SlotInv, SlotsConserved

\* Giving one back.
LEMMA HolderLeaves ==
  ASSUME SlotInv, NEW t \in Tasks, t \in Holders,
         permits' = permits + 1, Holders' = Holders \ {t}
  PROVE  SlotsConserved' /\ permits' \in 0..MaxConcurrent
<1>1. Cardinality(Holders') = Cardinality(Holders) - 1
  BY HoldersFinite, FS_RemoveElement
<1>2. permits \in 0..MaxConcurrent
  BY DEF SlotInv, TypeOK
<1>3. Cardinality(Holders') \in Nat
  BY HoldersFinitePrime
<1> QED
  BY <1>1, <1>2, <1>3, HoldersFinite, LimitsAssumption
  DEF SlotInv, SlotsConserved

LEMMA SlotsInit == Init => SlotInv
<1> SUFFICES ASSUME Init PROVE SlotInv
  OBVIOUS
<1>1. Holders = {}
  BY DEF Init, Holders
<1>2. SlotsConserved
  BY <1>1, FS_EmptySet, LimitsAssumption DEF Init, SlotsConserved
<1>3. TypeOK
  BY LimitsAssumption, NoMessageAssumption
  DEF Init, TypeOK, LoopInit, LoopTypeOK, LoopStates, LinkStates, Places,
         PCs
<1>4. HandlesEvents
  BY DEF Init, HandlesEvents
<1> QED
  BY <1>2, <1>3, <1>4 DEF SlotInv

-----------------------------------------------------------------------------
\* One step lemma per kind of action; permits' is bounded by conservation.
LEMMA LoopKeepsType ==
  ASSUME LoopTypeOK,
         \/ ChannelOpened \/ Declared \/ RobustReconnect \/ BackoffElapsed
         \/ Raise \/ IteratorEnds \/ TransientDrop \/ CancelInTry
         \/ CancelInBackoff \/ DrainDone \/ Restart \/ UNCHANGED loopVars
  PROVE  LoopTypeOK'
  BY DEF LoopTypeOK, LoopStates, LinkStates, ChannelOpened, Declared,
         RobustReconnect, BackoffElapsed, Raise, IteratorEnds, TransientDrop,
         CancelInTry, CancelInBackoff, DrainDone, Restart, loopVars

LEMMA DisconnectTypes ==
  ASSUME TypeOK, Disconnect
  PROVE  /\ where' \in [Messages -> Places]
         /\ wire' \subseteq Messages \X Verdicts
         /\ live' = [t \in Tasks |-> FALSE]
  BY DEF TypeOK, Disconnect, Places

LEMMA SlotsStep == SlotInv /\ [Next]_vars => SlotInv'
<1> SUFFICES ASSUME SlotInv, [Next]_vars PROVE SlotInv'
  OBVIOUS
<1> USE DEF SlotInv
<1>1. CASE Connect
  <2>1. UNCHANGED consumerVars /\ LoopTypeOK'
    BY <1>1, LoopKeepsType DEF Connect, TypeOK
  <2>2. Holders' = Holders /\ permits' = permits
    BY <2>1 DEF consumerVars, Holders
  <2> QED
    BY <2>1, <2>2, HoldersUnchanged DEF consumerVars, TypeOK, HandlesEvents
<1>2. CASE LoseConnection
  <2>1. Disconnect /\ UNCHANGED <<pc, msg, permits, completed>> /\ LoopTypeOK'
    BY <1>2, LoopKeepsType DEF LoseConnection, TypeOK
  <2>2. Holders' = Holders /\ permits' = permits
    BY <2>1 DEF Holders
  <2> QED
    BY <2>1, <2>2, HoldersUnchanged, DisconnectTypes DEF TypeOK, HandlesEvents
<1>3. ASSUME NEW m \in Messages, NEW t \in Tasks, Deliver(m, t)
      PROVE  SlotInv'
  <2>1. Holders' = Holders /\ permits' = permits
    BY <1>3 DEF Deliver, Holders, TypeOK, PCs
  <2>2. /\ where' \in [Messages -> Places]
        /\ pc' \in [Tasks -> PCs]
        /\ msg' \in [Tasks -> Messages \cup {NoMessage}]
        /\ live' \in [Tasks -> BOOLEAN]
    BY <1>3 DEF Deliver, TypeOK, Places, PCs
  <2>3. \A u \in Tasks : /\ pc'[u] = "free" <=> msg'[u] = NoMessage
                         /\ live'[u] => pc'[u] # "free"
    BY <1>3, NoMessageAssumption DEF Deliver, TypeOK
  <2>4. HandlesEvents'
    BY <1>3 DEF Deliver, TypeOK, HandlesEvents
  <2> QED
    BY <1>3, <2>1, <2>2, <2>3, <2>4, HoldersUnchanged
    DEF Deliver, TypeOK, LoopTypeOK
<1>4. ASSUME NEW t \in Tasks, Acquire(t)
      PROVE  SlotInv'
  <2>1. msg[t] \in Messages
    BY <1>4 DEF Acquire, TypeOK
  <2>2. /\ Route[Kind[msg[t]]] \in {"handling", "acking", "rejecting"}
        /\ Route[Kind[msg[t]]] = "handling" => msg[t] \in Events
    BY <2>1, KindAssumption DEF Route, Kinds, Events
  <2>3. t \notin Holders /\ Holders' = Holders \cup {t}
    BY <1>4, <2>2 DEF Acquire, Holders, TypeOK
  <2>4. pc' \in [Tasks -> PCs]
    BY <1>4, <2>2 DEF Acquire, TypeOK, PCs
  <2>5. \A u \in Tasks : /\ pc'[u] = "free" <=> msg'[u] = NoMessage
                         /\ live'[u] => pc'[u] # "free"
    BY <1>4, <2>2 DEF Acquire, TypeOK
  <2>6. HandlesEvents'
    BY <1>4, <2>2 DEF Acquire, TypeOK, HandlesEvents
  <2> QED
    BY <1>4, <2>3, <2>4, <2>5, <2>6, HolderJoins
    DEF Acquire, TypeOK, LoopTypeOK
<1>5. ASSUME NEW t \in Tasks, HandlerReturns(t) \/ HandlerRaises(t)
      PROVE  SlotInv'
  <2> USE DEF HandlerReturns, HandlerRaises
  <2>1. Holders' = Holders /\ permits' = permits
    BY <1>5 DEF Holders, TypeOK
  <2>2. pc' \in [Tasks -> PCs]
    BY <1>5 DEF TypeOK, PCs
  <2>3. \A u \in Tasks : /\ pc'[u] = "free" <=> msg'[u] = NoMessage
                         /\ live'[u] => pc'[u] # "free"
    BY <1>5 DEF TypeOK
  <2>4. completed' \subseteq Events
    BY <1>5 DEF TypeOK, HandlesEvents
  <2>5. HandlesEvents'
    BY <1>5 DEF TypeOK, HandlesEvents
  <2> QED
    BY <1>5, <2>1, <2>2, <2>3, <2>4, <2>5, HoldersUnchanged
    DEF TypeOK, LoopTypeOK
<1>6. ASSUME NEW t \in Tasks, Settle(t)
      PROVE  SlotInv'
  <2> USE DEF Settle, EndTask
  <2>1. pc[t] \in {"acking", "nacking", "rejecting"}
    BY <1>6 DEF Verdict
  <2>2. FrameOf(t) \subseteq Messages \X Verdicts
    BY <2>1 DEF FrameOf, Verdict, Verdicts, TypeOK
  <2>3. t \in Holders /\ Holders' = Holders \ {t}
    BY <1>6, <2>1 DEF Holders, TypeOK
  <2>4. pc' \in [Tasks -> PCs] /\ msg' \in [Tasks -> Messages \cup {NoMessage}]
    BY <1>6 DEF TypeOK, PCs
  <2>5. \A u \in Tasks : /\ pc'[u] = "free" <=> msg'[u] = NoMessage
                         /\ live'[u] => pc'[u] # "free"
    BY <1>6 DEF TypeOK
  <2>6. HandlesEvents'
    BY <1>6 DEF TypeOK, HandlesEvents
  <2> QED
    BY <1>6, <2>2, <2>3, <2>4, <2>5, <2>6, HolderLeaves
    DEF TypeOK, LoopTypeOK
<1>7. ASSUME NEW m \in Messages, NEW v \in Verdicts, BrokerSettles(m, v)
      PROVE  SlotInv'
  <2>1. Holders' = Holders /\ permits' = permits
    BY <1>7 DEF BrokerSettles, Holders
  <2>2. where' \in [Messages -> Places]
    BY <1>7 DEF BrokerSettles, TypeOK, Outcome, Verdicts, Places
  <2> QED
    BY <1>7, <2>1, <2>2, HoldersUnchanged
    DEF BrokerSettles, TypeOK, LoopTypeOK, HandlesEvents
<1>8. CASE BeginDrain
  <2>1. Disconnect /\ UNCHANGED <<pc, msg, permits, completed>> /\ LoopTypeOK'
    BY <1>8, LoopKeepsType DEF BeginDrain, TypeOK
  <2>2. Holders' = Holders /\ permits' = permits
    BY <2>1 DEF Holders
  <2> QED
    BY <2>1, <2>2, HoldersUnchanged, DisconnectTypes DEF TypeOK, HandlesEvents
<1>9. CASE CancelWithoutDrain \/ FinishDrain \/ UNCHANGED vars
  <2>1. UNCHANGED consumerVars /\ LoopTypeOK'
    BY <1>9, LoopKeepsType
    DEF CancelWithoutDrain, FinishDrain, vars, consumerVars, loopVars, TypeOK
  <2>2. Holders' = Holders /\ permits' = permits
    BY <2>1 DEF consumerVars, Holders
  <2> QED
    BY <2>1, <2>2, HoldersUnchanged DEF consumerVars, TypeOK, HandlesEvents
<1>10. CASE DrainTimeout
  <2> USE DEF DrainTimeout, CancelTasks
  <2>1. \A t \in Tasks :
          pc'[t] = IF pc[t] = "waiting" THEN "free"
                   ELSE IF pc[t] = "handling" THEN "rejecting" ELSE pc[t]
    BY <1>10
  <2>2. Holders' = Holders /\ permits' = permits
    BY <1>10, <2>1 DEF Holders
  <2>3. pc' \in [Tasks -> PCs]
    BY <1>10, <2>1 DEF TypeOK, PCs
  <2>4. /\ msg' \in [Tasks -> Messages \cup {NoMessage}]
        /\ live' \in [Tasks -> BOOLEAN]
    BY <1>10 DEF TypeOK
  <2>5. \A u \in Tasks : /\ pc'[u] = "free" <=> msg'[u] = NoMessage
                         /\ live'[u] => pc'[u] # "free"
    BY <1>10, <2>1 DEF TypeOK
  <2>6. HandlesEvents'
    BY <1>10, <2>1 DEF HandlesEvents
  <2> QED
    BY <1>10, <2>2, <2>3, <2>4, <2>5, <2>6, HoldersUnchanged
    DEF TypeOK, LoopTypeOK
<1>11. CASE ProcessRestart
  <2>1. Disconnect /\ LoopTypeOK'
    BY <1>11, LoopKeepsType DEF ProcessRestart, TypeOK
  <2>2. Holders' = {}
    BY <1>11 DEF ProcessRestart, Holders
  <2>3. SlotsConserved' /\ permits' \in 0..MaxConcurrent
    BY <1>11, <2>2, FS_EmptySet, LimitsAssumption
    DEF ProcessRestart, SlotsConserved
  <2> QED
    BY <1>11, <2>1, <2>3, DisconnectTypes
    DEF ProcessRestart, TypeOK, PCs, HandlesEvents
<1> QED
  BY <1>1, <1>2, <1>3, <1>4, <1>5, <1>6, <1>7, <1>8, <1>9, <1>10, <1>11
  DEF Next, TaskStep

\* Every variable keeps its type; in particular the semaphore's value never
\* goes below zero or above its cap.
THEOREM TypeCorrect == Spec => []TypeOK
<1>1. SlotInv => TypeOK
  BY DEF SlotInv
<1> QED
  BY <1>1, SlotsInit, SlotsStep, PTL DEF Spec

\* The semaphore of _process_message never leaks or invents a slot.
THEOREM SlotsAlwaysConserved == Spec => []SlotsConserved
<1>1. SlotInv => SlotsConserved
  BY DEF SlotInv
<1> QED
  BY <1>1, SlotsInit, SlotsStep, PTL DEF Spec

\* Through reconnections, when tasks of dead channels pile up beside new ones,
\* no more than RMQ_MAX_CONCURRENT_TASKS of them are past the semaphore; and
\* a task that finds no slot waits for a task, never for a slot that is gone.
THEOREM HandlersBounded ==
  Spec => [](/\ Cardinality(Holders) <= MaxConcurrent
             /\ permits = 0 => Holders # {})
<1>1. SlotInv => /\ Cardinality(Holders) <= MaxConcurrent
                 /\ permits = 0 => Holders # {}
  <2> SUFFICES ASSUME SlotInv
               PROVE  /\ Cardinality(Holders) <= MaxConcurrent
                      /\ permits = 0 => Holders # {}
    OBVIOUS
  <2>1. /\ permits \in 0..MaxConcurrent
        /\ permits + Cardinality(Holders) = MaxConcurrent
    BY DEF SlotInv, TypeOK, SlotsConserved
  <2>2. Holders = {} => Cardinality(Holders) = 0
    BY FS_EmptySet
  <2> QED
    BY <2>1, <2>2, HoldersFinite, LimitsAssumption
<1> QED
  BY <1>1, SlotsInit, SlotsStep, PTL DEF Spec

-----------------------------------------------------------------------------
\* The strengthening of the safety invariants.

\* A channel is open only on a connection that is up, and the loop has no
\* connection outside its try block.
LinkInv ==
  /\ \A t \in Tasks : live[t] => link = "up"
  /\ loop \in {"connecting", "backoff", "draining", "stopped"} => link = "none"

\* An ack of an event is backed by a handler that returned, and an event is
\* only ever rejected on a channel that is already closed.
SettledWork ==
  /\ \A t \in Tasks :
       msg[t] \in Events => /\ pc[t] = "acking" => msg[t] \in completed
                            /\ pc[t] = "rejecting" => ~ live[t]
  /\ \A m \in Events : /\ Framed(m, "ack") => m \in completed
                       /\ ~ Framed(m, "reject")

SafetyInv ==
  /\ SlotInv
  /\ LinkInv
  /\ SettledWork
  /\ OneOwner
  /\ NoEventLost
  /\ NoEventDeadLettered

LEMMA SafetyInit == Init => SafetyInv
<1> SUFFICES ASSUME Init PROVE SafetyInv
  OBVIOUS
<1>1. LinkInv
  BY DEF Init, LoopInit, LinkInv
<1>2. SettledWork
  BY DEF Init, SettledWork, Framed
<1>3. OneOwner
  BY DEF Init, OneOwner, Carries, Framed
<1>4. NoEventLost /\ NoEventDeadLettered
  BY DEF Init, NoEventLost, NoEventDeadLettered, Events
<1> QED
  BY <1>1, <1>2, <1>3, <1>4, SlotsInit DEF SafetyInv

\* Losing the connection leaves no owner and no unacked message.
LEMMA DisconnectSafe ==
  ASSUME SafetyInv, Disconnect, UNCHANGED completed
  PROVE  /\ OneOwner' /\ NoEventLost' /\ NoEventDeadLettered'
         /\ \A t \in Tasks : ~ live'[t]
         /\ \A m \in Messages, v \in Verdicts : ~ Framed(m, v)'
<1>1. /\ \A t \in Tasks : ~ live'[t]
      /\ \A m \in Messages, v \in Verdicts : ~ Framed(m, v)'
  BY DEF Disconnect, Framed
<1>2. \A m \in Messages :
        /\ where'[m] # "unacked"
        /\ where'[m] \in {"acked", "dead"} => where'[m] = where[m]
  BY DEF Disconnect, SafetyInv, SlotInv, TypeOK
<1>3. OneOwner'
  BY <1>1, <1>2 DEF OneOwner, Carries
<1>4. NoEventLost' /\ NoEventDeadLettered'
  BY <1>2 DEF SafetyInv, NoEventLost, NoEventDeadLettered, Events
<1> QED
  BY <1>1, <1>3, <1>4

LEMMA SafetyStep == SafetyInv /\ [Next]_vars => SafetyInv'
<1> SUFFICES ASSUME SafetyInv, [Next]_vars PROVE SafetyInv'
  OBVIOUS
<1>0. SlotInv'
  BY SlotsStep DEF SafetyInv
<1> USE DEF SafetyInv
<1>1. CASE Connect
  <2>1. LinkInv'
    BY <1>1 DEF Connect, consumerVars, LinkInv, ChannelOpened, Declared,
                RobustReconnect, BackoffElapsed
  <2> QED
    BY <1>0, <1>1, <2>1
    DEF Connect, consumerVars, SettledWork, OneOwner, Carries, Framed,
        NoEventLost, NoEventDeadLettered
<1>2. CASE LoseConnection \/ BeginDrain
  <2>1. Disconnect /\ UNCHANGED <<pc, msg, permits, completed>>
    BY <1>2 DEF LoseConnection, BeginDrain
  <2>2. LinkInv'
    BY <1>2, <2>1, DisconnectSafe
    DEF LoseConnection, BeginDrain, LinkInv, Raise, IteratorEnds,
        TransientDrop, CancelInTry
  <2>3. SettledWork'
    BY <2>1, DisconnectSafe DEF SettledWork, Events, Verdicts
  <2> QED
    BY <1>0, <2>1, <2>2, <2>3, DisconnectSafe
<1>3. ASSUME NEW m \in Messages, NEW t \in Tasks, Deliver(m, t)
      PROVE  SafetyInv'
  <2>1. LinkInv'
    BY <1>3 DEF Deliver, LinkInv, SlotInv, TypeOK
  <2>2. SettledWork'
    BY <1>3 DEF Deliver, SettledWork, SlotInv, TypeOK, Framed
  <2>3. OneOwner'
    BY <1>3 DEF Deliver, OneOwner, Carries, Framed, SlotInv, TypeOK
  <2>4. NoEventLost' /\ NoEventDeadLettered'
    BY <1>3 DEF Deliver, NoEventLost, NoEventDeadLettered, SlotInv, TypeOK,
                Events
  <2> QED
    BY <1>0, <2>1, <2>2, <2>3, <2>4
<1>4. ASSUME NEW t \in Tasks,
             Acquire(t) \/ HandlerReturns(t) \/ HandlerRaises(t)
      PROVE  SafetyInv'
  <2> USE DEF Acquire, HandlerReturns, HandlerRaises
  <2>1. LinkInv'
    BY <1>4 DEF LinkInv
  <2>2. pc[t] = "waiting" => msg[t] \in Messages
    BY DEF SlotInv, TypeOK
  <2>3. SettledWork'
    BY <1>4, <2>2, KindAssumption
    DEF SettledWork, SlotInv, TypeOK, Framed, Route, Kinds, Events
  <2>4. OneOwner'
    <3>1. UNCHANGED <<where, wire, msg, live>>
      BY <1>4
    <3> QED
      BY <3>1 DEF OneOwner, Carries, Framed
  <2>5. NoEventLost' /\ NoEventDeadLettered'
    BY <1>4 DEF NoEventLost, NoEventDeadLettered
  <2> QED
    BY <1>0, <2>1, <2>3, <2>4, <2>5
<1>5. ASSUME NEW t \in Tasks, Settle(t)
      PROVE  SafetyInv'
  <2> USE DEF Settle, EndTask
  <2>1. LinkInv'
    BY <1>5 DEF LinkInv, SlotInv, TypeOK
  <2>2. /\ pc[t] \in {"acking", "nacking", "rejecting"}
        /\ msg[t] \in Messages
    BY <1>5 DEF Verdict, SlotInv, TypeOK
  <2>3. SettledWork'
    BY <1>5, <2>2, NoMessageAssumption
    DEF SettledWork, SlotInv, TypeOK, Framed, FrameOf, Verdict, Events
  <2>4. OneOwner'
    <3>1. CASE live[t]
      <4>1. /\ Carries(t, msg[t]) /\ where[msg[t]] = "unacked"
            /\ \A v \in Verdicts : ~ Framed(msg[t], v)
        BY <2>2, <3>1 DEF OneOwner, Carries
      <4>2. PICK f \in Verdicts : wire' = wire \cup {<<msg[t], f>>}
        BY <1>5, <2>2, <3>1 DEF FrameOf, Verdict, Verdicts
      <4>3. \A m \in Messages, v \in Verdicts :
              Framed(m, v)' <=> Framed(m, v) \/ (m = msg[t] /\ v = f)
        BY <4>2 DEF Framed
      <4>4. \A m \in Messages, u \in Tasks :
              Carries(u, m)' <=> Carries(u, m) /\ u # t
        BY <1>5 DEF Carries, SlotInv, TypeOK
      <4> QED
        BY <1>5, <2>2, <3>1, <4>1, <4>3, <4>4 DEF OneOwner, Carries
    <3>2. CASE ~ live[t]
      <4>1. /\ wire' = wire
            /\ \A m \in Messages, u \in Tasks : Carries(u, m)' <=> Carries(u, m)
        BY <1>5, <3>2 DEF Carries, SlotInv, TypeOK, FrameOf
      <4> QED
        BY <1>5, <4>1 DEF OneOwner, Framed
    <3> QED
      BY <3>1, <3>2
  <2>5. NoEventLost' /\ NoEventDeadLettered'
    BY <1>5 DEF NoEventLost, NoEventDeadLettered
  <2> QED
    BY <1>0, <2>1, <2>3, <2>4, <2>5
<1>6. ASSUME NEW m \in Messages, NEW v \in Verdicts, BrokerSettles(m, v)
      PROVE  SafetyInv'
  <2> USE DEF BrokerSettles
  <2>1. LinkInv'
    BY <1>6 DEF LinkInv
  <2>2. SettledWork'
    BY <1>6 DEF SettledWork, Framed
  <2>3. where' = [where EXCEPT ![m] = Outcome[v]] /\ Outcome[v] # "unacked"
    BY <1>6 DEF Outcome, Verdicts
  <2>4. OneOwner'
    BY <1>6, <2>3 DEF OneOwner, Carries, Framed, SlotInv, TypeOK
  <2>5. m \in Events => /\ Outcome[v] # "dead"
                        /\ Outcome[v] = "acked" => m \in completed
    <3>1. /\ Outcome["ack"] = "acked" /\ Outcome["requeue"] = "ready"
          /\ Outcome["reject"] = "dead"
      BY DEF Outcome
    <3>2. m \in Events => /\ v # "reject"
                          /\ v = "ack" => m \in completed
      BY <1>6 DEF SettledWork, Framed
    <3>3. v \in {"ack", "requeue", "reject"}
      BY DEF Verdicts
    <3> QED
      BY <3>1, <3>2, <3>3
  <2>6. NoEventLost' /\ NoEventDeadLettered'
    BY <1>6, <2>3, <2>5
    DEF NoEventLost, NoEventDeadLettered, SlotInv, TypeOK, Events
  <2> QED
    BY <1>0, <2>1, <2>2, <2>4, <2>6
<1>7. CASE CancelWithoutDrain \/ FinishDrain \/ UNCHANGED vars
  <2>1. UNCHANGED consumerVars
    BY <1>7 DEF CancelWithoutDrain, FinishDrain, vars, consumerVars
  <2>2. LinkInv'
    BY <1>7, <2>1 DEF CancelWithoutDrain, FinishDrain, CancelInBackoff,
                      DrainDone, vars, consumerVars, LinkInv
  <2> QED
    BY <1>0, <2>1, <2>2
    DEF consumerVars, SettledWork, OneOwner, Carries, Framed,
        NoEventLost, NoEventDeadLettered
<1>8. CASE DrainTimeout
  <2> USE DEF DrainTimeout, CancelTasks
  <2>1. \A t \in Tasks : ~ live[t] /\ ~ live'[t]
    BY <1>8 DEF LinkInv
  <2>2. \A t \in Tasks : /\ pc'[t] = "acking" => pc[t] = "acking"
                         /\ pc'[t] # "free" => msg'[t] = msg[t]
    BY <1>8
  <2>3. LinkInv' /\ SettledWork'
    BY <1>8, <2>1, <2>2 DEF LinkInv, SettledWork, Framed
  <2>4. OneOwner'
    BY <1>8, <2>1 DEF OneOwner, Carries, Framed
  <2> QED
    BY <1>0, <1>8, <2>3, <2>4 DEF NoEventLost, NoEventDeadLettered
<1>9. CASE ProcessRestart
  <2> USE DEF ProcessRestart
  <2>1. LinkInv'
    BY <1>9, DisconnectSafe DEF LinkInv, Restart
  <2>2. SettledWork'
    BY <1>9, DisconnectSafe DEF SettledWork, Events, Verdicts
  <2> QED
    BY <1>0, <1>9, <2>1, <2>2, DisconnectSafe
<1> QED
  BY <1>1, <1>2, <1>3, <1>4, <1>5, <1>6, <1>7, <1>8, <1>9
  DEF Next, TaskStep

LEMMA SafetyAlways == Spec => []SafetyInv
BY SafetyInit, SafetyStep, PTL DEF Spec

\* Every unacked message has exactly one party that is going to settle it.
THEOREM OneOwnerAlways == Spec => []OneOwner
<1>1. SafetyInv => OneOwner
  BY DEF SafetyInv
<1> QED
  BY <1>1, SafetyAlways, PTL

\* At-least-once processing: no event leaves the queue unhandled.
THEOREM NoEventIsLost == Spec => []NoEventLost
<1>1. SafetyInv => NoEventLost
  BY DEF SafetyInv
<1> QED
  BY <1>1, SafetyAlways, PTL

\* No event is dead-lettered, whatever the drain cancels.
THEOREM NoEventIsDeadLettered == Spec => []NoEventDeadLettered
<1>1. SafetyInv => NoEventDeadLettered
  BY DEF SafetyInv
<1> QED
  BY <1>1, SafetyAlways, PTL

\* The finding DrainLetsHandlersAck in its strongest form: whatever was in
\* flight, no task ever sends a frame during a drain or after it.
THEOREM DrainNeverSettles ==
  Spec => [](loop \in {"draining", "stopped"}
               => \A t \in Tasks : FrameOf(t) = {})
<1>1. SafetyInv => (loop \in {"draining", "stopped"}
                      => \A t \in Tasks : FrameOf(t) = {})
  BY DEF SafetyInv, LinkInv, FrameOf
<1> QED
  BY <1>1, SafetyAlways, PTL

-----------------------------------------------------------------------------
\* The refinement of AtLeastOnce.
Inbox == {m \in Messages : where[m] \in {"ready", "unacked"}}

\* No place of a message changes but from ready to unacked or back: the
\* abstract state stands still.
LEMMA InboxStands ==
  ASSUME \A m \in Messages : where'[m] \in {"ready", "unacked"}
                               <=> where[m] \in {"ready", "unacked"},
         UNCHANGED completed
  PROVE  UNCHANGED Abstract!aloVars
<1>1. Inbox' = Inbox
  BY DEF Inbox
<1> QED
  BY <1>1 DEF Inbox, Abstract!aloVars

LEMMA RefinesStep ==
  SafetyInv /\ [Next]_vars => [Abstract!Next]_(Abstract!aloVars)
<1> SUFFICES ASSUME SafetyInv, [Next]_vars
             PROVE  [Abstract!Next]_(Abstract!aloVars)
  OBVIOUS
<1> USE DEF SafetyInv
<1>1. ASSUME Disconnect, UNCHANGED completed
      PROVE  UNCHANGED Abstract!aloVars
  BY <1>1, InboxStands DEF Disconnect
<1>2. ASSUME UNCHANGED <<where, completed>>
      PROVE  UNCHANGED Abstract!aloVars
  BY <1>2, InboxStands
<1>3. CASE LoseConnection \/ BeginDrain \/ ProcessRestart
  BY <1>1, <1>3 DEF LoseConnection, BeginDrain, ProcessRestart
<1>4. CASE \/ Connect \/ CancelWithoutDrain \/ DrainTimeout \/ FinishDrain
           \/ UNCHANGED vars
  BY <1>2, <1>4 DEF Connect, CancelWithoutDrain, DrainTimeout, CancelTasks,
                    FinishDrain, consumerVars, vars
<1>5. ASSUME NEW t \in Tasks, Acquire(t) \/ HandlerRaises(t) \/ Settle(t)
      PROVE  UNCHANGED Abstract!aloVars
  BY <1>2, <1>5 DEF Acquire, HandlerRaises, Settle, EndTask
<1>6. ASSUME NEW m \in Messages, NEW t \in Tasks, Deliver(m, t)
      PROVE  UNCHANGED Abstract!aloVars
  BY <1>6, InboxStands DEF Deliver, SlotInv, TypeOK
<1>7. ASSUME NEW t \in Tasks, HandlerReturns(t)
      PROVE  [Abstract!Next]_(Abstract!aloVars)
  <2>1. msg[t] \in Events /\ msg[t] \in Messages
    BY <1>7 DEF HandlerReturns, SlotInv, HandlesEvents, Events
  <2>2. Inbox' = Inbox /\ completed' = completed \cup {msg[t]}
    BY <1>7 DEF HandlerReturns, Inbox
  <2>3. CASE msg[t] \in Inbox
    <3>1. Abstract!Handle(msg[t])
      BY <2>1, <2>2, <2>3 DEF Abstract!Handle, Inbox
    <3> QED
      BY <2>1, <3>1 DEF Abstract!Next
  <2>4. CASE msg[t] \notin Inbox
    <3>1. msg[t] \in completed
      BY <2>1, <2>4 DEF Inbox, NoEventLost, SlotInv, TypeOK, Places
    <3>2. UNCHANGED completed
      BY <2>2, <3>1
    <3> QED
      BY <2>2, <3>2 DEF Inbox, Abstract!aloVars
  <2> QED
    BY <2>3, <2>4
<1>8. ASSUME NEW m \in Messages, NEW v \in Verdicts, BrokerSettles(m, v)
      PROVE  [Abstract!Next]_(Abstract!aloVars)
  <2> USE DEF BrokerSettles
  <2>1. where[m] = "unacked"
    BY <1>8 DEF OneOwner, Framed
  <2>2. where' = [where EXCEPT ![m] = Outcome[v]] /\ completed' = completed
    BY <1>8
  <2>3. CASE v = "requeue"
    <3>1. Outcome[v] = "ready"
      BY <2>3 DEF Outcome
    <3>2. UNCHANGED Abstract!aloVars
      BY <2>1, <2>2, <3>1, InboxStands DEF SlotInv, TypeOK
    <3> QED
      BY <3>2
  <2>4. CASE v # "requeue"
    <3>1. Outcome[v] \in {"acked", "dead"}
      BY <2>4 DEF Outcome, Verdicts
    <3>2. m \in Events => m \in completed
      <4>1. v \in {"ack", "reject"}
        BY <2>4 DEF Verdicts
      <4> QED
        BY <1>8, <4>1 DEF SettledWork, Framed
    <3>3. m \in Inbox /\ Inbox' = Inbox \ {m}
      BY <2>1, <2>2, <3>1 DEF Inbox, SlotInv, TypeOK
    <3>4. Abstract!Remove(m)
      BY <2>2, <3>2, <3>3 DEF Abstract!Remove, Inbox
    <3> QED
      BY <3>4 DEF Abstract!Next
  <2> QED
    BY <2>3, <2>4
<1> QED
  BY <1>3, <1>4, <1>5, <1>6, <1>7, <1>8 DEF Next, TaskStep

\* The consumer, with its connections, tasks, acks and drains, implements
\* at-least-once processing.
THEOREM Refinement == Spec => ImplementsAtLeastOnce
<1>1. Init => Abstract!Init
  BY DEF Init, Abstract!Init
<1> QED
  BY <1>1, RefinesStep, SafetyAlways, PTL
  DEF Spec, ImplementsAtLeastOnce, Abstract!Spec
=============================================================================
