----------------------------- MODULE UsersProofs -----------------------------
(***************************************************************************)
(* Proofs about Users: one connection, true answers and the refinement to  *)
(* UserFeed, for any number of requests.                                   *)
(***************************************************************************)
EXTENDS Users, NatInduction

USE NoCallAssumption DEF CallStates, Ended

(* The order of the events comes from three first-in-first-out queues (the *)
(* lock, the declaration, the publication), so the invariant says where    *)
(* two calls in flight may be with respect to each other.                  *)
Live(c) == call[c] \in {"locking", "connecting", "opening"} \/ c \in usable

Locked ==
  \A c \in Calls : call[c] \in {"connecting", "opening"} <=> holder = c

Linked ==
  /\ chan = "open" => conn = "up"
  /\ usable # {} => chan = "open"
  /\ \A c \in Calls :
       /\ call[c] = "connecting" => conn \in {"none", "closed"}
       /\ call[c] = "opening" => conn \in {"up", "lost"}

Placed ==
  /\ \A c \in usable : call[c] \in {"declaring", "publishing"}
  /\ \A c \in accepted : call[c] \in {"publishing", "returned", "raised"}
  /\ \A c \in Calls : call[c] = "returned" => c \in accepted

Ticketed ==
  /\ \A c \in Calls : call[c] # "idle" => ticket[c] < arrivals
  /\ \A c, d \in Calls :
       call[c] # "idle" /\ call[d] # "idle" /\ c # d => ticket[c] # ticket[d]

InLine ==
  \A c, d \in Calls : Live(c) /\ Live(d) /\ ticket[c] < ticket[d] =>
    /\ call[d] # "locking" => call[c] \in {"declaring", "publishing"}
    /\ call[d] = "publishing" => call[c] = "publishing"

AcceptedInLine ==
  \A c \in Calls, d \in accepted :
    Live(c) /\ ticket[c] < ticket[d] => c \in accepted

PubInv ==
  /\ PublisherTypeOK /\ OneConnection
  /\ Locked /\ Linked /\ Placed /\ Ticketed /\ InLine /\ AcceptedInLine

Stored ==
  /\ store \subseteq Known
  /\ \A u \in Known : u \in store \/ \E d \in Deletes :
                                       target[d] = u /\ call[d] # "idle"
  /\ \A d \in Deletes : check[d] = "passed" => target[d] \in Known
  /\ \A d \in Deletes : call[d] # "idle" =>
       /\ check[d] = "passed" /\ target[d] \notin store
       /\ ticket[target[d]] < ticket[d]

IInv == TypeOK /\ PubInv /\ Stored

USE DEF PubInv, PublisherTypeOK, OneConnection, Locked, Linked, Placed,
        Ticketed, InLine, AcceptedInLine, Live

LEMMA InitPub == PublisherInit => PubInv
BY DEF PublisherInit

LEMMA BeginKeeps == ASSUME PubInv, NEW c \in Calls, Begin(c) PROVE PubInv'
BY DEF Begin, MoveTo, held

LEMMA ProceedKeeps == ASSUME PubInv, NEW c \in Calls, Proceed(c) PROVE PubInv'
<1>1. CASE Acquire(c)
  BY <1>1 DEF Acquire, Enter, NeedChannel, Obtain, MoveTo, First, Before, held,
             queueing
<1>2. CASE Connected(c)
  BY <1>2 DEF Connected, NeedChannel, Obtain, MoveTo, queueing
<1>3. CASE ChannelReady(c)
  BY <1>3 DEF ChannelReady, Obtain, MoveTo, queueing
<1>4. CASE OpenFails(c)
  BY <1>4 DEF OpenFails, MoveTo, held, queueing
<1>5. CASE Declared(c)
  BY <1>5 DEF Declared, MoveTo, First, Before, held, queueing
<1>6. CASE BrokerAccepts(c)
  BY <1>6 DEF BrokerAccepts, First, Before, held, queueing
<1>7. CASE Confirmed(c)
  BY <1>7 DEF Confirmed, MoveTo, held, queueing
<1>8. CASE PublishFails(c)
  BY <1>8 DEF PublishFails, MoveTo, held, queueing
<1> QED BY <1>1, <1>2, <1>3, <1>4, <1>5, <1>6, <1>7, <1>8 DEF Proceed

LEMMA NetworkKeeps == ASSUME PubInv, Network PROVE PubInv'
BY DEF Network, LinkLost, LinkBack, ChannelLost, CloseChannel, queueing

LEMMA CloseKeeps == ASSUME PubInv, Close PROVE PubInv'
BY DEF Close, CloseFrom, CloseChannel, queueing

LEMMA IdleKeeps == ASSUME PubInv, UNCHANGED pubVars PROVE PubInv'
BY DEF pubVars

HIDE DEF PubInv, OneConnection, Locked, Linked, Placed, InLine, AcceptedInLine,
         Live

-----------------------------------------------------------------------------
LEMMA PublishingKeeps == PubInv /\ Publishing => PubInv'
BY ProceedKeeps, NetworkKeeps, CloseKeeps DEF Publishing

\* Once begun, a call is never idle again and keeps its ticket.
LEMMA PublishingOrder ==
  ASSUME PubInv, Publishing
  PROVE  /\ ticket' = ticket
         /\ \A c \in Calls : call'[c] = "idle" <=> call[c] = "idle"
<1>1. ASSUME NEW c \in Calls, Proceed(c)
      PROVE  /\ ticket' = ticket
             /\ \A d \in Calls : call'[d] = "idle" <=> call[d] = "idle"
  BY <1>1 DEF PubInv, Proceed, Acquire, Enter, NeedChannel, Obtain, Connected,
       ChannelReady, OpenFails, Declared, BrokerAccepts, Confirmed,
       PublishFails, MoveTo, held, queueing
<1>2. Network \/ Close => ticket' = ticket /\ call' = call
  BY DEF Network, LinkLost, LinkBack, ChannelLost, Close, CloseFrom, queueing
<1> QED BY <1>1, <1>2 DEF Publishing

LEMMA InitHolds == Init => IInv
BY InitPub, RequestsAssumption
DEF Init, PublisherInit, IInv, TypeOK, Stored, Known

LEMMA NextKeeps == IInv /\ [Next]_vars => IInv'
<1> SUFFICES ASSUME IInv, [Next]_vars PROVE IInv'
  OBVIOUS
<1> USE RequestsAssumption DEF IInv, TypeOK, PubInv, Stored, Known, inputs
<1>1. ASSUME NEW u \in Users, Create(u) PROVE IInv'
  <2>1. PubInv'
    BY <1>1, BeginKeeps DEF Create
  <2>2. TypeOK' /\ Stored'
    BY <1>1, <2>1 DEF Create, Begin, MoveTo
  <2> QED BY <2>1, <2>2
<1>2. ASSUME NEW d \in Deletes, Authorise(d) PROVE IInv'
  <2>1. PubInv'
    BY <1>2, IdleKeeps DEF Authorise
  <2> QED BY <1>2, <2>1 DEF Authorise, pubVars
<1>3. ASSUME NEW d \in Deletes, Delete(d) PROVE IInv'
  <2>1. PubInv'
    BY <1>3, BeginKeeps DEF Delete
  <2>2. TypeOK' /\ Stored'
    BY <1>3, <2>1 DEF Delete, Begin, MoveTo
  <2> QED BY <2>1, <2>2
<1>4. CASE Publishing
  BY <1>4, PublishingKeeps, PublishingOrder DEF Publishing
<1>5. CASE UNCHANGED vars
  BY <1>5, IdleKeeps DEF vars, pubVars
<1> QED BY <1>1, <1>2, <1>3, <1>4, <1>5 DEF Next, Request

THEOREM Invariance == Spec => []IInv
BY InitHolds, NextKeeps, PTL DEF Spec

-----------------------------------------------------------------------------
\* Every variable of the publisher and the router keeps its type.
THEOREM UsersTypeCorrect == Spec => []TypeOK
BY Invariance, PTL DEF IInv

\* The module opens one connection at a time, however many requests, outages
\* and failed attempts there are (_get_channel's lock).
THEOREM OneConnectionAlways == Spec => []OneConnection
<1>1. IInv => OneConnection
  BY DEF IInv, PubInv
<1> QED BY <1>1, Invariance, PTL

\* Of some calls that wait, one arrived first.
LEMMA EarliestExists ==
  ASSUME PubInv, NEW S \in SUBSET Calls, S # {}
  PROVE  \E c \in S : \A d \in S : ~ (ticket[d] < ticket[c])
<1> DEFINE T == {ticket[c] : c \in S}
<1>1. T \in SUBSET Nat /\ T # {}
  BY DEF PubInv
<1> HIDE DEF T
<1>2. PICK least \in T : \A t \in T : least <= t
  BY <1>1, LeastElement
<1>3. PICK c \in S : ticket[c] = least
  BY DEF T
<1>4. ASSUME NEW d \in S PROVE ~ (ticket[d] < ticket[c])
  <2>1. ticket[d] \in T /\ ticket[d] \in Nat /\ ticket[c] \in Nat
    BY DEF T, PubInv
  <2> QED
    BY <1>2, <1>3, <2>1
<1> QED
  BY <1>4

\* No two publish() calls, and no ring of them, wait for each other.
THEOREM NobodyEverStuck == Spec => []NobodyStuck
<1>1. IInv => NobodyStuck
  <2> SUFFICES ASSUME PubInv, conn # "lost", NEW states \in Waiting,
                      \E c \in Calls : call[c] \in states
               PROVE  \E c \in Calls : call[c] \in states /\ Ready(c)
    BY DEF IInv, NobodyStuck
  <2> DEFINE S == {c \in Calls : call[c] \in states}
  <2>0. S \in SUBSET Calls /\ S # {}
    OBVIOUS
  <2> HIDE DEF S
  <2>1. PICK c \in S : \A d \in S : ~ (ticket[d] < ticket[c])
    BY <2>0, EarliestExists
  <2> USE DEF S
  <2>2. (call[c] = "locking" \/ call[c] \in {"declaring", "publishing"})
          => First(c)
    BY <2>1 DEF First, Before
  <2>3. CASE states = {"locking", "connecting", "opening"}
    <3>1. CASE holder = NoCall
      BY <2>1, <2>2, <2>3, <3>1 DEF PubInv, Locked, Ready
    <3>2. CASE holder # NoCall
      BY <2>3, <3>2 DEF PubInv, Locked, Linked, Ready
    <3> QED
      BY <3>1, <3>2
  <2>4. CASE states = {"declaring", "publishing"}
    BY <2>1, <2>2, <2>4 DEF Ready
  <2> QED
    BY <2>3, <2>4 DEF Waiting
<1> QED
  BY <1>1, Invariance, PTL

\* What create_user and delete_user answer is true and stays true.
THEOREM AnswersAlwaysTruthful == Spec => []AnswersTruthful
<1>1. IInv => AnswersTruthful
  BY RequestsAssumption DEF IInv, PubInv, Placed, Stored, Known,
       AnswersTruthful
<1> QED BY <1>1, Invariance, PTL

-----------------------------------------------------------------------------
\* An event the exchange takes is one the feed may announce.
LEMMA AcceptAnnounces ==
  ASSUME IInv, NEW c \in Calls, BrokerAccepts(c),
         UNCHANGED <<store, inputs, check>>
  PROVE  [Feed!Next]_Feed!feedVars
<1> USE RequestsAssumption DEF IInv, TypeOK, PubInv, Stored, Known, inputs,
        BrokerAccepts, Placed, AcceptedInLine, Live, Feed!Next, Feed!feedVars
<1>1. CASE c \in Users
  <2>1. \A d \in Deletes \cap accepted : target[d] # c
    BY <1>1
  <2> QED BY <1>1, <2>1 DEF Feed!AnnounceCreated
<1>2. CASE c \in Deletes
  BY <1>2 DEF Feed!AnnounceDeleted
<1> QED BY <1>1, <1>2

LEMMA StepRefines == IInv /\ [Next]_vars => [Feed!Next]_Feed!feedVars
<1> SUFFICES ASSUME IInv, [Next]_vars PROVE [Feed!Next]_Feed!feedVars
  OBVIOUS
<1> USE RequestsAssumption
        DEF IInv, TypeOK, PubInv, Stored, Known, inputs, Feed!feedVars
<1>1. ASSUME NEW u \in Users, Create(u) PROVE Feed!Add(u)
  BY <1>1 DEF Create, Begin, MoveTo, Feed!Add
<1>2. ASSUME NEW d \in Deletes, Authorise(d) PROVE UNCHANGED Feed!feedVars
  BY <1>2 DEF Authorise, pubVars
<1>3. ASSUME NEW d \in Deletes, Delete(d)
      PROVE  Feed!Remove(target[d]) \/ UNCHANGED Feed!feedVars
  BY <1>3 DEF Delete, Begin, MoveTo, Feed!Remove
<1>4. CASE Publishing
  <2>1. accepted' = accepted => UNCHANGED Feed!feedVars
    BY <1>4, PublishingOrder DEF Publishing
  <2>2. accepted' = accepted \/ \E c \in Calls : BrokerAccepts(c)
    BY <1>4 DEF Publishing, Proceed, Acquire, Enter, Connected, ChannelReady,
         OpenFails, Declared, Confirmed, PublishFails, Network, LinkLost,
         LinkBack, ChannelLost, Close, CloseFrom
  <2> QED BY <1>4, <2>1, <2>2, AcceptAnnounces DEF Publishing
<1>5. CASE UNCHANGED vars
  BY <1>5 DEF vars, pubVars
<1> QED BY <1>1, <1>2, <1>3, <1>4, <1>5 DEF Next, Request, Feed!Next

\* The router's events are a UserFeed: no creation twice, before the user is
\* stored or after its removal, and no removal of a user who is still there.
THEOREM UsersRefinement == Spec => ImplementsUserFeed
<1>1. Init => Feed!Init
  BY RequestsAssumption DEF Init, PublisherInit, Known, Feed!Init
<1> QED
  BY <1>1, StepRefines, Invariance, PTL
  DEF Spec, ImplementsUserFeed, Feed!Spec
=============================================================================
