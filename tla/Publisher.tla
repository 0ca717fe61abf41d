------------------------------ MODULE Publisher ------------------------------
(***************************************************************************)
(* fastapi_app/rmq/publisher.py: publish() calls that share a connection   *)
(* and a channel, opened on demand under an asyncio.Lock, and used after   *)
(* the lock is released.                                                   *)
(*                                                                         *)
(* One module object is modelled, with its own _connection, _channel and   *)
(* _lock.  Every await of a call is a step; between two awaits nothing     *)
(* else runs.  What waits at one await on one channel (or on the lock) is  *)
(* served in order of arrival: asyncio.Lock and the AMQP channel are FIFO. *)
(***************************************************************************)
EXTENDS Naturals

CONSTANTS Calls,     \* calls of publish()
          NoCall     \* the lock is free

ASSUME NoCallAssumption == NoCall \notin Calls

VARIABLES
  conn,       \* _connection: none, up, lost (reconnecting by itself), closed
  chan,       \* _channel: none, open, closed
  holder,     \* the call that holds _lock
  call,       \* where each call is suspended
  usable,     \* calls under way whose local `channel` is still open
  ticket,     \* when each call arrived
  arrivals,   \* how many calls have arrived
  accepted,   \* broker: calls whose message the exchange has taken
  links       \* history: connections this module has open at the broker

held == <<conn, chan, links>>
queueing == <<ticket, arrivals>>
pubVars == <<conn, chan, holder, call, usable, ticket, arrivals, accepted,
             links>>

CallStates == {"idle", "locking", "connecting", "opening", "declaring",
               "publishing", "returned", "raised"}
Ended == {"returned", "raised"}

PublisherInit ==
  /\ conn = "none" /\ chan = "none" /\ links = 0
  /\ holder = NoCall
  /\ call = [c \in Calls |-> "idle"] /\ usable = {}
  /\ ticket = [c \in Calls |-> 0] /\ arrivals = 0
  /\ accepted = {}

-----------------------------------------------------------------------------
\* First in line among the calls waiting for the same thing.
Before(d, c) ==
  /\ call[d] = call[c] /\ ticket[d] < ticket[c]
  /\ (d \in usable <=> c \in usable) /\ d \notin accepted
First(c) == ~ \E d \in Calls : Before(d, c)

MoveTo(c, state) == call' = [call EXCEPT ![c] = state]

\* publish() up to `async with _lock`.
Begin(c) ==
  /\ call[c] = "idle" /\ MoveTo(c, "locking")
  /\ ticket' = [ticket EXCEPT ![c] = arrivals] /\ arrivals' = arrivals + 1
  /\ UNCHANGED <<held, holder, usable, accepted>>

\* The return of _get_channel(): the lock is released and the caller goes on
\* with the channel it was given.
Obtain(c) ==
  /\ MoveTo(c, "declaring")
  /\ usable' = usable \cup {c} /\ holder' = NoCall

\* The second `if` of _get_channel().
NeedChannel(c) ==
  IF chan = "open" THEN Obtain(c)
  ELSE MoveTo(c, "opening") /\ holder' = c /\ UNCHANGED usable

\* Both `if`s of _get_channel(), decided without an await.
Enter(c) ==
  /\ IF conn \in {"none", "closed"}
     THEN MoveTo(c, "connecting") /\ holder' = c /\ UNCHANGED usable
     ELSE NeedChannel(c)
  /\ UNCHANGED <<held, queueing, accepted>>

\* Faults: a flag that is polled in place of the lock, and no lock at all.
AcquireBarging(c) == call[c] = "locking" /\ holder = NoCall /\ Enter(c)
AcquireUnlocked(c) == call[c] = "locking" /\ First(c) /\ Enter(c)

\* asyncio.Lock is handed to the first in line.
Acquire(c) ==
  call[c] = "locking" /\ holder = NoCall /\ First(c) /\ Enter(c)

\* connect_robust() returns.
Connected(c) ==
  /\ call[c] = "connecting"
  /\ conn' = "up" /\ links' = links + 1
  /\ NeedChannel(c)
  /\ UNCHANGED <<chan, queueing, accepted>>

\* _connection.channel() returns.
ChannelReady(c) ==
  /\ call[c] = "opening" /\ conn = "up"
  /\ chan' = "open" /\ Obtain(c)
  /\ UNCHANGED <<conn, links, queueing, accepted>>

\* Fault: acquire() and release() with no `finally`.
OpenFailsLocked(c) ==
  /\ call[c] \in {"connecting", "opening"}
  /\ MoveTo(c, "raised")
  /\ UNCHANGED <<held, holder, usable, queueing, accepted>>

\* Either of the two raises; the first attempt of connect_robust() to reach a
\* broker that is down does.
OpenFails(c) ==
  /\ call[c] \in {"connecting", "opening"}
  /\ MoveTo(c, "raised") /\ holder' = NoCall
  /\ UNCHANGED <<held, usable, queueing, accepted>>

Declared(c) ==
  /\ call[c] = "declaring" /\ c \in usable /\ First(c)
  /\ MoveTo(c, "publishing")
  /\ UNCHANGED <<held, holder, usable, queueing, accepted>>

BrokerAccepts(c) ==
  /\ call[c] = "publishing" /\ c \in usable \ accepted /\ First(c)
  /\ accepted' = accepted \cup {c}
  /\ UNCHANGED <<held, holder, call, usable, queueing>>

\* Fault: a channel without publisher confirms.
ConfirmedBlindly(c) ==
  /\ call[c] = "publishing" /\ c \in usable
  /\ MoveTo(c, "returned") /\ usable' = usable \ {c}
  /\ UNCHANGED <<held, holder, queueing, accepted>>

\* exchange.publish() returns on the broker's confirmation.
Confirmed(c) ==
  /\ call[c] = "publishing" /\ c \in usable \cap accepted
  /\ MoveTo(c, "returned") /\ usable' = usable \ {c}
  /\ UNCHANGED <<held, holder, queueing, accepted>>

\* The channel is gone under the call, with or without the message taken.
PublishFails(c) ==
  /\ call[c] \in {"declaring", "publishing"} /\ c \notin usable
  /\ MoveTo(c, "raised")
  /\ UNCHANGED <<held, holder, usable, queueing, accepted>>

-----------------------------------------------------------------------------
\* The broker and the network.
CloseChannel ==
  chan' = (IF chan = "open" THEN "closed" ELSE chan) /\ usable' = {}

LinkLost ==
  /\ conn = "up" /\ conn' = "lost"
  /\ CloseChannel
  /\ UNCHANGED <<links, holder, call, queueing, accepted>>

\* The robust connection comes back, and may bring its channel back.
LinkBack ==
  /\ conn = "lost" /\ conn' = "up"
  /\ chan' \in {chan, IF chan = "closed" THEN "open" ELSE chan}
  /\ UNCHANGED <<links, holder, call, usable, queueing, accepted>>

\* The broker closes the channel: the exchange exists with another type, say.
ChannelLost ==
  /\ chan = "open" /\ CloseChannel
  /\ UNCHANGED <<conn, links, holder, call, queueing, accepted>>

\* close() takes no lock.  It is for the end of the lifespan, when the server
\* has finished its requests; a publish() that came later would reconnect.
CloseFrom(states) ==
  /\ \A c \in Calls : call[c] \in Ended \cup {"idle"}
  /\ conn \in states
  /\ conn' = "closed" /\ links' = links - 1
  /\ CloseChannel
  /\ UNCHANGED <<holder, call, queueing, accepted>>

\* Fault: the second `if` does not ask is_closed.
CloseAgain == CloseFrom({"up", "lost", "closed"})

Close == CloseFrom({"up", "lost"})

-----------------------------------------------------------------------------
Proceed(c) ==
  \/ Acquire(c) \/ Connected(c) \/ ChannelReady(c) \/ OpenFails(c)
  \/ Declared(c) \/ BrokerAccepts(c) \/ Confirmed(c) \/ PublishFails(c)

Network == LinkLost \/ LinkBack \/ ChannelLost

PublisherTypeOK ==
  /\ conn \in {"none", "up", "lost", "closed"}
  /\ chan \in {"none", "open", "closed"}
  /\ holder \in Calls \cup {NoCall}
  /\ call \in [Calls -> CallStates]
  /\ usable \subseteq Calls /\ accepted \subseteq Calls
  /\ ticket \in [Calls -> Nat] /\ arrivals \in Nat /\ links \in Nat

\* The lock keeps its promise however calls, outages and close() interleave:
\* this module never has a second connection open, and the one it has open is
\* the one it can close.
OneConnection == links = IF conn \in {"up", "lost"} THEN 1 ELSE 0

Waiting == {{"locking", "connecting", "opening"}, {"declaring", "publishing"}}

\* Calls that need nothing but the scheduler, the broker or an outcome of
\* their own attempt to go on.
Ready(c) ==
  \/ call[c] = "locking" /\ holder = NoCall /\ First(c)
  \/ call[c] = "connecting"
  \/ call[c] = "opening" /\ conn = "up"
  \/ /\ call[c] \in {"declaring", "publishing"}
     /\ c \in usable \ accepted => First(c)

\* Calls wait for calls, for the lock and on the channel, but never all of
\* them: while the connection is not lost, one of those that want a channel
\* and one of those that use one can go on, whoever failed before them.
NobodyStuck ==
  conn # "lost" =>
    \A states \in Waiting :
      (\E c \in Calls : call[c] \in states)
        => \E c \in Calls : call[c] \in states /\ Ready(c)
=============================================================================
