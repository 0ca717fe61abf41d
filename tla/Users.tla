-------------------------------- MODULE Users --------------------------------
(***************************************************************************)
(* The users router (routers/users.py) and its store, over the publisher:  *)
(* concurrent create and delete requests that change fake_users_db and     *)
(* then await publish().                                                   *)
(*                                                                         *)
(* A create request is identified with the user it creates: uuid4 never    *)
(* repeats.  The GET handlers read the store and change nothing.           *)
(* Close is kept in Next although the deployed lifespan closes another     *)
(* copy of the publisher: what holds with it holds without it.             *)
(***************************************************************************)
EXTENDS Publisher

CONSTANTS Users, Deletes    \* POST /users requests, DELETE /users/{id} requests

ASSUME RequestsAssumption ==
  Calls = Users \cup Deletes /\ Users \cap Deletes = {}

VARIABLES
  store,     \* the keys of fake_users_db
  role,      \* the role in the body of each POST
  target,    \* the user id in the path of each DELETE
  check      \* what the dependency require_admin made of each DELETE

inputs == <<role, target>>
vars == <<pubVars, store, role, target, check>>

Init ==
  /\ PublisherInit
  /\ store = {}
  /\ role \in [Users -> {"admin", "viewer"}]
  /\ target \in [Deletes -> Users]
  /\ check = [d \in Deletes |-> "none"]

Known == {u \in Users : call[u] # "idle"}     \* the users ever stored

-----------------------------------------------------------------------------
\* create_user: store the user, then publish.
Create(u) ==
  /\ Begin(u)
  /\ store' = store \cup {u}
  /\ UNCHANGED <<inputs, check>>

\* get_current_user and require_admin run in worker threads, before the
\* endpoint: 404 for no such user, 403 for one that is not an admin.
Authorise(d) ==
  /\ check[d] = "none"
  /\ check' = [check EXCEPT ![d] =
       IF target[d] \in store /\ role[target[d]] = "admin"
       THEN "passed" ELSE "refused"]
  /\ UNCHANGED <<pubVars, store, inputs>>

\* Fault: publish first, remove afterwards.
DeleteLate(d) ==
  \/ check[d] = "passed" /\ Begin(d) /\ UNCHANGED <<store, inputs, check>>
  \/ /\ call[d] = "returned" /\ target[d] \in store
     /\ store' = store \ {target[d]}
     /\ UNCHANGED <<pubVars, inputs, check>>

\* delete_user: pop(user_id, None), which another DELETE may have done since
\* the check, then publish.
Delete(d) ==
  /\ check[d] = "passed"
  /\ Begin(d)
  /\ store' = store \ {target[d]}
  /\ UNCHANGED <<inputs, check>>

-----------------------------------------------------------------------------
Request ==
  \/ \E u \in Users : Create(u)
  \/ \E d \in Deletes : Authorise(d) \/ Delete(d)

Publishing ==
  /\ (\E c \in Calls : Proceed(c)) \/ Network \/ Close
  /\ UNCHANGED <<store, inputs, check>>

Next == Request \/ Publishing

Spec == Init /\ [][Next]_vars

\* asyncio resumes the calls whose await is over, the broker answers on an
\* open channel, and connecting ends one way or the other.  Nothing brings a
\* lost connection back, and nobody has to send a request.
FairSpec == Spec /\ \A c \in Calls : WF_vars(Publishing /\ Proceed(c))

-----------------------------------------------------------------------------
TypeOK ==
  /\ PublisherTypeOK
  /\ store \subseteq Users
  /\ role \in [Users -> {"admin", "viewer"}]
  /\ target \in [Deletes -> Users]
  /\ check \in [Deletes -> {"none", "passed", "refused"}]

\* An answer is true when it is given and stays true: after a 201 the event
\* is in the exchange and the user is in the store until a DELETE takes it
\* out; after a successful DELETE its event is in the exchange and the user
\* is out of the store, whatever other requests do meanwhile.
AnswersTruthful ==
  /\ \A u \in Users : call[u] = "returned" =>
       /\ u \in accepted
       /\ u \in store \/ \E d \in Deletes : target[d] = u /\ call[d] # "idle"
  /\ \A d \in Deletes : call[d] = "returned" =>
       d \in accepted /\ target[d] \notin store

\* The events in the exchange are a UserFeed: never about a user that was not
\* stored, never a creation twice or after the removal, never the removal of
\* a user who is still there.
Feed == INSTANCE UserFeed WITH
  users <- store,
  past <- Known,
  created <- accepted \cap Users,
  deleted <- {target[d] : d \in accepted \cap Deletes}
ImplementsUserFeed == Feed!Spec

\* No request waits for ever, unless the connection stays lost: whichever
\* call fails under the lock, the next one in line gets it.
RequestsEnd ==
  <>[](conn # "lost") =>
    \A c \in Calls : (call[c] # "idle") ~> (call[c] \in Ended)
=============================================================================
