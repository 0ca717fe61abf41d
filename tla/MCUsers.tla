------------------------------ MODULE MCUsers ------------------------------
(* What routers/users.py says of its events, to be compared with the model. *)
EXTENDS Users

\* A user that was stored is announced to downstream services once the
\* request that stored it is over (the comment before publish() in
\* create_user).
EveryUserAnnounced ==
  \A u \in store : call[u] \in Ended => u \in accepted
=============================================================================
