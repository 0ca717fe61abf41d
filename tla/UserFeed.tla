------------------------------ MODULE UserFeed ------------------------------
(***************************************************************************)
(* What a subscriber of user.created and user.deleted may conclude, with   *)
(* no requests, locks or channels in sight: a creation is announced at     *)
(* most once, only of a user that was stored, and never after the removal  *)
(* of that user; a removal is announced only of a user that is gone for    *)
(* good, but perhaps more than once.  Either may never be announced.       *)
(***************************************************************************)
CONSTANT Users

VARIABLES users,              \* the users there are
          past,               \* the users there are or were
          created, deleted    \* users announced as created, as deleted

feedVars == <<users, past, created, deleted>>

Init == users = {} /\ past = {} /\ created = {} /\ deleted = {}

Add(u) ==
  /\ u \notin past
  /\ users' = users \cup {u} /\ past' = past \cup {u}
  /\ UNCHANGED <<created, deleted>>

Remove(u) ==
  /\ u \in users
  /\ users' = users \ {u}
  /\ UNCHANGED <<past, created, deleted>>

AnnounceCreated(u) ==
  /\ u \in past \ (created \cup deleted)
  /\ created' = created \cup {u}
  /\ UNCHANGED <<users, past, deleted>>

AnnounceDeleted(u) ==
  /\ u \in past \ users
  /\ deleted' = deleted \cup {u}
  /\ UNCHANGED <<users, past, created>>

Next ==
  \E u \in Users :
    Add(u) \/ Remove(u) \/ AnnounceCreated(u) \/ AnnounceDeleted(u)

Spec == Init /\ [][Next]_feedVars
=============================================================================
