------------------------------ MODULE JobBoard ------------------------------
(***************************************************************************)
(* What a client that polls GET /jobs/{id} is promised, whatever runs its  *)
(* job and whoever else is connected: the entry of a job moves forward     *)
(* only, from pending to running to one verdict, and the verdict, the      *)
(* result and the end of the job appear together.  Where shared, a verdict *)
(* "done" may still be revoked, once.                                      *)
(***************************************************************************)
CONSTANT Jobs
VARIABLES shared, board

Entry(status, result, finished) ==
  [status |-> status, result |-> result, finished |-> finished]

Verdicts == {Entry("done", "value", TRUE), Entry("failed", "error", TRUE)}

Moves(j, from, to) == board[j] = from /\ board' = [board EXCEPT ![j] = to]

Init ==
  /\ shared \in BOOLEAN
  /\ board = [j \in Jobs |-> Entry("absent", "none", FALSE)]

Submit(j) ==
  Moves(j, Entry("absent", "none", FALSE), Entry("pending", "none", FALSE))

Start(j) ==
  Moves(j, Entry("pending", "none", FALSE), Entry("running", "none", FALSE))

Finish(j) ==
  \E verdict \in Verdicts :
    Moves(j, Entry("running", "none", FALSE), verdict)

Revoke(j) ==
  /\ shared
  /\ Moves(j, Entry("done", "value", TRUE), Entry("failed", "error", TRUE))

Next ==
  /\ \E j \in Jobs : Submit(j) \/ Start(j) \/ Finish(j) \/ Revoke(j)
  /\ UNCHANGED shared

Spec == Init /\ [][Next]_<<shared, board>>
=============================================================================
