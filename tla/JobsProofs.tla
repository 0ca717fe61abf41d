----------------------------- MODULE JobsProofs -----------------------------
(***************************************************************************)
(* Proofs about Jobs, for every set of jobs and of sockets: the record of  *)
(* a job is consistent whatever its list of connections is, with the two   *)
(* copies of core.store of this repository a terminal status is final and  *)
(* nobody is pushed anything, and the store implements JobBoard.           *)
(***************************************************************************)
EXTENDS Jobs, TLAPS

\* The status that goes with each stage of the background task.
StageStatus ==
  \A j \in Jobs :
    /\ stage[j] = "none" => status[j] = "absent"
    /\ stage[j] = "queued" => status[j] = "pending"
    /\ stage[j] \in {"marked", "working"} => status[j] = "running"
    /\ stage[j] = "working" => started[j]
    /\ stage[j] = "casting" => status[j] = "done"

RecordInv == RecordTypeOK /\ RecordConsistent /\ StageStatus

LEMMA RecordInit == Init => RecordInv
  BY DEF Init, RecordInv, RecordTypeOK, RecordConsistent, StageStatus,
         Terminal

\* Steps of clients and pushes do not touch the records.
LEMMA RecordUntouched ==
  ASSUME RecordInv, UNCHANGED <<record, mode, stage>>
  PROVE  RecordInv'
  BY DEF RecordInv, RecordTypeOK, RecordConsistent, StageStatus, record

LEMMA RecordStep == RecordInv /\ [Next]_vars => RecordInv'
<1> SUFFICES ASSUME RecordInv, [Next]_vars PROVE RecordInv'
  OBVIOUS
<1>1. CASE (\E s \in Sockets : Client(s)) \/ UNCHANGED vars
  <2>1. UNCHANGED <<record, mode, stage>>
    BY <1>1 DEF Client, Accept, ClientLeaves, EndpointEnds, EndpointFails,
                vars, record
  <2> QED
    BY <2>1, RecordUntouched
<1>2. ASSUME NEW j \in Jobs, Submit(j) PROVE RecordInv'
  <2>1. RecordTypeOK'
    BY <1>2 DEF Submit, At, RecordInv, RecordTypeOK, Terminal
  <2>2. RecordConsistent'
    BY <1>2 DEF Submit, At, RecordInv, RecordTypeOK, RecordConsistent,
                StageStatus, Terminal
  <2>3. StageStatus'
    BY <1>2 DEF Submit, At, RecordInv, RecordTypeOK, StageStatus, Terminal
  <2> QED
    BY <2>1, <2>2, <2>3 DEF RecordInv
<1>3. ASSUME NEW j \in Jobs, StartAsync(j) PROVE RecordInv'
  <2>1. RecordTypeOK'
    BY <1>3 DEF StartAsync, At, RecordInv, RecordTypeOK, Terminal
  <2>2. RecordConsistent'
    BY <1>3 DEF StartAsync, At, RecordInv, RecordTypeOK, RecordConsistent,
                StageStatus, Terminal
  <2>3. StageStatus'
    BY <1>3 DEF StartAsync, At, RecordInv, RecordTypeOK, StageStatus, Terminal
  <2> QED
    BY <2>1, <2>2, <2>3 DEF RecordInv
<1>4. ASSUME NEW j \in Jobs, StartSync(j) \/ StampSync(j)
      PROVE  RecordInv'
  <2>1. RecordTypeOK'
    BY <1>4 DEF StartSync, StampSync, At, RecordInv, RecordTypeOK, Terminal
  <2>2. RecordConsistent'
    BY <1>4 DEF StartSync, StampSync, At, RecordInv, RecordTypeOK,
                RecordConsistent,
                StageStatus, Terminal
  <2>3. StageStatus'
    BY <1>4 DEF StartSync, StampSync, At, RecordInv, RecordTypeOK,
                StageStatus, Terminal
  <2> QED
    BY <2>1, <2>2, <2>3 DEF RecordInv
<1>5. ASSUME NEW j \in Jobs, WorkDone(j) \/ WorkFails(j) PROVE RecordInv'
  <2>1. RecordTypeOK'
    BY <1>5 DEF WorkDone, WorkFails, At, Record, RecordInv, RecordTypeOK,
                Terminal
  <2>2. RecordConsistent'
    BY <1>5 DEF WorkDone, WorkFails, At, Record, RecordInv, RecordTypeOK,
                RecordConsistent,
                StageStatus, Terminal
  <2>3. StageStatus'
    BY <1>5 DEF WorkDone, WorkFails, At, Record, RecordInv, RecordTypeOK,
                StageStatus, Terminal
  <2> QED
    BY <2>1, <2>2, <2>3 DEF RecordInv
<1>6. ASSUME NEW j \in Jobs, Push(j) PROVE RecordInv'
  BY <1>6, RecordUntouched DEF Push
<1>7. ASSUME NEW j \in Jobs, EndCast(j) PROVE RecordInv'
  <2>1. RecordTypeOK'
    BY <1>7 DEF EndCast, At, Record, record, RecordInv, RecordTypeOK, Terminal
  <2>2. RecordConsistent'
    BY <1>7 DEF EndCast, At, Record, record, RecordInv, RecordTypeOK,
                RecordConsistent,
                StageStatus, Terminal
  <2>3. StageStatus'
    BY <1>7 DEF EndCast, At, Record, record, RecordInv, RecordTypeOK,
                StageStatus, Terminal
  <2> QED
    BY <2>1, <2>2, <2>3 DEF RecordInv
<1> QED
  BY <1>1, <1>2, <1>3, <1>4, <1>5, <1>6, <1>7 DEF Next, Run, Cast

LEMMA RecordAlways == Spec => []RecordInv
  BY RecordInit, RecordStep, PTL DEF Spec

\* A poll never sees a record that contradicts itself.
THEOREM RecordAlwaysConsistent == Spec => []RecordConsistent
<1>1. RecordInv => RecordConsistent
  BY DEF RecordInv
<1> QED
  BY <1>1, RecordAlways, PTL

-----------------------------------------------------------------------------
\* With a list of its own, broadcast_ws never has anything to clean up.
NothingDead ==
  ~ sameModule => pos \in [Jobs -> Nat] /\ dead = [j \in Jobs |-> <<>>]

LEMMA NothingDeadStep == NothingDead /\ [Next]_vars => NothingDead'
<1> SUFFICES ASSUME NothingDead, [Next]_vars, ~ sameModule'
             PROVE  NothingDead'
  BY DEF NothingDead
<1>1. UNCHANGED sameModule
  BY DEF Next, Client, Accept, ClientLeaves, EndpointEnds, EndpointFails,
     Submit, Run, StartAsync, StartSync, StampSync, WorkDone, WorkFails, Cast,
     Push, EndCast, vars, sockets
<1>2. \A j \in Jobs : ~ Push(j)
  <2>1. Len(Listeners) = 0
    BY <1>1 DEF Listeners
  <2> QED
    BY <1>1, <2>1 DEF Push, NothingDead
<1> QED
  BY <1>1, <1>2 DEF Next, Client, Accept, ClientLeaves, EndpointEnds,
     EndpointFails, Submit, Run, StartAsync, StartSync, StampSync, WorkDone,
     WorkFails, Cast, EndCast, vars, cast, NothingDead

\* The finding PushedOnCompletion in its strongest form: as deployed, with
\* whatever jobs and clients, nobody is ever pushed anything.
THEOREM NobodyIsPushed ==
  Spec => [](~ sameModule => \A j \in Jobs : pushed[j] = {})
<1> DEFINE Silent == ~ sameModule => pushed = [j \in Jobs |-> {}]
<1>1. Init => NothingDead /\ Silent
  BY DEF Init, NothingDead
<1>2. NothingDead /\ Silent /\ [Next]_vars => Silent'
  <2> SUFFICES ASSUME NothingDead, Silent, [Next]_vars PROVE Silent'
    OBVIOUS
  <2>1. ~ sameModule => \A j \in Jobs : ~ Push(j)
    <3>1. Len(<<>>) = 0
      OBVIOUS
    <3> QED
      BY <3>1 DEF Listeners, Push, NothingDead
  <2>2. UNCHANGED sameModule /\ (UNCHANGED pushed \/ \E j \in Jobs : Push(j))
    BY DEF Next, Client, Accept, ClientLeaves, EndpointEnds, EndpointFails,
       Submit, Run, StartAsync, StartSync, StampSync, WorkDone, WorkFails,
       Cast, Push, EndCast, vars, sockets, cast
  <2> QED
    BY <2>1, <2>2
<1>3. Silent => (~ sameModule => \A j \in Jobs : pushed[j] = {})
  OBVIOUS
<1> HIDE DEF Silent
<1> QED
  BY <1>1, <1>2, <1>3, NothingDeadStep, PTL DEF Spec

\* As deployed, a done job stays done and a failed job stays failed.
THEOREM TerminalIsFinal == Spec => TerminalStable
<1>1. Init => NothingDead
  BY DEF Init, NothingDead
<1>3. NothingDead /\ RecordInv /\ [Next]_vars
        => [\A j \in Jobs : ~ sameModule /\ status[j] \in Terminal
              => status'[j] = status[j]]_vars
  <2> SUFFICES ASSUME NothingDead, RecordInv, Next, ~ sameModule,
                      NEW j \in Jobs, status[j] \in Terminal
               PROVE  status'[j] = status[j]
    BY DEF vars
  <2> USE DEF RecordInv, RecordTypeOK, StageStatus, Terminal
  <2>1. CASE \E s \in Sockets : Client(s)
    BY <2>1 DEF Client, Accept, ClientLeaves, EndpointEnds, EndpointFails,
                record
  <2>2. ASSUME NEW k \in Jobs, Submit(k) \/ Run(k)
        PROVE  status'[j] = status[j]
    BY <2>2 DEF Submit, Run, StartAsync, StartSync, StampSync, WorkDone,
                WorkFails, At, Record
  <2>3. ASSUME NEW k \in Jobs, Cast(k)
        PROVE  status'[j] = status[j]
    <3>1. Elements(dead[k]) = {} /\ Removable(k) = {}
      BY DEF NothingDead, Elements, Removable
    <3> QED
      BY <2>3, <3>1 DEF Cast, Push, EndCast, record
  <2> QED
    BY <2>1, <2>2, <2>3 DEF Next
<1> QED
  BY <1>1, NothingDeadStep, <1>3, RecordAlways, PTL DEF Spec, TerminalStable

-----------------------------------------------------------------------------
\* The refinement of JobBoard.  EndCast revokes a verdict only where a
\* broadcast can have found a dead socket, that is with one shared list.
LEMMA BoardInit == Init => Board!Init
  BY DEF Init, Board!Init, Board!Entry

\* A step that leaves the record of every job but j alone moves at most the
\* entry of j on the board.
LEMMA BoardMove ==
  ASSUME NEW j \in Jobs, RecordTypeOK, UNCHANGED sameModule,
         NEW st, NEW re, NEW fi,
         status' = [status EXCEPT ![j] = st],
         result' = [result EXCEPT ![j] = re],
         finished' = [finished EXCEPT ![j] = fi]
  PROVE  Board!Moves(j, Board!Entry(status[j], result[j], finished[j]),
                     Board!Entry(st, re, fi))
  BY DEF RecordTypeOK, Board!Moves, Board!Entry

\* Every step is one step of one entry of the board, or none.
LEMMA BoardStep ==
  RecordInv /\ NothingDead /\ [Next]_vars
    => [Board!Next]_<<sameModule,
          [j \in Jobs |-> [status |-> status[j], result |-> result[j],
                           finished |-> finished[j]]]>>
<1> SUFFICES ASSUME RecordInv, NothingDead, [Next]_vars
             PROVE  \/ Board!Next
                    \/ UNCHANGED <<sameModule, status, result, finished>>
  OBVIOUS
<1> USE DEF RecordInv
<1>1. UNCHANGED sameModule
  BY DEF Next, Client, Accept, ClientLeaves, EndpointEnds, EndpointFails,
     Submit, Run, StartAsync, StartSync, StampSync, WorkDone, WorkFails, Cast,
     Push, EndCast, vars, sockets
<1>2. CASE (\E s \in Sockets : Client(s)) \/ UNCHANGED vars
  BY <1>2 DEF Client, Accept, ClientLeaves, EndpointEnds, EndpointFails, vars,
              record, sockets
<1>3. ASSUME NEW j \in Jobs, Submit(j) PROVE Board!Next
  <2>1. Board!Submit(j)
    <3>1. status[j] = "absent" /\ result[j] = "none" /\ ~ finished[j]
      BY <1>3 DEF Submit, At, RecordTypeOK, RecordConsistent, StageStatus,
                  Terminal
    <3>2. /\ status' = [status EXCEPT ![j] = "pending"]
          /\ result' = [result EXCEPT ![j] = "none"]
          /\ finished' = [finished EXCEPT ![j] = FALSE]
      BY <1>3, <3>1 DEF Submit, RecordTypeOK
    <3> QED
      BY <1>1, <3>1, <3>2, BoardMove DEF Board!Submit, RecordTypeOK
  <2> QED
    BY <1>1, <2>1 DEF Board!Next
<1>4. ASSUME NEW j \in Jobs, StartAsync(j) \/ StartSync(j) PROVE Board!Next
  <2>1. Board!Start(j)
    <3>1. status[j] = "pending" /\ result[j] = "none" /\ ~ finished[j]
      BY <1>4 DEF StartAsync, StartSync, At, RecordTypeOK, RecordConsistent,
                  StageStatus, Terminal
    <3>2. /\ status' = [status EXCEPT ![j] = "running"]
          /\ result' = [result EXCEPT ![j] = "none"]
          /\ finished' = [finished EXCEPT ![j] = FALSE]
      BY <1>4, <3>1 DEF StartAsync, StartSync, RecordTypeOK
    <3> QED
      BY <1>1, <3>1, <3>2, BoardMove DEF Board!Start, RecordTypeOK
  <2> QED
    BY <1>1, <2>1 DEF Board!Next
<1>5. ASSUME NEW j \in Jobs, StampSync(j)
      PROVE  UNCHANGED <<sameModule, status, result, finished>>
  BY <1>5 DEF StampSync, sockets
<1>6. ASSUME NEW j \in Jobs, WorkDone(j) \/ WorkFails(j) PROVE Board!Next
  <2>1. Board!Finish(j)
    <3>1. status[j] = "running" /\ result[j] = "none" /\ ~ finished[j]
      BY <1>6 DEF WorkDone, WorkFails, At, RecordTypeOK, RecordConsistent,
                  StageStatus, Terminal
    <3>2. CASE WorkDone(j)
      <4>1. /\ status' = [status EXCEPT ![j] = "done"]
            /\ result' = [result EXCEPT ![j] = "value"]
            /\ finished' = [finished EXCEPT ![j] = TRUE]
        BY <3>2 DEF WorkDone, Record
      <4>2. Board!Moves(j, Board!Entry("running", "none", FALSE),
                        Board!Entry("done", "value", TRUE))
        BY <1>1, <3>1, <4>1, BoardMove DEF RecordTypeOK
      <4> QED
        BY <4>2 DEF Board!Finish, Board!Verdicts
    <3>3. CASE WorkFails(j)
      <4>1. /\ status' = [status EXCEPT ![j] = "failed"]
            /\ result' = [result EXCEPT ![j] = "error"]
            /\ finished' = [finished EXCEPT ![j] = TRUE]
        BY <3>3 DEF WorkFails, Record
      <4>2. Board!Moves(j, Board!Entry("running", "none", FALSE),
                        Board!Entry("failed", "error", TRUE))
        BY <1>1, <3>1, <4>1, BoardMove DEF RecordTypeOK
      <4> QED
        BY <4>2 DEF Board!Finish, Board!Verdicts
    <3> QED
      BY <1>6, <3>2, <3>3
  <2> QED
    BY <1>1, <2>1 DEF Board!Next
<1>7. ASSUME NEW j \in Jobs, Push(j)
      PROVE  UNCHANGED <<sameModule, status, result, finished>>
  BY <1>7 DEF Push, record, sockets
<1>8. ASSUME NEW j \in Jobs, EndCast(j), ~ UNCHANGED record
      PROVE  Board!Next
  <2>1. sameModule
    <3>1. SUFFICES ASSUME ~ sameModule PROVE Removable(j) = Elements(dead[j])
      BY <1>8 DEF EndCast
    <3>2. dead[j] = <<>>
      BY <3>1 DEF NothingDead
    <3>3. Elements(dead[j]) = {}
      BY <3>2 DEF Elements
    <3> QED
      BY <3>3 DEF Removable
  <2>2. status[j] = "done" /\ result[j] = "value" /\ finished[j]
    BY <1>8 DEF EndCast, At, RecordTypeOK, RecordConsistent, StageStatus,
                Terminal
  <2>3. /\ status' = [status EXCEPT ![j] = "failed"]
        /\ result' = [result EXCEPT ![j] = "error"]
        /\ finished' = [finished EXCEPT ![j] = TRUE]
    BY <1>8 DEF EndCast, Record
  <2>4. Board!Revoke(j)
    BY <1>1, <2>1, <2>2, <2>3, BoardMove DEF Board!Revoke, RecordTypeOK
  <2> QED
    BY <1>1, <2>4 DEF Board!Next
<1> QED
  BY <1>1, <1>2, <1>3, <1>4, <1>5, <1>6, <1>7, <1>8
     DEF Next, Run, Cast, record

\* A client that polls sees a board of jobs: forward only, the verdict in one
\* piece, and as deployed never revoked.
THEOREM JobsImplementBoard == Spec => ImplementsJobBoard
<1>1. Init => NothingDead
  BY DEF Init, NothingDead
<1> QED
  BY <1>1, BoardInit, BoardStep, NothingDeadStep, RecordAlways, PTL
     DEF Spec, ImplementsJobBoard, Board!Spec
=============================================================================
