-------------------------------- MODULE Jobs --------------------------------
(***************************************************************************)
(* Background jobs and WebSocket clients: routers/jobs.py, core/jobs.py,   *)
(* core/store.py and websocket_endpoint() of main.py.                      *)
(*                                                                         *)
(* An async job is a coroutine of the event loop, a sync job runs in a     *)
(* thread; both write the record of the job in job_status_store that the   *)
(* GET handlers read.  broadcast_ws() walks active_connections by index    *)
(* with an await per element, while clients come and go and other          *)
(* broadcasts clean up.                                                    *)
(*                                                                         *)
(* sameModule: do `core.store`, imported by core/jobs.py, and              *)
(* `fastapi_app.core.store`, imported by main.py, name one module object?  *)
(* Python loads a file once per module name, so in this repository they    *)
(* are two, with a list of connections each; with one, as the imports are  *)
(* meant, broadcasts and endpoints meet on one list.  It never changes.    *)
(***************************************************************************)
EXTENDS Naturals, Sequences

CONSTANTS Jobs, Sockets

VARIABLES
  sameModule,          \* see above
  status, result,      \* the record of each job
  started, finished,   \* ... started_at and finished_at are not None
  mode,                \* async or sync, as submitted
  stage,               \* where the background task of the job is
  conns,               \* active_connections of fastapi_app.core.store
  ws,                  \* each WebSocket, from the server's side
  pos, dead,           \* broadcast_ws: list index and local list `dead`
  pushed               \* history: who was sent the completion of each job

record == <<status, result, started, finished>>
sockets == <<sameModule, conns, ws>>
cast == <<pos, dead, pushed>>
vars == <<record, mode, stage, sockets, cast>>

Terminal == {"done", "failed"}

Init ==
  /\ status = [j \in Jobs |-> "absent"] /\ result = [j \in Jobs |-> "none"]
  /\ started = [j \in Jobs |-> FALSE] /\ finished = [j \in Jobs |-> FALSE]
  /\ mode \in [Jobs -> {"async", "sync"}]
  /\ stage = [j \in Jobs |-> "none"]
  /\ sameModule \in BOOLEAN
  /\ conns = <<>> /\ ws = [s \in Sockets |-> "new"]
  /\ pos = [j \in Jobs |-> 0] /\ dead = [j \in Jobs |-> <<>>]
  /\ pushed = [j \in Jobs |-> {}]

At(j, from, to) == stage[j] = from /\ stage' = [stage EXCEPT ![j] = to]

-----------------------------------------------------------------------------
\* WebSocket clients.
Elements(list) == {list[i] : i \in DOMAIN list}

\* The list without what is in gone, the rest in its order.  (SelectSeq, as a
\* recursive function that proofs can unfold.)
Without(list, gone) ==
  LET rest[n \in 0..Len(list)] ==
        IF n = 0 THEN <<>>
        ELSE IF list[n] \in gone THEN rest[n - 1]
        ELSE Append(rest[n - 1], list[n])
  IN rest[Len(list)]

Accept(s) ==
  /\ ws[s] = "new"
  /\ ws' = [ws EXCEPT ![s] = "open"]
  /\ conns' = Append(conns, s)
  /\ UNCHANGED <<sameModule, record, mode, stage, cast>>

ClientLeaves(s) ==
  /\ ws[s] = "open"
  /\ ws' = [ws EXCEPT ![s] = "gone"]
  /\ UNCHANGED <<sameModule, conns, record, mode, stage, cast>>

\* Fault: the endpoint relies on broadcast_ws to clean up.
EndpointEndsOnly(s) ==
  /\ ws[s] = "gone"
  /\ ws' = [ws EXCEPT ![s] = "closed"]
  /\ UNCHANGED <<sameModule, conns, record, mode, stage, cast>>

\* receive_text raises WebSocketDisconnect; remove() raises ValueError out of
\* the endpoint when a broadcast has removed the socket before.
EndpointEnds(s) ==
  /\ ws[s] = "gone"
  /\ ws' = [ws EXCEPT ![s] = "closed"]
  /\ conns' = Without(conns, {s})
  /\ UNCHANGED <<sameModule, record, mode, stage, cast>>

\* Any other exception, such as the KeyError of receive_text() on a binary
\* frame, ends the endpoint with the socket still in the list.
EndpointFails(s) ==
  /\ ws[s] = "open"
  /\ ws' = [ws EXCEPT ![s] = "failed"]
  /\ UNCHANGED <<sameModule, conns, record, mode, stage, cast>>

-----------------------------------------------------------------------------
\* Jobs.

\* Fault: a status that JobStatusResponse does not document.
SubmitQueued(j) ==
  /\ At(j, "none", "queued")
  /\ status' = [status EXCEPT ![j] = "queued"]
  /\ UNCHANGED <<result, started, finished, mode, sockets, cast>>

Submit(j) ==
  /\ At(j, "none", "queued")
  /\ status' = [status EXCEPT ![j] = "pending"]
  /\ UNCHANGED <<result, started, finished, mode, sockets, cast>>

\* Fault: the coroutine stamps started_at and leaves the status.
StartAsyncUnmarked(j) ==
  /\ mode[j] = "async" /\ At(j, "queued", "working")
  /\ started' = [started EXCEPT ![j] = TRUE]
  /\ UNCHANGED <<status, result, finished, mode, sockets, cast>>

\* The coroutine marks the job in one go, the thread can be seen between.
StartAsync(j) ==
  /\ mode[j] = "async" /\ At(j, "queued", "working")
  /\ status' = [status EXCEPT ![j] = "running"]
  /\ started' = [started EXCEPT ![j] = TRUE]
  /\ UNCHANGED <<result, finished, mode, sockets, cast>>

StartSync(j) ==
  /\ mode[j] = "sync" /\ At(j, "queued", "marked")
  /\ status' = [status EXCEPT ![j] = "running"]
  /\ UNCHANGED <<result, started, finished, mode, sockets, cast>>

StampSync(j) ==
  /\ At(j, "marked", "working")
  /\ started' = [started EXCEPT ![j] = TRUE]
  /\ UNCHANGED <<status, result, finished, mode, sockets, cast>>

\* job_status_store[job_id].update(status=..., result=..., finished_at=...)
Record(j, verdict, value) ==
  /\ status' = [status EXCEPT ![j] = verdict]
  /\ result' = [result EXCEPT ![j] = value]
  /\ finished' = [finished EXCEPT ![j] = TRUE]
  /\ UNCHANGED started

WorkDone(j) ==
  /\ At(j, "working", IF mode[j] = "async" THEN "casting" ELSE "ended")
  /\ Record(j, "done", "value")
  /\ UNCHANGED <<mode, sockets, cast>>

\* Fault: the except clause does not stamp finished_at.
WorkFailsUnstamped(j) ==
  /\ At(j, "working", "ended")
  /\ status' = [status EXCEPT ![j] = "failed"]
  /\ result' = [result EXCEPT ![j] = "error"]
  /\ UNCHANGED <<started, finished, mode, sockets, cast>>

\* Fault: no except clause, the exception ends the background task.
WorkFailsUncaught(j) ==
  /\ At(j, "working", "ended")
  /\ UNCHANGED <<record, mode, sockets, cast>>

WorkFails(j) ==
  /\ At(j, "working", "ended")
  /\ Record(j, "failed", "error")
  /\ UNCHANGED <<mode, sockets, cast>>

-----------------------------------------------------------------------------
\* broadcast_ws, as called by _async_job.

\* Fault: a list shared by both importers, with this code over it.
ListenersShared == conns

\* The list broadcast_ws iterates; nobody appends to that of core.store.
Listeners == IF sameModule THEN conns ELSE <<>>

\* One turn of the loop.  A send to a client that has gone may raise, or the
\* server may not have noticed yet.
Push(j) ==
  /\ stage[j] = "casting" /\ pos[j] < Len(Listeners)
  /\ LET s == Listeners[pos[j] + 1] IN
       \/ /\ ws[s] \in {"open", "gone"}
          /\ pushed' = [pushed EXCEPT ![j] = @ \cup {s}]
          /\ UNCHANGED dead
       \/ /\ ws[s] # "open"
          /\ dead' = [dead EXCEPT ![j] = Append(@, s)]
          /\ UNCHANGED pushed
  /\ pos' = [pos EXCEPT ![j] = @ + 1]
  /\ UNCHANGED <<record, mode, stage, sockets>>

\* The entries of `dead` that remove() gets through before the first that is
\* no longer in the list.
Removable(j) ==
  {s \in Elements(dead[j]) :
     \E i \in DOMAIN dead[j] :
       dead[j][i] = s /\ \A k \in 1..i : dead[j][k] \in Elements(conns)}

\* The loop over the list is exhausted; the loop over `dead` has no await.
\* Its ValueError would land in the except clause of _async_job.
EndCast(j) ==
  /\ pos[j] >= Len(Listeners)
  /\ At(j, "casting", "ended")
  /\ conns' = Without(conns, Removable(j))
  /\ IF Removable(j) = Elements(dead[j])
     THEN UNCHANGED record
     ELSE Record(j, "failed", "error")
  /\ UNCHANGED <<sameModule, mode, ws, cast>>

-----------------------------------------------------------------------------
Client(s) ==
  Accept(s) \/ ClientLeaves(s) \/ EndpointEnds(s) \/ EndpointFails(s)

Run(j) ==
  \/ StartAsync(j) \/ StartSync(j) \/ StampSync(j)
  \/ WorkDone(j) \/ WorkFails(j)

Cast(j) == Push(j) \/ EndCast(j)

Next ==
  \/ \E s \in Sockets : Client(s)
  \/ \E j \in Jobs : Submit(j) \/ Run(j) \/ Cast(j)

Spec == Init /\ [][Next]_vars

\* The server starts background tasks, threads run and sleeps end.  A send
\* to a stalled client may hang: Cast is not fair.
FairSpec == Spec /\ \A j \in Jobs : WF_vars(Run(j))

-----------------------------------------------------------------------------
RecordTypeOK ==
  /\ status \in [Jobs -> {"absent", "pending", "running"} \cup Terminal]
  /\ result \in [Jobs -> {"none", "value", "error"}]
  /\ started \in [Jobs -> BOOLEAN] /\ finished \in [Jobs -> BOOLEAN]
  /\ mode \in [Jobs -> {"async", "sync"}]
  /\ stage \in [Jobs -> {"none", "queued", "marked", "working", "casting",
                         "ended"}]

TypeOK ==
  /\ RecordTypeOK
  /\ sameModule \in BOOLEAN
  /\ conns \in Seq(Sockets)
  /\ ws \in [Sockets -> {"new", "open", "gone", "closed", "failed"}]
  /\ pos \in [Jobs -> Nat] /\ dead \in [Jobs -> Seq(Sockets)]
  /\ pushed \in [Jobs -> SUBSET Sockets]

\* What a poll of GET /jobs/{id} can see at any moment, thread or coroutine:
\* a finished job was started, has the result its status promises, and an
\* unfinished one has none.
RecordConsistent ==
  \A j \in Jobs :
    /\ finished[j] <=> status[j] \in Terminal
    /\ finished[j] => started[j]
    /\ result[j] = "value" <=> status[j] = "done"
    /\ result[j] = "error" <=> status[j] = "failed"

\* A client that polls and stops at the first terminal status was told the
\* truth: nothing that happens after the work, the broadcast included, turns
\* a done job into a failed one or back.  (As deployed: with one list a
\* remove() that comes second fails the job.)
TerminalStable ==
  [][\A j \in Jobs : ~ sameModule /\ status[j] \in Terminal
       => status'[j] = status[j]]_vars

\* However broadcasts and endpoints clean up after each other, the list of
\* connections holds every connected client, once, and none whose endpoint
\* has seen its WebSocketDisconnect.
ConnsAreLive ==
  /\ \A s \in Sockets : ws[s] = "open" => s \in Elements(conns)
  /\ \A s \in Elements(conns) : ws[s] \in {"open", "gone", "failed"}
  /\ \A i, k \in DOMAIN conns : conns[i] = conns[k] => i = k

\* Every submitted job gets a terminal status.
JobsEnd == \A j \in Jobs : stage[j] = "queued" ~> status[j] \in Terminal

\* The board a client polls is the store without its time stamps.
Board == INSTANCE JobBoard WITH
  shared <- sameModule,
  board <- [j \in Jobs |-> [status |-> status[j], result |-> result[j],
                            finished |-> finished[j]]]

\* The store, the coroutines, the threads and the broadcasts together do what
\* a board of jobs promises a client that polls it.
ImplementsJobBoard == Board!Spec
=============================================================================
