------------------------------- MODULE MCJobs -------------------------------
(***************************************************************************)
(* What the docs say of job notifications and the code does not do.        *)
(***************************************************************************)
EXTENDS Jobs

\* routers/jobs.py:27, submit_job: "Connect to WS /ws to get pushed
\* notification on completion."  When the background task of a done job has
\* ended, every client that is connected has been pushed it, provided it
\* was there before the job was submitted.
VARIABLE early    \* history: sockets open when each job was submitted

PushInit == Init /\ ~ sameModule /\ early = [j \in Jobs |-> {}]
PushNext ==
  /\ Next
  /\ early' = [j \in Jobs |->
                 IF status[j] = "absent" /\ status'[j] = "pending"
                 THEN {s \in Sockets : ws[s] = "open"} ELSE early[j]]
PushSpec == PushInit /\ [][PushNext]_<<vars, early>>

PushedOnCompletion ==
  \A j \in Jobs : stage[j] = "ended" /\ status[j] = "done" =>
    \A s \in early[j] : ws[s] = "open" => s \in pushed[j]
=============================================================================
