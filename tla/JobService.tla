------------------------------ MODULE JobService ------------------------------
(***************************************************************************)
(* What the job queue of `lig serve` promises its clients, without saying  *)
(* how: jobs wait in one line in order of arrival, one job at a time has   *)
(* the engine, a waiting job can be withdrawn, and a job aborted while it  *)
(* has the engine keeps it until the engine has stopped.  The counter may  *)
(* turn out to be closed when the first job arrives: then jobs still line  *)
(* up and can be withdrawn, and none is ever served.                       *)
(*                                                                         *)
(* JobQueue implements this specification; see Service in JobQueue.        *)
(***************************************************************************)
EXTENDS SequencesExt

CONSTANTS
  Job,
  NoJob      \* something that is not a job

VARIABLES
  status,    \* what each job has become
  line,      \* the jobs that wait, in order of arrival
  serving,   \* the job that has the engine, or NoJob
  open       \* FALSE: the engine could not be manned

vars == <<status, line, serving, open>>

Statuses == {"unsubmitted", "queued", "running", "done", "failed", "cancelled"}

TypeOK ==
  /\ status \in [Job -> Statuses]
  /\ line \in Seq(Job)
  /\ serving \in Job \cup {NoJob}
  /\ open \in BOOLEAN

Init ==
  /\ status = [j \in Job |-> "unsubmitted"]
  /\ line = << >>
  /\ serving = NoJob
  /\ open = TRUE

(* Only the very first arrival can find the counter closed.                *)
Arrive(j) ==
  /\ status[j] = "unsubmitted"
  /\ status' = [status EXCEPT ![j] = "queued"]
  /\ line' = Append(line, j)
  /\ \/ UNCHANGED open
     \/ (\A i \in Job : status[i] = "unsubmitted") /\ open' = FALSE
  /\ UNCHANGED serving

Withdraw(j) ==
  /\ status[j] = "queued"
  /\ status' = [status EXCEPT ![j] = "cancelled"]
  /\ line' = RemoveFirst(line, j)
  /\ UNCHANGED <<serving, open>>

(* The engine goes to the job that arrived first among those that wait.    *)
Begin ==
  /\ open
  /\ serving = NoJob
  /\ line # << >>
  /\ serving' = Head(line)
  /\ line' = Tail(line)
  /\ status' = [status EXCEPT ![Head(line)] = "running"]
  /\ UNCHANGED open

Abort ==
  /\ serving # NoJob
  /\ status[serving] = "running"
  /\ status' = [status EXCEPT ![serving] = "cancelled"]
  /\ UNCHANGED <<line, serving, open>>

(* An aborted job stays cancelled whatever the engine came back with.      *)
Complete ==
  /\ serving # NoJob
  /\ \/ /\ status[serving] = "running"
        /\ \E s \in {"done", "failed"} : status' = [status EXCEPT ![serving] = s]
     \/ /\ status[serving] = "cancelled"
        /\ UNCHANGED status
  /\ serving' = NoJob
  /\ UNCHANGED <<line, open>>

Next ==
  \/ \E j \in Job : Arrive(j) \/ Withdraw(j)
  \/ Begin
  \/ Abort
  \/ Complete

Safety == Init /\ [][Next]_vars

(* An open service never leaves the engine idle while jobs wait, and every *)
(* run of the engine ends.                                                 *)
Spec == Safety /\ WF_vars(Begin) /\ WF_vars(Complete)

===============================================================================
