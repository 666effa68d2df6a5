-------------------------------- MODULE Remote --------------------------------
(***************************************************************************)
(* `lig --host NAME` against `lig serve`: the client of                    *)
(* src/lig/backends/remote.py composed with the daemon's job queue (module *)
(* JobQueue) over connections that may be refused, break at any moment, or *)
(* deliver a request long after its sender has given up.                   *)
(*                                                                         *)
(* Each client is one `lig` process that renders one image: it asks for    *)
(* the daemon's health, posts its request, and then either holds that one  *)
(* connection until the image comes (`_post`: streamed generates and       *)
(* edits) or polls the job it was given (`--wait`).  Ctrl-C may come at    *)
(* any time.  The daemon may be restarted; its jobs are then gone and its  *)
(* job ids, uuids in the code, are never given out again: an id is an      *)
(* epoch of the daemon and a place in the order of arrival.                *)
(*                                                                         *)
(* Left out: the progress shown while a job runs, and the engine lock that *)
(* direct requests and the queue's worker share (module Daemon).           *)
(***************************************************************************)
EXTENDS Naturals, Sequences

CONSTANTS
  Clients,
  MaxRestarts,    \* how often the daemon is restarted (bounds the model)
  MaxJobs, MaxFinished, MaxSteps, Pumps, ThreadStartMayFail   \* of JobQueue

VARIABLES
  \* The daemon
  submitted, jobs, active, finished, pending, state, progress, result, error,
  cancelled, worker, current, returned, callback,
  epoch,      \* how often the daemon has been restarted
  \* The clients
  queues,     \* `_wait`
  phase,      \* where the call is
  attempt,    \* number of the attempt to connect
  id,         \* the job id the client was given
  seen,       \* state of the job in the last answer to a poll
  outcome,    \* how the call ends
  \* The connections
  conn,       \* the POST of each client: the request, or the answer, on its way
  delete,     \* the DELETE of each client
  \* What has happened, for the properties
  accepted,   \* how often the daemon took a client's request up
  jobOf       \* the job it made of it

queueVars == <<submitted, jobs, active, finished, pending, state, progress, result,
               error, cancelled, worker, current, returned, callback>>
history == <<accepted, jobOf>>
call == <<phase, attempt, id, seen, outcome>>
vars == <<queueVars, epoch, queues, call, conn, delete, history>>

Queue == INSTANCE JobQueue

ASSUME RemoteAssumption ==
  /\ MaxRestarts \in Nat
  /\ Queue!JobQueueAssumption

NoId == <<0, 0>>

Answers == {"queued", "image", "error", "truncated"}

Init ==
  /\ Queue!Init
  /\ epoch = 0
  /\ queues \in [Clients -> BOOLEAN]
  /\ phase = [c \in Clients |-> "health"]
  /\ attempt = [c \in Clients |-> 1]
  /\ id = [c \in Clients |-> NoId]
  /\ seen = [c \in Clients |-> "none"]
  /\ outcome = [c \in Clients |-> "none"]
  /\ conn = [c \in Clients |-> "none"]
  /\ delete = [c \in Clients |-> "none"]
  /\ accepted = [c \in Clients |-> 0]
  /\ jobOf = [c \in Clients |-> NoId]

-------------------------------------------------------------------------------
(* The client: steps of a call.                                            *)

Goes(c, p) == phase' = [phase EXCEPT ![c] = p]

Ends(c, why) == Goes(c, "ended") /\ outcome' = [outcome EXCEPT ![c] = why]

(* The `except BaseException` of _generate_queued: whatever ends the       *)
(* polling without an image, the job is cancelled first.                   *)
Abandon(c, why) == Goes(c, "cancelling") /\ outcome' = [outcome EXCEPT ![c] = why]

(* A plausible bug: a third attempt.                                       *)
TryAgain_Thrice(c) ==
  IF attempt[c] <= 2
    THEN attempt' = [attempt EXCEPT ![c] = @ + 1] /\ UNCHANGED <<phase, outcome>>
    ELSE Ends(c, "unavailable") /\ UNCHANGED attempt

(* The second attempt, one second after the first; then "cannot reach".    *)
TryAgain(c) ==
  IF attempt[c] = 1
    THEN attempt' = [attempt EXCEPT ![c] = 2] /\ UNCHANGED <<phase, outcome>>
    ELSE Ends(c, "unavailable") /\ UNCHANGED attempt

(* fetch_health: what one GET of /v1/health comes to.                      *)
HealthAnswers == {"healthy", "unreachable", "not a daemon"}

(* _get_health: asked once and kept; any failure but a refused connection  *)
(* is final.                                                               *)
Health(c) ==
  /\ phase[c] = "health"
  /\ \E a \in HealthAnswers :
       CASE a = "healthy" ->
              Goes(c, "posting") /\ attempt' = [attempt EXCEPT ![c] = 1] /\ UNCHANGED outcome
         [] a = "unreachable" -> TryAgain(c)
         [] a = "not a daemon" -> Ends(c, "unavailable") /\ UNCHANGED attempt
  /\ UNCHANGED <<queueVars, epoch, queues, id, seen, conn, delete, history>>

(* The reference image of an edit is read before anything is sent.         *)
CannotRead(c) ==
  /\ phase[c] = "posting"
  /\ ~queues[c] /\ attempt[c] = 1
  /\ Ends(c, "error")
  /\ UNCHANGED <<queueVars, epoch, queues, attempt, id, seen, conn, delete, history>>

(* The POST is under way.                                                  *)
Post(c) ==
  /\ phase[c] = "posting"
  /\ Goes(c, "waiting")
  /\ conn' = [conn EXCEPT ![c] = "request"]
  /\ UNCHANGED <<queueVars, epoch, queues, attempt, id, seen, outcome, delete, history>>

(* _UNREACHABLE: nothing was sent, so that `_post` may try once more; the  *)
(* POST of a queued job is not tried again.                                *)
Unreachable(c) ==
  /\ phase[c] = "posting"
  /\ IF queues[c] THEN Ends(c, "unavailable") /\ UNCHANGED attempt ELSE TryAgain(c)
  /\ UNCHANGED <<queueVars, epoch, queues, id, seen, conn, delete, history>>

(* A plausible bug: any broken connection is tried again.                  *)
Broken_TryAgain(c) ==
  /\ phase[c] = "waiting"
  /\ IF attempt[c] = 1
       THEN Goes(c, "posting") /\ attempt' = [attempt EXCEPT ![c] = 2] /\ UNCHANGED outcome
       ELSE Ends(c, "connection") /\ UNCHANGED attempt
  /\ UNCHANGED <<queueVars, epoch, queues, id, seen, conn, delete, history>>

(* Any other HTTPError.  What was sent may still reach the daemon.         *)
Broken(c) ==
  /\ phase[c] = "waiting"
  /\ Ends(c, "connection")
  /\ UNCHANGED <<queueVars, epoch, queues, attempt, id, seen, conn, delete, history>>

(* The answer to the POST: 202 and a job, the image, an error of any kind, *)
(* or an event stream that ends before a result.                           *)
Receive(c) ==
  /\ phase[c] = "waiting"
  /\ conn[c] \in Answers
  /\ IF conn[c] = "queued"
       THEN /\ Goes(c, "asking")
            /\ id' = [id EXCEPT ![c] = jobOf[c]]
            /\ UNCHANGED outcome
       ELSE Ends(c, conn[c]) /\ UNCHANGED id
  /\ conn' = [conn EXCEPT ![c] = "none"]
  /\ UNCHANGED <<queueVars, epoch, queues, attempt, seen, delete, history>>

(* The daemon that gave out i is still running.                            *)
Current(i) == i # NoId /\ i[1] = epoch

(* GET /v1/jobs/{id}: the state of the job, or 404.                        *)
View(i) == IF Current(i) /\ i[2] \in jobs THEN state[i[2]] ELSE "unknown"

(* One round of the loop in _follow_job: the poll is answered ...          *)
Answered(c) ==
  /\ phase[c] = "asking"
  /\ seen' = [seen EXCEPT ![c] = View(id[c])]
  /\ Goes(c, "deciding")
  /\ UNCHANGED <<queueVars, epoch, queues, attempt, id, outcome, conn, delete, history>>

(* ... or fails ...                                                        *)
AskFails(c) ==
  /\ phase[c] = "asking"
  /\ Abandon(c, "connection")
  /\ UNCHANGED <<queueVars, epoch, queues, attempt, id, seen, conn, delete, history>>

(* A plausible bug: a job cancelled by someone else is polled for ever.    *)
Decide_NoCancelled(c) ==
  /\ phase[c] = "deciding"
  /\ CASE seen[c] = "done" -> Ends(c, "image")
       [] seen[c] \in {"failed", "unknown"} -> Abandon(c, seen[c])
       [] OTHER -> Goes(c, "asking") /\ UNCHANGED outcome
  /\ UNCHANGED <<queueVars, epoch, queues, attempt, id, seen, conn, delete, history>>

(* A plausible bug: what is neither queued nor running is taken for done.  *)
Decide_DoneOtherwise(c) ==
  /\ phase[c] = "deciding"
  /\ CASE seen[c] \in {"queued", "running"} -> Goes(c, "asking") /\ UNCHANGED outcome
       [] seen[c] \in {"failed", "unknown"} -> Abandon(c, seen[c])
       [] OTHER -> Ends(c, "image")
  /\ UNCHANGED <<queueVars, epoch, queues, attempt, id, seen, conn, delete, history>>

(* ... and the client goes by the answer, which may be out of date by now. *)
Decide(c) ==
  /\ phase[c] = "deciding"
  /\ CASE seen[c] = "done" -> Ends(c, "image")
       [] seen[c] \in {"failed", "cancelled", "unknown"} -> Abandon(c, seen[c])
       [] OTHER -> Goes(c, "asking") /\ UNCHANGED outcome
  /\ UNCHANGED <<queueVars, epoch, queues, attempt, id, seen, conn, delete, history>>

(* _cancel_job: sent, or failed and forgotten.                             *)
CancelJob(c) ==
  /\ phase[c] = "cancelling"
  /\ Goes(c, "ended")
  /\ \E d \in {"sent", "lost"} : delete' = [delete EXCEPT ![c] = d]
  /\ UNCHANGED <<queueVars, epoch, queues, attempt, id, seen, outcome, conn, history>>

(* A plausible bug: `except EngineError`, which Ctrl-C is not.             *)
CtrlC_Leave(c) ==
  /\ phase[c] \notin {"ended", "cancelling"}
  /\ Ends(c, "interrupted")
  /\ UNCHANGED <<queueVars, epoch, queues, attempt, id, seen, conn, delete, history>>

(* Ctrl-C.  Before the job id is there nothing is cancelled; while the     *)
(* DELETE is being made, it is cut short.                                  *)
CtrlC(c) ==
  /\ \/ /\ phase[c] \in {"health", "posting", "waiting"}
        /\ Ends(c, "interrupted")
        /\ UNCHANGED delete
     \/ /\ phase[c] \in {"asking", "deciding"}
        /\ Abandon(c, "interrupted")
        /\ UNCHANGED delete
     \/ /\ phase[c] = "cancelling"
        /\ Ends(c, "interrupted")
        /\ delete' = [delete EXCEPT ![c] = "lost"]
  /\ UNCHANGED <<queueVars, epoch, queues, attempt, id, seen, conn, history>>

-------------------------------------------------------------------------------
(* The connections and the daemon.                                         *)

LoseRequest(c) ==
  /\ conn[c] = "request"
  /\ conn' = [conn EXCEPT ![c] = "none"]
  /\ UNCHANGED <<queueVars, epoch, queues, call, delete, history>>

LoseDelete(c) ==
  /\ delete[c] = "sent"
  /\ delete' = [delete EXCEPT ![c] = "lost"]
  /\ UNCHANGED <<queueVars, epoch, queues, call, conn, history>>

(* POST /v1/generate?queue=1: the job is submitted and answered with 202.  *)
Enqueue(c) ==
  /\ conn[c] = "request"
  /\ queues[c]
  /\ \E j \in Queue!Jobs : Queue!Submit(j) /\ jobOf' = [jobOf EXCEPT ![c] = <<epoch, j>>]
  /\ accepted' = [accepted EXCEPT ![c] = @ + 1]
  /\ conn' = [conn EXCEPT ![c] = "queued"]
  /\ UNCHANGED <<epoch, queues, call, delete>>

(* POST /v1/generate?stream=1 or /v1/edit: rendered on this connection.    *)
TakeUp(c) ==
  /\ conn[c] = "request"
  /\ ~queues[c]
  /\ accepted' = [accepted EXCEPT ![c] = @ + 1]
  /\ conn' = [conn EXCEPT ![c] = "rendering"]
  /\ UNCHANGED <<queueVars, epoch, queues, call, delete, jobOf>>

(* The handler ends, whether or not its client is still there.             *)
Answer(c) ==
  /\ conn[c] = "rendering"
  /\ \E a \in Answers \ {"queued"} : conn' = [conn EXCEPT ![c] = a]
  /\ UNCHANGED <<queueVars, epoch, queues, call, delete, history>>

(* A request the daemon does not take: 4xx or 5xx.                         *)
Refuse(c) ==
  /\ conn[c] = "request"
  /\ conn' = [conn EXCEPT ![c] = "error"]
  /\ UNCHANGED <<queueVars, epoch, queues, call, delete, history>>

(* DELETE /v1/jobs/{id}: 404 and 409 change nothing.                       *)
DeleteArrives(c) ==
  /\ delete[c] = "sent"
  /\ delete' = [delete EXCEPT ![c] = "arrived"]
  /\ IF Current(id[c]) /\ Queue!Cancellable(id[c][2])
       THEN Queue!Cancel(id[c][2])
       ELSE UNCHANGED queueVars
  /\ UNCHANGED <<epoch, queues, call, conn, history>>

(* Someone else cancels a job.                                             *)
CancelledElsewhere ==
  /\ \E j \in Queue!Jobs : Queue!Cancel(j)
  /\ UNCHANGED <<epoch, queues, call, conn, delete, history>>

WorkerStep ==
  /\ Queue!WorkerStep
  /\ UNCHANGED <<epoch, queues, call, conn, delete, history>>

(* The daemon dies and is started again.  Jobs are kept in memory only,    *)
(* and every connection to it is gone.                                     *)
Restart ==
  /\ epoch < MaxRestarts
  /\ epoch' = epoch + 1
  /\ submitted' = 0
  /\ jobs' = {}
  /\ active' = << >> /\ finished' = << >> /\ pending' = << >>
  /\ state' = [j \in Queue!Jobs |-> "unsubmitted"]
  /\ progress' = [j \in Queue!Jobs |-> 0]
  /\ result' = [j \in Queue!Jobs |-> "none"]
  /\ error' = [j \in Queue!Jobs |-> "none"]
  /\ cancelled' = [j \in Queue!Jobs |-> FALSE]
  /\ worker' = "unstarted" /\ current' = Queue!NoJob
  /\ returned' = [result |-> "none", error |-> "none"]
  /\ callback' = [p \in Pumps |-> Queue!NoJob]
  /\ conn' = [c \in Clients |-> "none"]
  /\ delete' = [c \in Clients |-> IF delete[c] = "sent" THEN "lost" ELSE delete[c]]
  /\ UNCHANGED <<queues, call, history>>

-------------------------------------------------------------------------------
Client(c) ==
  Health(c) \/ CannotRead(c) \/ Post(c) \/ Unreachable(c) \/ Broken(c) \/ Receive(c) \/ Answered(c)
    \/ AskFails(c) \/ Decide(c) \/ CancelJob(c) \/ CtrlC(c)

Daemon(c) == Enqueue(c) \/ TakeUp(c) \/ Answer(c) \/ Refuse(c) \/ DeleteArrives(c)

Next ==
  \/ \E c \in Clients : Client(c) \/ Daemon(c) \/ LoseRequest(c) \/ LoseDelete(c)
  \/ CancelledElsewhere
  \/ WorkerStep
  \/ Restart

(* A client runs on and its requests are answered or fail.  A connection   *)
(* that is gone is noticed: the code sets no deadline for reading, so this *)
(* is what the peer's operating system has to provide.  Nobody has to      *)
(* press Ctrl-C, and an answer to a poll always comes in the end.          *)
Fairness ==
  /\ \A c \in Clients :
       /\ WF_vars(Health(c))
       /\ WF_vars(Post(c) \/ Unreachable(c))
       /\ WF_vars(Enqueue(c) \/ TakeUp(c) \/ Refuse(c) \/ LoseRequest(c))
       /\ WF_vars(Answer(c))
       /\ WF_vars(Receive(c) \/ (conn[c] = "none" /\ Broken(c)))
       /\ WF_vars(Answered(c) \/ AskFails(c))
       /\ WF_vars(Decide(c))
       /\ WF_vars(CancelJob(c))
  /\ WF_vars(WorkerStep)

Spec == Init /\ [][Next]_vars /\ Fairness

-------------------------------------------------------------------------------
(* Properties.                                                             *)

Outcomes == {"none", "unavailable", "connection", "interrupted", "image", "error",
             "truncated", "failed", "cancelled", "unknown"}

TypeOK ==
  /\ Queue!TypeOK
  /\ epoch \in 0 .. MaxRestarts
  /\ queues \in [Clients -> BOOLEAN]
  /\ phase \in [Clients -> {"health", "posting", "waiting", "asking", "deciding",
                            "cancelling", "ended"}]
  /\ attempt \in [Clients -> 1 .. 2]
  /\ \A i \in {id, jobOf} : i \in [Clients -> (0 .. MaxRestarts) \X (Queue!Jobs \cup {0})]
  /\ seen \in [Clients -> Queue!States \cup {"none", "unknown"}]
  /\ outcome \in [Clients -> Outcomes]
  /\ conn \in [Clients -> Answers \cup {"none", "request", "rendering"}]
  /\ delete \in [Clients -> {"none", "sent", "arrived", "lost"}]
  /\ accepted \in [Clients -> Nat]

(* A call never costs two engine runs: the second POST of `_post` follows  *)
(* only when the first one cannot have reached the daemon, however late    *)
(* requests arrive and whatever answers get lost.                          *)
RenderedOnce == \A c \in Clients : accepted[c] <= 1

(* `--wait` "cancels the job on the daemon if you press Ctrl-C"            *)
(* (docs/reference.md:136-138), and does so for every other end without an *)
(* image: unless its DELETE is still on its way or was lost, nothing is    *)
(* rendered for a client that has gone.  Only a client that never got its  *)
(* job's id leaves the job behind.                                         *)
AbandonedIsCancelled ==
  \A c \in Clients :
    /\ phase[c] = "ended"
    /\ outcome[c] # "image"
    /\ Current(id[c])
    /\ delete[c] \notin {"sent", "lost"}
    => state[id[c][2]] \in Queue!FinishedStates

(* What a polling client reports is what became of its job: an image, a    *)
(* failure or a cancellation of that very job; and it says the daemon "no  *)
(* longer knows" the job only after a restart, or when the job is over and *)
(* as many jobs as the daemon retains have ended after it.                 *)
ReportIsTrue ==
  \A c \in Clients : LET j == id[c][2] IN
    queues[c] /\ Current(id[c]) =>
      /\ outcome[c] = "image" => state[j] = "done"
      /\ outcome[c] \in {"failed", "cancelled"} => state[j] = outcome[c]
      /\ outcome[c] = "unknown" =>
           /\ state[j] \in Queue!FinishedStates
           /\ \A i \in DOMAIN finished : finished[i] # j
           /\ Len(finished) = MaxFinished

(* Every call comes to an end, also across restarts and broken             *)
(* connections, and also when someone else cancels its job.                *)
CallEnds == \A c \in Clients : <>(phase[c] = "ended")

===============================================================================
