------------------------------- MODULE JobQueue -------------------------------
(***************************************************************************)
(* The in-memory job queue of `lig serve` (src/lig/server/jobs.py).        *)
(*                                                                         *)
(* HTTP handler threads call submit, get and cancel under one lock; a      *)
(* single worker thread takes jobs from the `_pending` queue and runs the  *)
(* engine outside that lock, with progress callbacks coming from the       *)
(* engine's own output threads (the pumps of backends/runner.py).  Every   *)
(* critical section of the lock is one action; everything the worker and   *)
(* the callbacks do between two critical sections is a step of its own.    *)
(*                                                                         *)
(* Job ids are uuids in the code.  Here a job is named by its place in the *)
(* order of arrival at `submit`, which the lock makes total.               *)
(***************************************************************************)
EXTENDS SequencesExt

CONSTANTS
  MaxJobs,              \* how many jobs are submitted at most (bounds the model)
  MaxFinished,          \* MAX_FINISHED_JOBS of the code
  MaxSteps,             \* how many denoising steps an engine reports at most
  Pumps,                \* threads that call on_progress
  ThreadStartMayFail    \* TRUE: Thread.start() may raise in `submit`

ASSUME JobQueueAssumption ==
  /\ MaxJobs \in Nat
  /\ MaxFinished \in Nat \ {0}
  /\ MaxSteps \in Nat
  /\ ThreadStartMayFail \in BOOLEAN

Jobs == 1 .. MaxJobs

NoJob == 0

FinishedStates == {"done", "failed", "cancelled"}

States == {"unsubmitted", "queued", "running"} \cup FinishedStates

(* How the call of `_execute` ends: it returns an envelope, or raises.     *)
Outcomes == {"envelope", "Cancelled", "EngineError", "BaseException"}

VARIABLES
  submitted,   \* how many jobs have arrived; the jobs are 1 .. submitted
  jobs,        \* keys of `_jobs`: the ids a client can look up
  active,      \* `_active`
  finished,    \* `_finished`
  pending,     \* `_pending`
  state, progress, result, error, cancelled,   \* the fields of each Job
  worker,      \* where the worker thread is
  current,     \* its local `job`
  returned,    \* its locals `result` and `error` after `_execute`
  callback     \* job each pump is inside on_progress for, past the cancel check

store == <<jobs, active, finished>>
fields == <<state, progress, result, error, cancelled>>
thread == <<worker, current, returned>>
vars == <<submitted, store, pending, fields, thread, callback>>

Init ==
  /\ submitted = 0
  /\ jobs = {}
  /\ active = << >>
  /\ finished = << >>
  /\ pending = << >>
  /\ state = [j \in Jobs |-> "unsubmitted"]
  /\ progress = [j \in Jobs |-> 0]
  /\ result = [j \in Jobs |-> "none"]
  /\ error = [j \in Jobs |-> "none"]
  /\ cancelled = [j \in Jobs |-> FALSE]
  /\ worker = "unstarted"
  /\ current = NoJob
  /\ returned = [result |-> "none", error |-> "none"]
  /\ callback = [p \in Pumps |-> NoJob]

-------------------------------------------------------------------------------
(* Helpers of the critical sections.                                       *)

(* What `_finished` holds after job j is appended to f, and what it drops. *)
Excess(f) == IF Len(f) > MaxFinished THEN Len(f) - MaxFinished ELSE 0
Kept(f) == SubSeq(f, Excess(f) + 1, Len(f))
Evicted(f) == {f[i] : i \in 1 .. Excess(f)}

(* A plausible bug: pop() instead of popleft().                            *)
Retire_Newest(j) ==
  LET f == Append(finished, j)
      room == Len(f) - Excess(f)
  IN  /\ finished' = SubSeq(f, 1, room)
      /\ jobs' = jobs \ {f[i] : i \in room + 1 .. Len(f)}

(* _retire(j): remember a finished job, forgetting the oldest ones.        *)
Retire(j) ==
  /\ finished' = Kept(Append(finished, j))
  /\ jobs' = jobs \ Evicted(Append(finished, j))

(* A plausible bug: pop() instead of remove(job).                          *)
Without_Pop(s, j) == Front(s)

(* list.remove: the list without the first occurrence of j.                *)
Without(s, j) == RemoveFirst(s, j)

-------------------------------------------------------------------------------
(* Handler threads.                                                        *)

(* `_active` once j has arrived.                                           *)
Enlisted(j) == Append(active, j)

(* submit: the job is visible to clients and has its place in `_active`.   *)
Register(j) ==
  /\ j \in Jobs
  /\ j = submitted + 1
  /\ submitted' = j
  /\ jobs' = jobs \cup {j}
  /\ active' = Enlisted(j)
  /\ state' = [state EXCEPT ![j] = "queued"]
  /\ UNCHANGED <<finished, progress, result, error, cancelled, current, returned, callback>>

(* A plausible bug: only the submit that starts the worker feeds it.       *)
Submit_FeedOnce(j) ==
  /\ Register(j)
  /\ worker' = IF worker = "unstarted" THEN "waiting" ELSE worker
  /\ pending' = IF worker = "unstarted" THEN Append(pending, j) ELSE pending

Submit(j) ==
  /\ Register(j)
  /\ worker' = IF worker = "unstarted" THEN "waiting" ELSE worker
  /\ pending' = Append(pending, j)

(* The first submit whose Thread.start() raises: `_worker` is set, so no   *)
(* later submit starts one, and the job never reaches `_pending`.          *)
SubmitWithoutThread(j) ==
  /\ ThreadStartMayFail
  /\ worker = "unstarted"
  /\ Register(j)
  /\ worker' = "dead"
  /\ UNCHANGED pending

(* A plausible bug: a job that is over can be cancelled.                   *)
Cancellable_Known(j) == j \in jobs

(* Past the two early returns of cancel: unknown job, job already over.    *)
Cancellable(j) == j \in jobs /\ state[j] \notin FinishedStates

Cancel(j) ==
  /\ Cancellable(j)
  /\ IF state[j] = "queued"
       THEN active' = Without(active, j) /\ Retire(j)
       ELSE UNCHANGED store
  /\ state' = [state EXCEPT ![j] = "cancelled"]
  /\ cancelled' = [cancelled EXCEPT ![j] = TRUE]
  /\ UNCHANGED <<submitted, pending, progress, result, error, thread, callback>>

-------------------------------------------------------------------------------
(* The worker thread.                                                      *)

(* A plausible bug: a LIFO queue.                                          *)
Take_Newest ==
  /\ worker = "waiting"
  /\ pending # << >>
  /\ current' = Last(pending)
  /\ pending' = Front(pending)
  /\ worker' = "taken"
  /\ UNCHANGED <<submitted, store, fields, returned, callback>>

(* `_pending.get()` returns; the worker does not hold the lock yet.        *)
Take ==
  /\ worker = "waiting"
  /\ pending # << >>
  /\ current' = Head(pending)
  /\ pending' = Tail(pending)
  /\ worker' = "taken"
  /\ UNCHANGED <<submitted, store, fields, returned, callback>>

(* A plausible bug: the worker does not look whether the job still waits.  *)
StillQueued_Assumed == TRUE

(* The test the worker makes with the lock held.                           *)
StillQueued == state[current] = "queued"

(* The job was cancelled while it waited.                                  *)
Skip ==
  /\ worker = "taken"
  /\ ~StillQueued
  /\ worker' = "waiting"
  /\ current' = NoJob
  /\ UNCHANGED <<submitted, store, pending, fields, returned, callback>>

Start ==
  /\ worker = "taken"
  /\ StillQueued
  /\ state' = [state EXCEPT ![current] = "running"]
  /\ worker' = "executing"
  /\ UNCHANGED <<submitted, store, pending, progress, result, error, cancelled,
                 current, returned, callback>>

(* The locals of _run after its three except clauses.                      *)
Locals(o, cancelSet) ==
  [result |-> IF o = "envelope" THEN "envelope" ELSE "none",
   error  |-> IF o = "EngineError" \/ (o = "BaseException" /\ ~cancelSet)
                THEN "message" ELSE "none"]

(* `_execute` ends.  Cancelled is raised only when the event is set; an    *)
(* engine that reports no progress, or exits before the callback's         *)
(* exception reaches it, may still return an envelope for a cancelled job. *)
ExecuteEnds(o) ==
  /\ worker = "executing"
  /\ o \in Outcomes
  /\ o = "Cancelled" => cancelled[current]
  /\ returned' = Locals(o, cancelled[current])
  /\ worker' = "returned"
  /\ UNCHANGED <<submitted, store, pending, fields, current, callback>>

(* A plausible bug: the outcome is stored although a cancel came first.    *)
Publish_Unchecked ==
  /\ state' = [state EXCEPT ![current] = IF @ # "running" THEN @
                  ELSE IF returned.result # "none" THEN "done" ELSE "failed"]
  /\ result' = [result EXCEPT ![current] = returned.result]
  /\ error' = [error EXCEPT ![current] = returned.error]

(* A cancel that came before the lock was taken has already marked the job. *)
Publish ==
  IF state[current] = "running"
    THEN /\ state' = [state EXCEPT ![current] =
                        IF returned.result # "none" THEN "done" ELSE "failed"]
         /\ result' = [result EXCEPT ![current] = returned.result]
         /\ error' = [error EXCEPT ![current] = returned.error]
    ELSE UNCHANGED <<state, result, error>>

(* The last critical section of _run.                                      *)
Finish ==
  /\ worker = "returned"
  /\ Publish
  /\ active' = Without(active, current)
  /\ Retire(current)
  /\ worker' = "waiting"
  /\ current' = NoJob
  /\ returned' = [result |-> "none", error |-> "none"]
  /\ UNCHANGED <<submitted, pending, progress, cancelled, callback>>

-------------------------------------------------------------------------------
(* Progress callbacks.  They take no lock.  A pump may outlive the engine  *)
(* call it belongs to (run_engine joins its pumps for a bounded time), so  *)
(* a callback can come for any job that has started.                       *)

MayReport(j) ==
  \/ worker \in {"executing", "returned"} /\ current = j
  \/ state[j] \in {"done", "failed"}

(* on_progress finds the event clear.  When it is set, on_progress raises  *)
(* and changes nothing here: see the outcomes of ExecuteEnds.              *)
ProgressCheck(p, j) ==
  /\ callback[p] = NoJob
  /\ MayReport(j)
  /\ ~cancelled[j]
  /\ callback' = [callback EXCEPT ![p] = j]
  /\ UNCHANGED <<submitted, store, pending, fields, thread>>

(* A plausible bug: steps counted from 1 twice.                            *)
ProgressWrite_OffByOne(p, step) ==
  /\ callback[p] # NoJob
  /\ progress' = [progress EXCEPT ![callback[p]] = step + 1]
  /\ callback' = [callback EXCEPT ![p] = NoJob]
  /\ UNCHANGED <<submitted, store, pending, state, result, error, cancelled, thread>>

ProgressWrite(p, step) ==
  /\ callback[p] # NoJob
  /\ progress' = [progress EXCEPT ![callback[p]] = step]
  /\ callback' = [callback EXCEPT ![p] = NoJob]
  /\ UNCHANGED <<submitted, store, pending, state, result, error, cancelled, thread>>

-------------------------------------------------------------------------------
WorkerStep ==
  \/ Take
  \/ Skip
  \/ Start
  \/ \E o \in Outcomes : ExecuteEnds(o)
  \/ Finish

Next ==
  \/ \E j \in Jobs : Submit(j) \/ SubmitWithoutThread(j) \/ Cancel(j)
  \/ WorkerStep
  \/ \E p \in Pumps, j \in Jobs : ProgressCheck(p, j)
  \/ \E p \in Pumps, step \in 1 .. MaxSteps : ProgressWrite(p, step)

Spec == Init /\ [][Next]_vars

(* The worker thread is scheduled and every engine call ends.  Clients may *)
(* do nothing at all.                                                      *)
Fairness ==
  /\ WF_vars(Take)
  /\ WF_vars(Skip)
  /\ WF_vars(Start)
  /\ WF_vars(\E o \in Outcomes : ExecuteEnds(o))
  /\ WF_vars(Finish)

FairSpec == Spec /\ Fairness

-------------------------------------------------------------------------------
(* Properties.                                                             *)

Serving == worker \in {"executing", "returned"}

(* The variables hold what the code's fields can hold.                     *)
TypeOK ==
  /\ submitted \in 0 .. MaxJobs
  /\ jobs \subseteq Jobs
  /\ active \in Seq(Jobs)
  /\ finished \in Seq(Jobs)
  /\ pending \in Seq(Jobs)
  /\ state \in [Jobs -> States]
  /\ progress \in [Jobs -> 0 .. MaxSteps]
  /\ result \in [Jobs -> {"none", "envelope"}]
  /\ error \in [Jobs -> {"none", "message"}]
  /\ cancelled \in [Jobs -> BOOLEAN]
  /\ worker \in {"unstarted", "dead", "waiting", "taken", "executing", "returned"}
  /\ current \in Jobs \cup {NoJob}
  /\ returned \in [result : {"none", "envelope"}, error : {"none", "message"}]
  /\ callback \in [Pumps -> Jobs \cup {NoJob}]

(* `_active` is "running first, then queued in arrival order" (the comment *)
(* on jobs.py:55), also while cancelled jobs leave it from the middle and  *)
(* while a job cancelled during its run still has the engine.              *)
ActiveOrder ==
  /\ \A i, k \in DOMAIN active : i < k => active[i] < active[k]
  /\ Serving => active # << >> /\ active[1] = current
  /\ \A i \in DOMAIN active : ~(Serving /\ i = 1) => state[active[i]] = "queued"

(* No submitted job gets lost between the handlers and the worker: as long *)
(* as there is a worker, a job that waits is in `_pending` or in the       *)
(* worker's hands.                                                         *)
NoJobLost ==
  worker # "dead" =>
    \A j \in Jobs : state[j] = "queued" =>
      \/ \E i \in DOMAIN pending : pending[i] = j
      \/ worker = "taken" /\ current = j

(* "the last 32 finished jobs are retained" (docs/reference.md:135): the   *)
(* history holds each job at most once and is full before it forgets one,  *)
(* although jobs reach it from two threads, in any order; the ids a client *)
(* can look up are those of `_active` and of the history, so that no job   *)
(* that waits or runs becomes unknown and none leaks; and whichever thread *)
(* takes a job out of `_active` makes it the newest of the history, which  *)
(* forgets its oldest for it when it is full, and only then.               *)
HistoryIsFull ==
  /\ IsInjective(finished)
  /\ \A i \in DOMAIN finished : state[finished[i]] \in FinishedStates
  /\ LET over == submitted - Len(active)
     IN  Len(finished) = IF over < MaxFinished THEN over ELSE MaxFinished
  /\ jobs = Range(active) \cup Range(finished)

WithRoom == IF Len(finished) < MaxFinished THEN finished ELSE Tail(finished)

ForgetsTheOldest ==
  LET ended == Range(active) \ Range(active')
  IN  \/ ended = {} /\ finished' = finished
      \/ \E j \in ended : ended = {j} /\ finished' = Append(WithRoom, j)

Retention == []HistoryIsFull /\ [][ForgetsTheOldest]_vars

(* A poll never shows half an outcome: `result` exactly when done, `error` *)
(* exactly when failed (docs/reference.md:130-131), and the event of a job *)
(* is set exactly when it is cancelled - whatever the engine returned and  *)
(* however late the cancel came.                                           *)
OutcomeMatchesState ==
  \A j \in Jobs :
    /\ state[j] = "done" <=> result[j] # "none"
    /\ state[j] = "failed" <=> error[j] # "none"
    /\ state[j] = "cancelled" <=> cancelled[j]

(* What a client was told of a job that is over stays true, and once a     *)
(* cancelled job has no callback past its check, its progress stays too.   *)
Quiet(j) == cancelled[j] /\ \A p \in Pumps : callback[p] # j
OverIsOver ==
  [][\A j \in Jobs :
       /\ state[j] \in FinishedStates =>
            /\ state'[j] = state[j]
            /\ result'[j] = result[j]
            /\ error'[j] = error[j]
       /\ Quiet(j) => Quiet(j)' /\ progress'[j] = progress[j]]_vars

(* A job starts only when no job that arrived before it still waits, none  *)
(* has the engine, and it was not cancelled itself.                        *)
StartsInArrivalOrder ==
  [][\A j \in Jobs : (state'[j] = "running" /\ state[j] # "running") =>
       /\ ~Serving
       /\ ~cancelled[j]
       /\ \A i \in Jobs : i < j => state[i] # "queued"]_vars

(* The queue implements the abstract service: one line, served in order of *)
(* arrival, and every job that enters it leaves it, run to an end or        *)
(* withdrawn, whatever happens to the jobs before it.  The one exception is *)
(* a daemon whose worker thread could not be started.                      *)
Service == INSTANCE JobService WITH
  Job <- Jobs,
  NoJob <- NoJob,
  status <- state,
  serving <- IF Serving THEN current ELSE NoJob,
  line <- IF Serving THEN Tail(active) ELSE active,
  open <- worker # "dead"

ImplementsService == Service!Spec

===============================================================================
