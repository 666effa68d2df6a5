-------------------------------- MODULE Daemon --------------------------------
(***************************************************************************)
(* The engine of `lig serve` and everything that competes for it           *)
(* (src/lig/server/app.py): blocking requests (POST /v1/generate and       *)
(* /v1/edit), streamed requests (?stream=1), the worker of the job queue   *)
(* (?queue=1, module JobQueue) and the timer that unloads a warm engine.   *)
(* They are threads that meet at `engine_lock`, a lock without an order of *)
(* service.                                                                *)
(*                                                                         *)
(* Time is relative: what the code compares are ages, so the clock is kept *)
(* as the age of the last job end and the time left on the armed timer,    *)
(* both cut off where the code no longer tells values apart.               *)
(***************************************************************************)
EXTENDS Integers, SequencesExt

CONSTANTS
  MaxJobs, MaxFinished, MaxSteps, Pumps, ThreadStartMayFail,   \* of JobQueue
  Handlers,        \* blocking requests of the instance
  Streams,         \* streamed requests of the instance
  Ttls,            \* the --idle-ttl values considered
  MaxProgress,     \* how many progress events a stream sends at most (bounds the model)
  UnloadMayFail,   \* TRUE: backend.unload() may raise
  TimerMayFail     \* TRUE: starting the idle timer's thread may raise

VARIABLES
  submitted, jobs, active, finished, pending, state, progress, result, error,
  cancelled, worker, current, returned, callback,   \* of JobQueue
  ttl,        \* idle_ttl_s
  warm,       \* whether the engine stays in the process between jobs
  lock,       \* who holds engine_lock
  engine,     \* what the holder is doing with the engine
  outcome,    \* how the last engine call ended
  loaded,     \* backend.loaded
  age,        \* time since last_job_end, up to ttl
  armed,      \* time left on idle_timer, or NotArmed
  expired,    \* how many fired timers wait for the lock
  quiet,      \* history: time since an engine call ended, up to ttl
  handler,    \* where each blocking request is
  stream,     \* where the work thread of each streamed request is
  relay,      \* where its relay generator is
  gone,       \* its event of that name
  events,     \* its queue of server-sent events
  seen        \* history: what its client has received

Q == INSTANCE JobQueue

queue == <<submitted, jobs, active, finished, pending, state, progress, result, error,
           cancelled, worker, current, returned, callback>>
setup == <<ttl, warm>>
clock == <<age, armed, expired, quiet>>
streaming == <<stream, relay, gone, events, seen>>
vars == <<queue, setup, lock, engine, outcome, loaded, clock, handler, streaming>>

NotArmed == -1
Free == "free"
Worker == "worker"

(* A thread serves one request or is the worker of the queue.              *)
ASSUME DaemonAssumption ==
  /\ Q!JobQueueAssumption
  /\ Handlers \cap Streams = {}
  /\ {Free, Worker} \cap (Handlers \cup Streams) = {}
  /\ Ttls \subseteq Nat
  /\ MaxProgress \in Nat
  /\ UnloadMayFail \in BOOLEAN
  /\ TimerMayFail \in BOOLEAN

Outcomes == {"envelope", "Cancelled", "EngineError", "BaseException"}

Init ==
  /\ Q!Init
  /\ ttl \in Ttls
  /\ warm \in BOOLEAN
  /\ lock = Free
  /\ engine = "idle"
  /\ outcome = "none"
  /\ loaded = FALSE
  /\ age = ttl
  /\ armed = NotArmed
  /\ expired = 0
  /\ quiet = ttl
  /\ handler = [h \in Handlers |-> "idle"]
  /\ stream = [s \in Streams |-> "idle"]
  /\ relay = [s \in Streams |-> "idle"]
  /\ gone = [s \in Streams |-> FALSE]
  /\ events = [s \in Streams |-> << >>]
  /\ seen = [s \in Streams |-> << >>]

-------------------------------------------------------------------------------
(* The engine.                                                             *)

(* A thread gets the lock and calls the engine.                            *)
Enter(who) ==
  /\ lock = Free
  /\ lock' = who
  /\ engine' = "running"
  /\ UNCHANGED <<outcome, loaded, clock>>

(* The engine stops for a client that has gone only if it reports progress *)
(* after the client left; until then it may as well finish.                *)
MayAbort ==
  \/ lock = Worker /\ cancelled[current]
  \/ lock \in Streams /\ gone[lock]

EngineEnds(o) ==
  /\ engine = "running"
  /\ o = "Cancelled" => MayAbort
  /\ engine' = "ran"
  /\ outcome' = o
  /\ loaded' \in IF ~warm THEN {FALSE} ELSE IF o = "envelope" THEN {TRUE} ELSE {loaded, TRUE}
  /\ quiet' = 0
  /\ UNCHANGED <<queue, setup, lock, age, armed, expired, handler, streaming>>

(* unload_engine: an exception of backend.unload() is logged and forgotten. *)
UnloadEngine == loaded' \in IF UnloadMayFail THEN {FALSE, loaded} ELSE {FALSE}

(* A plausible bug: TTL 0 returns before it unloads.                       *)
JobFinished_ReturnFirst(ok) ==
  IF ~warm THEN ok /\ UNCHANGED <<age, armed, loaded>>
  ELSE /\ age' = 0
       /\ UNCHANGED loaded
       /\ IF ttl = 0 THEN ok /\ armed' = NotArmed
          ELSE /\ ok \/ TimerMayFail
               /\ armed' = IF ok THEN ttl ELSE NotArmed

(* A plausible bug: one time unit too many on the timer.                   *)
JobFinished_Late(ok) ==
  IF ~warm THEN ok /\ UNCHANGED <<age, armed, loaded>>
  ELSE /\ age' = 0
       /\ IF ttl = 0 THEN ok /\ armed' = NotArmed /\ UnloadEngine
          ELSE /\ ok \/ TimerMayFail
               /\ armed' = IF ok THEN ttl + 1 ELSE NotArmed
               /\ UNCHANGED loaded

(* job_finished; ~ok: it raises, because the new timer cannot be started.  *)
JobFinished(ok) ==
  IF ~warm THEN ok /\ UNCHANGED <<age, armed, loaded>>
  ELSE /\ age' = 0
       /\ IF ttl = 0 THEN ok /\ armed' = NotArmed /\ UnloadEngine
          ELSE /\ ok \/ TimerMayFail
               /\ armed' = IF ok THEN ttl ELSE NotArmed
               /\ UNCHANGED loaded

(* The end of `with engine_lock`, after the finally clause.                *)
Leave(ok) ==
  /\ engine = "ran"
  /\ JobFinished(ok)
  /\ lock' = Free
  /\ engine' = "idle"
  /\ UNCHANGED <<outcome, expired, quiet>>

-------------------------------------------------------------------------------
(* Blocking requests.  An edit can be refused before it reaches the lock:  *)
(* upload too large (413), invalid form (422).                             *)

Call(h) ==
  /\ handler[h] = "idle"
  /\ \E reply \in {"waiting", "refused"} : handler' = [handler EXCEPT ![h] = reply]
  /\ UNCHANGED <<queue, setup, lock, engine, outcome, loaded, clock, streaming>>

HandlerEnters(h) ==
  /\ handler[h] = "waiting"
  /\ Enter(h)
  /\ handler' = [handler EXCEPT ![h] = "running"]
  /\ UNCHANGED <<queue, setup, streaming>>

(* A plausible bug: the early return of an engine failure keeps the lock.  *)
HandlerLeaves_KeepLock(h) ==
  /\ lock = h /\ engine = "ran"
  /\ JobFinished(TRUE)
  /\ lock' = IF outcome = "EngineError" THEN lock ELSE Free
  /\ engine' = "idle"
  /\ handler' = [handler EXCEPT ![h] = "answered"]
  /\ UNCHANGED <<queue, setup, outcome, expired, quiet, streaming>>

HandlerLeaves(h) ==
  /\ lock = h
  /\ \E ok \in BOOLEAN : Leave(ok)
  /\ handler' = [handler EXCEPT ![h] = "answered"]
  /\ UNCHANGED <<queue, setup, streaming>>

-------------------------------------------------------------------------------
(* The job queue's worker: run_queued between Start and ExecuteEnds of     *)
(* JobQueue.  The other steps of JobQueue do not involve the engine.       *)

(* A plausible bug: the queue's worker relies on being the only worker.    *)
WorkerEnters_Unlocked ==
  /\ worker = "executing" /\ lock # Worker
  /\ lock' = Worker
  /\ engine' = "running"
  /\ UNCHANGED <<queue, setup, outcome, loaded, clock, handler, streaming>>

WorkerEnters ==
  /\ worker = "executing" /\ lock # Worker
  /\ IF cancelled[current]
       THEN /\ lock = Free
            /\ lock' = Worker
            /\ engine' = "ran"
            /\ outcome' = "Cancelled"
            /\ UNCHANGED <<loaded, clock>>
       ELSE Enter(Worker)
  /\ UNCHANGED <<queue, setup, handler, streaming>>

(* An exception of job_finished replaces what the engine returned.         *)
WorkerLeaves ==
  /\ lock = Worker
  /\ \E ok \in BOOLEAN :
       /\ Leave(ok)
       /\ Q!ExecuteEnds(IF ok THEN outcome ELSE "BaseException")
  /\ UNCHANGED <<setup, handler, streaming>>

(* The steps of the queue that do not involve the engine.  (Its progress   *)
(* callbacks change nothing but `progress`, which nobody here looks at:    *)
(* JobQueue has them.)                                                     *)
QueueStep ==
  /\ \/ \E j \in Q!Jobs : Q!Submit(j) \/ Q!Cancel(j)
     \/ Q!Take \/ Q!Skip \/ Q!Start \/ Q!Finish
  /\ UNCHANGED <<setup, lock, engine, outcome, loaded, clock, handler, streaming>>

-------------------------------------------------------------------------------
(* Streamed requests: a work thread that fills `events`, and the relay     *)
(* generator that hands them to the client.                                *)

NotStreaming == <<queue, setup, handler>>

Open(s) ==
  /\ relay[s] = "idle"
  /\ relay' = [relay EXCEPT ![s] = "requested"]
  /\ UNCHANGED <<NotStreaming, lock, engine, outcome, loaded, clock, stream, gone, events, seen>>

(* The first iteration of relay() starts the thread.                       *)
RelayStarts(s) ==
  /\ relay[s] = "requested"
  /\ relay' = [relay EXCEPT ![s] = "open"]
  /\ stream' = [stream EXCEPT ![s] = "waiting"]
  /\ UNCHANGED <<NotStreaming, lock, engine, outcome, loaded, clock, gone, events, seen>>

(* A plausible bug: the thread does not look whether its client has left.  *)
StreamEnters_Blind(s) ==
  /\ stream[s] = "waiting"
  /\ Enter(s)
  /\ stream' = [stream EXCEPT ![s] = "running"]
  /\ UNCHANGED <<NotStreaming, events, relay, gone, seen>>

StreamEnters(s) ==
  /\ stream[s] = "waiting"
  /\ IF gone[s]
       THEN /\ lock = Free
            /\ stream' = [stream EXCEPT ![s] = "ended"]
            /\ events' = [events EXCEPT ![s] = Append(@, "end")]
            /\ UNCHANGED <<lock, engine, outcome, loaded, clock>>
       ELSE /\ Enter(s)
            /\ stream' = [stream EXCEPT ![s] = "running"]
            /\ UNCHANGED events
  /\ UNCHANGED <<NotStreaming, relay, gone, seen>>

(* When on_progress can be called.  A warm engine calls it itself, on the  *)
(* thread that generates, and forgets it when it ends (_ProgressBridge); a *)
(* pump of run_engine may outlive the engine call (bounded joins).         *)
MayReport(s) ==
  \/ lock = s /\ engine = "running"
  \/ ~warm /\ stream[s] \in {"running", "reported", "ended"}

SentProgress(s) == Len(SelectSeq(seen[s] \o events[s], LAMBDA e : e = "progress"))

(* on_progress, when the client is still there.  It takes no lock: a late  *)
(* call puts its event behind the outcome, or behind the end.  (When the   *)
(* client leaves between the look and the put, nobody reads the event.)    *)
StreamProgress(s) ==
  /\ MayReport(s)
  /\ ~gone[s]
  /\ SentProgress(s) < MaxProgress
  /\ events' = [events EXCEPT ![s] = Append(@, "progress")]
  /\ UNCHANGED <<NotStreaming, lock, engine, outcome, loaded, clock, stream, relay, gone, seen>>

(* A plausible bug: `except Exception`, which the KeyboardInterrupt of a    *)
(* cancelled subprocess engine escapes.                                    *)
Report_ExceptionOnly(o, left) ==
  CASE o = "envelope" -> <<"result">>
    [] o = "EngineError" -> <<"error">>
    [] OTHER -> << >>

(* What the try statement of work() puts before its finally clause.        *)
Report(o, left) ==
  CASE o = "envelope" -> <<"result">>
    [] o = "EngineError" -> <<"error">>
    [] o = "BaseException" /\ ~left -> <<"error">>
    [] OTHER -> << >>

StreamReports(s) ==
  /\ lock = s /\ engine = "ran" /\ stream[s] = "running"
  /\ stream' = [stream EXCEPT ![s] = "reported"]
  /\ events' = [events EXCEPT ![s] = @ \o Report(outcome, gone[s])]
  /\ UNCHANGED <<NotStreaming, lock, engine, outcome, loaded, clock, relay, gone, seen>>

(* A plausible bug: the end is announced in the try, not in its finally.   *)
StreamLeaves_EndInTry(s) ==
  /\ lock = s /\ stream[s] = "reported"
  /\ \E ok \in BOOLEAN : Leave(ok)
  /\ events' = [events EXCEPT ![s] = IF outcome = "envelope" THEN Append(@, "end") ELSE @]
  /\ stream' = [stream EXCEPT ![s] = "ended"]
  /\ UNCHANGED <<NotStreaming, relay, gone, seen>>

(* If job_finished raises, the thread dies before it announces the end.    *)
StreamLeaves(s) ==
  /\ lock = s /\ stream[s] = "reported"
  /\ \E ok \in BOOLEAN :
       /\ Leave(ok)
       /\ events' = [events EXCEPT ![s] = IF ok THEN Append(@, "end") ELSE @]
  /\ stream' = [stream EXCEPT ![s] = "ended"]
  /\ UNCHANGED <<NotStreaming, relay, gone, seen>>

RelayNext(s) ==
  /\ relay[s] = "open"
  /\ events[s] # << >>
  /\ events' = [events EXCEPT ![s] = Tail(@)]
  /\ seen' = [seen EXCEPT ![s] = Append(@, Head(events[s]))]
  /\ IF Head(events[s]) = "end"
       THEN relay' = [relay EXCEPT ![s] = "closed"] /\ gone' = [gone EXCEPT ![s] = TRUE]
       ELSE UNCHANGED <<relay, gone>>
  /\ UNCHANGED <<NotStreaming, lock, engine, outcome, loaded, clock, stream>>

(* The client drops the connection.  Before the first iteration there is   *)
(* no thread to tell and the generator's finally clause does not run.      *)
Disconnect(s) ==
  /\ relay[s] \in {"requested", "open"}
  /\ relay' = [relay EXCEPT ![s] = "dropped"]
  /\ gone' = [gone EXCEPT ![s] = relay[s] = "open"]
  /\ UNCHANGED <<NotStreaming, lock, engine, outcome, loaded, clock, stream, events, seen>>

-------------------------------------------------------------------------------
(* The idle timer.                                                         *)

UpTo(n, limit) == IF n < limit THEN n ELSE limit

Tick ==
  /\ age' = UpTo(age + 1, ttl)
  /\ quiet' = UpTo(quiet + 1, ttl)
  /\ armed' = IF armed = NotArmed \/ armed = 0 THEN armed ELSE armed - 1
  /\ UNCHANGED <<queue, setup, lock, engine, outcome, loaded, expired, handler, streaming>>

(* The timer's thread wakes up in time to escape a later cancel().         *)
TimerFires ==
  /\ armed = 0
  /\ armed' = NotArmed
  /\ expired' = expired + 1
  /\ UNCHANGED <<queue, setup, lock, engine, outcome, loaded, age, quiet, handler, streaming>>

(* A plausible bug: a stale timer is not told from a current one.          *)
IdleExpired_Stale ==
  /\ expired > 0 /\ lock = Free
  /\ expired' = expired - 1
  /\ UnloadEngine
  /\ UNCHANGED <<queue, setup, lock, engine, outcome, age, armed, quiet, handler, streaming>>

(* idle_expired: "A job that ran meanwhile re-armed its own timer".        *)
IdleExpired ==
  /\ expired > 0 /\ lock = Free
  /\ expired' = expired - 1
  /\ IF age >= ttl THEN UnloadEngine ELSE UNCHANGED loaded
  /\ UNCHANGED <<queue, setup, lock, engine, outcome, age, armed, quiet, handler, streaming>>

-------------------------------------------------------------------------------
HandlerStep(h) == Call(h) \/ HandlerEnters(h) \/ HandlerLeaves(h)

ThreadStep(s) == StreamEnters(s) \/ StreamProgress(s) \/ StreamReports(s) \/ StreamLeaves(s)

Next ==
  \/ \E h \in Handlers : HandlerStep(h)
  \/ QueueStep \/ WorkerEnters \/ WorkerLeaves
  \/ \E o \in Outcomes : EngineEnds(o)
  \/ \E s \in Streams : ThreadStep(s) \/ Open(s) \/ RelayStarts(s) \/ RelayNext(s) \/ Disconnect(s)
  \/ Tick \/ TimerFires \/ IdleExpired

Spec == Init /\ [][Next]_vars

(* Threads that can run do, time passes and every engine call ends.  The   *)
(* lock has no order of service, but each request asks for it once.        *)
Fairness ==
  /\ \A h \in Handlers : WF_vars(HandlerEnters(h)) /\ WF_vars(HandlerLeaves(h))
  /\ \A s \in Streams :
       /\ WF_vars(StreamEnters(s)) /\ WF_vars(StreamReports(s)) /\ WF_vars(StreamLeaves(s))
       /\ WF_vars(RelayStarts(s)) /\ WF_vars(RelayNext(s))
  /\ WF_vars(WorkerEnters) /\ WF_vars(WorkerLeaves)
  /\ WF_vars((Q!Take \/ Q!Skip \/ Q!Start \/ Q!Finish)
             /\ UNCHANGED <<setup, lock, engine, outcome, loaded, clock, handler, streaming>>)
  /\ WF_vars(\E o \in Outcomes : EngineEnds(o))
  /\ WF_vars(Tick) /\ WF_vars(TimerFires) /\ WF_vars(IdleExpired)

FairSpec == Spec /\ Fairness

-------------------------------------------------------------------------------
(* Properties.                                                             *)

StreamEvents == {"progress", "result", "error", "end"}

(* The variables hold what the code's variables can hold; a timer is never *)
(* armed for longer than the idle TTL.                                     *)
TypeOK ==
  /\ Q!TypeOK
  /\ lock \in {Free, Worker} \cup Handlers \cup Streams
  /\ engine \in {"idle", "running", "ran"}
  /\ outcome \in Outcomes \cup {"none"}
  /\ loaded \in BOOLEAN
  /\ age \in 0 .. ttl /\ quiet \in 0 .. ttl
  /\ armed \in (0 .. ttl) \cup {NotArmed}
  /\ expired \in Nat
  /\ handler \in [Handlers -> {"idle", "waiting", "refused", "running", "answered"}]
  /\ stream \in [Streams -> {"idle", "waiting", "running", "reported", "ended"}]
  /\ relay \in [Streams -> {"idle", "requested", "open", "closed", "dropped"}]
  /\ gone \in [Streams -> BOOLEAN]
  /\ events \in [Streams -> Seq(StreamEvents)]
  /\ seen \in [Streams -> Seq(StreamEvents)]

(* "One engine process at a time, whether a job comes from a blocking      *)
(* request or the job queue" (app.py:104): whoever is between the start of *)
(* its engine call and the end of job_finished holds the lock, alone.      *)
Inside ==
  {h \in Handlers : handler[h] = "running"}
  \cup {s \in Streams : stream[s] \in {"running", "reported"}}
  \cup (IF lock = Worker THEN {Worker} ELSE {})
OneEngineRun ==
  /\ Inside = IF lock = Free THEN {} ELSE {lock}
  /\ engine = "idle" <=> lock = Free
  /\ lock = Worker => worker = "executing"

(* The engine is not started for a job cancelled, or for a stream whose    *)
(* client left, before its thread came to hold the lock (app.py:155, 195). *)
NoRunForTheGone ==
  [][engine # "running" /\ engine' = "running" =>
       /\ lock' = Worker => ~cancelled[current]
       /\ lock' \in Streams => ~gone[lock']]_vars

(* "A second job within the idle TTL reports load_s = 0" (README.md:213):  *)
(* a warm engine is unloaded only when no engine call ended within the TTL *)
(* and none is under way, however late a timer gets the lock.  TTL 0 is    *)
(* "unloads after every job".                                              *)
NoEarlyUnload ==
  [][loaded /\ ~loaded' => quiet >= ttl /\ engine # "running"]_<<loaded, quiet, engine>>

(* Late progress may come behind the outcome and behind the end of a       *)
(* stream, but what its client is handed has one outcome at most, result   *)
(* or error, and nothing behind the end; nobody announces the end before   *)
(* the outcome; and a client that is handed the end has learnt what became *)
(* of its job.                                                             *)
StreamShape ==
  \A s \in Streams :
    LET sent == seen[s] \o events[s]
        Final == {i \in DOMAIN sent : sent[i] \in {"result", "error"}}
        End == {i \in DOMAIN sent : sent[i] = "end"}
    IN  /\ \A i, k \in Final : i = k
        /\ \A i, k \in End : i = k
        /\ \A i \in Final, k \in End : i < k
        /\ \A k \in End : k <= Len(seen[s]) => k = Len(seen[s])
        /\ relay[s] = "closed" =>
             /\ Len(seen[s]) \in End
             /\ \E i \in Final : i < Len(seen[s])

(* Everyone who asks for the engine gets an answer, although the lock has  *)
(* no order of service: requests are answered, a stream ends for the       *)
(* client that stays, its thread for the client that leaves.               *)
EveryoneServed ==
  /\ \A h \in Handlers : handler[h] = "waiting" ~> handler[h] = "answered"
  /\ \A s \in Streams :
       /\ relay[s] \in {"requested", "open"} ~> relay[s] \in {"closed", "dropped"}
       /\ stream[s] = "waiting" ~> stream[s] = "ended"

(* "After --idle-ttl seconds with no job it is unloaded" (README.md:214).  *)
UnloadedWhenIdle == loaded ~> ~loaded

(* Seen from the job queue, the daemon is an `_execute` that always ends,  *)
(* and every other step leaves the queue alone: the assumptions under      *)
(* which JobQueue was checked hold here.                                   *)
ServesTheQueue == Q!FairSpec

===============================================================================
