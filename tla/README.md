# Formal models of local-image-generator

TLA+ models of `lig`, their model checking with TLC, and proofs about them with
TLAPS. `lig` generates and edits images with local engines (stable-diffusion.cpp,
ncnn, mlx), alone or through a daemon, `lig serve`, that several clients share; it
also downloads and verifies model weights (`lig models`) and renders photo series
from one brief (`lig-series`). Paths below are relative to the repository; line
numbers are those of the modelled commit.

`PROJECT.json` holds the machine-readable part: the components, the runs, a mutant
for each checked property, the map from definitions to source lines, findings,
hazards and the proved theorems.

## 1. The system

| Component | State | Operations | Interacts with |
|---|---|---|---|
| Job queue, `server/jobs.py` | `_jobs`, `_active`, `_finished` under one lock; `_pending`, a thread-safe queue; a worker thread with its locals; a cancel event per job | `submit`, `get`, `cancel` by handler threads; `_run`, `_retire` by the worker; `on_progress` by the engine's output threads | daemon (`_execute` = `run_queued`), HTTP clients that poll |
| Daemon, `server/app.py` | `engine_lock`, `idle_timer`, `last_job_end`, the backend's `loaded`; per stream an event queue and the event `gone` | blocking `POST /v1/generate` and `/v1/edit`, `?stream=1`, `?queue=1`, `GET`/`DELETE /v1/jobs/{id}`, health and models | job queue, warm engine, engine runner |
| Engine runner, `backends/runner.py` | a process group, two pipes and pump threads, `stderr_tail`, `cancelled`, poll loop | `run_engine`, `_end_group` | adapters, engine binaries, logs, `on_progress` of every caller |
| Warm engine, `backends/mlx.py` | `_model`, `_progress`, `loaded`, a worker thread for MLX | `generate`, `edit`, `_load`, `unload` | daemon |
| Adapters, `backends/sdcpp.py`, `ncnn.py`, `fake.py` | none across calls | command lines, availability | engine runner |
| Remote client, `backends/remote.py` | cached health, id and last step of a job | `_post` with one retry, `_generate_queued`, `_follow_job`, `_cancel_job` | daemon over HTTP |
| Weight downloads and cache, `models/downloader.py`, `models/cache.py` | per artifact: the file, `.part`, `.corrupt`, the `.sha256.ok` marker; no lock | `pull_artifact`, `verify_artifact`, `rm`, `prune` | HTTP server, other `lig` processes |
| Photo series, `series/runner.py`, `series/cli.py` | `series.json`, the images, plan files | first run, `--resume`, `--from-plan`, `--keep-going` | planner (gemma), `lig generate` as a subprocess |
| Series planning, `series/plan.py`, `settings.py`, `compose.py`, `prompts.py`, `gemma.py` | none across calls | settings, one scene per shot, prompt composition, retry on 429/503 | gemma command |
| Output files, `core/output.py` | image and sidecar files | `_free_stem`, `_atomic_write`, `write_result` | other `lig` processes |
| Logs, `core/logs.py` | one file per engine run, 50 retained | `prune_logs`, `EngineLog` | engine runner |
| Run planning, `core/run.py`, `core/memory.py`, `core/models.py` | none | sizes, steps, engine choice, memory refusal | CLI and daemon |
| Configuration, `core/config.py`, `core/llm_key.py`, `server/bind.py` | config file | precedence, bind address | CLI and daemon |
| Model registry, `models/registry.py` | a YAML file | artifact set of an engine, platform, quantization | downloads, adapters |
| Prompt rewriter, `core/rewriter.py` | none | one HTTP call with a bounded retry | CLI |
| Bench, doctor, sheets, `core/bench.py`, `doctor.py`, `sheet.py` | none | reports, statistics, contact sheets | CLI |
| Characters, `series/characters.py` | one file each | save, load | series CLI |
| Command line, `cli/` | none across calls | option parsing, `seeds` and `sizes` batches | everything |

### What is hard about it

- **Threads.** In the daemon, handler threads, the queue's worker, a work thread
  per stream, an idle timer and two pump threads per engine run share state. Three
  kinds of them compete for one lock without an order of service. Progress is
  written without a lock by threads that can outlive their engine call.
- **Cancellation.** A job can be given up while it waits, between the end of the
  wait and the start of the engine, while the engine runs, and between the
  engine's end and the publication of its result. The abort travels as an
  exception raised in a callback of a pump thread.
- **Processes.** An engine can hang, ignore SIGTERM, leave a descendant with its
  pipes, fill a pipe, print its last words just before it dies.
- **Crashes.** A download and a series are killed at any time; what a later
  command may trust is only what is in the files.
- **Time.** A warm engine is unloaded after a time without jobs; the timer may
  fire while a job has the lock.
- **Two processes.** Nothing locks the model cache, the output directory or the
  log directory.

### What makes each component correct

- *Job queue*: jobs get the engine in order of arrival, one at a time; no job is
  lost or leaks; an outcome, once published, does not change, whatever comes late;
  the history holds the last jobs; it serves as an abstract first-come first-served
  service would, so that each job leaves.
- *Daemon*: one engine run at a time, none for a client that has gone; no unload
  before the idle time, and an unload after it; well-formed event streams;
  everyone who asks gets an answer.
- *Runner*: an abort is never reported as something else; the engine never outlives
  the call, an interrupt or a timeout leaves no descendant of it either, and an
  interrupt no partial image; an error carries the engine's last lines; the call returns.
- *Series*: after any kill, `series.json` is a truthful prefix; the exit code
  matches it; what a resume keeps had been planned.
- *Downloads*: what reads as installed was verified, after any sequence of killed
  commands; in a file that is resumed every chunk is in its place; every pull ends.
- *Remote client*: a call is rendered once at most, whatever is lost or late; an
  abandoned job is cancelled unless that request is lost; what the client reports is
  what became of its job; every call ends.
- *Commands* (`generate`, `edit`, `seeds`, `sizes`, `serve`): a refusal comes before
  anything has been done; a batch reports what is there and succeeds only if
  all of it is.
- *Output and logs*: no image without its sidecar; the newest logs stay and there are not
  more than fifty, but for logs being created at once.
- *Rules* (configuration, sizes, engines, registry, memory, bind): what reaches an engine
  was admitted by them, whichever layer said it; an open address is never taken by default.

## 2. Modules

| Module | Models | Rests on |
|---|---|---|
| `JobService` | abstract: one line of jobs, one server, first come first served | - |
| `JobQueue` | `server/jobs.py` | refines `JobService` |
| `JobQueueProofs` | theorems about `JobQueue`, and the proof that it implements `JobService` | extends `JobQueue` |
| `Daemon` | `server/app.py`: the engine lock, requests, streams, idle timer | `INSTANCE JobQueue` |
| `DaemonProofs`, `RemoteProofs` | theorems about `Daemon` and `Remote`, with those of the queue inside them | `INSTANCE JobQueueProofs` |
| `Runner` | `run_engine` of `backends/runner.py` | - |
| `Series` | `series/runner.py`, `--resume` of `series/cli.py` | - |
| `Pull` | `models/downloader.py`, `models/cache.py`, `lig models` | - |
| `Remote` | `backends/remote.py` against a daemon that may restart, over bad connections | `INSTANCE JobQueue` |
| `Rules` | the decisions, without state: `core/config.py`, `core/run.py`, `core/models.py`, `core/memory.py`, `models/registry.py`, `server/bind.py`, what the adapters can do, the sheet's layout | - |
| `Command` | `cli/generate.py`, `edit.py`, `seeds.py`, `sizes.py`, `serve`; `core/output.py`, `core/logs.py`, `core/rewriter.py`, as processes that share directories | extends `Rules` |
| `RunnerProofs`, `SeriesProofs`, `PullProofs` | theorems about the module of the same name | extend it |
| `RulesProofs` | lemmas about the rules: settings, nearest sizes, the memory estimate, the sheet's tiles | extends `Rules` |
| `CommandProofs` | theorems about `Command` | extends `Command`, `RulesProofs` |
| `MCCommand` | machines and command lines for TLC | extends `Command` |

A definition named `X_Something`, introduced by "A plausible bug", is a mutated form
of `X` and no part of the model: replacing `X` by it must make the property listed
with it in `PROJECT.json` fail.

### JobQueue

Every critical section of the queue's lock is one action (`Submit`, `Cancel`,
`Skip`, `Start`, `Finish`); what a thread does outside the lock is a step of its own:
`Take` (the worker returns from `_pending.get()` and does not hold the lock yet),
`ExecuteEnds` (the engine call is over, nothing published), and the two halves
of `on_progress` (`ProgressCheck`, `ProgressWrite`), because the event is tested
before the progress is written and no lock is held. `SubmitWithoutThread` is the
first `submit` whose `Thread.start()` raises. `get` changes nothing; what it shows is
in the properties. A job is named by its place in the order in which `submit`
took the lock, where the code draws a uuid.

A callback may come for any job that has started (`MayReport`): `run_engine` joins its
pumps for a bounded time only, so a pump can still be inside `on_progress` when the
worker has moved on.

### Daemon

`Daemon` instantiates `JobQueue` and replaces its free-standing `ExecuteEnds` by
`run_queued`: `WorkerEnters` (wait for `engine_lock`, look at the cancel event, call
the engine), `EngineEnds`, `WorkerLeaves` (`job_finished`, release). The test of the
cancel event and the call are one step, since both are under the lock and a cancel
that comes between them has the effect of one that comes just after. A blocking
request is a `handler`, a streamed one a work thread (`stream`), its generator
(`relay`), the event `gone` and the queue `events`; `seen` is what its client got.

The code compares ages, so time is kept as `age` (of `last_job_end`), `armed` (what is
left on the timer) and `quiet` (a history variable: since when no engine call
has ended), each cut off where the code does not tell values apart. `expired` counts
timers that fired and wait for the lock: `cancel()` does nothing to them. Progress
callbacks of queued jobs are left to `JobQueue` (`MaxSteps = 0` here, `Pumps = {}`; nothing in
`Daemon` looks at the progress they write), as is the first `submit` that starts no thread.

`on_progress` of a stream takes no lock. A warm engine calls it itself, on the thread that generates,
and forgets it afterwards; a subprocess engine's pumps call it, and the joins of `run_engine` are bounded. So
`StreamProgress` may come late (`MayReport`): behind the result or the error in `events`, and behind the end. What
a client is handed is fixed by the relay, which stops at the end: `StreamShape` says that there is one
outcome at most and one end at most, in this order, that nothing is handed on behind the end, and that a client
that got the end got an outcome. Progress may stand between the outcome and the end.

### Runner

State of `run_engine` after the process and its pumps have been started: the group
(`leader`, `child`), the pipes (`printed - read` lines wait in a pipe with `Room` for
them), the pumps, and the calling thread's place (`pc`). Each `wait`, test and signal is
a step. Reading a line, logging it and appending it to `stderr_tail` is one step (the
last two are under a lock); SIGKILL and the wait for it is one step. The deadlines
for a signalled process (5 s, 10 s) and for a pump (10 s) are taken to be long enough
for what can still happen: `Join` waits for each pump that is not `Blocked` on a pipe
nobody may ever write to.

### Series

One action per step of `run_series` between two effects on the disk or a subprocess.
`Kill` may come between any two. `Resume` is what
`_resume_live` and `_render_plan` of `cli.py` read from `series.json` and hand to `run_series`. The
`sorted` of `_resume_live` is the identity, since records are written in order
(`ManifestTruth`). `done`, `known` and `seed` are the arguments the
run was given; `recorded` is a history variable. Which of the prompts is rendered,
and the plan itself beyond how many shots of it are known, are abstracted.

### Pull

One artifact. Names and files are kept apart, because a process goes on writing to
the file another one has renamed; a `.part` opened with `"ab"` appends wherever the end
now is, one opened with `"wb"` writes at its own place. A digest is the sequence of
chunks it was fed. `Fail` is Ctrl-C, a crash, a `DownloadError` and an `OSError`: in each
case the command ends and the files stay. The loop over the body writes and hashes whatever arrives; a bad server
(`BadServer`) sends other chunks than the registry's, and fewer or more of them, so that a `.part`
may be longer than the artifact and a body may end early without an error. `PartIsPrefix` therefore says nothing of
the length: only that each chunk of a `.part` is the one of its place or what a bad server sent for it, so that
none is there twice and none left out by a resume. `Rot` damages an installed file, which is
what `verify` is for.

### Remote

Each client is one `lig` process with one call: health, then either one POST that holds
its connection until the image comes (`_post`) or a POST that is answered with
an id, polls and, on every other end, a DELETE (`_generate_queued`, `_follow_job`,
`_cancel_job`). A POST is on its way (`conn = "request"`) until the daemon takes it up, refuses it or it is
lost, also when its sender has given up in between; the same holds for a DELETE
(`delete = "sent"`). Nothing distinguishes a request of a client that has gone from that of one
that waits, so a late request is still served. A second attempt follows only a failed
connect (`TryAgain`). A poll and its answer are one step, since the request changes nothing; a broken
answer to it is `AskFails`. `Restart` empties the queue and ends every connection; ids are uuids and never
come again, which `epoch` stands for. The jobs are those of `JobQueue`, without its
progress callbacks, and the daemon's engine lock, which delays a job and changes none, is left to `Daemon`.

### Rules and Command

`Rules` has no variables. A layer of the configuration is a function from the keys it
mentions; `Overlay` is one pass of the loop that merges them. Sizes are pairs; memory
is in MiB and factors are in hundredths, since byte counts do not fit TLC's integers; the registry has
the figures of `registry.yaml` in these units. A value that may be absent is a set of at most one element.

`Command` runs several processes through the phases of their functions. A process has the locals
of its command (`requests`, `members`, `stem`, ...); the output directory (`files`, `sheets`), the logs and the installed weights
are shared, and nothing locks them. Steps end where another process can be seen: after `_free_stem`, after
each file, between listing and unlinking old logs. Listing and finding a free number
are one step each; unlinking old logs and creating one's own is one step. `Kill` may come
between any two steps; `WriteFails` takes the sidecar back as `write_result` does; `RemoveWeights` is another
process's `lig models rm`. The names of images are their prompt and seed: all images are saved within the same second,
the only time names can clash. `contested` remembers the stems that two processes had found free at the same time.
The engine run is one step that succeeds or fails; what can happen in it is in `Runner`.

## 3. Runs

State counts are TLC's distinct states.

| Run | Checks | Instance and why it is enough | States |
|---|---|---|---|
| `jobqueue` | `TypeOK`, `ActiveOrder`, `NoJobLost`, `Retention`, `OutcomeMatchesState`, `OverIsOver`, `StartsInArrivalOrder`, `ImplementsService` | 4 jobs, history of 2: two evictions, a job cancelled in the middle of `_active`, a job cancelled while another one runs; 2 pumps, so that one is late while the other one reports for the next job; the thread may fail to start; the abstract service's liveness is part of what is refined | 246,715 |
| `daemon_safety` | `TypeOK`, `OneEngineRun`, `StreamShape`, `NoRunForTheGone`, `NoEarlyUnload` | each kind of contender for the lock (2 jobs, 1 blocking request, 1 stream), idle TTL 0 and 2, subprocess and warm engine; one progress event per stream, that may be late; unload and timer start may fail | 4,610,366 |
| `daemon_liveness` | `EveryoneServed`, `UnloadedWhenIdle`, `ServesTheQueue` | one of each contender; TTL 0 and 1; one progress event, that may be late; timers start and unloading works | 215,666 |
| `series_safety` | `TypeOK`, `ManifestTruth`, `DoneArePlanned`, `ExitTellsTheTruth` | 3 shots, a first run and two resumed ones: a resume of a resume, gaps after `--keep-going`; kills anywhere, images removed in between, two seeds | 1,136,982 |
| `series_resume` | `ResumeRendersOnlyMissing`, violated | 2 shots, 3 starts | - |
| `series_gemma` | `FailureIsRecorded`, violated | 2 shots, 1 start | - |
| `pull_safety` | `TypeOK`, `InstalledIsVerified`, `PartIsPrefix`, `PullEnds` | 2 chunks (a part may be empty, half, complete), 4 commands in a row, so that three leave something behind for the fourth; other bytes from the server, too few or one chunk too many | 624,058 |
| `pull_overlap` | `OverlappingPullsVerified`, violated | 2 processes, 2 commands, an honest server | - |
| `runner_run` | `TypeOK`, `AbortWins`, `NothingLeftBehind`, `ErrorHasLastLines`, `EngineReturns` | 2 lines through pipes that hold 1, so that either stream can fill up; `TAIL_LINES` 1, so that a line is dropped; no timeout or one of a single poll; up to 2 Ctrl-C | 303,856 |
| `remote` | `TypeOK`, `RenderedOnce`, `AbandonedIsCancelled`, `ReportIsTrue`, `CallEnds` | 2 clients, each queueing or not, a history of 1 so that the second job's end evicts the first one's result, 1 restart, Ctrl-C and lost or late requests anywhere | 604,506 |
| `command` | `TypeOK`, `RefusedMeansNothingDone`, `ImageHasSidecar`, `BatchTellsTheTruth`, `AdmittedByTheRules`, `LogRetention` | 2 processes: one with any of 24 command lines, the other an image of the same name or a batch; 5 machines (a laptop, a Mac whose layers disagree, a host without projector, two with a bad configuration); 2 logs at most, so that each run prunes; weights removed once in between | 434,715 |
| `command_edit` | `EditFitsInMemory`, violated | one edit on the laptop, with memory for the weights but not for the projector | - |

Bounds: `MaxJobs`, `MaxSteps` and `MaxFinished` (in the code 32) for the queue; `Handlers`,
`Streams`, `MaxProgress`, `Ttls` for the daemon; `MaxRuns`, `Count`, `Seeds` for series;
`MaxCalls`, `Chunks`, `MaxExcess` (chunks beyond the artifact) for downloads; `MaxLines`, `Room`, `TailLines` (in the code 20),
`Timeouts` (counted in polls), `MaxInterrupts` for the runner; `MaxRestarts` for the remote client;
`MaxLogs` (in the code 50), `SeedLimit` (in the code 2^32), `MaxRemovals` for commands. A bound stands in the guard
of the action it bounds. Each instance really stops when its clients have
made all their requests, so no run checks for deadlock; that nothing gets stuck
is what the liveness properties say.

No run uses symmetry: jobs are ordered, and the other sets have at most two elements.

### Fairness

- *Queue*: `WF` on the steps of the worker thread (a thread that can run does), and on the end
  of `_execute`. Nothing is assumed of clients. `Daemon` discharges the second
  assumption: `ServesTheQueue` shows that the daemon with its lock, contenders and timers
  satisfies the queue's `FairSpec`.
- *Daemon*: `WF` on each thread, on time, and on the end of an engine call. A
  `threading.Lock` promises no order of service, and `WF` of "the lock is free and I take it" is
  weaker than what would be needed against a contender that comes back for ever;
  it suffices here because each request of the instance asks for the lock once.
  The engine call ends because an engine that does not hang ends (`EngineReturns`);
  a hanging engine without a timeout blocks the daemon, in the model and in the code.
- *Series*: none; a run may stop anywhere.
- *Pull*: `WF` on "the command takes a step or fails": the HTTP client has a 30 s connect and a
  60 s read timeout, after which the command fails.
- *Remote*: `WF` on the client's steps, on the worker, and on each request being taken up, answered or
  lost. The code sets no deadline for reading, so that a dead connection is noticed is an assumption about the
  peer's operating system; `CallEnds` rests on it. Ctrl-C, restarts and losses are never assumed to happen.
- *Command*: none; a command may stop anywhere.
- *Runner*: `WF` on the pumps and the calling thread; the engine makes progress only in
  the behaviours where it does not hang.

### Where the code and its documents disagree

1. `series_resume`: `README.md:247` says `--resume` renders only the shots without an image. A resumed run
   starts with an empty `series.json`; killed before its first write, it has erased the records
   of the shots that have images, and the next resume renders these again.
2. `series_gemma`: `docs/stories/epic-09-photo-series.md:173` says that a series stopped by a failure records the
   failed and the skipped shots. A failure of gemma itself (it is missing, times out, exits with
   an error) raises `GemmaError`, which the loop does not catch, as it catches the subclass `SeriesError`.
3. `pull_overlap`: `cache.py:4` says a marker means that the checksum was confirmed. Of two overlapping pulls
   of one artifact each hashes what it received, not the `.part` both write, so a marker can
   appear beside content nobody confirmed.
4. `command_edit`: `memory.py:21` says the projector is loaded for edits, and `estimate_peak_bytes` counts it when told
   of an edit; `run.estimate_memory` never tells it. `lig edit` starts an engine that needs 1.1 GB more than was checked.

Some properties carry an exception that is itself a statement about the code:
`NoJobLost` exempts a queue whose worker could not be started (no later `submit` starts one);
`UnloadedWhenIdle`, `EveryoneServed` and `ServesTheQueue` are checked where timers start and
unloading works (`job_finished` that raises ends a stream without its last event);
`InstalledIsVerified` is for commands that do not overlap;
`OverIsOver` protects the state, the result and the error of a job that is over, and the progress of a cancelled one with
no callback under way: a late callback does change the progress of a job that is done or has failed, and nothing stops it;
`NothingLeftBehind` speaks of descendants only after an interrupt or a timeout, and of the image only after an interrupt: a run that
ends by itself may leave both, and the code does not clean up there; it exempts unkillable processes and a Ctrl-C that comes when the run is ending already;
`ErrorHasLastLines` and `EngineReturns` exempt a log that cannot be written;
`AbandonedIsCancelled` exempts a client that was never given an id, whose job runs to its end;
`ImageHasSidecar` and `BatchTellsTheTruth` exempt the stems two processes found free in the same second (one image is then lost);
`ImageHasSidecar` is checked with `LateInterrupt = FALSE`: with `TRUE`, TLC finds the Ctrl-C that comes when the image is
in its place and `_atomic_write` has not returned, so that the sidecar is unlinked and the image stays;
`LogRetention` grants one log more for each other process that is creating one.

## 4. Proofs

A run shows a property for one small instance, a theorem for every value of the constants that satisfies
the module's assumption. Every invariant and every action property of the passing runs is stated by a theorem;
what is left to TLC is listed at the end of this section.

| Theorem | Says |
|---|---|
| **`JobQueueProofs`** | |
| `TypeCorrect` | `Spec => []TypeOK` |
| `ActiveOrdered` | `Spec => []ActiveOrder`: `_active` is the job that has the engine, then the queued jobs in order of arrival |
| `NothingLost` | `Spec => []NoJobLost`: each queued job is in `_pending` or in the worker's hands |
| `OutcomesMatch` | `Spec => []OutcomeMatchesState` |
| `HistoryRetained` | `Spec => Retention`: the ids that can be looked up are those of `_active` and of the history, which holds no job twice and is full before it forgets one; a job that leaves `_active` becomes its newest and, if it is full, its oldest is forgotten |
| `FirstComeFirstServed` | `Spec => StartsInArrivalOrder` |
| `OverStaysOver` | `Spec => OverIsOver`: state, result and error of a job that is over stay; so does the progress of a cancelled job with no callback under way |
| `QueueImplementsService` | `Spec => Service!Safety`: the queue is a first-come first-served service, the safety part of `ImplementsService` |
| **`DaemonProofs`** | |
| `QueueIsServed` | `Spec => Q!Spec`: the daemon uses the queue as `JobQueue` says, the safety part of `ServesTheQueue` |
| `TypeCorrect`, `OneRunAtATime` | `Spec => []TypeOK`, `[]OneEngineRun` |
| `StreamsAreWellFormed` | `Spec => []StreamShape`: also with late progress, one outcome and one end at most, nothing behind the end for the client, no end without an outcome |
| `GoneAreNotServed`, `NeverUnloadedEarly` | `Spec => NoRunForTheGone`, `NoEarlyUnload` |
| **`RunnerProofs`** | |
| `TypeCorrect`, `AbortsWin` | `Spec => []TypeOK`, `[]AbortWins` |
| `NothingIsLeft` | `Spec => []NothingLeftBehind`: the engine has ended; after an interrupt or a timeout no descendant is left, after an interrupt no image |
| `LastLinesReported` | `Spec => ErrorHasLastLines` |
| **`RemoteProofs`** | |
| `TypeCorrect`, `NeverRenderedTwice`, `AbandonedJobsAreCancelled`, `ReportsAreTrue` | `Spec => []TypeOK`, `[]RenderedOnce`, `[]AbandonedIsCancelled`, `[]ReportIsTrue` |
| **`SeriesProofs`** | |
| `TypeCorrect`, `ManifestIsTrue`, `KeptShotsArePlanned`, `ExitIsTrue` | `Spec => []TypeOK`, `[]ManifestTruth`, `[]DoneArePlanned`, `[]ExitTellsTheTruth` |
| **`PullProofs`** | |
| `TypeCorrect`, `MarkerTellsTheTruth` | `Spec /\ []Alone => []TypeOK`, `[]InstalledIsVerified` |
| `PartIsAPrefix` | `Spec /\ []Alone => []PartIsPrefix`: each chunk in its place; with an honest server the `.part` is a prefix of the artifact |
| **`CommandProofs`** | |
| `TypeCorrect`, `RefusalsComeFirst`, `NewestLogsStay` | `Spec => []TypeOK`, `[]RefusedMeansNothingDone`, `[]LogRetention` |
| `SidecarsComeFirst` | `Spec => []ImageHasSidecar` if `LateInterrupt = FALSE` |
| `AdmissionsAreRight` | `Spec => []AdmittedByTheRules` |
| `BatchesTellTheTruth` | `Spec => []BatchTellsTheTruth` |
| `ReportedImagesAreThere`, `SuccessMeansComplete` | its first two parts, for each process, from less |

`RulesProofs` has no theorem about behaviours, since `Rules` has no state. Its main lemmas are results about the rules of their own:
`NearestAreNear` (the sizes `parse_size` proposes are possible, and no possible one is nearer), `PeakGrows` (an image with
more pixels never needs less memory), `GridIsSpread` and `RowIsSpread` (tiles do not cover each other).

### What is assumed

Each module that declares constants states what it assumes of them, and TLC evaluates it in each run: types, and
`MaxFinished > 0` (the code has 32), `Room > 0` (a pipe holds something), `Chunks > 0`, `Count > 0`
(a series has a shot; `ShotSettings` refuses others), `MaxLogs > 0` (50), `SeedLimit > 0`; that handlers, streams and the worker are
different threads; that there are finitely many processes; that command lines and configuration layers
have the fields and kinds the parsers give them (`IsCommandLine`, `IsLayer`); that the memory of a machine is a number or unknown. Two theorems have a hypothesis beyond that, both because the code does
otherwise without it:

- `PullProofs` is about behaviours in which no two commands overlap (`[]Alone`), with any number of processes; run
  `pull_overlap` shows what overlapping pulls do. `OneProcessIsAlone` shows that with one process, as in `pull_safety`, the condition always holds.
- `SidecarsComeFirst` excludes the Ctrl-C between `os.replace` and the return of `_atomic_write` (section 3).

### Along which argument

None of the properties is inductive alone; each module names the parts that make it so, in `IInv`.

*JobQueue.* `Arrivals` (a job has arrived exactly if its number is at most `submitted`); `WorkerLocals`
(which states `current` may have at each place of the worker); `PendingOrder` (`_pending` is in order of
arrival and behind what the worker holds); `ActiveMembers` (every queued job is in `_active`,
and only jobs that have arrived are); `ActiveOrder`; `NoJobLost`; `OutcomeMatchesState`. `_active` and `_pending` are two lists
changed under different rules: a cancelled job leaves the first at once and the second when the worker meets it.
`HandIsFirst` combines `PendingOrder` and `NoJobLost`: a job in the worker's hands that still waits
arrived before every other job that waits, and so is the first of `_active`. From it follow that a started job is at the front of `_active`
(`StartIInv`) and that jobs start in order (`FirstComeFirstServed`). `Without` is
`list.remove`; `WithoutOnce` says what it leaves of a list without duplicates, and
`RemoveActive` applies it to `_active`. `Retention` is a state part and a step part (`HistoryIsFull`, `ForgetsTheOldest`). The first needs one thing more (`NotYetRetired`): a job that was cancelled while it ran is over, and still
in `_active` until the worker retires it. The second follows from it: a history that is never longer than `MaxFinished` loses
one job at most when one is appended, and `Kept` makes that its head (`RetireForgets`).

*The queue as a service.* The line of `JobService` is `_active` without its served head. The lemmas say which step is which: `Submit` is an arrival, `Cancel` a withdrawal
(of a queued job) or an abort (of the one being served), `Start` the beginning of a service, `Finish` its completion, and every other step stutters. They rest on `IInv`:
that `Cancel` removes from the line exactly the job it names, and that what `Start` serves is the first in the line, is `ActiveOrder`.

*Daemon.* `QueueIsServed` shows, action by action, that a step of the daemon is a step of `JobQueue` or leaves the queue's variables alone, so that every theorem about
`JobQueue` holds inside the daemon. Of the daemon's own: whoever holds the lock is the one inside (`OneEngineRun`, inductive with the type invariant); `AgeIsTrue` relates what
the code knows of idleness (`age`) to what is true (`quiet`): while nobody has the lock the code does not take the engine to be idle for
longer than it is, which `NoEarlyUnload` needs for a timer that waited for the lock; `AbortedForTheGone` says that only a client that left aborts a stream's run; `Shape` says
which outcomes and ends a stream has sent at each place of its thread (`Announced`) and how much of it the relay has handed on (`Handed`), where `StreamShape` only speaks of
the whole. Late progress changes neither, since the lemmas are about the places of outcomes and ends only (`EventsMore`, `GoesOn`).

*Runner.* An abort is remembered in `cancelled` until the caller looks at it, and in `handling` from then on (`AbortPending`); the property speaks of the end only. `CleanedUp`
says from which place of the caller on nothing is left. `TailIsLast` relates the deque to what the pump has read, and says that a pump that saw the end of its pipe has read
everything; with the join, that makes the error's lines the last ones. `RememberLast` is the lemma about the bounded deque.

*Remote.* `IInv` includes the queue's invariant, which `QueueStep` of `JobQueueProofs` carries over each step. `SentOnce`: a request that can still arrive has not been accepted.
`StillTrue`: what a client was told of its job is still true (an outcome never changes, a forgotten job does not come back), which needs `OverStep` and `History` of the queue's proofs.
`UnknownIsForgotten` is the fact about the queue behind "no longer knows": an id that arrived and cannot be looked up belongs to a job that is over, with a full history.

*Series.* The exit code and the file are related through what the loop has in memory: its records are numbered without a gap up to the shot it is at, all planned, and the exit code is 0
as long as all are done (`Loop`). That the records a resume keeps are planned (`DoneArePlanned`) needs that the planned ones of a saved file are a prefix (`Manifest`), which every way to stop the loop must leave true.

*Pull.* `Current`: what a process has read off the files is still so when it acts on it, which is true because nobody else acts (`Alone`): the size of `.part` behind the
request, the digest and the position behind each chunk, the target behind the marker. `Sound`: what is in a file is in its place, unless the disk damaged the file, which never is the `.part`. `Separate`: two names are never one file; `Budget` bounds the files.

*Command.* `Progress` says what a command has at each phase. For files, `Claim`: a stem that one process found free and no other did is nobody else's until it is written, and `Reported`:
an image that is there only gives way to one of the same name. For logs, the bound is about a set each process listed at another time. `LogsKept` therefore has a witness the
model does not: for each process about to create its log, the set `since` of those that created one since it listed. Creating a log adds its owner to the sets of
the others, and what a process unlinks leaves at most `MaxLogs - 1` and one for each member; the sets are closed (who created a log since `q` listed, and `q` since `p`, did since `p`).

For `AdmittedByTheRules`, `Admitted` says more than the property at the earlier phases: what is planned can be rendered and has the right size from the moment it is planned (the rewriter
changes only the prompt), and it fits from the moment the memory was checked. The check looks at one image of a batch, the one with the largest area; `OneFitsAllFit` is why that is enough: there is such an image
(`MeasuredIsLargest`), and the estimate grows with the area (`PeakGrows`), which rests on every side being a multiple of 32, for the estimate divides each side by 32 and rounds down.
`SizeOfTheLayers` shows that the loop that merges the layers comes to what `SizeSaid` says in one sentence.

`BatchTellsTheTruth` has three parts, from three invariants: `ReportedAreThere` from `FileInv`, `SuccessIsComplete` from `SheetInv`, `TilesApart` from `Admitted`, since tiles are apart if all sizes are
positive. In a row, a tile begins where the widths before it end (`TotalGrows`); in a grid, two places differ in their row or their column (`PlacesDiffer`), and cells of different rows or columns are
apart (`CellsApart`).

The sums in both are `MapThenSumSet` of the community modules, a function on the subsets of a set that `CHOOSE` picks by its recursion. That there is one, that only one is, and what it does when an element is
added, is proved in `RulesProofs` by looking at the smallest cardinality for which it would fail (`SumExists`, `SumIsUnique`, `TotalStep`), without an induction theorem.

### What stays with TLC

- Liveness: `EveryoneServed`, `UnloadedWhenIdle`, `PullEnds`, `EngineReturns`, `CallEnds`, and the fairness in `ImplementsService` and
  `ServesTheQueue`. The prover handles neither `ENABLED` nor fairness; of the two refinements it proves the safety part.
- The disagreements of section 3: runs that find a property violated.

## 5. Not modelled, and why

- HTTP, JSON, image and prompt content, wording, terminal output: no property is about them.
- Read-only operations: the daemon's health and models, the report of `lig models list`, `doctor`, `bench`.
- The contact sheet of a series; that of a batch is in `Command`.
- `lig serve` without its extra packages or without a usable models directory: it ends before it listens.
- `_load` of `mlx.py` failing between two of its assignments: `Daemon` lets a failed call leave the engine loaded or not.
- Gemma's and the rewriter's texts, the composition of prompts, saved characters.
- The choice of an artifact set by quantization: only `lig models` uses it, and it reads.
- `Popen` failing, and Ctrl-C between `Popen` and the `try` of `run_engine`: a window of a few
  bytecodes before any pump exists; listed here because a run could leave an engine behind in it.
- `--seed` given with `--resume`: the user then asks for another seed.
- `/v1/edit`'s upload, beyond its being refused before the lock.
- Two series in one directory: by default each run names its directory after the time it started.
- Release scripts: text processing outside the program.
- Whatever the plan below has not reached.

## 6. Plan

1. *(done)* `JobQueue` with `JobService` and its proofs; `Daemon`; `Runner`; `Series`; `Pull`.
2. *(done)* Breadth: `Remote`; `Rules` and `Command`.
3. *(done)* Depth: every safety property of every module, and the safety part of both refinements
   (without overlap for the downloads, without a late Ctrl-C for `ImageHasSidecar`).
4. If wanted later: the retry of the gemma client, and `_load` of `mlx.py`.
