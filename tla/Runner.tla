-------------------------------- MODULE Runner --------------------------------
(***************************************************************************)
(* run_engine (src/lig/backends/runner.py): one run of an engine binary.   *)
(* The calling thread polls the process; two pump threads drain its output *)
(* into the log and call on_progress, which raises to abort the run; a     *)
(* timeout, an abort or Ctrl-C ends the whole process group.               *)
(*                                                                         *)
(* The engine is a group leader and one descendant that may hold the pipes *)
(* open.  A line is its number on its stream; whether it is a progress     *)
(* line shows when it is parsed.  The code's deadlines are of two kinds:   *)
(* the timeout is counted in polls, and the waits for a signalled process  *)
(* (5 s, 10 s) and for a pump (10 s) are long enough for whatever can      *)
(* still happen to happen.                                                 *)
(***************************************************************************)
EXTENDS Integers, SequencesExt

CONSTANTS
  MaxLines,      \* how many lines the engine prints at most
  Room,          \* how many lines a pipe holds
  TailLines,     \* TAIL_LINES
  Timeouts,      \* the timeouts considered, in polls, or NoTimeout
  MaxInterrupts  \* how many times Ctrl-C is pressed at most

(* Stands for None.                                                        *)
NoTimeout == 0

ASSUME RunnerAssumption ==
  /\ MaxLines \in Nat
  /\ Room \in Nat \ {0}
  /\ TailLines \in Nat
  /\ Timeouts \subseteq Nat
  /\ MaxInterrupts \in Nat

Pipes == {"stdout", "stderr"}

VARIABLES
  timeout, hangs, unkillable,   \* what the run is given; see Init
  leader,      \* the process run_engine started: "running" or how it exited
  child,       \* whether a descendant lives
  writing,     \* the pipe the leader is writing a line to, or "none"
  output,      \* whether the file output_path exists
  printed,     \* how many lines were written to each pipe
  read,        \* how many its pump has read
  pump,        \* where each pump is
  tail,        \* stderr_tail
  cancelled,   \* the event of that name
  pc,          \* where the calling thread is
  elapsed,     \* polls that timed out, up to `timeout`
  timedOut,    \* timed_out
  handling,    \* whether it is past `except KeyboardInterrupt`
  result,      \* how run_engine ended
  reported,    \* the lines of stderr in its EngineError
  interrupts,  \* how many times Ctrl-C was pressed
  aborted,     \* history: `cancelled` was set while the leader was waited for
  late         \* history: Ctrl-C came when the run was ending already

given == <<timeout, hangs, unkillable>>
group == <<leader, child>>
work == <<writing, output, printed>>
pumps == <<read, pump, tail, cancelled, aborted>>
caller == <<pc, elapsed, timedOut, handling, result, reported, interrupts, late>>
vars == <<given, group, work, pumps, caller>>

(* The process was launched and the pumps were started.                    *)
Init ==
  /\ timeout \in Timeouts
  /\ hangs \in BOOLEAN        \* the engine may never exit by itself
  /\ unkillable \in BOOLEAN   \* it is in an uninterruptible sleep
  /\ leader = "running"
  /\ child = FALSE
  /\ writing = "none"
  /\ output = FALSE
  /\ printed = [p \in Pipes |-> 0]
  /\ read = [p \in Pipes |-> 0]
  /\ pump = [p \in Pipes |-> "reading"]
  /\ tail = << >>
  /\ cancelled = FALSE
  /\ aborted = FALSE
  /\ pc = "polling"
  /\ elapsed = 0
  /\ timedOut = FALSE
  /\ handling = FALSE
  /\ result = "none"
  /\ reported = << >>
  /\ interrupts = 0
  /\ late = FALSE

Alive == leader = "running"

-------------------------------------------------------------------------------
(* The engine: what a binary may do.  It is stopped in a write as long as  *)
(* the pipe has no room.                                                   *)

Starts(p) ==
  /\ Alive /\ writing = "none"
  /\ printed["stdout"] + printed["stderr"] < MaxLines
  /\ writing' = p
  /\ UNCHANGED <<given, group, output, printed, pumps, caller>>

Prints(p) ==
  /\ Alive /\ writing = p
  /\ printed[p] - read[p] < Room
  /\ printed' = [printed EXCEPT ![p] = @ + 1]
  /\ writing' = "none"
  /\ UNCHANGED <<given, group, output, pumps, caller>>

WritesOutput ==
  /\ Alive \/ child
  /\ output' = TRUE
  /\ UNCHANGED <<given, group, writing, printed, pumps, caller>>

Exits ==
  /\ Alive /\ writing = "none"
  /\ leader' \in {"succeeded", "failed"}
  /\ UNCHANGED <<given, child, work, pumps, caller>>

ChildChanges ==
  /\ Alive \/ child
  /\ child' = ~child
  /\ UNCHANGED <<given, leader, work, pumps, caller>>

(* SIGTERM: each process of the group may obey, with a code of its choice. *)
Terminated ==
  /\ leader' \in IF Alive THEN {"running", "succeeded", "failed"} ELSE {leader}
  /\ child' \in {child, FALSE}

(* SIGKILL: no process is left, except one that cannot be killed.          *)
Killed ==
  IF unkillable THEN UNCHANGED group
  ELSE leader' = (IF Alive THEN "failed" ELSE leader) /\ child' = FALSE

-------------------------------------------------------------------------------
(* The pump threads.                                                       *)

(* Nothing is left in the pipe and nobody can write to it.                 *)
PumpEnds(p) ==
  /\ pump[p] = "reading" /\ read[p] = printed[p] /\ ~Alive /\ ~child
  /\ pump' = [pump EXCEPT ![p] = "eof"]
  /\ UNCHANGED <<given, group, work, read, tail, cancelled, aborted, caller>>

(* A plausible bug: a list instead of a bounded deque.                     *)
Remember_All(t, n) == Append(t, n)

(* stderr_tail.append, of a deque with maxlen=TAIL_LINES.                  *)
Remember(t, n) ==
  LET longer == Append(t, n)
  IN  IF Len(longer) > TailLines THEN Tail(longer) ELSE longer

(* A plausible bug: one stream is drained before the other.                *)
PumpReads_StdoutFirst(p) ==
  /\ pump[p] = "reading" /\ read[p] < printed[p]
  /\ p = "stderr" => pump["stdout"] = "eof"
  /\ read' = [read EXCEPT ![p] = @ + 1]
  /\ tail' = IF p = "stderr" THEN Remember(tail, read'[p]) ELSE tail
  /\ pump' \in {pump} \cup (IF cancelled THEN {} ELSE {[pump EXCEPT ![p] = "callback"]})
  /\ UNCHANGED <<given, group, work, cancelled, aborted, caller>>

(* A line is read; it goes to the log and, under the same lock, to the     *)
(* tail.  A progress line of a run that is not cancelled goes to           *)
(* on_progress.                                                            *)
PumpReads(p) ==
  /\ pump[p] = "reading" /\ read[p] < printed[p]
  /\ read' = [read EXCEPT ![p] = @ + 1]
  /\ tail' = IF p = "stderr" THEN Remember(tail, read'[p]) ELSE tail
  /\ pump' \in {pump} \cup (IF cancelled THEN {} ELSE {[pump EXCEPT ![p] = "callback"]})
  /\ UNCHANGED <<given, group, work, cancelled, aborted, caller>>

(* log.write raises, say when the disk is full.  The thread ends; nobody   *)
(* reads this pipe any more.                                               *)
PumpDies(p) ==
  /\ pump[p] = "reading" /\ read[p] < printed[p]
  /\ read' = [read EXCEPT ![p] = @ + 1]
  /\ pump' = [pump EXCEPT ![p] = "dead"]
  /\ UNCHANGED <<given, group, work, tail, cancelled, aborted, caller>>

(* on_progress returns, or raises because the job was given up.            *)
PumpCalls(p) ==
  /\ pump[p] = "callback"
  /\ \E after \in {"reading", "raised"} : pump' = [pump EXCEPT ![p] = after]
  /\ UNCHANGED <<given, group, work, read, tail, cancelled, aborted, caller>>

PumpCancels(p) ==
  /\ pump[p] = "raised"
  /\ cancelled' = TRUE
  /\ aborted' = (aborted \/ (Alive /\ pc \notin {"joining", "returned"}))
  /\ Terminated
  /\ pump' = [pump EXCEPT ![p] = "reading"]
  /\ UNCHANGED <<given, work, read, tail, caller>>

-------------------------------------------------------------------------------
(* The thread that called run_engine.                                      *)

Elsewhere == <<given, work, pumps>>

(* proc.wait(timeout=POLL_SECONDS) returns or times out.                   *)
WaitReturns ==
  /\ pc = "polling" /\ ~Alive
  /\ pc' = "ended"
  /\ UNCHANGED <<Elsewhere, group, elapsed, timedOut, handling, result, reported, interrupts, late>>

WaitTimesOut ==
  /\ pc = "polling" /\ Alive
  /\ elapsed' = IF elapsed < timeout THEN elapsed + 1 ELSE elapsed
  /\ pc' = "woke"
  /\ UNCHANGED <<Elsewhere, group, timedOut, handling, result, reported, interrupts, late>>

(* `raise KeyboardInterrupt`, the end of the timeout, or one more poll.    *)
Decide ==
  /\ pc = "woke"
  /\ handling' = cancelled
  /\ timedOut' = (~cancelled /\ timeout # NoTimeout /\ elapsed >= timeout)
  /\ pc' = IF handling' \/ timedOut' THEN "terminate" ELSE "polling"
  /\ UNCHANGED <<Elsewhere, group, elapsed, result, reported, interrupts, late>>

(* A plausible bug: the event is looked at only after a poll.              *)
LookAgain_No ==
  /\ pc = "ended"
  /\ handling' = FALSE
  /\ pc' = "joining"
  /\ UNCHANGED <<Elsewhere, group, elapsed, timedOut, result, reported, interrupts, late>>

(* "callback aborted the run and the group already exited"                 *)
LookAgain ==
  /\ pc = "ended"
  /\ handling' = cancelled
  /\ pc' = IF cancelled THEN "terminate" ELSE "joining"
  /\ UNCHANGED <<Elsewhere, group, elapsed, timedOut, result, reported, interrupts, late>>

SigTerm ==
  /\ pc = "terminate"
  /\ Terminated
  /\ pc' = "grace"
  /\ UNCHANGED <<Elsewhere, elapsed, timedOut, handling, result, reported, interrupts, late>>

(* A plausible bug: no SIGKILL when the leader has obeyed SIGTERM.         *)
SigKill_IfLeaderStays ==
  /\ pc = "grace"
  /\ IF Alive THEN Killed ELSE UNCHANGED group
  /\ pc' = IF handling THEN "unlink" ELSE "ended"
  /\ UNCHANGED <<Elsewhere, elapsed, timedOut, handling, result, reported, interrupts, late>>

(* The leader has exited or `grace` is over: SIGKILL in either case, and   *)
(* a wait that gives up on the unkillable.                                 *)
SigKill ==
  /\ pc = "grace"
  /\ Killed
  /\ pc' = IF handling THEN "unlink" ELSE "ended"
  /\ UNCHANGED <<Elsewhere, elapsed, timedOut, handling, result, reported, interrupts, late>>

Unlink ==
  /\ pc = "unlink"
  /\ output' = FALSE
  /\ pc' = "joining"
  /\ UNCHANGED <<given, group, writing, printed, pumps, elapsed, timedOut, handling, result, reported,
                 interrupts, late>>

(* A pump that waits for a line nobody may ever print.                     *)
Blocked(p) == pump[p] = "reading" /\ read[p] = printed[p] /\ (Alive \/ child)

Joined(p) == pump[p] \in {"eof", "dead"} \/ Blocked(p)

Outcome ==
  CASE handling -> "interrupt"
    [] ~handling /\ timedOut -> "timeout"
    [] ~handling /\ ~timedOut /\ leader = "succeeded" -> "ok"
    [] ~handling /\ ~timedOut /\ leader # "succeeded" -> "error"

(* A plausible bug: only the first thread is joined.                       *)
Join_First ==
  /\ pc = "joining"
  /\ Joined("stdout")
  /\ result' = Outcome
  /\ reported' = IF Outcome \in {"timeout", "error"} THEN tail ELSE << >>
  /\ pc' = "returned"
  /\ UNCHANGED <<Elsewhere, group, elapsed, timedOut, handling, interrupts, late>>

(* The joins, and what run_engine returns or raises.                       *)
Join ==
  /\ pc = "joining"
  /\ \A p \in Pipes : Joined(p)
  /\ result' = Outcome
  /\ reported' = IF Outcome \in {"timeout", "error"} THEN tail ELSE << >>
  /\ pc' = "returned"
  /\ UNCHANGED <<Elsewhere, group, elapsed, timedOut, handling, interrupts, late>>

(* Ctrl-C in the try statement, in its handler, or in the joins.           *)
CtrlC ==
  /\ interrupts < MaxInterrupts
  /\ interrupts' = interrupts + 1
  /\ \/ /\ pc \in {"polling", "woke", "ended", "terminate", "grace"}
        /\ ~handling
        /\ handling' = TRUE
        /\ pc' = "terminate"
        /\ UNCHANGED <<result, late>>
     \/ /\ pc \in {"terminate", "grace", "unlink"}
        /\ handling
        /\ pc' = "joining"
        /\ late' = TRUE
        /\ UNCHANGED <<handling, result>>
     \/ /\ pc = "joining"
        /\ pc' = "returned"
        /\ result' = "interrupt"
        /\ late' = TRUE
        /\ UNCHANGED handling
  /\ UNCHANGED <<Elsewhere, group, elapsed, timedOut, reported>>

-------------------------------------------------------------------------------
(* After the return nobody looks at the engine or the pipes; the           *)
(* on_progress call of a pump that outlives it is in JobQueue.             *)
Going == pc # "returned"

PumpStep(p) == Going /\ (PumpReads(p) \/ PumpEnds(p) \/ PumpCalls(p) \/ PumpCancels(p))

CallerStep ==
  \/ WaitReturns \/ WaitTimesOut \/ Decide \/ LookAgain
  \/ SigTerm \/ SigKill \/ Unlink \/ Join

EngineRuns == Going /\ (Exits \/ \E p \in Pipes : Prints(p))

EngineMay == Going /\ (WritesOutput \/ ChildChanges \/ \E p \in Pipes : Starts(p))

Next ==
  \/ \E p \in Pipes : PumpStep(p) \/ (Going /\ PumpDies(p))
  \/ CallerStep
  \/ EngineRuns \/ EngineMay
  \/ CtrlC

Spec == Init /\ [][Next]_vars

(* Threads are scheduled, and an engine that does not hang finishes a line *)
(* when the pipe has room, and exits when it has nothing left to do.       *)
Fairness ==
  /\ \A p \in Pipes : WF_vars(PumpStep(p))
  /\ WF_vars(CallerStep)
  /\ WF_vars(~hangs /\ EngineRuns)

FairSpec == Spec /\ Fairness

-------------------------------------------------------------------------------
(* Properties.                                                             *)

(* The variables hold what the code's variables can hold; stderr_tail is   *)
(* never longer than TAIL_LINES.                                           *)
TypeOK ==
  /\ timeout \in Timeouts
  /\ hangs \in BOOLEAN /\ unkillable \in BOOLEAN
  /\ leader \in {"running", "succeeded", "failed"}
  /\ writing \in Pipes \cup {"none"}
  /\ child \in BOOLEAN /\ output \in BOOLEAN
  /\ printed \in [Pipes -> 0 .. MaxLines] /\ read \in [Pipes -> 0 .. MaxLines]
  /\ pump \in [Pipes -> {"reading", "callback", "raised", "eof", "dead"}]
  /\ tail \in Seq(1 .. MaxLines) /\ Len(tail) <= TailLines
  /\ reported \in Seq(1 .. MaxLines) /\ Len(reported) <= TailLines
  /\ cancelled \in BOOLEAN /\ aborted \in BOOLEAN
  /\ pc \in {"polling", "woke", "ended", "terminate", "grace", "unlink", "joining",
             "returned"}
  /\ elapsed \in Nat
  /\ timedOut \in BOOLEAN /\ handling \in BOOLEAN /\ late \in BOOLEAN
  /\ result \in {"none", "ok", "error", "timeout", "interrupt"}
  /\ interrupts \in 0 .. MaxInterrupts

(* A job given up while its engine is waited for never yields a result, an *)
(* error or a timeout: the abort wins, whether the engine exits first,     *)
(* with whatever code, or the timeout strikes at the same time.            *)
AbortWins == pc = "returned" /\ aborted => result = "interrupt"

(* "On Ctrl-C the process group is terminated, `output_path` (a partial    *)
(* result) is removed" (runner.py:71): however a run ends, the engine that *)
(* was started has ended; after an abort, a Ctrl-C or a timeout none of    *)
(* its descendants is left either; and after an abort or a Ctrl-C there is *)
(* no image, not one that was written at the last moment.  A run that ends *)
(* by itself, with or without an error, may leave descendants, and only    *)
(* interrupted runs remove an image: so the code has it.  Except:          *)
(* processes that cannot be killed, and a Ctrl-C that comes when the run   *)
(* is ending.                                                              *)
NothingLeftBehind ==
  pc = "returned" /\ ~unkillable /\ ~late =>
    /\ ~Alive
    /\ result \in {"interrupt", "timeout"} => ~child
    /\ result = "interrupt" => ~output

(* "With the last 20 stderr lines" (runner.py:70): unless a descendant     *)
(* holds the pipe or the log could not be written, the error has the very  *)
(* last lines the engine printed, although another thread collects them.   *)
LastWords(n) == [i \in 1 .. (IF n < TailLines THEN n ELSE TailLines) |->
                   n - (IF n < TailLines THEN n ELSE TailLines) + i]
ErrorHasLastLines ==
  [][pc = "joining" /\ result' \in {"timeout", "error"}
       /\ ~Alive /\ ~child /\ pump["stderr"] # "dead"
     => reported' = LastWords(printed["stderr"])]_vars

(* run_engine returns: when the engine ends by itself, however much it     *)
(* prints on which stream (unless the log cannot be written); when there   *)
(* is a timeout, and when the run is given up, whatever the engine does:   *)
(* hang, ignore SIGTERM, sleep uninterruptibly, leave a descendant behind. *)
EngineReturns ==
  /\ ~hangs ~> pc = "returned" \/ \E p \in Pipes : pump[p] = "dead"
  /\ timeout # NoTimeout ~> pc = "returned"
  /\ cancelled ~> pc = "returned"

===============================================================================
