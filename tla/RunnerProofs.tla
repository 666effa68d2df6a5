------------------------------ MODULE RunnerProofs ------------------------------
(***************************************************************************)
(* Proofs about the engine runner (module Runner).                         *)
(***************************************************************************)
EXTENDS Runner, SequenceTheorems, TLAPS

-------------------------------------------------------------------------------
(* The tail of stderr.                                                     *)

(* The bounded deque: appending to the last TailLines of n lines gives the *)
(* last TailLines of n + 1 lines.                                          *)
LEMMA RememberLast ==
  ASSUME NEW n \in Nat
  PROVE  Remember(LastWords(n), n + 1) = LastWords(n + 1)
<1> DEFINE t == LastWords(n)
           k == IF n < TailLines THEN n ELSE TailLines
           a == Append(t, n + 1)
           u == LastWords(n + 1)
           m == IF n + 1 < TailLines THEN n + 1 ELSE TailLines
<1>1. TailLines \in Nat /\ k \in Nat /\ m \in Nat
  BY RunnerAssumption
<1>2. t \in Seq(Int) /\ Len(t) = k /\ \A i \in 1 .. k : t[i] = n - k + i
  BY <1>1 DEF LastWords
<1>3. u \in Seq(Int) /\ Len(u) = m /\ \A i \in 1 .. m : u[i] = n + 1 - m + i
  BY <1>1 DEF LastWords
<1> HIDE DEF t, u
<1>4. /\ a \in Seq(Int) /\ Len(a) = k + 1 /\ a # << >>
      /\ \A i \in 1 .. k : a[i] = n - k + i
      /\ a[k + 1] = n + 1
  BY <1>1, <1>2, AppendProperties
<1> HIDE DEF a
<1>5. CASE k + 1 > TailLines
  <2>1. k = TailLines /\ m = TailLines
    BY <1>1, <1>5
  <2> HIDE DEF k, m
  <2>2. /\ Tail(a) \in Seq(Int) /\ Len(Tail(a)) = k
        /\ \A i \in 1 .. k : Tail(a)[i] = a[i + 1]
    <3>1. /\ Tail(a) \in Seq(Int) /\ Len(Tail(a)) = Len(a) - 1
          /\ \A i \in 1 .. Len(Tail(a)) : Tail(a)[i] = a[i + 1]
      BY <1>4, HeadTailProperties
    <3>2. QED
      BY <1>1, <1>4, <3>1
  <2>3. ASSUME NEW i \in 1 .. k
        PROVE  Tail(a)[i] = u[i]
    <3>1. CASE i = k
      BY <1>1, <1>3, <1>4, <2>1, <2>2, <3>1
    <3>2. CASE i # k
      <4>1. i + 1 \in 1 .. k /\ i \in 1 .. m
        BY <1>1, <2>1, <3>2
      <4>2. a[i + 1] = n - k + (i + 1)
        BY <1>4, <4>1
      <4>3. u[i] = n + 1 - m + i
        BY <1>3, <4>1
      <4>4. QED
        BY <1>1, <2>1, <2>2, <4>2, <4>3
    <3>3. QED
      BY <3>1, <3>2
  <2>4. Tail(a) = u
    BY <1>3, <2>1, <2>2, <2>3, SeqEqual
  <2>5. QED
    BY <1>4, <1>5, <2>4 DEF Remember, a, u, t
<1>6. CASE ~(k + 1 > TailLines)
  <2>1. k = n /\ m = n + 1
    BY <1>1, <1>6
  <2> HIDE DEF k, m
  <2>2. ASSUME NEW i \in 1 .. m
        PROVE  a[i] = u[i]
    <3>1. CASE i = m
      BY <1>1, <1>3, <1>4, <2>1, <3>1
    <3>2. CASE i # m
      <4>1. i \in 1 .. k
        BY <2>1, <3>2
      <4>2. QED
        BY <1>3, <1>4, <2>1, <4>1
    <3>3. QED
      BY <3>1, <3>2
  <2>3. a = u
    BY <1>3, <1>4, <2>1, <2>2, SeqEqual
  <2>4. QED
    BY <1>4, <1>6, <2>3 DEF Remember, a, u, t
<1>7. QED
  BY <1>5, <1>6

(* What the deque holds has a bounded length.                              *)
LEMMA LastWordsType ==
  ASSUME NEW n \in 0 .. MaxLines
  PROVE  LastWords(n) \in Seq(1 .. MaxLines) /\ Len(LastWords(n)) <= TailLines
BY RunnerAssumption DEF LastWords

-------------------------------------------------------------------------------
(* The inductive invariant.                                                *)

(* Lines are read after they are printed, and there are MaxLines at most.  *)
Lines ==
  /\ printed["stdout"] + printed["stderr"] <= MaxLines
  /\ writing # "none" => printed["stdout"] + printed["stderr"] < MaxLines
  /\ \A p \in Pipes : read[p] <= printed[p]

(* The tail holds the last lines the pump of stderr has read, and a pump   *)
(* that has seen the end of its pipe has read it all.                      *)
TailIsLast ==
  /\ pump["stderr"] # "dead" => tail = LastWords(read["stderr"])
  /\ \A p \in Pipes : pump[p] = "eof" => read[p] = printed[p] /\ ~Alive /\ ~child

(* Nobody can take an abort back: either the caller has yet to look at the *)
(* event, or it is handling the interrupt.                                 *)
AbortPending ==
  /\ aborted => cancelled
  /\ pc = "unlink" => handling
  /\ pc = "joining" /\ aborted => handling
  /\ pc = "returned" /\ aborted => result = "interrupt"

(* Behind SIGKILL nothing of the group is left, and behind unlink no image. *)
CleanedUp ==
  /\ pc # "returned" => result = "none"
  /\ pc \in {"polling", "woke"} => ~timedOut
  /\ pc = "returned" /\ result = "timeout" => timedOut /\ ~handling
  /\ pc = "returned" /\ result = "interrupt" => handling \/ late
  /\ ~unkillable /\ ~late =>
       /\ pc \in {"ended", "joining", "returned"} => ~Alive
       /\ pc = "unlink" => ~Alive /\ ~child
       /\ pc \in {"joining", "returned"} /\ handling => ~Alive /\ ~child /\ ~output
       /\ pc \in {"ended", "joining", "returned"} /\ timedOut => ~Alive /\ ~child

IInv ==
  /\ TypeOK
  /\ Lines
  /\ TailIsLast
  /\ AbortPending
  /\ CleanedUp

-------------------------------------------------------------------------------
(* Every step preserves it.  The tuples of Runner name what a step leaves  *)
(* alone.                                                                  *)

LEMMA InitIInv == Init => IInv
<1> SUFFICES ASSUME Init PROVE IInv
  OBVIOUS
<1> USE RunnerAssumption DEF Init, Pipes, Alive
<1>1. TypeOK
  <2>1. 0 \in 0 .. MaxLines /\ 0 \in 0 .. MaxInterrupts /\ 0 <= TailLines
    OBVIOUS
  <2>2. << >> \in Seq(1 .. MaxLines) /\ Len(<< >>) = 0
    OBVIOUS
  <2>3. QED
    BY <2>1, <2>2 DEF TypeOK
<1>2. TailIsLast
  <2>1. LastWords(0) = << >>
    BY DEF LastWords
  <2>2. QED
    BY <2>1 DEF TailIsLast
<1>3. Lines /\ AbortPending /\ CleanedUp
  BY DEF Lines, AbortPending, CleanedUp
<1>4. QED
  BY <1>1, <1>2, <1>3 DEF IInv

(* No signal brings a process back.                                        *)
LEMMA TerminatedGroup ==
  ASSUME TypeOK, Terminated
  PROVE  /\ leader' \in {"running", "succeeded", "failed"}
         /\ ~Alive => ~Alive'
         /\ child' \in BOOLEAN
         /\ ~child => ~child'
<1>1. leader' \in {"running", "succeeded", "failed"} /\ (~Alive => ~Alive')
  BY DEF Terminated, TypeOK, Alive
<1>2. child' \in BOOLEAN
  BY DEF Terminated, TypeOK
<1>3. ~child => ~child'
  BY DEF Terminated, TypeOK
<1>4. QED
  BY <1>1, <1>2, <1>3

LEMMA KilledGroup ==
  ASSUME TypeOK, Killed
  PROVE  /\ leader' \in {"running", "succeeded", "failed"}
         /\ ~Alive => ~Alive'
         /\ child' \in BOOLEAN
         /\ ~child => ~child'
         /\ ~unkillable => ~Alive' /\ ~child'
BY DEF Killed, TypeOK, Alive, group

(* What the engine does while it is waited for.                            *)
LEMMA EngineIInv ==
  ASSUME IInv, EngineRuns \/ EngineMay
  PROVE  IInv'
<1> USE DEF IInv, EngineRuns, EngineMay, Going, Alive, given, group, work, pumps, caller
<1>1. ASSUME NEW p \in Pipes, Going, Starts(p)
      PROVE  IInv'
  <2>1. TypeOK' /\ Lines'
    BY <1>1 DEF Starts, TypeOK, Lines, Pipes
  <2>2. TailIsLast' /\ AbortPending' /\ CleanedUp'
    BY <1>1 DEF Starts, TailIsLast, AbortPending, CleanedUp
  <2>3. QED
    BY <2>1, <2>2
<1>2. ASSUME NEW p \in Pipes, Going, Prints(p)
      PROVE  IInv'
  <2>1. /\ printed["stdout"] \in Nat /\ printed["stderr"] \in Nat
        /\ printed'[p] = printed[p] + 1
        /\ \A q \in Pipes : q # p => printed'[q] = printed[q]
        /\ writing = p /\ p # "none"
    BY <1>2 DEF Prints, TypeOK, Pipes
  <2>2. printed["stdout"] + printed["stderr"] + 1 <= MaxLines
    BY <1>2, <2>1, RunnerAssumption DEF Lines
  <2>3. TypeOK'
    BY <1>2, <2>1, <2>2, RunnerAssumption DEF Prints, TypeOK, Pipes
  <2>4. Lines'
    BY <1>2, <2>1, <2>2 DEF Prints, Lines, Pipes, TypeOK
  <2>5. TailIsLast' /\ AbortPending' /\ CleanedUp'
    BY <1>2, <2>1 DEF Prints, TailIsLast, AbortPending, CleanedUp
  <2>6. QED
    BY <2>3, <2>4, <2>5
<1>3. CASE Going /\ (WritesOutput \/ Exits \/ ChildChanges)
  <2>1. TypeOK'
    <3>1. /\ output' \in BOOLEAN /\ child' \in BOOLEAN
          /\ leader' \in {"running", "succeeded", "failed"}
      BY <1>3 DEF WritesOutput, Exits, ChildChanges, TypeOK
    <3>2. QED
      BY <1>3, <3>1 DEF WritesOutput, Exits, ChildChanges, TypeOK
  <2>2. Lines' /\ AbortPending' /\ TailIsLast' /\ CleanedUp'
    BY <1>3 DEF WritesOutput, Exits, ChildChanges, TypeOK, Lines, AbortPending, TailIsLast, CleanedUp
  <2>3. QED
    BY <2>1, <2>2
<1>4. QED
  BY <1>1, <1>2, <1>3

(* Reading a line keeps the deque in step with the pipe.                   *)
LEMMA ReadsIInv ==
  ASSUME IInv, NEW p \in Pipes, Going, PumpReads(p) \/ PumpDies(p)
  PROVE  IInv'
<1> USE DEF IInv, Going, Alive, given, group, work, pumps, caller
<1>1. /\ read[p] \in Nat /\ printed[p] \in Nat /\ MaxLines \in Nat
      /\ read[p] + 1 <= printed[p] /\ printed[p] <= MaxLines
      /\ read' = [read EXCEPT ![p] = @ + 1]
      /\ read'[p] = read[p] + 1
      /\ \A q \in Pipes : q # p => read'[q] = read[q]
      /\ pump[p] = "reading"
  BY RunnerAssumption DEF PumpReads, PumpDies, TypeOK
<1>2. /\ pump' \in [Pipes -> {"reading", "callback", "raised", "eof", "dead"}]
      /\ pump'[p] \in {"reading", "callback", "dead"}
      /\ \A q \in Pipes : q # p => pump'[q] = pump[q]
  BY <1>1 DEF PumpReads, PumpDies, TypeOK
<1>3. pump'["stderr"] # "dead" => tail' = LastWords(read'["stderr"])
  <2> SUFFICES ASSUME pump'["stderr"] # "dead" PROVE tail' = LastWords(read'["stderr"])
    OBVIOUS
  <2>1. CASE p = "stderr"
    <3>1. PumpReads(p)
      BY <1>1, <2>1 DEF PumpDies, TypeOK, Pipes
    <3>2. tail' = Remember(tail, read[p] + 1) /\ tail = LastWords(read[p])
      BY <1>1, <2>1, <3>1 DEF PumpReads, TailIsLast
    <3>3. QED
      BY <1>1, <2>1, <3>2, RememberLast
  <2>2. CASE p # "stderr"
    BY <1>1, <1>2, <2>2 DEF PumpReads, PumpDies, TailIsLast, Pipes
  <2>3. QED
    BY <2>1, <2>2
<1>4. tail' \in Seq(1 .. MaxLines) /\ Len(tail') <= TailLines
  <2>1. CASE p = "stderr" /\ PumpReads(p)
    <3>1. tail' = LastWords(read[p] + 1)
      <4>1. pump'[p] # "dead"
        BY <1>1, <2>1 DEF PumpReads, TypeOK
      <4>2. QED
        BY <1>1, <1>3, <2>1, <4>1
    <3>2. QED
      BY <1>1, <3>1, LastWordsType
  <2>2. CASE ~(p = "stderr" /\ PumpReads(p))
    BY <2>2 DEF PumpReads, PumpDies, TypeOK
  <2>3. QED
    BY <2>1, <2>2
<1>5. read' \in [Pipes -> 0 .. MaxLines]
  BY <1>1 DEF TypeOK
<1>6. TypeOK'
  BY <1>2, <1>4, <1>5 DEF PumpReads, PumpDies, TypeOK
<1>7. Lines'
  BY <1>1 DEF PumpReads, PumpDies, Lines
<1>8. \A q \in Pipes : pump'[q] = "eof" => read'[q] = printed'[q] /\ ~Alive' /\ ~child'
  BY <1>1, <1>2 DEF PumpReads, PumpDies, TailIsLast
<1>9. TailIsLast'
  BY <1>3, <1>8 DEF TailIsLast
<1>10. AbortPending' /\ CleanedUp'
  BY DEF PumpReads, PumpDies, AbortPending, CleanedUp
<1>11. QED
  BY <1>6, <1>7, <1>9, <1>10

LEMMA PumpIInv ==
  ASSUME IInv, NEW p \in Pipes, PumpStep(p) \/ (Going /\ PumpDies(p))
  PROVE  IInv'
<1> USE DEF IInv, Going, Alive, given, group, work, pumps, caller
<1>1. CASE Going /\ (PumpReads(p) \/ PumpDies(p))
  BY <1>1, ReadsIInv
<1>2. CASE Going /\ (PumpEnds(p) \/ PumpCalls(p))
  <2>1. /\ pump' \in [Pipes -> {"reading", "callback", "raised", "eof", "dead"}]
        /\ pump[p] # "dead"
        /\ pump'[p] = "eof" => read[p] = printed[p] /\ ~Alive /\ ~child
        /\ \A q \in Pipes : q # p => pump'[q] = pump[q]
    BY <1>2 DEF PumpEnds, PumpCalls, TypeOK
  <2>2. TypeOK' /\ Lines'
    BY <1>2, <2>1 DEF PumpEnds, PumpCalls, TypeOK, Lines
  <2>3. TailIsLast'
    BY <1>2, <2>1 DEF PumpEnds, PumpCalls, TailIsLast, Pipes
  <2>4. AbortPending' /\ CleanedUp'
    BY <1>2 DEF PumpEnds, PumpCalls, AbortPending, CleanedUp
  <2>5. QED
    BY <2>2, <2>3, <2>4
<1>3. CASE Going /\ PumpCancels(p)
  <2>1. /\ pump' \in [Pipes -> {"reading", "callback", "raised", "eof", "dead"}]
        /\ pump[p] = "raised" /\ pump'[p] = "reading"
        /\ \A q \in Pipes : q # p => pump'[q] = pump[q]
    BY <1>3 DEF PumpCancels, TypeOK
  <2>2. /\ leader' \in {"running", "succeeded", "failed"} /\ (~Alive => ~Alive')
        /\ child' \in BOOLEAN /\ (~child => ~child')
    BY <1>3, TerminatedGroup DEF PumpCancels
  <2>3. TypeOK' /\ Lines'
    BY <1>3, <2>1, <2>2 DEF PumpCancels, TypeOK, Lines
  <2>4. TailIsLast'
    BY <1>3, <2>1, <2>2 DEF PumpCancels, TailIsLast, Pipes
  <2>5. AbortPending'
    BY <1>3 DEF PumpCancels, AbortPending, TypeOK
  <2>6. CleanedUp'
    BY <1>3, <2>2 DEF PumpCancels, CleanedUp
  <2>7. QED
    BY <2>3, <2>4, <2>5, <2>6
<1>4. QED
  BY <1>1, <1>2, <1>3 DEF PumpStep

(* Which of its flags the calling thread sets decides what it may return.  *)
LEMMA CallerIInv ==
  ASSUME IInv, CallerStep
  PROVE  IInv'
<1> USE DEF IInv, Alive, Elsewhere, given, group, work, pumps, caller
<1>1. CASE WaitReturns \/ WaitTimesOut
  <2>1. TypeOK'
    BY <1>1 DEF WaitReturns, WaitTimesOut, TypeOK
  <2>2. Lines' /\ TailIsLast' /\ AbortPending' /\ CleanedUp'
    BY <1>1 DEF WaitReturns, WaitTimesOut, Lines, TailIsLast, AbortPending, CleanedUp
  <2>3. QED
    BY <2>1, <2>2
<1>2. CASE Decide \/ LookAgain
  <2>1. TypeOK'
    <3>1. handling' \in BOOLEAN
      BY <1>2 DEF Decide, LookAgain, TypeOK
    <3>2. timedOut' \in BOOLEAN
      BY <1>2 DEF Decide, LookAgain, TypeOK
    <3>3. pc' \in {"terminate", "polling", "joining"}
      BY <1>2 DEF Decide, LookAgain
    <3>4. QED
      BY <1>2, <3>1, <3>2, <3>3 DEF Decide, LookAgain, TypeOK
  <2>2. Lines' /\ TailIsLast'
    BY <1>2 DEF Decide, LookAgain, Lines, TailIsLast
  <2>3. AbortPending'
    BY <1>2 DEF Decide, LookAgain, AbortPending, TypeOK
  <2>4. CleanedUp'
    BY <1>2 DEF Decide, LookAgain, CleanedUp, TypeOK
  <2>5. QED
    BY <2>1, <2>2, <2>3, <2>4
<1>3. CASE SigTerm \/ SigKill
  <2>1. /\ leader' \in {"running", "succeeded", "failed"} /\ (~Alive => ~Alive')
        /\ child' \in BOOLEAN /\ (~child => ~child')
        /\ SigKill /\ ~unkillable => ~Alive' /\ ~child'
    BY <1>3, TerminatedGroup, KilledGroup DEF SigTerm, SigKill
  <2>2. TypeOK'
    BY <1>3, <2>1 DEF SigTerm, SigKill, TypeOK
  <2>3. Lines' /\ TailIsLast'
    BY <1>3, <2>1 DEF SigTerm, SigKill, Lines, TailIsLast
  <2>4. AbortPending'
    BY <1>3 DEF SigTerm, SigKill, AbortPending
  <2>5. CleanedUp'
    BY <1>3, <2>1 DEF SigTerm, SigKill, CleanedUp
  <2>6. QED
    BY <2>2, <2>3, <2>4, <2>5
<1>4. CASE Unlink
  <2>1. TypeOK'
    <3>1. output' \in BOOLEAN /\ pc' = "joining"
      BY <1>4 DEF Unlink
    <3>2. QED
      BY <1>4, <3>1 DEF Unlink, TypeOK
  <2>2. Lines' /\ TailIsLast'
    BY <1>4 DEF Unlink, Lines, TailIsLast
  <2>3. AbortPending' /\ CleanedUp'
    BY <1>4 DEF Unlink, AbortPending, CleanedUp
  <2>4. QED
    BY <2>1, <2>2, <2>3
<1>5. CASE Join
  <2>1. /\ Outcome \in {"ok", "error", "timeout", "interrupt"}
        /\ Outcome = "interrupt" <=> handling
        /\ Outcome = "timeout" => timedOut
    BY DEF Outcome, TypeOK
  <2>2. reported' \in Seq(1 .. MaxLines) /\ Len(reported') <= TailLines
    <3>1. << >> \in Seq(1 .. MaxLines) /\ Len(<< >>) = 0 /\ 0 <= TailLines
      BY RunnerAssumption
    <3>2. CASE reported' = tail
      BY <3>2 DEF TypeOK
    <3>3. CASE reported' = << >>
      BY <3>1, <3>3
    <3>4. QED
      BY <1>5, <3>2, <3>3 DEF Join
  <2>3. TypeOK'
    BY <1>5, <2>1, <2>2 DEF Join, TypeOK
  <2>4. Lines' /\ TailIsLast'
    BY <1>5 DEF Join, Lines, TailIsLast
  <2>5. AbortPending' /\ CleanedUp'
    BY <1>5, <2>1 DEF Join, AbortPending, CleanedUp
  <2>6. QED
    BY <2>3, <2>4, <2>5
<1>6. QED
  BY <1>1, <1>2, <1>3, <1>4, <1>5 DEF CallerStep

LEMMA CtrlCIInv == ASSUME IInv, CtrlC PROVE IInv'
<1> USE DEF IInv, CtrlC, Alive, Elsewhere, given, group, work, pumps, caller
<1>1. TypeOK'
  <2>1. interrupts' \in 0 .. MaxInterrupts
    BY RunnerAssumption DEF TypeOK
  <2>2. late' \in BOOLEAN /\ handling' \in BOOLEAN
    BY DEF TypeOK
  <2>3. result' \in {"none", "ok", "error", "timeout", "interrupt"}
    BY DEF TypeOK
  <2>4. pc' \in {"terminate", "joining", "returned"}
    OBVIOUS
  <2>5. QED
    BY <2>1, <2>2, <2>3, <2>4 DEF TypeOK
<1>2. Lines' /\ TailIsLast'
  BY DEF Lines, TailIsLast
<1>3. AbortPending'
  BY DEF AbortPending
<1>4. CleanedUp'
  BY DEF CleanedUp
<1>5. QED
  BY <1>1, <1>2, <1>3, <1>4

LEMMA NextIInv == IInv /\ [Next]_vars => IInv'
<1>1. ASSUME IInv, UNCHANGED vars PROVE IInv'
  BY <1>1 DEF vars, given, group, work, pumps, caller, IInv, TypeOK, Lines, TailIsLast,
              AbortPending, CleanedUp, Alive
<1>2. QED
  BY <1>1, EngineIInv, PumpIInv, CallerIInv, CtrlCIInv DEF Next

LEMMA Invariance == Spec => []IInv
BY InitIInv, NextIInv, PTL DEF Spec

-------------------------------------------------------------------------------
(* The theorems.                                                           *)

(* The variables keep their types and stderr_tail its bound, for any       *)
(* number of lines, any room in a pipe and any TAIL_LINES.                 *)
THEOREM TypeCorrect == Spec => []TypeOK
<1>1. IInv => TypeOK
  BY DEF IInv
<1>2. QED
  BY <1>1, Invariance, PTL

(* A run that is given up while its engine lives ends as interrupted: no   *)
(* exit, timeout or signal that comes at the same time can overtake it.    *)
THEOREM AbortsWin == Spec => []AbortWins
<1>1. IInv => AbortWins
  BY DEF IInv, AbortPending, AbortWins
<1>2. QED
  BY <1>1, Invariance, PTL

(* The engine has ended whenever run_engine has; a run that was            *)
(* interrupted or timed out leaves no descendant, an interrupted one no    *)
(* image (the except and finally clauses of run_engine).                   *)
THEOREM NothingIsLeft == Spec => []NothingLeftBehind
<1>1. IInv => NothingLeftBehind
  BY DEF IInv, CleanedUp, NothingLeftBehind
<1>2. QED
  BY <1>1, Invariance, PTL

(* The error of a run that failed or timed out holds the last lines the    *)
(* engine printed on stderr, for any TAIL_LINES.                           *)
THEOREM LastLinesReported == Spec => ErrorHasLastLines
<1> DEFINE Step == pc = "joining" /\ result' \in {"timeout", "error"}
                     /\ ~Alive /\ ~child /\ pump["stderr"] # "dead"
                   => reported' = LastWords(printed["stderr"])
<1>1. IInv /\ [Next]_vars => [Step]_vars
  <2> SUFFICES ASSUME IInv, Next, pc = "joining", result' \in {"timeout", "error"},
                      ~Alive, ~child, pump["stderr"] # "dead"
               PROVE  reported' = LastWords(printed["stderr"])
    OBVIOUS
  <2> USE DEF Elsewhere, given, group, work, pumps, caller
  <2>1. result = "none"
    BY DEF IInv, CleanedUp
  <2>2. Join
    <3>1. ~(EngineRuns \/ EngineMay)
      BY <2>1 DEF EngineRuns, EngineMay, Starts, Prints, Exits, WritesOutput, ChildChanges
    <3>2. \A p \in Pipes : ~PumpStep(p) /\ ~PumpDies(p)
      BY <2>1 DEF PumpStep, PumpReads, PumpEnds, PumpCalls, PumpCancels, PumpDies
    <3>3. ~CtrlC
      BY <2>1 DEF CtrlC
    <3>4. ~(WaitReturns \/ WaitTimesOut \/ Decide \/ LookAgain \/ SigTerm \/ SigKill \/ Unlink)
      BY DEF WaitReturns, WaitTimesOut, Decide, LookAgain, SigTerm, SigKill, Unlink
    <3>5. QED
      BY <3>1, <3>2, <3>3, <3>4 DEF Next, CallerStep
  <2>3. pump["stderr"] = "eof"
    BY <2>2 DEF Join, Joined, Blocked, Pipes
  <2>4. tail = LastWords(read["stderr"]) /\ read["stderr"] = printed["stderr"]
    BY <2>3 DEF IInv, TailIsLast, Pipes
  <2>5. QED
    BY <2>2, <2>4 DEF Join
<1>2. QED
  BY <1>1, Invariance, PTL DEF Spec, ErrorHasLastLines

===============================================================================
