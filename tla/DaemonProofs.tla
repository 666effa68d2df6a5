----------------------------- MODULE DaemonProofs -----------------------------
(***************************************************************************)
(* Proofs about the daemon (module Daemon): who has the engine, what it is *)
(* unloaded for, what a stream tells its client.  That a step of the       *)
(* daemon is a step of the job queue or leaves it alone makes what is      *)
(* proved in JobQueueProofs true of the queue inside the daemon.           *)
(***************************************************************************)
EXTENDS Daemon, SequenceTheorems, TLAPS

QP == INSTANCE JobQueueProofs

-------------------------------------------------------------------------------
(* The inductive invariant.                                                *)

(* The configuration is that of the start, and a cold engine is never in   *)
(* the process.                                                            *)
Configured ==
  /\ ttl \in Ttls /\ warm \in BOOLEAN
  /\ ~warm => ~loaded

(* Whenever the lock is free, the age of the last job is not overestimated: *)
(* job_finished ran behind the engine call, before the lock was released.  *)
AgeIsTrue == warm /\ lock = Free => age <= quiet

(* What the threads of a stream know of each other.                        *)
Threads(s) ==
  /\ relay[s] \in {"idle", "requested"} => stream[s] = "idle"
  /\ gone[s] => relay[s] \in {"dropped", "closed"}
  /\ relay[s] = "closed" => stream[s] = "ended"

(* An engine call that was aborted was aborted for a client that left.     *)
AbortedForTheGone ==
  /\ engine = "ran" => outcome \in Outcomes
  /\ engine = "ran" /\ outcome = "Cancelled" /\ lock \in Streams => gone[lock]

(* A stream reports what became of its engine call after it ended.         *)
ReportedHasRun == \A s \in Streams : stream[s] = "reported" => engine = "ran"

(* What a stream has sent, by where its thread is: no outcome before the   *)
(* report, no end before the thread ends, neither of them twice, no        *)
(* outcome behind the end, and none left out but for a client that left;   *)
(* and how much of it the relay has handed on.                             *)
Sent(s) == seen[s] \o events[s]

IsFinal(e) == e \in {"result", "error"}

Finals(q) == {i \in DOMAIN q : IsFinal(q[i])}
Ends(q) == {i \in DOMAIN q : q[i] = "end"}

WellFormed(q) ==
  /\ \A i, k \in Finals(q) : i = k
  /\ \A i, k \in Ends(q) : i = k
  /\ \A i \in Finals(q), k \in Ends(q) : i < k

Announced(s) ==
  /\ WellFormed(Sent(s))
  /\ stream[s] \in {"idle", "waiting", "running"} => Finals(Sent(s)) = {}
  /\ stream[s] # "ended" => Ends(Sent(s)) = {}
  /\ stream[s] = "reported" \/ Ends(Sent(s)) # {} => Finals(Sent(s)) # {} \/ gone[s]

Handed(s) ==
  /\ relay[s] # "closed" => \A k \in Ends(Sent(s)) : k > Len(seen[s])
  /\ relay[s] = "closed" => Len(seen[s]) \in Ends(Sent(s)) /\ Finals(Sent(s)) # {}

Shape(s) == Announced(s) /\ Handed(s)

IInv ==
  /\ TypeOK
  /\ Configured
  /\ OneEngineRun
  /\ AgeIsTrue
  /\ AbortedForTheGone
  /\ ReportedHasRun
  /\ \A s \in Streams : Threads(s) /\ Shape(s)

-------------------------------------------------------------------------------
(* The queue of Daemon is the queue of the proofs.                         *)

LEMMA QueueAssumption == QP!JobQueueAssumption
BY DaemonAssumption DEF Q!JobQueueAssumption, QP!JobQueueAssumption

LEMMA SameTerms ==
  /\ Q!Jobs = QP!Jobs
  /\ Q!NoJob = QP!NoJob
  /\ Q!FinishedStates = QP!FinishedStates
  /\ Q!States = QP!States
  /\ Q!TypeOK <=> QP!TypeOK
  /\ Q!Init <=> QP!Init
BY DEF Q!Jobs, QP!Jobs, Q!NoJob, QP!NoJob, Q!FinishedStates, QP!FinishedStates,
       Q!States, QP!States, Q!TypeOK, QP!TypeOK, Q!Init, QP!Init

LEMMA SameRetire ==
  ASSUME NEW j
  PROVE  (Q!Retire(j) <=> QP!Retire(j)) /\ \A s : Q!Without(s, j) = QP!Without(s, j)
<1>1. \A f : Q!Kept(f) = QP!Kept(f) /\ Q!Evicted(f) = QP!Evicted(f)
  BY DEF Q!Excess, QP!Excess, Q!Kept, QP!Kept, Q!Evicted, QP!Evicted
<1>2. \A s : Q!Without(s, j) = QP!Without(s, j)
  BY DEF Q!Without, QP!Without, Q!RemoveFirst, QP!RemoveFirst, Q!RemoveAt, QP!RemoveAt,
         Q!SelectInSeq, QP!SelectInSeq, Q!Min, QP!Min
<1>3. QED
  BY <1>1, <1>2 DEF Q!Retire, QP!Retire

LEMMA SameNext == ASSUME Q!Next PROVE QP!Next
<1> USE DEF Q!store, QP!store, Q!fields, QP!fields, Q!thread, QP!thread
<1>1. ASSUME NEW j \in Q!Jobs, Q!Submit(j) \/ Q!SubmitWithoutThread(j)
      PROVE  QP!Next
  <2>1. QP!Submit(j) \/ QP!SubmitWithoutThread(j)
    BY <1>1, SameTerms
       DEF Q!Submit, QP!Submit, Q!SubmitWithoutThread, QP!SubmitWithoutThread,
           Q!Register, QP!Register, Q!Enlisted, QP!Enlisted
  <2>2. QED
    BY <2>1, SameTerms DEF QP!Next
<1>2. ASSUME NEW j \in Q!Jobs, Q!Cancel(j)
      PROVE  QP!Next
  <2>1. QP!Cancel(j)
    BY <1>2, SameTerms, SameRetire DEF Q!Cancel, QP!Cancel, Q!Cancellable, QP!Cancellable
  <2>2. QED
    BY <2>1, SameTerms DEF QP!Next
<1>3. ASSUME Q!Take \/ Q!Skip \/ Q!Start
      PROVE  QP!Take \/ QP!Skip \/ QP!Start
  BY <1>3, SameTerms DEF Q!Take, QP!Take, Q!Skip, QP!Skip, Q!Start, QP!Start,
                         Q!StillQueued, QP!StillQueued
<1>4. ASSUME NEW o \in Q!Outcomes, Q!ExecuteEnds(o)
      PROVE  o \in QP!Outcomes /\ QP!ExecuteEnds(o)
  BY <1>4 DEF Q!ExecuteEnds, QP!ExecuteEnds, Q!Locals, QP!Locals, Q!Outcomes, QP!Outcomes
<1>5. ASSUME Q!Finish
      PROVE  QP!Finish
  BY <1>5, SameTerms, SameRetire DEF Q!Finish, QP!Finish, Q!Publish, QP!Publish
<1>6. ASSUME NEW p \in Pumps, NEW j \in Q!Jobs, Q!ProgressCheck(p, j)
      PROVE  QP!Next
  <2>1. QP!ProgressCheck(p, j)
    BY <1>6, SameTerms DEF Q!ProgressCheck, QP!ProgressCheck, Q!MayReport, QP!MayReport
  <2>2. QED
    BY <2>1, SameTerms DEF QP!Next
<1>7. ASSUME NEW p \in Pumps, NEW step \in 1 .. MaxSteps, Q!ProgressWrite(p, step)
      PROVE  QP!Next
  <2>1. QP!ProgressWrite(p, step)
    BY <1>7, SameTerms DEF Q!ProgressWrite, QP!ProgressWrite
  <2>2. QED
    BY <2>1 DEF QP!Next
<1>8. QED
  BY <1>1, <1>2, <1>3, <1>4, <1>5, <1>6, <1>7
     DEF Q!Next, Q!WorkerStep, QP!Next, QP!WorkerStep

LEMMA SameSpec == Q!Spec => QP!Spec
<1>1. Q!Init => QP!Init
  BY SameTerms
<1>2. [Q!Next]_(Q!vars) => [QP!Next]_(QP!vars)
  BY SameNext DEF Q!vars, QP!vars, Q!store, QP!store, Q!fields, QP!fields, Q!thread, QP!thread
<1>3. QED
  BY <1>1, <1>2, PTL DEF Q!Spec, QP!Spec

-------------------------------------------------------------------------------
(* The daemon drives the queue by the queue's own steps.                   *)

LEMMA DaemonIsQueueStep == [Next]_vars => [Q!Next]_(Q!vars)
<1> SUFFICES ASSUME [Next]_vars PROVE [Q!Next]_(Q!vars)
  OBVIOUS
<1>1. ASSUME UNCHANGED queue
      PROVE  UNCHANGED Q!vars
  BY <1>1 DEF queue, Q!vars, Q!store, Q!fields, Q!thread
<1>2. CASE QueueStep
  BY <1>2 DEF QueueStep, Q!Next, Q!WorkerStep
<1>3. CASE WorkerLeaves
  BY <1>3 DEF WorkerLeaves, Q!ExecuteEnds, Q!Next, Q!WorkerStep
<1>4. CASE WorkerEnters \/ (\E o \in Outcomes : EngineEnds(o)) \/ Tick \/ TimerFires \/ IdleExpired
  <2>1. UNCHANGED queue
    BY <1>4 DEF WorkerEnters, EngineEnds, Tick, TimerFires, IdleExpired
  <2>2. QED
    BY <1>1, <2>1
<1>5. ASSUME NEW h \in Handlers, HandlerStep(h)
      PROVE  UNCHANGED Q!vars
  <2>1. UNCHANGED queue
    BY <1>5 DEF HandlerStep, Call, HandlerEnters, HandlerLeaves
  <2>2. QED
    BY <1>1, <2>1
<1>6. ASSUME NEW s \in Streams,
             ThreadStep(s) \/ Open(s) \/ RelayStarts(s) \/ RelayNext(s) \/ Disconnect(s)
      PROVE  UNCHANGED Q!vars
  <2>1. UNCHANGED queue
    BY <1>6 DEF ThreadStep, StreamEnters, StreamProgress, StreamReports, StreamLeaves, Open,
                RelayStarts, RelayNext, Disconnect, NotStreaming
  <2>2. QED
    BY <1>1, <2>1
<1>7. CASE UNCHANGED vars
  BY <1>1, <1>7 DEF vars
<1>8. QED
  BY <1>2, <1>3, <1>4, <1>5, <1>6, <1>7 DEF Next

(* Seen from the job queue, the daemon is its handlers and its `_execute`: *)
(* whatever blocking and streamed requests, timers and aborted engine      *)
(* calls do, nobody but the queue's own operations touches the queue.  So  *)
(* every safety property of JobQueue holds in the daemon (the part of      *)
(* ServesTheQueue that is not about fairness).                             *)
THEOREM QueueIsServed == Spec => Q!Spec
<1>1. Init => Q!Init
  BY DEF Init
<1>2. QED
  BY <1>1, DaemonIsQueueStep, PTL DEF Spec, Q!Spec

LEMMA QueueTypes == Spec => []Q!TypeOK
<1>1. QP!TypeOK => Q!TypeOK
  BY SameTerms
<1>2. QP!Spec => []QP!TypeOK
  BY QP!TypeCorrect, QueueAssumption
<1>3. QED
  BY <1>1, <1>2, QueueIsServed, SameSpec, PTL

-------------------------------------------------------------------------------
(* What a stream has sent.                                                 *)

LEMMA SentType ==
  ASSUME TypeOK, NEW s \in Streams
  PROVE  Sent(s) \in Seq(StreamEvents)
BY ConcatProperties DEF TypeOK, Sent

(* One more event in the queue is one more event sent.                     *)
LEMMA SentMore ==
  ASSUME NEW t \in Seq(StreamEvents), NEW e \in Seq(StreamEvents), NEW x \in StreamEvents
  PROVE  t \o Append(e, x) = Append(t \o e, x)
<1> DEFINE a == Append(e, x)
           c == t \o e
           l == t \o a
           r == Append(c, x)
<1>1. /\ a \in Seq(StreamEvents) /\ Len(a) = Len(e) + 1 /\ Len(e) \in Nat /\ Len(t) \in Nat
      /\ \A i \in 1 .. Len(e) : a[i] = e[i]
      /\ a[Len(e) + 1] = x
  BY AppendProperties
<1>2. /\ c \in Seq(StreamEvents) /\ Len(c) = Len(t) + Len(e)
      /\ \A i \in 1 .. Len(t) + Len(e) : c[i] = IF i <= Len(t) THEN t[i] ELSE e[i - Len(t)]
  BY ConcatProperties
<1> HIDE DEF a, c
<1>3. /\ l \in Seq(StreamEvents) /\ Len(l) = Len(t) + Len(a)
      /\ \A i \in 1 .. Len(t) + Len(a) : l[i] = IF i <= Len(t) THEN t[i] ELSE a[i - Len(t)]
  BY <1>1, ConcatProperties
<1>4. /\ r \in Seq(StreamEvents) /\ Len(r) = Len(c) + 1
      /\ \A i \in 1 .. Len(c) : r[i] = c[i]
      /\ r[Len(c) + 1] = x
  BY <1>2, AppendProperties
<1> HIDE DEF l, r
<1>5. Len(l) = Len(r) /\ Len(l) = Len(t) + Len(e) + 1
  BY <1>1, <1>2, <1>3, <1>4
<1>6. ASSUME NEW i \in 1 .. Len(l)
      PROVE  l[i] = r[i]
  <2>1. CASE i <= Len(t)
    <3>1. i \in 1 .. Len(c) /\ i \in 1 .. Len(t) + Len(a) /\ i \in 1 .. Len(t) + Len(e)
      BY <1>1, <1>2, <1>5, <2>1
    <3>2. l[i] = t[i]
      BY <1>3, <2>1, <3>1
    <3>3. r[i] = c[i] /\ c[i] = t[i]
      BY <1>2, <1>4, <2>1, <3>1
    <3>4. QED
      BY <3>2, <3>3
  <2>2. CASE i > Len(t) /\ i <= Len(t) + Len(e)
    <3>1. i - Len(t) \in 1 .. Len(e) /\ i \in 1 .. Len(c) /\ i \in 1 .. Len(t) + Len(a)
      BY <1>1, <1>2, <1>5, <2>2
    <3>2. l[i] = a[i - Len(t)]
      BY <1>1, <1>3, <2>2, <3>1
    <3>3. r[i] = c[i] /\ c[i] = e[i - Len(t)]
      BY <1>1, <1>2, <1>4, <2>2, <3>1
    <3>4. QED
      BY <1>1, <3>1, <3>2, <3>3
  <2>3. CASE i = Len(t) + Len(e) + 1
    <3>1. i - Len(t) = Len(e) + 1 /\ i \in 1 .. Len(t) + Len(a) /\ ~(i <= Len(t))
      BY <1>1, <1>5, <2>3
    <3>2. l[i] = a[i - Len(t)]
      BY <1>3, <3>1
    <3>3. r[i] = x
      BY <1>2, <1>4, <2>3
    <3>4. QED
      BY <1>1, <3>1, <3>2, <3>3
  <2>4. QED
    BY <1>1, <1>5, <2>1, <2>2, <2>3
<1>7. l = r
  BY <1>3, <1>4, <1>5, <1>6, SeqEqual
<1>8. QED
  BY <1>7 DEF l, r, a, c

(* An event that is handed to the client stays in its place.               *)
LEMMA HandedOver ==
  ASSUME NEW t \in Seq(StreamEvents), NEW e \in Seq(StreamEvents), e # << >>
  PROVE  /\ Append(t, Head(e)) \in Seq(StreamEvents)
         /\ Tail(e) \in Seq(StreamEvents)
         /\ Append(t, Head(e)) \o Tail(e) = t \o e
         /\ Head(e) \in StreamEvents
         /\ Len(Append(t, Head(e))) = Len(t) + 1 /\ Len(t) \in Nat
         /\ Len(t) + 1 \in DOMAIN (t \o e) /\ (t \o e)[Len(t) + 1] = Head(e)
<1> DEFINE a == Append(t, Head(e))
           b == Tail(e)
           l == a \o b
           r == t \o e
<1>1. /\ Len(e) \in Nat /\ Len(t) \in Nat /\ Len(e) > 0
      /\ Head(e) = e[1] /\ Head(e) \in StreamEvents
  BY LenProperties, EmptySeq, HeadTailProperties, ElementOfSeq
<1>2. /\ b \in Seq(StreamEvents) /\ Len(b) = Len(e) - 1
      /\ \A i \in 1 .. Len(e) - 1 : b[i] = e[i + 1]
  BY <1>1, HeadTailProperties
<1>3. /\ a \in Seq(StreamEvents) /\ Len(a) = Len(t) + 1
      /\ \A i \in 1 .. Len(t) : a[i] = t[i]
      /\ a[Len(t) + 1] = e[1]
  BY <1>1, AppendProperties
<1> HIDE DEF a, b
<1>4. /\ l \in Seq(StreamEvents) /\ Len(l) = Len(a) + Len(b)
      /\ \A i \in 1 .. Len(a) + Len(b) : l[i] = IF i <= Len(a) THEN a[i] ELSE b[i - Len(a)]
  BY <1>2, <1>3, ConcatProperties
<1>5. /\ r \in Seq(StreamEvents) /\ Len(r) = Len(t) + Len(e)
      /\ \A i \in 1 .. Len(t) + Len(e) : r[i] = IF i <= Len(t) THEN t[i] ELSE e[i - Len(t)]
  BY ConcatProperties
<1> HIDE DEF l, r
<1>6. Len(l) = Len(t) + Len(e) /\ Len(r) = Len(t) + Len(e)
  BY <1>1, <1>2, <1>3, <1>4, <1>5
<1>7. ASSUME NEW i \in 1 .. Len(t) + Len(e)
      PROVE  l[i] = r[i]
  <2>1. CASE i <= Len(t)
    <3>1. i \in 1 .. Len(t) /\ i \in 1 .. Len(a) + Len(b) /\ i <= Len(a)
      BY <1>1, <1>2, <1>3, <2>1
    <3>2. l[i] = a[i]
      BY <1>4, <3>1
    <3>3. a[i] = t[i]
      BY <1>3, <3>1
    <3>4. r[i] = t[i]
      BY <1>5, <2>1
    <3>5. QED
      BY <3>2, <3>3, <3>4
  <2>2. CASE i = Len(t) + 1
    <3>1. l[i] = e[1]
      BY <1>1, <1>2, <1>3, <1>4, <2>2
    <3>2. r[i] = e[1]
      BY <1>1, <1>5, <2>2
    <3>3. QED
      BY <3>1, <3>2
  <2>3. CASE i > Len(t) + 1
    <3>1. i - Len(a) \in 1 .. Len(e) - 1 /\ (i - Len(a)) + 1 = i - Len(t)
      BY <1>1, <1>3, <2>3
    <3>2. l[i] = b[i - Len(a)]
      <4>1. i \in 1 .. Len(a) + Len(b) /\ ~(i <= Len(a))
        BY <1>1, <1>2, <1>3, <2>3
      <4>2. QED
        BY <1>4, <4>1
    <3>3. b[i - Len(a)] = e[i - Len(t)]
      BY <1>2, <3>1
    <3>4. r[i] = e[i - Len(t)]
      BY <1>1, <1>5, <2>3
    <3>5. QED
      BY <3>2, <3>3, <3>4
  <2>4. QED
    BY <1>1, <2>1, <2>2, <2>3
<1>8. l = r
  BY <1>4, <1>5, <1>6, <1>7, SeqEqual
<1>9. Len(t) + 1 \in DOMAIN r /\ r[Len(t) + 1] = Head(e)
  <2>1. Len(t) + 1 \in 1 .. Len(t) + Len(e) /\ DOMAIN r = 1 .. Len(t) + Len(e)
    BY <1>1, <1>5
  <2>2. r[Len(t) + 1] = e[1]
    BY <1>1, <1>5, <2>1
  <2>3. QED
    BY <1>1, <2>1, <2>2
<1>10. QED
  BY <1>1, <1>2, <1>3, <1>8, <1>9 DEF l, r, a, b

LEMMA OneMore ==
  ASSUME NEW q \in Seq(StreamEvents), NEW x \in StreamEvents
  PROVE  LET r == Append(q, x)
         IN  /\ Len(q) \in Nat /\ Len(r) = Len(q) + 1
             /\ DOMAIN q = 1 .. Len(q) /\ DOMAIN r = 1 .. Len(q) + 1
             /\ \A i \in DOMAIN q : r[i] = q[i]
             /\ r[Len(q) + 1] = x
<1>1. /\ Append(q, x) \in Seq(StreamEvents) /\ Len(Append(q, x)) = Len(q) + 1
      /\ \A i \in 1 .. Len(q) : Append(q, x)[i] = q[i]
      /\ Append(q, x)[Len(q) + 1] = x
  BY AppendProperties
<1>2. QED
  BY <1>1

(* The outcomes and the ends among the events, when one more is put.       *)
LEMMA EventsMore ==
  ASSUME NEW q \in Seq(StreamEvents), NEW x \in StreamEvents
  PROVE  LET r == Append(q, x)
         IN  /\ Len(q) \in Nat
             /\ Finals(q) \subseteq 1 .. Len(q) /\ Ends(q) \subseteq 1 .. Len(q)
             /\ Finals(r) = IF IsFinal(x) THEN Finals(q) \cup {Len(q) + 1} ELSE Finals(q)
             /\ Ends(r) = IF x = "end" THEN Ends(q) \cup {Len(q) + 1} ELSE Ends(q)
<1> DEFINE r == Append(q, x)
<1>1. /\ Len(q) \in Nat /\ DOMAIN q = 1 .. Len(q) /\ DOMAIN r = 1 .. Len(q) + 1
      /\ \A i \in DOMAIN q : r[i] = q[i]
      /\ r[Len(q) + 1] = x
  BY OneMore
<1> HIDE DEF r
<1>2. \A i : i \in DOMAIN r <=> i \in DOMAIN q \/ i = Len(q) + 1
  BY <1>1
<1>3. Finals(r) = IF IsFinal(x) THEN Finals(q) \cup {Len(q) + 1} ELSE Finals(q)
  BY <1>1, <1>2 DEF Finals
<1>4. Ends(r) = IF x = "end" THEN Ends(q) \cup {Len(q) + 1} ELSE Ends(q)
  BY <1>1, <1>2 DEF Ends
<1>5. QED
  BY <1>1, <1>3, <1>4 DEF Finals, Ends, r

(* Progress can come at any time, an outcome before there is one and       *)
(* before the end, the end before there is one.                            *)
LEMMA GoesOn ==
  ASSUME NEW q \in Seq(StreamEvents), WellFormed(q)
  PROVE  /\ LET r == Append(q, "progress")
            IN  WellFormed(r) /\ Finals(r) = Finals(q) /\ Ends(r) = Ends(q)
         /\ Ends(q) = {} =>
              LET r == Append(q, "end")
              IN  /\ WellFormed(r) /\ Finals(r) = Finals(q)
                  /\ Ends(r) = {Len(q) + 1} /\ Len(q) \in Nat
         /\ \A f \in {"result", "error"} : Finals(q) = {} /\ Ends(q) = {} =>
              LET r == Append(q, f)
              IN  WellFormed(r) /\ Finals(r) # {} /\ Ends(r) = {}
<1> USE DEF StreamEvents
<1>1. WellFormed(Append(q, "progress")) /\ Finals(Append(q, "progress")) = Finals(q)
      /\ Ends(Append(q, "progress")) = Ends(q)
  <2>1. Finals(Append(q, "progress")) = Finals(q) /\ Ends(Append(q, "progress")) = Ends(q)
    BY EventsMore DEF IsFinal
  <2>2. QED
    BY <2>1 DEF WellFormed
<1>2. ASSUME Ends(q) = {}
      PROVE  /\ WellFormed(Append(q, "end")) /\ Finals(Append(q, "end")) = Finals(q)
             /\ Ends(Append(q, "end")) = {Len(q) + 1} /\ Len(q) \in Nat
  <2>1. /\ Len(q) \in Nat /\ Finals(q) \subseteq 1 .. Len(q)
        /\ Finals(Append(q, "end")) = Finals(q) /\ Ends(Append(q, "end")) = {Len(q) + 1}
    BY <1>2, EventsMore DEF IsFinal
  <2>2. \A i \in Finals(q) : i < Len(q) + 1
    BY <2>1
  <2>3. QED
    BY <2>1, <2>2 DEF WellFormed
<1>3. ASSUME NEW f \in {"result", "error"}, Finals(q) = {}, Ends(q) = {}
      PROVE  WellFormed(Append(q, f)) /\ Finals(Append(q, f)) # {} /\ Ends(Append(q, f)) = {}
  <2>1. Finals(Append(q, f)) = {Len(q) + 1} /\ Ends(Append(q, f)) = {}
    BY <1>3, EventsMore DEF IsFinal
  <2>2. QED
    BY <2>1 DEF WellFormed
<1>4. QED
  BY <1>1, <1>2, <1>3

-------------------------------------------------------------------------------
(* Who has the engine.                                                     *)

(* OneEngineRun, thread by thread.                                         *)
Holding ==
  /\ \A h \in Handlers : handler[h] = "running" <=> lock = h
  /\ \A s \in Streams : stream[s] \in {"running", "reported"} <=> lock = s
  /\ engine = "idle" <=> lock = Free
  /\ lock = Worker => worker = "executing"

LEMMA Names ==
  /\ Free # Worker
  /\ \A h \in Handlers : h # Free /\ h # Worker /\ h \notin Streams
  /\ \A s \in Streams : s # Free /\ s # Worker /\ s \notin Handlers
BY DaemonAssumption DEF Free, Worker

LEMMA HoldingIs ==
  ASSUME TypeOK
  PROVE  OneEngineRun <=> Holding
<1> USE Names
<1>1. lock \in {Free, Worker} \cup Handlers \cup Streams
  BY DEF TypeOK
<1>2. ASSUME OneEngineRun PROVE Holding
  <2>1. ASSUME NEW h \in Handlers
        PROVE  handler[h] = "running" <=> lock = h
    <3>1. h \in Inside <=> handler[h] = "running"
      BY DEF Inside
    <3>2. h \in Inside <=> lock = h
      BY <1>2 DEF OneEngineRun
    <3>3. QED
      BY <3>1, <3>2
  <2>2. ASSUME NEW s \in Streams
        PROVE  stream[s] \in {"running", "reported"} <=> lock = s
    <3>1. s \in Inside <=> stream[s] \in {"running", "reported"}
      BY DEF Inside
    <3>2. s \in Inside <=> lock = s
      BY <1>2 DEF OneEngineRun
    <3>3. QED
      BY <3>1, <3>2
  <2>3. QED
    BY <1>2, <2>1, <2>2 DEF OneEngineRun, Holding
<1>3. ASSUME Holding PROVE OneEngineRun
  <2>1. \A x : x \in Inside <=> lock # Free /\ x = lock
    BY <1>1, <1>3 DEF Holding, Inside
  <2>2. Inside = IF lock = Free THEN {} ELSE {lock}
    BY <2>1
  <2>3. QED
    BY <1>3, <2>2 DEF Holding, OneEngineRun
<1>4. QED
  BY <1>2, <1>3

LEMMA HoldingIsNext == TypeOK' => (OneEngineRun' <=> Holding')
<1>1. TypeOK => (OneEngineRun <=> Holding)
  BY HoldingIs
<1>2. QED
  BY <1>1, PTL

(* What job_finished does to the clock and the engine.                     *)
LEMMA JobFinishedType ==
  ASSUME TypeOK, Configured, NEW ok \in BOOLEAN, JobFinished(ok)
  PROVE  /\ age' \in 0 .. ttl /\ armed' \in (0 .. ttl) \cup {NotArmed} /\ loaded' \in BOOLEAN
         /\ warm => age' = 0
         /\ ~warm => UNCHANGED <<age, armed, loaded>>
         /\ loaded /\ ~loaded' => ttl = 0
<1>1. ttl \in Nat
  BY DaemonAssumption DEF Configured
<1>2. age' \in 0 .. ttl
  BY <1>1 DEF TypeOK, JobFinished
<1>3. armed' \in (0 .. ttl) \cup {NotArmed}
  BY <1>1 DEF TypeOK, JobFinished
<1>4. loaded' \in BOOLEAN
  <2>1. loaded' \in {FALSE, loaded}
    BY DEF JobFinished, UnloadEngine
  <2>2. QED
    BY <2>1 DEF TypeOK
<1>5. loaded /\ ~loaded' => ttl = 0
  BY DEF JobFinished
<1>6. warm => age' = 0
  BY DEF JobFinished
<1>7. ~warm => UNCHANGED <<age, armed, loaded>>
  BY DEF JobFinished
<1>8. QED
  BY <1>2, <1>3, <1>4, <1>5, <1>6, <1>7

LEMMA HoldingNext ==
  ASSUME TypeOK, Holding, \A s \in Streams : Threads(s), [Next]_vars
  PROVE  Holding'
<1> USE Names DEF Holding
<1>1. ASSUME NEW h \in Handlers, HandlerStep(h)
      PROVE  Holding'
  <2>1. CASE Call(h)
    BY <2>1 DEF Call, queue, streaming, TypeOK
  <2>2. CASE HandlerEnters(h)
    BY <2>2 DEF HandlerEnters, Enter, queue, streaming, TypeOK
  <2>3. CASE HandlerLeaves(h)
    BY <2>3 DEF HandlerLeaves, Leave, queue, streaming, TypeOK
  <2>4. QED
    BY <1>1, <2>1, <2>2, <2>3 DEF HandlerStep
<1>2. CASE QueueStep
  <2>1. UNCHANGED <<lock, engine, handler, stream>>
    BY <1>2 DEF QueueStep, streaming
  <2>2. worker = "executing" => worker' = "executing"
    BY <1>2 DEF QueueStep, Q!Submit, Q!Cancel, Q!Take, Q!Skip, Q!Start, Q!Finish, Q!thread
  <2>3. QED
    BY <2>1, <2>2
<1>3. CASE WorkerEnters
  BY <1>3 DEF WorkerEnters, Enter, queue, streaming, TypeOK
<1>4. CASE WorkerLeaves
  BY <1>4 DEF WorkerLeaves, Leave, streaming, TypeOK
<1>5. ASSUME NEW o \in Outcomes, EngineEnds(o)
      PROVE  Holding'
  BY <1>5 DEF EngineEnds, queue, streaming
<1>6. ASSUME NEW s \in Streams, ThreadStep(s)
      PROVE  Holding'
  <2>1. CASE StreamEnters(s)
    BY <2>1 DEF StreamEnters, Enter, NotStreaming, queue, TypeOK
  <2>2. CASE StreamProgress(s)
    BY <2>2 DEF StreamProgress, NotStreaming, queue
  <2>3. CASE StreamReports(s)
    BY <2>3 DEF StreamReports, NotStreaming, queue, TypeOK
  <2>4. CASE StreamLeaves(s)
    BY <2>4 DEF StreamLeaves, Leave, NotStreaming, queue, TypeOK
  <2>5. QED
    BY <1>6, <2>1, <2>2, <2>3, <2>4 DEF ThreadStep
<1>7. ASSUME NEW s \in Streams, Open(s) \/ RelayStarts(s) \/ RelayNext(s) \/ Disconnect(s)
      PROVE  Holding'
  <2>1. CASE RelayStarts(s)
    <3>1. stream[s] = "idle"
      BY <2>1 DEF RelayStarts, Threads
    <3>2. QED
      BY <2>1, <3>1 DEF RelayStarts, NotStreaming, queue, TypeOK
  <2>2. CASE Open(s) \/ RelayNext(s) \/ Disconnect(s)
    BY <2>2 DEF Open, RelayNext, Disconnect, NotStreaming, queue
  <2>3. QED
    BY <1>7, <2>1, <2>2
<1>8. CASE Tick \/ TimerFires \/ IdleExpired
  BY <1>8 DEF Tick, TimerFires, IdleExpired, queue, streaming
<1>9. CASE UNCHANGED vars
  BY <1>9 DEF vars, queue, streaming
<1>10. QED
  BY <1>1, <1>2, <1>3, <1>4, <1>5, <1>6, <1>7, <1>8, <1>9 DEF Next

-------------------------------------------------------------------------------
(* The timer.                                                              *)

LEMMA UpToType ==
  ASSUME NEW n \in Nat, NEW limit \in Nat
  PROVE  UpTo(n, limit) \in 0 .. limit
BY DEF UpTo

(* The clock and the engine behind any step.                               *)
LEMMA ClockNext ==
  ASSUME TypeOK, Configured, Holding, AgeIsTrue, [Next]_vars
  PROVE  /\ age' \in 0 .. ttl' /\ quiet' \in 0 .. ttl'
         /\ armed' \in (0 .. ttl') \cup {NotArmed}
         /\ expired' \in Nat
         /\ loaded' \in BOOLEAN
         /\ Configured'
         /\ AgeIsTrue'
         /\ loaded /\ ~loaded' => quiet >= ttl /\ engine # "running"
<1> DEFINE G == /\ age' \in 0 .. ttl' /\ quiet' \in 0 .. ttl'
                /\ armed' \in (0 .. ttl') \cup {NotArmed}
                /\ expired' \in Nat
                /\ loaded' \in BOOLEAN
                /\ Configured'
                /\ AgeIsTrue'
                /\ loaded /\ ~loaded' => quiet >= ttl /\ engine # "running"
<1>1. /\ ttl \in Nat /\ age \in 0 .. ttl /\ quiet \in 0 .. ttl
      /\ armed \in (0 .. ttl) \cup {NotArmed} /\ expired \in Nat
      /\ loaded \in BOOLEAN /\ warm \in BOOLEAN /\ ttl \in Ttls
  BY DaemonAssumption DEF TypeOK, Configured
<1>2. ASSUME UNCHANGED <<setup, loaded, clock>>, lock' = Free => lock = Free
      PROVE  G
  BY <1>1, <1>2 DEF setup, clock, Configured, AgeIsTrue
<1>3. ASSUME NEW ok \in BOOLEAN, Leave(ok), UNCHANGED setup
      PROVE  G
  <2>1. /\ age' \in 0 .. ttl /\ armed' \in (0 .. ttl) \cup {NotArmed} /\ loaded' \in BOOLEAN
        /\ warm => age' = 0
        /\ ~warm => UNCHANGED <<age, armed, loaded>>
        /\ loaded /\ ~loaded' => ttl = 0
    BY <1>3, JobFinishedType DEF Leave
  <2>2. engine = "ran" /\ UNCHANGED <<expired, quiet, ttl, warm>>
    BY <1>3 DEF Leave, setup
  <2>3. Configured'
    BY <1>1, <2>1, <2>2 DEF Configured
  <2>4. AgeIsTrue'
    BY <1>1, <2>1, <2>2 DEF AgeIsTrue
  <2>5. QED
    BY <1>1, <2>1, <2>2, <2>3, <2>4
<1>4. ASSUME NEW h \in Handlers, HandlerStep(h)
      PROVE  G
  <2>1. CASE HandlerLeaves(h)
    BY <1>3, <2>1 DEF HandlerLeaves
  <2>2. CASE Call(h) \/ HandlerEnters(h)
    BY <1>2, <2>2 DEF Call, HandlerEnters, Enter
  <2>3. QED
    BY <1>4, <2>1, <2>2 DEF HandlerStep
<1>5. CASE QueueStep
  BY <1>2, <1>5 DEF QueueStep
<1>6. CASE WorkerEnters
  BY <1>2, <1>6, Names DEF WorkerEnters, Enter
<1>7. CASE WorkerLeaves
  BY <1>3, <1>7 DEF WorkerLeaves
<1>8. ASSUME NEW o \in Outcomes, EngineEnds(o)
      PROVE  G
  <2>1. /\ engine = "running" /\ quiet' = 0 /\ UNCHANGED <<ttl, warm, lock, age, armed, expired>>
        /\ loaded' \in IF ~warm THEN {FALSE} ELSE IF o = "envelope" THEN {TRUE} ELSE {loaded, TRUE}
    BY <1>8 DEF EngineEnds, setup
  <2>2. loaded' \in BOOLEAN /\ (~warm => ~loaded')
    BY <2>1, <1>1
  <2>3. loaded => loaded'
    BY <2>1 DEF Configured
  <2>4. lock # Free
    BY <2>1 DEF Holding
  <2>5. Configured' /\ AgeIsTrue'
    BY <1>1, <2>1, <2>2, <2>4 DEF Configured, AgeIsTrue
  <2>6. QED
    BY <1>1, <2>1, <2>2, <2>3, <2>5
<1>9. ASSUME NEW s \in Streams, ThreadStep(s)
      PROVE  G
  <2>1. CASE StreamLeaves(s)
    BY <1>3, <2>1 DEF StreamLeaves, NotStreaming
  <2>2. CASE StreamEnters(s)
    BY <1>2, <2>2 DEF StreamEnters, Enter, NotStreaming
  <2>3. CASE StreamProgress(s) \/ StreamReports(s)
    BY <1>2, <2>3 DEF StreamProgress, StreamReports, NotStreaming
  <2>4. QED
    BY <1>9, <2>1, <2>2, <2>3 DEF ThreadStep
<1>10. ASSUME NEW s \in Streams, Open(s) \/ RelayStarts(s) \/ RelayNext(s) \/ Disconnect(s)
       PROVE  G
  BY <1>2, <1>10 DEF Open, RelayStarts, RelayNext, Disconnect, NotStreaming
<1>11. CASE Tick
  <2>1. /\ age' = UpTo(age + 1, ttl) /\ quiet' = UpTo(quiet + 1, ttl)
        /\ armed' = IF armed = NotArmed \/ armed = 0 THEN armed ELSE armed - 1
        /\ UNCHANGED <<ttl, warm, lock, loaded, expired>>
    BY <1>11 DEF Tick, setup
  <2>2. age' \in 0 .. ttl /\ quiet' \in 0 .. ttl
    BY <1>1, <2>1, UpToType
  <2>3. armed' \in (0 .. ttl) \cup {NotArmed}
    BY <1>1, <2>1
  <2>4. age <= quiet => age' <= quiet'
    BY <1>1, <2>1 DEF UpTo
  <2>5. Configured' /\ AgeIsTrue'
    BY <2>1, <2>4 DEF Configured, AgeIsTrue
  <2>6. QED
    BY <1>1, <2>1, <2>2, <2>3, <2>5
<1>12. CASE TimerFires
  BY <1>1, <1>12 DEF TimerFires, setup, Configured, AgeIsTrue
<1>13. CASE IdleExpired
  <2>1. /\ lock = Free /\ expired > 0 /\ expired' = expired - 1
        /\ UNCHANGED <<ttl, warm, lock, age, armed, quiet>>
        /\ IF age >= ttl THEN UnloadEngine ELSE UNCHANGED loaded
    BY <1>13 DEF IdleExpired, setup
  <2>2. loaded' \in {loaded, FALSE}
    BY <2>1 DEF UnloadEngine
  <2>3. engine = "idle"
    BY <2>1 DEF Holding
  <2>4. loaded /\ ~loaded' => quiet >= ttl
    <3> SUFFICES ASSUME loaded, ~loaded' PROVE quiet >= ttl
      OBVIOUS
    <3>1. warm /\ age >= ttl
      BY <2>1 DEF Configured
    <3>2. age <= quiet
      BY <2>1, <3>1 DEF AgeIsTrue
    <3>3. QED
      BY <1>1, <3>1, <3>2
  <2>5. loaded' \in BOOLEAN
    BY <1>1, <2>2
  <2>6. ~loaded => ~loaded'
    BY <2>2
  <2>7. Configured'
    BY <1>1, <2>1, <2>6 DEF Configured
  <2>8. AgeIsTrue'
    BY <2>1 DEF AgeIsTrue
  <2>9. QED
    BY <1>1, <2>1, <2>3, <2>4, <2>5, <2>7, <2>8
<1>14. CASE UNCHANGED vars
  BY <1>2, <1>14 DEF vars
<1>15. QED
  BY <1>4, <1>5, <1>6, <1>7, <1>8, <1>9, <1>10, <1>11, <1>12, <1>13, <1>14 DEF Next

-------------------------------------------------------------------------------
(* The streams.                                                            *)

(* A stream that aborted its engine call did so for a client that left.    *)
LEMMA AbortedNext ==
  ASSUME TypeOK, Holding, AbortedForTheGone, \A s \in Streams : Threads(s), [Next]_vars
  PROVE  AbortedForTheGone'
<1> USE Names
<1>2. ASSUME engine' = "ran" => engine = "ran", UNCHANGED <<outcome, lock>>,
             \A s \in Streams : gone[s] => gone'[s]
      PROVE  AbortedForTheGone'
  BY <1>2 DEF AbortedForTheGone
<1>3. ASSUME NEW h \in Handlers, HandlerStep(h)
      PROVE  AbortedForTheGone'
  BY <1>3 DEF HandlerStep, Call, HandlerEnters, HandlerLeaves, Enter, Leave, streaming,
              AbortedForTheGone
<1>4. CASE QueueStep
  BY <1>2, <1>4 DEF QueueStep, streaming
<1>5. CASE WorkerEnters
  BY <1>5 DEF WorkerEnters, Enter, streaming, AbortedForTheGone, Outcomes
<1>6. CASE WorkerLeaves
  BY <1>6 DEF WorkerLeaves, Leave, streaming, AbortedForTheGone
<1>7. ASSUME NEW o \in Outcomes, EngineEnds(o)
      PROVE  AbortedForTheGone'
  BY <1>7 DEF EngineEnds, MayAbort, streaming, AbortedForTheGone
<1>8. ASSUME NEW s \in Streams, ThreadStep(s)
      PROVE  AbortedForTheGone'
  BY <1>8 DEF ThreadStep, StreamEnters, StreamProgress, StreamReports, StreamLeaves, Enter, Leave,
              AbortedForTheGone
<1>9. ASSUME NEW s \in Streams, Open(s) \/ RelayStarts(s)
      PROVE  AbortedForTheGone'
  BY <1>2, <1>9 DEF Open, RelayStarts
<1>10. ASSUME NEW s \in Streams, RelayNext(s) \/ Disconnect(s)
       PROVE  AbortedForTheGone'
  <2>1. ~gone[s]
    BY <1>10 DEF RelayNext, Disconnect, Threads
  <2>2. \A t \in Streams : t # s => gone'[t] = gone[t]
    BY <1>10 DEF RelayNext, Disconnect, TypeOK
  <2>3. QED
    BY <1>2, <1>10, <2>1, <2>2 DEF RelayNext, Disconnect
<1>11. CASE Tick \/ TimerFires \/ IdleExpired
  BY <1>2, <1>11 DEF Tick, TimerFires, IdleExpired, streaming
<1>12. CASE UNCHANGED vars
  BY <1>2, <1>12 DEF vars, streaming
<1>13. QED
  BY <1>3, <1>4, <1>5, <1>6, <1>7, <1>8, <1>9, <1>10, <1>11, <1>12 DEF Next

LEMMA ReportedNext ==
  ASSUME TypeOK, Holding, ReportedHasRun, [Next]_vars
  PROVE  ReportedHasRun'
<1> USE Names
<1>1. ASSUME UNCHANGED <<engine, stream>>
      PROVE  ReportedHasRun'
  BY <1>1 DEF ReportedHasRun
<1>2. ASSUME NEW h \in Handlers, HandlerStep(h)
      PROVE  ReportedHasRun'
  BY <1>2 DEF HandlerStep, Call, HandlerEnters, HandlerLeaves, Enter, Leave, streaming,
              ReportedHasRun, Holding
<1>3. CASE WorkerEnters \/ WorkerLeaves
  BY <1>3 DEF WorkerEnters, WorkerLeaves, Enter, Leave, streaming, ReportedHasRun, Holding
<1>4. ASSUME NEW o \in Outcomes, EngineEnds(o)
      PROVE  ReportedHasRun'
  BY <1>4 DEF EngineEnds, streaming, ReportedHasRun
<1>5. ASSUME NEW s \in Streams, StreamEnters(s) \/ StreamReports(s) \/ StreamLeaves(s)
      PROVE  ReportedHasRun'
  BY <1>5 DEF StreamEnters, StreamReports, StreamLeaves, Enter, Leave, ReportedHasRun, Holding, TypeOK
<1>6. ASSUME NEW s \in Streams, RelayStarts(s)
      PROVE  ReportedHasRun'
  BY <1>6 DEF RelayStarts, ReportedHasRun, TypeOK
<1>7. ASSUME NEW s \in Streams, StreamProgress(s) \/ Open(s) \/ RelayNext(s) \/ Disconnect(s)
      PROVE  ReportedHasRun'
  BY <1>1, <1>7 DEF StreamProgress, Open, RelayNext, Disconnect
<1>8. CASE QueueStep \/ Tick \/ TimerFires \/ IdleExpired \/ UNCHANGED vars
  BY <1>1, <1>8 DEF QueueStep, Tick, TimerFires, IdleExpired, vars, streaming
<1>9. QED
  BY <1>2, <1>3, <1>4, <1>5, <1>6, <1>7, <1>8 DEF Next, ThreadStep

StreamStep(s) == ThreadStep(s) \/ Open(s) \/ RelayStarts(s) \/ RelayNext(s) \/ Disconnect(s)

(* Nobody else touches what belongs to a stream.                           *)
LEMMA OtherStreams ==
  ASSUME TypeOK, [Next]_vars, NEW s \in Streams, ~StreamStep(s)
  PROVE  /\ stream'[s] = stream[s] /\ relay'[s] = relay[s] /\ gone'[s] = gone[s]
         /\ events'[s] = events[s] /\ seen'[s] = seen[s]
<1>1. CASE UNCHANGED streaming
  BY <1>1 DEF streaming
<1>2. ASSUME NEW t \in Streams, t # s, StreamStep(t)
      PROVE  /\ stream'[s] = stream[s] /\ relay'[s] = relay[s] /\ gone'[s] = gone[s]
             /\ events'[s] = events[s] /\ seen'[s] = seen[s]
  <2>1. CASE ThreadStep(t)
    BY <1>2, <2>1 DEF ThreadStep, StreamEnters, StreamProgress, StreamReports, StreamLeaves, TypeOK
  <2>2. CASE Open(t) \/ RelayStarts(t) \/ RelayNext(t) \/ Disconnect(t)
    BY <1>2, <2>2 DEF Open, RelayStarts, RelayNext, Disconnect, TypeOK
  <2>3. QED
    BY <1>2, <2>1, <2>2 DEF StreamStep
<1>3. CASE (\E h \in Handlers : HandlerStep(h)) \/ QueueStep \/ WorkerEnters \/ WorkerLeaves
           \/ (\E o \in Outcomes : EngineEnds(o)) \/ Tick \/ TimerFires \/ IdleExpired
           \/ UNCHANGED vars
  <2>1. UNCHANGED streaming
    BY <1>3 DEF HandlerStep, Call, HandlerEnters, HandlerLeaves, QueueStep, WorkerEnters,
                WorkerLeaves, EngineEnds, Tick, TimerFires, IdleExpired, vars
  <2>2. QED
    BY <1>1, <2>1
<1>4. QED
  BY <1>2, <1>3 DEF Next, StreamStep

(* What became of the queue and the client's copy of it.                   *)
LEMMA Unsent ==
  ASSUME NEW s \in Streams, events'[s] = events[s], seen'[s] = seen[s]
  PROVE  Sent(s)' = Sent(s)
BY DEF Sent

LEMMA SentOne ==
  ASSUME TypeOK, NEW s \in Streams, NEW x \in StreamEvents,
         events' = [events EXCEPT ![s] = Append(@, x)], UNCHANGED seen
  PROVE  /\ Sent(s)' = Append(Sent(s), x)
         /\ events' \in [Streams -> Seq(StreamEvents)]
<1>1. events[s] \in Seq(StreamEvents) /\ seen[s] \in Seq(StreamEvents)
  BY DEF TypeOK
<1>2. events'[s] = Append(events[s], x) /\ seen'[s] = seen[s]
  BY DEF TypeOK
<1>3. seen[s] \o Append(events[s], x) = Append(seen[s] \o events[s], x)
  BY <1>1, SentMore
<1>4. Append(events[s], x) \in Seq(StreamEvents)
  BY <1>1, AppendProperties
<1>5. QED
  BY <1>2, <1>3, <1>4 DEF Sent, TypeOK

(* The thread of a stream.                                                 *)
LEMMA ThreadNext ==
  ASSUME TypeOK, Holding, AbortedForTheGone, ReportedHasRun,
         NEW s \in Streams, Threads(s), Shape(s), ThreadStep(s)
  PROVE  /\ Threads(s)' /\ Shape(s)'
         /\ events' \in [Streams -> Seq(StreamEvents)]
<1> USE Names DEF StreamEvents
<1> DEFINE q == Sent(s)
<1>1. q \in Seq(StreamEvents)
  BY SentType
<1>2. UNCHANGED <<relay, gone, seen>>
  BY DEF ThreadStep, StreamEnters, StreamProgress, StreamReports, StreamLeaves
<1>3. events \in [Streams -> Seq(StreamEvents)] /\ stream[s] \in {"idle", "waiting", "running", "reported", "ended"}
  BY DEF TypeOK
<1>4. relay[s] # "closed" \/ stream[s] = "ended"
  BY DEF Threads
<1>5. WellFormed(q)
  BY DEF Shape, Announced
<1> HIDE DEF q
<1>6. ASSUME NEW r, Sent(s)' = r, relay'[s] = relay[s], UNCHANGED seen, Len(q) \in Nat,
             Ends(r) = Ends(q) \/ (Ends(r) = {Len(q) + 1} /\ Ends(q) = {}),
             Finals(q) # {} => Finals(r) # {}
      PROVE  Handed(s)'
  <2>1. Len(seen[s]) \in Nat /\ Len(seen[s]) <= Len(q)
    BY SentType, ConcatProperties DEF TypeOK, Sent, q
  <2>2. QED
    BY <1>6, <2>1 DEF Shape, Handed, q
<1>7. CASE StreamEnters(s)
  <2>1. stream[s] = "waiting" /\ Finals(q) = {} /\ Ends(q) = {}
    BY <1>7 DEF StreamEnters, Shape, Announced, q
  <2>2. CASE gone[s]
    <3>1. stream'[s] = "ended" /\ events' = [events EXCEPT ![s] = Append(@, "end")]
      BY <1>7, <2>2 DEF StreamEnters, TypeOK
    <3>2. Sent(s)' = Append(q, "end") /\ events' \in [Streams -> Seq(StreamEvents)]
      BY <1>2, <3>1, SentOne DEF q
    <3>3. /\ WellFormed(Append(q, "end")) /\ Finals(Append(q, "end")) = Finals(q)
          /\ Ends(Append(q, "end")) = {Len(q) + 1} /\ Len(q) \in Nat
      BY <1>1, <1>5, <2>1, GoesOn
    <3>4. Handed(s)'
      BY <1>2, <1>6, <2>1, <3>2, <3>3
    <3>5. Announced(s)'
      BY <1>2, <2>1, <2>2, <3>1, <3>2, <3>3 DEF Announced
    <3>6. QED
      BY <1>2, <1>4, <2>1, <3>1, <3>2, <3>4, <3>5 DEF Threads, Shape
  <2>3. CASE ~gone[s]
    <3>1. stream'[s] = "running" /\ UNCHANGED events
      BY <1>7, <2>3 DEF StreamEnters, TypeOK
    <3>2. Sent(s)' = q
      BY <1>2, <3>1, Unsent DEF q
    <3>3. Handed(s)'
      BY <1>1, <1>2, <1>6, <3>2
    <3>4. Announced(s)'
      BY <1>5, <2>1, <3>1, <3>2 DEF Announced
    <3>5. QED
      BY <1>2, <1>3, <1>4, <2>1, <3>1, <3>3, <3>4 DEF Threads, Shape
  <2>4. QED
    BY <2>2, <2>3
<1>8. CASE StreamProgress(s)
  <2>1. /\ UNCHANGED <<stream, relay, gone, seen>>
        /\ events' = [events EXCEPT ![s] = Append(@, "progress")]
    BY <1>8 DEF StreamProgress
  <2>2. Sent(s)' = Append(q, "progress") /\ events' \in [Streams -> Seq(StreamEvents)]
    BY <1>2, <2>1, SentOne DEF q
  <2>3. /\ WellFormed(Append(q, "progress")) /\ Finals(Append(q, "progress")) = Finals(q)
        /\ Ends(Append(q, "progress")) = Ends(q)
    BY <1>1, <1>5, GoesOn
  <2>4. Handed(s)'
    <3>1. relay'[s] = relay[s] /\ Len(q) \in Nat
      BY <1>1, <2>1
    <3>2. QED
      BY <1>2, <1>6, <2>2, <2>3, <3>1
  <2>5. Announced(s)'
    BY <2>1, <2>2, <2>3 DEF Shape, Announced, q
  <2>6. QED
    BY <2>1, <2>2, <2>4, <2>5 DEF Threads, Shape
<1>9. CASE StreamReports(s)
  <2>1. /\ lock = s /\ engine = "ran" /\ stream[s] = "running" /\ stream'[s] = "reported"
        /\ events' = [events EXCEPT ![s] = @ \o Report(outcome, gone[s])]
        /\ Finals(q) = {} /\ Ends(q) = {}
    BY <1>9 DEF StreamReports, TypeOK, Shape, Announced, q
  <2>2. outcome \in Outcomes /\ (outcome = "Cancelled" => gone[s])
    BY <2>1 DEF AbortedForTheGone
  <2>3. \/ \E f \in {"result", "error"} : Report(outcome, gone[s]) = <<f>>
        \/ Report(outcome, gone[s]) = << >> /\ gone[s]
    BY <2>2 DEF Outcomes, Report
  <2>4. ASSUME NEW f \in {"result", "error"}, Report(outcome, gone[s]) = <<f>>
        PROVE  Shape(s)' /\ events' \in [Streams -> Seq(StreamEvents)]
    <3>1. f \in StreamEvents
      OBVIOUS
    <3>2. events[s] \o <<f>> = Append(events[s], f)
      BY <1>3, <3>1, AppendIsConcat
    <3>3. events' = [events EXCEPT ![s] = Append(@, f)]
      BY <2>1, <2>4, <3>2
    <3>4. Sent(s)' = Append(q, f) /\ events' \in [Streams -> Seq(StreamEvents)]
      BY <1>2, <3>1, <3>3, SentOne DEF q
    <3>5. WellFormed(Append(q, f)) /\ Finals(Append(q, f)) # {} /\ Ends(Append(q, f)) = {}
      BY <1>1, <1>5, <2>1, GoesOn
    <3>6. Handed(s)'
      <4>1. relay'[s] = relay[s] /\ Len(q) \in Nat /\ Ends(Append(q, f)) = Ends(q)
        BY <1>1, <1>2, <2>1, <3>5
      <4>2. QED
        BY <1>2, <1>6, <3>4, <3>5, <4>1
    <3>7. Announced(s)'
      BY <2>1, <3>4, <3>5 DEF Announced
    <3>8. QED
      BY <3>4, <3>6, <3>7 DEF Shape
  <2>5. ASSUME Report(outcome, gone[s]) = << >>, gone[s]
        PROVE  Shape(s)' /\ events' \in [Streams -> Seq(StreamEvents)]
    <3>1. events[s] \o << >> = events[s]
      BY <1>3, ConcatEmptySeq
    <3>2. events' = events
      BY <1>3, <2>1, <2>5, <3>1
    <3>3. Sent(s)' = q
      BY <1>2, <3>2, Unsent DEF q
    <3>4. Handed(s)'
      BY <1>1, <1>2, <1>6, <3>3
    <3>5. Announced(s)'
      BY <1>2, <1>5, <2>1, <2>5, <3>3 DEF Announced
    <3>6. QED
      BY <1>3, <3>2, <3>4, <3>5 DEF Shape
  <2>6. Threads(s)'
    BY <1>2, <1>4, <2>1 DEF Threads
  <2>7. QED
    BY <2>3, <2>4, <2>5, <2>6
<1>10. CASE StreamLeaves(s)
  <2>1. PICK ok \in BOOLEAN :
          events' = [events EXCEPT ![s] = IF ok THEN Append(@, "end") ELSE @]
    BY <1>10 DEF StreamLeaves
  <2>2. stream[s] = "reported" /\ stream'[s] = "ended"
    BY <1>10 DEF StreamLeaves, TypeOK
  <2>3. Ends(q) = {} /\ (Finals(q) # {} \/ gone[s])
    BY <2>2 DEF Shape, Announced, q
  <2>4. CASE ok
    <3>1. Sent(s)' = Append(q, "end") /\ events' \in [Streams -> Seq(StreamEvents)]
      BY <1>2, <2>1, <2>4, SentOne DEF q
    <3>2. /\ WellFormed(Append(q, "end")) /\ Finals(Append(q, "end")) = Finals(q)
          /\ Ends(Append(q, "end")) = {Len(q) + 1} /\ Len(q) \in Nat
      BY <1>1, <1>5, <2>3, GoesOn
    <3>3. Handed(s)'
      BY <1>2, <1>6, <2>3, <3>1, <3>2
    <3>4. Announced(s)'
      BY <1>2, <2>2, <2>3, <3>1, <3>2 DEF Announced
    <3>5. QED
      BY <1>2, <1>4, <2>2, <3>1, <3>3, <3>4 DEF Threads, Shape
  <2>5. CASE ~ok
    <3>1. events' = events
      BY <1>3, <2>1, <2>5
    <3>2. Sent(s)' = q
      BY <1>2, <3>1, Unsent DEF q
    <3>3. Handed(s)'
      BY <1>1, <1>2, <1>6, <3>2
    <3>4. Announced(s)'
      BY <1>2, <1>5, <2>2, <2>3, <3>2 DEF Announced
    <3>5. QED
      BY <1>2, <1>3, <1>4, <2>2, <3>1, <3>3, <3>4 DEF Threads, Shape
  <2>6. QED
    BY <2>4, <2>5
<1>11. QED
  BY <1>7, <1>8, <1>9, <1>10 DEF ThreadStep

(* The relay and its client: a client that reads the end has read an       *)
(* outcome, for nobody but a client that left goes without.                *)
LEMMA RelayStep ==
  ASSUME TypeOK, NEW s \in Streams, Threads(s), Shape(s),
         Open(s) \/ RelayStarts(s) \/ RelayNext(s) \/ Disconnect(s)
  PROVE  /\ Threads(s)' /\ Shape(s)'
         /\ events' \in [Streams -> Seq(StreamEvents)] /\ seen' \in [Streams -> Seq(StreamEvents)]
         /\ gone'[s] \in BOOLEAN
<1> DEFINE q == Sent(s)
<1>1. /\ events \in [Streams -> Seq(StreamEvents)] /\ seen \in [Streams -> Seq(StreamEvents)]
      /\ gone \in [Streams -> BOOLEAN]
      /\ relay \in [Streams -> {"idle", "requested", "open", "closed", "dropped"}]
      /\ stream \in [Streams -> {"idle", "waiting", "running", "reported", "ended"}]
  BY DEF TypeOK
<1>2. CASE Open(s) \/ RelayStarts(s)
  <2>1. UNCHANGED <<events, seen, gone>>
    BY <1>2 DEF Open, RelayStarts
  <2>2. Sent(s)' = q /\ seen'[s] = seen[s]
    BY <2>1, Unsent
  <2>3. /\ relay[s] \in {"idle", "requested"} /\ relay'[s] \in {"requested", "open"}
        /\ relay'[s] = "requested" => stream'[s] = stream[s]
        /\ stream'[s] \in {"idle", "waiting"} /\ stream[s] = "idle"
        /\ ~gone[s]
    BY <1>1, <1>2 DEF Open, RelayStarts, Threads
  <2>4. Announced(s)'
    BY <2>1, <2>2, <2>3 DEF Shape, Announced
  <2>5. Handed(s)'
    BY <2>2, <2>3 DEF Shape, Handed
  <2>6. QED
    BY <1>1, <2>1, <2>3, <2>4, <2>5 DEF Threads, Shape
<1>3. CASE Disconnect(s)
  <2>1. /\ UNCHANGED <<events, seen, stream>>
        /\ relay[s] \in {"requested", "open"} /\ relay'[s] = "dropped"
        /\ gone'[s] \in BOOLEAN /\ ~gone[s]
    BY <1>1, <1>3 DEF Disconnect, Threads
  <2>2. Sent(s)' = q /\ seen'[s] = seen[s]
    BY <2>1, Unsent
  <2>3. Announced(s)'
    BY <2>1, <2>2 DEF Shape, Announced
  <2>4. Handed(s)'
    BY <2>1, <2>2 DEF Shape, Handed
  <2>5. QED
    BY <1>1, <2>1, <2>3, <2>4 DEF Threads, Shape
<1>4. CASE RelayNext(s)
  <2> DEFINE e == Head(events[s])
             n == Len(seen[s])
  <2>1. /\ relay[s] = "open" /\ events[s] # << >> /\ UNCHANGED stream /\ ~gone[s]
        /\ events' = [events EXCEPT ![s] = Tail(@)]
        /\ seen' = [seen EXCEPT ![s] = Append(@, e)]
    BY <1>4 DEF RelayNext, Threads
  <2>2. /\ Append(seen[s], e) \in Seq(StreamEvents) /\ Tail(events[s]) \in Seq(StreamEvents)
        /\ Append(seen[s], e) \o Tail(events[s]) = q
        /\ Len(Append(seen[s], e)) = n + 1 /\ n \in Nat
        /\ n + 1 \in DOMAIN q /\ q[n + 1] = e
    BY <1>1, <2>1, HandedOver DEF Sent
  <2>3. Sent(s)' = q /\ Len(seen[s])' = n + 1
    BY <1>1, <2>1, <2>2 DEF Sent
  <2>4. /\ events' \in [Streams -> Seq(StreamEvents)]
        /\ seen' \in [Streams -> Seq(StreamEvents)]
    BY <1>1, <2>1, <2>2
  <2>5. /\ \A k \in Ends(q) : k > n
        /\ Ends(q) \subseteq DOMAIN q /\ DOMAIN q = 1 .. Len(q) /\ Len(q) \in Nat
    BY <2>1, SentType DEF Shape, Handed, Ends
  <2> HIDE DEF q, n, e
  <2>6. CASE e = "end"
    <3>1. relay'[s] = "closed" /\ gone'[s] = TRUE
      BY <1>1, <1>4, <2>6 DEF RelayNext, e
    <3>2. n + 1 \in Ends(q)
      BY <2>2, <2>6 DEF Ends
    <3>3. stream[s] = "ended" /\ Finals(q) # {}
      BY <2>1, <3>2 DEF Shape, Announced, q
    <3>4. Handed(s)'
      BY <2>3, <3>1, <3>2, <3>3 DEF Handed
    <3>5. Announced(s)'
      BY <2>1, <2>3, <3>1 DEF Shape, Announced, q
    <3>6. QED
      BY <1>1, <2>1, <2>4, <3>1, <3>3, <3>4, <3>5 DEF Threads, Shape
  <2>7. CASE e # "end"
    <3>1. UNCHANGED <<relay, gone>>
      BY <1>4, <2>7 DEF RelayNext, e
    <3>2. \A k \in Ends(q) : k > n + 1
      <4> TAKE k \in Ends(q)
      <4>1. k # n + 1
        BY <2>2, <2>7 DEF Ends
      <4>2. QED
        BY <2>2, <2>5, <4>1
    <3>3. Handed(s)'
      BY <2>1, <2>3, <3>1, <3>2 DEF Handed
    <3>4. Announced(s)'
      BY <2>1, <2>3, <3>1 DEF Shape, Announced, q
    <3>5. QED
      BY <1>1, <2>1, <2>4, <3>1, <3>3, <3>4 DEF Threads, Shape
  <2>8. QED
    BY <2>6, <2>7
<1>5. QED
  BY <1>2, <1>3, <1>4

LEMMA StreamsNext ==
  ASSUME TypeOK, Holding, AbortedForTheGone, ReportedHasRun,
         \A s \in Streams : Threads(s) /\ Shape(s), [Next]_vars
  PROVE  \A s \in Streams : Threads(s)' /\ Shape(s)'
<1> TAKE s \in Streams
<1>1. CASE ThreadStep(s)
  BY <1>1, ThreadNext
<1>2. CASE Open(s) \/ RelayStarts(s) \/ RelayNext(s) \/ Disconnect(s)
  BY <1>2, RelayStep
<1>3. CASE ~StreamStep(s)
  <2>1. /\ stream'[s] = stream[s] /\ relay'[s] = relay[s] /\ gone'[s] = gone[s]
        /\ events'[s] = events[s] /\ seen'[s] = seen[s]
    BY <1>3, OtherStreams
  <2>2. Sent(s)' = Sent(s)
    BY <2>1, Unsent
  <2>3. QED
    BY <2>1, <2>2 DEF Threads, Shape, Announced, Handed
<1>4. QED
  BY <1>1, <1>2, <1>3 DEF StreamStep

-------------------------------------------------------------------------------
(* Together.                                                               *)

LEMMA InitIInv == Init /\ Q!TypeOK => IInv
<1> SUFFICES ASSUME Init, Q!TypeOK PROVE IInv
  OBVIOUS
<1> USE DEF Init
<1>1. ttl \in Nat /\ ttl \in Ttls /\ warm \in BOOLEAN
  BY DaemonAssumption
<1>2. TypeOK
  <2>1. age \in 0 .. ttl /\ quiet \in 0 .. ttl
    BY <1>1
  <2>2. << >> \in Seq(StreamEvents)
    OBVIOUS
  <2>3. loaded \in BOOLEAN /\ gone \in [Streams -> BOOLEAN]
    OBVIOUS
  <2>4. events \in [Streams -> Seq(StreamEvents)] /\ seen \in [Streams -> Seq(StreamEvents)]
    BY <2>2
  <2>5. armed = NotArmed /\ expired \in Nat
    OBVIOUS
  <2>6. QED
    BY <2>1, <2>3, <2>4, <2>5 DEF TypeOK
<1>3. Configured /\ AgeIsTrue /\ AbortedForTheGone /\ ReportedHasRun
  BY <1>1 DEF Configured, AgeIsTrue, AbortedForTheGone, ReportedHasRun
<1>4. OneEngineRun
  <2>1. Holding
    BY Names DEF Holding
  <2>2. QED
    BY <1>2, <2>1, HoldingIs
<1>5. ASSUME NEW s \in Streams
      PROVE  Threads(s) /\ Shape(s)
  <2>1. Sent(s) = << >>
    BY DEF Sent
  <2>2. Finals(Sent(s)) = {} /\ Ends(Sent(s)) = {}
    BY <2>1 DEF Finals, Ends
  <2>3. QED
    BY <2>2 DEF Threads, Shape, Announced, Handed, WellFormed
<1>6. QED
  BY <1>2, <1>3, <1>4, <1>5 DEF IInv

LEMMA TypeNext ==
  ASSUME IInv, Q!TypeOK', [Next]_vars
  PROVE  TypeOK'
<1> USE DEF IInv
<1>1. Holding
  BY HoldingIs
<1>2. /\ age' \in 0 .. ttl' /\ quiet' \in 0 .. ttl'
      /\ armed' \in (0 .. ttl') \cup {NotArmed}
      /\ expired' \in Nat
      /\ loaded' \in BOOLEAN
  BY <1>1, ClockNext
<1>3. /\ lock' \in {Free, Worker} \cup Handlers \cup Streams
      /\ engine' \in {"idle", "running", "ran"}
      /\ outcome' \in Outcomes \cup {"none"}
      /\ handler' \in [Handlers -> {"idle", "waiting", "refused", "running", "answered"}]
  <2> DEFINE G == /\ lock' \in {Free, Worker} \cup Handlers \cup Streams
                  /\ engine' \in {"idle", "running", "ran"}
                  /\ outcome' \in Outcomes \cup {"none"}
                  /\ handler' \in [Handlers -> {"idle", "waiting", "refused", "running", "answered"}]
  <2> USE DEF TypeOK
  <2>1. ASSUME NEW h \in Handlers, HandlerStep(h)
        PROVE  G
    BY <2>1 DEF HandlerStep, Call, HandlerEnters, HandlerLeaves, Enter, Leave
  <2>2. CASE QueueStep \/ Tick \/ TimerFires \/ IdleExpired \/ UNCHANGED vars
    BY <2>2 DEF QueueStep, Tick, TimerFires, IdleExpired, vars
  <2>3. CASE WorkerEnters \/ WorkerLeaves
    BY <2>3 DEF WorkerEnters, WorkerLeaves, Enter, Leave, Outcomes
  <2>4. ASSUME NEW o \in Outcomes, EngineEnds(o)
        PROVE  G
    BY <2>4 DEF EngineEnds
  <2>5. ASSUME NEW s \in Streams, ThreadStep(s)
        PROVE  G
    BY <2>5 DEF ThreadStep, StreamEnters, StreamProgress, StreamReports, StreamLeaves, Enter, Leave,
                NotStreaming
  <2>6. ASSUME NEW s \in Streams, Open(s) \/ RelayStarts(s) \/ RelayNext(s) \/ Disconnect(s)
        PROVE  G
    BY <2>6 DEF Open, RelayStarts, RelayNext, Disconnect, NotStreaming
  <2>7. QED
    BY <2>1, <2>2, <2>3, <2>4, <2>5, <2>6 DEF Next
<1>4. /\ stream' \in [Streams -> {"idle", "waiting", "running", "reported", "ended"}]
      /\ relay' \in [Streams -> {"idle", "requested", "open", "closed", "dropped"}]
      /\ gone' \in [Streams -> BOOLEAN]
      /\ events' \in [Streams -> Seq(StreamEvents)]
      /\ seen' \in [Streams -> Seq(StreamEvents)]
  <2> DEFINE G == /\ stream' \in [Streams -> {"idle", "waiting", "running", "reported", "ended"}]
                  /\ relay' \in [Streams -> {"idle", "requested", "open", "closed", "dropped"}]
                  /\ gone' \in [Streams -> BOOLEAN]
                  /\ events' \in [Streams -> Seq(StreamEvents)]
                  /\ seen' \in [Streams -> Seq(StreamEvents)]
  <2>1. CASE UNCHANGED streaming
    BY <2>1 DEF streaming, TypeOK
  <2>2. ASSUME NEW s \in Streams, ThreadStep(s)
        PROVE  G
    <3>1. events' \in [Streams -> Seq(StreamEvents)]
      BY <1>1, <2>2, ThreadNext
    <3>2. stream' \in [Streams -> {"idle", "waiting", "running", "reported", "ended"}]
      BY <2>2 DEF ThreadStep, StreamEnters, StreamProgress, StreamReports, StreamLeaves, TypeOK
    <3>3. UNCHANGED <<relay, gone, seen>>
      BY <2>2 DEF ThreadStep, StreamEnters, StreamProgress, StreamReports, StreamLeaves
    <3>4. QED
      BY <3>1, <3>2, <3>3 DEF TypeOK
  <2>3. ASSUME NEW s \in Streams, Open(s) \/ RelayStarts(s) \/ RelayNext(s) \/ Disconnect(s)
        PROVE  G
    <3>1. events' \in [Streams -> Seq(StreamEvents)] /\ seen' \in [Streams -> Seq(StreamEvents)]
      BY <2>3, RelayStep
    <3>2. gone' \in [Streams -> BOOLEAN]
      <4>1. gone'[s] \in BOOLEAN /\ gone' = [gone EXCEPT ![s] = gone'[s]]
        BY <2>3, RelayStep DEF Open, RelayStarts, RelayNext, Disconnect, TypeOK
      <4>2. QED
        BY <4>1 DEF TypeOK
    <3>3. /\ stream' \in [Streams -> {"idle", "waiting", "running", "reported", "ended"}]
          /\ relay' \in [Streams -> {"idle", "requested", "open", "closed", "dropped"}]
      BY <2>3 DEF Open, RelayStarts, RelayNext, Disconnect, TypeOK
    <3>4. QED
      BY <3>1, <3>2, <3>3
  <2>4. CASE (\E h \in Handlers : HandlerStep(h)) \/ QueueStep \/ WorkerEnters \/ WorkerLeaves
             \/ (\E o \in Outcomes : EngineEnds(o)) \/ Tick \/ TimerFires \/ IdleExpired
             \/ UNCHANGED vars
    <3>1. UNCHANGED streaming
      BY <2>4 DEF HandlerStep, Call, HandlerEnters, HandlerLeaves, QueueStep, WorkerEnters,
                  WorkerLeaves, EngineEnds, Tick, TimerFires, IdleExpired, vars
    <3>2. QED
      BY <2>1, <3>1
  <2>5. QED
    BY <2>2, <2>3, <2>4 DEF Next
<1>5. QED
  BY <1>2, <1>3, <1>4 DEF TypeOK

LEMMA NextIInv == IInv /\ Q!TypeOK' /\ [Next]_vars => IInv'
<1> SUFFICES ASSUME IInv, Q!TypeOK', [Next]_vars PROVE IInv'
  OBVIOUS
<1> USE DEF IInv
<1>1. Holding
  BY HoldingIs
<1>2. TypeOK'
  BY TypeNext
<1>3. Configured' /\ AgeIsTrue'
  BY <1>1, ClockNext
<1>4. OneEngineRun'
  BY <1>1, <1>2, HoldingNext, HoldingIsNext
<1>5. AbortedForTheGone'
  BY <1>1, AbortedNext
<1>6. ReportedHasRun'
  BY <1>1, ReportedNext
<1>7. \A s \in Streams : Threads(s)' /\ Shape(s)'
  BY <1>1, StreamsNext
<1>8. QED
  BY <1>2, <1>3, <1>4, <1>5, <1>6, <1>7

LEMMA Invariance == Spec => []IInv
<1>1. Spec => []Q!TypeOK
  BY QueueTypes
<1>2. QED
  BY <1>1, InitIInv, NextIInv, PTL DEF Spec

-------------------------------------------------------------------------------
(* What follows for any number of requests, streams and jobs.              *)

(* The fields of the daemon hold what they are meant to hold.              *)
THEOREM TypeCorrect == Spec => []TypeOK
<1>1. IInv => TypeOK
  BY DEF IInv
<1>2. QED
  BY <1>1, Invariance, PTL

(* The engine runs for one request at a time, its holder: blocking         *)
(* handlers, work threads of streams and the queue's worker exclude each   *)
(* other (engine_lock in app.py).                                          *)
THEOREM OneRunAtATime == Spec => []OneEngineRun
<1>1. IInv => OneEngineRun
  BY DEF IInv
<1>2. QED
  BY <1>1, Invariance, PTL

(* A stream's queue and what its relay handed on hold one outcome and one  *)
(* end at most, in this order; late progress may stand behind either, but  *)
(* the client never receives anything behind the end, and a client that    *)
(* received the end has received an outcome (work and relay in app.py).    *)
THEOREM StreamsAreWellFormed == Spec => []StreamShape
<1>1. IInv => StreamShape
  <2> SUFFICES ASSUME IInv, NEW s \in Streams
               PROVE  /\ WellFormed(Sent(s))
                      /\ \A k \in Ends(Sent(s)) : k <= Len(seen[s]) => k = Len(seen[s])
                      /\ relay[s] = "closed" =>
                           /\ Len(seen[s]) \in Ends(Sent(s))
                           /\ \E i \in Finals(Sent(s)) : i < Len(seen[s])
    BY DEF StreamShape, WellFormed, Finals, Ends, IsFinal, Sent
  <2>1. WellFormed(Sent(s)) /\ Handed(s)
    BY DEF IInv, Shape, Announced
  <2>2. \A k \in Ends(Sent(s)) : k \in Nat /\ Len(seen[s]) \in Nat
    <3>1. Sent(s) \in Seq(StreamEvents) /\ Len(seen[s]) \in Nat
      BY SentType DEF IInv, TypeOK
    <3>2. QED
      BY <3>1 DEF Ends
  <2>3. relay[s] = "closed" => \E i \in Finals(Sent(s)) : i < Len(seen[s])
    BY <2>1 DEF WellFormed, Handed
  <2>4. ASSUME NEW k \in Ends(Sent(s)), k <= Len(seen[s])
        PROVE  k = Len(seen[s])
    <3>1. CASE relay[s] = "closed"
      BY <2>1, <3>1 DEF WellFormed, Handed
    <3>2. CASE relay[s] # "closed"
      BY <2>1, <2>2, <2>4, <3>2 DEF Handed
    <3>3. QED
      BY <3>1, <3>2
  <2>5. QED
    BY <2>1, <2>3, <2>4 DEF Handed
<1>2. QED
  BY <1>1, Invariance, PTL

(* The engine is not started for a client that is known to have left or a  *)
(* job that is known to be cancelled.                                      *)
THEOREM GoneAreNotServed == Spec => NoRunForTheGone
<1> DEFINE Step == engine # "running" /\ engine' = "running" =>
                     /\ lock' = Worker => ~cancelled[current]
                     /\ lock' \in Streams => ~gone[lock']
<1>1. IInv /\ [Next]_vars => [Step]_vars
  <2> SUFFICES ASSUME IInv, Next, engine # "running", engine' = "running"
               PROVE  /\ lock' = Worker => ~cancelled[current]
                      /\ lock' \in Streams => ~gone[lock']
    OBVIOUS
  <2> USE Names
  <2>1. ASSUME NEW h \in Handlers, HandlerStep(h)
        PROVE  lock' = h
    BY <2>1 DEF HandlerStep, Call, HandlerEnters, HandlerLeaves, Enter, Leave
  <2>2. CASE WorkerEnters
    BY <2>2 DEF WorkerEnters, Enter
  <2>3. ASSUME NEW s \in Streams, ThreadStep(s)
        PROVE  lock' = s /\ ~gone[s]
    BY <2>3 DEF ThreadStep, StreamEnters, StreamProgress, StreamReports, StreamLeaves, Enter, Leave
  <2>4. ~(QueueStep \/ WorkerLeaves \/ (\E o \in Outcomes : EngineEnds(o))
          \/ Tick \/ TimerFires \/ IdleExpired)
    BY DEF QueueStep, WorkerLeaves, Leave, EngineEnds, Tick, TimerFires, IdleExpired
  <2>5. ASSUME NEW s \in Streams
        PROVE  ~(Open(s) \/ RelayStarts(s) \/ RelayNext(s) \/ Disconnect(s))
    BY DEF Open, RelayStarts, RelayNext, Disconnect
  <2>6. QED
    BY <2>1, <2>2, <2>3, <2>4, <2>5 DEF Next
<1>2. QED
  BY <1>1, Invariance, PTL DEF Spec, NoRunForTheGone

(* A warm engine is unloaded only behind a whole idle TTL without an       *)
(* engine call, and never under one, whenever the timers get the lock      *)
(* (job_finished and idle_expired in app.py).                              *)
THEOREM NeverUnloadedEarly == Spec => NoEarlyUnload
<1> DEFINE Step == loaded /\ ~loaded' => quiet >= ttl /\ engine # "running"
<1>1. IInv /\ [Next]_vars => [Step]_<<loaded, quiet, engine>>
  <2> SUFFICES ASSUME IInv, [Next]_vars, loaded, ~loaded'
               PROVE  quiet >= ttl /\ engine # "running"
    OBVIOUS
  <2>1. Holding
    BY HoldingIs DEF IInv
  <2>2. QED
    BY <2>1, ClockNext DEF IInv
<1>2. QED
  BY <1>1, Invariance, PTL DEF Spec, NoEarlyUnload

===============================================================================
