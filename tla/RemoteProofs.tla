------------------------------ MODULE RemoteProofs ------------------------------
(***************************************************************************)
(* Proofs about `lig --host` against `lig serve` (module Remote).  What is *)
(* proved of the job queue in JobQueueProofs is used here of the queue     *)
(* inside the daemon.                                                      *)
(***************************************************************************)
EXTENDS Remote, TLAPS

QP == INSTANCE JobQueueProofs

-------------------------------------------------------------------------------
(* The inductive invariant.                                                *)

(* A request that may still reach the daemon was sent once, and nothing    *)
(* was sent before the POST is under way.                                  *)
SentOnce(c) ==
  /\ phase[c] \in {"health", "posting"} => conn[c] = "none" /\ accepted[c] = 0
  /\ conn[c] = "request" => accepted[c] = 0
  /\ accepted[c] <= 1

(* Ids name jobs that have arrived, if the daemon that gave them out is    *)
(* still running.                                                          *)
Issued(i) == i[1] <= epoch /\ (Current(i) => i[2] \in 1 .. submitted)

IdsIssued(c) ==
  /\ Issued(id[c]) /\ Issued(jobOf[c])
  /\ conn[c] = "queued" => Current(jobOf[c])
  /\ phase[c] \in {"health", "posting", "waiting"} => id[c] = NoId /\ seen[c] = "none"

(* What the client has been told of its job is still true of it.           *)
StillTrue(c) ==
  Current(id[c]) =>
    /\ seen[c] \in Queue!FinishedStates => state[id[c][2]] = seen[c]
    /\ seen[c] = "unknown" => id[c][2] \notin jobs
    /\ delete[c] = "arrived" => state[id[c][2]] \in Queue!FinishedStates

(* The client reports what it was told, and whatever else ends the polling *)
(* goes by way of the DELETE.                                              *)
EndsAsTold(c) ==
  /\ phase[c] \in {"health", "posting", "waiting", "asking", "deciding"} => outcome[c] = "none"
  /\ phase[c] # "ended" => delete[c] = "none" /\ outcome[c] # "image"
  /\ outcome[c] = "image" /\ id[c] # NoId => seen[c] = "done"
  /\ outcome[c] \in {"failed", "cancelled", "unknown"} => seen[c] = outcome[c]
  /\ phase[c] = "ended" /\ id[c] # NoId /\ delete[c] = "none" => outcome[c] = "image"

Good(c) == SentOnce(c) /\ IdsIssued(c) /\ StillTrue(c) /\ EndsAsTold(c)

IInv ==
  /\ TypeOK
  /\ QP!QueueInv
  /\ \A c \in Clients : Good(c)

-------------------------------------------------------------------------------
(* The queue of Remote is the queue of the proofs.                         *)

LEMMA QueueAssumption == QP!JobQueueAssumption
BY RemoteAssumption DEF Queue!JobQueueAssumption, QP!JobQueueAssumption

LEMMA SameTerms ==
  /\ Queue!Jobs = QP!Jobs
  /\ Queue!NoJob = QP!NoJob
  /\ Queue!FinishedStates = QP!FinishedStates
  /\ Queue!States = QP!States
  /\ Queue!TypeOK <=> QP!TypeOK
  /\ Queue!Init <=> QP!Init
BY DEF Queue!Jobs, QP!Jobs, Queue!NoJob, QP!NoJob, Queue!FinishedStates, QP!FinishedStates,
       Queue!States, QP!States, Queue!TypeOK, QP!TypeOK, Queue!Init, QP!Init

LEMMA SameRetire ==
  ASSUME NEW j
  PROVE  (Queue!Retire(j) <=> QP!Retire(j)) /\ \A s : Queue!Without(s, j) = QP!Without(s, j)
<1>1. \A f : Queue!Kept(f) = QP!Kept(f) /\ Queue!Evicted(f) = QP!Evicted(f)
  BY DEF Queue!Excess, QP!Excess, Queue!Kept, QP!Kept, Queue!Evicted, QP!Evicted
<1>2. \A s : Queue!Without(s, j) = QP!Without(s, j)
  BY DEF Queue!Without, QP!Without, Queue!RemoveFirst, QP!RemoveFirst, Queue!RemoveAt, QP!RemoveAt,
         Queue!SelectInSeq, QP!SelectInSeq, Queue!Min, QP!Min
<1>3. QED
  BY <1>1, <1>2 DEF Queue!Retire, QP!Retire

(* What Remote does with the queue are steps of the queue.                 *)
LEMMA SubmitIsQueueStep ==
  ASSUME NEW j \in Queue!Jobs, Queue!Submit(j)
  PROVE  QP!Next /\ QP!Submit(j) /\ j \in QP!Jobs
<1>1. QP!Submit(j)
  BY SameTerms DEF Queue!Submit, QP!Submit, Queue!Register, QP!Register, Queue!Enlisted, QP!Enlisted
<1>2. QED
  BY <1>1, SameTerms DEF QP!Next

LEMMA CancelIsQueueStep ==
  ASSUME NEW j \in Queue!Jobs, Queue!Cancel(j)
  PROVE  QP!Next
<1>1. QP!Cancel(j)
  BY SameTerms, SameRetire
     DEF Queue!Cancel, QP!Cancel, Queue!Cancellable, QP!Cancellable, Queue!store, QP!store,
         Queue!thread, QP!thread
<1>2. QED
  BY <1>1, SameTerms DEF QP!Next

LEMMA WorkerIsQueueStep == ASSUME Queue!WorkerStep PROVE QP!Next
<1> USE DEF Queue!store, QP!store, Queue!fields, QP!fields
<1>1. ASSUME Queue!Take \/ Queue!Skip \/ Queue!Start
      PROVE  QP!Take \/ QP!Skip \/ QP!Start
  BY <1>1, SameTerms DEF Queue!Take, QP!Take, Queue!Skip, QP!Skip, Queue!Start, QP!Start,
                         Queue!StillQueued, QP!StillQueued
<1>2. ASSUME NEW o \in Queue!Outcomes, Queue!ExecuteEnds(o)
      PROVE  o \in QP!Outcomes /\ QP!ExecuteEnds(o)
  BY <1>2 DEF Queue!ExecuteEnds, QP!ExecuteEnds, Queue!Locals, QP!Locals, Queue!Outcomes, QP!Outcomes
<1>3. ASSUME Queue!Finish
      PROVE  QP!Finish
  BY <1>3, SameTerms, SameRetire DEF Queue!Finish, QP!Finish, Queue!Publish, QP!Publish
<1>4. QED
  BY <1>1, <1>2, <1>3 DEF Queue!WorkerStep, QP!Next, QP!WorkerStep

LEMMA StillIsQueueStep ==
  ASSUME UNCHANGED queueVars
  PROVE  UNCHANGED QP!vars
BY DEF queueVars, QP!vars, QP!store, QP!fields, QP!thread

LEMMA SameTypeNext == Queue!TypeOK' <=> QP!TypeOK'
<1>1. Queue!TypeOK <=> QP!TypeOK
  BY SameTerms
<1>2. QED
  BY <1>1, PTL

LEMMA FreshQueue == QP!Init' => QP!QueueInv'
<1>1. QP!Init => QP!QueueInv
  BY QP!InitQueueInv, QueueAssumption
<1>2. QED
  BY <1>1, PTL

(* What QueueStep and UnknownIsForgotten say, in the terms of Remote.      *)
LEMMA QueueFacts ==
  ASSUME IInv, [QP!Next]_(QP!vars)
  PROVE  /\ QP!QueueInv' /\ Queue!TypeOK'
         /\ submitted' \in Nat /\ submitted \in Nat /\ submitted <= submitted'
         /\ \A j \in 1 .. submitted :
              /\ j \in 1 .. submitted'
              /\ state[j] \in Queue!FinishedStates => state'[j] = state[j]
              /\ j \notin jobs => j \notin jobs'
<1>1. /\ QP!QueueInv'
      /\ submitted' \in Nat /\ submitted <= submitted'
      /\ \A j \in 1 .. submitted :
           /\ state[j] \in QP!FinishedStates => state'[j] = state[j]
           /\ j \notin jobs => j \notin jobs'
  BY QP!QueueStep, QueueAssumption DEF IInv
<1>2. QP!TypeOK' /\ QP!TypeOK
  BY <1>1 DEF IInv, QP!QueueInv, QP!IInv
<1>3. Queue!TypeOK'
  BY <1>2, SameTypeNext
<1>4. submitted \in Nat
  BY <1>2 DEF QP!TypeOK
<1>5. \A j \in 1 .. submitted : j \in 1 .. submitted'
  BY <1>1, <1>4
<1>6. QED
  BY <1>1, <1>3, <1>4, <1>5, SameTerms

(* An id stays issued, and what is known of its job stays true, whatever   *)
(* the queue does.                                                         *)
LEMMA IssuedKept ==
  ASSUME IInv, [QP!Next]_(QP!vars), UNCHANGED epoch, NEW c \in Clients,
         UNCHANGED <<id[c], seen[c], delete[c]>>
  PROVE  Issued(id[c])' /\ StillTrue(c)'
<1>1. Good(c)
  BY DEF IInv
<1>2. Issued(id[c])'
  BY <1>1, QueueFacts DEF Good, IdsIssued, Issued, Current
<1>3. StillTrue(c)'
  <2> SUFFICES ASSUME Current(id[c]) PROVE StillTrue(c)'
    BY DEF StillTrue, Current
  <2>1. id[c][2] \in 1 .. submitted
    BY <1>1 DEF Good, IdsIssued, Issued
  <2>2. QED
    BY <1>1, <2>1, QueueFacts DEF Good, StillTrue
<1>4. QED
  BY <1>2, <1>3

(* A client that does nothing stays as good as it was.                     *)
LEMMA OthersGood ==
  ASSUME IInv, [QP!Next]_(QP!vars), UNCHANGED epoch, NEW c \in Clients,
         UNCHANGED <<phase[c], id[c], seen[c], outcome[c], conn[c], delete[c], accepted[c], jobOf[c]>>
  PROVE  Good(c)'
<1>1. Good(c)
  BY DEF IInv
<1>2. SentOnce(c)' /\ EndsAsTold(c)'
  BY <1>1 DEF Good, SentOnce, EndsAsTold
<1>3. IdsIssued(c)'
  BY <1>1, IssuedKept, QueueFacts DEF Good, IdsIssued, Issued, Current
<1>4. QED
  BY <1>2, <1>3, IssuedKept DEF Good

-------------------------------------------------------------------------------
(* Every step preserves it.                                                *)

LEMMA InitIInv == Init => IInv
<1> SUFFICES ASSUME Init PROVE IInv
  OBVIOUS
<1>1. QP!Init /\ QP!QueueInv
  BY SameTerms, QP!InitQueueInv, QueueAssumption DEF Init
<1>2. TypeOK
  <2>1. Queue!TypeOK
    BY <1>1, SameTerms DEF QP!QueueInv, QP!IInv
  <2>2. NoId \in (0 .. MaxRestarts) \X (Queue!Jobs \cup {0}) /\ epoch \in 0 .. MaxRestarts
    BY RemoteAssumption DEF NoId, Init
  <2>3. QED
    BY <2>1, <2>2 DEF Init, TypeOK, Outcomes
<1>3. ASSUME NEW c \in Clients PROVE Good(c)
  BY DEF Init, Good, SentOnce, IdsIssued, Issued, Current, NoId, StillTrue, EndsAsTold
<1>4. QED
  BY <1>1, <1>2, <1>3 DEF IInv

(* The steps of a client leave the daemon alone.                           *)
LEMMA ClientFrame ==
  ASSUME IInv, NEW c \in Clients, Client(c)
  PROVE  /\ UNCHANGED <<epoch, queues, accepted, jobOf>>
         /\ UNCHANGED QP!vars /\ UNCHANGED <<submitted, jobs, state>>
         /\ \A d \in Clients : d # c =>
              UNCHANGED <<phase[d], id[d], seen[d], outcome[d], conn[d], delete[d], accepted[d], jobOf[d]>>
<1>1. UNCHANGED <<queueVars, epoch, queues, accepted, jobOf>>
  BY DEF Client, Health, CannotRead, Post, Unreachable, Broken, Receive, Answered, AskFails, Decide,
         CancelJob, CtrlC, history
<1>2. ASSUME NEW d \in Clients, d # c
      PROVE  UNCHANGED <<phase[d], id[d], seen[d], outcome[d], conn[d], delete[d], accepted[d], jobOf[d]>>
  <2> USE <1>1, <1>2 DEF Goes, Ends, Abandon, TryAgain, history
  <2> TypeOK
    BY DEF IInv
  <2>1. CASE Health(c) \/ CannotRead(c) \/ Post(c) \/ Unreachable(c)
    BY <2>1 DEF Health, HealthAnswers, CannotRead, Post, Unreachable, TypeOK
  <2>2. CASE Broken(c) \/ Receive(c) \/ Answered(c) \/ AskFails(c)
    BY <2>2 DEF Broken, Receive, Answered, AskFails, TypeOK
  <2>3. CASE Decide(c) \/ CancelJob(c) \/ CtrlC(c)
    BY <2>3 DEF Decide, CancelJob, CtrlC, TypeOK
  <2>4. QED
    BY <2>1, <2>2, <2>3 DEF Client
<1>3. QED
  BY <1>1, <1>2, StillIsQueueStep DEF queueVars

LEMMA ClientType ==
  ASSUME IInv, NEW c \in Clients, Client(c)
  PROVE  TypeOK'
<1>1. UNCHANGED <<epoch, queues, accepted, jobOf>> /\ Queue!TypeOK'
  BY ClientFrame, QueueFacts
<1>2. /\ TypeOK
      /\ phase \in [Clients -> {"health", "posting", "waiting", "asking", "deciding",
                                "cancelling", "ended"}]
      /\ attempt \in [Clients -> 1 .. 2]
      /\ id \in [Clients -> (0 .. MaxRestarts) \X (Queue!Jobs \cup {0})]
      /\ jobOf \in [Clients -> (0 .. MaxRestarts) \X (Queue!Jobs \cup {0})]
      /\ seen \in [Clients -> Queue!States \cup {"none", "unknown"}]
      /\ outcome \in [Clients -> Outcomes]
      /\ conn \in [Clients -> Answers \cup {"none", "request", "rendering"}]
      /\ delete \in [Clients -> {"none", "sent", "arrived", "lost"}]
  BY DEF IInv, TypeOK
<1> SUFFICES
      /\ phase' \in [Clients -> {"health", "posting", "waiting", "asking", "deciding",
                                 "cancelling", "ended"}]
      /\ attempt' \in [Clients -> 1 .. 2]
      /\ id' \in [Clients -> (0 .. MaxRestarts) \X (Queue!Jobs \cup {0})]
      /\ seen' \in [Clients -> Queue!States \cup {"none", "unknown"}]
      /\ outcome' \in [Clients -> Outcomes]
      /\ conn' \in [Clients -> Answers \cup {"none", "request", "rendering"}]
      /\ delete' \in [Clients -> {"none", "sent", "arrived", "lost"}]
  BY <1>1, <1>2 DEF TypeOK
<1> USE <1>2 DEF Goes, Ends, Abandon, TryAgain, Outcomes
<1>3. CASE Health(c)
  <2>1. PICK a \in HealthAnswers :
          CASE a = "healthy" ->
                 Goes(c, "posting") /\ attempt' = [attempt EXCEPT ![c] = 1] /\ UNCHANGED outcome
            [] a = "unreachable" -> TryAgain(c)
            [] a = "not a daemon" -> Ends(c, "unavailable") /\ UNCHANGED attempt
    BY <1>3 DEF Health
  <2>2. UNCHANGED <<id, seen, conn, delete>>
    BY <1>3 DEF Health
  <2>3. CASE a = "healthy"
    <3>1. Goes(c, "posting") /\ attempt' = [attempt EXCEPT ![c] = 1] /\ UNCHANGED outcome
      BY <2>1, <2>3
    <3>2. QED
      BY <2>2, <3>1
  <2>4. CASE a = "unreachable" /\ attempt[c] = 1
    <3>1. attempt' = [attempt EXCEPT ![c] = 2] /\ UNCHANGED <<phase, outcome>>
      BY <2>1, <2>4
    <3>2. QED
      BY <2>2, <3>1
  <2>5. CASE a = "not a daemon" \/ (a = "unreachable" /\ attempt[c] # 1)
    <3>1. Ends(c, "unavailable") /\ UNCHANGED attempt
      BY <2>1, <2>5
    <3>2. QED
      BY <2>2, <3>1
  <2>6. QED
    BY <2>3, <2>4, <2>5 DEF HealthAnswers
<1>4. CASE CannotRead(c) \/ Post(c) \/ Unreachable(c)
  <2>1. CASE CannotRead(c)
    BY <2>1 DEF CannotRead
  <2>2. CASE Post(c)
    BY <2>2 DEF Post
  <2>3. CASE Unreachable(c) /\ Ends(c, "unavailable") /\ UNCHANGED attempt
    BY <2>3 DEF Unreachable
  <2>4. CASE Unreachable(c) /\ attempt' = [attempt EXCEPT ![c] = 2] /\ UNCHANGED <<phase, outcome>>
    BY <2>4 DEF Unreachable
  <2>5. QED
    BY <1>4, <2>1, <2>2, <2>3, <2>4 DEF Unreachable
<1>5. CASE Broken(c) \/ AskFails(c)
  BY <1>5 DEF Broken, AskFails
<1>6. CASE Receive(c)
  <2>1. CASE conn[c] = "queued"
    <3>1. jobOf[c] \in (0 .. MaxRestarts) \X (Queue!Jobs \cup {0})
      OBVIOUS
    <3>2. QED
      BY <1>6, <2>1, <3>1 DEF Receive
  <2>2. CASE conn[c] # "queued"
    <3>1. Ends(c, conn[c]) /\ conn[c] \in Outcomes /\ UNCHANGED <<id, attempt, seen, delete>>
      BY <1>6, <2>2 DEF Receive, Answers
    <3>2. conn' = [conn EXCEPT ![c] = "none"]
      BY <1>6 DEF Receive
    <3>3. QED
      BY <3>1, <3>2
  <2>3. QED
    BY <2>1, <2>2
<1>7. CASE Answered(c)
  <2>1. View(id[c]) \in Queue!States \cup {"unknown"}
    BY DEF View, TypeOK, Queue!TypeOK
  <2>2. QED
    BY <1>7, <2>1 DEF Answered
<1>8. CASE Decide(c)
  BY <1>8 DEF Decide
<1>9. CASE CancelJob(c) \/ CtrlC(c)
  <2>1. CASE CancelJob(c)
    BY <2>1 DEF CancelJob
  <2>2. CASE CtrlC(c) /\ phase[c] = "cancelling"
    BY <2>2 DEF CtrlC
  <2>3. CASE CtrlC(c) /\ phase[c] # "cancelling"
    <3>1. \E p \in {"ended", "cancelling"} : Goes(c, p)
      BY <2>3 DEF CtrlC
    <3>2. outcome' = [outcome EXCEPT ![c] = "interrupted"] /\ UNCHANGED <<attempt, id, seen, conn, delete>>
      BY <2>3 DEF CtrlC
    <3>3. QED
      BY <3>1, <3>2
  <2>4. QED
    BY <1>9, <2>1, <2>2, <2>3
<1>10. QED
  BY <1>3, <1>4, <1>5, <1>6, <1>7, <1>8, <1>9 DEF Client

LEMMA ClientGood ==
  ASSUME IInv, NEW c \in Clients, Client(c)
  PROVE  Good(c)'
<1>1. UNCHANGED <<epoch, queues, accepted, jobOf, submitted, jobs, state>>
  BY ClientFrame
<1>2. TypeOK /\ Good(c)
  BY DEF IInv
<1> USE <1>1, <1>2 DEF Goes, Ends, Abandon, TryAgain, Good, SentOnce, IdsIssued, Issued, Current,
                       StillTrue, EndsAsTold, Answers
<1>3. CASE Health(c)
  BY <1>3 DEF Health, HealthAnswers, TypeOK
<1>4. CASE CannotRead(c) \/ Post(c) \/ Unreachable(c)
  BY <1>4 DEF CannotRead, Post, Unreachable, TypeOK
<1>5. CASE Broken(c)
  BY <1>5 DEF Broken, TypeOK
<1>6. CASE Receive(c)
  BY <1>6 DEF Receive, TypeOK, Queue!FinishedStates
<1>7. CASE Answered(c)
  <2>1. /\ seen'[c] = View(id[c]) /\ phase'[c] = "deciding" /\ phase[c] = "asking"
        /\ UNCHANGED <<id, outcome, conn, delete>>
    BY <1>7 DEF Answered, TypeOK
  <2>2. StillTrue(c)'
    <3> SUFFICES ASSUME Current(id[c]) PROVE StillTrue(c)'
      BY <2>1
    <3>1. id[c][2] \in jobs => View(id[c]) = state[id[c][2]] /\ state[id[c][2]] # "unknown"
      BY DEF View, TypeOK, Queue!TypeOK, Queue!States, Queue!FinishedStates
    <3>2. id[c][2] \notin jobs => View(id[c]) = "unknown" /\ "unknown" \notin Queue!FinishedStates
      BY DEF View, Queue!FinishedStates
    <3>3. QED
      BY <2>1, <3>1, <3>2
  <2>3. QED
    BY <2>1, <2>2
<1>8. CASE AskFails(c)
  BY <1>8 DEF AskFails, TypeOK
<1>9. CASE Decide(c)
  BY <1>9 DEF Decide, TypeOK
<1>10. CASE CancelJob(c)
  BY <1>10 DEF CancelJob, TypeOK
<1>11. CASE CtrlC(c)
  BY <1>11 DEF CtrlC, TypeOK
<1>12. QED
  BY <1>3, <1>4, <1>5, <1>6, <1>7, <1>8, <1>9, <1>10, <1>11 DEF Client

LEMMA ClientIInv == ASSUME IInv, NEW c \in Clients, Client(c) PROVE IInv'
<1>1. TypeOK'
  BY ClientType
<1>2. QP!QueueInv'
  BY ClientFrame, QueueFacts
<1>3. \A d \in Clients : Good(d)'
  BY ClientFrame, ClientGood, OthersGood
<1>4. QED
  BY <1>1, <1>2, <1>3 DEF IInv

(* The daemon takes a request up as a job.                                 *)
LEMMA EnqueueIInv == ASSUME IInv, NEW c \in Clients, Enqueue(c) PROVE IInv'
<1>1. PICK j \in Queue!Jobs : Queue!Submit(j) /\ jobOf' = [jobOf EXCEPT ![c] = <<epoch, j>>]
  BY DEF Enqueue
<1>2. QP!Next /\ QP!Submit(j)
  BY <1>1, SubmitIsQueueStep
<1>3. submitted' = j /\ j \in Nat /\ j > 0
  BY <1>2 DEF QP!Submit, QP!Register, Queue!Jobs
<1>4. /\ conn[c] = "request" /\ conn' = [conn EXCEPT ![c] = "queued"]
      /\ accepted' = [accepted EXCEPT ![c] = @ + 1]
      /\ UNCHANGED <<epoch, queues, phase, attempt, id, seen, outcome, delete>>
  BY DEF Enqueue, call
<1>5. TypeOK /\ Good(c)
  BY DEF IInv
<1>6. TypeOK'
  <2>1. jobOf' \in [Clients -> (0 .. MaxRestarts) \X (Queue!Jobs \cup {0})]
    BY <1>1, <1>5 DEF TypeOK
  <2>2. accepted' \in [Clients -> Nat]
    BY <1>4, <1>5 DEF TypeOK
  <2>3. Queue!TypeOK'
    BY <1>2, QueueFacts
  <2>4. QED
    BY <1>4, <1>5, <2>1, <2>2, <2>3 DEF TypeOK, Answers
<1>7. Good(c)'
  <2>1. jobOf'[c] = <<epoch, j>> /\ conn'[c] = "queued" /\ accepted'[c] = accepted[c] + 1
    BY <1>1, <1>4, <1>5 DEF TypeOK
  <2>2. SentOnce(c)'
    BY <1>4, <1>5, <2>1 DEF Good, SentOnce
  <2>3. Issued(jobOf[c])' /\ Current(jobOf[c])'
    <3>1. epoch \in Nat /\ <<epoch, j>> # NoId /\ j \in 1 .. j
      BY <1>3, <1>5 DEF TypeOK, NoId
    <3>2. QED
      BY <1>3, <1>4, <2>1, <3>1 DEF Issued, Current
  <2>4. Issued(id[c])' /\ StillTrue(c)'
    BY <1>2, <1>4, IssuedKept
  <2>5. IdsIssued(c)'
    BY <1>4, <1>5, <2>3, <2>4 DEF Good, IdsIssued
  <2>6. EndsAsTold(c)'
    BY <1>4, <1>5 DEF Good, EndsAsTold
  <2>7. QED
    BY <2>2, <2>4, <2>5, <2>6 DEF Good
<1>8. ASSUME NEW d \in Clients, d # c PROVE Good(d)'
  <2>1. UNCHANGED <<phase[d], id[d], seen[d], outcome[d], conn[d], delete[d], accepted[d], jobOf[d]>>
    BY <1>1, <1>4, <1>5, <1>8 DEF TypeOK
  <2>2. QED
    BY <1>2, <1>4, <2>1, OthersGood
<1>9. QP!QueueInv'
  BY <1>2, QueueFacts
<1>10. QED
  BY <1>6, <1>7, <1>8, <1>9 DEF IInv

(* A direct request is taken up, answered, refused; a message gets lost.   *)
LEMMA WireIInv ==
  ASSUME IInv, NEW c \in Clients,
         TakeUp(c) \/ Answer(c) \/ Refuse(c) \/ LoseRequest(c) \/ LoseDelete(c)
  PROVE  IInv'
<1> USE DEF TakeUp, Answer, Refuse, LoseRequest, LoseDelete, history, call
<1>1. /\ UNCHANGED queueVars
      /\ UNCHANGED <<epoch, queues, phase, attempt, id, seen, outcome, jobOf>>
      /\ UNCHANGED <<submitted, jobs, state>>
  BY DEF queueVars
<1>2. UNCHANGED QP!vars
  BY <1>1, StillIsQueueStep
<1>3. TypeOK /\ Good(c)
  BY DEF IInv
<1>4. /\ conn' \in [Clients -> Answers \cup {"none", "request", "rendering"}]
      /\ delete' \in [Clients -> {"none", "sent", "arrived", "lost"}]
      /\ accepted' \in [Clients -> Nat]
      /\ \A d \in Clients : d # c => UNCHANGED <<conn[d], delete[d], accepted[d]>>
  <2>1. /\ conn \in [Clients -> Answers \cup {"none", "request", "rendering"}]
        /\ delete \in [Clients -> {"none", "sent", "arrived", "lost"}]
        /\ accepted \in [Clients -> Nat]
    BY <1>3 DEF TypeOK
  <2>2. CASE TakeUp(c)
    BY <2>1, <2>2
  <2>3. CASE Answer(c)
    BY <2>1, <2>3
  <2>4. CASE Refuse(c) \/ LoseRequest(c)
    BY <2>1, <2>4 DEF Answers
  <2>5. CASE LoseDelete(c)
    BY <2>1, <2>5
  <2>6. QED
    BY <2>2, <2>3, <2>4, <2>5
<1>5. TypeOK'
  <2>1. Queue!TypeOK'
    BY <1>2, QueueFacts
  <2>2. QED
    BY <1>1, <1>3, <1>4, <2>1 DEF TypeOK
<1>6. Good(c)'
  BY <1>1, <1>3 DEF Good, SentOnce, IdsIssued, Issued, Current, StillTrue, EndsAsTold, TypeOK, Answers
<1>7. \A d \in Clients : d # c => Good(d)'
  BY <1>1, <1>2, <1>4, OthersGood
<1>8. QP!QueueInv'
  BY <1>2, QueueFacts
<1>9. QED
  BY <1>5, <1>6, <1>7, <1>8 DEF IInv

(* A DELETE finds its job over, or ends it.                                *)
LEMMA DeleteIInv == ASSUME IInv, NEW c \in Clients, DeleteArrives(c) PROVE IInv'
<1> USE DEF DeleteArrives, history, call
<1>1. TypeOK /\ Good(c)
  BY DEF IInv
<1>2. /\ delete[c] = "sent" /\ delete' = [delete EXCEPT ![c] = "arrived"]
      /\ UNCHANGED <<epoch, queues, phase, attempt, id, seen, outcome, conn, accepted, jobOf>>
  OBVIOUS
<1>3. id[c][2] \in 1 .. submitted => id[c][2] \in Queue!Jobs
  BY <1>1, RemoteAssumption DEF TypeOK, Queue!TypeOK, Queue!Jobs, Queue!JobQueueAssumption
<1>4. [QP!Next]_(QP!vars)
  <2>1. CASE Current(id[c]) /\ Queue!Cancellable(id[c][2])
    <3>1. id[c][2] \in Queue!Jobs
      BY <1>1, <1>3, <2>1 DEF Good, IdsIssued, Issued
    <3>2. QED
      BY <2>1, <3>1, CancelIsQueueStep
  <2>2. CASE ~(Current(id[c]) /\ Queue!Cancellable(id[c][2]))
    BY <2>2, StillIsQueueStep
  <2>3. QED
    BY <2>1, <2>2
<1>5. TypeOK'
  <2>1. Queue!TypeOK'
    BY <1>4, QueueFacts
  <2>2. delete' \in [Clients -> {"none", "sent", "arrived", "lost"}]
    BY <1>1, <1>2 DEF TypeOK
  <2>3. QED
    BY <1>1, <1>2, <2>1, <2>2 DEF TypeOK
<1>6. ASSUME Current(id[c]) PROVE state'[id[c][2]] \in Queue!FinishedStates
  <2>1. id[c][2] \in 1 .. submitted /\ id[c][2] \in Queue!Jobs
    BY <1>1, <1>3, <1>6 DEF Good, IdsIssued, Issued
  <2>2. CASE Queue!Cancellable(id[c][2])
    <3>1. Queue!Cancel(id[c][2])
      BY <1>6, <2>2
    <3>2. state'[id[c][2]] = "cancelled"
      BY <1>1, <2>1, <3>1 DEF Queue!Cancel, TypeOK, Queue!TypeOK
    <3>3. QED
      BY <3>2 DEF Queue!FinishedStates
  <2>3. CASE id[c][2] \notin jobs
    <3>1. state[id[c][2]] \in QP!FinishedStates
      BY <2>1, <2>3, QP!UnknownIsForgotten, QueueAssumption DEF IInv
    <3>2. QED
      BY <1>4, <2>1, <3>1, SameTerms, QueueFacts
  <2>4. CASE state[id[c][2]] \in Queue!FinishedStates
    BY <1>4, <2>1, <2>4, QueueFacts
  <2>5. QED
    BY <2>2, <2>3, <2>4 DEF Queue!Cancellable
<1>7. Good(c)'
  <2>1. delete'[c] = "arrived" /\ phase[c] = "ended"
    BY <1>1, <1>2 DEF TypeOK, Good, EndsAsTold
  <2>2. SentOnce(c)' /\ EndsAsTold(c)'
    BY <1>1, <1>2, <2>1 DEF Good, SentOnce, EndsAsTold
  <2>3. IdsIssued(c)'
    BY <1>1, <1>2, <1>4, QueueFacts DEF Good, IdsIssued, Issued, Current
  <2>4. StillTrue(c)'
    <3> SUFFICES ASSUME Current(id[c]) PROVE StillTrue(c)'
      BY <1>2 DEF StillTrue, Current
    <3>1. id[c][2] \in 1 .. submitted
      BY <1>1 DEF Good, IdsIssued, Issued
    <3>2. QED
      BY <1>1, <1>2, <1>4, <1>6, <3>1, QueueFacts DEF Good, StillTrue
  <2>5. QED
    BY <2>2, <2>3, <2>4 DEF Good
<1>8. ASSUME NEW d \in Clients, d # c PROVE Good(d)'
  <2>1. delete'[d] = delete[d]
    BY <1>1, <1>2, <1>8 DEF TypeOK
  <2>2. QED
    BY <1>2, <1>4, <2>1, OthersGood
<1>9. QP!QueueInv'
  BY <1>4, QueueFacts
<1>10. QED
  BY <1>5, <1>7, <1>8, <1>9 DEF IInv

(* A new daemon knows none of the ids, and no message survives.            *)
LEMMA RestartIInv == ASSUME IInv, Restart PROVE IInv'
<1> USE DEF Restart, history, call
<1>1. QP!Init' /\ QP!QueueInv'
  BY SameTerms, FreshQueue DEF QP!Init
<1>2. TypeOK /\ epoch \in Nat /\ epoch' = epoch + 1
  BY DEF IInv, TypeOK
<1>3. TypeOK'
  <2>1. Queue!TypeOK'
    BY <1>1, SameTypeNext DEF QP!QueueInv, QP!IInv
  <2>2. epoch' \in 0 .. MaxRestarts
    BY <1>2, RemoteAssumption DEF TypeOK
  <2>3. /\ conn' \in [Clients -> Answers \cup {"none", "request", "rendering"}]
        /\ delete' \in [Clients -> {"none", "sent", "arrived", "lost"}]
    BY <1>2 DEF TypeOK
  <2>4. QED
    BY <1>2, <2>1, <2>2, <2>3 DEF TypeOK
<1>4. ASSUME NEW c \in Clients PROVE Good(c)'
  <2>1. Good(c) /\ id[c][1] \in Nat /\ jobOf[c][1] \in Nat
    BY <1>2 DEF IInv, TypeOK
  <2>2. ~Current(id[c])' /\ ~Current(jobOf[c])' /\ Issued(id[c])' /\ Issued(jobOf[c])'
    BY <1>2, <2>1 DEF Good, IdsIssued, Issued, Current
  <2>3. conn'[c] = "none" /\ delete'[c] = IF delete[c] = "sent" THEN "lost" ELSE delete[c]
    OBVIOUS
  <2>4. QED
    BY <2>1, <2>2, <2>3 DEF Good, SentOnce, IdsIssued, StillTrue, EndsAsTold
<1>5. QED
  BY <1>1, <1>3, <1>4 DEF IInv

(* Steps of the queue that no client of the model takes part in.           *)
LEMMA ElsewhereIInv ==
  ASSUME IInv, [QP!Next]_(QP!vars), UNCHANGED <<epoch, queues, call, conn, delete, history>>
  PROVE  IInv'
<1> USE DEF history, call
<1>1. TypeOK'
  BY QueueFacts DEF IInv, TypeOK
<1>2. \A c \in Clients : Good(c)'
  BY OthersGood
<1>3. QED
  BY <1>1, <1>2, QueueFacts DEF IInv

LEMMA NextIInv == IInv /\ [Next]_vars => IInv'
<1> SUFFICES ASSUME IInv, [Next]_vars PROVE IInv'
  OBVIOUS
<1>1. ASSUME NEW c \in Clients, Client(c) \/ Daemon(c) \/ LoseRequest(c) \/ LoseDelete(c)
      PROVE  IInv'
  BY <1>1, ClientIInv, EnqueueIInv, WireIInv, DeleteIInv DEF Daemon
<1>2. CASE CancelledElsewhere
  BY <1>2, CancelIsQueueStep, ElsewhereIInv DEF CancelledElsewhere
<1>3. CASE WorkerStep
  BY <1>3, WorkerIsQueueStep, ElsewhereIInv DEF WorkerStep
<1>4. CASE Restart
  BY <1>4, RestartIInv
<1>5. CASE UNCHANGED vars
  BY <1>5, StillIsQueueStep, ElsewhereIInv DEF vars
<1>6. QED
  BY <1>1, <1>2, <1>3, <1>4, <1>5 DEF Next

LEMMA Invariance == Spec => []IInv
BY InitIInv, NextIInv, PTL DEF Spec

-------------------------------------------------------------------------------
(* The theorems.                                                           *)

(* The queue inside the daemon, the calls and the connections keep their   *)
(* types, across any number of restarts.                                   *)
THEOREM TypeCorrect == Spec => []TypeOK
<1>1. IInv => TypeOK
  BY DEF IInv
<1>2. QED
  BY <1>1, Invariance, PTL

(* No call is rendered twice, for any number of clients and restarts.      *)
THEOREM NeverRenderedTwice == Spec => []RenderedOnce
<1>1. IInv => RenderedOnce
  BY DEF IInv, Good, SentOnce, RenderedOnce
<1>2. QED
  BY <1>1, Invariance, PTL

(* When a polling client is gone without an image, its job is over or the  *)
(* DELETE is on its way or lost.                                           *)
THEOREM AbandonedJobsAreCancelled == Spec => []AbandonedIsCancelled
<1>1. IInv => AbandonedIsCancelled
  BY DEF IInv, TypeOK, Good, StillTrue, EndsAsTold, AbandonedIsCancelled, Current
<1>2. QED
  BY <1>1, Invariance, PTL

(* What a polling client reports of its job is true, and a job the daemon  *)
(* "no longer knows" is one its history had to forget.                     *)
THEOREM ReportsAreTrue == Spec => []ReportIsTrue
<1>1. IInv => ReportIsTrue
  <2> SUFFICES ASSUME IInv, NEW c \in Clients, Current(id[c])
               PROVE  /\ outcome[c] = "image" => state[id[c][2]] = "done"
                      /\ outcome[c] \in {"failed", "cancelled"} => state[id[c][2]] = outcome[c]
                      /\ outcome[c] = "unknown" =>
                           /\ state[id[c][2]] \in Queue!FinishedStates
                           /\ \A i \in DOMAIN finished : finished[i] # id[c][2]
                           /\ Len(finished) = MaxFinished
    BY DEF ReportIsTrue
  <2>1. Good(c) /\ id[c] # NoId /\ id[c][2] \in 1 .. submitted
    BY DEF IInv, Good, IdsIssued, Issued, Current
  <2>2. outcome[c] = "image" => state[id[c][2]] = "done"
    BY <2>1 DEF Good, EndsAsTold, StillTrue, Queue!FinishedStates
  <2>3. outcome[c] \in {"failed", "cancelled"} => state[id[c][2]] = outcome[c]
    BY <2>1 DEF Good, EndsAsTold, StillTrue, Queue!FinishedStates
  <2>4. ASSUME outcome[c] = "unknown"
        PROVE  /\ state[id[c][2]] \in Queue!FinishedStates
               /\ \A i \in DOMAIN finished : finished[i] # id[c][2]
               /\ Len(finished) = MaxFinished
    <3>1. id[c][2] \notin jobs
      BY <2>1, <2>4 DEF Good, EndsAsTold, StillTrue
    <3>2. QED
      BY <2>1, <3>1, QP!UnknownIsForgotten, QueueAssumption, SameTerms DEF IInv
  <2>5. QED
    BY <2>2, <2>3, <2>4
<1>2. QED
  BY <1>1, Invariance, PTL

===============================================================================
