---------------------------- MODULE JobQueueProofs ----------------------------
(***************************************************************************)
(* Proofs about the job queue of `lig serve` (module JobQueue), and that   *)
(* it implements the service it promises (module JobService).              *)
(***************************************************************************)
EXTENDS JobQueue, SequenceTheorems, TLAPS

-------------------------------------------------------------------------------
(* Sequences.                                                              *)

(* What list.remove leaves of a list that holds e once, at place k: the    *)
(* others, in the same order.                                              *)
LEMMA WithoutOnce ==
  ASSUME NEW S, NEW s \in Seq(S), NEW k \in 1 .. Len(s),
         \A i \in 1 .. Len(s) : s[i] = s[k] => i = k
  PROVE  /\ Without(s, s[k]) \in Seq(S)
         /\ Len(Without(s, s[k])) = Len(s) - 1
         /\ \A i \in 1 .. Len(s) - 1 :
              Without(s, s[k])[i] = IF i < k THEN s[i] ELSE s[i + 1]
<1> DEFINE e == s[k]
           I == {i \in 1 .. Len(s) : s[i] = e}
<1>1. I = {k}
  OBVIOUS
<1>2. Min(I) = k
  BY <1>1 DEF Min
<1>3. SelectInSeq(s, LAMBDA v : v = e) = k
  BY <1>1, <1>2 DEF SelectInSeq
<1>4. Without(s, e) = RemoveAt(s, k)
  BY <1>3 DEF Without, RemoveFirst
<1>5. RemoveAt(s, k) = SubSeq(s, 1, k - 1) \o SubSeq(s, k + 1, Len(s))
  BY DEF RemoveAt
<1> DEFINE t == SubSeq(s, 1, k - 1)
           u == SubSeq(s, k + 1, Len(s))
<1>6. t \in Seq(S) /\ Len(t) = k - 1 /\ \A i \in 1 .. k - 1 : t[i] = s[i]
  OBVIOUS
<1>7. /\ u \in Seq(S) /\ Len(u) = Len(s) - k
      /\ \A i \in 1 .. Len(s) - k : u[i] = s[k + i]
  OBVIOUS
<1> HIDE DEF t, u
<1>8. /\ t \o u \in Seq(S)
      /\ Len(t \o u) = Len(s) - 1
      /\ \A i \in 1 .. Len(s) - 1 : (t \o u)[i] = IF i < k THEN s[i] ELSE s[i + 1]
  <2>1. /\ t \o u \in Seq(S)
        /\ Len(t \o u) = Len(t) + Len(u)
        /\ \A i \in 1 .. Len(t) + Len(u) :
             (t \o u)[i] = IF i <= Len(t) THEN t[i] ELSE u[i - Len(t)]
    BY <1>6, <1>7, ConcatProperties
  <2>2. Len(t) + Len(u) = Len(s) - 1
    BY <1>6, <1>7
  <2>3. QED
    BY <1>6, <1>7, <2>1, <2>2
<1>9. QED
  BY <1>4, <1>5, <1>8 DEF t, u

(* The history stays a sequence of jobs.                                   *)
LEMMA KeptType ==
  ASSUME NEW S, NEW f \in Seq(S)
  PROVE  Kept(f) \in Seq(S)
<1>1. Excess(f) \in 0 .. Len(f)
  BY JobQueueAssumption DEF Excess
<1>2. \A i \in Excess(f) + 1 .. Len(f) : f[i] \in S
  BY <1>1
<1>3. QED
  BY <1>1, <1>2, SubSeqProperties DEF Kept

(* Arriving at the end of a list is arriving at the end of its tail.       *)
LEMMA TailOfAppend ==
  ASSUME NEW S, NEW s \in Seq(S), s # << >>, NEW e \in S
  PROVE  Tail(Append(s, e)) = Append(Tail(s), e)
<1> DEFINE a == Append(s, e)
           b == Append(Tail(s), e)
<1>1. /\ Tail(s) \in Seq(S) /\ Len(Tail(s)) = Len(s) - 1 /\ Len(s) \in Nat \ {0}
      /\ \A i \in 1 .. Len(s) - 1 : Tail(s)[i] = s[i + 1]
  BY HeadTailProperties, EmptySeq
<1>2. /\ a \in Seq(S) /\ Len(a) = Len(s) + 1 /\ a # << >>
      /\ \A i \in 1 .. Len(s) : a[i] = s[i]
      /\ a[Len(s) + 1] = e
  BY AppendProperties
<1>3. /\ b \in Seq(S) /\ Len(b) = Len(s)
      /\ \A i \in 1 .. Len(s) - 1 : b[i] = s[i + 1]
      /\ b[Len(s)] = e
  <2>1. /\ b \in Seq(S) /\ Len(b) = Len(Tail(s)) + 1
        /\ \A i \in 1 .. Len(Tail(s)) : b[i] = Tail(s)[i]
        /\ b[Len(Tail(s)) + 1] = e
    BY <1>1, AppendProperties
  <2>2. QED
    BY <1>1, <2>1
<1> HIDE DEF a, b
<1>4. /\ Tail(a) \in Seq(S) /\ Len(Tail(a)) = Len(s)
      /\ \A i \in 1 .. Len(s) : Tail(a)[i] = a[i + 1]
  <2>1. /\ Tail(a) \in Seq(S) /\ Len(Tail(a)) = Len(a) - 1
        /\ \A i \in 1 .. Len(Tail(a)) : Tail(a)[i] = a[i + 1]
    BY <1>2, HeadTailProperties
  <2>2. QED
    BY <1>1, <1>2, <2>1
<1>5. \A i \in 1 .. Len(s) : Tail(a)[i] = b[i]
  <2> SUFFICES ASSUME NEW i \in 1 .. Len(s) PROVE a[i + 1] = b[i]
    BY <1>4
  <2>1. CASE i = Len(s)
    BY <1>2, <1>3, <2>1
  <2>2. CASE i # Len(s)
    <3>1. Len(s) \in Nat /\ i \in Nat /\ 1 <= i /\ i <= Len(s)
      BY <1>1
    <3>2. i \in 1 .. Len(s) - 1 /\ i + 1 \in 1 .. Len(s)
      BY <2>2, <3>1
    <3>3. QED
      BY <1>2, <1>3, <3>2
  <2>3. QED
    BY <2>1, <2>2
<1>6. Tail(a) = b
  BY <1>3, <1>4, <1>5, SeqEqual
<1>7. QED
  BY <1>6 DEF a, b

(* Removing a job from a list of jobs leaves a list of jobs.               *)
LEMMA WithoutType ==
  ASSUME NEW S, NEW s \in Seq(S), NEW e, NEW k \in 1 .. Len(s), s[k] = e,
         \A i \in 1 .. Len(s) : s[i] = e => i = k
  PROVE  Without(s, e) \in Seq(S)
BY WithoutOnce

-------------------------------------------------------------------------------
(* The inductive invariant.                                                *)

(* Jobs arrive in order.                                                   *)
Arrivals ==
  /\ \A j \in Jobs : state[j] = "unsubmitted" <=> j > submitted
  /\ \A j \in jobs : j <= submitted

(* What the worker holds, and what it has seen of it.                      *)
WorkerLocals ==
  /\ worker \in {"taken", "executing", "returned"} <=> current # NoJob
  /\ worker = "taken" => state[current] \in {"queued", "cancelled"}
  /\ Serving => state[current] \in {"running", "cancelled"}
  /\ \A j \in Jobs : state[j] = "running" => Serving /\ current = j
  /\ worker = "returned" =>
       \/ returned.result # "none" /\ returned.error = "none"
       \/ returned.result = "none" /\ returned.error # "none"
       \/ returned.result = "none" /\ returned.error = "none" /\ cancelled[current]

(* `_pending` is in order of arrival and behind the job in hand.           *)
PendingOrder ==
  /\ \A i, k \in DOMAIN pending : i < k => pending[i] < pending[k]
  /\ \A i \in DOMAIN pending :
       /\ pending[i] <= submitted
       /\ state[pending[i]] \in {"queued", "cancelled"}
       /\ current # NoJob => current < pending[i]

(* `_active` holds every job that waits, and only jobs that have arrived.  *)
ActiveMembers ==
  /\ \A j \in Jobs : state[j] = "queued" => \E i \in DOMAIN active : active[i] = j
  /\ \A i \in DOMAIN active : active[i] <= submitted

IInv ==
  /\ TypeOK
  /\ Arrivals
  /\ WorkerLocals
  /\ PendingOrder
  /\ ActiveMembers
  /\ ActiveOrder
  /\ NoJobLost
  /\ OutcomeMatchesState

LEMMA InitIInv == Init => IInv
<1> SUFFICES ASSUME Init PROVE IInv
  OBVIOUS
<1> USE JobQueueAssumption DEF Init, Jobs, NoJob, Serving
<1>1. TypeOK
  BY DEF TypeOK, States, FinishedStates
<1>2. Arrivals /\ WorkerLocals /\ PendingOrder /\ ActiveMembers
  BY DEF Arrivals, WorkerLocals, PendingOrder, ActiveMembers
<1>3. ActiveOrder /\ NoJobLost /\ OutcomeMatchesState
  BY DEF ActiveOrder, NoJobLost, OutcomeMatchesState
<1>4. QED
  BY <1>1, <1>2, <1>3 DEF IInv

(* What a submit does to the invariant, whether or not the thread starts.  *)
LEMMA RegisterIInv ==
  ASSUME IInv, NEW j \in Jobs, Register(j),
         \/ /\ worker' = IF worker = "unstarted" THEN "waiting" ELSE worker
            /\ pending' = Append(pending, j)
         \/ /\ worker = "unstarted" /\ worker' = "dead"
            /\ UNCHANGED pending
  PROVE  IInv'
<1> USE DEF Register
<1>1. TypeOK
  BY DEF IInv
<1>2. /\ active' \in Seq(Jobs)
      /\ Len(active') = Len(active) + 1
      /\ \A i \in 1 .. Len(active) : active'[i] = active[i]
      /\ active'[Len(active) + 1] = j
  BY <1>1, AppendProperties DEF Enlisted, TypeOK
<1>3. DOMAIN active = 1 .. Len(active) /\ DOMAIN active' = 1 .. Len(active) + 1
  BY <1>1, <1>2 DEF TypeOK
<1>4. /\ pending' \in Seq(Jobs)
      /\ DOMAIN pending = 1 .. Len(pending)
      /\ \/ worker = "unstarted" /\ worker' = "dead" /\ pending' = pending
         \/ /\ worker' # "dead" \/ worker = "dead"
            /\ Len(pending') = Len(pending) + 1
            /\ \A i \in 1 .. Len(pending) : pending'[i] = pending[i]
            /\ pending'[Len(pending) + 1] = j
            /\ DOMAIN pending' = 1 .. Len(pending) + 1
  <2>1. pending \in Seq(Jobs) /\ DOMAIN pending = 1 .. Len(pending)
    BY <1>1 DEF TypeOK
  <2>2. CASE worker = "unstarted" /\ worker' = "dead" /\ UNCHANGED pending
    BY <2>1, <2>2
  <2>3. CASE /\ worker' = IF worker = "unstarted" THEN "waiting" ELSE worker
             /\ pending' = Append(pending, j)
    <3>1. /\ pending' \in Seq(Jobs)
          /\ Len(pending') = Len(pending) + 1
          /\ \A i \in 1 .. Len(pending) : pending'[i] = pending[i]
          /\ pending'[Len(pending) + 1] = j
      BY <2>1, <2>3, AppendProperties
    <3>2. DOMAIN pending' = 1 .. Len(pending) + 1
      BY <3>1
    <3>3. worker' # "dead" \/ worker = "dead"
      BY <2>3
    <3>4. QED
      BY <2>1, <3>1, <3>2, <3>3
  <2>4. QED
    BY <2>2, <2>3
<1>5. TypeOK'
  <2>1. jobs' \subseteq Jobs /\ submitted' \in 0 .. MaxJobs
    BY <1>1, JobQueueAssumption DEF TypeOK, Jobs
  <2>2. state' \in [Jobs -> States]
    BY <1>1 DEF TypeOK, States
  <2>3. worker' \in {"unstarted", "dead", "waiting", "taken", "executing", "returned"}
    BY <1>1 DEF TypeOK
  <2>4. QED
    BY <1>1, <1>2, <1>4, <2>1, <2>2, <2>3 DEF TypeOK
<1>6. Serving' <=> Serving
  BY DEF Serving
<1>7. /\ state[j] = "unsubmitted" /\ current # j
      /\ j \in Nat /\ submitted \in Nat /\ j > submitted
      /\ \A i \in Jobs : state'[i] = IF i = j THEN "queued" ELSE state[i]
  BY <1>1 DEF IInv, Arrivals, WorkerLocals, TypeOK, NoJob, Serving, Jobs
<1>8. Arrivals'
  <2>1. \A i \in jobs' : i <= submitted'
    BY <1>1, <1>7 DEF IInv, Arrivals, TypeOK, Jobs
  <2>2. \A i \in Jobs : state'[i] = "unsubmitted" <=> i > submitted'
    BY <1>1, <1>7 DEF IInv, Arrivals, TypeOK, Jobs
  <2>3. QED
    BY <2>1, <2>2 DEF Arrivals
<1>9. WorkerLocals'
  BY <1>1, <1>6, <1>7 DEF IInv, WorkerLocals, TypeOK, NoJob, Serving
<1>10. /\ \A i \in DOMAIN pending : pending[i] < j /\ pending[i] \in Jobs
       /\ current # NoJob => current < j
  <2>1. \A i \in DOMAIN pending : pending[i] \in Jobs /\ pending[i] <= submitted
    BY <1>1 DEF IInv, PendingOrder, TypeOK
  <2>2. current # NoJob => current \in Jobs /\ state[current] # "unsubmitted"
    BY <1>1 DEF IInv, WorkerLocals, TypeOK, Serving
  <2>3. current # NoJob => current <= submitted
    BY <1>7, <2>2 DEF IInv, Arrivals, Jobs
  <2>4. QED
    BY <1>7, <2>1, <2>2, <2>3 DEF Jobs
<1>11. PendingOrder'
  <2>1. \A i, k \in DOMAIN pending' : i < k => pending'[i] < pending'[k]
    BY <1>4, <1>10 DEF IInv, PendingOrder
  <2>2. \A i \in DOMAIN pending' : pending'[i] <= submitted'
    BY <1>4, <1>7, <1>10 DEF Jobs
  <2>3. \A i \in DOMAIN pending' : state'[pending'[i]] \in {"queued", "cancelled"}
    BY <1>4, <1>7, <1>10 DEF IInv, PendingOrder
  <2>4. \A i \in DOMAIN pending' : current' # NoJob => current' < pending'[i]
    BY <1>4, <1>10 DEF IInv, PendingOrder
  <2>5. QED
    BY <2>1, <2>2, <2>3, <2>4 DEF PendingOrder
<1>12. \A i \in 1 .. Len(active) : active[i] \in Jobs /\ active[i] < j
  <2>1. \A i \in 1 .. Len(active) : active[i] \in Jobs
    BY <1>1 DEF TypeOK
  <2>2. \A i \in 1 .. Len(active) : active[i] <= submitted
    BY <1>3 DEF IInv, ActiveMembers
  <2>3. QED
    BY <1>7, <2>1, <2>2 DEF Jobs
<1>13. ActiveMembers'
  BY <1>2, <1>3, <1>7, <1>12 DEF IInv, ActiveMembers, Jobs
<1>14. ActiveOrder'
  <2>1. \A i, k \in DOMAIN active' : i < k => active'[i] < active'[k]
    BY <1>2, <1>3, <1>12 DEF IInv, ActiveOrder
  <2>2. Serving' => active' # << >> /\ active'[1] = current'
    BY <1>2, <1>3, <1>6 DEF IInv, ActiveOrder
  <2>3. \A i \in DOMAIN active' : ~(Serving' /\ i = 1) => state'[active'[i]] = "queued"
    BY <1>2, <1>3, <1>6, <1>7, <1>12 DEF IInv, ActiveOrder
  <2>4. QED
    BY <2>1, <2>2, <2>3 DEF ActiveOrder
<1>15. NoJobLost'
  BY <1>4, <1>7 DEF IInv, NoJobLost
<1>16. OutcomeMatchesState'
  BY <1>7 DEF IInv, OutcomeMatchesState
<1>17. QED
  BY <1>5, <1>8, <1>9, <1>11, <1>13, <1>14, <1>15, <1>16 DEF IInv

(* Taking the job at place k out of `_active`.                             *)
LEMMA RemoveActive ==
  ASSUME IInv, NEW k \in DOMAIN active, active' = Without(active, active[k])
  PROVE  /\ active' \in Seq(Jobs)
         /\ Len(active') = Len(active) - 1
         /\ DOMAIN active' = 1 .. Len(active) - 1
         /\ \A i \in DOMAIN active' : active'[i] = IF i < k THEN active[i] ELSE active[i + 1]
         /\ \A i, m \in DOMAIN active' : i < m => active'[i] < active'[m]
         /\ \A i \in DOMAIN active' : active'[i] # active[k]
         /\ \A i \in DOMAIN active : i # k => \E m \in DOMAIN active' : active'[m] = active[i]
<1>1. active \in Seq(Jobs) /\ DOMAIN active = 1 .. Len(active) /\ Len(active) \in Nat
  BY DEF IInv, TypeOK
<1>2. \A i \in 1 .. Len(active) : active[i] \in Nat
  <2>1. \A i \in 1 .. Len(active) : active[i] \in Jobs
    BY <1>1
  <2>2. QED
    BY <2>1 DEF Jobs
<1>3. \A i, m \in 1 .. Len(active) : i < m => active[i] < active[m]
  BY <1>1 DEF IInv, ActiveOrder
<1>4. \A i \in 1 .. Len(active) : active[i] = active[k] => i = k
  BY <1>1, <1>2, <1>3
<1>5. /\ active' \in Seq(Jobs)
      /\ Len(active') = Len(active) - 1
      /\ \A i \in 1 .. Len(active) - 1 :
           active'[i] = IF i < k THEN active[i] ELSE active[i + 1]
  BY <1>1, <1>4, WithoutOnce
<1>6. /\ k \in 1 .. Len(active)
      /\ DOMAIN active' = 1 .. Len(active) - 1
  <2>1. k \in 1 .. Len(active)
    BY <1>1
  <2>2. DOMAIN active' = 1 .. Len(active) - 1
    BY <1>5
  <2>3. QED
    BY <2>1, <2>2
<1> DEFINE Old(i) == IF i < k THEN i ELSE i + 1
<1>7. ASSUME NEW i \in DOMAIN active'
      PROVE  Old(i) \in 1 .. Len(active) /\ Old(i) # k /\ active'[i] = active[Old(i)]
  <2>1. i \in 1 .. Len(active) - 1
    BY <1>6, <1>7
  <2>2. active'[i] = IF i < k THEN active[i] ELSE active[i + 1]
    BY <1>5, <2>1
  <2>3. QED
    BY <1>1, <1>6, <2>1, <2>2
<1>8. \A i, m \in DOMAIN active' : i < m => active'[i] < active'[m]
  <2> SUFFICES ASSUME NEW i \in DOMAIN active', NEW m \in DOMAIN active', i < m
               PROVE  active'[i] < active'[m]
    OBVIOUS
  <2>1. i \in Nat /\ m \in Nat /\ Old(i) < Old(m)
    BY <1>1, <1>6
  <2>2. QED
    BY <1>3, <1>7, <2>1
<1>9. \A i \in DOMAIN active' : active'[i] # active[k]
  BY <1>4, <1>7
<1>10. ASSUME NEW i \in DOMAIN active, i # k
       PROVE  \E m \in DOMAIN active' : active'[m] = active[i]
  <2> DEFINE m == IF i < k THEN i ELSE i - 1
  <2>1. m \in DOMAIN active' /\ Old(m) = i
    BY <1>1, <1>6, <1>10
  <2>2. active'[m] = active[i]
    BY <1>7, <2>1
  <2>3. QED
    BY <2>1, <2>2
<1>11. QED
  BY <1>5, <1>6, <1>8, <1>9, <1>10

(* _retire touches the history and the index of jobs only.                 *)
LEMMA RetireType ==
  ASSUME TypeOK, NEW j \in Jobs, Retire(j)
  PROVE  jobs' \subseteq Jobs /\ finished' \in Seq(Jobs)
<1>1. Append(finished, j) \in Seq(Jobs)
  BY DEF TypeOK
<1>2. QED
  BY <1>1, KeptType DEF Retire, TypeOK

LEMMA CancelIInv ==
  ASSUME IInv, NEW j \in Jobs, Cancel(j)
  PROVE  IInv'
<1> USE DEF Cancel, Cancellable, fields, thread, store
<1>1. /\ TypeOK /\ state[j] \in {"queued", "running"}
      /\ \A i \in Jobs : state'[i] = IF i = j THEN "cancelled" ELSE state[i]
      /\ \A i \in Jobs : cancelled'[i] = IF i = j THEN TRUE ELSE cancelled[i]
      /\ Serving' <=> Serving
  <2>1. TypeOK
    BY DEF IInv
  <2>2. state[j] # "unsubmitted"
    BY <2>1 DEF IInv, Arrivals, TypeOK, Jobs
  <2>3. QED
    BY <2>1, <2>2 DEF TypeOK, States, FinishedStates, Serving
<1>2. DOMAIN active = 1 .. Len(active) /\ \A i \in DOMAIN active : active[i] \in Jobs
  BY <1>1 DEF TypeOK
<1>3. Arrivals'
  <2>1. jobs' \subseteq jobs
    BY DEF Retire
  <2>2. state[j] # "unsubmitted" /\ state'[j] # "unsubmitted"
    BY <1>1
  <2>3. QED
    BY <1>1, <2>1, <2>2 DEF IInv, Arrivals
<1>4. WorkerLocals'
  BY <1>1 DEF IInv, WorkerLocals, TypeOK, NoJob, Serving
<1>5. PendingOrder'
  <2>1. \A i \in DOMAIN pending : pending[i] \in Jobs
    BY <1>1 DEF TypeOK
  <2>2. QED
    BY <1>1, <2>1 DEF IInv, PendingOrder
<1>6. NoJobLost' /\ OutcomeMatchesState'
  <2>1. NoJobLost'
    BY <1>1 DEF IInv, NoJobLost
  <2>2. ASSUME NEW i \in Jobs
        PROVE  /\ state'[i] = "done" <=> result'[i] # "none"
               /\ state'[i] = "failed" <=> error'[i] # "none"
               /\ state'[i] = "cancelled" <=> cancelled'[i]
    <3>1. /\ state[i] = "done" <=> result[i] # "none"
          /\ state[i] = "failed" <=> error[i] # "none"
          /\ state[i] = "cancelled" <=> cancelled[i]
      BY DEF IInv, OutcomeMatchesState
    <3>2. CASE i = j
      <4>1. state'[i] = "cancelled" /\ cancelled'[i] /\ state[i] \in {"queued", "running"}
        BY <1>1, <3>2
      <4>2. result'[i] = result[i] /\ error'[i] = error[i]
        OBVIOUS
      <4>3. result'[i] = "none" /\ error'[i] = "none"
        BY <3>1, <4>1, <4>2
      <4>4. QED
        BY <4>1, <4>3
    <3>3. CASE i # j
      BY <1>1, <3>1, <3>3
    <3>4. QED
      BY <3>2, <3>3
  <2>3. QED
    BY <2>1, <2>2 DEF OutcomeMatchesState
<1>7. CASE state[j] = "queued"
  <2>1. PICK k \in DOMAIN active : active[k] = j
    BY <1>7 DEF IInv, ActiveMembers
  <2>2. active' = Without(active, active[k])
    BY <1>7, <2>1
  <2>3. /\ active' \in Seq(Jobs)
        /\ DOMAIN active' = 1 .. Len(active) - 1
        /\ \A i \in DOMAIN active' :
             active'[i] = IF i < k THEN active[i] ELSE active[i + 1]
        /\ \A i, m \in DOMAIN active' : i < m => active'[i] < active'[m]
        /\ \A i \in DOMAIN active' : active'[i] # j
        /\ \A i \in DOMAIN active :
             i # k => \E m \in DOMAIN active' : active'[m] = active[i]
    BY <2>1, <2>2, RemoveActive
  <2>4. TypeOK'
    <3>1. jobs' \subseteq Jobs /\ finished' \in Seq(Jobs)
      BY <1>1, <1>7, RetireType
    <3>2. state' \in [Jobs -> States] /\ cancelled' \in [Jobs -> BOOLEAN]
      BY <1>1 DEF TypeOK, States, FinishedStates
    <3>3. QED
      BY <1>1, <2>3, <3>1, <3>2 DEF TypeOK
  <2>5. \A i \in DOMAIN active' : \E m \in DOMAIN active : active'[i] = active[m]
    BY <1>2, <2>1, <2>3
  <2>6. ActiveMembers'
    <3>1. ASSUME NEW i \in Jobs, state'[i] = "queued"
          PROVE  \E m \in DOMAIN active' : active'[m] = i
      <4>1. state[i] = "queued" /\ i # j
        BY <1>1, <3>1
      <4>2. PICK n \in DOMAIN active : active[n] = i
        BY <4>1 DEF IInv, ActiveMembers
      <4>3. QED
        BY <2>1, <2>3, <4>1, <4>2
    <3>2. \A i \in DOMAIN active' : active'[i] <= submitted'
      BY <2>5 DEF IInv, ActiveMembers
    <3>3. QED
      BY <3>1, <3>2 DEF ActiveMembers
  <2>7. ActiveOrder'
    <3>1. Serving => k # 1 /\ active[1] = current
      BY <1>7, <2>1 DEF IInv, ActiveOrder, WorkerLocals
    <3>2. Serving' => active' # << >> /\ active'[1] = current'
      BY <1>1, <1>2, <2>1, <2>3, <3>1
    <3>3. ASSUME NEW i \in DOMAIN active', ~(Serving' /\ i = 1)
          PROVE  state'[active'[i]] = "queued"
      <4> DEFINE n == IF i < k THEN i ELSE i + 1
      <4>1. n \in DOMAIN active /\ active'[i] = active[n] /\ ~(Serving /\ n = 1)
        BY <1>1, <1>2, <2>1, <2>3, <3>1, <3>3
      <4>2. state[active[n]] = "queued" /\ active[n] \in Jobs /\ active[n] # j
        BY <1>2, <2>3, <3>3, <4>1 DEF IInv, ActiveOrder
      <4>3. QED
        BY <1>1, <4>1, <4>2
    <3>4. QED
      BY <2>3, <3>2, <3>3 DEF ActiveOrder
  <2>8. QED
    BY <1>3, <1>4, <1>5, <1>6, <2>4, <2>6, <2>7 DEF IInv
<1>8. CASE state[j] = "running"
  <2>1. Serving /\ current = j
    BY <1>8 DEF IInv, WorkerLocals
  <2>2. TypeOK'
    BY <1>1, <1>8 DEF TypeOK, States, FinishedStates
  <2>3. ActiveMembers'
    BY <1>1, <1>8 DEF IInv, ActiveMembers
  <2>4. ActiveOrder'
    <3>1. \A i \in DOMAIN active : i # 1 => active[i] # j
      <4>1. 1 \in DOMAIN active /\ active[1] = j
        BY <1>2, <2>1 DEF IInv, ActiveOrder, TypeOK
      <4>2. QED
        <5> SUFFICES ASSUME NEW i \in DOMAIN active, i # 1
                     PROVE  active[i] # active[1]
          BY <4>1
        <5>1. 1 < i
          BY <1>2
        <5>2. active[1] < active[i] /\ active[1] \in Nat /\ active[i] \in Nat
          BY <1>2, <4>1, <5>1 DEF IInv, ActiveOrder, Jobs
        <5>3. QED
          BY <5>2
    <3>2. QED
      BY <1>1, <1>2, <1>8, <2>1, <3>1 DEF IInv, ActiveOrder
  <2>5. QED
    BY <1>3, <1>4, <1>5, <1>6, <2>2, <2>3, <2>4 DEF IInv
<1>9. QED
  BY <1>1, <1>7, <1>8

LEMMA TakeIInv == ASSUME IInv, Take PROVE IInv'
<1> USE DEF Take, fields, store
<1>1. TypeOK /\ pending # << >>
  BY DEF IInv
<1>2. /\ pending' \in Seq(Jobs) /\ current' = pending[1] /\ current' \in Jobs
      /\ Len(pending') = Len(pending) - 1
      /\ \A i \in 1 .. Len(pending') : pending'[i] = pending[i + 1]
  BY <1>1, HeadTailProperties DEF TypeOK
<1>3. DOMAIN pending = 1 .. Len(pending) /\ DOMAIN pending' = 1 .. Len(pending) - 1
  BY <1>1, <1>2 DEF TypeOK
<1>4. 1 \in DOMAIN pending /\ ~Serving /\ ~Serving' /\ current' # NoJob /\ current = NoJob
  BY <1>1, <1>2, <1>3 DEF IInv, WorkerLocals, TypeOK, Serving, Jobs, NoJob
<1>5. TypeOK'
  BY <1>1, <1>2 DEF TypeOK
<1>6. Arrivals' /\ ActiveMembers' /\ OutcomeMatchesState'
  BY DEF IInv, Arrivals, ActiveMembers, OutcomeMatchesState
<1>7. WorkerLocals'
  BY <1>2, <1>4 DEF IInv, WorkerLocals, PendingOrder, Serving
<1>8. PendingOrder'
  <2>1. ASSUME NEW i \in DOMAIN pending'
        PROVE  i + 1 \in DOMAIN pending /\ pending'[i] = pending[i + 1] /\ 1 < i + 1
    BY <1>2, <1>3
  <2>2. \A i, k \in DOMAIN pending' : i < k => pending'[i] < pending'[k]
    BY <1>3, <2>1 DEF IInv, PendingOrder
  <2>3. \A i \in DOMAIN pending' : current' < pending'[i]
    BY <1>2, <1>4, <2>1 DEF IInv, PendingOrder
  <2>4. QED
    BY <2>1, <2>2, <2>3 DEF IInv, PendingOrder
<1>9. ActiveOrder'
  BY <1>4 DEF IInv, ActiveOrder
<1>10. NoJobLost'
  <2>1. ASSUME NEW j \in Jobs, state[j] = "queued"
        PROVE  (\E i \in DOMAIN pending' : pending'[i] = j) \/ current' = j
    <3>1. PICK i \in DOMAIN pending : pending[i] = j
      BY <2>1 DEF IInv, NoJobLost
    <3>2. CASE i = 1
      BY <1>2, <3>1, <3>2
    <3>3. CASE i # 1
      <4>1. i - 1 \in DOMAIN pending' /\ pending'[i - 1] = j
        BY <1>2, <1>3, <3>1, <3>3
      <4>2. QED
        BY <4>1
    <3>4. QED
      BY <3>2, <3>3
  <2>2. QED
    BY <2>1 DEF NoJobLost
<1>11. QED
  BY <1>5, <1>6, <1>7, <1>8, <1>9, <1>10 DEF IInv

LEMMA SkipIInv == ASSUME IInv, Skip PROVE IInv'
<1> USE DEF Skip, StillQueued, fields, store
<1>1. ~Serving /\ ~Serving' /\ TypeOK
  BY DEF Serving, IInv
<1>2. TypeOK' /\ Arrivals' /\ ActiveMembers' /\ OutcomeMatchesState'
  BY <1>1 DEF IInv, TypeOK, Arrivals, ActiveMembers, OutcomeMatchesState
<1>3. WorkerLocals' /\ PendingOrder' /\ ActiveOrder' /\ NoJobLost'
  BY <1>1 DEF IInv, WorkerLocals, PendingOrder, ActiveOrder, NoJobLost, Serving
<1>4. QED
  BY <1>2, <1>3 DEF IInv

(* The job in hand arrived before every other job that waits.              *)
LEMMA HandIsFirst ==
  ASSUME IInv, worker = "taken", StillQueued
  PROVE  /\ active # << >> /\ active[1] = current
         /\ \A j \in Jobs : state[j] = "queued" => current <= j
<1>1. TypeOK /\ current \in Jobs /\ state[current] = "queued" /\ ~Serving
  BY DEF IInv, WorkerLocals, TypeOK, StillQueued, NoJob, Jobs, Serving
<1>2. ASSUME NEW j \in Jobs, state[j] = "queued"
      PROVE  current <= j
  <2>1. CASE current = j
    BY <2>1 DEF Jobs
  <2>2. CASE current # j
    <3>1. PICK i \in DOMAIN pending : pending[i] = j
      BY <1>2, <2>2 DEF IInv, NoJobLost
    <3>2. current < j
      BY <1>1, <3>1 DEF IInv, PendingOrder, NoJob, Jobs
    <3>3. QED
      BY <1>1, <3>2 DEF Jobs
  <2>3. QED
    BY <2>1, <2>2
<1>3. PICK k \in DOMAIN active : active[k] = current
  BY <1>1 DEF IInv, ActiveMembers
<1>4. DOMAIN active = 1 .. Len(active) /\ Len(active) \in Nat /\ \A i \in DOMAIN active : active[i] \in Jobs
  BY <1>1 DEF TypeOK
<1>5. k = 1
  <2> SUFFICES ASSUME k # 1 PROVE FALSE
    OBVIOUS
  <2>1. 1 \in DOMAIN active /\ 1 < k
    BY <1>4
  <2>2. active[1] < current
    BY <1>3, <2>1 DEF IInv, ActiveOrder
  <2>3. state[active[1]] = "queued"
    BY <1>1, <2>1 DEF IInv, ActiveOrder
  <2>4. QED
    BY <1>1, <1>2, <1>4, <2>1, <2>2, <2>3 DEF Jobs
<1>6. QED
  BY <1>2, <1>3, <1>4, <1>5

LEMMA StartIInv == ASSUME IInv, Start PROVE IInv'
<1> USE DEF Start, store
<1>1. /\ TypeOK /\ ~Serving /\ Serving' /\ current \in Jobs
      /\ active # << >> /\ active[1] = current /\ ~cancelled[current]
  <2>1. TypeOK /\ ~Serving /\ Serving' /\ current \in Jobs
    BY DEF IInv, WorkerLocals, TypeOK, NoJob, Serving
  <2>2. state[current] # "cancelled"
    BY DEF StillQueued
  <2>3. QED
    BY <2>1, <2>2, HandIsFirst DEF IInv, OutcomeMatchesState
<1>2. /\ state[current] = "queued"
      /\ \A j \in Jobs : state'[j] = IF j = current THEN "running" ELSE state[j]
  BY <1>1 DEF StillQueued, TypeOK
<1>3. TypeOK'
  BY <1>1 DEF TypeOK, States
<1>4. Arrivals' /\ NoJobLost'
  BY <1>1, <1>2 DEF IInv, Arrivals, NoJobLost
<1>5. WorkerLocals'
  BY <1>1, <1>2 DEF IInv, WorkerLocals, Serving
<1>6. \A i \in DOMAIN pending : pending[i] # current /\ pending[i] \in Jobs
  <2>1. \A i \in DOMAIN pending : current < pending[i] /\ pending[i] \in Jobs
    <3>1. \A i \in DOMAIN pending : pending[i] \in Jobs
      BY <1>1 DEF TypeOK
    <3>2. current # NoJob
      BY <1>1 DEF NoJob, Jobs
    <3>3. QED
      BY <3>1, <3>2 DEF IInv, PendingOrder
  <2>2. QED
    BY <1>1, <2>1 DEF Jobs
<1>7. PendingOrder'
  BY <1>2, <1>6 DEF IInv, PendingOrder
<1>8. DOMAIN active = 1 .. Len(active) /\ \A i \in DOMAIN active : active[i] \in Jobs
  BY <1>1 DEF TypeOK
<1>9. ActiveMembers'
  BY <1>2 DEF IInv, ActiveMembers
<1>10. ActiveOrder'
  <2>1. \A i \in DOMAIN active : i # 1 => active[1] < active[i]
    BY <1>1, <1>8 DEF IInv, ActiveOrder
  <2>2. \A i \in DOMAIN active : i # 1 => active[i] # current
    BY <1>1, <1>8, <2>1 DEF Jobs
  <2>3. QED
    BY <1>1, <1>2, <1>8, <2>2 DEF IInv, ActiveOrder
<1>11. OutcomeMatchesState'
  BY <1>2 DEF IInv, OutcomeMatchesState
<1>12. QED
  BY <1>3, <1>4, <1>5, <1>7, <1>9, <1>10, <1>11 DEF IInv

LEMMA ExecuteEndsIInv ==
  ASSUME IInv, NEW o \in Outcomes, ExecuteEnds(o)
  PROVE  IInv'
<1> USE DEF ExecuteEnds, store, fields
<1>1. TypeOK /\ Serving /\ Serving' /\ current # NoJob
  BY DEF IInv, Serving, WorkerLocals
<1>2. TypeOK'
  BY <1>1 DEF TypeOK, Locals
<1>3. Arrivals' /\ PendingOrder' /\ ActiveMembers' /\ NoJobLost' /\ OutcomeMatchesState'
  BY DEF IInv, Arrivals, PendingOrder, ActiveMembers, NoJobLost, OutcomeMatchesState
<1>4. ActiveOrder'
  BY <1>1 DEF IInv, ActiveOrder
<1>5. \/ returned'.result # "none" /\ returned'.error = "none"
      \/ returned'.result = "none" /\ returned'.error # "none"
      \/ returned'.result = "none" /\ returned'.error = "none" /\ cancelled[current]
  <2>1. CASE o = "envelope"
    BY <2>1 DEF Locals
  <2>2. CASE o = "EngineError"
    BY <2>2 DEF Locals
  <2>3. CASE o = "Cancelled"
    BY <2>3 DEF Locals
  <2>4. CASE o = "BaseException"
    BY <2>4 DEF Locals
  <2>5. QED
    BY <2>1, <2>2, <2>3, <2>4 DEF Outcomes
<1>6. WorkerLocals'
  BY <1>1, <1>5 DEF IInv, WorkerLocals, Serving
<1>7. QED
  BY <1>2, <1>3, <1>4, <1>6 DEF IInv

LEMMA FinishIInv == ASSUME IInv, Finish PROVE IInv'
<1> USE DEF Finish
<1>1. /\ TypeOK /\ Serving /\ ~Serving' /\ current \in Jobs /\ worker = "returned"
      /\ active # << >> /\ active[1] = current
      /\ state[current] \in {"running", "cancelled"}
  BY DEF IInv, Serving, WorkerLocals, TypeOK, ActiveOrder, NoJob
<1>2. DOMAIN active = 1 .. Len(active) /\ 1 \in DOMAIN active /\ \A i \in DOMAIN active : active[i] \in Jobs
  BY <1>1 DEF TypeOK
<1>3. active' = Without(active, active[1])
  BY <1>1
<1>4. /\ active' \in Seq(Jobs)
      /\ DOMAIN active' = 1 .. Len(active) - 1
      /\ \A i \in DOMAIN active' :
           active'[i] = IF i < 1 THEN active[i] ELSE active[i + 1]
      /\ \A i, m \in DOMAIN active' : i < m => active'[i] < active'[m]
      /\ \A i \in DOMAIN active' : active'[i] # current
      /\ \A i \in DOMAIN active :
           i # 1 => \E m \in DOMAIN active' : active'[m] = active[i]
  BY <1>1, <1>2, <1>3, RemoveActive
<1>5. /\ state'[current] \in {"done", "failed", "cancelled"}
      /\ \A j \in Jobs : j # current => state'[j] = state[j]
      /\ state' \in [Jobs -> States]
      /\ result' \in [Jobs -> {"none", "envelope"}]
      /\ error' \in [Jobs -> {"none", "message"}]
  <2>1. CASE state[current] = "running"
    BY <1>1, <2>1 DEF Publish, TypeOK, States, FinishedStates
  <2>2. CASE state[current] # "running"
    BY <1>1, <2>2 DEF Publish, TypeOK
  <2>3. QED
    BY <2>1, <2>2
<1>6. TypeOK'
  <2>1. jobs' \subseteq Jobs /\ finished' \in Seq(Jobs)
    BY <1>1, RetireType
  <2>2. QED
    BY <1>1, <1>4, <1>5, <2>1 DEF TypeOK, NoJob
<1>7. Arrivals'
  <2>1. jobs' \subseteq jobs
    BY DEF Retire
  <2>2. QED
    BY <1>1, <1>5, <2>1 DEF IInv, Arrivals
<1>8. WorkerLocals'
  BY <1>1, <1>5 DEF IInv, WorkerLocals, NoJob, Serving
<1>9. PendingOrder'
  <2>1. \A i \in DOMAIN pending : current < pending[i] /\ pending[i] \in Jobs
    <3>1. \A i \in DOMAIN pending : pending[i] \in Jobs
      BY <1>1 DEF TypeOK
    <3>2. current # NoJob
      BY <1>1 DEF NoJob, Jobs
    <3>3. QED
      BY <3>1, <3>2 DEF IInv, PendingOrder
  <2>2. \A i \in DOMAIN pending : pending[i] # current
    BY <1>1, <2>1 DEF Jobs
  <2>3. QED
    BY <1>5, <2>1, <2>2 DEF IInv, PendingOrder
<1>10. ActiveMembers'
  <2>1. ASSUME NEW j \in Jobs, state'[j] = "queued"
        PROVE  \E m \in DOMAIN active' : active'[m] = j
    <3>1. j # current /\ state[j] = "queued"
      BY <1>5, <2>1
    <3>2. PICK n \in DOMAIN active : active[n] = j
      BY <3>1 DEF IInv, ActiveMembers
    <3>3. QED
      BY <1>1, <1>4, <3>1, <3>2
  <2>2. \A i \in DOMAIN active' : active'[i] <= submitted'
    BY <1>2, <1>4 DEF IInv, ActiveMembers
  <2>3. QED
    BY <2>1, <2>2 DEF ActiveMembers
<1>11. ActiveOrder'
  <2>1. ASSUME NEW i \in DOMAIN active'
        PROVE  state'[active'[i]] = "queued"
    <3>1. i + 1 \in DOMAIN active /\ i + 1 # 1 /\ active'[i] = active[i + 1]
      BY <1>2, <1>4
    <3>2. state[active'[i]] = "queued" /\ active'[i] \in Jobs /\ active'[i] # current
      BY <1>2, <1>4, <3>1 DEF IInv, ActiveOrder
    <3>3. QED
      BY <1>5, <3>2
  <2>2. QED
    BY <1>1, <1>4, <2>1 DEF ActiveOrder
<1>12. NoJobLost'
  BY <1>1, <1>5 DEF IInv, NoJobLost
<1>13. OutcomeMatchesState'
  <2>1. CASE state[current] = "running"
    <3>1. /\ result'[current] = returned.result /\ error'[current] = returned.error
          /\ state'[current] = IF returned.result # "none" THEN "done" ELSE "failed"
          /\ \A j \in Jobs : j # current => result'[j] = result[j] /\ error'[j] = error[j]
      BY <1>1, <2>1 DEF Publish, TypeOK
    <3>2. ~cancelled[current]
      BY <1>1, <2>1 DEF IInv, OutcomeMatchesState
    <3>3. returned.result # "none" <=> returned.error = "none"
      BY <1>1, <3>2 DEF IInv, WorkerLocals
    <3>4. QED
      BY <1>5, <3>1, <3>2, <3>3 DEF IInv, OutcomeMatchesState
  <2>2. CASE state[current] # "running"
    BY <2>2 DEF Publish, IInv, OutcomeMatchesState
  <2>3. QED
    BY <2>1, <2>2
<1>14. QED
  BY <1>6, <1>7, <1>8, <1>9, <1>10, <1>11, <1>12, <1>13 DEF IInv

(* Progress reports touch nothing the invariant speaks of but their types. *)
LEMMA ProgressIInv ==
  ASSUME IInv, NEW p \in Pumps,
         \/ \E j \in Jobs : ProgressCheck(p, j)
         \/ \E step \in 1 .. MaxSteps : ProgressWrite(p, step)
  PROVE  IInv'
<1> USE DEF ProgressCheck, ProgressWrite, store, fields, thread
<1>1. TypeOK'
  <2>1. TypeOK
    BY DEF IInv
  <2>2. CASE \E j \in Jobs : ProgressCheck(p, j)
    BY <2>1, <2>2 DEF TypeOK
  <2>3. CASE \E step \in 1 .. MaxSteps : ProgressWrite(p, step)
    <3>1. PICK step \in 1 .. MaxSteps : ProgressWrite(p, step)
      BY <2>3
    <3>2. callback[p] \in Jobs /\ step \in 0 .. MaxSteps
      BY <2>1, <3>1, JobQueueAssumption DEF TypeOK
    <3>3. QED
      BY <2>1, <3>1, <3>2 DEF TypeOK
  <2>4. QED
    BY <2>2, <2>3
<1>2. Serving' <=> Serving
  BY DEF Serving
<1>3. QED
  BY <1>1, <1>2 DEF IInv, Arrivals, WorkerLocals, PendingOrder, ActiveMembers, ActiveOrder,
                    NoJobLost, OutcomeMatchesState

LEMMA StutterIInv == ASSUME IInv, UNCHANGED vars PROVE IInv'
BY DEF vars, store, fields, thread, IInv, TypeOK, Arrivals, WorkerLocals, PendingOrder,
       ActiveMembers, ActiveOrder, NoJobLost, OutcomeMatchesState, Serving

-------------------------------------------------------------------------------
(* Every step preserves the invariant.                                     *)
LEMMA NextIInv == IInv /\ [Next]_vars => IInv'
<1> SUFFICES ASSUME IInv, [Next]_vars PROVE IInv'
  OBVIOUS
<1>1. ASSUME NEW j \in Jobs, Submit(j) PROVE IInv'
  BY <1>1, RegisterIInv DEF Submit
<1>2. ASSUME NEW j \in Jobs, SubmitWithoutThread(j) PROVE IInv'
  BY <1>2, RegisterIInv DEF SubmitWithoutThread
<1>3. ASSUME NEW j \in Jobs, Cancel(j) PROVE IInv'
  BY <1>3, CancelIInv
<1>4. CASE WorkerStep
  BY <1>4, TakeIInv, SkipIInv, StartIInv, ExecuteEndsIInv, FinishIInv DEF WorkerStep
<1>5. ASSUME NEW p \in Pumps, \/ \E j \in Jobs : ProgressCheck(p, j)
                              \/ \E step \in 1 .. MaxSteps : ProgressWrite(p, step)
      PROVE IInv'
  BY <1>5, ProgressIInv
<1>6. CASE UNCHANGED vars
  BY <1>6, StutterIInv
<1>7. QED
  BY <1>1, <1>2, <1>3, <1>4, <1>5, <1>6 DEF Next

LEMMA Invariance == Spec => []IInv
BY InitIInv, NextIInv, PTL DEF Spec

-------------------------------------------------------------------------------
(* The theorems.                                                           *)

(* The fields and locals of the queue hold what they are meant to hold,    *)
(* for any number of jobs, pumps and retained results.                     *)
THEOREM TypeCorrect == Spec => []TypeOK
<1>1. IInv => TypeOK
  BY DEF IInv
<1>2. QED
  BY <1>1, Invariance, PTL

(* `_active` lists the job that has the engine first and then the waiting  *)
(* jobs in arrival order (jobs.py:55).                                     *)
THEOREM ActiveOrdered == Spec => []ActiveOrder
<1>1. IInv => ActiveOrder
  BY DEF IInv
<1>2. QED
  BY <1>1, Invariance, PTL

(* A job that waits is always on its way to a living worker.               *)
THEOREM NothingLost == Spec => []NoJobLost
<1>1. IInv => NoJobLost
  BY DEF IInv
<1>2. QED
  BY <1>1, Invariance, PTL

(* A done job has its result, a failed job its error, a cancelled job      *)
(* neither, however a cancel and the end of the engine run interleave.     *)
THEOREM OutcomesMatch == Spec => []OutcomeMatchesState
<1>1. IInv => OutcomeMatchesState
  BY DEF IInv
<1>2. QED
  BY <1>1, Invariance, PTL

(* The only step that starts a job is Start.                               *)
LEMMA OnlyStartRuns ==
  ASSUME IInv, [Next]_vars, NEW j \in Jobs, state'[j] = "running", state[j] # "running"
  PROVE  Start /\ current = j
<1> USE DEF store, fields, thread
<1>1. TypeOK
  BY DEF IInv
<1>2. ASSUME NEW i \in Jobs, Submit(i) \/ SubmitWithoutThread(i) \/ Cancel(i) PROVE FALSE
  BY <1>1, <1>2 DEF Submit, SubmitWithoutThread, Register, Cancel, TypeOK
<1>3. CASE WorkerStep
  <2>1. CASE Take \/ Skip \/ \E o \in Outcomes : ExecuteEnds(o)
    BY <2>1 DEF Take, Skip, ExecuteEnds
  <2>2. CASE Start
    BY <1>1, <2>2 DEF Start, TypeOK
  <2>3. CASE Finish
    BY <1>1, <2>3 DEF Finish, Publish, TypeOK
  <2>4. QED
    BY <1>3, <2>1, <2>2, <2>3 DEF WorkerStep
<1>4. ASSUME NEW p \in Pumps, \/ \E i \in Jobs : ProgressCheck(p, i)
                              \/ \E step \in 1 .. MaxSteps : ProgressWrite(p, step)
      PROVE FALSE
  BY <1>4 DEF ProgressCheck, ProgressWrite
<1>5. CASE UNCHANGED vars
  BY <1>5 DEF vars
<1>6. QED
  BY <1>2, <1>3, <1>4, <1>5 DEF Next

(* Jobs get the engine one at a time, in order of arrival, and never after *)
(* they have been cancelled.                                               *)
THEOREM FirstComeFirstServed == Spec => StartsInArrivalOrder
<1> DEFINE Fair(j) == /\ ~Serving
                      /\ ~cancelled[j]
                      /\ \A i \in Jobs : i < j => state[i] # "queued"
           Step == \A j \in Jobs : (state'[j] = "running" /\ state[j] # "running") => Fair(j)
<1>1. IInv /\ [Next]_vars => [Step]_vars
  <2> SUFFICES ASSUME IInv, [Next]_vars, NEW j \in Jobs,
                      state'[j] = "running", state[j] # "running"
               PROVE  Fair(j)
    OBVIOUS
  <2>1. Start /\ current = j
    BY OnlyStartRuns
  <2>2. worker = "taken" /\ StillQueued /\ ~Serving
    BY <2>1 DEF Start, Serving
  <2>3. \A i \in Jobs : state[i] = "queued" => j <= i
    BY <2>1, <2>2, HandIsFirst
  <2>4. ~cancelled[j]
    BY <2>1, <2>2 DEF IInv, OutcomeMatchesState, StillQueued
  <2>5. QED
    BY <2>2, <2>3, <2>4 DEF Jobs
<1>2. QED
  BY <1>1, Invariance, PTL DEF Spec, StartsInArrivalOrder

-------------------------------------------------------------------------------
(* What is over.                                                           *)

(* What a step may do to a job that is over: nothing a poll would show.    *)
LEMMA OverStep ==
  ASSUME IInv, [Next]_vars, NEW j \in Jobs
  PROVE  /\ state[j] \in FinishedStates =>
              /\ state'[j] = state[j]
              /\ result'[j] = result[j]
              /\ error'[j] = error[j]
         /\ Quiet(j) => Quiet(j)' /\ progress'[j] = progress[j]
<1> DEFINE Told == state[j] \in FinishedStates =>
                     state'[j] = state[j] /\ result'[j] = result[j] /\ error'[j] = error[j]
           Still == Quiet(j) => Quiet(j)' /\ progress'[j] = progress[j]
<1> USE DEF fields, store, thread
<1>1. TypeOK /\ j # NoJob
  BY DEF IInv, Jobs, NoJob
<1>2. ASSUME NEW i \in Jobs, Register(i)
      PROVE  Told /\ Still
  <2>1. state[i] = "unsubmitted"
    BY <1>2, <1>1 DEF IInv, Arrivals, Register, TypeOK, Jobs
  <2>2. state[j] \in FinishedStates => i # j
    BY <2>1 DEF FinishedStates
  <2>3. QED
    BY <1>1, <1>2, <2>2 DEF Register, TypeOK, Quiet
<1>3. ASSUME NEW i \in Jobs, Cancel(i)
      PROVE  Told /\ Still
  BY <1>1, <1>3 DEF Cancel, Cancellable, TypeOK, Quiet
<1>4. CASE WorkerStep
  <2>1. CASE Take \/ Skip \/ \E o \in Outcomes : ExecuteEnds(o)
    BY <2>1 DEF Take, Skip, ExecuteEnds, Quiet
  <2>2. CASE Start
    BY <1>1, <2>2 DEF Start, StillQueued, FinishedStates, TypeOK, Quiet
  <2>3. CASE Finish
    BY <1>1, <2>3 DEF Finish, Publish, FinishedStates, TypeOK, Quiet
  <2>4. QED
    BY <1>4, <2>1, <2>2, <2>3 DEF WorkerStep
<1>5. ASSUME NEW p \in Pumps, NEW i \in Jobs, ProgressCheck(p, i)
      PROVE  Told /\ Still
  BY <1>1, <1>5 DEF ProgressCheck, TypeOK, Quiet
<1>6. ASSUME NEW p \in Pumps, NEW step \in 1 .. MaxSteps, ProgressWrite(p, step)
      PROVE  Told /\ Still
  BY <1>1, <1>6 DEF ProgressWrite, TypeOK, Quiet
<1>7. CASE UNCHANGED vars
  BY <1>7 DEF vars, Quiet
<1>8. QED
  BY <1>2, <1>3, <1>4, <1>5, <1>6, <1>7 DEF Next, Submit, SubmitWithoutThread

(* What a poll has shown of a job that is over never changes, however late *)
(* the engine's outcome and its progress reports come.                     *)
THEOREM OverStaysOver == Spec => OverIsOver
<1> DEFINE Step == \A j \in Jobs :
                     /\ state[j] \in FinishedStates =>
                          /\ state'[j] = state[j]
                          /\ result'[j] = result[j]
                          /\ error'[j] = error[j]
                     /\ Quiet(j) => Quiet(j)' /\ progress'[j] = progress[j]
<1>1. IInv /\ [Next]_vars => [Step]_vars
  BY OverStep
<1>2. QED
  BY <1>1, Invariance, PTL DEF Spec, OverIsOver

-------------------------------------------------------------------------------
(* The history.                                                            *)

(* A job that still has the engine is not in the history yet, even when it *)
(* is cancelled already: without this, HistoryIsFull is not inductive.     *)
NotYetRetired ==
  \A i \in DOMAIN finished, k \in DOMAIN active : finished[i] # active[k]

History == HistoryIsFull /\ NotYetRetired

(* _retire keeps the newest of the history, in order, and forgets the rest. *)
LEMMA KeptIsTheEnd ==
  ASSUME NEW S, NEW f \in Seq(S)
  PROVE  /\ Excess(f) \in 0 .. Len(f)
         /\ Len(Kept(f)) = Len(f) - Excess(f)
         /\ DOMAIN Kept(f) = 1 .. Len(f) - Excess(f)
         /\ \A i \in 1 .. Len(f) - Excess(f) : Kept(f)[i] = f[i + Excess(f)]
<1>1. Excess(f) \in 0 .. Len(f)
  BY JobQueueAssumption DEF Excess
<1>2. \A i \in Excess(f) + 1 .. Len(f) : f[i] \in S
  BY <1>1
<1>3. /\ Kept(f) \in Seq(S)
      /\ Len(Kept(f)) = Len(f) - Excess(f)
      /\ \A i \in 1 .. Len(f) - Excess(f) : Kept(f)[i] = f[Excess(f) + 1 + i - 1]
  BY <1>1, <1>2, SubSeqProperties DEF Kept
<1>4. QED
  BY <1>1, <1>3

(* The critical section that moves job j from `_active` to `_finished`.    *)
LEMMA RetireHistory ==
  ASSUME IInv, History, NEW k \in DOMAIN active,
         active' = Without(active, active[k]), Retire(active[k]),
         UNCHANGED submitted, state'[active[k]] \in FinishedStates,
         \A i \in Jobs : i # active[k] => state'[i] = state[i]
  PROVE  History'
<1> DEFINE j == active[k]
           f == Append(finished, j)
           n == Len(finished)
<1>1. /\ active \in Seq(Jobs) /\ finished \in Seq(Jobs) /\ n \in Nat /\ submitted \in Nat
      /\ DOMAIN active = 1 .. Len(active) /\ DOMAIN finished = 1 .. n
      /\ j \in Jobs /\ Len(active) \in Nat
  BY DEF IInv, TypeOK
<1>2. /\ active' \in Seq(Jobs)
      /\ Len(active') = Len(active) - 1
      /\ DOMAIN active' = 1 .. Len(active) - 1
      /\ \A i \in DOMAIN active' : active'[i] # j
      /\ \A i \in DOMAIN active : i # k => \E m \in DOMAIN active' : active'[m] = active[i]
      /\ \A i \in DOMAIN active' : \E m \in DOMAIN active : active'[i] = active[m]
  <2>1. /\ active' \in Seq(Jobs)
        /\ Len(active') = Len(active) - 1
        /\ DOMAIN active' = 1 .. Len(active) - 1
        /\ \A i \in DOMAIN active' : active'[i] = IF i < k THEN active[i] ELSE active[i + 1]
        /\ \A i \in DOMAIN active' : active'[i] # active[k]
        /\ \A i \in DOMAIN active : i # k => \E m \in DOMAIN active' : active'[m] = active[i]
    BY RemoveActive
  <2>2. ASSUME NEW i \in DOMAIN active'
        PROVE  \E m \in DOMAIN active : active'[i] = active[m]
    <3> DEFINE m == IF i < k THEN i ELSE i + 1
    <3>1. m \in DOMAIN active
      <4>1. i \in 1 .. Len(active) - 1 /\ k \in 1 .. Len(active) /\ Len(active) \in Nat
        BY <1>1, <2>1, <2>2
      <4>2. m \in 1 .. Len(active)
        BY <4>1
      <4>3. QED
        BY <1>1, <4>2
    <3>2. active'[i] = active[m]
      BY <2>1
    <3>3. QED
      BY <3>1, <3>2
  <2>3. QED
    BY <2>1, <2>2
<1>3. Range(active) = Range(active') \cup {j}
  BY <1>2 DEF Range
<1>4. /\ f \in Seq(Jobs) /\ Len(f) = n + 1 /\ DOMAIN f = 1 .. n + 1
      /\ \A i \in 1 .. n : f[i] = finished[i]
      /\ f[n + 1] = j
  <2>1. f \in Seq(Jobs) /\ Len(f) = n + 1 /\ (\A i \in 1 .. n : f[i] = finished[i]) /\ f[n + 1] = j
    BY <1>1, AppendProperties
  <2>2. QED
    BY <2>1
<1>5. \A a, b \in 1 .. n + 1 : f[a] = f[b] => a = b
  <2>1. \A i \in 1 .. n : finished[i] # j
    BY <1>1 DEF History, NotYetRetired
  <2>2. \A a, b \in 1 .. n : finished[a] = finished[b] => a = b
    BY <1>1 DEF History, HistoryIsFull, IsInjective
  <2>3. QED
    BY <1>1, <1>4, <2>1, <2>2
<1> DEFINE x == Excess(f)
<1>6. /\ x \in 0 .. n + 1
      /\ finished' \in Seq(Jobs)
      /\ Len(finished') = n + 1 - x
      /\ DOMAIN finished' = 1 .. n + 1 - x
      /\ \A i \in 1 .. n + 1 - x : finished'[i] = f[i + x]
  <2>1. finished' = Kept(f)
    BY DEF Retire
  <2> HIDE DEF f
  <2>2. Kept(f) \in Seq(Jobs)
    BY <1>4, KeptType
  <2>3. /\ x \in 0 .. Len(f)
        /\ Len(Kept(f)) = Len(f) - x
        /\ DOMAIN Kept(f) = 1 .. Len(f) - x
        /\ \A i \in 1 .. Len(f) - x : Kept(f)[i] = f[i + x]
    BY <1>4, KeptIsTheEnd
  <2>4. QED
    BY <1>4, <2>1, <2>2, <2>3
<1> HIDE DEF f
<1>7. IsInjective(finished')
  <2> SUFFICES ASSUME NEW a \in 1 .. n + 1 - x, NEW b \in 1 .. n + 1 - x,
                      finished'[a] = finished'[b]
               PROVE  a = b
    BY <1>6 DEF IsInjective
  <2>1. a + x \in 1 .. n + 1 /\ b + x \in 1 .. n + 1
    BY <1>1, <1>6
  <2>2. f[a + x] = f[b + x]
    BY <1>6
  <2>3. a + x = b + x
    BY <1>5, <2>1, <2>2
  <2>4. QED
    BY <1>6, <2>3
<1>8. \A i \in DOMAIN finished' : state'[finished'[i]] \in FinishedStates
  <2> SUFFICES ASSUME NEW i \in 1 .. n + 1 - x
               PROVE  state'[f[i + x]] \in FinishedStates
    BY <1>6
  <2>1. i + x \in 1 .. n + 1
    BY <1>1, <1>6
  <2>2. CASE i + x = n + 1
    BY <1>4, <2>2
  <2>3. CASE i + x # n + 1
    <3>1. i + x \in 1 .. n
      BY <1>1, <2>1, <2>3
    <3>2. f[i + x] = finished[i + x] /\ finished[i + x] \in Jobs /\ finished[i + x] # j
      BY <1>1, <1>4, <3>1 DEF History, NotYetRetired
    <3>3. state[finished[i + x]] \in FinishedStates
      BY <1>1, <3>1 DEF History, HistoryIsFull
    <3>4. QED
      BY <3>2, <3>3
  <2>4. QED
    BY <2>2, <2>3
<1>9. Len(finished') = IF submitted' - Len(active') < MaxFinished
                         THEN submitted' - Len(active') ELSE MaxFinished
  <2>1. Len(active') = Len(active) - 1
    BY <1>2
  <2>2. n = IF submitted - Len(active) < MaxFinished THEN submitted - Len(active) ELSE MaxFinished
    BY DEF History, HistoryIsFull
  <2>3. x = IF n + 1 > MaxFinished THEN n + 1 - MaxFinished ELSE 0
    BY <1>1, <1>4, JobQueueAssumption DEF Excess
  <2> DEFINE over == submitted - Len(active)
  <2>4. submitted' - Len(active') = over + 1 /\ over \in Int
    <3>1. submitted' = submitted /\ submitted \in Int /\ Len(active) \in Int
      BY <1>1
    <3> HIDE DEF n, x, j
    <3>2. submitted' - Len(active') = submitted - (Len(active) - 1)
      BY <2>1, <3>1
    <3>3. QED
      BY <3>1, <3>2
  <2>5. MaxFinished \in Nat /\ Len(finished') = n + 1 - x /\ n \in Nat
    BY <1>1, <1>6, JobQueueAssumption
  <2>6. n = IF over < MaxFinished THEN over ELSE MaxFinished
    BY <2>2
  <2> HIDE DEF over, n, x
  <2>7. QED
    BY <2>3, <2>4, <2>5, <2>6
<1>10. NotYetRetired'
  <2> SUFFICES ASSUME NEW i \in 1 .. n + 1 - x, NEW m \in DOMAIN active'
               PROVE  f[i + x] # active'[m]
    BY <1>6 DEF NotYetRetired
  <2>1. i + x \in 1 .. n + 1
    BY <1>1, <1>6
  <2>2. CASE i + x = n + 1
    BY <1>2, <1>4, <2>2
  <2>3. CASE i + x \in 1 .. n
    <3>1. PICK q \in DOMAIN active : active'[m] = active[q]
      BY <1>2
    <3>2. finished[i + x] # active[q]
      BY <1>1, <2>3 DEF History, NotYetRetired
    <3>3. QED
      BY <1>4, <2>3, <3>1, <3>2
  <2>4. QED
    BY <1>1, <2>1, <2>2, <2>3
<1>11. jobs' = Range(active') \cup Range(finished')
  <2>1. Range(f) = Range(finished) \cup {j}
    <3>1. ASSUME NEW a \in 1 .. n + 1
          PROVE  f[a] \in Range(finished) \cup {j}
      BY <1>1, <1>4 DEF Range
    <3>2. ASSUME NEW a \in 1 .. n
          PROVE  finished[a] \in Range(f)
      BY <1>1, <1>4 DEF Range
    <3>3. j \in Range(f)
      BY <1>1, <1>4 DEF Range
    <3>4. QED
      BY <1>1, <1>4, <3>1, <3>2, <3>3 DEF Range
  <2>2. Range(finished') = Range(f) \ Evicted(f)
    <3>1. Range(finished') = {f[i + x] : i \in 1 .. n + 1 - x}
      BY <1>6 DEF Range
    <3>2. Evicted(f) = {f[i] : i \in 1 .. x}
      BY DEF Evicted
    <3>3. ASSUME NEW i \in 1 .. n + 1 - x
          PROVE  f[i + x] \in Range(f) \ Evicted(f)
      <4>1. i + x \in 1 .. n + 1 /\ \A m \in 1 .. x : m \in 1 .. n + 1 /\ m # i + x
        BY <1>1, <1>6
      <4>2. QED
        BY <1>4, <1>5, <3>2, <4>1 DEF Range
    <3>4. ASSUME NEW a \in 1 .. n + 1, f[a] \notin Evicted(f)
          PROVE  \E i \in 1 .. n + 1 - x : f[i + x] = f[a]
      <4>1. a \notin 1 .. x
        BY <3>2, <3>4
      <4>2. a - x \in 1 .. n + 1 - x /\ (a - x) + x = a
        BY <1>1, <1>6, <4>1
      <4>3. QED
        BY <4>2
    <3>5. Range(finished') \subseteq Range(f) \ Evicted(f)
      BY <3>1, <3>3
    <3>6. ASSUME NEW v \in Range(f), v \notin Evicted(f)
          PROVE  v \in Range(finished')
      <4>1. PICK a \in 1 .. n + 1 : v = f[a]
        BY <1>4 DEF Range
      <4>2. QED
        BY <3>1, <3>4, <3>6, <4>1
    <3>7. QED
      BY <3>5, <3>6
  <2>3. Evicted(f) \cap Range(active') = {}
    <3>1. Evicted(f) \subseteq Range(f)
      BY <1>1, <1>4, <1>6 DEF Evicted, Range
    <3>2. Range(finished) \cap Range(active) = {}
      BY DEF History, NotYetRetired, Range
    <3>3. j \notin Range(active')
      BY <1>2 DEF Range
    <3>4. QED
      BY <1>3, <2>1, <3>1, <3>2, <3>3
  <2>4. jobs' = (Range(active) \cup Range(finished)) \ Evicted(f)
    BY DEF Retire, History, HistoryIsFull, f
  <2>5. QED
    BY <1>3, <2>1, <2>2, <2>3, <2>4
<1>12. QED
  BY <1>7, <1>8, <1>9, <1>10, <1>11 DEF History, HistoryIsFull

LEMMA InitHistory == Init => History
<1> SUFFICES ASSUME Init PROVE History
  OBVIOUS
<1>1. Range(active) = {} /\ Range(finished) = {}
  BY DEF Init, Range
<1>2. /\ submitted = 0 /\ jobs = {} /\ MaxFinished > 0
      /\ DOMAIN active = {} /\ DOMAIN finished = {} /\ Len(active) = 0 /\ Len(finished) = 0
  BY JobQueueAssumption DEF Init
<1>3. QED
  BY <1>1, <1>2 DEF History, NotYetRetired, HistoryIsFull, IsInjective

(* Steps that leave the lists alone and end no job that is over.           *)
LEMMA QuietHistory ==
  ASSUME History, TypeOK, UNCHANGED <<submitted, store>>,
         \A j \in Jobs : state[j] \in FinishedStates => state'[j] \in FinishedStates
  PROVE  History'
BY DEF History, HistoryIsFull, NotYetRetired, store, IsInjective, Range, TypeOK

LEMMA RegisterHistory ==
  ASSUME IInv, History, NEW j \in Jobs, Register(j)
  PROVE  History'
<1>1. TypeOK /\ active' = Append(active, j) /\ UNCHANGED finished
  BY DEF IInv, Register, Enlisted
<1>2. /\ DOMAIN active' = 1 .. Len(active) + 1
      /\ Len(active') = Len(active) + 1 /\ Len(active) \in Nat
      /\ DOMAIN active = 1 .. Len(active)
      /\ \A i \in 1 .. Len(active) : active'[i] = active[i]
      /\ active'[Len(active) + 1] = j
  <2>1. active \in Seq(Jobs)
    BY <1>1 DEF TypeOK
  <2>2. /\ active' \in Seq(Jobs) /\ Len(active') = Len(active) + 1
        /\ \A i \in 1 .. Len(active) : active'[i] = active[i]
        /\ active'[Len(active) + 1] = j
    BY <1>1, <2>1, AppendProperties
  <2>3. QED
    BY <2>1, <2>2
<1>3. Range(active') = Range(active) \cup {j}
  <2>1. \A i \in DOMAIN active' : active'[i] \in Range(active) \cup {j}
    BY <1>2 DEF Range
  <2>2. \A i \in DOMAIN active : active[i] \in Range(active')
    BY <1>2 DEF Range
  <2>3. j \in Range(active')
    BY <1>2 DEF Range
  <2>4. QED
    BY <2>1, <2>2, <2>3 DEF Range
<1>4. \A i \in DOMAIN finished : finished[i] # j /\ finished[i] \in Jobs
  <2>1. state[j] = "unsubmitted"
    BY <1>1 DEF IInv, Arrivals, Register, TypeOK, Jobs
  <2>2. QED
    <3>1. ASSUME NEW i \in DOMAIN finished
          PROVE  state[finished[i]] \in FinishedStates /\ finished[i] \in Jobs
      BY <1>1 DEF History, HistoryIsFull, TypeOK
    <3>2. QED
      BY <2>1, <3>1 DEF FinishedStates
<1>5. NotYetRetired'
  BY <1>1, <1>2, <1>4 DEF History, NotYetRetired
<1>6. HistoryIsFull'
  <2>1. \A i \in DOMAIN finished' : state'[finished'[i]] \in FinishedStates
    BY <1>1, <1>4 DEF History, HistoryIsFull, Register, TypeOK
  <2>2. submitted' - Len(active') = submitted - Len(active)
    BY <1>1, <1>2 DEF Register, TypeOK
  <2>3. jobs' = Range(active') \cup Range(finished')
    BY <1>1, <1>3 DEF History, HistoryIsFull, Register
  <2>4. QED
    BY <1>1, <2>1, <2>2, <2>3 DEF History, HistoryIsFull
<1>7. QED
  BY <1>5, <1>6 DEF History

LEMMA NextHistory == IInv /\ History /\ [Next]_vars => History'
<1> SUFFICES ASSUME IInv, History, [Next]_vars PROVE History'
  OBVIOUS
<1> USE DEF fields, thread
<1>1. TypeOK
  BY DEF IInv
<1>2. ASSUME NEW j \in Jobs, Submit(j) \/ SubmitWithoutThread(j) PROVE History'
  BY <1>2, RegisterHistory DEF Submit, SubmitWithoutThread
<1>3. ASSUME NEW j \in Jobs, Cancel(j) PROVE History'
  <2>1. /\ state'[j] = "cancelled" /\ UNCHANGED submitted
        /\ \A i \in Jobs : i # j => state'[i] = state[i]
    BY <1>1, <1>3 DEF Cancel, TypeOK
  <2>2. CASE state[j] = "queued"
    <3>1. PICK k \in DOMAIN active : active[k] = j
      BY <2>2 DEF IInv, ActiveMembers
    <3>2. active' = Without(active, active[k]) /\ Retire(active[k])
      BY <1>3, <2>2, <3>1 DEF Cancel
    <3>3. QED
      BY <2>1, <3>1, <3>2, RetireHistory DEF FinishedStates
  <2>3. CASE state[j] # "queued"
    BY <1>1, <1>3, <2>1, <2>3, QuietHistory DEF Cancel, FinishedStates
  <2>4. QED
    BY <2>2, <2>3
<1>4. CASE Take \/ Skip \/ Start \/ \E o \in Outcomes : ExecuteEnds(o)
  <2>1. UNCHANGED <<submitted, store>>
    BY <1>4 DEF Take, Skip, Start, ExecuteEnds
  <2>2. \A j \in Jobs : state[j] \in FinishedStates => state'[j] \in FinishedStates
    BY <1>1, <1>4 DEF Take, Skip, Start, ExecuteEnds, StillQueued, FinishedStates, TypeOK
  <2>3. QED
    BY <1>1, <2>1, <2>2, QuietHistory
<1>5. CASE Finish
  <2>1. active # << >> /\ active[1] = current /\ current \in Jobs
    BY <1>5 DEF Finish, IInv, ActiveOrder, Serving, WorkerLocals, TypeOK, NoJob
  <2>2. 1 \in DOMAIN active
    BY <1>1, <2>1 DEF TypeOK
  <2>3. state'[current] \in FinishedStates /\ \A i \in Jobs : i # current => state'[i] = state[i]
    BY <1>1, <1>5, <2>1 DEF Finish, Publish, IInv, WorkerLocals, Serving, TypeOK, FinishedStates
  <2>4. QED
    BY <1>5, <2>1, <2>2, <2>3, RetireHistory DEF Finish
<1>6. ASSUME NEW p \in Pumps, \/ \E j \in Jobs : ProgressCheck(p, j)
                              \/ \E step \in 1 .. MaxSteps : ProgressWrite(p, step)
      PROVE History'
  BY <1>1, <1>6, QuietHistory DEF ProgressCheck, ProgressWrite
<1>7. CASE UNCHANGED vars
  BY <1>1, <1>7, QuietHistory DEF vars
<1>8. QED
  BY <1>2, <1>3, <1>4, <1>5, <1>6, <1>7 DEF Next, WorkerStep

(* The list the job at place k leaves has lost it and nothing else.        *)
LEMMA EndedIs ==
  ASSUME IInv, NEW k \in DOMAIN active, active' = Without(active, active[k])
  PROVE  Range(active) \ Range(active') = {active[k]}
<1>1. /\ DOMAIN active' = 1 .. Len(active) - 1
      /\ \A i \in DOMAIN active' : active'[i] # active[k]
      /\ \A i \in DOMAIN active : i # k => \E m \in DOMAIN active' : active'[m] = active[i]
  BY RemoveActive
<1>2. active[k] \in Range(active) /\ active[k] \notin Range(active')
  BY <1>1 DEF Range
<1>3. \A j \in Range(active) : j # active[k] => j \in Range(active')
  BY <1>1 DEF Range
<1>4. QED
  BY <1>2, <1>3

(* _retire makes the job the newest of the history.                        *)
LEMMA RetireForgets ==
  ASSUME IInv, HistoryIsFull, NEW k \in DOMAIN active,
         active' = Without(active, active[k]), Retire(active[k])
  PROVE  ForgetsTheOldest
<1> DEFINE j == active[k]
           f == Append(finished, j)
           n == Len(finished)
<1>1. /\ finished \in Seq(Jobs) /\ n \in Nat /\ j \in Jobs
      /\ submitted \in Nat /\ Len(active) \in Nat /\ MaxFinished \in Nat \ {0}
  BY JobQueueAssumption DEF IInv, TypeOK
<1>2. n <= MaxFinished
  BY <1>1 DEF HistoryIsFull
<1>3. f \in Seq(Jobs) /\ Len(f) = n + 1 /\ finished' = Kept(f)
  BY <1>1, AppendProperties DEF Retire
<1>4. finished' = Append(WithRoom, j)
  <2>1. CASE n < MaxFinished
    <3>1. Excess(f) = 0
      BY <1>1, <1>3, <2>1 DEF Excess
    <3>2. Kept(f) = f
      <4> HIDE DEF f
      <4>1. /\ Len(Kept(f)) = Len(f)
            /\ \A i \in 1 .. Len(f) : Kept(f)[i] = f[i]
        BY <1>3, <3>1, KeptIsTheEnd
      <4>2. Kept(f) \in Seq(Jobs)
        BY <1>3, KeptType
      <4>3. QED
        BY <1>3, <4>1, <4>2, SeqEqual
    <3>3. QED
      BY <1>3, <2>1, <3>2 DEF WithRoom
  <2>2. CASE n = MaxFinished
    <3>1. Excess(f) = 1 /\ finished # << >>
      BY <1>1, <1>3, <2>2 DEF Excess
    <3>2. Kept(f) = Tail(f)
      <4> HIDE DEF f
      <4>1. /\ Len(Kept(f)) = Len(f) - 1 /\ Len(f) \in Nat
            /\ \A i \in 1 .. Len(f) - 1 : Kept(f)[i] = f[i + 1]
        BY <1>3, <3>1, KeptIsTheEnd
      <4>2. Kept(f) \in Seq(Jobs)
        BY <1>3, KeptType
      <4>3. f # << >>
        BY <1>1, <1>3
      <4>4. /\ Tail(f) \in Seq(Jobs) /\ Len(Tail(f)) = Len(f) - 1
            /\ \A i \in 1 .. Len(f) - 1 : Tail(f)[i] = f[i + 1]
        BY <1>3, <4>3, HeadTailProperties
      <4>5. QED
        BY <4>1, <4>2, <4>4, SeqEqual
    <3>3. Tail(f) = Append(Tail(finished), j)
      BY <1>1, <3>1, TailOfAppend
    <3>4. QED
      BY <1>1, <1>3, <2>2, <3>2, <3>3 DEF WithRoom
  <2>3. QED
    BY <1>1, <1>2, <2>1, <2>2
<1>5. Range(active) \ Range(active') = {j}
  BY EndedIs
<1>6. QED
  BY <1>4, <1>5 DEF ForgetsTheOldest

LEMMA NextForgets == IInv /\ HistoryIsFull /\ [Next]_vars => [ForgetsTheOldest]_vars
<1> SUFFICES ASSUME IInv, HistoryIsFull, Next PROVE ForgetsTheOldest
  OBVIOUS
<1> USE DEF fields, thread
<1>1. TypeOK
  BY DEF IInv
<1>2. ASSUME UNCHANGED <<active, finished>> PROVE ForgetsTheOldest
  BY <1>2 DEF ForgetsTheOldest
<1>3. ASSUME NEW j \in Jobs, Submit(j) \/ SubmitWithoutThread(j) PROVE ForgetsTheOldest
  <2>1. active' = Append(active, j) /\ finished' = finished
    BY <1>3 DEF Submit, SubmitWithoutThread, Register, Enlisted
  <2>2. \A i \in DOMAIN active : i \in DOMAIN active' /\ active'[i] = active[i]
    <3>1. active \in Seq(Jobs) /\ DOMAIN active = 1 .. Len(active) /\ Len(active) \in Nat
      BY <1>1 DEF TypeOK
    <3>2. /\ active' \in Seq(Jobs) /\ Len(active') = Len(active) + 1
          /\ \A i \in 1 .. Len(active) : active'[i] = active[i]
      BY <2>1, <3>1, AppendProperties
    <3>3. DOMAIN active' = 1 .. Len(active) + 1
      BY <3>2
    <3>4. QED
      BY <3>1, <3>2, <3>3
  <2>3. Range(active) \ Range(active') = {}
    BY <2>2 DEF Range
  <2>4. QED
    BY <2>1, <2>3 DEF ForgetsTheOldest
<1>4. ASSUME NEW j \in Jobs, Cancel(j) PROVE ForgetsTheOldest
  <2>1. CASE state[j] = "queued"
    <3>1. PICK k \in DOMAIN active : active[k] = j
      BY <2>1 DEF IInv, ActiveMembers
    <3>2. active' = Without(active, active[k]) /\ Retire(active[k])
      BY <1>4, <2>1, <3>1 DEF Cancel
    <3>3. QED
      BY <3>2, RetireForgets
  <2>2. CASE state[j] # "queued"
    BY <1>2, <1>4, <2>2 DEF Cancel, store
  <2>3. QED
    BY <2>1, <2>2
<1>5. CASE Take \/ Skip \/ Start \/ \E o \in Outcomes : ExecuteEnds(o)
  <2>1. UNCHANGED store
    BY <1>5 DEF Take, Skip, Start, ExecuteEnds
  <2>2. QED
    BY <1>2, <2>1 DEF store
<1>6. CASE Finish
  <2>1. active # << >> /\ active[1] = current
    BY <1>6 DEF Finish, IInv, ActiveOrder, Serving, WorkerLocals, TypeOK, NoJob
  <2>2. 1 \in DOMAIN active
    BY <1>1, <2>1 DEF TypeOK
  <2>3. QED
    BY <1>6, <2>1, <2>2, RetireForgets DEF Finish
<1>7. ASSUME NEW p \in Pumps, \/ \E j \in Jobs : ProgressCheck(p, j)
                              \/ \E step \in 1 .. MaxSteps : ProgressWrite(p, step)
      PROVE ForgetsTheOldest
  BY <1>2, <1>7 DEF ProgressCheck, ProgressWrite, store
<1>8. QED
  BY <1>3, <1>4, <1>5, <1>6, <1>7 DEF Next, WorkerStep

(* The history is full before it forgets a job, holds no job twice, and    *)
(* with `_active` it is all a client can look up; a job that leaves        *)
(* `_active` is the newest of it, and the oldest is forgotten for it: for  *)
(* any length of the history and any number of jobs, retired by either     *)
(* thread in any order (_retire in jobs.py).                               *)
THEOREM HistoryRetained == Spec => Retention
<1>1. History => HistoryIsFull
  BY DEF History
<1>2. Spec => [](IInv /\ History)
  BY InitHistory, NextHistory, Invariance, PTL DEF Spec
<1>3. IInv /\ History /\ [Next]_vars => [ForgetsTheOldest]_vars
  BY <1>1, NextForgets
<1>4. QED
  BY <1>1, <1>2, <1>3, PTL DEF Spec, Retention

-------------------------------------------------------------------------------
(* What the rest of the program may rely on, step by step.                 *)

(* Nothing is forgotten as long as there is room in the history.           *)
Remembered == Len(finished) < MaxFinished => jobs = 1 .. submitted

QueueInv == IInv /\ History /\ Remembered

LEMMA InitQueueInv == Init => QueueInv
<1>1. Init => Remembered
  BY DEF Init, Remembered
<1>2. QED
  BY <1>1, InitIInv, InitHistory DEF QueueInv

LEMMA RetireRemembered ==
  ASSUME IInv, History, Remembered, NEW j \in Jobs, Retire(j), UNCHANGED submitted
  PROVE  Remembered'
<1> DEFINE f == Append(finished, j)
<1>1. f \in Seq(Jobs) /\ Len(f) = Len(finished) + 1 /\ Len(finished) \in Nat
  BY DEF IInv, TypeOK
<1>2. Excess(f) \in 0 .. Len(f) /\ Len(finished') = Len(f) - Excess(f)
  BY <1>1, KeptIsTheEnd DEF Retire
<1> HIDE DEF f
<1>3. ASSUME Len(finished') < MaxFinished PROVE Excess(f) = 0 /\ Len(finished) < MaxFinished
  <2>1. MaxFinished \in Nat /\ Len(f) \in Nat
    BY <1>1, JobQueueAssumption
  <2>2. ~(Len(f) > MaxFinished)
    BY <1>2, <1>3, <2>1 DEF Excess
  <2>3. Excess(f) = 0
    BY <2>2 DEF Excess
  <2>4. QED
    BY <1>1, <2>1, <2>2, <2>3
<1>4. ASSUME Len(finished') < MaxFinished PROVE jobs' = 1 .. submitted'
  <2>1. Evicted(f) = {}
    BY <1>3, <1>4 DEF Evicted
  <2>2. QED
    BY <1>3, <1>4, <2>1 DEF Retire, Remembered, f
<1>5. QED
  BY <1>4 DEF Remembered

(* The invariant of the queue, a cancel that came first, an eviction: none *)
(* of it is undone by a later step.                                        *)
LEMMA QueueStep ==
  ASSUME QueueInv, [Next]_vars
  PROVE  /\ QueueInv'
         /\ submitted' \in Nat /\ submitted <= submitted'
         /\ \A j \in 1 .. submitted :
              /\ state[j] \in FinishedStates => state'[j] = state[j]
              /\ j \notin jobs => j \notin jobs'
<1> USE DEF fields, thread
<1>1. TypeOK /\ IInv' /\ History'
  BY NextIInv, NextHistory DEF QueueInv, IInv
<1>2. Remembered' /\ submitted <= submitted' /\ \A j \in 1 .. submitted : j \notin jobs => j \notin jobs'
  <2>1. ASSUME NEW i \in Jobs, Register(i)
        PROVE  /\ Remembered' /\ submitted <= submitted'
               /\ \A j \in 1 .. submitted : j \notin jobs => j \notin jobs'
    <3>1. submitted \in Nat /\ submitted' = submitted + 1
      BY <1>1, <2>1 DEF Register, TypeOK
    <3>2. jobs' = jobs \cup {submitted + 1} /\ UNCHANGED finished
      BY <2>1 DEF Register
    <3>3. QED
      BY <3>1, <3>2 DEF Remembered, QueueInv
  <2>2. ASSUME NEW i \in Jobs, Retire(i), UNCHANGED submitted
        PROVE  Remembered' /\ jobs' \subseteq jobs
    BY <2>2, RetireRemembered DEF QueueInv, Retire
  <2>3. CASE (\E i \in Jobs : Cancel(i)) \/ Finish
    <3>1. UNCHANGED submitted /\ submitted <= submitted'
      BY <1>1, <2>3 DEF Cancel, Finish, TypeOK
    <3>2. CASE \E i \in Jobs : Cancel(i)
      BY <2>2, <3>1, <3>2 DEF Cancel, QueueInv, Remembered, store
    <3>3. CASE Finish
      <4>1. current \in Jobs
        BY <3>3 DEF Finish, QueueInv, IInv, WorkerLocals, TypeOK
      <4>2. QED
        BY <2>2, <3>1, <3>3, <4>1 DEF Finish
    <3>4. QED
      BY <2>3, <3>2, <3>3
  <2>4. CASE UNCHANGED <<submitted, store>>
    BY <1>1, <2>4 DEF store, QueueInv, Remembered, TypeOK
  <2>5. QED
    BY <2>1, <2>3, <2>4 DEF Next, vars, WorkerStep, Submit, SubmitWithoutThread, Take, Skip, Start,
                            ExecuteEnds, ProgressCheck, ProgressWrite
<1>3. \A j \in 1 .. submitted : state[j] \in FinishedStates => state'[j] = state[j]
  <2>1. \A j \in 1 .. submitted : j \in Jobs
    BY <1>1, JobQueueAssumption DEF TypeOK, Jobs
  <2>2. QED
    BY <2>1, OverStep DEF QueueInv
<1>4. QED
  BY <1>1, <1>2, <1>3 DEF QueueInv, IInv, TypeOK

(* A job that has arrived and is unknown now is over, and as many jobs as  *)
(* the history holds have ended since.                                     *)
LEMMA UnknownIsForgotten ==
  ASSUME QueueInv, NEW j \in 1 .. submitted, j \notin jobs
  PROVE  /\ state[j] \in FinishedStates
         /\ \A i \in DOMAIN finished : finished[i] # j
         /\ Len(finished) = MaxFinished
<1>1. TypeOK /\ j \in Jobs
  BY JobQueueAssumption DEF QueueInv, IInv, TypeOK, Jobs
<1>2. (\A i \in DOMAIN active : active[i] # j) /\ (\A i \in DOMAIN finished : finished[i] # j)
  BY DEF QueueInv, History, HistoryIsFull, Range
<1>3. state[j] \in FinishedStates
  <2>1. state[j] # "unsubmitted"
    BY <1>1 DEF QueueInv, IInv, Arrivals, TypeOK, Jobs
  <2>2. state[j] # "queued"
    BY <1>1, <1>2 DEF QueueInv, IInv, ActiveMembers
  <2>3. state[j] # "running"
    <3> SUFFICES ASSUME state[j] = "running" PROVE FALSE
      OBVIOUS
    <3>1. active # << >> /\ active[1] = j
      BY <1>1 DEF QueueInv, IInv, WorkerLocals, ActiveOrder
    <3>2. 1 \in DOMAIN active
      BY <1>1, <3>1 DEF TypeOK
    <3>3. QED
      BY <1>2, <3>1, <3>2
  <2>4. QED
    BY <1>1, <2>1, <2>2, <2>3 DEF TypeOK, States
<1>4. Len(finished) = MaxFinished
  <2>1. ~(Len(finished) < MaxFinished)
    BY DEF QueueInv, Remembered
  <2>2. QED
    BY <2>1 DEF QueueInv, History, HistoryIsFull
<1>5. QED
  BY <1>2, <1>3, <1>4

-------------------------------------------------------------------------------
(* That the queue implements the safety part of the service it promises    *)
(* (module JobService).                                                    *)
(*                                                                         *)
(* A submit is an arrival; the cancel of a queued job is a withdrawal, of  *)
(* a running job an abort; the worker begins a service when it finds its   *)
(* job still queued, and completes it in its last critical section.  What  *)
(* the worker does in between, and progress, is invisible.                 *)

(* Lists: `_active` and the line behind its head.                          *)

(* Taking the head out of a list that holds it once leaves the tail.       *)
LEMMA WithoutHead ==
  ASSUME NEW S, NEW s \in Seq(S), s # << >>,
         \A i \in 1 .. Len(s) : s[i] = s[1] => i = 1
  PROVE  Without(s, s[1]) = Tail(s)
<1>1. 1 \in 1 .. Len(s) /\ Len(s) \in Nat
  BY EmptySeq
<1>2. /\ Without(s, s[1]) \in Seq(S) /\ Len(Without(s, s[1])) = Len(s) - 1
      /\ \A i \in 1 .. Len(s) - 1 : Without(s, s[1])[i] = IF i < 1 THEN s[i] ELSE s[i + 1]
  BY <1>1, WithoutOnce
<1>3. /\ Tail(s) \in Seq(S) /\ Len(Tail(s)) = Len(s) - 1
      /\ \A i \in 1 .. Len(s) - 1 : Tail(s)[i] = s[i + 1]
  BY HeadTailProperties
<1>4. ASSUME NEW i \in 1 .. Len(s) - 1
      PROVE  Without(s, s[1])[i] = Tail(s)[i]
  <2>1. ~(i < 1)
    BY <1>1
  <2>2. QED
    BY <1>2, <1>3, <2>1
<1>5. QED
  BY <1>2, <1>3, <1>4, SeqEqual

(* Taking another element out commutes with dropping the head.             *)
LEMMA WithoutBehindHead ==
  ASSUME NEW S, NEW s \in Seq(S), NEW k \in 2 .. Len(s),
         \A i \in 1 .. Len(s) : s[i] = s[k] => i = k
  PROVE  Tail(Without(s, s[k])) = Without(Tail(s), s[k])
<1> DEFINE w == Without(s, s[k])
           t == Tail(s)
           v == Without(t, s[k])
<1>1. Len(s) \in Nat /\ k \in 1 .. Len(s) /\ k - 1 \in 1 .. Len(s) - 1 /\ s # << >>
  BY EmptySeq
<1>2. /\ w \in Seq(S) /\ Len(w) = Len(s) - 1
      /\ \A i \in 1 .. Len(s) - 1 : w[i] = IF i < k THEN s[i] ELSE s[i + 1]
  BY <1>1, WithoutOnce
<1>3. /\ t \in Seq(S) /\ Len(t) = Len(s) - 1
      /\ \A i \in 1 .. Len(s) - 1 : t[i] = s[i + 1]
  BY <1>1, HeadTailProperties
<1> HIDE DEF t
<1>4. t[k - 1] = s[k] /\ \A i \in 1 .. Len(t) : t[i] = t[k - 1] => i = k - 1
  <2>1. t[k - 1] = s[k]
    BY <1>1, <1>3
  <2>2. ASSUME NEW i \in 1 .. Len(s) - 1, t[i] = s[k]
        PROVE  i = k - 1
    <3>1. s[i + 1] = s[k] /\ i + 1 \in 1 .. Len(s)
      BY <1>1, <1>3, <2>2
    <3>2. QED
      BY <3>1
  <2>3. QED
    BY <1>3, <2>1, <2>2
<1>5. /\ v \in Seq(S) /\ Len(v) = Len(s) - 2
      /\ \A i \in 1 .. Len(s) - 2 : v[i] = IF i < k - 1 THEN t[i] ELSE t[i + 1]
  <2>1. k - 1 \in 1 .. Len(t)
    BY <1>1, <1>3
  <2>2. /\ Without(t, t[k - 1]) \in Seq(S) /\ Len(Without(t, t[k - 1])) = Len(t) - 1
        /\ \A i \in 1 .. Len(t) - 1 :
             Without(t, t[k - 1])[i] = IF i < k - 1 THEN t[i] ELSE t[i + 1]
    BY <1>3, <1>4, <2>1, WithoutOnce
  <2>3. QED
    BY <1>1, <1>3, <1>4, <2>2
<1> HIDE DEF w, v
<1>6. w # << >>
  BY <1>1, <1>2
<1>7. /\ Tail(w) \in Seq(S) /\ Len(Tail(w)) = Len(s) - 2
      /\ \A i \in 1 .. Len(s) - 2 : Tail(w)[i] = w[i + 1]
  <2>1. /\ Tail(w) \in Seq(S) /\ Len(Tail(w)) = Len(w) - 1
        /\ \A i \in 1 .. Len(Tail(w)) : Tail(w)[i] = w[i + 1]
    BY <1>2, <1>6, HeadTailProperties
  <2>2. QED
    BY <1>1, <1>2, <2>1
<1>8. ASSUME NEW i \in 1 .. Len(s) - 2
      PROVE  Tail(w)[i] = v[i]
  <2>1. i \in 1 .. Len(s) - 1 /\ i + 1 \in 1 .. Len(s) - 1
    BY <1>1
  <2>2. Tail(w)[i] = IF i + 1 < k THEN s[i + 1] ELSE s[i + 1 + 1]
    BY <1>2, <1>7, <2>1
  <2>3. v[i] = IF i < k - 1 THEN s[i + 1] ELSE s[i + 1 + 1]
    BY <1>3, <1>5, <2>1
  <2>4. i + 1 < k <=> i < k - 1
    BY <1>1
  <2>5. QED
    BY <2>2, <2>3, <2>4
<1>9. Tail(w) = v
  BY <1>5, <1>7, <1>8, SeqEqual
<1>10. QED
  BY <1>9 DEF w, v, t

-------------------------------------------------------------------------------
(* The service removes from its line as the queue does from its list.      *)
LEMMA SameRemoval ==
  ASSUME NEW s, NEW e
  PROVE  Service!RemoveFirst(s, e) = RemoveFirst(s, e)
BY DEF Service!RemoveFirst, RemoveFirst, Service!RemoveAt, RemoveAt,
       Service!SelectInSeq, SelectInSeq, Service!Min, Min

(* The thread is started by the first submit, and only by that one.        *)
Unmanned == worker = "unstarted" => submitted = 0

LEMMA UnmannedInv == Spec => []Unmanned
<1>1. Init => Unmanned
  BY DEF Init, Unmanned
<1>2. Unmanned /\ [Next]_vars => Unmanned'
  BY DEF Unmanned, Next, vars, thread, Submit, SubmitWithoutThread, Register, Cancel, WorkerStep,
         Take, Skip, Start, ExecuteEnds, Finish, ProgressCheck, ProgressWrite
<1>3. QED
  BY <1>1, <1>2, PTL DEF Spec

(* `_active` in the terms of the service.                                  *)
LEMMA ActiveShape ==
  ASSUME IInv
  PROVE  /\ active \in Seq(Jobs)
         /\ DOMAIN active = 1 .. Len(active)
         /\ Serving => active # << >> /\ active[1] = current /\ current \in Jobs
         /\ \A i, k \in 1 .. Len(active) : active[i] = active[k] => i = k
<1>1. active \in Seq(Jobs) /\ DOMAIN active = 1 .. Len(active)
  BY DEF IInv, TypeOK
<1>2. Serving => active # << >> /\ active[1] = current /\ current \in Jobs
  BY DEF IInv, TypeOK, ActiveOrder, WorkerLocals, Serving, NoJob
<1>3. ASSUME NEW i \in 1 .. Len(active), NEW k \in 1 .. Len(active), active[i] = active[k], i # k
      PROVE  FALSE
  <2>1. active[i] \in Jobs /\ active[k] \in Jobs
    BY <1>1
  <2>2. i < k \/ k < i
    BY <1>3
  <2>3. active[i] < active[k] \/ active[k] < active[i]
    BY <1>1, <2>2 DEF IInv, ActiveOrder
  <2>4. QED
    BY <1>3, <2>1, <2>3 DEF Jobs
<1>4. QED
  BY <1>1, <1>2, <1>3

-------------------------------------------------------------------------------
(* Every step of the queue is a step of the service, or none.              *)

LEMMA InitService == Init => Service!Init
BY DEF Init, Service!Init, Serving

LEMMA ArriveService ==
  ASSUME IInv, Unmanned, NEW j \in Jobs, Submit(j) \/ SubmitWithoutThread(j)
  PROVE  Service!Arrive(j)
<1>1. Register(j) /\ TypeOK
  BY DEF Submit, SubmitWithoutThread, IInv
<1>2. state[j] = "unsubmitted"
  BY <1>1 DEF IInv, Arrivals, Register, TypeOK, Jobs
<1>3. (Serving' <=> Serving) /\ current' = current
  BY <1>1 DEF Submit, SubmitWithoutThread, Register, Serving
<1>4. (IF Serving' THEN Tail(active') ELSE active')
        = Append(IF Serving THEN Tail(active) ELSE active, j)
  <2>1. active' = Append(active, j)
    BY <1>1 DEF Register, Enlisted
  <2>2. CASE Serving
    BY <1>3, <2>1, <2>2, ActiveShape, TailOfAppend
  <2>3. CASE ~Serving
    BY <1>3, <2>1, <2>3
  <2>4. QED
    BY <2>2, <2>3
<1>5. \/ (worker' # "dead") = (worker # "dead")
      \/ (\A i \in Jobs : state[i] = "unsubmitted") /\ (worker' # "dead") = FALSE
  <2>1. CASE Submit(j)
    BY <2>1 DEF Submit
  <2>2. CASE SubmitWithoutThread(j)
    <3>1. submitted = 0 /\ worker' = "dead"
      BY <2>2 DEF SubmitWithoutThread, Unmanned
    <3>2. \A i \in Jobs : state[i] = "unsubmitted"
      BY <3>1 DEF IInv, Arrivals, Jobs
    <3>3. QED
      BY <3>1, <3>2
  <2>3. QED
    BY <2>1, <2>2
<1>6. state' = [state EXCEPT ![j] = "queued"]
  BY <1>1 DEF Register
<1>7. QED
  BY <1>2, <1>3, <1>4, <1>5, <1>6 DEF Service!Arrive

LEMMA CancelService ==
  ASSUME IInv, NEW j \in Jobs, Cancel(j)
  PROVE  Service!Withdraw(j) \/ Service!Abort
<1> USE DEF Cancel, thread
<1>1. /\ state' = [state EXCEPT ![j] = "cancelled"]
      /\ UNCHANGED <<worker, current>>
      /\ Serving' <=> Serving
  BY DEF Serving
<1>2. CASE state[j] = "queued"
  <2>1. active' = Without(active, j)
    BY <1>2
  <2>2. CASE Serving
    <3>1. PICK k \in 1 .. Len(active) : active[k] = j
      BY <1>2, ActiveShape DEF IInv, ActiveMembers
    <3>2. k # 1
      BY <1>2, <2>2, <3>1, ActiveShape DEF IInv, WorkerLocals
    <3>3. k \in 2 .. Len(active)
      BY <3>2
    <3>4. Tail(Without(active, active[k])) = Without(Tail(active), active[k])
      BY <3>3, ActiveShape, WithoutBehindHead
    <3>5. QED
      BY <1>1, <1>2, <2>1, <2>2, <3>1, <3>4, SameRemoval DEF Service!Withdraw, Without
  <2>3. CASE ~Serving
    BY <1>1, <1>2, <2>1, <2>3, SameRemoval DEF Service!Withdraw, Without
  <2>4. QED
    BY <2>2, <2>3
<1>3. CASE state[j] # "queued"
  <2>1. state[j] = "running" /\ UNCHANGED active
    BY <1>3 DEF IInv, Arrivals, TypeOK, Jobs, States, Cancellable, store
  <2>2. Serving /\ current = j /\ current # NoJob
    BY <2>1 DEF IInv, WorkerLocals, Jobs, NoJob
  <2>3. QED
    BY <1>1, <2>1, <2>2 DEF Service!Abort
<1>4. QED
  BY <1>2, <1>3

LEMMA StartService == ASSUME IInv, Start PROVE Service!Begin
<1>1. active # << >> /\ active[1] = current /\ current # NoJob
  BY HandIsFirst DEF Start, IInv, WorkerLocals
<1>2. Head(active) = current
  BY <1>1, ActiveShape
<1>3. ~Serving /\ Serving' /\ worker # "dead" /\ worker' # "dead"
  BY DEF Start, Serving
<1>4. UNCHANGED <<active, current>> /\ state' = [state EXCEPT ![current] = "running"]
  BY DEF Start, store
<1>5. QED
  BY <1>1, <1>2, <1>3, <1>4 DEF Service!Begin

LEMMA FinishService == ASSUME IInv, Finish PROVE Service!Complete
<1>1. Serving /\ ~Serving' /\ worker # "dead" /\ worker' # "dead" /\ current # NoJob
  BY DEF Finish, Serving, IInv, WorkerLocals
<1>2. active' = Tail(active)
  <2>1. active' = Without(active, active[1]) /\ active # << >>
    BY <1>1, ActiveShape DEF Finish
  <2>2. 1 \in 1 .. Len(active)
    BY <2>1, ActiveShape, EmptySeq
  <2>3. \A i \in 1 .. Len(active) : active[i] = active[1] => i = 1
    BY <2>2, ActiveShape
  <2>4. QED
    BY <2>1, <2>3, ActiveShape, WithoutHead
<1>3. \/ /\ state[current] = "running"
         /\ \E s \in {"done", "failed"} : state' = [state EXCEPT ![current] = s]
      \/ state[current] = "cancelled" /\ UNCHANGED state
  <2>1. state[current] \in {"running", "cancelled"}
    BY <1>1 DEF IInv, WorkerLocals
  <2>2. QED
    BY <2>1 DEF Finish, Publish
<1>4. QED
  BY <1>1, <1>2, <1>3 DEF Service!Complete

(* Steps the service does not see.                                         *)
LEMMA UnseenByService ==
  ASSUME UNCHANGED <<state, active>>,
         Serving' <=> Serving, Serving => current' = current,
         worker' # "dead" <=> worker # "dead"
  PROVE  UNCHANGED Service!vars
BY DEF Service!vars

LEMMA NextService == IInv /\ Unmanned /\ [Next]_vars => [Service!Next]_(Service!vars)
<1> SUFFICES ASSUME IInv, Unmanned, [Next]_vars
             PROVE  Service!Next \/ UNCHANGED Service!vars
  OBVIOUS
<1>1. ASSUME NEW j \in Jobs, Submit(j) \/ SubmitWithoutThread(j) PROVE Service!Next
  BY <1>1, ArriveService DEF Service!Next
<1>2. ASSUME NEW j \in Jobs, Cancel(j) PROVE Service!Next
  BY <1>2, CancelService DEF Service!Next
<1>3. CASE Start
  BY <1>3, StartService DEF Service!Next
<1>4. CASE Finish
  BY <1>4, FinishService DEF Service!Next
<1>5. CASE \/ Take \/ Skip \/ \E o \in Outcomes : ExecuteEnds(o)
           \/ \E p \in Pumps, j \in Jobs : ProgressCheck(p, j)
           \/ \E p \in Pumps, step \in 1 .. MaxSteps : ProgressWrite(p, step)
           \/ UNCHANGED vars
  <2>1. /\ UNCHANGED <<state, active>>
        /\ Serving' <=> Serving
        /\ Serving => current' = current
        /\ worker' # "dead" <=> worker # "dead"
    BY <1>5 DEF Take, Skip, ExecuteEnds, ProgressCheck, ProgressWrite, vars, store, fields, thread,
                Serving
  <2>2. QED
    BY <2>1, UnseenByService
<1>6. QED
  BY <1>1, <1>2, <1>3, <1>4, <1>5 DEF Next, WorkerStep

(* The queue, with its threads, its three lists and its early returns, is  *)
(* one line served in order of arrival, one job at a time, that waiting    *)
(* jobs may leave: for any number of jobs and pumps, whether or not the    *)
(* worker thread could be started.  (That it goes on serving is liveness,  *)
(* the rest of ImplementsService.)                                         *)
THEOREM QueueImplementsService == Spec => Service!Safety
<1>1. Init => Service!Init
  BY InitService
<1>2. IInv /\ Unmanned /\ [Next]_vars => [Service!Next]_(Service!vars)
  BY NextService
<1>3. QED
  BY <1>1, <1>2, Invariance, UnmannedInv, PTL DEF Spec, Service!Safety

===============================================================================
