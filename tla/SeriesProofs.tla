----------------------------- MODULE SeriesProofs -----------------------------
(***************************************************************************)
(* Proofs about the photo series (module Series).                          *)
(***************************************************************************)
EXTENDS Series, SequenceTheorems, TLAPS

-------------------------------------------------------------------------------
(* The inductive invariant.                                                *)

(* A record that is in its place: `done` exactly with an image of its shot. *)
Fits(r, k) ==
  /\ r.index = k
  /\ r.status = "done" <=> r.png # NoImage
  /\ r.status = "done" => r.png.shot = k /\ r.planned

Truthful(records) == \A k \in DOMAIN records : Fits(records[k], k)

(* The planned shots are a prefix.                                         *)
PlannedUpTo(records, m) == \A k \in DOMAIN records : records[k].planned <=> k <= m
Prefix(records) == \E m \in 0 .. Len(records) : PlannedUpTo(records, m)

There(records) == \A k \in DOMAIN records : records[k].status = "done" => records[k].png \in images

AllDone(records) == \A k \in DOMAIN records : records[k].status = "done"

(* What series.json says at any time.                                      *)
Manifest ==
  /\ Truthful(saved)
  /\ Prefix(saved)
  /\ pc # "idle" => There(saved)

(* A shot that is kept has its image, and needs no plan.                   *)
Kept ==
  pc # "idle" => \A r \in done : Fits(r, r.index) /\ r.status = "done"
                                 /\ r.png \in images /\ r.index <= known

(* The records of the loop are numbered without a gap up to the shot it is *)
(* at, all of them planned, and the exit code is 0 as long as all of them  *)
(* are done; a series that stops has a record that is not.                 *)
Loop ==
  pc # "idle" =>
    /\ run > 0 /\ seed \in Seeds
    /\ Truthful(shots) /\ There(shots)
    /\ pc = "stopping" => Len(shots) <= Count /\ Prefix(shots) /\ exit = 1 /\ ~AllDone(shots)
    /\ pc # "stopping" => \A k \in DOMAIN shots : shots[k].planned
    /\ pc # "stopping" => (exit = 0 <=> AllDone(shots))
    /\ pc = "planning" => Len(shots) = index
    /\ pc \in {"rendering", "rendered"} => Len(shots) + 1 = index
    /\ pc = "rendered" /\ Rendered => image.shot = index /\ image \in images

IInv ==
  /\ TypeOK
  /\ Manifest
  /\ Kept
  /\ Loop
  /\ ExitTellsTheTruth

-------------------------------------------------------------------------------
(* Records and lists of them.                                              *)

LEMMA RecordType ==
  ASSUME NEW i \in Shots, NEW status \in {"done", "failed", "skipped"},
         NEW planned \in BOOLEAN, NEW png \in Images \cup {NoImage}
  PROVE  Record(i, status, planned, png) \in Records
BY DEF Record, Records

LEMMA NoImageIsNone == NoImage \notin Images
BY DEF NoImage, Images, Shots

LEMMA EmptyList ==
  /\ << >> \in Seq(Records) /\ Truthful(<< >>) /\ Prefix(<< >>) /\ There(<< >>)
  /\ AllDone(<< >>) /\ Finished(<< >>) = {}
BY DEF Truthful, Prefix, PlannedUpTo, There, AllDone, Finished, Range

(* What a list with one more record is.                                    *)
LEMMA OneMore ==
  ASSUME NEW s \in Seq(Records), NEW r \in Records
  PROVE  /\ Append(s, r) \in Seq(Records)
         /\ Len(Append(s, r)) = Len(s) + 1
         /\ Len(s) \in Nat
         /\ DOMAIN s = 1 .. Len(s)
         /\ DOMAIN Append(s, r) = 1 .. Len(s) + 1
         /\ \A k \in DOMAIN s : Append(s, r)[k] = s[k] /\ s[k] \in Records
         /\ Append(s, r)[Len(s) + 1] = r
<1>1. /\ Append(s, r) \in Seq(Records) /\ Len(Append(s, r)) = Len(s) + 1
      /\ \A k \in 1 .. Len(s) : Append(s, r)[k] = s[k]
      /\ Append(s, r)[Len(s) + 1] = r
  BY AppendProperties
<1>2. \A k \in 1 .. Len(s) : s[k] \in Records
  BY ElementOfSeq
<1>3. QED
  BY <1>1, <1>2

LEMMA TruthfulAppend ==
  ASSUME NEW s \in Seq(Records), NEW r \in Records, Truthful(s), Fits(r, Len(s) + 1)
  PROVE  Truthful(Append(s, r))
<1> DEFINE a == Append(s, r)
<1>1. /\ Len(s) \in Nat /\ DOMAIN s = 1 .. Len(s) /\ DOMAIN a = 1 .. Len(s) + 1
      /\ \A k \in DOMAIN s : a[k] = s[k]
      /\ a[Len(s) + 1] = r
  BY OneMore
<1> HIDE DEF a
<1>2. ASSUME NEW k \in DOMAIN a
      PROVE  Fits(a[k], k)
  <2>1. CASE k = Len(s) + 1
    BY <1>1, <2>1
  <2>2. CASE k # Len(s) + 1
    <3>1. k \in DOMAIN s
      BY <1>1, <2>2
    <3>2. QED
      BY <1>1, <3>1 DEF Truthful
  <2>3. QED
    BY <2>1, <2>2
<1>3. QED
  BY <1>2 DEF Truthful, a

(* A list all of whose records are planned but perhaps the last.           *)
LEMMA PrefixAppend ==
  ASSUME NEW s \in Seq(Records), NEW r \in Records, \A k \in DOMAIN s : s[k].planned
  PROVE  Prefix(Append(s, r))
<1> DEFINE a == Append(s, r)
           m == IF r.planned THEN Len(s) + 1 ELSE Len(s)
<1>1. /\ Len(s) \in Nat /\ DOMAIN s = 1 .. Len(s) /\ DOMAIN a = 1 .. Len(s) + 1
      /\ \A k \in DOMAIN s : a[k] = s[k]
      /\ a[Len(s) + 1] = r /\ Len(a) = Len(s) + 1
  BY OneMore
<1> HIDE DEF a
<1>2. ASSUME NEW k \in DOMAIN a
      PROVE  a[k].planned <=> k <= m
  <2>1. CASE k = Len(s) + 1
    BY <1>1, <2>1
  <2>2. CASE k # Len(s) + 1
    <3>1. k \in DOMAIN s
      BY <1>1, <2>2
    <3>2. a[k].planned
      BY <1>1, <3>1
    <3>3. k <= m
      BY <1>1, <3>1
    <3>4. QED
      BY <3>2, <3>3
  <2>3. QED
    BY <2>1, <2>2
<1>3. m \in 0 .. Len(a)
  BY <1>1
<1> HIDE DEF m
<1>4. QED
  BY <1>2, <1>3 DEF Prefix, PlannedUpTo, a

LEMMA AllPlannedIsPrefix ==
  ASSUME NEW s \in Seq(Records), \A k \in DOMAIN s : s[k].planned
  PROVE  Prefix(s)
<1>1. Len(s) \in 0 .. Len(s) /\ DOMAIN s = 1 .. Len(s)
  OBVIOUS
<1>2. \A k \in DOMAIN s : k <= Len(s)
  BY <1>1
<1>3. QED
  BY <1>1, <1>2 DEF Prefix, PlannedUpTo

(* PlannedPrefix counts the planned shots of a list in which they come     *)
(* first.                                                                  *)
LEMMA PlannedPrefixIs ==
  ASSUME NEW s \in Seq(Records), NEW m \in 0 .. Len(s), PlannedUpTo(s, m)
  PROVE  PlannedPrefix(s) = m
<1> DEFINE K == {k \in 0 .. Len(s) : \A i \in 1 .. k : s[i].planned}
<1>1. Len(s) \in Nat /\ DOMAIN s = 1 .. Len(s) /\ m \in Nat
  OBVIOUS
<1>2. m \in K
  <2>1. \A i \in 1 .. m : i \in DOMAIN s /\ i <= m
    BY <1>1
  <2>2. QED
    BY <2>1 DEF PlannedUpTo
<1>3. \A k \in K : k \in Nat /\ m >= k
  <2> SUFFICES ASSUME NEW k \in K, ~(m >= k) PROVE FALSE
    BY <1>1
  <2>1. k \in DOMAIN s /\ k \in 1 .. k
    BY <1>1
  <2>2. s[k].planned
    BY <2>1
  <2>3. QED
    BY <1>1, <2>1, <2>2 DEF PlannedUpTo
<1>4. PlannedPrefix(s) = Max(K)
  BY DEF PlannedPrefix
<1> HIDE DEF K
<1>5. Max(K) = m
  <2>1. Max(K) \in K /\ \A y \in K : Max(K) >= y
    BY <1>2, <1>3 DEF Max
  <2>2. Max(K) \in Nat /\ m >= Max(K)
    BY <1>3, <2>1
  <2>3. Max(K) >= m
    BY <1>2, <2>1
  <2>4. QED
    BY <1>1, <2>2, <2>3
<1>6. QED
  BY <1>4, <1>5

(* The skipped records of a series that stops fill it up.                  *)
LEMMA FilledUp ==
  ASSUME NEW s \in Seq(Records), Len(s) <= Count
  PROVE  /\ WithSkipped(s) \in Seq(Records)
         /\ Len(WithSkipped(s)) = Count
         /\ DOMAIN WithSkipped(s) = 1 .. Count
         /\ \A k \in 1 .. Count :
              WithSkipped(s)[k] =
                IF k <= Len(s) THEN s[k] ELSE Record(k, "skipped", FALSE, NoImage)
<1> DEFINE t == [n \in 1 .. Count - Len(s) |-> Record(Len(s) + n, "skipped", FALSE, NoImage)]
<1>1. Len(s) \in Nat /\ Count \in Nat
  BY SeriesAssumption
<1>2. \A n \in 1 .. Count - Len(s) : Record(Len(s) + n, "skipped", FALSE, NoImage) \in Records
  <2> TAKE n \in 1 .. Count - Len(s)
  <2>1. Len(s) + n \in Shots
    BY <1>1 DEF Shots
  <2>2. QED
    BY <2>1, RecordType
<1>3. t \in Seq(Records) /\ Len(t) = Count - Len(s)
  <2>1. Count - Len(s) \in Nat
    BY <1>1
  <2> DEFINE N == Count - Len(s)
  <2>2. t = [n \in 1 .. N |-> t[n]] /\ \A n \in 1 .. N : t[n] \in Records
    BY <1>2
  <2> HIDE DEF t, N
  <2>3. t \in Seq(Records) /\ Len(t) = N
    BY <2>1, <2>2 DEF N
  <2>4. QED
    BY <2>3 DEF N
<1>4. \A n \in 1 .. Count - Len(s) : t[n] = Record(Len(s) + n, "skipped", FALSE, NoImage)
  OBVIOUS
<1>5. WithSkipped(s) = s \o t
  BY DEF WithSkipped
<1> HIDE DEF t
<1>6. /\ s \o t \in Seq(Records) /\ Len(s \o t) = Len(s) + Len(t)
      /\ \A i \in 1 .. Len(s) + Len(t) :
           (s \o t)[i] = IF i <= Len(s) THEN s[i] ELSE t[i - Len(s)]
  BY <1>3, ConcatProperties
<1>7. ASSUME NEW k \in 1 .. Count
      PROVE  (s \o t)[k] = IF k <= Len(s) THEN s[k] ELSE Record(k, "skipped", FALSE, NoImage)
  <2>1. CASE k <= Len(s)
    BY <1>1, <1>3, <1>6, <2>1
  <2>2. CASE ~(k <= Len(s))
    <3>1. k - Len(s) \in 1 .. Count - Len(s) /\ Len(s) + (k - Len(s)) = k
      BY <1>1, <2>2
    <3>2. (s \o t)[k] = t[k - Len(s)]
      BY <1>1, <1>3, <1>6, <2>2
    <3>3. QED
      BY <1>4, <2>2, <3>1, <3>2
  <2>3. QED
    BY <2>1, <2>2
<1>8. Len(s \o t) = Count /\ DOMAIN (s \o t) = 1 .. Count
  BY <1>1, <1>3, <1>6
<1>9. QED
  BY <1>5, <1>6, <1>7, <1>8

(* ... and neither lie nor plan anything.                                  *)
LEMMA FilledUpIsTruthful ==
  ASSUME NEW s \in Seq(Records), Len(s) <= Count, Truthful(s), Prefix(s), ~AllDone(s)
  PROVE  Truthful(WithSkipped(s)) /\ Prefix(WithSkipped(s)) /\ ~AllDone(WithSkipped(s))
<1> DEFINE w == WithSkipped(s)
<1>1. /\ Len(w) = Count /\ DOMAIN w = 1 .. Count
      /\ \A k \in 1 .. Count :
           w[k] = IF k <= Len(s) THEN s[k] ELSE Record(k, "skipped", FALSE, NoImage)
  BY FilledUp
<1>2. Len(s) \in Nat /\ DOMAIN s = 1 .. Len(s) /\ Count \in Nat
  BY SeriesAssumption
<1> HIDE DEF w
<1>3. Truthful(w)
  <2> SUFFICES ASSUME NEW k \in 1 .. Count PROVE Fits(w[k], k)
    BY <1>1 DEF Truthful
  <2>1. CASE k <= Len(s)
    <3>1. k \in DOMAIN s
      BY <1>2, <2>1
    <3>3. w[k] = s[k]
      BY <1>1, <2>1
    <3>2. QED
      BY <3>1, <3>3 DEF Truthful
  <2>2. CASE ~(k <= Len(s))
    BY <1>1, <2>2 DEF Fits, Record
  <2>3. QED
    BY <2>1, <2>2
<1>4. PICK m \in 0 .. Len(s) : PlannedUpTo(s, m)
  BY DEF Prefix
<1>5. m \in 0 .. Len(w)
  BY <1>1, <1>2
<1>6. PlannedUpTo(w, m)
  <2> SUFFICES ASSUME NEW k \in 1 .. Count PROVE w[k].planned <=> k <= m
    BY <1>1 DEF PlannedUpTo
  <2>1. CASE k <= Len(s)
    <3>1. k \in DOMAIN s
      BY <1>2, <2>1
    <3>3. w[k] = s[k]
      BY <1>1, <2>1
    <3>2. QED
      BY <1>4, <3>1, <3>3 DEF PlannedUpTo
  <2>2. CASE ~(k <= Len(s))
    <3>1. ~w[k].planned
      BY <1>1, <2>2 DEF Record
    <3>2. ~(k <= m)
      BY <1>2, <2>2
    <3>3. QED
      BY <3>1, <3>2
  <2>3. QED
    BY <2>1, <2>2
<1>7. ~AllDone(w)
  <2>1. PICK k \in DOMAIN s : s[k].status # "done"
    BY DEF AllDone
  <2>2. k \in DOMAIN w /\ w[k] = s[k]
    <3>1. k \in 1 .. Len(s)
      BY <1>2, <2>1
    <3>2. k \in 1 .. Count /\ k <= Len(s)
      BY <1>2, <3>1
    <3>3. QED
      BY <1>1, <3>2
  <2>3. QED
    BY <2>1, <2>2 DEF AllDone
<1>8. QED
  BY <1>3, <1>5, <1>6, <1>7 DEF Prefix, w

(* Writing a truthful list records images only.                            *)
LEMMA WriteImages ==
  ASSUME NEW s \in Seq(Records), Truthful(s)
  PROVE  {r.png : r \in Finished(s)} \subseteq Images
<1> SUFFICES ASSUME NEW r \in Finished(s) PROVE r.png \in Images
  OBVIOUS
<1>1. PICK k \in DOMAIN s : r = s[k] /\ r.status = "done"
  BY DEF Finished, Range
<1>2. r \in Records
  BY <1>1, ElementOfSeq
<1>3. QED
  BY <1>1, <1>2 DEF Truthful, Fits, Records

-------------------------------------------------------------------------------
(* The steps.                                                              *)

LEMMA InitIInv == Init => IInv
<1> SUFFICES ASSUME Init PROVE IInv
  OBVIOUS
<1> USE SeriesAssumption DEF Init
<1>1. TypeOK
  <2>1. << >> \in Seq(Records)
    BY EmptyList
  <2>2. hasPlan \in BOOLEAN /\ keepGoing \in BOOLEAN
    OBVIOUS
  <2>3. run \in 0 .. MaxRuns /\ known \in 0 .. Count /\ index \in 0 .. Count
    OBVIOUS
  <2>4. images \subseteq Images /\ recorded \subseteq Images /\ done \subseteq Records
    OBVIOUS
  <2>5. QED
    BY <2>1, <2>2, <2>3, <2>4 DEF TypeOK
<1>2. Manifest
  BY EmptyList DEF Manifest
<1>3. Kept /\ Loop /\ ExitTellsTheTruth
  BY DEF Kept, Loop, ExitTellsTheTruth
<1>4. QED
  BY <1>1, <1>2, <1>3 DEF IInv

(* What a resumed run keeps fits, and is planned: a saved plan is whole,   *)
(* and a shot that is done is within the prefix of planned ones.           *)
LEMMA ResumedIsKept ==
  ASSUME IInv, NEW r \in Done
  PROVE  /\ r \in Records /\ Fits(r, r.index) /\ r.status = "done" /\ r.png \in images
         /\ r.index <= Count /\ r.index <= PlannedPrefix(saved)
         /\ PlannedPrefix(saved) \in 0 .. Count
<1>1. PICK k \in DOMAIN saved : r = saved[k] /\ r.status = "done" /\ r.png \in images
  BY DEF Done, Finished, Range
<1>2. saved \in Seq(Records) /\ r \in Records
  <2>1. saved \in Seq(Records)
    BY DEF IInv, TypeOK
  <2>2. QED
    BY <1>1, <2>1, ElementOfSeq
<1>3. Fits(r, k)
  BY <1>1 DEF IInv, Manifest, Truthful
<1>4. PICK m \in 0 .. Len(saved) : PlannedUpTo(saved, m)
  BY DEF IInv, Manifest, Prefix
<1>5. k <= m
  BY <1>1, <1>3, <1>4 DEF PlannedUpTo, Fits
<1>6. PlannedPrefix(saved) = m
  BY <1>2, <1>4, PlannedPrefixIs
<1>7. r.index \in Shots
  BY <1>2 DEF Records
<1>8. m <= Count
  <2>1. Len(saved) <= Count
    <3>1. CASE saved = << >>
      BY <3>1, SeriesAssumption
    <3>2. CASE saved # << >>
      <4>1. Len(saved) \in DOMAIN saved /\ saved[Len(saved)] \in Records
        BY <1>2, <3>2
      <4>2. saved[Len(saved)].index = Len(saved)
        BY <4>1 DEF IInv, Manifest, Truthful, Fits
      <4>3. QED
        BY <4>1, <4>2, SeriesAssumption DEF Records, Shots
    <3>3. QED
      BY <3>1, <3>2
  <2>2. QED
    BY <1>2, <2>1, SeriesAssumption
<1>9. QED
  BY <1>1, <1>2, <1>3, <1>4, <1>5, <1>6, <1>7, <1>8 DEF Fits, Shots

LEMMA PrefixType ==
  ASSUME IInv
  PROVE  PlannedPrefix(saved) \in 0 .. Count
<1>1. saved \in Seq(Records)
  BY DEF IInv, TypeOK
<1>2. PICK m \in 0 .. Len(saved) : PlannedUpTo(saved, m)
  BY DEF IInv, Manifest, Prefix
<1>3. PlannedPrefix(saved) = m
  BY <1>1, <1>2, PlannedPrefixIs
<1>4. Len(saved) <= Count
  <2>1. CASE saved = << >>
    BY <2>1, SeriesAssumption
  <2>2. CASE saved # << >>
    <3>1. Len(saved) \in DOMAIN saved /\ saved[Len(saved)] \in Records
      BY <1>1, <2>2
    <3>2. saved[Len(saved)].index = Len(saved)
      BY <3>1 DEF IInv, Manifest, Truthful, Fits
    <3>3. QED
      BY <3>1, <3>2, SeriesAssumption DEF Records, Shots
  <2>3. QED
    BY <2>1, <2>2
<1>5. QED
  BY <1>1, <1>2, <1>3, <1>4, SeriesAssumption

LEMMA BeginIInv ==
  ASSUME IInv, NewSeries \/ \E fromPlan \in BOOLEAN : Resume(fromPlan)
  PROVE  IInv'
<1> USE SeriesAssumption
<1>1. /\ Begin /\ TypeOK /\ pc = "idle"
      /\ run' = run + 1 /\ run \in Nat /\ run < MaxRuns
      /\ saved' = << >> /\ shots' = << >> /\ pc' = "planning" /\ index' = 0 /\ exit' = 0
      /\ image' = NoImage /\ ended' = "none" /\ savedSeed' = seed'
      /\ UNCHANGED <<images, hasPlan>>
      /\ recorded' = recorded \cup {r.png : r \in Finished(<< >>)}
  BY DEF IInv, NewSeries, Resume, Begin, Write, TypeOK
<1>2. recorded' = recorded
  BY <1>1, EmptyList
<1>3. keepGoing' \in BOOLEAN
  BY <1>1 DEF Begin
<1>4. seed' \in Seeds /\ known' \in 0 .. Count /\ done' \subseteq Records
      /\ \A r \in done' : Fits(r, r.index) /\ r.status = "done" /\ r.png \in images
                           /\ r.index <= known'
  <2>1. CASE NewSeries
    BY <2>1 DEF NewSeries
  <2>2. ASSUME NEW fromPlan \in BOOLEAN, Resume(fromPlan)
        PROVE  seed' \in Seeds /\ known' \in 0 .. Count /\ done' \subseteq Records
               /\ \A r \in done' : Fits(r, r.index) /\ r.status = "done" /\ r.png \in images
                                    /\ r.index <= known'
    <3>1. savedSeed \in Seeds /\ seed' = savedSeed
      BY <1>1, <2>2 DEF Resume, TypeOK
    <3>2. done' = Done /\ known' \in {Count, PlannedPrefix(saved)}
      BY <2>2 DEF Resume
    <3>3. known' \in 0 .. Count
      BY <3>2, PrefixType
    <3>4. QED
      BY <3>1, <3>2, <3>3, ResumedIsKept
  <2>3. QED
    BY <2>1, <2>2
<1>5. TypeOK'
  <2>1. << >> \in Seq(Records)
    BY EmptyList
  <2>2. run' \in 0 .. MaxRuns /\ index' \in 0 .. Count
    BY <1>1
  <2>3. hasPlan' \in BOOLEAN
    BY <1>1 DEF TypeOK
  <2>4. QED
    BY <1>1, <1>2, <1>3, <1>4, <2>1, <2>2, <2>3 DEF TypeOK
<1>6. Manifest'
  BY <1>1, EmptyList DEF Manifest, There
<1>7. Kept'
  BY <1>1, <1>4 DEF Kept
<1>8. Loop'
  BY <1>1, <1>4, EmptyList DEF Loop, There, AllDone, Truthful
<1>9. ExitTellsTheTruth'
  BY <1>1 DEF ExitTellsTheTruth
<1>10. QED
  BY <1>5, <1>6, <1>7, <1>8, <1>9 DEF IInv

(* The loop appends a record: what it was counts on from there.            *)
LEMMA NextShot ==
  ASSUME IInv, NEW r \in Records, pc # "idle", pc # "stopping",
         Fits(r, Len(shots) + 1), r.status = "done" => r.png \in images
  PROVE  LET s == Append(shots, r)
         IN  /\ s \in Seq(Records) /\ Len(s) = Len(shots) + 1
             /\ Truthful(s) /\ There(s) /\ Prefix(s)
             /\ AllDone(s) <=> AllDone(shots) /\ r.status = "done"
             /\ r.planned => \A k \in DOMAIN s : s[k].planned
<1> DEFINE s == Append(shots, r)
<1>1. /\ shots \in Seq(Records) /\ Truthful(shots) /\ There(shots)
      /\ \A k \in DOMAIN shots : shots[k].planned
  BY DEF IInv, TypeOK, Loop
<1>2. /\ s \in Seq(Records) /\ Len(s) = Len(shots) + 1 /\ Len(shots) \in Nat
      /\ DOMAIN shots = 1 .. Len(shots) /\ DOMAIN s = 1 .. Len(shots) + 1
      /\ \A k \in DOMAIN shots : s[k] = shots[k]
      /\ s[Len(shots) + 1] = r
  BY <1>1, OneMore
<1>3. Truthful(s)
  BY <1>1, TruthfulAppend
<1>4. Prefix(s)
  BY <1>1, PrefixAppend
<1> HIDE DEF s
<1>5. \A k \in DOMAIN s : k \in DOMAIN shots \/ k = Len(shots) + 1
  BY <1>2
<1>6. \A k \in DOMAIN shots : k \in DOMAIN s
  BY <1>2
<1>7. Len(shots) + 1 \in DOMAIN s
  BY <1>2
<1>8. There(s)
  BY <1>1, <1>2, <1>5 DEF There
<1>9. AllDone(s) <=> AllDone(shots) /\ r.status = "done"
  BY <1>2, <1>5, <1>6, <1>7 DEF AllDone
<1>10. r.planned => \A k \in DOMAIN s : s[k].planned
  BY <1>1, <1>2, <1>5
<1>11. QED
  BY <1>2, <1>3, <1>4, <1>8, <1>9, <1>10 DEF s

LEMMA PlanIInv == ASSUME IInv, SceneInvalid \/ GemmaFails PROVE IInv'
<1> USE SeriesAssumption DEF disk, given, locals
<1>1. CASE SceneInvalid
  <2> DEFINE r == Record(Upcoming, "failed", FALSE, NoImage)
  <2>1. /\ pc = "planning" /\ pc' = "stopping" /\ exit' = 1 /\ shots' = Append(shots, r)
        /\ UNCHANGED <<disk, given, index, image, ended>>
        /\ Len(shots) = index /\ index \in Nat /\ index + 1 <= Count
    BY <1>1 DEF SceneInvalid, MustPlan, HasNext, Upcoming, IInv, TypeOK, Loop
  <2>2. r \in Records
    <3>1. Upcoming \in Shots
      BY <2>1 DEF Upcoming, Shots
    <3>2. NoImage \in Images \cup {NoImage} /\ FALSE \in BOOLEAN
      OBVIOUS
    <3>3. QED
      BY <3>1, <3>2, RecordType
  <2>3. Fits(r, Len(shots) + 1) /\ r.status # "done"
    BY <2>1 DEF Fits, Record, Upcoming
  <2> HIDE DEF r
  <2>4. /\ shots' \in Seq(Records) /\ Len(shots') = Len(shots) + 1
        /\ Truthful(shots') /\ There(shots') /\ Prefix(shots') /\ ~AllDone(shots')
    BY <2>1, <2>2, <2>3, NextShot
  <2>5. TypeOK'
    BY <2>1, <2>4 DEF IInv, TypeOK
  <2>6. Manifest' /\ Kept' /\ ExitTellsTheTruth'
    BY <2>1 DEF IInv, Manifest, Kept, ExitTellsTheTruth, There
  <2>7. Loop'
    BY <2>1, <2>4 DEF IInv, Loop, There, AllDone
  <2>8. QED
    BY <2>5, <2>6, <2>7 DEF IInv
<1>2. CASE GemmaFails
  <2>1. TypeOK'
    BY <1>2 DEF GemmaFails, IInv, TypeOK
  <2>2. Manifest' /\ Kept' /\ Loop' /\ ExitTellsTheTruth'
    BY <1>2 DEF GemmaFails, IInv, Manifest, Kept, Loop, ExitTellsTheTruth
  <2>3. QED
    BY <2>1, <2>2 DEF IInv
<1>3. QED
  BY <1>1, <1>2

LEMMA KeepIInv == ASSUME IInv, KeepDone PROVE IInv'
<1> USE SeriesAssumption DEF disk, given
<1>1. PICK r \in done : r.index = Upcoming /\ shots' = Append(shots, r)
  BY DEF KeepDone
<1>2. /\ pc = "planning" /\ index' = index + 1 /\ index \in Nat /\ index + 1 <= Count
      /\ UNCHANGED <<disk, given, pc, exit, image, ended>>
      /\ Len(shots) = index
  BY DEF KeepDone, HasNext, Upcoming, IInv, TypeOK, Loop
<1>3. r \in Records /\ Fits(r, Len(shots) + 1) /\ r.status = "done" /\ r.png \in images
      /\ r.planned
  BY <1>1, <1>2 DEF IInv, TypeOK, Kept, Upcoming, Fits
<1>4. /\ shots' \in Seq(Records) /\ Len(shots') = Len(shots) + 1
      /\ Truthful(shots') /\ There(shots')
      /\ AllDone(shots') <=> AllDone(shots)
      /\ \A k \in DOMAIN shots' : shots'[k].planned
  BY <1>1, <1>2, <1>3, NextShot
<1>5. TypeOK'
  BY <1>2, <1>4 DEF IInv, TypeOK
<1>6. Manifest' /\ Kept' /\ ExitTellsTheTruth'
  BY <1>2 DEF IInv, Manifest, Kept, ExitTellsTheTruth, There
<1>7. Loop'
  BY <1>2, <1>4 DEF IInv, Loop, There, AllDone
<1>8. QED
  BY <1>5, <1>6, <1>7 DEF IInv

LEMMA RenderIInv == ASSUME IInv, StartRender \/ \E ok \in BOOLEAN : LigEnds(ok) PROVE IInv'
<1> USE SeriesAssumption DEF disk, given
<1>1. CASE StartRender
  <2>1. /\ pc = "planning" /\ pc' = "rendering" /\ index' = index + 1 /\ index \in Nat
        /\ index + 1 <= Count /\ image' = NoImage
        /\ UNCHANGED <<disk, given, shots, exit, ended>>
        /\ Len(shots) = index
    BY <1>1 DEF StartRender, HasNext, Upcoming, IInv, TypeOK, Loop
  <2>2. TypeOK'
    BY <2>1 DEF IInv, TypeOK
  <2>3. Manifest' /\ Kept' /\ ExitTellsTheTruth'
    BY <2>1 DEF IInv, Manifest, Kept, ExitTellsTheTruth, There
  <2>4. Loop'
    BY <2>1 DEF IInv, Loop, There, AllDone
  <2>5. QED
    BY <2>2, <2>3, <2>4 DEF IInv
<1>2. ASSUME NEW ok \in BOOLEAN, LigEnds(ok)
      PROVE  IInv'
  <2>1. /\ pc = "rendering" /\ pc' = "rendered"
        /\ UNCHANGED <<given, saved, savedSeed, recorded, index, shots, exit, ended>>
        /\ index \in Shots /\ run \in 1 .. MaxRuns /\ seed \in Seeds
        /\ Len(shots) + 1 = index
    <3>1. Len(shots) \in Nat
      BY DEF IInv, TypeOK
    <3>2. QED
      BY <1>2, <3>1 DEF LigEnds, IInv, TypeOK, Loop, Shots
  <2>2. /\ image' \in Images \cup {NoImage}
        /\ image' # NoImage => image'.shot = index /\ image' \in images'
        /\ images \subseteq images' /\ images' \subseteq Images
    <3>1. [shot |-> index, run |-> run, seed |-> seed] \in Images
      BY <2>1 DEF Images
    <3>2. QED
      BY <1>2, <3>1 DEF LigEnds, IInv, TypeOK
  <2>3. TypeOK'
    BY <2>1, <2>2 DEF IInv, TypeOK
  <2>4. Manifest' /\ Kept' /\ ExitTellsTheTruth'
    BY <2>1, <2>2 DEF IInv, Manifest, Kept, ExitTellsTheTruth, There
  <2>5. Loop'
    BY <2>1, <2>2 DEF IInv, Loop, There, AllDone, Rendered
  <2>6. QED
    BY <2>3, <2>4, <2>5 DEF IInv
<1>3. QED
  BY <1>1, <1>2

LEMMA RecordIInv == ASSUME IInv, RecordShot PROVE IInv'
<1> USE SeriesAssumption DEF given
<1>1. /\ pc = "rendered" /\ shots' = Append(shots, Entry)
      /\ exit' = IF Rendered THEN exit ELSE 1
      /\ saved' = shots' /\ recorded' = recorded \cup {r.png : r \in Finished(shots')}
      /\ pc' \in {"planning", "stopping"} /\ (pc' = "stopping" => ~Rendered)
      /\ UNCHANGED <<given, images, savedSeed, index, image, ended>>
      /\ index \in Shots /\ Len(shots) + 1 = index /\ Len(shots) \in Nat
  <2>1. Len(shots) \in Nat
    BY DEF IInv, TypeOK
  <2>2. QED
    BY <2>1 DEF RecordShot, Write, IInv, TypeOK, Loop, Shots
<1>2. /\ Entry \in Records /\ Fits(Entry, Len(shots) + 1) /\ Entry.planned
      /\ Entry.status = "done" <=> Rendered
      /\ Rendered => Entry.png \in images
  <2>1. image \in Images \cup {NoImage}
    BY DEF IInv, TypeOK
  <2>2. Entry \in Records
    BY <1>1, <2>1, RecordType DEF Entry
  <2>3. Rendered => image.shot = index /\ image \in images
    BY <1>1 DEF IInv, Loop
  <2>4. QED
    BY <1>1, <2>2, <2>3 DEF Entry, Record, Fits, Rendered
<1>3. /\ shots' \in Seq(Records) /\ Len(shots') = Len(shots) + 1
      /\ Truthful(shots') /\ There(shots') /\ Prefix(shots')
      /\ AllDone(shots') <=> AllDone(shots) /\ Rendered
      /\ \A k \in DOMAIN shots' : shots'[k].planned
  BY <1>1, <1>2, NextShot
<1>4. recorded' \subseteq Images
  BY <1>1, <1>3, WriteImages DEF IInv, TypeOK
<1>5. TypeOK'
  BY <1>1, <1>3, <1>4 DEF IInv, TypeOK
<1>6. Manifest'
  BY <1>1, <1>3 DEF Manifest, There
<1>7. Kept' /\ ExitTellsTheTruth'
  BY <1>1 DEF IInv, Kept, ExitTellsTheTruth
<1>8. Loop'
  <2>1. Len(shots') = index /\ index <= Count
    BY <1>1, <1>3 DEF Shots
  <2>2. exit = 0 <=> AllDone(shots)
    BY <1>1 DEF IInv, Loop
  <2>3. run' > 0 /\ seed' \in Seeds
    BY <1>1 DEF IInv, Loop
  <2>4. There(shots)'
    BY <1>1, <1>3 DEF There
  <2>5. exit' = 0 <=> AllDone(shots)'
    BY <1>1, <1>3, <2>2 DEF AllDone
  <2>6. pc' = "stopping" => exit' = 1 /\ ~AllDone(shots)'
    BY <1>1, <1>3 DEF AllDone
  <2>7. Truthful(shots)' /\ Prefix(shots)'
    BY <1>3
  <2>8. QED
    BY <1>1, <1>3, <2>1, <2>3, <2>4, <2>5, <2>6, <2>7 DEF Loop
<1>9. QED
  BY <1>5, <1>6, <1>7, <1>8 DEF IInv

LEMMA ReturnIInv == ASSUME IInv, Return PROVE IInv'
<1> USE SeriesAssumption DEF given
<1>1. /\ pc \in {"planning", "stopping"} /\ pc' = "idle"
      /\ saved' = shots' /\ recorded' = recorded \cup {r.png : r \in Finished(shots')}
      /\ ended' = IF exit = 0 THEN "ok" ELSE "failed"
      /\ UNCHANGED <<given, images, savedSeed, index, exit, image>>
  BY DEF Return, Write
<1>2. /\ shots' \in Seq(Records) /\ Truthful(shots') /\ Prefix(shots')
      /\ Len(shots') = Count /\ (exit = 0 <=> AllDone(shots'))
  <2>1. shots \in Seq(Records) /\ Len(shots) \in Nat /\ index \in 0 .. Count
    BY DEF IInv, TypeOK
  <2>2. CASE pc = "planning"
    <3>1. /\ ~HasNext /\ shots' = shots /\ Truthful(shots) /\ Len(shots) = index
          /\ (exit = 0 <=> AllDone(shots)) /\ \A k \in DOMAIN shots : shots[k].planned
      BY <2>2 DEF Return, IInv, Loop
    <3>2. Len(shots) = Count
      BY <2>1, <3>1 DEF HasNext, Upcoming
    <3>3. QED
      BY <2>1, <3>1, <3>2, AllPlannedIsPrefix
  <2>3. CASE pc = "stopping"
    <3>1. /\ shots' = WithSkipped(shots) /\ Truthful(shots) /\ Prefix(shots)
          /\ Len(shots) <= Count /\ exit = 1 /\ ~AllDone(shots)
      BY <2>3 DEF Return, IInv, Loop
    <3>2. WithSkipped(shots) \in Seq(Records) /\ Len(WithSkipped(shots)) = Count
      BY <2>1, <3>1, FilledUp
    <3>3. Truthful(shots') /\ Prefix(shots') /\ ~AllDone(shots')
      BY <2>1, <3>1, FilledUpIsTruthful
    <3>4. QED
      BY <3>1, <3>2, <3>3
  <2>4. QED
    BY <1>1, <2>2, <2>3
<1>3. recorded' \subseteq Images
  BY <1>1, <1>2, WriteImages DEF IInv, TypeOK
<1>4. TypeOK'
  BY <1>1, <1>2, <1>3 DEF IInv, TypeOK
<1>5. Manifest' /\ Kept' /\ Loop'
  BY <1>1, <1>2 DEF Manifest, Kept, Loop
<1>6. ExitTellsTheTruth'
  BY <1>1, <1>2 DEF ExitTellsTheTruth, AllDone
<1>7. QED
  BY <1>4, <1>5, <1>6 DEF IInv

LEMMA EnvironmentIInv == ASSUME IInv, Kill \/ \E i \in images : RemoveImage(i) PROVE IInv'
<1> USE DEF disk, given, locals
<1>1. TypeOK'
  BY DEF Kill, RemoveImage, IInv, TypeOK
<1>2. Manifest' /\ Kept' /\ Loop'
  BY DEF Kill, RemoveImage, IInv, Manifest, Kept, Loop
<1>3. ExitTellsTheTruth'
  BY DEF Kill, RemoveImage, IInv, ExitTellsTheTruth
<1>4. QED
  BY <1>1, <1>2, <1>3 DEF IInv

LEMMA NextIInv == IInv /\ [Next]_vars => IInv'
<1> SUFFICES ASSUME IInv, [Next]_vars PROVE IInv'
  OBVIOUS
<1>1. CASE Next
  BY <1>1, BeginIInv, PlanIInv, KeepIInv, RenderIInv, RecordIInv, ReturnIInv, EnvironmentIInv
     DEF Next
<1>2. CASE UNCHANGED vars
  BY <1>2 DEF vars, disk, given, locals, IInv, TypeOK, Manifest, Kept, Loop, ExitTellsTheTruth,
              There, AllDone, Rendered
<1>3. QED
  BY <1>1, <1>2

LEMMA Invariance == Spec => []IInv
BY InitIInv, NextIInv, PTL DEF Spec

-------------------------------------------------------------------------------
(* What follows for a series of any length, started any number of times.   *)

(* The manifest and the locals of run_series are what TypeOK says.         *)
THEOREM TypeCorrect == Spec => []TypeOK
<1>1. IInv => TypeOK
  BY DEF IInv
<1>2. QED
  BY <1>1, Invariance, PTL

(* series.json is truthful at any moment at which lig-series may be killed *)
(* (write_manifest of series/runner.py).                                   *)
THEOREM ManifestIsTrue == Spec => []ManifestTruth
<1>1. IInv => ManifestTruth
  BY DEF IInv, Manifest, Truthful, Fits, There, ManifestTruth
<1>2. QED
  BY <1>1, Invariance, PTL

(* Whatever a series went through, --resume has the plan of every shot it  *)
(* keeps (_planned_prefix of series/cli.py).                               *)
THEOREM KeptShotsArePlanned == Spec => []DoneArePlanned
<1>1. IInv => DoneArePlanned
  BY DEF IInv, Kept, DoneArePlanned
<1>2. QED
  BY <1>1, Invariance, PTL

(* A series that ended says what became of every shot, and its exit code   *)
(* is 0 exactly if all of them have an image (result.exit_code).           *)
THEOREM ExitIsTrue == Spec => []ExitTellsTheTruth
<1>1. IInv => ExitTellsTheTruth
  BY DEF IInv
<1>2. QED
  BY <1>1, Invariance, PTL

===============================================================================
