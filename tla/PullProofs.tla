------------------------------ MODULE PullProofs ------------------------------
(***************************************************************************)
(* Proofs about the model cache (module Pull).                             *)
(*                                                                         *)
(* Nothing locks the files, and with two pulls of the same artifact at the *)
(* same time they are not what they seem (run pull_overlap).  The theorems *)
(* are about any number of commands of which no two overlap: the condition *)
(* `Alone` is on the behaviour, not on the constants, so they hold for one *)
(* process after another as for one process.                               *)
(***************************************************************************)
EXTENDS Pull, SequenceTheorems, TLAPS

(* No two commands are under way.                                          *)
Alone == \A p, q \in Process : pc[p] # "idle" /\ pc[q] # "idle" => p = q

-------------------------------------------------------------------------------
(* The inductive invariant.                                                *)

(* What a file contains that the disk has not damaged: chunks in their     *)
(* places, or what a bad server sent in their place.                       *)
Good(c) == \A i \in DOMAIN c : c[i] = i \/ (BadServer /\ c[i] = Bad)

Fits(c) == Len(c) <= Chunks + MaxExcess

Whole(f) == content[f] = Payload \/ f \in rotted

(* The phases of a pull before it opens its file.                          *)
Asking == {"start", "unmark", "unlink", "request", "requested"}

(* A command creates one file at most, so there are always enough of them. *)
Budget ==
  /\ created <= calls
  /\ \A p \in Process : pc[p] \in Asking => created < calls

(* Two names never are the same file, and a file to come is empty.         *)
Separate ==
  /\ \A n \in Names : name[n] <= created
  /\ \A m, n \in Names : name[m] = name[n] /\ name[m] # NoFile => m = n
  /\ \A f \in Files : f > created => content[f] = << >> /\ f \notin rotted

(* The disk damages what is installed, not what is being downloaded.       *)
Sound ==
  /\ \A f \in Files : Fits(content[f]) /\ (f \in rotted \/ Good(content[f]))
  /\ name["part"] \notin rotted

(* The marker is of the file that is there.                                *)
Marked == marker /\ Exists("target") => Whole(name["target"])

(* What a process knows of the files is still so when it acts on it: the   *)
(* size of `.part` behind the request, its content and the position in it  *)
(* behind each chunk, the target that was promoted or hashed.              *)
Current(p) ==
  /\ pc[p] = "requested" =>
       offset[p] = IF Exists("part") THEN Len(content[name["part"]]) ELSE 0
  /\ pc[p] = "receiving" =>
       /\ Exists("part") /\ fd[p] = name["part"]
       /\ digest[p] = content[fd[p]]
       /\ Len(content[fd[p]]) = next[p] - 1
  /\ pc[p] = "mark" => Exists("target") /\ Whole(name["target"])
  /\ pc[p] = "hashed" =>
       /\ Exists("target")
       /\ digest[p] = content[name["target"]] \/ name["target"] \in rotted

IInv ==
  /\ TypeOK
  /\ Budget
  /\ Separate
  /\ Sound
  /\ Marked
  /\ \A p \in Process : Current(p)

-------------------------------------------------------------------------------
(* Contents of files.                                                      *)

Contents == Seq(Bad .. Chunks)

LEMMA PayloadType == Payload \in Contents
BY PullAssumption DEF Payload, Contents, Bad

LEMMA EmptyIsGood == << >> \in Contents /\ Good(<< >>) /\ Fits(<< >>)
BY PullAssumption DEF Contents, Good, Fits, Bad

(* A chunk behind a good beginning, its own or a damaged one, makes a good *)
(* beginning.                                                              *)
LEMMA GoodAppend ==
  ASSUME NEW c \in Contents, Good(c), NEW x \in Bad .. Chunks,
         x = Len(c) + 1 \/ (BadServer /\ x = Bad)
  PROVE  Append(c, x) \in Contents /\ Good(Append(c, x))
<1>1. /\ Append(c, x) \in Contents /\ Len(Append(c, x)) = Len(c) + 1
      /\ \A i \in 1 .. Len(c) : Append(c, x)[i] = c[i]
      /\ Append(c, x)[Len(c) + 1] = x
  BY AppendProperties DEF Contents
<1>2. Len(c) \in Nat /\ DOMAIN c = 1 .. Len(c)
  BY DEF Contents
<1>3. DOMAIN Append(c, x) = 1 .. Len(c) + 1
  BY <1>1 DEF Contents
<1>4. ASSUME NEW i \in 1 .. Len(c) + 1
      PROVE  Append(c, x)[i] = i \/ (BadServer /\ Append(c, x)[i] = Bad)
  <2>1. CASE i = Len(c) + 1
    BY <1>1, <2>1
  <2>2. CASE i # Len(c) + 1
    <3>1. i \in 1 .. Len(c)
      BY <1>2, <2>2
    <3>2. QED
      BY <1>1, <1>2, <3>1 DEF Good
  <2>3. QED
    BY <2>1, <2>2
<1>5. QED
  BY <1>1, <1>3, <1>4 DEF Good

(* At the end of the file, a write at a position is an append.             *)
LEMMA WriteAtEnd ==
  ASSUME NEW c \in Contents, NEW x \in Bad .. Chunks, NEW at \in Nat, Len(c) = at - 1
  PROVE  WriteAt(c, at, x) = Append(c, x)
<1> DEFINE w == WriteAt(c, at, x)
           a == Append(c, x)
<1>1. Len(c) \in Nat /\ at = Len(c) + 1 /\ DOMAIN c = 1 .. Len(c)
  BY DEF Contents
<1>2. /\ a \in Contents /\ Len(a) = at
      /\ \A i \in 1 .. Len(c) : a[i] = c[i]
      /\ a[at] = x
  BY <1>1, AppendProperties DEF Contents
<1>3. /\ w = [i \in 1 .. at |-> IF i = at THEN x ELSE c[i]]
  BY <1>1 DEF WriteAt
<1>4. \A i \in 1 .. Len(c) : c[i] \in Bad .. Chunks
  BY ElementOfSeq DEF Contents
<1> HIDE DEF w, a
<1>5. w \in Contents /\ Len(w) = at /\ \A i \in 1 .. at : w[i] = IF i = at THEN x ELSE c[i]
  BY <1>1, <1>3, <1>4 DEF Contents
<1>6. ASSUME NEW i \in 1 .. at
      PROVE  w[i] = a[i]
  <2>1. CASE i = at
    BY <1>2, <1>5, <2>1
  <2>2. CASE i # at
    BY <1>1, <1>2, <1>5, <2>2
  <2>3. QED
    BY <2>1, <2>2
<1>7. w = a
  BY <1>2, <1>5, <1>6, SeqEqual DEF Contents
<1>8. QED
  BY <1>7 DEF w, a

(* A damaged file is as long as it was.                                    *)
LEMMA RottenFits ==
  ASSUME NEW c \in Contents, Fits(c)
  PROVE  /\ [i \in DOMAIN c |-> Bad] \in Contents
         /\ Fits([i \in DOMAIN c |-> Bad])
<1>1. Len(c) \in Nat /\ DOMAIN c = 1 .. Len(c) /\ Bad \in Bad .. Chunks
  BY PullAssumption DEF Contents, Bad
<1>2. [i \in 1 .. Len(c) |-> Bad] \in Contents /\ Len([i \in 1 .. Len(c) |-> Bad]) = Len(c)
  BY <1>1 DEF Contents
<1>3. QED
  BY <1>1, <1>2 DEF Fits

(* What `rm` lists is a list of names.                                     *)
LEMMA ListedType ==
  ASSUME NEW n \in Names \cup {"marker"}, NEW e \in BOOLEAN
  PROVE  Listed(n, e) \in Seq(Names \cup {"marker"})
<1> DEFINE N == Names \cup {"marker"}
<1>1. n \in N
  OBVIOUS
<1> HIDE DEF N
<1>2. <<n>> \in Seq(N) /\ << >> \in Seq(N)
  BY <1>1
<1>3. QED
  BY <1>2 DEF Listed, N

-------------------------------------------------------------------------------
(* The steps.                                                              *)

LEMMA InitIInv == Init => IInv
<1> SUFFICES ASSUME Init PROVE IInv
  OBVIOUS
<1> USE PullAssumption DEF Init, Files, NoFile, Names
<1>1. TypeOK
  <2>1. << >> \in Contents /\ << >> \in Seq(Names \cup {"marker"})
    BY EmptyIsGood
  <2>2. created \in 0 .. 2 * MaxCalls /\ calls \in 0 .. MaxCalls
    OBVIOUS
  <2>3. content \in [Files -> Contents] /\ digest \in [Process -> Contents]
    BY <2>1
  <2>4. left \in [Process -> Seq(Names \cup {"marker"})]
    BY <2>1
  <2>5. /\ offset \in [Process -> 0 .. Chunks + MaxExcess] /\ next \in [Process -> 1 .. Chunks + MaxExcess + 1]
    OBVIOUS
  <2>8. force \in [Process -> BOOLEAN] /\ marker \in BOOLEAN
    OBVIOUS
  <2>9. /\ fd \in [Process -> Files \cup {NoFile}] /\ name \in [Names -> Files \cup {NoFile}]
    OBVIOUS
  <2>6. pc \in [Process -> {"idle", "start", "unmark", "unlink", "request", "requested",
                            "receiving", "mark", "hashed", "removing"}]
    OBVIOUS
  <2>7. QED
    BY <2>2, <2>3, <2>4, <2>5, <2>6, <2>8, <2>9 DEF TypeOK, Contents
<1>2. Budget /\ Separate /\ Marked
  BY DEF Budget, Asking, Separate, Marked, Exists
<1>3. Sound
  BY EmptyIsGood DEF Sound
<1>4. \A p \in Process : Current(p)
  BY DEF Current
<1>5. QED
  BY <1>1, <1>2, <1>3, <1>4 DEF IInv

(* A step that leaves the files alone and takes p into a phase in which it *)
(* knows what it needs.                                                    *)
LEMMA StartIInv ==
  ASSUME IInv, NEW p \in Process,
         (\E f \in BOOLEAN : Call(p, f)) \/ VerifyHash(p) \/ RmLists(p)
  PROVE  IInv'
<1> USE PullAssumption DEF IInv, disk, locals, Goto
<1>1. /\ pc[p] = "idle" /\ UNCHANGED disk
      /\ calls \in Nat /\ calls < MaxCalls /\ calls' = calls + 1
      /\ \E s \in {"start", "hashed", "removing"} : pc' = [pc EXCEPT ![p] = s]
  BY DEF Call, VerifyHash, RmLists, TypeOK
<1>2. TypeOK'
  <2>1. CASE \E f \in BOOLEAN : Call(p, f)
    BY <1>1, <2>1 DEF Call, TypeOK
  <2>2. CASE VerifyHash(p)
    <3>1. content[name["target"]] \in Contents
      BY <2>2 DEF VerifyHash, Exists, NoFile, Names, TypeOK, Contents
    <3>2. QED
      BY <1>1, <2>2, <3>1 DEF VerifyHash, TypeOK, Contents
  <2>3. CASE RmLists(p)
    <3> DEFINE N == Names \cup {"marker"}
               l == Listed("target", Exists("target")) \o Listed("marker", marker)
                    \o Listed("part", Exists("part")) \o Listed("corrupt", Exists("corrupt"))
    <3>1. /\ Listed("target", Exists("target")) \in Seq(N)
          /\ Listed("marker", marker) \in Seq(N)
          /\ Listed("part", Exists("part")) \in Seq(N)
          /\ Listed("corrupt", Exists("corrupt")) \in Seq(N)
      BY ListedType DEF Exists, Names, TypeOK
    <3> HIDE DEF N
    <3>2. l \in Seq(N)
      BY <3>1, ConcatProperties
    <3>3. left' = [left EXCEPT ![p] = l]
      BY <2>3 DEF RmLists
    <3> HIDE DEF l
    <3>4. left' \in [Process -> Seq(Names \cup {"marker"})]
      BY <3>2, <3>3 DEF TypeOK, N
    <3>5. QED
      BY <1>1, <2>3, <3>4 DEF RmLists, TypeOK
  <2>4. QED
    BY <2>1, <2>2, <2>3
<1>3. Budget'
  BY <1>1 DEF Budget, Asking, TypeOK
<1>4. Separate' /\ Sound' /\ Marked'
  BY <1>1 DEF Separate, Sound, Good, Fits, Marked, Whole, Exists
<1>5. ASSUME NEW q \in Process
      PROVE  Current(q)'
  BY <1>1 DEF Call, VerifyHash, RmLists, Current, Exists, Whole, TypeOK
<1>6. QED
  BY <1>2, <1>3, <1>4, <1>5

(* Only p's own phases matter: the others are idle.                        *)
LEMMA OthersIdle ==
  ASSUME TypeOK, Alone, NEW p \in Process, pc[p] # "idle",
         NEW s, pc' = [pc EXCEPT ![p] = s]
  PROVE  \A q \in Process : q # p => pc'[q] = "idle" /\ Current(q)'
BY DEF TypeOK, Alone, Current

(* Steps that leave the files as they are.                                 *)
LEMMA LooksIInv ==
  ASSUME IInv, Alone, NEW p \in Process,
         CheckStatus(p) \/ Request(p) \/ Resumed(p) \/ Fail(p)
  PROVE  IInv'
<1> USE PullAssumption DEF IInv, disk, locals, Goto
<1>1. /\ pc[p] # "idle" /\ UNCHANGED <<disk, calls>>
      /\ pc' = [pc EXCEPT ![p] = pc'[p]] /\ pc'[p] \in Asking \cup {"receiving", "idle"}
      /\ pc'[p] \in Asking => pc[p] \in Asking
  BY DEF CheckStatus, Request, Resumed, Fail, Asking, TypeOK
<1>2. ASSUME Exists("part")
      PROVE  /\ name["part"] \in Files
             /\ content[name["part"]] \in Contents
             /\ Len(content[name["part"]]) \in 0 .. Chunks + MaxExcess
  <2>1. name["part"] \in Files
    BY <1>2 DEF TypeOK, Exists, NoFile, Names
  <2>2. content[name["part"]] \in Contents
    BY <2>1 DEF TypeOK, Contents
  <2>3. Len(content[name["part"]]) \in Nat
    BY <2>2, LenProperties DEF Contents
  <2>4. QED
    BY <2>1, <2>2, <2>3 DEF Sound, Fits
<1>3. TypeOK'
  <2>1. CASE CheckStatus(p) \/ Fail(p)
    BY <2>1, <1>1 DEF CheckStatus, Fail, TypeOK, Asking
  <2>2. CASE Request(p)
    BY <1>1, <1>2, <2>2 DEF Request, TypeOK, Asking
  <2>3. CASE Resumed(p)
    BY <1>1, <1>2, <2>3 DEF Resumed, TypeOK, Asking, Contents
  <2>4. QED
    BY <2>1, <2>2, <2>3
<1>4. Budget'
  BY <1>1 DEF Budget, TypeOK
<1>5. Separate' /\ Sound' /\ Marked'
  BY <1>1 DEF Separate, Sound, Good, Fits, Marked, Whole, Exists
<1>6. Current(p)'
  <2>1. CASE CheckStatus(p) \/ Fail(p)
    BY <2>1 DEF CheckStatus, Fail, Current, TypeOK
  <2>2. CASE Request(p)
    BY <2>2 DEF Request, Current, Exists, TypeOK
  <2>3. CASE Resumed(p)
    BY <2>3, <1>2 DEF Resumed, Current, Exists, TypeOK
  <2>4. QED
    BY <2>1, <2>2, <2>3
<1>7. \A q \in Process : Current(q)'
  BY <1>1, <1>6, OthersIdle
<1>8. QED
  BY <1>3, <1>4, <1>5, <1>7

(* Steps that change the marker and remove or rename files.                *)
LEMMA NamesIInv ==
  ASSUME IInv, Alone, NEW p \in Process,
         \/ UnlinkMarker(p) \/ UnlinkTarget(p) \/ Rejected(p) \/ Mismatch(p)
         \/ Promote(p) \/ Mark(p) \/ VerifyEnds(p) \/ RmUnlinks(p)
  PROVE  IInv'
<1> USE PullAssumption DEF IInv, disk, locals, Goto
<1>1. /\ pc[p] # "idle" /\ UNCHANGED <<content, created, rotted, calls>>
      /\ pc' = [pc EXCEPT ![p] = pc'[p]]
      /\ pc'[p] \in Asking \cup {"mark", "idle", "removing"}
      /\ pc'[p] \in Asking => pc[p] \in Asking
  BY DEF UnlinkMarker, UnlinkTarget, Rejected, Mismatch, Promote, Mark, VerifyEnds, RmUnlinks,
         BodyEnds, Asking, TypeOK
<1>2. name' \in [Names -> Files \cup {NoFile}]
  BY DEF UnlinkMarker, UnlinkTarget, Rejected, Mismatch, Promote, Mark, VerifyEnds, RmUnlinks,
         BodyEnds, TypeOK, Names
<1>3. marker' \in BOOLEAN
  BY DEF UnlinkMarker, UnlinkTarget, Rejected, Mismatch, Promote, Mark, VerifyEnds, RmUnlinks,
         BodyEnds, TypeOK
<1>4. TypeOK'
  <2>1. left' \in [Process -> Seq(Names \cup {"marker"})]
    <3>1. CASE RmUnlinks(p)
      <4>1. Tail(left[p]) \in Seq(Names \cup {"marker"})
        <5> DEFINE N == Names \cup {"marker"}
        <5>1. left[p] \in Seq(N) /\ left[p] # << >>
          BY <3>1 DEF RmUnlinks, TypeOK
        <5> HIDE DEF N
        <5>2. Tail(left[p]) \in Seq(N)
          BY <5>1, HeadTailProperties
        <5>3. QED
          BY <5>2 DEF N
      <4>2. QED
        BY <3>1, <4>1 DEF RmUnlinks, TypeOK
    <3>2. CASE ~RmUnlinks(p)
      BY <3>2 DEF UnlinkMarker, UnlinkTarget, Rejected, Mismatch, Promote, Mark, VerifyEnds, TypeOK
    <3>3. QED
      BY <3>1, <3>2
  <2>2. force' \in [Process -> BOOLEAN]
    BY DEF UnlinkMarker, UnlinkTarget, Rejected, Mismatch, Promote, Mark, VerifyEnds, RmUnlinks, TypeOK
  <2>3. UNCHANGED <<offset, digest, fd, next>>
    BY DEF UnlinkMarker, UnlinkTarget, Rejected, Mismatch, Promote, Mark, VerifyEnds, RmUnlinks
  <2>4. QED
    BY <1>1, <1>2, <1>3, <2>1, <2>2, <2>3 DEF TypeOK, Asking
<1>5. Budget'
  BY <1>1 DEF Budget, TypeOK
<1>6. Separate'
  <2>1. /\ \A n \in Names : name[n] <= created
        /\ \A m, n \in Names : name[m] = name[n] /\ name[m] # NoFile => m = n
        /\ created \in Nat /\ NoFile <= created /\ name \in [Names -> Files \cup {NoFile}]
    BY DEF Separate, TypeOK, NoFile
  <2>2. CASE UnlinkMarker(p) \/ Mark(p) \/ VerifyEnds(p)
    BY <1>1, <2>2 DEF UnlinkMarker, Mark, VerifyEnds, Separate
  <2>3. ASSUME NEW n \in Names, name' = [name EXCEPT ![n] = NoFile]
        PROVE  Separate'
    BY <1>1, <2>1, <2>3 DEF Separate
  <2>4. CASE UnlinkTarget(p) \/ Rejected(p)
    BY <2>3, <2>4 DEF UnlinkTarget, Rejected, Names
  <2>5. CASE RmUnlinks(p)
    <3>1. name' = name \/ \E n \in Names : name' = [name EXCEPT ![n] = NoFile]
      <4>1. left[p] \in Seq(Names \cup {"marker"}) /\ left[p] # << >>
        BY <2>5 DEF RmUnlinks, TypeOK
      <4>2. Head(left[p]) \in Names \cup {"marker"}
        BY <4>1
      <4>3. QED
        BY <2>5, <4>2 DEF RmUnlinks
    <3>2. QED
      BY <1>1, <2>3, <3>1 DEF Separate
  <2>6. ASSUME NEW n \in Names, n # "part",
               name' = [name EXCEPT ![n] = name["part"], !["part"] = NoFile]
        PROVE  Separate'
    <3>1. "part" \in Names
      BY DEF Names
    <3>2. \A m \in Names : name'[m] = IF m = "part" THEN NoFile
                                     ELSE IF m = n THEN name["part"] ELSE name[m]
      BY <2>1, <2>6, <3>1
    <3>3. QED
      BY <1>1, <2>1, <2>6, <3>1, <3>2 DEF Separate
  <2>7. CASE Mismatch(p) \/ Promote(p)
    BY <2>6, <2>7 DEF Mismatch, Promote, Names
  <2>8. QED
    BY <2>2, <2>4, <2>5, <2>7
<1>7. Sound'
  <2>1. rotted' = rotted /\ NoFile \notin rotted
    BY <1>1 DEF TypeOK, Files, NoFile
  <2>2. name'["part"] \in {name["part"], NoFile}
    BY DEF UnlinkMarker, UnlinkTarget, Rejected, Mismatch, Promote, Mark, VerifyEnds, RmUnlinks,
           TypeOK, Names
  <2>3. QED
    BY <1>1, <2>1, <2>2 DEF Sound, Good, Fits
<1>8. Marked'
  BY <1>1 DEF UnlinkMarker, UnlinkTarget, Rejected, Mismatch, Promote, Mark, VerifyEnds, RmUnlinks,
         BodyEnds, TypeOK, Names, Exists, Marked, Whole, Current
<1>9. Current(p)'
  BY <1>1 DEF UnlinkMarker, UnlinkTarget, Rejected, Mismatch, Promote, Mark, VerifyEnds, RmUnlinks,
         BodyEnds, TypeOK, Names, Exists, Whole, Current, Asking
<1>10. \A q \in Process : Current(q)'
  BY <1>1, <1>9, OthersIdle
<1>11. QED
  BY <1>4, <1>5, <1>6, <1>7, <1>8, <1>10

(* "wb" creates the file or empties it.                                    *)
LEMMA FromZeroIInv == ASSUME IInv, Alone, NEW p \in Process, FromZero(p) PROVE IInv'
<1> USE PullAssumption DEF IInv, FromZero, Goto
<1>1. /\ pc[p] = "requested" /\ pc' = [pc EXCEPT ![p] = "receiving"]
      /\ UNCHANGED <<marker, rotted, calls, force, left>>
  OBVIOUS
<1>2. created \in Nat /\ calls \in Nat /\ calls <= MaxCalls /\ created < calls
  BY <1>1 DEF Budget, Asking, TypeOK
<1>3. PICK f \in Files :
        /\ fd' = [fd EXCEPT ![p] = f]
        /\ name' = [name EXCEPT !["part"] = f]
        /\ content' = [content EXCEPT ![f] = << >>]
        /\ \/ created' = created /\ name["part"] = f
           \/ created' = created + 1 /\ f = created' /\ ~Exists("part")
  <2>1. CASE Exists("part")
    <3>1. name["part"] \in Files /\ name = [name EXCEPT !["part"] = name["part"]]
      BY <2>1 DEF Exists, TypeOK, Names, NoFile
    <3>2. QED
      BY <2>1, <3>1
  <2>2. CASE ~Exists("part")
    <3>1. created + 1 \in Files
      BY <1>2 DEF Files
    <3>2. content = [content EXCEPT ![created + 1] = << >>]
      BY <1>2, <3>1 DEF Separate, TypeOK
    <3>3. QED
      BY <2>2, <3>1, <3>2
  <2>3. QED
    BY <2>1, <2>2
<1>4. /\ created' \in Nat /\ created <= created' /\ created' <= created + 1 /\ f <= created'
      /\ created' <= calls
  BY <1>2, <1>3 DEF Separate, Names
<1>5. \A n \in Names : n # "part" => name'[n] = name[n] /\ name[n] # f
  <2>1. name \in [Names -> Files \cup {NoFile}] /\ "part" \in Names /\ f # NoFile
    BY DEF TypeOK, Names, Files, NoFile
  <2>2. \A n \in Names : n # "part" => name'[n] = name[n]
    BY <1>3, <2>1
  <2>3. CASE name["part"] = f
    BY <2>1, <2>2, <2>3 DEF Separate
  <2>4. CASE f = created + 1
    <3>1. ASSUME NEW n \in Names
          PROVE  name[n] # f
      BY <1>2, <2>1, <2>4 DEF Separate, Files, NoFile
    <3>2. QED
      BY <2>2, <3>1
  <2>5. QED
    BY <1>3, <2>3, <2>4
<1>6. TypeOK'
  <2>1. content' \in [Files -> Seq(Bad .. Chunks)] /\ digest' \in [Process -> Seq(Bad .. Chunks)]
    BY <1>3, EmptyIsGood DEF TypeOK, Contents
  <2>2. created' \in 0 .. 2 * MaxCalls
    BY <1>2, <1>4
  <2>3. QED
    BY <1>1, <1>3, <2>1, <2>2 DEF TypeOK, Names
<1>7. Budget'
  <2>1. ASSUME NEW q \in Process
        PROVE  pc'[q] \notin Asking
    BY <1>1 DEF Alone, Asking, TypeOK
  <2>2. QED
    BY <1>1, <1>4, <2>1 DEF Budget
<1>8. Separate'
  <2>1. ASSUME NEW n \in Names
        PROVE  name'[n] <= created'
    <3>1. CASE n = "part"
      BY <1>3, <1>4, <3>1 DEF TypeOK
    <3>2. CASE n # "part"
      <4>1. name'[n] = name[n] /\ name[n] \in Nat /\ name[n] <= created
        BY <1>5, <3>2 DEF Separate, TypeOK, Files, NoFile
      <4>2. QED
        BY <1>2, <1>4, <4>1
    <3>3. QED
      BY <3>1, <3>2
  <2>2. \A m, n \in Names : name'[m] = name'[n] /\ name'[m] # NoFile => m = n
    BY <1>3, <1>5 DEF Separate, Names, TypeOK
  <2>3. \A g \in Files : g > created' => content'[g] = << >> /\ g \notin rotted'
    <3>1. \A g \in Files : g > created' => g > created
      BY <1>2, <1>4 DEF Files
    <3>2. \A g \in Files : content'[g] = content[g] \/ content'[g] = << >>
      BY <1>3 DEF TypeOK
    <3>3. QED
      BY <1>1, <3>1, <3>2 DEF Separate
  <2>4. QED
    BY <2>1, <2>2, <2>3 DEF Separate
<1>9. Sound'
  <2>1. f \notin rotted
    BY <1>2, <1>3 DEF Sound, Separate, Files
  <2>2. name'["part"] = f /\ rotted' = rotted
    BY <1>1, <1>3 DEF TypeOK, Names
  <2>3. QED
    BY <1>3, <2>1, <2>2, EmptyIsGood DEF Sound, Good, Fits, TypeOK
<1>10. Marked'
  BY <1>1, <1>3, <1>5 DEF Marked, Exists, Whole, Names, TypeOK
<1>11. Current(p)'
  BY <1>1, <1>3, <1>5 DEF Current, Exists, NoFile, TypeOK, Files, Names
<1>12. \A q \in Process : Current(q)'
  BY <1>1, <1>11, OthersIdle
<1>13. QED
  BY <1>6, <1>7, <1>8, <1>9, <1>10, <1>12

(* A chunk arrives: file, position and hash go on together.                *)
LEMMA ReceiveIInv ==
  ASSUME IInv, Alone, NEW p \in Process, NEW x \in Bad .. Chunks, Receive(p, x)
  PROVE  IInv'
<1> USE PullAssumption DEF IInv
<1> DEFINE f == fd[p]
           c == content[f]
<1>1. /\ pc[p] = "receiving" /\ next[p] <= Chunks + MaxExcess
      /\ x = next[p] \/ (BadServer /\ x = Bad)
      /\ digest' = [digest EXCEPT ![p] = Append(@, x)]
      /\ next' = [next EXCEPT ![p] = @ + 1]
      /\ UNCHANGED <<created, name, marker, rotted, calls, pc, force, offset, fd, left>>
  BY DEF Receive, TypeOK
<1>2. /\ Exists("part") /\ f = name["part"] /\ f \in Files
      /\ digest[p] = c /\ Len(c) = next[p] - 1 /\ next[p] \in Nat
      /\ c \in Contents /\ Good(c) /\ f \notin rotted
  BY <1>1 DEF Current, Exists, Sound, TypeOK, Names, NoFile, Contents
<1>3. content' = [content EXCEPT ![f] = Append(c, x)]
  <2>1. WriteAt(c, next[p], x) = Append(c, x)
    BY <1>2, WriteAtEnd
  <2>2. QED
    BY <2>1 DEF Receive
<1>4. /\ Append(c, x) \in Contents /\ Good(Append(c, x)) /\ Fits(Append(c, x))
      /\ Len(Append(c, x)) = Len(c) + 1
  <2>1. x = Len(c) + 1 \/ (BadServer /\ x = Bad)
    BY <1>1, <1>2
  <2>2. Len(Append(c, x)) = Len(c) + 1
    BY <1>2, AppendProperties DEF Contents
  <2>3. Len(c) + 1 <= Chunks + MaxExcess
    BY <1>1, <1>2
  <2>4. QED
    BY <1>2, <2>1, <2>2, <2>3, GoodAppend DEF Fits
<1>5. \A n \in Names : n # "part" => name[n] # f
  BY <1>2 DEF Separate, Names, Exists
<1> HIDE DEF f, c
<1>6. TypeOK'
  <2>1. content' \in [Files -> Contents]
    BY <1>2, <1>3, <1>4 DEF TypeOK, Contents
  <2>2. Append(digest[p], x) \in Contents
    BY <1>2, <1>4
  <2>3. digest' \in [Process -> Contents]
    BY <1>1, <2>2 DEF TypeOK, Contents
  <2>4. next' \in [Process -> 1 .. Chunks + MaxExcess + 1]
    BY <1>1, <1>2 DEF TypeOK
  <2>5. QED
    BY <1>1, <2>1, <2>3, <2>4 DEF TypeOK, Contents
<1>7. Budget'
  BY <1>1 DEF Budget
<1>8. Separate'
  <2>1. f <= created /\ created \in Nat /\ f \in Nat
    BY <1>2 DEF Separate, Names, TypeOK, Files
  <2>2. \A g \in Files : g > created => g # f
    BY <2>1 DEF Files
  <2>3. \A g \in Files : g > created => content'[g] = content[g]
    BY <1>3, <2>2 DEF TypeOK
  <2>4. QED
    BY <1>1, <2>3 DEF Separate
<1>9. Sound'
  BY <1>1, <1>3, <1>4 DEF Sound, TypeOK, Good, Fits
<1>10. Marked'
  BY <1>1, <1>3, <1>5 DEF Marked, Exists, Whole, Names, TypeOK
<1>11. Current(p)'
  BY <1>1, <1>2, <1>3, <1>4 DEF Current, Exists, TypeOK, f, c
<1>12. \A q \in Process : Current(q)'
  BY <1>1, <1>11 DEF Alone, Current, TypeOK
<1>13. QED
  BY <1>6, <1>7, <1>8, <1>9, <1>10, <1>12

(* The disk damages the installed file, which nobody is writing.           *)
LEMMA RotIInv == ASSUME IInv, Rot PROVE IInv'
<1> USE PullAssumption DEF IInv, locals
<1> DEFINE f == name["target"]
           c == content[f]
           r == [i \in DOMAIN c |-> Bad]
<1>1. /\ Exists("target") /\ f \in Files /\ c \in Contents /\ Fits(c)
      /\ rotted' = rotted \cup {f}
      /\ UNCHANGED <<created, name, marker, calls, pc, locals>>
      /\ content' = [content EXCEPT ![f] = r]
  BY DEF Rot, Exists, TypeOK, Names, NoFile, Sound, Contents
<1>2. r \in Contents /\ Fits(r)
  BY <1>1, RottenFits
<1>3. name["part"] # f
  BY <1>1 DEF Separate, Names, Exists, Files, NoFile
<1>4. f <= created /\ created \in Nat
  BY <1>1 DEF Separate, Names, TypeOK
<1> HIDE DEF r, c
<1>5. TypeOK'
  BY <1>1, <1>2 DEF TypeOK, Contents
<1>6. Budget' /\ Marked'
  BY <1>1 DEF Budget, Marked, Whole, Exists
<1>7. Separate'
  BY <1>1, <1>4 DEF Separate, TypeOK, Files
<1>8. Sound'
  <2>1. \A g \in Files : g # f => content'[g] = content[g]
    BY <1>1 DEF TypeOK
  <2>2. content'[f] = r
    BY <1>1 DEF TypeOK
  <2>3. QED
    BY <1>1, <1>2, <1>3, <2>1, <2>2 DEF Sound, Good, Fits
<1>9. \A q \in Process : Current(q)'
  BY <1>1, <1>3 DEF Current, Exists, Whole, TypeOK
<1>10. QED
  BY <1>5, <1>6, <1>7, <1>8, <1>9

LEMMA NextIInv == IInv /\ Alone /\ [Next]_vars => IInv'
<1> SUFFICES ASSUME IInv, Alone, [Next]_vars PROVE IInv'
  OBVIOUS
<1>1. ASSUME NEW p \in Process,
             (\E f \in BOOLEAN : Call(p, f)) \/ VerifyHash(p) \/ RmLists(p)
      PROVE  IInv'
  BY <1>1, StartIInv
<1>2. ASSUME NEW p \in Process, PullStep(p) \/ VerifyEnds(p) \/ RmUnlinks(p) \/ Fail(p)
      PROVE  IInv'
  BY <1>2, LooksIInv, NamesIInv, FromZeroIInv, ReceiveIInv DEF PullStep
<1>3. CASE Rot
  BY <1>3, RotIInv
<1>4. CASE UNCHANGED vars
  BY <1>4 DEF vars, disk, locals, IInv, TypeOK, Budget, Separate, Sound, Good, Fits, Marked, Whole,
              Exists, Current
<1>5. QED
  BY <1>1, <1>2, <1>3, <1>4 DEF Next, Step

LEMMA Invariance == Spec /\ []Alone => []IInv
BY InitIInv, NextIInv, PTL DEF Spec

-------------------------------------------------------------------------------
(* What follows for commands that do not overlap.                          *)

(* The files are what TypeOK says, and the files a command may create      *)
(* suffice.                                                                *)
THEOREM TypeCorrect == Spec /\ []Alone => []TypeOK
<1>1. IInv => TypeOK
  BY DEF IInv
<1>2. QED
  BY <1>1, Invariance, PTL

(* The marker of an installed artifact tells the truth about the file that *)
(* has its name: through kills, resumed and rejected downloads, --force,   *)
(* `verify` and `rm`, the content is the registry's or the disk damaged it *)
(* (downloader.py and cache.py).                                           *)
THEOREM MarkerTellsTheTruth == Spec /\ []Alone => []InstalledIsVerified
<1>1. IInv => InstalledIsVerified
  BY DEF IInv, Marked, Whole, InstalledIsVerified, Status, Exists
<1>2. QED
  BY <1>1, Invariance, PTL

(* What a pull resumes from is the beginning of the artifact               *)
(* (downloader.py's `.part`): each chunk stands in its place, and only a   *)
(* bad server makes it another one or puts one behind the end.  It is of   *)
(* commands that do not overlap, and says nothing of the length.           *)
THEOREM PartIsAPrefix == Spec /\ []Alone => []PartIsPrefix
<1>1. IInv => PartIsPrefix
  BY DEF IInv, Sound, Good, PartIsPrefix, Exists, TypeOK, Names, NoFile
<1>2. QED
  BY <1>1, Invariance, PTL

(* One process is always alone: the instances with one are covered.        *)
LEMMA OneProcessIsAlone ==
  ASSUME \A p, q \in Process : p = q
  PROVE  Spec => []Alone
<1>1. Alone
  BY DEF Alone
<1>2. QED
  BY <1>1, PTL

===============================================================================
