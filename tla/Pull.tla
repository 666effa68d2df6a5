--------------------------------- MODULE Pull ---------------------------------
(***************************************************************************)
(* One artifact of the model cache and the commands that change its files: *)
(* `lig models pull` (src/lig/models/downloader.py), `verify`, `rm` and    *)
(* `prune` (src/lig/models/cache.py, src/lig/cli/app.py).  The files are   *)
(* all the state there is: nothing locks them, and a command may be        *)
(* killed, or fail, between any two of its steps.                          *)
(*                                                                         *)
(* A file is a sequence of chunks; chunk i of the artifact is the number   *)
(* i, and Bad is any chunk that differs from the one that belongs there    *)
(* or stands behind the end of the artifact.                               *)
(* A sha256 is as good as the content it was computed from.  Names and     *)
(* contents are kept apart, because a process goes on writing to a file    *)
(* that another one has renamed.                                           *)
(***************************************************************************)
EXTENDS Integers, SequencesExt

CONSTANTS
  Process,      \* the lig commands that may run at the same time
  Chunks,       \* how many chunks the artifact has
  MaxCalls,     \* how many commands are started at most
  BadServer,    \* TRUE: the server may send other bytes, and more or fewer of them
  MaxExcess     \* how many chunks too many `.part` gets at most (bounds the model)

ASSUME PullAssumption ==
  /\ Chunks \in Nat \ {0}
  /\ MaxCalls \in Nat
  /\ BadServer \in BOOLEAN
  /\ MaxExcess \in Nat

Bad == 0

Payload == [i \in 1 .. Chunks |-> i]

(* At most two files are created per command, by its requests.             *)
Files == 1 .. 2 * MaxCalls
NoFile == 0

Names == {"target", "part", "corrupt"}

VARIABLES
  content,   \* content of each file
  created,   \* how many files were created
  name,      \* the file of each name: <filename>, .part, .corrupt
  marker,    \* whether <filename>.sha256.ok exists
  rotted,    \* history: files damaged on the disk
  calls,     \* how many commands were started
  pc,        \* where each process is
  force,     \* its --force
  offset,    \* its `offset`
  digest,    \* what its sha256 has been fed
  fd,        \* the file it writes
  next,      \* the next chunk the server sends it
  left       \* the files `rm` has listed and not yet unlinked

disk == <<content, created, name, marker, rotted>>
locals == <<force, offset, digest, fd, next, left>>
vars == <<disk, calls, pc, locals>>

Init ==
  /\ content = [f \in Files |-> << >>]
  /\ created = 0
  /\ name = [n \in Names |-> NoFile]
  /\ marker = FALSE
  /\ rotted = {}
  /\ calls = 0
  /\ pc = [p \in Process |-> "idle"]
  /\ force = [p \in Process |-> FALSE]
  /\ offset = [p \in Process |-> 0]
  /\ digest = [p \in Process |-> << >>]
  /\ fd = [p \in Process |-> NoFile]
  /\ next = [p \in Process |-> 1]
  /\ left = [p \in Process |-> << >>]

-------------------------------------------------------------------------------

Exists(n) == name[n] # NoFile

(* artifact_status                                                         *)
Status ==
  CASE Exists("part") -> "partial"
    [] ~Exists("part") /\ ~Exists("target") -> "missing"
    [] ~Exists("part") /\ Exists("target") -> IF marker THEN "installed" ELSE "unverified"

Goto(p, to) == pc' = [pc EXCEPT ![p] = to]

-------------------------------------------------------------------------------
(* lig models pull                                                         *)

Call(p, f) ==
  /\ pc[p] = "idle"
  /\ calls < MaxCalls
  /\ calls' = calls + 1
  /\ force' = [force EXCEPT ![p] = f]
  /\ Goto(p, "start")
  /\ UNCHANGED <<disk, offset, digest, fd, next, left>>

(* "already installed", --force, or a download.                            *)
CheckStatus(p) ==
  /\ pc[p] = "start"
  /\ Goto(p, CASE force[p] -> "unmark"
               [] ~force[p] /\ Status = "installed" -> "idle"
               [] ~force[p] /\ Status # "installed" -> "request")
  /\ UNCHANGED <<disk, calls, locals>>

(* --force: marker.unlink, target.unlink.                                  *)
UnlinkMarker(p) ==
  /\ pc[p] = "unmark"
  /\ marker' = FALSE
  /\ Goto(p, "unlink")
  /\ UNCHANGED <<content, created, name, rotted, calls, locals>>

UnlinkTarget(p) ==
  /\ pc[p] = "unlink"
  /\ name' = [name EXCEPT !["target"] = NoFile]
  /\ Goto(p, "request")
  /\ UNCHANGED <<content, created, marker, rotted, calls, locals>>

(* A plausible bug: the range starts one chunk too late.                   *)
Request_OffByOne(p) ==
  /\ pc[p] = "request"
  /\ offset' = [offset EXCEPT ![p] = IF Exists("part") THEN Len(content[name["part"]]) + 1 ELSE 0]
  /\ Goto(p, "requested")
  /\ UNCHANGED <<disk, calls, force, digest, fd, next, left>>

(* The request asks for what `.part` does not have yet.                    *)
Request(p) ==
  /\ pc[p] = "request"
  /\ offset' = [offset EXCEPT ![p] = IF Exists("part") THEN Len(content[name["part"]]) ELSE 0]
  /\ Goto(p, "requested")
  /\ UNCHANGED <<disk, calls, force, digest, fd, next, left>>

(* A plausible bug: after a 416 the pull starts over with the same part.   *)
Rejected_KeepPart(p) ==
  /\ pc[p] = "requested" /\ offset[p] > 0
  /\ Goto(p, "start")
  /\ force' = [force EXCEPT ![p] = FALSE]
  /\ UNCHANGED <<disk, calls, offset, digest, fd, next, left>>

(* 416: part.unlink and _retry_from_zero, which forgets --force.           *)
Rejected(p) ==
  /\ pc[p] = "requested" /\ offset[p] > 0
  /\ Exists("part")
  /\ name' = [name EXCEPT !["part"] = NoFile]
  /\ Goto(p, "start")
  /\ force' = [force EXCEPT ![p] = FALSE]
  /\ UNCHANGED <<content, created, marker, rotted, calls, offset, digest, fd, next, left>>

(* 206: the file so far is hashed and opened with "ab".  Only a bad server *)
(* has something behind the end of the artifact.                           *)
Resumed(p) ==
  /\ pc[p] = "requested" /\ offset[p] > 0
  /\ offset[p] < Chunks \/ BadServer
  /\ Exists("part")
  /\ fd' = [fd EXCEPT ![p] = name["part"]]
  /\ digest' = [digest EXCEPT ![p] = content[name["part"]]]
  /\ next' = [next EXCEPT ![p] = offset[p] + 1]
  /\ Goto(p, "receiving")
  /\ UNCHANGED <<disk, calls, force, offset, left>>

(* A plausible bug: a Range header that was ignored is not noticed.        *)
FromZero_Append(p) ==
  /\ pc[p] = "requested"
  /\ next' = [next EXCEPT ![p] = 1]
  /\ IF Exists("part")
       THEN /\ fd' = [fd EXCEPT ![p] = name["part"]]
            /\ digest' = [digest EXCEPT ![p] = content[name["part"]]]
            /\ UNCHANGED <<content, created, name>>
       ELSE /\ created' = created + 1
            /\ name' = [name EXCEPT !["part"] = created']
            /\ fd' = [fd EXCEPT ![p] = created']
            /\ digest' = [digest EXCEPT ![p] = << >>]
            /\ UNCHANGED content
  /\ UNCHANGED offset
  /\ Goto(p, "receiving")
  /\ UNCHANGED <<marker, rotted, calls, force, left>>

(* 200: "wb" creates `.part` or empties the file of that name.             *)
FromZero(p) ==
  /\ pc[p] = "requested"
  /\ offset' = [offset EXCEPT ![p] = 0]
  /\ digest' = [digest EXCEPT ![p] = << >>]
  /\ next' = [next EXCEPT ![p] = 1]
  /\ IF Exists("part")
       THEN /\ fd' = [fd EXCEPT ![p] = name["part"]]
            /\ content' = [content EXCEPT ![name["part"]] = << >>]
            /\ UNCHANGED <<created, name>>
       ELSE /\ created' = created + 1
            /\ name' = [name EXCEPT !["part"] = created']
            /\ fd' = [fd EXCEPT ![p] = created']
            /\ UNCHANGED content
  /\ Goto(p, "receiving")
  /\ UNCHANGED <<marker, rotted, calls, force, left>>

(* A write at position `at`; a gap reads as zeros.                         *)
WriteAt(c, at, x) ==
  [i \in 1 .. (IF Len(c) < at THEN at ELSE Len(c)) |->
     IF i = at THEN x ELSE IF i <= Len(c) THEN c[i] ELSE Bad]

(* With "ab" (offset > 0) a write goes to the end of the file, whoever     *)
(* else wrote to it; with "wb" to the place where this process is.  What   *)
(* arrives is written and hashed, however much it is.                      *)
Receive(p, x) ==
  /\ pc[p] = "receiving"
  /\ \/ next[p] <= Chunks /\ x = next[p]
     \/ BadServer /\ next[p] <= Chunks + MaxExcess /\ x = Bad
  /\ content' = [content EXCEPT ![fd[p]] =
                   IF offset[p] > 0 THEN Append(@, x) ELSE WriteAt(@, next[p], x)]
  /\ digest' = [digest EXCEPT ![p] = Append(@, x)]
  /\ next' = [next EXCEPT ![p] = @ + 1]
  /\ UNCHANGED <<created, name, marker, rotted, calls, pc, force, offset, fd, left>>

(* A body without a Content-Length may also end too early or too late.     *)
BodyEnds(p) == pc[p] = "receiving" /\ (next[p] > Chunks \/ BadServer)

(* part.replace(corrupt), ChecksumMismatch.                                *)
Mismatch(p) ==
  /\ BodyEnds(p) /\ digest[p] # Payload
  /\ Exists("part")
  /\ name' = [name EXCEPT !["corrupt"] = name["part"], !["part"] = NoFile]
  /\ Goto(p, "idle")
  /\ UNCHANGED <<content, created, marker, rotted, calls, locals>>

(* A plausible bug: a download of the right length is a good one.          *)
Promote_LengthOnly(p) ==
  /\ BodyEnds(p) /\ Len(digest[p]) = Chunks
  /\ Exists("part")
  /\ name' = [name EXCEPT !["target"] = name["part"], !["part"] = NoFile]
  /\ Goto(p, "mark")
  /\ UNCHANGED <<content, created, marker, rotted, calls, locals>>

(* part.replace(target)                                                    *)
Promote(p) ==
  /\ BodyEnds(p) /\ digest[p] = Payload
  /\ Exists("part")
  /\ name' = [name EXCEPT !["target"] = name["part"], !["part"] = NoFile]
  /\ Goto(p, "mark")
  /\ UNCHANGED <<content, created, marker, rotted, calls, locals>>

Mark(p) ==
  /\ pc[p] = "mark"
  /\ marker' = TRUE
  /\ Goto(p, "idle")
  /\ UNCHANGED <<content, created, name, rotted, calls, locals>>

-------------------------------------------------------------------------------
(* lig models verify, rm, prune                                            *)

(* verify_artifact up to the last byte hashed.                             *)
VerifyHash(p) ==
  /\ pc[p] = "idle"
  /\ calls < MaxCalls
  /\ Exists("target")
  /\ calls' = calls + 1
  /\ digest' = [digest EXCEPT ![p] = content[name["target"]]]
  /\ Goto(p, "hashed")
  /\ UNCHANGED <<disk, force, offset, fd, next, left>>

VerifyEnds(p) ==
  /\ pc[p] = "hashed"
  /\ marker' = (digest[p] = Payload)
  /\ Goto(p, "idle")
  /\ UNCHANGED <<content, created, name, rotted, calls, locals>>

Listed(n, exists) == IF exists THEN <<n>> ELSE << >>

(* artifact_files, and the user's confirmation.                            *)
RmLists(p) ==
  /\ pc[p] = "idle"
  /\ calls < MaxCalls
  /\ calls' = calls + 1
  /\ left' = [left EXCEPT ![p] =
                Listed("target", Exists("target")) \o Listed("marker", marker)
                \o Listed("part", Exists("part")) \o Listed("corrupt", Exists("corrupt"))]
  /\ left'[p] # << >>
  /\ Goto(p, "removing")
  /\ UNCHANGED <<disk, force, offset, digest, fd, next>>

RmUnlinks(p) ==
  /\ pc[p] = "removing" /\ left[p] # << >>
  /\ LET n == Head(left[p])
     IN  IF n = "marker"
           THEN marker /\ marker' = FALSE /\ UNCHANGED name
           ELSE Exists(n) /\ name' = [name EXCEPT ![n] = NoFile] /\ UNCHANGED marker
  /\ left' = [left EXCEPT ![p] = Tail(@)]
  /\ Goto(p, IF left'[p] = << >> THEN "idle" ELSE "removing")
  /\ UNCHANGED <<content, created, rotted, calls, force, offset, digest, fd, next>>

-------------------------------------------------------------------------------
(* The environment.                                                        *)

(* Ctrl-C, a crash, a DownloadError (the connection fails or the server    *)
(* answers with an error), an OSError (the disk is full, or a file is gone *)
(* that another process renamed): the command ends, the files stay.        *)
Fail(p) ==
  /\ pc[p] # "idle"
  /\ Goto(p, "idle")
  /\ UNCHANGED <<disk, calls, locals>>

(* The disk damages the installed file.                                    *)
Rot ==
  /\ Exists("target") /\ name["target"] \notin rotted
  /\ content' = [content EXCEPT ![name["target"]] = [i \in DOMAIN @ |-> Bad]]
  /\ rotted' = rotted \cup {name["target"]}
  /\ UNCHANGED <<created, name, marker, calls, pc, locals>>

-------------------------------------------------------------------------------
PullStep(p) ==
  \/ CheckStatus(p) \/ UnlinkMarker(p) \/ UnlinkTarget(p)
  \/ Request(p) \/ Rejected(p) \/ Resumed(p) \/ FromZero(p)
  \/ \E x \in Bad .. Chunks : Receive(p, x)
  \/ Mismatch(p) \/ Promote(p) \/ Mark(p)

Step(p) == PullStep(p) \/ VerifyEnds(p) \/ RmUnlinks(p)

Next ==
  \/ \E p \in Process :
       \/ \E f \in BOOLEAN : Call(p, f)
       \/ VerifyHash(p) \/ RmLists(p)
       \/ Step(p) \/ Fail(p)
  \/ Rot

Spec == Init /\ [][Next]_vars

(* A command goes on as long as it can; the server answers, or the timeout *)
(* of the HTTP client (30 s, 60 s to read) makes the command fail.         *)
Fairness == \A p \in Process : WF_vars(Step(p) \/ Fail(p))

FairSpec == Spec /\ Fairness

-------------------------------------------------------------------------------
(* Properties.                                                             *)

(* The variables hold what the files and the locals can hold.              *)
TypeOK ==
  /\ content \in [Files -> Seq(Bad .. Chunks)]
  /\ created \in 0 .. 2 * MaxCalls
  /\ name \in [Names -> Files \cup {NoFile}]
  /\ marker \in BOOLEAN
  /\ rotted \subseteq Files
  /\ calls \in 0 .. MaxCalls
  /\ pc \in [Process -> {"idle", "start", "unmark", "unlink", "request", "requested",
                         "receiving", "mark", "hashed", "removing"}]
  /\ force \in [Process -> BOOLEAN]
  /\ offset \in [Process -> 0 .. Chunks + MaxExcess]
  /\ digest \in [Process -> Seq(Bad .. Chunks)]
  /\ fd \in [Process -> Files \cup {NoFile}]
  /\ next \in [Process -> 1 .. Chunks + MaxExcess + 1]
  /\ left \in [Process -> Seq(Names \cup {"marker"})]

(* "A <filename>.sha256.ok marker means the checksum was confirmed"        *)
(* (cache.py:4-5): what reads as installed is the artifact of the          *)
(* registry, unless the disk damaged it afterwards - after commands that   *)
(* were killed, resumed, forced, rejected by the server or fed bad bytes.  *)
InstalledIsVerified ==
  Status = "installed" => content[name["target"]] = Payload \/ name["target"] \in rotted

(* What a pull resumes from is the beginning of the artifact: every chunk  *)
(* of `.part` is the one that belongs in its place, or one that a bad      *)
(* server sent there; none is there twice and none is left out.            *)
PartIsPrefix ==
  Exists("part") =>
    LET c == content[name["part"]]
    IN  \A i \in DOMAIN c : c[i] = i \/ (BadServer /\ c[i] = Bad)

(* A pull ends, whatever the server answers: a 416 makes it start over     *)
(* once, not for ever.                                                     *)
PullEnds == \A p \in Process : pc[p] = "start" ~> pc[p] = "idle"

(* What InstalledIsVerified says, of an instance in which two pulls of the *)
(* same artifact overlapped and have ended.  It does not hold: each        *)
(* process hashes the bytes it received, not the `.part` both of them      *)
(* write.                                                                  *)
OverlappingPullsVerified == (\A p \in Process : pc[p] = "idle") => InstalledIsVerified

===============================================================================
