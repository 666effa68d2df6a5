-------------------------------- MODULE Series --------------------------------
(***************************************************************************)
(* A photo series of `lig-series`: run_series (src/lig/series/runner.py),  *)
(* which plans and renders shot by shot and rewrites series.json after     *)
(* every render, and the `--resume` of src/lig/series/cli.py, which        *)
(* finishes a series from what series.json says.  A run can be killed      *)
(* between any two of its steps; the files stay.                           *)
(*                                                                         *)
(* An image is named by its shot, the run that rendered it and the seed it *)
(* was rendered with (two renders of a shot have two file names); of a     *)
(* plan only how many of its shots are known is kept.                      *)
(***************************************************************************)
EXTENDS Integers, SequencesExt

CONSTANTS
  Count,      \* how many shots the series has
  MaxRuns,    \* how many times lig-series is started for it at most
  Seeds       \* the random seeds that may be drawn

ASSUME SeriesAssumption ==
  /\ Count \in Nat \ {0}
  /\ MaxRuns \in Nat
  /\ Seeds \subseteq Nat

NoSeed == -1

Shots == 1 .. Count

Images == [shot : Shots, run : 1 .. MaxRuns, seed : Seeds]

NoImage == [shot |-> 0, run |-> 0, seed |-> NoSeed]

(* ShotRecord; `planned`: it has a title and a scene.                      *)
Record(i, status, planned, png) ==
  [index |-> i, status |-> status, planned |-> planned, png |-> png]

VARIABLES
  saved,      \* the shots of series.json
  savedSeed,  \* its seed, NoSeed as long as there is no series.json
  images,     \* the images in the series directory
  recorded,   \* history: images that series.json has once listed
  hasPlan,    \* whether the series was planned with --plan-only
  pc,         \* where run_series is; "idle" when no lig-series runs
  run,        \* which start of lig-series this is
  seed, keepGoing, done, known,   \* what run_series is given
  index, shots, exit,   \* its locals: index, manifest.shots, result.exit_code
  image,      \* the image `lig generate` wrote for shot `index`, or NoImage
  ended       \* how the last run ended

disk == <<saved, savedSeed, images, recorded>>
given == <<hasPlan, run, seed, keepGoing, done, known>>
locals == <<index, shots, exit, image>>
vars == <<disk, given, pc, locals, ended>>

Init ==
  /\ saved = << >>
  /\ savedSeed = NoSeed
  /\ images = {}
  /\ recorded = {}
  /\ hasPlan \in BOOLEAN
  /\ pc = "idle"
  /\ run = 0
  /\ seed = NoSeed
  /\ keepGoing = FALSE
  /\ done = {}
  /\ known = 0
  /\ index = 0
  /\ shots = << >>
  /\ exit = 0
  /\ image = NoImage
  /\ ended = "none"

Finished(records) == {r \in Range(records) : r.status = "done"}

(* write_manifest: atomic, so a kill leaves the old file or the new one.   *)
Write(records) ==
  /\ saved' = records
  /\ recorded' = recorded \cup {r.png : r \in Finished(records)}

-------------------------------------------------------------------------------
(* Starting lig-series.                                                    *)

(* run_series writes a manifest without shots before it does anything.     *)
Begin ==
  /\ pc = "idle"
  /\ run < MaxRuns
  /\ run' = run + 1
  /\ keepGoing' \in BOOLEAN
  /\ Write(<< >>)
  /\ savedSeed' = seed'
  /\ pc' = "planning"
  /\ index' = 0 /\ shots' = << >> /\ exit' = 0 /\ image' = NoImage
  /\ ended' = "none"
  /\ UNCHANGED <<images, hasPlan>>

(* A first run, in a directory of its own: live, or of a saved plan.       *)
NewSeries ==
  /\ savedSeed = NoSeed
  /\ seed' \in Seeds
  /\ Begin
  /\ done' = {}
  /\ known' = IF hasPlan THEN Count ELSE 0

(* What a resumed run need not render again.                               *)
Done == {r \in Finished(saved) : r.png \in images}

(* A plausible bug: the shots that succeeded, instead of those planned.    *)
PlannedPrefix_Done(records) ==
  Max({k \in 0 .. Len(records) : \A i \in 1 .. k : records[i].status = "done"})

(* "Shots are planned in order, so the planned ones are a prefix".         *)
PlannedPrefix(records) ==
  Max({k \in 0 .. Len(records) : \A i \in 1 .. k : records[i].planned})

(* --resume, with or without --from-plan; without --seed.                  *)
Resume(fromPlan) ==
  /\ savedSeed # NoSeed
  /\ fromPlan => hasPlan
  /\ seed' = savedSeed
  /\ Begin
  /\ done' = Done
  /\ known' = IF fromPlan THEN Count ELSE PlannedPrefix(saved)

-------------------------------------------------------------------------------
(* The loop of run_series.                                                 *)

Upcoming == index + 1

(* A plausible bug: the planner counts one shot too many.                  *)
HasNext_OffByOne == Upcoming <= Count + 1

HasNext == Upcoming <= Count

NoStep == UNCHANGED <<given, images, savedSeed, ended>>

(* What next(shots) needs gemma for.                                       *)
MustPlan == HasNext /\ Upcoming > known

(* A plausible bug: the records that fill up start where the last one is.  *)
WithSkipped_OffByOne(records) ==
  records \o [n \in 1 .. Count - Len(records) |->
                Record(Len(records) + n - 1, "skipped", FALSE, NoImage)]

(* The skipped records of a series that stops.                             *)
WithSkipped(records) ==
  records \o [n \in 1 .. Count - Len(records) |->
                Record(Len(records) + n, "skipped", FALSE, NoImage)]

(* plan_shot raises SeriesError: two answers of gemma were invalid.        *)
SceneInvalid ==
  /\ pc = "planning" /\ MustPlan
  /\ shots' = Append(shots, Record(Upcoming, "failed", FALSE, NoImage))
  /\ exit' = 1
  /\ pc' = "stopping"
  /\ UNCHANGED <<disk, given, index, image, ended>>

(* complete() raises GemmaError: gemma failed, timed out or is missing.    *)
(* It is no SeriesError, so it escapes run_series and ends lig-series.     *)
GemmaFails ==
  /\ pc = "planning" /\ MustPlan
  /\ pc' = "idle"
  /\ ended' = "escaped"
  /\ UNCHANGED <<disk, given, locals>>

(* The record of a shot that has its image is kept; series.json is not     *)
(* written.                                                                *)
KeepDone ==
  /\ pc = "planning" /\ HasNext
  /\ \E r \in done : r.index = Upcoming /\ shots' = Append(shots, r)
  /\ index' = Upcoming
  /\ UNCHANGED <<disk, given, pc, exit, image, ended>>

StartRender ==
  /\ pc = "planning" /\ HasNext
  /\ \A r \in done : r.index # Upcoming
  /\ index' = Upcoming
  /\ image' = NoImage
  /\ pc' = "rendering"
  /\ UNCHANGED <<disk, given, shots, exit, ended>>

(* `lig generate` writes its image and ends, or fails.                     *)
LigEnds(ok) ==
  /\ pc = "rendering"
  /\ image' = IF ok THEN [shot |-> index, run |-> run, seed |-> seed] ELSE NoImage
  /\ images' = IF ok THEN images \cup {image'} ELSE images
  /\ pc' = "rendered"
  /\ UNCHANGED <<given, saved, savedSeed, recorded, index, shots, exit, ended>>

Rendered == image # NoImage

Entry == Record(index, IF Rendered THEN "done" ELSE "failed", TRUE, image)

(* A plausible bug: the exit code is the one of the last render.           *)
RecordShot_LastCode ==
  /\ pc = "rendered"
  /\ shots' = Append(shots, Entry)
  /\ exit' = IF Rendered THEN 0 ELSE 1
  /\ Write(shots')
  /\ pc' = IF Rendered \/ keepGoing THEN "planning" ELSE "stopping"
  /\ UNCHANGED <<given, images, savedSeed, index, image, ended>>

RecordShot ==
  /\ pc = "rendered"
  /\ shots' = Append(shots, Entry)
  /\ exit' = IF Rendered THEN exit ELSE 1
  /\ Write(shots')
  /\ pc' = IF Rendered \/ keepGoing THEN "planning" ELSE "stopping"
  /\ UNCHANGED <<given, images, savedSeed, index, image, ended>>

(* The last write, and the return to the caller.                           *)
Return ==
  /\ \/ pc = "planning" /\ ~HasNext /\ shots' = shots
     \/ pc = "stopping" /\ shots' = WithSkipped(shots)
  /\ Write(shots')
  /\ pc' = "idle"
  /\ ended' = IF exit = 0 THEN "ok" ELSE "failed"
  /\ UNCHANGED <<given, images, savedSeed, index, exit, image>>

-------------------------------------------------------------------------------
(* The environment: Ctrl-C or a crash, and a user who removes an image.    *)

Kill ==
  /\ pc # "idle"
  /\ pc' = "idle"
  /\ ended' = "killed"
  /\ UNCHANGED <<disk, given, locals>>

RemoveImage(i) ==
  /\ pc = "idle"
  /\ i \in images
  /\ images' = images \ {i}
  /\ UNCHANGED <<saved, savedSeed, recorded, given, pc, locals, ended>>

-------------------------------------------------------------------------------
Next ==
  \/ NewSeries
  \/ \E fromPlan \in BOOLEAN : Resume(fromPlan)
  \/ SceneInvalid \/ GemmaFails \/ KeepDone \/ StartRender
  \/ \E ok \in BOOLEAN : LigEnds(ok)
  \/ RecordShot \/ Return
  \/ Kill
  \/ \E i \in images : RemoveImage(i)

Spec == Init /\ [][Next]_vars

-------------------------------------------------------------------------------
(* Properties.                                                             *)

Records ==
  [index : Shots, status : {"done", "failed", "skipped"}, planned : BOOLEAN,
   png : Images \cup {NoImage}]

(* The variables hold what the code's variables and files can hold.        *)
TypeOK ==
  /\ saved \in Seq(Records) /\ shots \in Seq(Records)
  /\ savedSeed \in Seeds \cup {NoSeed} /\ seed \in Seeds \cup {NoSeed}
  /\ images \subseteq Images /\ recorded \subseteq Images
  /\ hasPlan \in BOOLEAN /\ keepGoing \in BOOLEAN
  /\ pc \in {"idle", "planning", "rendering", "rendered", "stopping"}
  /\ run \in 0 .. MaxRuns
  /\ done \subseteq Records
  /\ known \in 0 .. Count /\ index \in 0 .. Count
  /\ exit \in {0, 1}
  /\ image \in Images \cup {NoImage}
  /\ ended \in {"none", "ok", "failed", "escaped", "killed"}

(* Whenever a run is killed, series.json is a truthful prefix of the       *)
(* series: its records are numbered 1, 2, ... and a shot is `done` exactly *)
(* if it has an image of that shot, one that was there when it was written *)
(* ("Written after each shot", docs/stories/epic-09-photo-series.md:175).  *)
ManifestTruth ==
  \A k \in DOMAIN saved :
    /\ saved[k].index = k
    /\ saved[k].status = "done" <=> saved[k].png # NoImage
    /\ saved[k].status = "done" => saved[k].png.shot = k
    /\ saved[k].png \in images \/ pc = "idle" \/ saved[k].status # "done"

(* A resumed run never asks gemma to plan a shot whose image it keeps:     *)
(* "the planned ones are a prefix" (cli.py:152), also when shots failed    *)
(* under --keep-going and when a plan could not be finished.               *)
DoneArePlanned == pc # "idle" => \A r \in done : r.index <= known

(* A run that returns has accounted for every shot, and its exit code is 0 *)
(* exactly if series.json lists all of them as done, the kept ones         *)
(* included.                                                               *)
ExitTellsTheTruth ==
  pc = "idle" /\ ended \in {"ok", "failed"} =>
    /\ Len(saved) = Count
    /\ ended = "ok" <=> \A k \in DOMAIN saved : saved[k].status = "done"

(* "Renders only the shots without an image" (README.md:247-248).  It does *)
(* not hold: a shot that series.json listed and whose image is still there *)
(* is rendered again.                                                      *)
ResumeRendersOnlyMissing ==
  [][pc = "planning" /\ pc' = "rendering" =>
       \A i \in images \cap recorded : i.shot # index']_vars

(* "Given a series stopped by a failure ... the failed and skipped shots   *)
(* are recorded" (docs/stories/epic-09-photo-series.md:173).  It does not  *)
(* hold: a failure of gemma itself escapes run_series.                     *)
FailureIsRecorded ==
  pc = "idle" /\ ended \in {"failed", "escaped"} => Len(saved) = Count

===============================================================================
