-------------------------------- MODULE Command --------------------------------
(***************************************************************************)
(* `lig generate`, `edit`, `seeds`, `sizes` and the start of `lig serve`   *)
(* (src/lig/cli/), as processes that share an output directory, a log      *)
(* directory and the cache of weights, without a lock on any of them.  The *)
(* decisions are those of module Rules.                                    *)
(*                                                                         *)
(* A command goes through its phases in the order of its function: plan    *)
(* (configuration, prompt, requests), backend, rewriter, memory, and then, *)
(* image by image, render and save; a batch ends with its contact sheet.   *)
(* A process may be killed between any two steps.  How it ends is named:   *)
(* "ok" 0, "error" 1, "usage" 2, "memory" 3, "unavailable" 4.              *)
(*                                                                         *)
(* The engine run itself is module Runner, the call of a remote host       *)
(* module Remote, what happens once `lig serve` listens module Daemon.     *)
(* Left out: printing, --json and --open, a temporary file or a half       *)
(* written sheet that a killed process leaves in the output directory.     *)
(***************************************************************************)
EXTENDS Rules

CONSTANTS
  Procs,
  Worlds,         \* machines, with their configuration and what is installed
  Menu,           \* Menu[p]: the command lines process p may be started with
  MaxLogs,        \* MAX_LOG_FILES, 50 in the code
  MaxRemovals,    \* how often weights are removed meanwhile (bounds the model)
  LateInterrupt   \* Ctrl-C may come after the last file of an image is in place

Kinds == {"generate", "edit", "seeds", "sizes", "serve"}

Addresses == {"loopback", "tailnet", "wildcard", "address"}

AnySize == Int \X Int

(* What the option parser lets through: the prompt may be blank, a number  *)
(* any number, a size any pair; the argument of --bind may be no address.  *)
IsCommandLine(o) ==
  /\ o.kind \in Kinds
  /\ o.prompt \in {{}, {"typed"}, {"blank"}}
  /\ o.size \subseteq AnySize /\ o.sizes \in Seq(AnySize)
  /\ o.source \in AnySize \cup {<<>>}
  /\ {o.count} \cup o.seed \cup o.steps \cup o.strength \subseteq Int
  /\ o.bind \subseteq Addresses \cup {"malformed"}

(* And the types a layer of the configuration is parsed to.                *)
IsLayer(layer) ==
  /\ "size" \in DOMAIN layer => layer["size"] \in AnySize
  /\ "steps" \in DOMAIN layer => layer["steps"] \in Int
  /\ "serve.bind" \in DOMAIN layer => layer["serve.bind"] \in Addresses \cup {"none", "malformed"}

ASSUME CommandAssumption ==
  /\ IsFiniteSet(Procs) /\ Procs # {}
  /\ \A p \in Procs : \A o \in Menu[p] : IsCommandLine(o)
  /\ \A w \in Worlds : IsLayer(w.env) /\ IsLayer(w.file) /\ w.memory \subseteq Int
  /\ MaxLogs \in Nat \ {0} /\ MaxRemovals \in Nat /\ LateInterrupt \in BOOLEAN

VARIABLES
  world,      \* the machine: never changes
  opts,       \* the command line of each process: never changes
  installed,  \* roles whose weights are in the cache
  phase, exit,
  requests,   \* the requests a command renders, one after the other
  original,   \* `original_prompt`: what the user typed, if it was expanded
  posts,      \* calls of the rewriter
  runs,       \* engine runs started
  members,    \* stems of the images a command has written
  stem,       \* the free stem found for the image being written
  stale,      \* logs found to be too old by prune_logs
  listening,  \* where `lig serve` listens
  files,      \* images and sidecars in the output directory
  sheets,     \* contact sheets and their sidecars, named by their batch
  logs,       \* logs in the log directory, by the time of their creation
  clock,      \* number of logs ever created
  contested   \* stems that two processes had found free at the same time

command == <<phase, exit, requests, original, posts, runs, members, stem, stale, listening>>
shared == <<installed, files, sheets, logs, clock, contested>>
vars == <<world, opts, command, shared>>

-------------------------------------------------------------------------------
(* What a command line comes to                                            *)

(* `--host` implies the remote engine (engine_flag).                       *)
Flags(o) ==
  CASE o.host # {} -> [engine |-> "remote"]
    [] o.host = {} /\ o.engine # {} -> [engine |-> OrElse(o.engine, "auto")]
    [] OTHER -> <<>>

FlagsAgree(o) == o.host = {} \/ o.engine \in {{}, {"remote"}}

SettingsFor(p) == Settings(Flags(opts[p]), world.env, world.file)

EngineOf(p) == EngineName(SettingsFor(p), world)

(* The prompt, the one of an argument or of a saved sidecar, and what the  *)
(* sidecar says was typed originally.                                      *)
PromptOf(o) == IF o.from # {} THEN "saved" ELSE OrElse(o.prompt, "blank")

OriginalOf(o) == IF o.from # {} THEN world.savedOriginal ELSE {}

(* _prompt_source: an argument or a readable sidecar, not both; a saved    *)
(* prompt is not expanded again.                                           *)
PromptUsable(o, s) ==
  /\ (o.prompt = {}) # (o.from = {})
  /\ o.from # {} => o.from = {"saved"} /\ ~o.rewrite
  /\ o.rewrite => s["rewriter.endpoint"] # "none" /\ s["rewriter.model"] # "none"

MaxCount == 8     \* MAX_COUNT of seeds, MAX_SIZES of sizes

Usable(o, s) ==
  /\ FlagsAgree(o)
  /\ world.fileReadable /\ ValidSettings(s)
  /\ PromptUsable(o, s)
  /\ o.kind = "edit" => o.source # <<>>
  /\ o.kind = "seeds" => o.count \in 1 .. MaxCount
  /\ o.kind = "sizes" => Len(o.sizes) \in 1 .. MaxCount /\ IsInjective(o.sizes)

(* The first seed: the one given, or any that leaves room for the batch.   *)
FirstSeeds(o) ==
  IF o.seed # {} THEN o.seed ELSE 0 .. SeedLimit - (IF o.kind = "seeds" THEN o.count ELSE 1)

SizesOf(o, s) ==
  LET byDefault == IsDefault("size", Flags(o), world.env, world.file)
  IN  CASE o.kind = "generate" -> <<EffectiveSize(o.size, s, world, byDefault)>>
        [] o.kind = "edit" -> <<OrElse(o.size, EditSize(o.source))>>
        [] o.kind = "seeds" -> [i \in 1 .. o.count |-> EffectiveSize(o.size, s, world, byDefault)]
        [] o.kind = "sizes" -> o.sizes

(* build_request and build_edit_request, once per image.                   *)
Requests(o, s, seed) ==
  LET sizes == SizesOf(o, s)
      byDefault == IsDefault("steps", Flags(o), world.env, world.file)
  IN  [i \in DOMAIN sizes |->
         [prompt |-> PromptOf(o), size |-> sizes[i],
          steps |-> EffectiveSteps(o.steps, s, world, byDefault),
          seed |-> IF o.kind = "seeds" THEN seed + i - 1 ELSE seed,
          strength |-> o.strength]]

-------------------------------------------------------------------------------
Init ==
  /\ world \in Worlds
  /\ opts \in {o \in [Procs -> UNION {Menu[p] : p \in Procs}] : \A p \in Procs : o[p] \in Menu[p]}
  /\ installed = world.installed
  /\ phase = [p \in Procs |-> "plan"]
  /\ exit = [p \in Procs |-> "none"]
  /\ requests = [p \in Procs |-> <<>>]
  /\ original = [p \in Procs |-> {}]
  /\ posts = [p \in Procs |-> 0]
  /\ runs = [p \in Procs |-> 0]
  /\ members = [p \in Procs |-> <<>>]
  /\ stem = [p \in Procs |-> <<>>]
  /\ stale = [p \in Procs |-> {}]
  /\ listening = [p \in Procs |-> "nowhere"]
  /\ files = {} /\ sheets = {} /\ contested = {}
  /\ logs = 1 .. MaxLogs
  /\ clock = MaxLogs

Goes(p, to) == phase' = [phase EXCEPT ![p] = to] /\ UNCHANGED exit

Ends(p, how) == phase' = [phase EXCEPT ![p] = "over"] /\ exit' = [exit EXCEPT ![p] = how]

(* load_settings, _prompt_source and the requests: whatever is wrong with  *)
(* them is a usage error.                                                  *)
Plan(p) ==
  LET o == opts[p]
      s == SettingsFor(p)
  IN
  /\ phase[p] = "plan" /\ o.kind # "serve"
  /\ IF Usable(o, s)
       THEN \E seed \in FirstSeeds(o) :
              LET planned == Requests(o, s, seed)
              IN  IF \A i \in DOMAIN planned : ValidRequest(planned[i])
                    THEN /\ requests' = [requests EXCEPT ![p] = planned]
                         /\ original' = [original EXCEPT ![p] = OriginalOf(o)]
                         /\ Goes(p, "backend")
                    ELSE Ends(p, "usage") /\ UNCHANGED <<requests, original>>
       ELSE Ends(p, "usage") /\ UNCHANGED <<requests, original>>
  /\ UNCHANGED <<world, opts, posts, runs, members, stem, stale, listening, shared>>

(* The capabilities a command asks for after open_backend.                 *)
CannotDo(o, engine) ==
  \/ o.kind = "edit" /\ ~SupportsEdit(engine, world, installed)
  \/ o.transparent /\ ~SupportsTransparent(engine, world)

(* open_backend, and the look at what the backend can do.                  *)
OpenBackend(p) ==
  LET o == opts[p]
      engine == EngineOf(p)
      made == Made(engine, SettingsFor(p), o.host)
  IN
  /\ phase[p] = "backend"
  /\ IF (o.wait /\ engine # "remote") \/ made = "unknown" THEN Ends(p, "usage")
     ELSE IF \/ made = "unavailable"
             \/ ~Available(engine, world, installed)
             \/ CannotDo(o, engine)
            THEN Ends(p, "unavailable")
     ELSE Goes(p, IF o.rewrite THEN "rewrite" ELSE "memory")
  /\ UNCHANGED <<world, opts, requests, original, posts, runs, members, stem, stale, listening,
                 shared>>

(* What a call of the rewriter comes to: a usable prompt, 429 or 503, or   *)
(* any other answer or none.                                               *)
RewriterAnswers == {"expanded", "busy", "unusable"}

(* A plausible bug: a busy rewriter is asked again without end.            *)
Retry_Always(n) == TRUE

(* _post of the rewriter: one more call, when it was busy.                 *)
Retry(n) == n = 1

(* rewrite_prompt and _rewrite_request.  Without an answer the original    *)
(* prompt is used, unless someone is there to say no.                      *)
Rewrite(p) ==
  LET n == posts[p] + 1 IN
  /\ phase[p] = "rewrite"
  /\ posts' = [posts EXCEPT ![p] = n]
  /\ \E answer \in RewriterAnswers :
       CASE answer = "expanded" ->
              /\ requests' = [requests EXCEPT ![p][1].prompt = "expanded"]
              /\ original' = [original EXCEPT ![p] = {requests[p][1].prompt}]
              /\ Goes(p, "memory")
         [] answer = "busy" /\ Retry(n) -> UNCHANGED <<requests, original, phase, exit>>
         [] OTHER -> /\ \/ Goes(p, "memory")
                        \/ world.terminal /\ Ends(p, "error")
                     /\ UNCHANGED <<requests, original>>
  /\ UNCHANGED <<world, opts, runs, members, stem, stale, listening, shared>>

Area(r) == r.size[1] * r.size[2]

(* The request whose memory is estimated: for `sizes` the largest, and the *)
(* others do not differ in size.                                           *)
Measured(rs) == CHOOSE r \in ToSet(rs) : \A q \in ToSet(rs) : Area(q) <= Area(r)

(* estimate_memory and memory_preflight.                                   *)
Preflight(p) ==
  LET size == Measured(requests[p]).size
      estimate == EstimateMemory(EngineOf(p), world.platform, size)
  IN
  /\ phase[p] = "memory"
  /\ IF ~RegistryLoads THEN Ends(p, "error")
     ELSE IF MemoryRefuses(estimate, world.memory, opts[p].force) THEN Ends(p, "memory")
     ELSE Goes(p, "render")
  /\ UNCHANGED <<world, opts, requests, original, posts, runs, members, stem, stale, listening,
                 shared>>

-------------------------------------------------------------------------------
(* Rendering                                                               *)

Edits(p) == opts[p].kind = "edit"

(* A plausible bug: the same exit code as before the first render.         *)
RenderError_Unavailable(p) == "unavailable"

(* handle_engine_errors: an EngineError of a render, whatever its kind,    *)
(* ends the command with code 1.                                           *)
RenderError(p) == "error"

(* _weights, or the same look in _run: the adapter checks once more that   *)
(* it has what it needs, since that may have gone meanwhile.               *)
CheckWeights(p) ==
  /\ phase[p] = "render"
  /\ IF ReadyToRun(EngineOf(p), world, installed, Edits(p))
       THEN Goes(p, IF EngineOf(p) \in {"sdcpp", "ncnn"} THEN "prune" ELSE "start")
       ELSE Ends(p, RenderError(p))
  /\ UNCHANGED <<world, opts, requests, original, posts, runs, members, stem, stale, listening,
                 shared>>

(* A plausible bug: room for the new log is not made.                      *)
Newest_All(set) == {l \in set : Cardinality({m \in set : m > l}) < MaxLogs}

(* The logs prune_logs keeps when it makes room for one.                   *)
Newest(set) == {l \in set : Cardinality({m \in set : m > l}) < MaxLogs - 1}

(* prune_logs lists the directory ...                                      *)
ListLogs(p) ==
  /\ phase[p] = "prune"
  /\ stale' = [stale EXCEPT ![p] = logs \ Newest(logs)]
  /\ Goes(p, "log")
  /\ UNCHANGED <<world, opts, requests, original, posts, runs, members, stem, listening, shared>>

(* ... and unlinks what is too old; EngineLog creates its own log, named   *)
(* by the time, and the engine is started.                                 *)
OpenLog(p) ==
  /\ phase[p] = "log"
  /\ clock' = clock + 1
  /\ logs' = (logs \ stale[p]) \cup {clock + 1}
  /\ stale' = [stale EXCEPT ![p] = {}]
  /\ runs' = [runs EXCEPT ![p] = @ + 1]
  /\ Goes(p, "engine")
  /\ UNCHANGED <<world, opts, requests, original, posts, members, stem, listening, installed,
                 files, sheets, contested>>

(* An engine in this process, or the call of the remote host.              *)
StartEngine(p) ==
  /\ phase[p] = "start"
  /\ runs' = [runs EXCEPT ![p] = @ + 1]
  /\ Goes(p, "engine")
  /\ UNCHANGED <<world, opts, requests, original, posts, members, stem, stale, listening, shared>>

(* The call returns an image, or raises: the engine failed, or it exited   *)
(* with 0 and wrote no image.                                              *)
EngineEnds(p) ==
  /\ phase[p] = "engine"
  /\ Goes(p, "save") \/ Ends(p, RenderError(p))
  /\ UNCHANGED <<world, opts, requests, original, posts, runs, members, stem, stale, listening,
                 shared>>

-------------------------------------------------------------------------------
(* Saving: write_result                                                    *)

Index(p) == Len(members[p]) + 1

(* The name of an image: its prompt and seed.  All images are saved within *)
(* the same second, which is when names can clash.                         *)
Base(p) == LET r == requests[p][Index(p)] IN <<r.prompt, r.seed>>

(* A file, with who wrote it and what for.                                 *)
File(p, ext) ==
  [stem |-> stem[p], ext |-> ext, by |-> p, request |-> requests[p][Index(p)],
   original |-> original[p]]

Put(dir, f) == {g \in dir : g.stem # f.stem \/ g.ext # f.ext} \cup {f}

(* _free_stem: the first number with neither an image nor a sidecar.       *)
FreeStem(base) ==
  LET taken == {f.stem[2] : f \in {g \in files : g.stem[1] = base}}
  IN  <<base, Smallest(1 .. Cardinality(taken) + 1 \ taken)>>

(* The processes that are between finding a stem and writing the image.    *)
Writing(p) == phase[p] \in {"sidecar", "image"}

(* The image is decoded and given its texts (an engine's invalid PNG ends  *)
(* the command here); a free stem is found.                                *)
FindStem(p) ==
  LET found == FreeStem(Base(p)) IN
  /\ phase[p] = "save"
  /\ \/ /\ stem' = [stem EXCEPT ![p] = found]
        /\ contested' = contested \cup {found : q \in {q \in Procs : Writing(q) /\ stem[q] = found}}
        /\ Goes(p, "sidecar")
     \/ Ends(p, "error") /\ UNCHANGED <<stem, contested>>
  /\ UNCHANGED <<world, opts, requests, original, posts, runs, members, stale, listening,
                 installed, files, sheets, logs, clock>>

(* A plausible bug: the image goes first.                                  *)
WriteSidecar_ImageFirst(p) ==
  /\ phase[p] = "sidecar"
  /\ files' = Put(files, File(p, "png"))
  /\ Goes(p, "image")
  /\ UNCHANGED <<world, opts, requests, original, posts, runs, members, stem, stale, listening,
                 installed, sheets, logs, clock, contested>>

WriteSidecar(p) ==
  /\ phase[p] = "sidecar"
  /\ files' = Put(files, File(p, "json"))
  /\ Goes(p, "image")
  /\ UNCHANGED <<world, opts, requests, original, posts, runs, members, stem, stale, listening,
                 installed, sheets, logs, clock, contested>>

WantsSheet(p) == opts[p].kind \in {"seeds", "sizes"} /\ opts[p].sheet

(* After an image: the next one, the sheet of a batch, or the end.         *)
Afterwards(p) ==
  IF Index(p) < Len(requests[p]) THEN Goes(p, "render")
  ELSE IF WantsSheet(p) THEN Goes(p, "sheet")
  ELSE Ends(p, "ok")

WriteImage(p) ==
  /\ phase[p] = "image"
  /\ files' = Put(files, File(p, "png"))
  /\ members' = [members EXCEPT ![p] = Append(@, stem[p])]
  /\ Afterwards(p)
  /\ UNCHANGED <<world, opts, requests, original, posts, runs, stem, stale, listening,
                 installed, sheets, logs, clock, contested>>

(* A plausible bug: a failed write is passed over.                         *)
WriteFails_GoOn(p) ==
  /\ phase[p] = "image"
  /\ files' = {g \in files : g.stem # stem[p] \/ g.ext # "json"}
  /\ members' = [members EXCEPT ![p] = Append(@, stem[p])]
  /\ Afterwards(p)
  /\ UNCHANGED <<world, opts, requests, original, posts, runs, stem, stale, listening,
                 installed, sheets, logs, clock, contested>>

(* The sidecar, the sheet or its sidecar cannot be written: what is there  *)
(* stays, and the command ends.                                            *)
CannotWrite(p) ==
  /\ phase[p] \in {"sidecar", "sheet", "sheet sidecar"}
  /\ Ends(p, "error")
  /\ UNCHANGED <<world, opts, requests, original, posts, runs, members, stem, stale, listening,
                 shared>>

(* The image cannot be written, or Ctrl-C comes: the sidecar is taken      *)
(* back, whoever wrote it.  An interrupt may come when the image is        *)
(* already in its place and _atomic_write has not returned.                *)
WriteFails(p) ==
  /\ phase[p] = "image"
  /\ \E late \in {FALSE, LateInterrupt} :
       files' = {g \in IF late THEN Put(files, File(p, "png")) ELSE files :
                   g.stem # stem[p] \/ g.ext # "json"}
  /\ Ends(p, "error")
  /\ UNCHANGED <<world, opts, requests, original, posts, runs, members, stem, stale, listening,
                 installed, sheets, logs, clock, contested>>

SheetFile(p, ext) == [batch |-> p, ext |-> ext, tiles |-> members[p]]

(* build_sheet: the sheet, and then its sidecar.                           *)
WriteSheet(p) ==
  /\ phase[p] = "sheet"
  /\ sheets' = sheets \cup {SheetFile(p, "png")}
  /\ Goes(p, "sheet sidecar")
  /\ UNCHANGED <<world, opts, requests, original, posts, runs, members, stem, stale, listening,
                 installed, files, logs, clock, contested>>

WriteSheetSidecar(p) ==
  /\ phase[p] = "sheet sidecar"
  /\ sheets' = sheets \cup {SheetFile(p, "json")}
  /\ Ends(p, "ok")
  /\ UNCHANGED <<world, opts, requests, original, posts, runs, members, stem, stale, listening,
                 installed, files, logs, clock, contested>>

-------------------------------------------------------------------------------
(* lig serve                                                               *)

(* A configuration error ends `serve` with code 1; a bad address, an open  *)
(* one that was not asked for explicitly, and an unknown engine with 2.    *)
Serve(p) ==
  LET o == opts[p]
      s == Settings(<<>>, world.env, world.file)
      configured == {s["serve.bind"]} \ {"none"}
      at == Bind(o.bind, configured, world.tailnet, o.iKnow)
      made == Made(OrElse(o.engine, EngineName(s, world)), s, {})
  IN
  /\ phase[p] = "plan" /\ o.kind = "serve"
  /\ IF ~world.fileReadable \/ ~ValidSettings(s) THEN Ends(p, "error") /\ UNCHANGED listening
     ELSE IF "malformed" \in o.bind \cup configured \/ at = "refused" \/ made = "unknown"
       THEN Ends(p, "usage") /\ UNCHANGED listening
     ELSE IF made = "unavailable" THEN Ends(p, "error") /\ UNCHANGED listening
     ELSE Goes(p, "serving") /\ listening' = [listening EXCEPT ![p] = at]
  /\ UNCHANGED <<world, opts, requests, original, posts, runs, members, stem, stale, shared>>

-------------------------------------------------------------------------------
(* SIGKILL, or Ctrl-C where nothing is taken back.                         *)
Kill(p) ==
  /\ phase[p] # "over"
  /\ Ends(p, "killed")
  /\ UNCHANGED <<world, opts, requests, original, posts, runs, members, stem, stale, listening,
                 shared>>

(* `lig models rm`, by somebody else.                                      *)
RemoveWeights ==
  /\ Cardinality(world.installed \ installed) < MaxRemovals
  /\ \E role \in installed : installed' = installed \ {role}
  /\ UNCHANGED <<world, opts, command, files, sheets, logs, clock, contested>>

CommandStep(p) ==
  \/ Plan(p) \/ OpenBackend(p) \/ Rewrite(p) \/ Preflight(p)
  \/ CheckWeights(p) \/ ListLogs(p) \/ OpenLog(p) \/ StartEngine(p) \/ EngineEnds(p)
  \/ FindStem(p) \/ WriteSidecar(p) \/ WriteImage(p) \/ WriteFails(p)
  \/ CannotWrite(p) \/ WriteSheet(p) \/ WriteSheetSidecar(p) \/ Serve(p)

Next == RemoveWeights \/ \E p \in Procs : CommandStep(p) \/ Kill(p)

Spec == Init /\ [][Next]_vars

-------------------------------------------------------------------------------
Phases == {"plan", "backend", "rewrite", "memory", "render", "prune", "log", "start", "engine",
           "save", "sidecar", "image", "sheet", "sheet sidecar", "serving", "over"}

(* The types of the commands' locals and of the shared directories.        *)
TypeOK ==
  /\ world \in Worlds
  /\ \A p \in Procs : opts[p] \in Menu[p]
  /\ installed \subseteq world.installed
  /\ phase \in [Procs -> Phases]
  /\ exit \in [Procs -> {"none", "ok", "error", "usage", "memory", "unavailable", "killed"}]
  /\ \A p \in Procs : Len(members[p]) <= Len(requests[p]) /\ Len(requests[p]) <= MaxCount
  /\ posts \in [Procs -> 0 .. 2]
  /\ runs \in [Procs -> 0 .. MaxCount]
  /\ original \in [Procs -> {{}, {"typed"}} \cup {world.savedOriginal}]
  /\ listening \in [Procs -> {"nowhere"} \cup Addresses]
  /\ \A f \in files : f.ext \in {"png", "json"} /\ f.by \in Procs
  /\ \A p \in Procs : stale[p] \cup logs \subseteq 1 .. clock

(* A command that refuses, with the codes 2, 3 or 4 of a usage error, of   *)
(* too little memory and of an engine that cannot do it, has started no    *)
(* engine, written nothing and opened no port, and but for the memory      *)
(* check, which comes after it, it has not called the rewriter (the order  *)
(* of cli/generate.py; "nothing has been run", core/run.py).               *)
RefusedMeansNothingDone ==
  \A p \in Procs : exit[p] \in {"usage", "memory", "unavailable"} =>
    /\ runs[p] = 0 /\ listening[p] = "nowhere"
    /\ \A f \in files : f.by # p
    /\ exit[p] # "memory" => posts[p] = 0

(* write_result: no image without its own sidecar, wherever a command is   *)
(* killed or a write fails, except where two processes had found the same  *)
(* stem free before either wrote.                                          *)
ImageHasSidecar ==
  \A f \in files : f.ext = "png" /\ f.stem \notin contested =>
    \E g \in files : g = [f EXCEPT !.ext = "json"]

Apart(a, b) ==
  \E d \in 1 .. 2 : a.at[d] + a.tile[d] <= b.at[d] \/ b.at[d] + b.tile[d] <= a.at[d]

(* The images a command has reported so far are all there, each rendered   *)
(* from its own request, and no two share a name.                          *)
ReportedAreThere(p) ==
  /\ \A i \in DOMAIN members[p] : members[p][i] \notin contested =>
       \E f \in files : /\ f.stem = members[p][i] /\ f.ext = "png"
                        /\ f.by = p /\ f.request = requests[p][i]
  /\ IsInjective(members[p])

(* A command that succeeds has made every image, and the sheet that was    *)
(* asked for is there with its sidecar and shows exactly these images.     *)
SuccessIsComplete(p) ==
  exit[p] = "ok" =>
    /\ Len(members[p]) = Len(requests[p])
    /\ {s \in sheets : s.batch = p} =
         IF WantsSheet(p) THEN {SheetFile(p, "png"), SheetFile(p, "json")} ELSE {}

(* No tile of its sheet covers another.                                    *)
TilesApart(p) ==
  exit[p] = "ok" =>
    LET tiles == Layout([i \in DOMAIN requests[p] |-> requests[p][i].size])
    IN  \A i, j \in DOMAIN tiles : i # j => Apart(tiles[i], tiles[j])

(* A batch (seeds, sizes) and a single command alike: what is reported is  *)
(* true at any time, nothing is missing after a success, and the sheet     *)
(* shows all of it (write_result, core/sheet.py).                          *)
BatchTellsTheTruth ==
  \A p \in Procs : ReportedAreThere(p) /\ SuccessIsComplete(p) /\ TilesApart(p)

(* The size a request must have when --size is not given, said without the *)
(* loop that merges the layers: the environment wins over the file, the    *)
(* file over what lig chooses itself.                                      *)
SizeSaid(p) ==
  CASE "size" \in DOMAIN world.env -> world.env["size"]
    [] "size" \notin DOMAIN world.env /\ "size" \in DOMAIN world.file -> world.file["size"]
    [] OTHER -> IF world.platform = "linux" /\ EngineOf(p) # "remote"
                  THEN <<768, 768>> ELSE <<1024, 1024>>

SizeIsRight(p, r) ==
  opts[p].kind \in {"generate", "seeds"} => r.size = OrElse(opts[p].size, SizeSaid(p))

FitsInMemory(p, r) ==
  ~opts[p].force =>
    \A need \in EstimateMemory(EngineOf(p), world.platform, r.size), have \in world.memory :
      need <= have

NearestWouldDo(p) ==
  \A size \in opts[p].size : \A near \in Nearest(size), d \in 1 .. 2 :
    /\ ValidSize(near)
    /\ ~\E other \in MinSize .. MaxSize :
         /\ ValidSide(other)
         /\ \/ size[d] < other /\ other < near[d]
            \/ near[d] < other /\ other < size[d]

(* What gets as far as an engine was admitted by the rules: each image has *)
(* a size that can be rendered, the one of the highest layer that has one  *)
(* (flag, environment, file, lig's own), and unless --force was given none *)
(* of a batch needs more memory than there is.  The sizes proposed to a    *)
(* user who gave an impossible one would be admitted, and are the nearest. *)
(* A daemon listens on every interface only behind Tailscale or when told  *)
(* that this is known.                                                     *)
AdmittedByTheRules ==
  \A p \in Procs :
    /\ runs[p] > 0 =>
         \A i \in DOMAIN requests[p] :
           LET r == requests[p][i]
           IN  ValidRequest(r) /\ SizeIsRight(p, r) /\ FitsInMemory(p, r)
    /\ exit[p] = "usage" => NearestWouldDo(p)
    /\ listening[p] = "wildcard" => world.tailnet \/ opts[p].iKnow

(* prune_logs and EngineLog in several processes at once: the directory    *)
(* has at most MAX_LOG_FILES logs, and one more for every other process    *)
(* that is creating one; none of the last MAX_LOG_FILES - 1 logs is gone.  *)
LogRetention ==
  /\ Cardinality(logs) <= MaxLogs + Cardinality(Procs) - 1
  /\ {l \in 1 .. clock : l > clock - (MaxLogs - 1)} \subseteq logs

(* core/memory.py: the estimate of an edit counts the vision projector     *)
(* (mmproj), which sd-cli loads for edits: an edit that was let through    *)
(* without --force fits into the memory there is.                          *)
EditFitsInMemory ==
  \A p \in Procs : runs[p] > 0 /\ Edits(p) /\ ~opts[p].force /\ EngineOf(p) = "sdcpp" =>
    \A have \in world.memory :
      PeakMemory("sdcpp", world.platform, requests[p][1].size, TRUE) <= have

===============================================================================
