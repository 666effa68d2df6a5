--------------------------------- MODULE Rules ---------------------------------
(***************************************************************************)
(* The rules by which a `lig` command decides, before any engine is        *)
(* started, what is rendered, by which engine, and whether at all: the     *)
(* precedence of the configuration (src/lig/core/config.py), sizes, steps  *)
(* and the choice of the engine (core/run.py, core/models.py), the weights *)
(* of an engine (models/registry.py), the memory estimate (core/memory.py) *)
(* what each adapter can do (backends/) and where `lig serve` listens      *)
(* (server/bind.py).  All of it reads, and none of it writes: module       *)
(* Command, whose steps use these operators, has the state.                *)
(*                                                                         *)
(* A value that may be absent (None in the code) is a set of at most one   *)
(* element.  A size is a pair; memory is counted in MiB, because byte      *)
(* counts do not fit TLC's integers, and shares (the memory factor, an     *)
(* edit's strength) in hundredths.                                         *)
(***************************************************************************)
EXTENDS Integers, Sequences, FiniteSets, SequencesExt

CONSTANT SeedLimit    \* 2^SEED_BITS in the code

ASSUME RulesAssumption == SeedLimit \in Nat \ {0}

MinSize == 256
MaxSize == 4096
SizeStep == 32        \* SIZE_STEP, and SIZE_MULTIPLE of the configuration

Largest(set) == CHOOSE x \in set : \A y \in set : y <= x
Smallest(set) == CHOOSE x \in set : \A y \in set : x <= y

OrElse(option, default) == IF option = {} THEN default ELSE CHOOSE x \in option : TRUE

-------------------------------------------------------------------------------
(* Configuration: a layer is a function from the keys it mentions.         *)

Defaults ==
  [k \in {"engine", "output_dir", "models_dir", "ncnn_binary", "ncnn_model_dir", "hosts",
          "default_host", "steps", "size", "rewriter.endpoint", "rewriter.model", "serve.bind",
          "serve.idle_ttl", "engines.sdcpp.extra_args", "engines.mlx.quantize",
          "engines.mlx.image_strength"} |->
     CASE k = "engine" -> "auto"
       [] k = "hosts" -> {}
       [] k = "steps" -> 40
       [] k = "size" -> <<1024, 1024>>
       [] k = "serve.idle_ttl" -> 600
       [] k = "engines.mlx.quantize" -> "8"
       [] k = "engines.mlx.image_strength" -> 60
       [] OTHER -> "none"]

(* _leaf_keys, and the filters on them: a key lig does not know is dropped *)
(* from the file with a warning, and from the environment without one.     *)
LeafKeys == DOMAIN Defaults

Known(layer) == [k \in DOMAIN layer \cap LeafKeys |-> layer[k]]

(* A plausible bug: what was there first is kept.                          *)
Overlay_First(values, layer) ==
  [k \in DOMAIN values \cup DOMAIN layer |-> IF k \in DOMAIN values THEN values[k] ELSE layer[k]]

(* One pass of the loop of load_settings: a layer overwrites what the      *)
(* layers of lower precedence have put there.                              *)
Overlay(values, layer) ==
  [k \in DOMAIN values \cup DOMAIN layer |-> IF k \in DOMAIN layer THEN layer[k] ELSE values[k]]

Values(flags, env, file) == Overlay(Overlay(Overlay(<<>>, Known(file)), Known(env)), Known(flags))

Settings(flags, env, file) ==
  LET given == Values(flags, env, file)
  IN  [k \in LeafKeys |-> IF k \in DOMAIN given THEN given[k] ELSE Defaults[k]]

IsDefault(k, flags, env, file) == k \notin DOMAIN Values(flags, env, file)

(* The validators.  The size of a configuration need not be one that can   *)
(* be rendered: 32x32 passes here and is refused by ParseSize.             *)
ValidSettings(s) ==
  /\ \A i \in 1 .. 2 : s["size"][i] % SizeStep = 0 /\ s["size"][i] # 0
  /\ s["rewriter.endpoint"] # "not a url"
  /\ "not a url" \notin s["hosts"]
  /\ s["serve.idle_ttl"] >= 0
  /\ s["engines.mlx.quantize"] \in {"4", "8", "none"}
  /\ s["engines.mlx.image_strength"] \in 0 .. 100

-------------------------------------------------------------------------------
(* Sizes, steps, requests                                                  *)

Clamp(d) == IF d < MinSize THEN MinSize ELSE IF d > MaxSize THEN MaxSize ELSE d

Lower(d) == Clamp((d \div SizeStep) * SizeStep)
Upper(d) == Clamp(((d + SizeStep - 1) \div SizeStep) * SizeStep)

ValidSide(d) == d % SizeStep = 0 /\ d \in MinSize .. MaxSize

ValidSize(size) == ValidSide(size[1]) /\ ValidSide(size[2])

(* The sizes parse_size names when it refuses one.                         *)
Nearest(size) == {<<Lower(size[1]), Lower(size[2])>>, <<Upper(size[1]), Upper(size[2])>>}

(* default_edit_size: that of the picture to edit, rounded down.           *)
EditSize(source) == <<Lower(source[1]), Lower(source[2])>>

(* The fields GenerateRequest and EditRequest check.                       *)
ValidRequest(r) ==
  /\ r.prompt # "blank"
  /\ ValidSize(r.size)
  /\ r.steps >= 1
  /\ r.seed \in 0 .. SeedLimit - 1
  /\ \A strength \in r.strength : strength \in 0 .. 100

-------------------------------------------------------------------------------
(* Engines.  A machine is a record: its platform, whether it is an Apple   *)
(* Silicon one, whether mflux is installed and can edit, the engine        *)
(* binaries it has, the state of the ncnn model folder, what the health of *)
(* the remote host says, the memory available (if known) and whether       *)
(* Tailscale is up.                                                        *)

(* resolve_engine_name *)
EngineName(s, machine) ==
  CASE s["engine"] # "auto" -> s["engine"]
    [] s["engine"] = "auto" /\ s["default_host"] # "none" -> "remote"
    [] OTHER -> IF machine.platform = "darwin" /\ machine.silicon /\ machine.mflux
                  THEN "mlx" ELSE "sdcpp"

LinuxLocal(s, machine) == machine.platform = "linux" /\ EngineName(s, machine) # "remote"

(* effective_size_and_steps: only when nothing else says, a local engine   *)
(* on Linux gets less to do.                                               *)
EffectiveSize(size, s, machine, byDefault) ==
  OrElse(size, IF LinuxLocal(s, machine) /\ byDefault THEN <<768, 768>> ELSE s["size"])

EffectiveSteps(steps, s, machine, byDefault) ==
  OrElse(steps, IF LinuxLocal(s, machine) /\ byDefault THEN 30 ELSE s["steps"])

Locals == {"fake", "mlx", "ncnn", "sdcpp"}

(* resolve_host: a name of the configuration, or a literal address.        *)
HostFound(s, host) ==
  LET name == OrElse(host, s["default_host"])
  IN  CASE name = "none" -> "unavailable"
        [] name \in s["hosts"] \cup {"literal"} -> "found"
        [] OTHER -> "unknown"

(* make_backend: "made", or how it refuses.                                *)
Made(engine, s, host) ==
  CASE engine = "remote" -> IF HostFound(s, host) = "found" THEN "made" ELSE HostFound(s, host)
    [] engine \in Locals -> "made"
    [] OTHER -> "unknown"

-------------------------------------------------------------------------------
(* The registry of weights, as packaged (models/registry.yaml; the 17      *)
(* files of the ncnn folder are one entry here).                           *)

AllPlatforms == {"linux", "darwin", "win32"}

Registry ==
  [artifacts |->
     <<[name |-> "transformer-q4", role |-> "transformer", mib |-> 4003],
       [name |-> "transformer-q8", role |-> "transformer", mib |-> 7331],
       [name |-> "text-encoder", role |-> "text_encoder", mib |-> 4795],
       [name |-> "vae", role |-> "vae", mib |-> 644],
       [name |-> "mmproj", role |-> "mmproj", mib |-> 1105],
       [name |-> "ncnn-folder", role |-> "bundle", mib |-> 29747]>>,
   sets |->
     <<[engine |-> "sdcpp", quant |-> "q4", platforms |-> AllPlatforms,
        artifacts |-> <<"transformer-q4", "text-encoder", "vae", "mmproj">>],
       [engine |-> "sdcpp", quant |-> "q8", platforms |-> AllPlatforms,
        artifacts |-> <<"transformer-q8", "text-encoder", "vae", "mmproj">>],
       [engine |-> "ncnn", quant |-> "bf16", platforms |-> AllPlatforms,
        artifacts |-> <<"ncnn-folder">>]>>,
   memory |-> [engine \in {"sdcpp", "ncnn"} |->
                 [factor |-> IF engine = "sdcpp" THEN 95 ELSE 100, perPixel |-> 3400]]]

Artifacts == ToSet(Registry.artifacts)

Get(name) == CHOOSE a \in Artifacts : a.name = name

(* The sets of an engine on a platform, by their places in the registry.   *)
PlatformSets(engine, platform) ==
  {i \in DOMAIN Registry.sets :
     Registry.sets[i].engine = engine /\ platform \in Registry.sets[i].platforms}

RequiredRoles == {"transformer", "text_encoder", "vae"}

(* set_for without a quantization: the first set, if it is complete; no    *)
(* artifacts where the code raises RegistryError.                          *)
SetFor(engine, platform) ==
  LET sets == PlatformSets(engine, platform)
      chosen == Registry.sets[Smallest(sets)]
      artifacts == {Get(name) : name \in ToSet(chosen.artifacts)}
      roles == {a.role : a \in artifacts}
  IN  IF sets # {} /\ ("bundle" \in roles \/ RequiredRoles \subseteq roles)
        THEN artifacts ELSE {}

(* load_registry: names are unique and every set names known artifacts.    *)
RegistryLoads ==
  /\ \A i, j \in DOMAIN Registry.artifacts :
       Registry.artifacts[i].name = Registry.artifacts[j].name => i = j
  /\ \A s \in ToSet(Registry.sets) : ToSet(s.artifacts) \subseteq {a.name : a \in Artifacts}

(* estimate_peak_bytes, in MiB.                                            *)
PeakMemory(engine, platform, size, edit) ==
  LET spec == Registry.memory[engine]
      loaded == {a \in SetFor(engine, platform) : edit \/ a.role # "mmproj"}
      weights == MapThenSumSet(LAMBDA a : a.mib, loaded)
  IN  (weights * spec.factor) \div 100
        + (spec.perPixel * (size[1] \div SizeStep) * (size[2] \div SizeStep)) \div 1024

(* run.estimate_memory: for engines with memory constants only, and as if  *)
(* nothing were an edit.                                                   *)
EstimateMemory(engine, platform, size) ==
  IF engine \notin DOMAIN Registry.memory \/ SetFor(engine, platform) = {} THEN {}
  ELSE {PeakMemory(engine, platform, size, FALSE)}

(* memory.check: what is not known refuses nothing.                        *)
MemoryRefuses(estimates, available, force) ==
  \E e \in estimates, a \in available : e > a /\ ~force

-------------------------------------------------------------------------------
(* What the adapters need and can do; `installed` are the roles whose      *)
(* weights are in the cache.                                               *)

(* available() of each adapter *)
SdcppAvailable(machine, installed) ==
  /\ machine.platform \in {"linux", "darwin"}
  /\ "sdcpp" \in machine.binaries
  /\ RequiredRoles \subseteq {a.role : a \in SetFor("sdcpp", machine.platform)} \cap installed

NcnnAvailable(machine) == "ncnn" \in machine.binaries /\ machine.ncnnFolder # "absent"

MlxAvailable(machine) == machine.platform = "darwin" /\ machine.silicon /\ machine.mflux

Available(engine, machine, installed) ==
  CASE engine = "sdcpp" -> SdcppAvailable(machine, installed)
    [] engine = "ncnn" -> NcnnAvailable(machine)
    [] engine = "mlx" -> MlxAvailable(machine)
    [] engine = "remote" -> machine.health # "down"
    [] engine = "fake" -> TRUE

(* capabilities(): a missing projector costs sdcpp its edits, and mlx can  *)
(* edit if the mflux that is installed can.                                *)
SdcppEdits(machine, installed) == SdcppAvailable(machine, installed) /\ "mmproj" \in installed

MlxEdits(machine) == MlxAvailable(machine) /\ machine.mfluxEdits

(* What the health of a remote host says, "full" or "plain"; an old daemon *)
(* does not say, and edits are assumed.                                    *)
RemoteEdits(machine) == machine.health \in {"full", "old"}

RemoteTransparent(machine) == machine.health = "full"

SupportsEdit(engine, machine, installed) ==
  CASE engine = "sdcpp" -> SdcppEdits(machine, installed)
    [] engine = "mlx" -> MlxEdits(machine)
    [] engine = "remote" -> RemoteEdits(machine)
    [] engine \in {"ncnn", "fake"} -> TRUE

SupportsTransparent(engine, machine) ==
  \/ engine \in {"sdcpp", "fake"}
  \/ engine = "remote" /\ RemoteTransparent(machine)

(* The look at its weights that an adapter takes right before it starts    *)
(* its engine: _weights of sdcpp, and the first lines of _run of ncnn.     *)
SdcppReady(machine, installed, edit) ==
  /\ RequiredRoles \cup (IF edit THEN {"mmproj"} ELSE {}) \subseteq installed
  /\ "sdcpp" \in machine.binaries

NcnnReady(machine) == NcnnAvailable(machine) /\ machine.ncnnFolder = "full"

ReadyToRun(engine, machine, installed, edit) ==
  CASE engine = "sdcpp" -> SdcppReady(machine, installed, edit)
    [] engine = "ncnn" -> NcnnReady(machine)
    [] OTHER -> TRUE

-------------------------------------------------------------------------------
(* Where `lig serve` listens (resolve_bind): "refused" for BindRefused.    *)

Bind(explicit, configured, tailnet, iKnow) ==
  LET chosen == IF explicit # {} THEN explicit ELSE configured
  IN  IF chosen = {} THEN IF tailnet THEN "tailnet" ELSE "loopback"
      ELSE IF OrElse(chosen, "none") = "wildcard" /\ ~tailnet /\ ~iKnow THEN "refused"
      ELSE OrElse(chosen, "none")

-------------------------------------------------------------------------------
(* The contact sheet of a batch (core/sheet.py): where each tile goes.     *)

TilePx == 512

(* grid_shape: the columns of the smallest near-square grid.               *)
Columns(count) == Smallest({c \in 1 .. count : c * c >= count})

Grid(sizes) ==
  LET longEdge == Largest({sizes[1][1], sizes[1][2]})
      Scaled(d) == IF longEdge <= TilePx THEN d ELSE (d * TilePx) \div longEdge
      cell == <<Scaled(sizes[1][1]), Scaled(sizes[1][2])>>
      columns == Columns(Len(sizes))
  IN  [i \in DOMAIN sizes |->
         [at |-> <<((i - 1) % columns) * cell[1], ((i - 1) \div columns) * cell[2]>>, tile |-> cell]]

Row(sizes) ==
  LET height == Smallest({TilePx} \cup {sizes[i][2] : i \in DOMAIN sizes})
      width == [i \in DOMAIN sizes |-> (2 * sizes[i][1] * height + sizes[i][2]) \div (2 * sizes[i][2])]
      Left(i) == MapThenSumSet(LAMBDA j : width[j], 1 .. i - 1)
  IN  [i \in DOMAIN sizes |-> [at |-> <<Left(i), 0>>, tile |-> <<width[i], height>>]]

Layout(sizes) ==
  IF \A i \in DOMAIN sizes : sizes[i] = sizes[1] THEN Grid(sizes) ELSE Row(sizes)

===============================================================================
