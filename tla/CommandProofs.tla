----------------------------- MODULE CommandProofs -----------------------------
(***************************************************************************)
(* Proofs about `lig` commands that share an output and a log directory    *)
(* (module Command), for any number of processes, machines and command     *)
(* lines.                                                                  *)
(***************************************************************************)
EXTENDS Command, RulesProofs

-------------------------------------------------------------------------------
(* The inductive invariant.                                                *)

Prompts == {"typed", "saved", "expanded", "blank"}

Request == [prompt : Prompts, size : AnySize, steps : Int, seed : Int, strength : SUBSET Int]

Stems == (Prompts \X Int) \X Nat

Originals == {{}, {"typed"}} \cup {world.savedOriginal}

FileRecords == [stem : Stems, ext : {"png", "json"}, by : Procs,
                request : Request, original : Originals]

(* The types of what TypeOK says less about.                               *)
Fields ==
  /\ opts \in [Procs -> UNION {Menu[p] : p \in Procs}]
  /\ requests \in [Procs -> Seq(Request)]
  /\ members \in [Procs -> Seq(Stems)]
  /\ stem \in [Procs -> Stems \cup {<<>>}]
  /\ stale \in [Procs -> SUBSET Nat]
  /\ logs \subseteq Nat /\ clock \in Nat
  /\ IsFiniteSet(files) /\ files \subseteq FileRecords

Planning == {"plan", "backend", "rewrite", "memory"}
Rendering == {"render", "prune", "log", "start"}
Saving == {"engine", "save", "sidecar", "image"}
Sheeting == {"sheet", "sheet sidecar"}

(* What a command has, phase by phase: first only a plan, then one engine  *)
(* run for each image and one more for the image at hand.                  *)
Progress(p) ==
  /\ phase[p] = "over" <=> exit[p] # "none"
  /\ phase[p] \in Planning =>
       runs[p] = 0 /\ listening[p] = "nowhere" /\ members[p] = <<>> /\ \A f \in files : f.by # p
  /\ phase[p] \in {"plan", "backend"} => posts[p] = 0
  /\ phase[p] = "rewrite" => posts[p] <= 1
  /\ phase[p] \in {"backend", "rewrite", "memory"} => Len(requests[p]) > 0
  /\ phase[p] = "rewrite" \/ (phase[p] = "backend" /\ opts[p].rewrite) =>
       requests[p][1].prompt = "typed"
  /\ phase[p] \in Rendering =>
       runs[p] = Len(members[p]) /\ Len(members[p]) < Len(requests[p])
  /\ phase[p] \in Saving =>
       runs[p] = Len(members[p]) + 1 /\ Len(members[p]) < Len(requests[p])
  /\ phase[p] \in Sheeting => Len(members[p]) = Len(requests[p])
  /\ Writing(p) => stem[p] \in Stems

(* A refusal comes before anything is done.                                *)
Refusal(p) ==
  exit[p] \in {"usage", "memory", "unavailable"} =>
    /\ runs[p] = 0 /\ listening[p] = "nowhere"
    /\ \A f \in files : f.by # p
    /\ exit[p] # "memory" => posts[p] = 0

(* A stem that only one process has found free is nobody else's: while it  *)
(* is being written there is no image of that name, and then its sidecar   *)
(* is the process's own.                                                   *)
Claim(p) ==
  Writing(p) =>
    /\ \A i \in DOMAIN members[p] : members[p][i] # stem[p]
    /\ stem[p] \notin contested =>
         /\ \A f \in files : f.ext = "png" => f.stem # stem[p]
         /\ phase[p] = "image" => File(p, "json") \in files
         /\ \A q \in Procs \ {p} : Writing(q) => stem[q] # stem[p]

(* What was reported is there, and once there an image only gives way to   *)
(* another one of its name.                                                *)
Reported(p) ==
  /\ ReportedAreThere(p)
  /\ \A i \in DOMAIN members[p] : \E f \in files : f.stem = members[p][i] /\ f.ext = "png"

(* The sheet of a batch, phase by phase.                                   *)
SheetProgress(p) ==
  /\ phase[p] \notin {"sheet sidecar", "over"} => \A s \in sheets : s.batch # p
  /\ phase[p] = "sheet sidecar" => {s \in sheets : s.batch = p} = {SheetFile(p, "png")}
  /\ phase[p] \in Sheeting => WantsSheet(p)
  /\ SuccessIsComplete(p)

(* A process about to create its log has kept MaxLogs - 1 logs when it     *)
(* listed the directory; since[p] are those who have created one since.    *)
Pruned(p, since) ==
  phase[p] = "log" =>
    /\ p \notin since[p]
    /\ Cardinality(logs \ stale[p]) <= MaxLogs - 1 + Cardinality(since[p])
    /\ \A q \in since[p] : phase[q] = "log" => since[q] \subseteq since[p]

LogsKept ==
  /\ LogRetention
  /\ \A p \in Procs : \A l \in stale[p] : l <= clock - (MaxLogs - 1)
  /\ \E since \in [Procs -> SUBSET Procs] : \A p \in Procs : Pruned(p, since)

Types == TypeOK /\ Fields

IInv ==
  /\ Types
  /\ \A p \in Procs : Progress(p) /\ Refusal(p)

FileInv == \A p \in Procs : Claim(p) /\ Reported(p)

SheetInv == \A p \in Procs : SheetProgress(p)

(* What a command has planned can be rendered, and fits from the moment    *)
(* that its memory was checked.                                            *)
Active(p) == phase[p] \in Rendering \cup Saving \/ runs[p] > 0

Admitted(p) ==
  /\ \A i \in DOMAIN requests[p] : ValidRequest(requests[p][i]) /\ SizeIsRight(p, requests[p][i])
  /\ Active(p) => \A i \in DOMAIN requests[p] : FitsInMemory(p, requests[p][i])
  /\ listening[p] = "wildcard" => world.tailnet \/ opts[p].iKnow

AdmitInv == \A p \in Procs : Admitted(p)

-------------------------------------------------------------------------------
(* Old logs and free names.                                                *)

(* Newest keeps at most MaxLogs - 1 logs, and what it does not keep is     *)
(* older than the last MaxLogs - 1.                                        *)
LEMMA NewestAreFew ==
  ASSUME NEW S \in SUBSET Nat, IsFiniteSet(S)
  PROVE  IsFiniteSet(Newest(S)) /\ Cardinality(Newest(S)) <= MaxLogs - 1
<1> DEFINE N == Newest(S)
<1>1. N \subseteq S
  BY DEF Newest
<1>2. IsFiniteSet(N) /\ Cardinality(N) \in Nat
  BY <1>1, FS_Subset, FS_CardinalityType
<1>3. MaxLogs \in Nat \ {0}
  BY CommandAssumption
<1>4. CASE N = {}
  BY <1>2, <1>3, <1>4, FS_EmptySet
<1>5. CASE N # {}
  <2>1. PICK l \in N : \A m \in N : l <= m
    BY <1>1, <1>5, LeastElement
  <2> DEFINE Above == {m \in S : m > l}
  <2>2. Cardinality(Above) < MaxLogs - 1
    BY <2>1 DEF Newest
  <2>3. IsFiniteSet(Above)
    BY FS_Subset
  <2>4. N \ {l} \subseteq Above
    <3>1. SUFFICES ASSUME NEW m \in N, m # l PROVE m \in Above
      OBVIOUS
    <3>2. m \in S /\ l <= m /\ m \in Nat /\ l \in Nat
      BY <1>1, <2>1
    <3> QED
      BY <3>1, <3>2
  <2>5. Cardinality(N \ {l}) <= Cardinality(Above)
    BY <2>3, <2>4, FS_Subset
  <2>6. Cardinality(N \ {l}) = Cardinality(N) - 1
    BY <1>2, <2>1, FS_RemoveElement
  <2>7. Cardinality(Above) \in Nat
    BY <2>3, FS_CardinalityType
  <2> QED
    BY <1>2, <1>3, <2>2, <2>5, <2>6, <2>7
<1> QED
  BY <1>4, <1>5

LEMMA TheRestIsOld ==
  ASSUME NEW n \in Nat, NEW S \in SUBSET (1 .. n), NEW l \in S \ Newest(S)
  PROVE  l <= n - (MaxLogs - 1)
<1> DEFINE Above == {m \in S : m > l}
<1>1. Cardinality(Above) >= MaxLogs - 1
  <2>1. ~(Cardinality(Above) < MaxLogs - 1)
    BY DEF Newest
  <2>2. IsFiniteSet(Above)
    <3>1. IsFiniteSet(1 .. n)
      BY FS_Interval
    <3> QED
      BY <3>1, FS_Subset
  <2>3. Cardinality(Above) \in Nat
    BY <2>2, FS_CardinalityType
  <2> QED
    BY <2>1, <2>3, CommandAssumption
<1>2. l \in 1 .. n /\ l \in Int /\ l + 1 \in Int
  OBVIOUS
<1>3. IsFiniteSet((l + 1) .. n) /\ Cardinality((l + 1) .. n) = IF l + 1 > n THEN 0 ELSE n - (l + 1) + 1
  BY <1>2, FS_Interval
<1>4. Above \subseteq (l + 1) .. n
  <2>1. SUFFICES ASSUME NEW m \in S, m > l PROVE m \in (l + 1) .. n
    OBVIOUS
  <2>2. m \in 1 .. n
    OBVIOUS
  <2> QED
    BY <1>2, <2>1, <2>2
<1>5. Cardinality(Above) <= Cardinality((l + 1) .. n)
  BY <1>3, <1>4, FS_Subset
<1>6. IsFiniteSet(Above) /\ Cardinality(Above) \in Nat
  BY <1>3, <1>4, FS_Subset, FS_CardinalityType
<1>7. Cardinality((l + 1) .. n) = n - l
  BY <1>2, <1>3
<1> QED
  BY <1>1, <1>2, <1>5, <1>6, <1>7, CommandAssumption

(* _free_stem: there is a free number, and the stem it gives is free.      *)
LEMMA FreeStemIsFree ==
  ASSUME Fields, NEW base \in Prompts \X Int
  PROVE  FreeStem(base) \in Stems /\ \A f \in files : f.stem # FreeStem(base)
<1> DEFINE F == {g \in files : g.stem[1] = base}
           T == {f.stem[2] : f \in F}
           free == 1 .. Cardinality(T) + 1 \ T
<1>1. IsFiniteSet(F)
  BY FS_Subset DEF Fields
<1>2. [g \in F |-> g.stem[2]] \in Surjection(F, T)
  BY DEF Surjection
<1>3. IsFiniteSet(T) /\ Cardinality(T) \in Nat
  BY <1>1, <1>2, FS_Surjection, FS_CardinalityType
<1>4. free # {}
  <2>1. SUFFICES ASSUME 1 .. Cardinality(T) + 1 \subseteq T PROVE FALSE
    OBVIOUS
  <2>2. Cardinality(1 .. Cardinality(T) + 1) <= Cardinality(T)
    BY <1>3, <2>1, FS_Subset
  <2>3. Cardinality(1 .. Cardinality(T) + 1) = Cardinality(T) + 1
    BY <1>3, FS_Interval
  <2> QED
    BY <1>3, <2>2, <2>3
<1>5. free \in SUBSET Nat
  BY <1>3
<1>6. Smallest(free) \in free
  BY <1>4, <1>5, SmallestIsLeast
<1>7. FreeStem(base) = <<base, Smallest(free)>>
  BY DEF FreeStem
<1>8. \A f \in files : f.stem # FreeStem(base)
  <2>1. SUFFICES ASSUME NEW f \in files, f.stem = FreeStem(base) PROVE FALSE
    OBVIOUS
  <2>2. f.stem[1] = base /\ f.stem[2] = Smallest(free)
    BY <1>7, <2>1
  <2>3. f \in F
    BY <2>2
  <2>4. f.stem[2] \in T
    BY <2>3
  <2> QED
    BY <1>6, <2>2, <2>4
<1>9. FreeStem(base) \in Stems
  <2>1. Smallest(free) \in Nat
    BY <1>5, <1>6
  <2> QED
    BY <1>7, <2>1 DEF Stems
<1> QED
  BY <1>8, <1>9

-------------------------------------------------------------------------------
(* What a command line and a configuration come to.                        *)

LEMMA FlagsAreEngine ==
  ASSUME NEW o
  PROVE  DOMAIN Flags(o) \subseteq {"engine"}
BY DEF Flags

LEMMA SettingsTyped ==
  ASSUME world \in Worlds, NEW flags, DOMAIN flags \subseteq {"engine"}
  PROVE  LET s == Settings(flags, world.env, world.file)
         IN  /\ s["size"] \in AnySize
             /\ s["steps"] \in Int
             /\ s["serve.bind"] \in Addresses \cup {"none", "malformed"}
<1>1. IsLayer(world.env) /\ IsLayer(world.file)
  BY CommandAssumption
<1>2. Defaults["size"] \in AnySize /\ Defaults["steps"] \in Int
  BY DefaultsTyped DEF AnySize
<1>3. Settings(flags, world.env, world.file)["size"] \in AnySize
  BY <1>1, <1>2, SettingFromALayer, DefaultsTyped DEF IsLayer
<1>4. Settings(flags, world.env, world.file)["steps"] \in Int
  BY <1>1, <1>2, SettingFromALayer, DefaultsTyped DEF IsLayer
<1>5. Settings(flags, world.env, world.file)["serve.bind"] \in Addresses \cup {"none", "malformed"}
  BY <1>1, SettingFromALayer, DefaultsTyped DEF IsLayer
<1> QED
  BY <1>3, <1>4, <1>5

(* A command has at least one image to make, at most MAX_COUNT, and each   *)
(* has a size.                                                             *)
LEMMA SizesTyped ==
  ASSUME world \in Worlds, NEW o, IsCommandLine(o), o.kind # "serve",
         Usable(o, Settings(Flags(o), world.env, world.file))
  PROVE  LET sizes == SizesOf(o, Settings(Flags(o), world.env, world.file))
         IN  sizes \in Seq(AnySize) /\ Len(sizes) \in 1 .. MaxCount
<1> DEFINE s == Settings(Flags(o), world.env, world.file)
           byDefault == IsDefault("size", Flags(o), world.env, world.file)
           size == EffectiveSize(o.size, s, world, byDefault)
           sizes == SizesOf(o, s)
<1> SUFFICES sizes \in Seq(AnySize) /\ Len(sizes) \in 1 .. MaxCount
  OBVIOUS
<1>1. s["size"] \in AnySize
  BY SettingsTyped, FlagsAreEngine
<1>2. size \in AnySize
  <2>1. (IF LinuxLocal(s, world) /\ byDefault THEN <<768, 768>> ELSE s["size"]) \in AnySize
    BY <1>1 DEF AnySize
  <2>2. o.size \in SUBSET AnySize
    BY DEF IsCommandLine
  <2> QED
    BY <2>1, <2>2, OrElseTyped DEF EffectiveSize
<1> HIDE DEF s, byDefault, size
<1>3. Usable(o, s) /\ o.kind \in {"generate", "edit", "seeds", "sizes"} /\ MaxCount = 8
  BY DEF s, IsCommandLine, Kinds, MaxCount
<1>4. CASE o.kind = "generate"
  <2>1. sizes = <<size>>
    BY <1>4 DEF SizesOf, size, byDefault
  <2> QED
    BY <1>2, <1>3, <2>1
<1>5. CASE o.kind = "edit"
  <2>1. sizes = <<OrElse(o.size, EditSize(o.source))>>
    BY <1>5 DEF SizesOf
  <2>2. o.source \in AnySize
    BY <1>3, <1>5 DEF Usable, IsCommandLine
  <2>3. EditSize(o.source) \in AnySize
    BY <2>2, SidesTyped DEF EditSize, AnySize
  <2>4. o.size \in SUBSET AnySize
    BY DEF IsCommandLine
  <2>5. OrElse(o.size, EditSize(o.source)) \in AnySize
    BY <2>3, <2>4, OrElseTyped
  <2> QED
    BY <1>3, <2>1, <2>5
<1>6. CASE o.kind = "seeds"
  <2>1. sizes = [i \in 1 .. o.count |-> size]
    BY <1>6 DEF SizesOf, size, byDefault
  <2>2. o.count \in 1 .. MaxCount
    BY <1>3, <1>6 DEF Usable
  <2>3. o.count \in Nat /\ o.count \in 1 .. 8
    BY <1>3, <2>2
  <2> QED
    BY <1>2, <1>3, <2>1, <2>3, IsASeq
<1>7. CASE o.kind = "sizes"
  <2>1. sizes = o.sizes
    BY <1>7 DEF SizesOf
  <2> QED
    BY <1>3, <1>7, <2>1 DEF Usable, IsCommandLine
<1> QED
  BY <1>3, <1>4, <1>5, <1>6, <1>7

LEMMA RequestsTyped ==
  ASSUME world \in Worlds, NEW o, IsCommandLine(o), o.kind # "serve",
         Usable(o, Settings(Flags(o), world.env, world.file)),
         NEW seed \in FirstSeeds(o)
  PROVE  LET planned == Requests(o, Settings(Flags(o), world.env, world.file), seed)
         IN  /\ planned \in Seq(Request)
             /\ Len(planned) \in 1 .. MaxCount
             /\ planned[1].prompt = PromptOf(o)
<1> DEFINE s == Settings(Flags(o), world.env, world.file)
           byDefault == IsDefault("steps", Flags(o), world.env, world.file)
           sizes == SizesOf(o, s)
           steps == EffectiveSteps(o.steps, s, world, byDefault)
           planned == Requests(o, s, seed)
           Image(i) == [prompt |-> PromptOf(o), size |-> sizes[i], steps |-> steps,
                        seed |-> IF o.kind = "seeds" THEN seed + i - 1 ELSE seed,
                        strength |-> o.strength]
<1>1. sizes \in Seq(AnySize) /\ Len(sizes) \in 1 .. MaxCount
  BY SizesTyped
<1>2. steps \in Int
  <2>1. s["steps"] \in Int
    BY SettingsTyped, FlagsAreEngine
  <2>2. o.steps \in SUBSET Int
    BY DEF IsCommandLine
  <2>3. (IF LinuxLocal(s, world) /\ byDefault THEN 30 ELSE s["steps"]) \in Int
    BY <2>1
  <2> QED
    BY <2>2, <2>3, OrElseTyped DEF EffectiveSteps
<1>3. PromptOf(o) \in Prompts
  BY DEF PromptOf, OrElse, Prompts, IsCommandLine
<1>4. seed \in Int
  <2>1. o.seed \in SUBSET Int /\ SeedLimit \in Int /\ o.count \in Int
    BY RulesAssumption DEF IsCommandLine
  <2> QED
    BY <2>1 DEF FirstSeeds
<1>5. planned = [i \in DOMAIN sizes |-> Image(i)]
  BY DEF Requests
<1>6. o.strength \in SUBSET Int
  BY DEF IsCommandLine
<1> HIDE DEF s, byDefault, sizes, steps, planned
<1>7. \A i \in DOMAIN sizes : Image(i) \in Request
  <2>1. SUFFICES ASSUME NEW i \in 1 .. Len(sizes) PROVE Image(i) \in Request
    BY <1>1
  <2>2. sizes[i] \in AnySize
    BY <1>1
  <2>3. (IF o.kind = "seeds" THEN seed + i - 1 ELSE seed) \in Int
    BY <1>1, <1>4
  <2> QED
    BY <1>2, <1>3, <1>6, <2>2, <2>3 DEF Request
<1>8. MaxCount = 8 /\ DOMAIN sizes = 1 .. Len(sizes) /\ Len(sizes) \in Nat
  BY <1>1 DEF MaxCount
<1> HIDE DEF Image
<1>9. planned \in Seq(Request) /\ Len(planned) = Len(sizes)
  BY <1>5, <1>7, <1>8, IsASeq
<1>10. planned[1].prompt = PromptOf(o)
  <2>1. 1 \in DOMAIN sizes
    BY <1>1, <1>8
  <2>2. planned[1] = Image(1)
    BY <1>5, <2>1
  <2> QED
    BY <2>2 DEF Image
<1> QED
  BY <1>1, <1>9, <1>10 DEF planned, s

-------------------------------------------------------------------------------
(* Types, progress and refusals.                                           *)

Exits == {"none", "ok", "error", "usage", "memory", "unavailable", "killed"}

LEMMA IInvInit == Init => IInv
<1> SUFFICES ASSUME Init PROVE IInv
  OBVIOUS
<1>1. MaxLogs \in Nat /\ MaxCount = 8
  BY CommandAssumption DEF MaxCount
<1>2. TypeOK
  BY <1>1 DEF Init, TypeOK, Phases
<1>3. Fields
  BY <1>1, FS_EmptySet DEF Init, Fields
<1>4. \A p \in Procs : Progress(p) /\ Refusal(p)
  BY DEF Init, Progress, Refusal, Writing, Planning, Rendering, Saving, Sheeting
<1> QED
  BY <1>2, <1>3, <1>4 DEF IInv, Types

(* What a step of process p leaves alone.                                  *)
OnlyFor(p) ==
  /\ UNCHANGED <<world, opts>>
  /\ \A q \in Procs \ {p} :
       UNCHANGED <<phase[q], exit[q], requests[q], posts[q], runs[q], members[q], stem[q],
                  listening[q]>>
  /\ \A f \in files' : f.by = p \/ f \in files

LEMMA OthersKeep ==
  ASSUME IInv, NEW p \in Procs, OnlyFor(p), Progress(p)', Refusal(p)'
  PROVE  \A q \in Procs : Progress(q)' /\ Refusal(q)'
<1>1. SUFFICES ASSUME NEW q \in Procs \ {p} PROVE Progress(q)' /\ Refusal(q)'
  OBVIOUS
<1>2. Progress(q) /\ Refusal(q)
  BY DEF IInv
<1>3. UNCHANGED <<phase[q], exit[q], requests[q], posts[q], runs[q], members[q], stem[q],
                 listening[q], opts>>
  BY DEF OnlyFor
<1>4. (\A f \in files : f.by # q) => \A f \in files' : f.by # q
  BY DEF OnlyFor
<1>5. Progress(q)'
  BY <1>2, <1>3, <1>4 DEF Progress, Writing
<1>6. Refusal(q)'
  BY <1>2, <1>3, <1>4 DEF Refusal
<1> QED
  BY <1>5, <1>6

(* Most steps only go to another phase, or end the command.                *)
OnlyPhase(p) ==
  /\ UNCHANGED <<world, opts, requests, original, posts, runs, members, stem, stale, listening,
                 shared>>
  /\ \E to \in Phases, how \in Exits : /\ phase' = [phase EXCEPT ![p] = to]
                                       /\ exit' = [exit EXCEPT ![p] = how]

LEMMA PhaseKeepsTypes ==
  ASSUME Types, NEW p \in Procs, OnlyPhase(p)
  PROVE  Types' /\ OnlyFor(p)
<1>1. phase' \in [Procs -> Phases] /\ exit' \in [Procs -> Exits]
  BY DEF Types, TypeOK, OnlyPhase, Exits
<1>2. UNCHANGED <<world, opts, requests, original, posts, runs, members, stem, stale, listening,
                  installed, files, sheets, logs, clock, contested>>
  BY DEF OnlyPhase, shared
<1>3. TypeOK'
  BY <1>1, <1>2 DEF Types, TypeOK, Exits
<1>4. Fields'
  BY <1>2 DEF Types, Fields, Originals, FileRecords
<1>5. OnlyFor(p)
  BY <1>2 DEF OnlyFor, OnlyPhase, Types, TypeOK
<1> QED
  BY <1>3, <1>4, <1>5 DEF Types

LEMMA PhaseKeepsIInv ==
  ASSUME IInv, NEW p \in Procs, OnlyPhase(p), Progress(p)', Refusal(p)'
  PROVE  IInv'
<1>1. Types' /\ OnlyFor(p)
  BY PhaseKeepsTypes DEF IInv
<1> QED
  BY <1>1, OthersKeep DEF IInv

LEMMA OpenBackendKeeps == ASSUME IInv, NEW p \in Procs, OpenBackend(p) PROVE IInv'
<1>1. TypeOK /\ Progress(p) /\ Refusal(p)
  BY DEF IInv, Types
<1>2. exit[p] = "none" /\ exit \in [Procs -> Exits] /\ phase \in [Procs -> Phases]
  BY <1>1 DEF OpenBackend, Progress, TypeOK, Exits
<1>3. OnlyPhase(p)
  BY <1>2 DEF OpenBackend, OnlyPhase, Goes, Ends, Phases, Exits
<1>4. UNCHANGED <<opts, requests, posts, runs, members, stem, listening, files>>
  BY DEF OpenBackend, shared
<1>5. /\ phase[p] = "backend"
     /\ \/ phase'[p] = "over" /\ exit'[p] \in {"usage", "unavailable"}
        \/ phase'[p] = "rewrite" /\ opts[p].rewrite /\ exit'[p] = "none"
        \/ phase'[p] = "memory" /\ exit'[p] = "none"
  BY <1>1, <1>2 DEF OpenBackend, Goes, Ends, TypeOK
<1>6. Progress(p)'
  <2>1. CASE phase'[p] = "over"
    BY <1>1, <1>4, <1>5, <2>1 DEF Progress, Writing, Planning, Rendering, Saving, Sheeting
  <2>2. CASE phase'[p] = "rewrite"
    BY <1>1, <1>4, <1>5, <2>2 DEF Progress, Writing, Planning, Rendering, Saving, Sheeting
  <2>3. CASE phase'[p] = "memory"
    BY <1>1, <1>4, <1>5, <2>3 DEF Progress, Writing, Planning, Rendering, Saving, Sheeting
  <2> QED
    BY <1>5, <2>1, <2>2, <2>3
<1>7. Refusal(p)'
  BY <1>1, <1>2, <1>4, <1>5 DEF OpenBackend, Progress, Refusal, Planning
<1> QED
  BY <1>3, <1>6, <1>7, PhaseKeepsIInv

LEMMA PreflightKeeps == ASSUME IInv, NEW p \in Procs, Preflight(p) PROVE IInv'
<1>1. TypeOK /\ Progress(p) /\ Refusal(p)
  BY DEF IInv, Types
<1>2. exit[p] = "none" /\ exit \in [Procs -> Exits] /\ phase \in [Procs -> Phases]
  BY <1>1 DEF Preflight, Progress, TypeOK, Exits
<1>3. OnlyPhase(p)
  BY <1>2 DEF Preflight, OnlyPhase, Goes, Ends, Phases, Exits
<1>4. UNCHANGED <<opts, requests, posts, runs, members, stem, listening, files>>
  BY DEF Preflight, shared
<1>5. /\ phase[p] = "memory"
     /\ \/ phase'[p] = "over" /\ exit'[p] \in {"error", "memory"}
        \/ phase'[p] = "render" /\ exit'[p] = "none"
  BY <1>1, <1>2 DEF Preflight, Goes, Ends, TypeOK
<1>6. Progress(p)'
  BY <1>1, <1>2, <1>4, <1>5 DEF Progress, Writing, Planning, Rendering, Saving, Sheeting
<1>7. Refusal(p)'
  BY <1>1, <1>2, <1>4, <1>5 DEF Preflight, Progress, Refusal, Planning
<1> QED
  BY <1>3, <1>6, <1>7, PhaseKeepsIInv

LEMMA CheckWeightsKeeps == ASSUME IInv, NEW p \in Procs, CheckWeights(p) PROVE IInv'
<1>1. TypeOK /\ Progress(p) /\ Refusal(p)
  BY DEF IInv, Types
<1>2. exit[p] = "none" /\ exit \in [Procs -> Exits] /\ phase \in [Procs -> Phases]
  BY <1>1 DEF CheckWeights, Progress, TypeOK, Exits
<1>3. OnlyPhase(p)
  BY <1>2 DEF CheckWeights, OnlyPhase, Goes, Ends, Phases, Exits, RenderError
<1>4. UNCHANGED <<opts, requests, posts, runs, members, stem, listening, files>>
  BY DEF CheckWeights, shared
<1>5. Progress(p)' /\ Refusal(p)'
  BY <1>1, <1>2, <1>4 DEF CheckWeights, Goes, Ends, Progress, Refusal, Writing, Planning, Rendering, Saving, Sheeting, RenderError
<1> QED
  BY <1>3, <1>5, PhaseKeepsIInv

LEMMA EngineEndsKeeps == ASSUME IInv, NEW p \in Procs, EngineEnds(p) PROVE IInv'
<1>1. TypeOK /\ Progress(p) /\ Refusal(p)
  BY DEF IInv, Types
<1>2. exit[p] = "none" /\ exit \in [Procs -> Exits] /\ phase \in [Procs -> Phases]
  BY <1>1 DEF EngineEnds, Progress, TypeOK, Exits
<1>3. OnlyPhase(p)
  BY <1>2 DEF EngineEnds, OnlyPhase, Goes, Ends, Phases, Exits, RenderError
<1>4. UNCHANGED <<opts, requests, posts, runs, members, stem, listening, files>>
  BY DEF EngineEnds, shared
<1>5. Progress(p)' /\ Refusal(p)'
  BY <1>1, <1>2, <1>4 DEF EngineEnds, Goes, Ends, Progress, Refusal, Writing, Planning, Rendering, Saving, Sheeting, RenderError
<1> QED
  BY <1>3, <1>5, PhaseKeepsIInv

LEMMA CannotWriteKeeps == ASSUME IInv, NEW p \in Procs, CannotWrite(p) PROVE IInv'
<1>1. TypeOK /\ Progress(p) /\ Refusal(p)
  BY DEF IInv, Types
<1>2. exit[p] = "none" /\ exit \in [Procs -> Exits] /\ phase \in [Procs -> Phases]
  BY <1>1 DEF CannotWrite, Progress, TypeOK, Exits
<1>3. OnlyPhase(p)
  BY <1>2 DEF CannotWrite, OnlyPhase, Goes, Ends, Phases, Exits
<1>4. UNCHANGED <<opts, requests, posts, runs, members, stem, listening, files>>
  BY DEF CannotWrite, shared
<1>5. Progress(p)' /\ Refusal(p)'
  BY <1>1, <1>2, <1>4 DEF CannotWrite, Goes, Ends, Progress, Refusal, Writing, Planning, Rendering, Saving, Sheeting
<1> QED
  BY <1>3, <1>5, PhaseKeepsIInv

LEMMA KillKeeps == ASSUME IInv, NEW p \in Procs, Kill(p) PROVE IInv'
<1>1. TypeOK /\ Progress(p) /\ Refusal(p)
  BY DEF IInv, Types
<1>2. exit[p] = "none" /\ exit \in [Procs -> Exits] /\ phase \in [Procs -> Phases]
  BY <1>1 DEF Kill, Progress, TypeOK, Exits
<1>3. OnlyPhase(p)
  BY <1>2 DEF Kill, OnlyPhase, Goes, Ends, Phases, Exits
<1>4. UNCHANGED <<opts, requests, posts, runs, members, stem, listening, files>>
  BY DEF Kill, shared
<1>5. Progress(p)' /\ Refusal(p)'
  BY <1>1, <1>2, <1>4 DEF Kill, Goes, Ends, Progress, Refusal, Writing, Planning, Rendering, Saving, Sheeting
<1> QED
  BY <1>3, <1>5, PhaseKeepsIInv

LEMMA PlanKeeps == ASSUME IInv, NEW p \in Procs, Plan(p) PROVE IInv'
<1> DEFINE o == opts[p]
           s == SettingsFor(p)
<1>1. Types /\ TypeOK /\ Fields /\ Progress(p) /\ Refusal(p)
  BY DEF IInv, Types
<1>2. exit[p] = "none" /\ exit \in [Procs -> Exits] /\ phase \in [Procs -> Phases] /\ phase[p] = "plan"
  BY <1>1 DEF Plan, Progress, TypeOK, Exits
<1>3. UNCHANGED <<world, opts, posts, runs, members, stem, stale, listening,
                  installed, files, sheets, logs, clock, contested>>
  BY DEF Plan, shared
<1>4. CASE Ends(p, "usage") /\ UNCHANGED <<requests, original>>
  <2>1. OnlyPhase(p)
    BY <1>2, <1>3, <1>4 DEF OnlyPhase, Ends, Exits, Phases, shared
  <2>2. Progress(p)' /\ Refusal(p)'
    BY <1>1, <1>2, <1>3, <1>4 DEF Ends, Progress, Refusal, Writing, Planning, Rendering, Saving, Sheeting
  <2> QED
    BY <2>1, <2>2, PhaseKeepsIInv
<1>5. ASSUME NEW seed \in FirstSeeds(o), Usable(o, s), o.kind # "serve",
             \A i \in DOMAIN Requests(o, s, seed) : ValidRequest(Requests(o, s, seed)[i]),
             requests' = [requests EXCEPT ![p] = Requests(o, s, seed)],
             original' = [original EXCEPT ![p] = OriginalOf(o)],
             Goes(p, "backend")
      PROVE  IInv'
  <2> DEFINE planned == Requests(o, s, seed)
  <2>1. world \in Worlds /\ o \in Menu[p] /\ IsCommandLine(o)
    BY <1>1, CommandAssumption DEF TypeOK
  <2>2. planned \in Seq(Request) /\ Len(planned) \in 1 .. MaxCount /\ planned[1].prompt = PromptOf(o)
    BY <1>5, <2>1, RequestsTyped DEF SettingsFor
  <2>3. o.rewrite => PromptOf(o) = "typed"
    <3>1. SUFFICES ASSUME o.rewrite PROVE PromptOf(o) = "typed"
      OBVIOUS
    <3>2. o.from = {} /\ o.prompt # {}
      BY <1>5, <3>1 DEF Usable, PromptUsable
    <3>3. PromptOf(o) # "blank"
      <4>1. 1 \in DOMAIN planned
        BY <2>2
      <4>2. planned[1].prompt # "blank"
        BY <1>5, <4>1 DEF ValidRequest
      <4> QED
        BY <2>2, <4>2
    <3>4. o.prompt \in {{"typed"}, {"blank"}}
      BY <2>1, <3>2 DEF IsCommandLine
    <3> QED
      BY <3>2, <3>3, <3>4 DEF PromptOf, OrElse
  <2>4. OriginalOf(o) \in Originals
    BY DEF OriginalOf, Originals
  <2> HIDE DEF planned, s, o
  <2>5. requests' = [requests EXCEPT ![p] = planned]
    BY <1>5 DEF planned
  <2>6. requests'[p] = planned /\ requests' \in [Procs -> Seq(Request)] /\ members[p] = <<>>
    BY <1>1, <1>2, <2>2, <2>5 DEF Fields, Progress, Planning
  <2>7. original' \in [Procs -> Originals]
    BY <1>1, <1>5, <2>4 DEF TypeOK, Originals
  <2>8. phase' = [phase EXCEPT ![p] = "backend"] /\ exit' = exit
    BY <1>5 DEF Goes
  <2>9. phase' \in [Procs -> Phases]
    BY <1>2, <2>8 DEF Phases
  <2>10. \A q \in Procs : Len(members[q]) <= Len(requests'[q]) /\ Len(requests'[q]) <= MaxCount
    <3>1. Len(planned) \in Nat /\ Len(planned) <= MaxCount
      <4>1. PICK n \in 1 .. MaxCount : n = Len(planned)
        BY <2>2
      <4>2. n \in Nat /\ n <= MaxCount
        BY DEF MaxCount
      <4> QED
        BY <4>1, <4>2
    <3>2. SUFFICES ASSUME NEW q \in Procs
                   PROVE  Len(members[q]) <= Len(requests'[q]) /\ Len(requests'[q]) <= MaxCount
      OBVIOUS
    <3>3. CASE q = p
      BY <2>6, <3>1, <3>3
    <3>4. CASE q # p
      BY <1>1, <2>5, <3>4 DEF TypeOK, Fields
    <3> QED
      BY <3>3, <3>4
  <2>11. TypeOK'
    BY <1>1, <1>2, <1>3, <2>7, <2>8, <2>9, <2>10 DEF TypeOK, Exits, Originals
  <2>12. Fields'
    BY <1>1, <1>3, <2>6 DEF Fields, Originals, FileRecords
  <2>13. OnlyFor(p)
    BY <1>1, <1>3, <2>5, <2>8 DEF OnlyFor, TypeOK, Fields
  <2>14. Progress(p)'
    BY <1>1, <1>2, <1>3, <2>2, <2>3, <2>6, <2>8 DEF Progress, Writing, Planning, Rendering, Saving, Sheeting, o
  <2>15. Refusal(p)'
    BY <1>1, <1>2, <1>3, <2>8 DEF Refusal
  <2> QED
    BY <2>11, <2>12, <2>13, <2>14, <2>15, OthersKeep DEF IInv, Types
<1> QED
  BY <1>4, <1>5 DEF Plan

LEMMA RewriteKeeps == ASSUME IInv, NEW p \in Procs, Rewrite(p) PROVE IInv'
<1>1. Types /\ TypeOK /\ Fields /\ Progress(p) /\ Refusal(p)
  BY DEF IInv, Types
<1>2. /\ exit[p] = "none" /\ exit \in [Procs -> Exits] /\ phase \in [Procs -> Phases]
      /\ phase[p] = "rewrite" /\ members[p] = <<>> /\ posts[p] <= 1
  BY <1>1 DEF Rewrite, Progress, TypeOK, Exits, Planning
<1>3. UNCHANGED <<world, opts, runs, members, stem, stale, listening,
                  installed, files, sheets, logs, clock, contested>>
  BY DEF Rewrite, shared
<1>4. requests[p] \in Seq(Request) /\ Len(requests[p]) \in Nat /\ Len(requests[p]) > 0
      /\ requests[p][1].prompt = "typed"
  BY <1>1, <1>2 DEF Progress, Fields
<1>5. posts' = [posts EXCEPT ![p] = posts[p] + 1]
  BY DEF Rewrite
<1>6. posts' \in [Procs -> 0 .. 2]
  <2>1. posts \in [Procs -> 0 .. 2]
    BY <1>1 DEF TypeOK
  <2>2. posts[p] + 1 \in 0 .. 2
    BY <1>2, <2>1
  <2> QED
    BY <1>5, <2>1, <2>2
<1>7. /\ requests' \in [Procs -> Seq(Request)]
      /\ \A q \in Procs : Len(requests'[q]) = Len(requests[q])
      /\ \A q \in Procs \ {p} : requests'[q] = requests[q]
      /\ requests'[p] = requests[p] \/ phase'[p] = "memory"
  <2>1. CASE requests' = requests
    BY <1>1, <2>1 DEF Fields
  <2>2. CASE requests' = [requests EXCEPT ![p][1].prompt = "expanded"] /\ Goes(p, "memory")
    <3> DEFINE new == [requests[p] EXCEPT ![1].prompt = "expanded"]
    <3>1. requests[p][1] \in Request
      BY <1>4
    <3>2. [requests[p][1] EXCEPT !.prompt = "expanded"] \in Request
      BY <3>1 DEF Request, Prompts
    <3>3. new \in Seq(Request) /\ Len(new) = Len(requests[p])
      BY <1>4, <3>2
    <3>4. requests' = [requests EXCEPT ![p] = new]
      BY <2>2
    <3>5. phase'[p] = "memory"
      BY <1>2, <2>2 DEF Goes
    <3> HIDE DEF new
    <3> QED
      BY <1>1, <3>3, <3>4, <3>5 DEF Fields
  <2> QED
    BY <2>1, <2>2 DEF Rewrite
<1>8. original' \in [Procs -> Originals]
  <2>1. {requests[p][1].prompt} \in Originals
    BY <1>4 DEF Originals
  <2>2. original \in [Procs -> Originals]
    BY <1>1 DEF TypeOK, Originals
  <2> QED
    BY <2>1, <2>2 DEF Rewrite
<1>9. \E to \in {"memory", "rewrite", "over"} :
        /\ phase' = [phase EXCEPT ![p] = to]
        /\ exit' = [exit EXCEPT ![p] = IF to = "over" THEN "error" ELSE "none"]
        /\ to = "rewrite" => posts[p] = 0
  <2>1. posts[p] \in Nat
    BY <1>1 DEF TypeOK
  <2> QED
    BY <1>2, <2>1 DEF Rewrite, Goes, Ends, Retry
<1>10. phase' \in [Procs -> Phases] /\ exit' \in [Procs -> Exits]
  BY <1>2, <1>9 DEF Phases, Exits
<1>11. TypeOK'
  <2>1. \A q \in Procs : Len(members'[q]) <= Len(requests'[q]) /\ Len(requests'[q]) <= MaxCount
    BY <1>1, <1>3, <1>7 DEF TypeOK
  <2> QED
    BY <1>1, <1>3, <1>6, <1>8, <1>10, <2>1 DEF TypeOK, Exits, Originals
<1>12. Fields'
  BY <1>1, <1>3, <1>7 DEF Fields, Originals, FileRecords
<1>13. OnlyFor(p)
  BY <1>1, <1>2, <1>3, <1>5, <1>7, <1>9 DEF OnlyFor, TypeOK
<1>14. Progress(p)'
  <2>1. posts'[p] = posts[p] + 1
    BY <1>1, <1>5 DEF TypeOK
  <2>2. posts[p] \in Nat /\ Len(requests'[p]) > 0
    <3>1. posts[p] \in 0 .. 2
      BY <1>1 DEF TypeOK
    <3>2. Len(requests'[p]) = Len(requests[p])
      BY <1>7
    <3> QED
      BY <1>4, <3>1, <3>2
  <2>3. \/ phase'[p] = "memory" /\ exit'[p] = "none"
        \/ phase'[p] = "over" /\ exit'[p] = "error"
        \/ phase'[p] = "rewrite" /\ exit'[p] = "none" /\ posts'[p] = 1 /\ requests'[p] = requests[p]
    BY <1>2, <1>7, <1>9, <2>1, <2>2
  <2>4. /\ runs'[p] = 0 /\ listening'[p] = "nowhere" /\ members'[p] = <<>>
        /\ \A f \in files' : f.by # p
    BY <1>1, <1>2, <1>3 DEF Progress, Planning
  <2>5. CASE phase'[p] = "memory"
    BY <2>2, <2>3, <2>4, <2>5 DEF Progress, Writing, Planning, Rendering, Saving, Sheeting
  <2>6. CASE phase'[p] = "over"
    BY <2>3, <2>6 DEF Progress, Writing, Planning, Rendering, Saving, Sheeting
  <2>7. CASE phase'[p] = "rewrite"
    BY <1>4, <2>2, <2>3, <2>4, <2>7 DEF Progress, Writing, Planning, Rendering, Saving, Sheeting
  <2> QED
    BY <2>3, <2>5, <2>6, <2>7
<1>15. Refusal(p)'
  BY <1>2, <1>3, <1>9 DEF Refusal
<1> QED
  BY <1>11, <1>12, <1>13, <1>14, <1>15, OthersKeep DEF IInv, Types

LEMMA ServeKeeps == ASSUME IInv, NEW p \in Procs, Serve(p) PROVE IInv'
<1> DEFINE o == opts[p]
           s == Settings(<<>>, world.env, world.file)
           configured == {s["serve.bind"]} \ {"none"}
           at == Bind(o.bind, configured, world.tailnet, o.iKnow)
<1>1. Types /\ TypeOK /\ Fields /\ Progress(p) /\ Refusal(p)
  BY DEF IInv, Types
<1>2. exit[p] = "none" /\ exit \in [Procs -> Exits] /\ phase \in [Procs -> Phases] /\ phase[p] = "plan"
  BY <1>1 DEF Serve, Progress, TypeOK, Exits
<1>3. UNCHANGED <<world, opts, requests, original, posts, runs, members, stem, stale,
                  installed, files, sheets, logs, clock, contested>>
  BY DEF Serve, shared
<1>4. CASE /\ Ends(p, "error") \/ Ends(p, "usage")
           /\ UNCHANGED listening
  <2>1. OnlyPhase(p)
    BY <1>2, <1>3, <1>4 DEF OnlyPhase, Ends, Exits, Phases, shared
  <2>2. Progress(p)' /\ Refusal(p)'
    BY <1>1, <1>2, <1>3, <1>4 DEF Ends, Progress, Refusal, Writing, Planning, Rendering, Saving, Sheeting
  <2> QED
    BY <2>1, <2>2, PhaseKeepsIInv
<1>5. CASE /\ "malformed" \notin o.bind \cup configured /\ at # "refused"
           /\ Goes(p, "serving") /\ listening' = [listening EXCEPT ![p] = at]
  <2>1. world \in Worlds /\ IsCommandLine(o)
    BY <1>1, CommandAssumption DEF TypeOK
  <2>2. s["serve.bind"] \in Addresses \cup {"none", "malformed"}
    BY <2>1, SettingsTyped
  <2>3. o.bind \subseteq Addresses \cup {"malformed"}
    BY <2>1 DEF IsCommandLine
  <2>4. at \in Addresses
    <3> HIDE DEF s, o
    <3>1. o.bind \subseteq Addresses /\ configured \subseteq Addresses
      BY <1>5, <2>2, <2>3
    <3>2. {"tailnet", "loopback"} \subseteq Addresses
      BY DEF Addresses
    <3> HIDE DEF configured
    <3> QED
      BY <1>5, <3>1, <3>2 DEF Bind, OrElse
  <2> HIDE DEF at
  <2>5. phase' = [phase EXCEPT ![p] = "serving"] /\ exit' = exit
    BY <1>5 DEF Goes
  <2>6. phase' \in [Procs -> Phases]
    BY <1>2, <2>5 DEF Phases
  <2>7. listening' \in [Procs -> {"nowhere"} \cup Addresses]
    BY <1>1, <1>5, <2>4 DEF TypeOK
  <2>8. TypeOK'
    BY <1>1, <1>2, <1>3, <2>5, <2>6, <2>7 DEF TypeOK, Exits
  <2>9. Fields'
    BY <1>1, <1>3 DEF Fields, Originals, FileRecords
  <2>10. OnlyFor(p)
    BY <1>1, <1>3, <1>5, <2>5 DEF OnlyFor, TypeOK
  <2>11. Progress(p)' /\ Refusal(p)'
    BY <1>1, <1>2, <1>3, <2>5 DEF Progress, Refusal, Writing, Planning, Rendering, Saving, Sheeting
  <2> QED
    BY <2>8, <2>9, <2>10, <2>11, OthersKeep DEF IInv, Types
<1> QED
  BY <1>4, <1>5 DEF Serve

LEMMA ListLogsKeeps == ASSUME IInv, NEW p \in Procs, ListLogs(p) PROVE IInv'
<1>1. Types /\ TypeOK /\ Fields /\ Progress(p) /\ Refusal(p)
  BY DEF IInv, Types
<1>2. /\ exit[p] = "none" /\ exit \in [Procs -> Exits] /\ phase \in [Procs -> Phases]
      /\ phase[p] = "prune"
  BY <1>1 DEF ListLogs, Progress, TypeOK, Exits
<1>3. UNCHANGED <<world, opts, requests, original, posts, listening, runs, members, stem, installed, files, sheets, logs, clock, contested>>
  BY DEF ListLogs, shared
<1>4. phase' = [phase EXCEPT ![p] = "log"] /\ exit' = exit
  BY DEF ListLogs, Goes
<1>5. phase' \in [Procs -> Phases]
  BY <1>2, <1>4 DEF Phases
<1>6. TypeOK'
  <2>1. stale' \in [Procs -> SUBSET (1 .. clock)]
    BY <1>1 DEF ListLogs, TypeOK, Fields
  <2> QED
    BY <1>1, <1>2, <1>3, <1>4, <1>5, <2>1 DEF TypeOK, Exits
<1>7. Fields'
  <2>1. stale' \in [Procs -> SUBSET Nat]
    BY <1>1 DEF ListLogs, Fields
  <2> QED
    BY <1>1, <1>3, <2>1 DEF Fields, Originals, FileRecords
<1>8. OnlyFor(p)
  BY <1>1, <1>3, <1>4 DEF OnlyFor, TypeOK
<1>9. Progress(p)' /\ Refusal(p)'
  BY <1>1, <1>2, <1>3, <1>4 DEF Progress, Refusal, Writing, Planning, Rendering, Saving, Sheeting
<1> QED
  BY <1>6, <1>7, <1>8, <1>9, OthersKeep DEF IInv, Types

LEMMA StartEngineKeeps == ASSUME IInv, NEW p \in Procs, StartEngine(p) PROVE IInv'
<1>1. Types /\ TypeOK /\ Fields /\ Progress(p) /\ Refusal(p)
  BY DEF IInv, Types
<1>2. /\ exit[p] = "none" /\ exit \in [Procs -> Exits] /\ phase \in [Procs -> Phases]
      /\ phase[p] = "start"
  BY <1>1 DEF StartEngine, Progress, TypeOK, Exits
<1>3. UNCHANGED <<world, opts, requests, original, posts, listening, members, stem, stale, installed, files, sheets, logs, clock, contested>>
  BY DEF StartEngine, shared
<1>4. phase' = [phase EXCEPT ![p] = "engine"] /\ exit' = exit
  BY DEF StartEngine, Goes
<1>5. phase' \in [Procs -> Phases]
  BY <1>2, <1>4 DEF Phases
<1>6. TypeOK'
  <2>1. runs' \in [Procs -> 0 .. MaxCount]
    <3>1. runs[p] = Len(members[p]) /\ Len(members[p]) < Len(requests[p]) /\ Len(requests[p]) <= MaxCount
      BY <1>1, <1>2 DEF Progress, Rendering, TypeOK
    <3>2. runs[p] \in Nat /\ Len(requests[p]) \in Nat /\ MaxCount = 8
      <4>1. MaxCount = 8
        BY DEF MaxCount
      <4>2. runs[p] \in 0 .. 8
        BY <1>1, <4>1 DEF TypeOK
      <4>3. Len(requests[p]) \in Nat
        BY <1>1 DEF Fields
      <4> QED
        BY <4>1, <4>2, <4>3
    <3>3. runs[p] + 1 \in 0 .. MaxCount
      BY <3>1, <3>2
    <3> QED
      BY <1>1, <3>3 DEF StartEngine, TypeOK
  <2> QED
    BY <1>1, <1>2, <1>3, <1>4, <1>5, <2>1 DEF TypeOK, Exits
<1>7. Fields'
  BY <1>1, <1>3 DEF Fields, Originals, FileRecords
<1>8. OnlyFor(p)
  BY <1>1, <1>3, <1>4 DEF OnlyFor, StartEngine, TypeOK
<1>9. Progress(p)' /\ Refusal(p)'
  <2>1. runs'[p] = runs[p] + 1
    BY <1>1 DEF StartEngine, TypeOK
  <2> QED
    BY <1>1, <1>2, <1>3, <1>4, <2>1 DEF Progress, Refusal, Writing, Planning, Rendering, Saving, Sheeting
<1> QED
  BY <1>6, <1>7, <1>8, <1>9, OthersKeep DEF IInv, Types

LEMMA OpenLogKeeps == ASSUME IInv, NEW p \in Procs, OpenLog(p) PROVE IInv'
<1>1. Types /\ TypeOK /\ Fields /\ Progress(p) /\ Refusal(p)
  BY DEF IInv, Types
<1>2. /\ exit[p] = "none" /\ exit \in [Procs -> Exits] /\ phase \in [Procs -> Phases]
      /\ phase[p] = "log"
  BY <1>1 DEF OpenLog, Progress, TypeOK, Exits
<1>3. UNCHANGED <<world, opts, requests, original, posts, listening, members, stem, installed, files, sheets, contested>>
  BY DEF OpenLog, shared
<1>4. phase' = [phase EXCEPT ![p] = "engine"] /\ exit' = exit
  BY DEF OpenLog, Goes
<1>5. phase' \in [Procs -> Phases]
  BY <1>2, <1>4 DEF Phases
<1>6. TypeOK'
  <2>1. runs' \in [Procs -> 0 .. MaxCount]
    <3>1. runs[p] = Len(members[p]) /\ Len(members[p]) < Len(requests[p]) /\ Len(requests[p]) <= MaxCount
      BY <1>1, <1>2 DEF Progress, Rendering, TypeOK
    <3>2. runs[p] \in Nat /\ Len(requests[p]) \in Nat /\ MaxCount = 8
      <4>1. MaxCount = 8
        BY DEF MaxCount
      <4>2. runs[p] \in 0 .. 8
        BY <1>1, <4>1 DEF TypeOK
      <4>3. Len(requests[p]) \in Nat
        BY <1>1 DEF Fields
      <4> QED
        BY <4>1, <4>2, <4>3
    <3>3. runs[p] + 1 \in 0 .. MaxCount
      BY <3>1, <3>2
    <3> QED
      BY <1>1, <3>3 DEF OpenLog, TypeOK
  <2>2. \A q \in Procs : stale'[q] \cup logs' \subseteq 1 .. clock'
    <3>1. clock \in Nat /\ clock' = clock + 1 /\ 1 .. clock \subseteq 1 .. clock'
      BY <1>1 DEF OpenLog, Fields
    <3>2. stale' = [stale EXCEPT ![p] = {}] /\ logs' = (logs \ stale[p]) \cup {clock'}
      BY <3>1 DEF OpenLog
    <3>3. \A q \in Procs : stale[q] \cup logs \subseteq 1 .. clock
      BY <1>1 DEF TypeOK
    <3>4. logs' \subseteq 1 .. clock'
      BY <3>1, <3>2, <3>3
    <3> QED
      BY <1>1, <3>1, <3>2, <3>3, <3>4 DEF Fields
  <2> QED
    BY <1>1, <1>2, <1>3, <1>4, <1>5, <2>1, <2>2 DEF TypeOK, Exits
<1>7. Fields'
  <2>1. /\ clock' \in Nat /\ stale' \in [Procs -> SUBSET Nat]
        /\ logs' \subseteq Nat
    <3>1. clock' = clock + 1 /\ clock \in Nat /\ logs \subseteq Nat
      BY <1>1 DEF OpenLog, Fields
    <3>2. logs' = (logs \ stale[p]) \cup {clock + 1}
      BY DEF OpenLog
    <3>3. stale' = [stale EXCEPT ![p] = {}] /\ stale \in [Procs -> SUBSET Nat]
      BY <1>1 DEF OpenLog, Fields
    <3>4. clock' \in Nat /\ clock + 1 \in Nat
      BY <3>1
    <3>5. logs' \subseteq Nat
      BY <3>1, <3>2, <3>4
    <3>6. stale' \in [Procs -> SUBSET Nat]
      BY <3>3
    <3> QED
      BY <3>4, <3>5, <3>6
  <2> QED
    BY <1>1, <1>3, <2>1 DEF Fields, Originals, FileRecords
<1>8. OnlyFor(p)
  BY <1>1, <1>3, <1>4 DEF OnlyFor, OpenLog, TypeOK
<1>9. Progress(p)' /\ Refusal(p)'
  <2>1. runs'[p] = runs[p] + 1
    BY <1>1 DEF OpenLog, TypeOK
  <2> QED
    BY <1>1, <1>2, <1>3, <1>4, <2>1 DEF Progress, Refusal, Writing, Planning, Rendering, Saving, Sheeting
<1> QED
  BY <1>6, <1>7, <1>8, <1>9, OthersKeep DEF IInv, Types

LEMMA FileTyped ==
  ASSUME Types, NEW p \in Procs, Progress(p), phase[p] \in {"sidecar", "image"},
         NEW ext \in {"png", "json"}
  PROVE  File(p, ext) \in FileRecords
<1>1. stem[p] \in Stems
  BY DEF Progress, Writing
<1>2. Len(members[p]) \in Nat /\ requests[p] \in Seq(Request) /\ Len(requests[p]) \in Nat
  BY DEF Types, Fields
<1>3. Len(members[p]) < Len(requests[p])
  BY DEF Progress, Saving
<1>4. Index(p) \in 1 .. Len(requests[p])
  BY <1>2, <1>3 DEF Index
<1>5. requests[p][Index(p)] \in Request
  BY <1>2, <1>4
<1>6. original[p] \in Originals
  BY DEF Types, TypeOK, Originals
<1> QED
  BY <1>1, <1>5, <1>6 DEF File, FileRecords

LEMMA PutTyped ==
  ASSUME Fields, NEW f \in FileRecords
  PROVE  /\ IsFiniteSet(Put(files, f)) /\ Put(files, f) \subseteq FileRecords
         /\ f \in Put(files, f)
         /\ \A g \in Put(files, f) : g = f \/ g \in files
<1> DEFINE kept == {g \in files : g.stem # f.stem \/ g.ext # f.ext}
<1>1. IsFiniteSet(kept) /\ kept \subseteq files
  BY FS_Subset DEF Fields
<1>2. Put(files, f) = kept \cup {f}
  BY DEF Put
<1>3. kept \subseteq FileRecords
  BY <1>1 DEF Fields
<1> HIDE DEF kept
<1>4. IsFiniteSet(kept \cup {f})
  BY <1>1, FS_AddElement
<1> QED
  BY <1>1, <1>2, <1>3, <1>4

(* What a step that changes the output directory has to show.              *)
LEMMA FilesTyped ==
  ASSUME Types, UNCHANGED <<world, opts, requests, original, posts, runs, stale, listening, logs,
                            clock, installed>>,
         phase' \in [Procs -> Phases], exit' \in [Procs -> Exits],
         stem' \in [Procs -> Stems \cup {<<>>}], members' \in [Procs -> Seq(Stems)],
         \A q \in Procs : Len(members'[q]) <= Len(requests[q]),
         IsFiniteSet(files'), files' \subseteq FileRecords
  PROVE  Types'
<1>1. \A f \in files' : f.ext \in {"png", "json"} /\ f.by \in Procs
  BY DEF FileRecords
<1>2. TypeOK'
  BY <1>1 DEF Types, TypeOK, Exits
<1>3. Fields'
  BY DEF Types, Fields, Originals, FileRecords
<1> QED
  BY <1>2, <1>3 DEF Types

LEMMA MembersFit ==
  ASSUME Types
  PROVE  /\ \A q \in Procs : Len(members[q]) <= Len(requests[q])
         /\ stem \in [Procs -> Stems \cup {<<>>}] /\ members \in [Procs -> Seq(Stems)]
         /\ IsFiniteSet(files) /\ files \subseteq FileRecords
BY DEF Types, TypeOK, Fields

LEMMA FindStemKeeps == ASSUME IInv, NEW p \in Procs, FindStem(p) PROVE IInv'
<1>1. Types /\ TypeOK /\ Fields /\ Progress(p) /\ Refusal(p)
  BY DEF IInv, Types
<1>2. /\ exit[p] = "none" /\ exit \in [Procs -> Exits] /\ phase \in [Procs -> Phases]
      /\ phase[p] = "save"
  BY <1>1 DEF FindStem, Progress, TypeOK, Exits
<1>3. UNCHANGED <<world, opts, requests, original, posts, runs, stale, listening, logs, clock,
                  installed, members, files, sheets>>
  BY DEF FindStem, shared
<1>4. Base(p) \in Prompts \X Int
  <2>1. Len(members[p]) < Len(requests[p]) /\ Len(members[p]) \in Nat /\ Len(requests[p]) \in Nat
    BY <1>1, <1>2 DEF Progress, Saving, Fields
  <2>2. Index(p) \in 1 .. Len(requests[p])
    BY <2>1 DEF Index
  <2>3. requests[p][Index(p)] \in Request
    BY <1>1, <2>2 DEF Fields
  <2> QED
    BY <2>3 DEF Base, Request
<1>5. FreeStem(Base(p)) \in Stems
  BY <1>1, <1>4, FreeStemIsFree
<1>6. \/ /\ phase' = [phase EXCEPT ![p] = "sidecar"] /\ exit' = exit
         /\ stem' = [stem EXCEPT ![p] = FreeStem(Base(p))]
      \/ /\ phase' = [phase EXCEPT ![p] = "over"] /\ exit' = [exit EXCEPT ![p] = "error"]
         /\ stem' = stem
  BY DEF FindStem, Goes, Ends
<1>7. phase' \in [Procs -> Phases] /\ exit' \in [Procs -> Exits] /\ stem' \in [Procs -> Stems \cup {<<>>}]
  BY <1>1, <1>2, <1>5, <1>6 DEF Phases, Exits, Fields
<1>8. Types'
  BY <1>1, <1>3, <1>7, MembersFit, FilesTyped
<1>9. OnlyFor(p)
  BY <1>1, <1>3, <1>6 DEF OnlyFor, TypeOK, Fields
<1>10. \/ phase'[p] = "sidecar" /\ exit'[p] = "none" /\ stem'[p] \in Stems
       \/ phase'[p] = "over" /\ exit'[p] = "error"
  BY <1>1, <1>2, <1>5, <1>6 DEF Fields
<1>11. Progress(p)' /\ Refusal(p)'
  BY <1>1, <1>2, <1>3, <1>10 DEF Progress, Refusal, Writing, Planning, Rendering, Saving, Sheeting
<1> QED
  BY <1>8, <1>9, <1>11, OthersKeep DEF IInv

LEMMA WriteSidecarKeeps == ASSUME IInv, NEW p \in Procs, WriteSidecar(p) PROVE IInv'
<1>1. Types /\ TypeOK /\ Fields /\ Progress(p) /\ Refusal(p)
  BY DEF IInv, Types
<1>2. /\ exit[p] = "none" /\ exit \in [Procs -> Exits] /\ phase \in [Procs -> Phases]
      /\ phase[p] = "sidecar"
  BY <1>1 DEF WriteSidecar, Progress, TypeOK, Exits
<1>3. UNCHANGED <<world, opts, requests, original, posts, runs, stale, listening, logs, clock,
                  installed, members, stem, sheets, contested>>
  BY DEF WriteSidecar, shared
<1>4. phase' = [phase EXCEPT ![p] = "image"] /\ exit' = exit
  BY DEF WriteSidecar, Goes
<1>5. phase' \in [Procs -> Phases]
  BY <1>2, <1>4 DEF Phases
<1>6. /\ IsFiniteSet(files') /\ files' \subseteq FileRecords
      /\ \A f \in files' : f.by = p \/ f \in files
  <2> DEFINE new == File(p, "json")
  <2>1. new \in FileRecords
    BY <1>1, <1>2, FileTyped
  <2>2. new.by = p
    BY DEF File
  <2>3. files' = Put(files, new)
    BY DEF WriteSidecar
  <2> HIDE DEF new
  <2> QED
    BY <1>1, <2>1, <2>2, <2>3, PutTyped
<1>7. Types'
  BY <1>1, <1>2, <1>3, <1>4, <1>5, <1>6, MembersFit, FilesTyped
<1>8. OnlyFor(p)
  BY <1>1, <1>3, <1>4, <1>6 DEF OnlyFor, TypeOK
<1>9. Progress(p)' /\ Refusal(p)'
  BY <1>1, <1>2, <1>3, <1>4 DEF Progress, Refusal, Writing, Planning, Rendering, Saving, Sheeting
<1> QED
  BY <1>7, <1>8, <1>9, OthersKeep DEF IInv

LEMMA WriteImageKeeps == ASSUME IInv, NEW p \in Procs, WriteImage(p) PROVE IInv'
<1>1. Types /\ TypeOK /\ Fields /\ Progress(p) /\ Refusal(p)
  BY DEF IInv, Types
<1>2. /\ exit[p] = "none" /\ exit \in [Procs -> Exits] /\ phase \in [Procs -> Phases]
      /\ phase[p] = "image"
  BY <1>1 DEF WriteImage, Progress, TypeOK, Exits
<1>3. UNCHANGED <<world, opts, requests, original, posts, runs, stale, listening, logs, clock,
                  installed, stem, sheets, contested>>
  BY DEF WriteImage, shared
<1>4. /\ Len(members[p]) \in Nat /\ Len(requests[p]) \in Nat /\ Len(members[p]) < Len(requests[p])
      /\ runs[p] = Len(members[p]) + 1 /\ stem[p] \in Stems /\ members \in [Procs -> Seq(Stems)]
  BY <1>1, <1>2 DEF Progress, Saving, Writing, Fields
<1>5. members' = [members EXCEPT ![p] = Append(members[p], stem[p])]
  BY DEF WriteImage
<1>6. /\ members' \in [Procs -> Seq(Stems)] /\ Len(members'[p]) = Len(members[p]) + 1
      /\ \A q \in Procs \ {p} : members'[q] = members[q]
  BY <1>4, <1>5
<1>7. \E to \in {"render", "sheet", "over"} :
        /\ phase' = [phase EXCEPT ![p] = to]
        /\ exit' = [exit EXCEPT ![p] = IF to = "over" THEN "ok" ELSE "none"]
        /\ to = "render" => Len(members[p]) + 1 < Len(requests[p])
        /\ to = "sheet" => Len(members[p]) + 1 >= Len(requests[p])
  BY <1>2, <1>4 DEF WriteImage, Afterwards, Goes, Ends, Index
<1>8. phase' \in [Procs -> Phases] /\ exit' \in [Procs -> Exits]
  BY <1>2, <1>7 DEF Phases, Exits
<1>9. /\ IsFiniteSet(files') /\ files' \subseteq FileRecords
      /\ \A f \in files' : f.by = p \/ f \in files
  <2> DEFINE new == File(p, "png")
  <2>1. new \in FileRecords
    BY <1>1, <1>2, FileTyped
  <2>2. new.by = p
    BY DEF File
  <2>3. files' = Put(files, new)
    BY DEF WriteImage
  <2> HIDE DEF new
  <2> QED
    BY <1>1, <2>1, <2>2, <2>3, PutTyped
<1>10. \A q \in Procs : Len(members'[q]) <= Len(requests[q])
  <2>1. SUFFICES ASSUME NEW q \in Procs PROVE Len(members'[q]) <= Len(requests[q])
    OBVIOUS
  <2>2. CASE q = p
    BY <1>4, <1>6, <2>2
  <2>3. CASE q # p
    BY <1>1, <1>6, <2>3, MembersFit
  <2> QED
    BY <2>2, <2>3
<1>11. Types'
  BY <1>1, <1>3, <1>6, <1>8, <1>9, <1>10, MembersFit, FilesTyped
<1>12. OnlyFor(p)
  BY <1>1, <1>2, <1>3, <1>6, <1>7, <1>9 DEF OnlyFor
<1>13. Progress(p)' /\ Refusal(p)'
  <2>1. \/ phase'[p] = "render" /\ exit'[p] = "none" /\ Len(members'[p]) < Len(requests[p])
        \/ phase'[p] = "sheet" /\ exit'[p] = "none" /\ Len(members'[p]) = Len(requests[p])
        \/ phase'[p] = "over" /\ exit'[p] = "ok"
    BY <1>2, <1>4, <1>6, <1>7
  <2>2. runs'[p] = Len(members'[p])
    BY <1>3, <1>4, <1>6
  <2> QED
    BY <1>3, <2>1, <2>2 DEF Progress, Refusal, Writing, Planning, Rendering, Saving, Sheeting
<1> QED
  BY <1>11, <1>12, <1>13, OthersKeep DEF IInv

LEMMA WriteFailsKeeps == ASSUME IInv, NEW p \in Procs, WriteFails(p) PROVE IInv'
<1>1. Types /\ TypeOK /\ Fields /\ Progress(p) /\ Refusal(p)
  BY DEF IInv, Types
<1>2. /\ exit[p] = "none" /\ exit \in [Procs -> Exits] /\ phase \in [Procs -> Phases]
      /\ phase[p] = "image"
  BY <1>1 DEF WriteFails, Progress, TypeOK, Exits
<1>3. UNCHANGED <<world, opts, requests, original, posts, runs, stale, listening, logs, clock,
                  installed, members, stem, sheets, contested>>
  BY DEF WriteFails, shared
<1>4. phase' = [phase EXCEPT ![p] = "over"] /\ exit' = [exit EXCEPT ![p] = "error"]
  BY DEF WriteFails, Ends
<1>5. phase' \in [Procs -> Phases] /\ exit' \in [Procs -> Exits]
  BY <1>2, <1>4 DEF Phases, Exits
<1>6. /\ IsFiniteSet(files') /\ files' \subseteq FileRecords
      /\ \A f \in files' : f.by = p \/ f \in files
  <2> DEFINE new == Put(files, File(p, "png"))
  <2>1. File(p, "png") \in FileRecords /\ File(p, "png").by = p
    BY <1>1, <1>2, FileTyped DEF File
  <2>2. IsFiniteSet(new) /\ new \subseteq FileRecords /\ \A f \in new : f.by = p \/ f \in files
    BY <1>1, <2>1, PutTyped
  <2>3. files' \subseteq new \/ files' \subseteq files
    BY DEF WriteFails
  <2>4. IsFiniteSet(files) /\ files \subseteq FileRecords
    BY <1>1, MembersFit
  <2> HIDE DEF new
  <2> QED
    BY <2>2, <2>3, <2>4, FS_Subset
<1>7. Types'
  BY <1>1, <1>3, <1>5, <1>6, MembersFit, FilesTyped
<1>8. OnlyFor(p)
  BY <1>1, <1>3, <1>4, <1>6 DEF OnlyFor, TypeOK
<1>9. Progress(p)' /\ Refusal(p)'
  BY <1>1, <1>2, <1>3, <1>4 DEF Progress, Refusal, Writing, Planning, Rendering, Saving, Sheeting
<1> QED
  BY <1>7, <1>8, <1>9, OthersKeep DEF IInv

LEMMA WriteSheetKeeps == ASSUME IInv, NEW p \in Procs, WriteSheet(p) PROVE IInv'
<1>1. Types /\ TypeOK /\ Fields /\ Progress(p) /\ Refusal(p)
  BY DEF IInv, Types
<1>2. /\ exit[p] = "none" /\ exit \in [Procs -> Exits] /\ phase \in [Procs -> Phases]
      /\ phase[p] = "sheet"
  BY <1>1 DEF WriteSheet, Progress, TypeOK, Exits
<1>3. UNCHANGED <<world, opts, requests, original, posts, runs, stale, listening, logs, clock,
                  installed, members, stem, files, contested>>
  BY DEF WriteSheet, shared
<1>4. phase' = [phase EXCEPT ![p] = "sheet sidecar"] /\ exit' = [exit EXCEPT ![p] = "none"]
  BY <1>2 DEF WriteSheet, Goes, Ends
<1>5. phase' \in [Procs -> Phases] /\ exit' \in [Procs -> Exits]
  BY <1>2, <1>4 DEF Phases, Exits
<1>6. Types'
  BY <1>1, <1>3, <1>5, MembersFit, FilesTyped
<1>7. OnlyFor(p)
  BY <1>1, <1>3, <1>4 DEF OnlyFor, TypeOK
<1>8. Progress(p)' /\ Refusal(p)'
  BY <1>1, <1>2, <1>3, <1>4 DEF Progress, Refusal, Writing, Planning, Rendering, Saving, Sheeting
<1> QED
  BY <1>6, <1>7, <1>8, OthersKeep DEF IInv

LEMMA WriteSheetSidecarKeeps == ASSUME IInv, NEW p \in Procs, WriteSheetSidecar(p) PROVE IInv'
<1>1. Types /\ TypeOK /\ Fields /\ Progress(p) /\ Refusal(p)
  BY DEF IInv, Types
<1>2. /\ exit[p] = "none" /\ exit \in [Procs -> Exits] /\ phase \in [Procs -> Phases]
      /\ phase[p] = "sheet sidecar"
  BY <1>1 DEF WriteSheetSidecar, Progress, TypeOK, Exits
<1>3. UNCHANGED <<world, opts, requests, original, posts, runs, stale, listening, logs, clock,
                  installed, members, stem, files, contested>>
  BY DEF WriteSheetSidecar, shared
<1>4. phase' = [phase EXCEPT ![p] = "over"] /\ exit' = [exit EXCEPT ![p] = "ok"]
  BY <1>2 DEF WriteSheetSidecar, Goes, Ends
<1>5. phase' \in [Procs -> Phases] /\ exit' \in [Procs -> Exits]
  BY <1>2, <1>4 DEF Phases, Exits
<1>6. Types'
  BY <1>1, <1>3, <1>5, MembersFit, FilesTyped
<1>7. OnlyFor(p)
  BY <1>1, <1>3, <1>4 DEF OnlyFor, TypeOK
<1>8. Progress(p)' /\ Refusal(p)'
  BY <1>1, <1>2, <1>3, <1>4 DEF Progress, Refusal, Writing, Planning, Rendering, Saving, Sheeting
<1> QED
  BY <1>6, <1>7, <1>8, OthersKeep DEF IInv

LEMMA RemoveWeightsKeeps == ASSUME IInv, RemoveWeights PROVE IInv'
<1>1. UNCHANGED <<world, opts, phase, exit, requests, original, posts, runs, members, stem, stale,
                  listening, files, logs, clock>>
  BY DEF RemoveWeights, command
<1>2. TypeOK'
  BY <1>1 DEF IInv, Types, TypeOK, RemoveWeights
<1>3. Fields'
  BY <1>1 DEF IInv, Types, Fields, Originals, FileRecords
<1>4. \A p \in Procs : Progress(p)' /\ Refusal(p)'
  BY <1>1 DEF IInv, Progress, Refusal, Writing
<1> QED
  BY <1>2, <1>3, <1>4 DEF IInv, Types

LEMMA IInvStep == IInv /\ [Next]_vars => IInv'
<1> SUFFICES ASSUME IInv, [Next]_vars PROVE IInv'
  OBVIOUS
<1>1. CASE UNCHANGED vars
  <2>1. UNCHANGED <<world, opts, phase, exit, requests, original, posts, runs, members, stem, stale,
                    listening, installed, files, logs, clock>>
    BY <1>1 DEF vars, command, shared
  <2>2. Types'
    BY <2>1 DEF IInv, Types, TypeOK, Fields, Originals, FileRecords
  <2>3. \A p \in Procs : Progress(p)' /\ Refusal(p)'
    BY <2>1 DEF IInv, Progress, Refusal, Writing
  <2> QED
    BY <2>2, <2>3 DEF IInv
<1>2. CASE RemoveWeights
  BY <1>2, RemoveWeightsKeeps
<1>3. ASSUME NEW p \in Procs, CommandStep(p) PROVE IInv'
  BY <1>3, PlanKeeps, OpenBackendKeeps, RewriteKeeps, PreflightKeeps, CheckWeightsKeeps,
     ListLogsKeeps, OpenLogKeeps, StartEngineKeeps, EngineEndsKeeps, FindStemKeeps,
     WriteSidecarKeeps, WriteImageKeeps, WriteFailsKeeps, CannotWriteKeeps, WriteSheetKeeps,
     WriteSheetSidecarKeeps, ServeKeeps DEF CommandStep
<1>4. ASSUME NEW p \in Procs, Kill(p) PROVE IInv'
  BY <1>4, KillKeeps
<1> QED
  BY <1>1, <1>2, <1>3, <1>4 DEF Next

(* The commands' locals and the shared directories keep their types, for   *)
(* any number of processes, machines and command lines.                    *)
THEOREM TypeCorrect == Spec => []TypeOK
<1>1. IInv => TypeOK
  BY DEF IInv, Types
<1> QED
  BY <1>1, IInvInit, IInvStep, PTL DEF Spec

(* A command that refuses has started no engine, written nothing, opened   *)
(* no port and, but for the memory check, not called the rewriter          *)
(* (cli/generate.py, core/run.py).                                         *)
THEOREM RefusalsComeFirst == Spec => []RefusedMeansNothingDone
<1>1. IInv => RefusedMeansNothingDone
  BY DEF IInv, Refusal, RefusedMeansNothingDone
<1> QED
  BY <1>1, IInvInit, IInvStep, PTL DEF Spec

-------------------------------------------------------------------------------
(* The output directory.                                                   *)

LEMMA FileInvInit == Init => FileInv /\ ImageHasSidecar
<1> SUFFICES ASSUME Init PROVE FileInv /\ ImageHasSidecar
  OBVIOUS
<1>1. \A p \in Procs : members[p] = <<>> /\ phase[p] = "plan"
  BY DEF Init
<1>2. \A p \in Procs : Claim(p)
  BY <1>1 DEF Claim, Writing
<1>3. \A p \in Procs : Reported(p)
  BY <1>1 DEF Reported, ReportedAreThere, IsInjective
<1>4. ImageHasSidecar
  BY DEF Init, ImageHasSidecar
<1> QED
  BY <1>2, <1>3, <1>4 DEF FileInv

(* Most steps are about no file, and a request only changes before the     *)
(* command has made any image.                                             *)
Quiet ==
  /\ UNCHANGED <<files, stem, contested, members>>
  /\ \A q \in Procs :
       /\ Writing(q)' => phase'[q] = phase[q]
       /\ \/ UNCHANGED <<requests[q], original[q]>>
          \/ members[q] = <<>> /\ ~Writing(q)'

LEMMA QuietKeepsFiles ==
  ASSUME IInv, FileInv, Quiet
  PROVE  FileInv' /\ (ImageHasSidecar => ImageHasSidecar')
<1>1. UNCHANGED <<files, stem, contested, members>>
  BY DEF Quiet
<1>2. ImageHasSidecar => ImageHasSidecar'
  BY <1>1 DEF ImageHasSidecar
<1>3. \A q \in Procs : Writing(q)' => Writing(q) /\ phase'[q] = phase[q]
  BY DEF Quiet, Writing
<1>4. ASSUME NEW q \in Procs PROVE Claim(q)' /\ Reported(q)'
  <2>1. Claim(q) /\ Reported(q)
    BY DEF FileInv
  <2>2. Writing(q)' => UNCHANGED File(q, "json")
    <3>1. Writing(q)' => \/ UNCHANGED <<requests[q], original[q]>>
                         \/ members[q] = <<>> /\ ~Writing(q)'
      BY DEF Quiet
    <3>2. Writing(q)' => UNCHANGED <<requests[q], original[q], members[q], stem[q]>>
      BY <1>1, <3>1
    <3> QED
      BY <3>2 DEF File, Index
  <2>3. Claim(q)'
    BY <1>1, <1>3, <2>1, <2>2 DEF Claim
  <2>4. Reported(q)'
    <3>1. CASE requests'[q] = requests[q]
      BY <1>1, <2>1, <3>1 DEF Reported, ReportedAreThere
    <3>2. CASE members[q] = <<>>
      BY <1>1, <2>1, <3>2 DEF Reported, ReportedAreThere
    <3> QED
      BY <3>1, <3>2 DEF Quiet
  <2> QED
    BY <2>3, <2>4
<1> QED
  BY <1>2, <1>4 DEF FileInv

LEMMA FindStemKeepsFiles ==
  ASSUME IInv, FileInv, NEW p \in Procs, FindStem(p)
  PROVE  FileInv' /\ (ImageHasSidecar => ImageHasSidecar')
<1> DEFINE found == FreeStem(Base(p))
<1>1. UNCHANGED <<files, members, requests, original>> /\ phase[p] = "save"
  BY DEF FindStem
<1>2. /\ contested \subseteq contested'
      /\ phase \in [Procs -> Phases] /\ stem \in [Procs -> Stems \cup {<<>>}]
  BY DEF FindStem, IInv, Types, TypeOK, Fields
<1>3. ImageHasSidecar => ImageHasSidecar'
  BY <1>1, <1>2 DEF ImageHasSidecar
<1>4. \A q \in Procs : Reported(q)'
  BY <1>1, <1>2 DEF FileInv, Reported, ReportedAreThere
<1>5. CASE ~(phase' = [phase EXCEPT ![p] = "sidecar"])
  <2>1. phase' = [phase EXCEPT ![p] = "over"] /\ UNCHANGED <<stem, contested>>
    BY <1>5 DEF FindStem, Ends, Goes
  <2>2. \A q \in Procs : Writing(q)' => Writing(q) /\ phase'[q] = phase[q]
    BY <1>2, <2>1 DEF Writing
  <2>3. \A q \in Procs : UNCHANGED File(q, "json")
    BY <1>1, <2>1 DEF File, Index
  <2>4. \A q \in Procs : Claim(q)'
    BY <1>1, <2>1, <2>2, <2>3 DEF FileInv, Claim
  <2> QED
    BY <1>3, <1>4, <2>4 DEF FileInv
<1>6. CASE phase' = [phase EXCEPT ![p] = "sidecar"]
  <2>1. /\ stem' = [stem EXCEPT ![p] = found]
        /\ contested' = contested \cup {found : q \in {q \in Procs : Writing(q) /\ stem[q] = found}}
    <3>1. phase'[p] = "sidecar"
      BY <1>2, <1>6
    <3> QED
      BY <1>2, <3>1 DEF FindStem, Ends, Goes
  <2>2. \A f \in files : f.stem # found
    <3>1. Base(p) \in Prompts \X Int
      <4>1. Progress(p) /\ Fields
        BY DEF IInv, Types
      <4>2. Len(members[p]) < Len(requests[p]) /\ Len(members[p]) \in Nat /\ Len(requests[p]) \in Nat
        BY <1>1, <4>1 DEF Progress, Saving, Fields
      <4>3. Index(p) \in 1 .. Len(requests[p])
        BY <4>2 DEF Index
      <4>4. requests[p][Index(p)] \in Request
        BY <4>1, <4>3 DEF Fields
      <4> QED
        BY <4>4 DEF Base, Request
    <3> QED
      BY <3>1, FreeStemIsFree DEF IInv, Types
  <2>3. \A q \in Procs : Writing(q) /\ stem[q] = found => found \in contested'
    BY <2>1
  <2> HIDE DEF found
  <2>4. /\ stem'[p] = found /\ phase'[p] = "sidecar" /\ ~Writing(p)
        /\ \A q \in Procs \ {p} : UNCHANGED <<stem[q], phase[q]>>
    BY <1>1, <1>2, <1>6, <2>1 DEF Writing
  <2>5. \A q \in Procs \ {p} : Writing(q)' => Writing(q)
    BY <2>4 DEF Writing
  <2>6. Claim(p)'
    <3>1. \A i \in DOMAIN members[p] : members[p][i] # found
      BY <2>2 DEF FileInv, Reported
    <3>2. found \notin contested' => \A q \in Procs \ {p} : Writing(q)' => stem'[q] # found
      BY <2>3, <2>4, <2>5
    <3> QED
      BY <1>1, <2>2, <2>4, <3>1, <3>2 DEF Claim
  <2>7. ASSUME NEW q \in Procs \ {p} PROVE Claim(q)'
    <3>1. Claim(q) /\ UNCHANGED File(q, "json")
      BY <1>1, <2>4 DEF FileInv, File, Index
    <3>2. Writing(q)' /\ stem[q] \notin contested' => stem'[p] # stem[q]
      BY <2>3, <2>4, <2>5
    <3> QED
      BY <1>1, <1>2, <2>4, <2>5, <3>1, <3>2 DEF Claim
  <2> QED
    BY <1>3, <1>4, <2>6, <2>7 DEF FileInv
<1> QED
  BY <1>5, <1>6

LEMMA WriteSidecarKeepsFiles ==
  ASSUME IInv, FileInv, NEW p \in Procs, WriteSidecar(p)
  PROVE  FileInv' /\ (ImageHasSidecar => ImageHasSidecar')
<1> DEFINE new == File(p, "json")
<1>1. /\ UNCHANGED <<members, requests, original, stem, contested>>
      /\ phase[p] = "sidecar" /\ Writing(p)
      /\ phase' = [phase EXCEPT ![p] = "image"] /\ phase \in [Procs -> Phases]
  BY DEF WriteSidecar, Goes, Writing, IInv, Types, TypeOK
<1>2. files' = {g \in files : g.stem # stem[p] \/ g.ext # "json"} \cup {new}
  BY DEF WriteSidecar, Put, File
<1>3. new.stem = stem[p] /\ new.ext = "json"
  BY DEF File
<1>4. \A q \in Procs : UNCHANGED File(q, "json")
  BY <1>1 DEF File, Index
<1>5. Claim(p)
  BY DEF FileInv
<1> HIDE DEF new
<1>6. \A f : f.ext = "png" => (f \in files <=> f \in files')
  BY <1>2, <1>3
<1>7. new \in files' /\ \A g \in files : g.stem # stem[p] => g \in files'
  BY <1>2
<1>8. \A q \in Procs : Reported(q)'
  BY <1>1, <1>6 DEF FileInv, Reported, ReportedAreThere
<1>9. Claim(p)'
  <2>1. File(p, "json")' \in files'
    BY <1>4, <1>7 DEF new
  <2>2. \A q \in Procs \ {p} : Writing(q)' => Writing(q)
    BY <1>1 DEF Writing
  <2> QED
    BY <1>1, <1>5, <1>6, <2>1, <2>2 DEF Claim
<1>10. ASSUME NEW q \in Procs \ {p} PROVE Claim(q)'
  <2>1. Claim(q) /\ UNCHANGED phase[q]
    BY <1>1 DEF FileInv
  <2>2. \A r \in Procs : Writing(r)' => Writing(r)
    BY <1>1 DEF Writing
  <2>3. Writing(q) /\ stem[q] \notin contested => stem[p] # stem[q]
    BY <1>1, <2>1 DEF Claim
  <2>4. File(q, "json").stem = stem[q]
    BY DEF File
  <2> QED
    BY <1>1, <1>4, <1>6, <1>7, <2>1, <2>2, <2>3, <2>4 DEF Claim
<1>11. ASSUME ImageHasSidecar PROVE ImageHasSidecar'
  <2>1. SUFFICES ASSUME NEW f \in files', f.ext = "png", f.stem \notin contested
                 PROVE  \E g \in files' : g = [f EXCEPT !.ext = "json"]
    BY <1>1 DEF ImageHasSidecar
  <2>2. f \in files
    BY <1>6, <2>1
  <2>3. f \in FileRecords
    BY <2>2 DEF IInv, Types, Fields
  <2>4. f.stem # stem[p]
    BY <1>1, <1>5, <2>1, <2>2 DEF Claim
  <2>5. [f EXCEPT !.ext = "json"] \in files
    BY <1>11, <2>1, <2>2 DEF ImageHasSidecar
  <2>6. [f EXCEPT !.ext = "json"].stem = f.stem
    BY <2>3 DEF FileRecords
  <2> QED
    BY <1>7, <2>4, <2>5, <2>6
<1> QED
  BY <1>8, <1>9, <1>10, <1>11 DEF FileInv

LEMMA WriteImageKeepsFiles ==
  ASSUME IInv, FileInv, NEW p \in Procs, WriteImage(p)
  PROVE  FileInv' /\ (ImageHasSidecar => ImageHasSidecar')
<1> DEFINE new == File(p, "png")
           m == members[p]
<1>1. /\ UNCHANGED <<requests, original, stem, contested>>
      /\ phase[p] = "image" /\ Writing(p)
      /\ phase \in [Procs -> Phases] /\ members \in [Procs -> Seq(Stems)]
  BY DEF WriteImage, Writing, IInv, Types, TypeOK, Fields
<1>2. \E to \in {"render", "sheet", "over"} : phase' = [phase EXCEPT ![p] = to]
  BY DEF WriteImage, Afterwards, Goes, Ends
<1>3. files' = {g \in files : g.stem # stem[p] \/ g.ext # "png"} \cup {new}
  BY DEF WriteImage, Put, File
<1>4. /\ new.stem = stem[p] /\ new.ext = "png" /\ new.by = p
      /\ new.request = requests[p][Index(p)]
  BY DEF File
<1>5. Claim(p) /\ Reported(p)
  BY DEF FileInv
<1>6. [new EXCEPT !.ext = "json"] = File(p, "json")
  BY DEF File
<1>7. stem[p] \in Stems /\ Len(m) \in Nat /\ m \in Seq(Stems)
  BY <1>1 DEF IInv, Progress, Writing
<1>8. members' = [members EXCEPT ![p] = Append(m, stem[p])] /\ Index(p) = Len(m) + 1
  BY DEF WriteImage, Index
<1> HIDE DEF new
<1>9. /\ ~Writing(p)'
      /\ \A q \in Procs \ {p} : UNCHANGED <<phase[q], members[q]>>
      /\ members'[p] = Append(m, stem[p])
  BY <1>1, <1>2, <1>8 DEF Writing
<1>10. /\ new \in files'
       /\ \A g \in files : g.stem # stem[p] \/ g.ext # "png" => g \in files'
       /\ \A g \in files' : g = new \/ g \in files
  BY <1>3
<1>11. \A f \in files : f.ext = "png" => \E g \in files' : g.stem = f.stem /\ g.ext = "png"
  BY <1>4, <1>10
<1>12. ASSUME NEW q \in Procs \ {p} PROVE Claim(q)' /\ Reported(q)'
  <2>1. Claim(q) /\ Reported(q) /\ UNCHANGED <<phase[q], members[q], requests[q], stem[q], File(q, "json")>>
    BY <1>1, <1>9 DEF FileInv, File, Index
  <2>2. \A r \in Procs \ {p} : Writing(r)' => Writing(r)
    BY <1>9 DEF Writing
  <2>3. Writing(q) /\ stem[q] \notin contested => stem[p] # stem[q]
    BY <1>1, <2>1 DEF Claim
  <2>4. File(q, "json").ext = "json"
    BY DEF File
  <2>5. Claim(q)'
    BY <1>1, <1>4, <1>9, <1>10, <2>1, <2>2, <2>3, <2>4 DEF Claim
  <2>6. ASSUME NEW i \in DOMAIN members[q], members[q][i] \notin contested
        PROVE  \E f \in files' : /\ f.stem = members[q][i] /\ f.ext = "png"
                                 /\ f.by = q /\ f.request = requests[q][i]
    <3>1. PICK f \in files : /\ f.stem = members[q][i] /\ f.ext = "png"
                             /\ f.by = q /\ f.request = requests[q][i]
      BY <2>1, <2>6 DEF Reported, ReportedAreThere
    <3>2. f.stem # stem[p]
      BY <1>1, <1>5, <2>6, <3>1 DEF Claim
    <3> QED
      BY <1>10, <3>1, <3>2
  <2>7. Reported(q)'
    BY <1>1, <1>11, <2>1, <2>6 DEF Reported, ReportedAreThere
  <2> QED
    BY <2>5, <2>7
<1>13. Claim(p)'
  BY <1>9 DEF Claim
<1>14. Reported(p)'
  <2> DEFINE n == Append(m, stem[p])
  <2>1. /\ DOMAIN m = 1 .. Len(m) /\ DOMAIN n = 1 .. Len(m) + 1
        /\ n[Len(m) + 1] = stem[p]
        /\ \A i \in 1 .. Len(m) : n[i] = m[i]
    BY <1>7
  <2> HIDE DEF n, m
  <2>2. \A i \in 1 .. Len(m) : m[i] # stem[p]
    BY <1>1, <1>5, <2>1 DEF Claim, m
  <2>3. IsInjective(n)
    <3>1. IsInjective(m)
      BY <1>5 DEF Reported, ReportedAreThere, m
    <3>2. SUFFICES ASSUME NEW a \in 1 .. Len(m) + 1, NEW b \in 1 .. Len(m) + 1, n[a] = n[b]
                   PROVE  a = b
      BY <2>1 DEF IsInjective
    <3>3. (a \in 1 .. Len(m) \/ a = Len(m) + 1) /\ (b \in 1 .. Len(m) \/ b = Len(m) + 1)
      BY <1>7
    <3> QED
      BY <2>1, <2>2, <3>1, <3>2, <3>3 DEF IsInjective
  <2>4. ASSUME NEW i \in DOMAIN n
        PROVE  /\ \E f \in files' : f.stem = n[i] /\ f.ext = "png"
               /\ n[i] \notin contested =>
                    \E f \in files' : /\ f.stem = n[i] /\ f.ext = "png"
                                      /\ f.by = p /\ f.request = requests[p][i]
    <3>1. CASE i = Len(m) + 1
      BY <1>4, <1>8, <1>10, <2>1, <3>1
    <3>2. CASE i \in 1 .. Len(m)
      <4>1. n[i] = m[i] /\ m[i] # stem[p] /\ i \in DOMAIN m
        BY <2>1, <2>2, <3>2
      <4>2. \E f \in files : f.stem = m[i] /\ f.ext = "png"
        BY <1>5, <4>1 DEF Reported, m
      <4>3. m[i] \notin contested =>
              \E f \in files : /\ f.stem = m[i] /\ f.ext = "png"
                               /\ f.by = p /\ f.request = requests[p][i]
        BY <1>5, <4>1 DEF Reported, ReportedAreThere, m
      <4> QED
        BY <1>10, <4>1, <4>2, <4>3
    <3> QED
      BY <1>7, <2>1, <3>1, <3>2
  <2>5. members'[p] = n
    BY <1>9 DEF n
  <2> QED
    BY <1>1, <2>3, <2>4, <2>5 DEF Reported, ReportedAreThere
<1>15. ASSUME ImageHasSidecar PROVE ImageHasSidecar'
  <2>1. SUFFICES ASSUME NEW f \in files', f.ext = "png", f.stem \notin contested
                 PROVE  \E g \in files' : g = [f EXCEPT !.ext = "json"]
    BY <1>1 DEF ImageHasSidecar
  <2>2. CASE f = new
    <3>1. File(p, "json") \in files /\ File(p, "json").ext = "json"
      BY <1>1, <1>4, <1>5, <2>1, <2>2 DEF Claim, File
    <3> QED
      BY <1>6, <1>10, <2>2, <3>1
  <2>3. CASE f \in files
    <3>1. f \in FileRecords
      BY <2>3 DEF IInv, Types, Fields
    <3>2. [f EXCEPT !.ext = "json"] \in files
      BY <1>15, <2>1, <2>3 DEF ImageHasSidecar
    <3>3. [f EXCEPT !.ext = "json"].ext = "json"
      BY <3>1 DEF FileRecords
    <3> QED
      BY <1>10, <3>2, <3>3
  <2> QED
    BY <1>10, <2>1, <2>2, <2>3
<1> QED
  BY <1>12, <1>13, <1>14, <1>15 DEF FileInv

LEMMA WriteFailsKeepsFiles ==
  ASSUME IInv, FileInv, NEW p \in Procs, WriteFails(p)
  PROVE  FileInv' /\ (LateInterrupt = FALSE /\ ImageHasSidecar => ImageHasSidecar')
<1> DEFINE new == File(p, "png")
<1>1. /\ UNCHANGED <<requests, original, stem, contested, members>>
      /\ phase[p] = "image" /\ Writing(p)
      /\ phase' = [phase EXCEPT ![p] = "over"]
      /\ phase \in [Procs -> Phases]
  BY DEF WriteFails, Writing, Ends, IInv, Types, TypeOK
<1>2. PICK late \in {FALSE, LateInterrupt} :
        files' = {g \in IF late THEN Put(files, new) ELSE files : g.stem # stem[p] \/ g.ext # "json"}
  BY DEF WriteFails
<1>3. new.stem = stem[p] /\ new.ext = "png"
  BY DEF File
<1>4. Put(files, new) = {g \in files : g.stem # stem[p] \/ g.ext # "png"} \cup {new}
  BY <1>3 DEF Put
<1> HIDE DEF new
<1>5. \A g \in files' : g \in files \/ g = new
  BY <1>2, <1>4
<1>6. \A g \in files : g.stem # stem[p] => g \in files'
  BY <1>2, <1>4
<1>7. \A f \in files : f.ext = "png" => \E g \in files' : g.stem = f.stem /\ g.ext = "png"
  BY <1>2, <1>3, <1>4
<1>8. Claim(p) /\ \A q \in Procs \ {p} : UNCHANGED phase[q]
  BY <1>1 DEF FileInv
<1>9. Claim(p)'
  BY <1>1 DEF Claim, Writing
<1>10. ASSUME NEW q \in Procs \ {p} PROVE Claim(q)'
  <2>1. Claim(q) /\ UNCHANGED <<phase[q], members[q], stem[q], File(q, "json")>>
    BY <1>1, <1>8 DEF FileInv, File, Index
  <2>2. \A r \in Procs : Writing(r)' => Writing(r)
    BY <1>1 DEF Writing
  <2>3. Writing(q) /\ stem[q] \notin contested => stem[p] # stem[q]
    BY <1>1, <2>1 DEF Claim
  <2>4. File(q, "json").stem = stem[q]
    BY DEF File
  <2> QED
    BY <1>1, <1>3, <1>5, <1>6, <2>1, <2>2, <2>3, <2>4 DEF Claim
<1>11. ASSUME NEW q \in Procs PROVE Reported(q)'
  <2>1. Reported(q)
    BY DEF FileInv
  <2>2. ASSUME NEW i \in DOMAIN members[q], members[q][i] \notin contested
        PROVE  \E f \in files' : /\ f.stem = members[q][i] /\ f.ext = "png"
                                 /\ f.by = q /\ f.request = requests[q][i]
    <3>1. PICK f \in files : /\ f.stem = members[q][i] /\ f.ext = "png"
                             /\ f.by = q /\ f.request = requests[q][i]
      BY <2>1, <2>2 DEF Reported, ReportedAreThere
    <3>2. f.stem # stem[p]
      BY <1>1, <1>8, <2>2, <3>1 DEF Claim
    <3> QED
      BY <1>6, <3>1, <3>2
  <2> QED
    BY <1>1, <1>7, <2>1, <2>2 DEF Reported, ReportedAreThere
<1>12. ASSUME LateInterrupt = FALSE, ImageHasSidecar PROVE ImageHasSidecar'
  <2>1. SUFFICES ASSUME NEW f \in files', f.ext = "png", f.stem \notin contested
                 PROVE  \E g \in files' : g = [f EXCEPT !.ext = "json"]
    BY <1>1 DEF ImageHasSidecar
  <2>2. f \in files
    BY <1>2, <1>12
  <2>3. f \in FileRecords
    BY <2>2 DEF IInv, Types, Fields
  <2>4. f.stem # stem[p]
    BY <1>1, <1>8, <2>1, <2>2 DEF Claim
  <2>5. [f EXCEPT !.ext = "json"] \in files
    BY <1>12, <2>1, <2>2 DEF ImageHasSidecar
  <2>6. [f EXCEPT !.ext = "json"].stem = f.stem
    BY <2>3 DEF FileRecords
  <2> QED
    BY <1>6, <2>4, <2>5, <2>6
<1> QED
  BY <1>9, <1>10, <1>11, <1>12 DEF FileInv

LEMMA OthersAreQuiet ==
  ASSUME IInv, NEW p \in Procs, CommandStep(p) \/ Kill(p),
         ~FindStem(p), ~WriteSidecar(p), ~WriteImage(p), ~WriteFails(p)
  PROVE  Quiet
<1>1. /\ phase \in [Procs -> Phases] /\ Progress(p)
      /\ requests \in [Procs -> Seq(Request)] /\ original \in [Procs -> Originals]
  BY DEF IInv, Types, TypeOK, Fields, Originals
<1>2. UNCHANGED <<files, stem, contested, members>>
  BY DEF CommandStep, Plan, OpenBackend, Rewrite, Preflight, CheckWeights, ListLogs, OpenLog,
         StartEngine, EngineEnds, CannotWrite, WriteSheet, WriteSheetSidecar, Serve, Kill, shared
<1>3. \E to \in Phases \ {"sidecar", "image"} :
        phase' = [phase EXCEPT ![p] = to] \/ phase' = phase
  <2>1. CASE Plan(p)
    BY <2>1 DEF Plan, Goes, Ends, Phases
  <2>2. CASE OpenBackend(p)
    BY <2>2 DEF OpenBackend, Goes, Ends, Phases
  <2>3. CASE Rewrite(p)
    BY <2>3 DEF Rewrite, Goes, Ends, Phases
  <2>4. CASE Preflight(p)
    BY <2>4 DEF Preflight, Goes, Ends, Phases
  <2>5. CASE CheckWeights(p)
    BY <2>5 DEF CheckWeights, Goes, Ends, Phases
  <2>6. CASE Serve(p)
    BY <2>6 DEF Serve, Goes, Ends, Phases
  <2>7. CASE ListLogs(p) \/ OpenLog(p) \/ StartEngine(p) \/ EngineEnds(p)
    BY <2>7 DEF ListLogs, OpenLog, StartEngine, EngineEnds, Goes, Ends, Phases
  <2>8. CASE CannotWrite(p) \/ WriteSheet(p) \/ WriteSheetSidecar(p) \/ Kill(p)
    BY <2>8 DEF CannotWrite, WriteSheet, WriteSheetSidecar, Kill, Goes, Ends, Phases
  <2> QED
    BY <2>1, <2>2, <2>3, <2>4, <2>5, <2>6, <2>7, <2>8 DEF CommandStep
<1>4. \A q \in Procs : Writing(q)' => phase'[q] = phase[q]
  BY <1>1, <1>3 DEF Writing
<1>5. ASSUME NEW q \in Procs
      PROVE  UNCHANGED <<requests[q], original[q]>> \/ (members[q] = <<>> /\ ~Writing(q)')
  <2>1. CASE Plan(p) \/ Rewrite(p)
    <3>1. CASE q = p
      <4>1. phase[p] \in {"plan", "rewrite"}
        BY <2>1 DEF Plan, Rewrite
      <4> QED
        BY <1>1, <1>4, <3>1, <4>1 DEF Progress, Planning, Writing
    <3>2. CASE q # p /\ Plan(p)
      BY <1>1, <3>2 DEF Plan
    <3>3. CASE q # p /\ Rewrite(p)
      BY <1>1, <3>3 DEF Rewrite
    <3> QED
      BY <2>1, <3>1, <3>2, <3>3
  <2>2. CASE ~(Plan(p) \/ Rewrite(p))
    BY <2>2 DEF CommandStep, OpenBackend, Preflight, CheckWeights, ListLogs, OpenLog, StartEngine,
                EngineEnds, CannotWrite, WriteSheet, WriteSheetSidecar, Serve, Kill
  <2> QED
    BY <2>1, <2>2
<1> QED
  BY <1>2, <1>4, <1>5 DEF Quiet

LEMMA FileInvStep ==
  ASSUME IInv, FileInv, [Next]_vars
  PROVE  FileInv' /\ (LateInterrupt = FALSE /\ ImageHasSidecar => ImageHasSidecar')
<1>1. CASE RemoveWeights \/ UNCHANGED vars
  <2>1. Quiet
    BY <1>1 DEF RemoveWeights, vars, command, shared, Quiet
  <2> QED
    BY <2>1, QuietKeepsFiles
<1>2. ASSUME NEW p \in Procs, CommandStep(p) \/ Kill(p)
      PROVE  FileInv' /\ (LateInterrupt = FALSE /\ ImageHasSidecar => ImageHasSidecar')
  <2>1. CASE FindStem(p)
    BY <2>1, FindStemKeepsFiles
  <2>2. CASE WriteSidecar(p)
    BY <2>2, WriteSidecarKeepsFiles
  <2>3. CASE WriteImage(p)
    BY <2>3, WriteImageKeepsFiles
  <2>4. CASE WriteFails(p)
    BY <2>4, WriteFailsKeepsFiles
  <2>5. CASE ~FindStem(p) /\ ~WriteSidecar(p) /\ ~WriteImage(p) /\ ~WriteFails(p)
    BY <1>2, <2>5, OthersAreQuiet, QuietKeepsFiles
  <2> QED
    BY <2>1, <2>2, <2>3, <2>4, <2>5
<1> QED
  BY <1>1, <1>2 DEF Next

(* Wherever commands are killed and writes fail, there is no image without *)
(* its own sidecar, except where two processes had found the same stem     *)
(* free, provided that no Ctrl-C comes between the last rename of an image *)
(* and the return from _atomic_write (core/output.py).                     *)
THEOREM SidecarsComeFirst == ASSUME LateInterrupt = FALSE PROVE Spec => []ImageHasSidecar
<1>1. Init => IInv /\ FileInv /\ ImageHasSidecar
  BY IInvInit, FileInvInit
<1>2. IInv /\ FileInv /\ ImageHasSidecar /\ [Next]_vars => (IInv /\ FileInv /\ ImageHasSidecar)'
  BY IInvStep, FileInvStep
<1> QED
  BY <1>1, <1>2, PTL DEF Spec

(* The images a command has reported are there, each from its own request  *)
(* and no two of one name, whatever others write into the directory and    *)
(* whenever Ctrl-C comes (the first part of BatchTellsTheTruth).           *)
THEOREM ReportedImagesAreThere == Spec => [](\A p \in Procs : ReportedAreThere(p))
<1>1. Init => IInv /\ FileInv
  BY IInvInit, FileInvInit
<1>2. IInv /\ FileInv /\ [Next]_vars => (IInv /\ FileInv)'
  BY IInvStep, FileInvStep
<1>3. FileInv => \A p \in Procs : ReportedAreThere(p)
  BY DEF FileInv, Reported
<1> QED
  BY <1>1, <1>2, <1>3, PTL DEF Spec

-------------------------------------------------------------------------------
(* The sheet of a batch.                                                   *)

LEMMA SheetInvInit == Init => SheetInv
BY DEF Init, SheetInv, SheetProgress, Sheeting, SuccessIsComplete

LEMMA OthersLocals ==
  ASSUME IInv, NEW p \in Procs, CommandStep(p) \/ Kill(p), NEW q \in Procs \ {p}
  PROVE  /\ UNCHANGED <<world, opts, phase[q], exit[q], requests[q], runs[q], members[q], stale[q],
                     listening[q]>>
         /\ {s \in sheets' : s.batch = q} = {s \in sheets : s.batch = q}
<1>1. /\ phase \in [Procs -> Phases] /\ exit \in [Procs -> Exits]
      /\ requests \in [Procs -> Seq(Request)] /\ members \in [Procs -> Seq(Stems)]
      /\ stale \in [Procs -> SUBSET Nat] /\ runs \in [Procs -> 0 .. MaxCount]
      /\ listening \in [Procs -> {"nowhere"} \cup Addresses]
  BY DEF IInv, Types, TypeOK, Fields, Exits
<1>2. UNCHANGED <<world, opts, phase[q], exit[q]>>
  BY <1>1 DEF CommandStep, Plan, OpenBackend, Rewrite, Preflight, CheckWeights, ListLogs, OpenLog,
         StartEngine, EngineEnds, FindStem, WriteSidecar, WriteImage, WriteFails, CannotWrite,
         WriteSheet, WriteSheetSidecar, Serve, Kill, Goes, Ends, Afterwards
<1>3. UNCHANGED <<requests[q], runs[q], members[q], stale[q], listening[q]>>
  BY <1>1 DEF CommandStep, Plan, OpenBackend, Rewrite, Preflight, CheckWeights, ListLogs, OpenLog,
         StartEngine, EngineEnds, FindStem, WriteSidecar, WriteImage, WriteFails, CannotWrite,
         WriteSheet, WriteSheetSidecar, Serve, Kill
<1>4. CASE sheets' = sheets
  BY <1>2, <1>3, <1>4
<1>5. CASE WriteSheet(p) \/ WriteSheetSidecar(p)
  <2>1. \E ext \in {"png", "json"} : sheets' = sheets \cup {SheetFile(p, ext)}
    BY <1>5 DEF WriteSheet, WriteSheetSidecar
  <2>2. \A ext : SheetFile(p, ext).batch # q
    BY DEF SheetFile
  <2> QED
    BY <1>2, <1>3, <2>1, <2>2
<1> QED
  BY <1>4, <1>5 DEF CommandStep, Plan, OpenBackend, Rewrite, Preflight, CheckWeights, ListLogs,
         OpenLog, StartEngine, EngineEnds, FindStem, WriteSidecar, WriteImage, WriteFails,
         CannotWrite, Serve, Kill, shared

(* No other step ends a command well or takes it to its sheet.             *)
LEMMA OthersMakeNoSheet ==
  ASSUME IInv, NEW p \in Procs, CommandStep(p) \/ Kill(p),
         ~WriteImage(p), ~WriteSheet(p), ~WriteSheetSidecar(p)
  PROVE  /\ sheets' = sheets /\ phase[p] # "over"
         /\ phase'[p] \notin Sheeting /\ exit'[p] # "ok"
         /\ phase[p] = "sheet sidecar" => phase'[p] = "over"
<1>1. phase \in [Procs -> Phases] /\ exit \in [Procs -> Exits] /\ Progress(p)
  BY DEF IInv, Types, TypeOK, Exits
<1>2. phase[p] # "over" => exit[p] = "none"
  BY <1>1 DEF Progress
<1>3. CASE Plan(p)
  BY <1>1, <1>2, <1>3 DEF Plan, Goes, Ends, shared, Sheeting
<1>4. CASE OpenBackend(p)
  BY <1>1, <1>2, <1>4 DEF OpenBackend, Goes, Ends, shared, Sheeting
<1>5. CASE Rewrite(p)
  BY <1>1, <1>2, <1>5 DEF Rewrite, Goes, Ends, shared, Sheeting
<1>6. CASE Preflight(p)
  BY <1>1, <1>2, <1>6 DEF Preflight, Goes, Ends, shared, Sheeting
<1>7. CASE CheckWeights(p)
  BY <1>1, <1>2, <1>7 DEF CheckWeights, RenderError, Goes, Ends, shared, Sheeting
<1>8. CASE Serve(p)
  BY <1>1, <1>2, <1>8 DEF Serve, Goes, Ends, shared, Sheeting
<1>9. CASE ListLogs(p) \/ OpenLog(p) \/ StartEngine(p) \/ EngineEnds(p)
  BY <1>1, <1>2, <1>9 DEF ListLogs, OpenLog, StartEngine, EngineEnds, RenderError, Goes, Ends,
                          shared, Sheeting
<1>10. CASE FindStem(p) \/ WriteSidecar(p) \/ WriteFails(p)
  BY <1>1, <1>2, <1>10 DEF FindStem, WriteSidecar, WriteFails, Goes, Ends, shared, Sheeting
<1>11. CASE CannotWrite(p) \/ Kill(p)
  BY <1>1, <1>2, <1>11 DEF CannotWrite, Kill, Goes, Ends, shared, Sheeting
<1> QED
  BY <1>3, <1>4, <1>5, <1>6, <1>7, <1>8, <1>9, <1>10, <1>11 DEF CommandStep

LEMMA SheetInvStep ==
  ASSUME IInv, SheetInv, [Next]_vars
  PROVE  SheetInv'
<1>1. CASE RemoveWeights \/ UNCHANGED vars
  BY <1>1 DEF RemoveWeights, vars, command, shared, SheetInv, SheetProgress, SuccessIsComplete,
              WantsSheet, SheetFile
<1>2. ASSUME NEW p \in Procs, CommandStep(p) \/ Kill(p) PROVE SheetInv'
  <2>1. /\ phase \in [Procs -> Phases] /\ exit \in [Procs -> Exits]
        /\ Progress(p) /\ SheetProgress(p)
        /\ requests \in [Procs -> Seq(Request)] /\ members \in [Procs -> Seq(Stems)]
    BY DEF IInv, Types, TypeOK, Fields, SheetInv, Exits
  <2>2. ASSUME NEW q \in Procs \ {p} PROVE SheetProgress(q)'
    <3>1. SheetProgress(q)
      BY DEF SheetInv
    <3>2. /\ UNCHANGED <<opts, phase[q], exit[q], requests[q], members[q]>>
          /\ {s \in sheets' : s.batch = q} = {s \in sheets : s.batch = q}
      BY <1>2, OthersLocals
    <3>3. (\A s \in sheets : s.batch # q) <=> (\A s \in sheets' : s.batch # q)
      BY <3>2
    <3> QED
      BY <3>1, <3>2, <3>3 DEF SheetProgress, SuccessIsComplete, WantsSheet, SheetFile
  <2>3. SheetProgress(p)'
    <3>1. CASE WriteImage(p)
      <4>1. /\ phase[p] = "image" /\ UNCHANGED <<opts, sheets, requests>>
            /\ members'[p] = Append(members[p], stem[p])
        BY <2>1, <3>1 DEF WriteImage
      <4>2. /\ Len(members[p]) \in Nat /\ Len(requests[p]) \in Nat
            /\ Len(members[p]) < Len(requests[p]) /\ Len(members'[p]) = Len(members[p]) + 1
        BY <2>1, <4>1 DEF Progress, Saving
      <4>3. \/ phase'[p] = "render" /\ exit'[p] = "none"
            \/ phase'[p] = "sheet" /\ exit'[p] = "none" /\ WantsSheet(p)
            \/ /\ phase'[p] = "over" /\ exit'[p] = "ok" /\ ~WantsSheet(p)
               /\ Len(members'[p]) = Len(requests[p])
        BY <2>1, <3>1, <4>1, <4>2 DEF WriteImage, Afterwards, Goes, Ends, Index, Progress
      <4>4. \A s \in sheets' : s.batch # p
        BY <2>1, <4>1 DEF SheetProgress
      <4>5. WantsSheet(p)' <=> WantsSheet(p)
        BY <4>1 DEF WantsSheet
      <4> QED
        BY <4>1, <4>3, <4>4, <4>5 DEF SheetProgress, SuccessIsComplete, Sheeting
    <3>2. CASE WriteSheet(p)
      <4>1. /\ phase[p] = "sheet" /\ UNCHANGED <<opts, members>> /\ phase'[p] = "sheet sidecar"
            /\ exit'[p] = exit[p] /\ exit[p] = "none"
        BY <2>1, <3>2 DEF WriteSheet, Goes, Progress
      <4>2. sheets' = sheets \cup {SheetFile(p, "png")} /\ SheetFile(p, "png").batch = p
        BY <3>2 DEF WriteSheet, SheetFile
      <4>3. WantsSheet(p)' /\ \A s \in sheets : s.batch # p
        BY <2>1, <4>1 DEF SheetProgress, Sheeting, WantsSheet
      <4>4. {s \in sheets' : s.batch = p} = {SheetFile(p, "png")}
        BY <4>2, <4>3
      <4>5. SheetFile(p, "png")' = SheetFile(p, "png")
        BY <4>1 DEF SheetFile
      <4> QED
        BY <4>1, <4>3, <4>4, <4>5 DEF SheetProgress, SuccessIsComplete
    <3>3. CASE WriteSheetSidecar(p)
      <4>1. /\ phase[p] = "sheet sidecar" /\ UNCHANGED <<opts, members, requests>>
            /\ phase'[p] = "over" /\ exit'[p] = "ok"
        BY <2>1, <3>3 DEF WriteSheetSidecar, Ends
      <4>2. sheets' = sheets \cup {SheetFile(p, "json")} /\ SheetFile(p, "json").batch = p
        BY <3>3 DEF WriteSheetSidecar, SheetFile
      <4>3. WantsSheet(p)' /\ {s \in sheets : s.batch = p} = {SheetFile(p, "png")}
        BY <2>1, <4>1 DEF SheetProgress, Sheeting, WantsSheet
      <4>4. {s \in sheets' : s.batch = p} = {SheetFile(p, "png"), SheetFile(p, "json")}
        BY <4>2, <4>3
      <4>5. \A ext : SheetFile(p, ext)' = SheetFile(p, ext)
        BY <4>1 DEF SheetFile
      <4>6. Len(members'[p]) = Len(requests'[p])
        BY <2>1, <4>1 DEF Progress, Sheeting
      <4> QED
        BY <4>1, <4>3, <4>4, <4>5, <4>6 DEF SheetProgress, SuccessIsComplete, Sheeting
    <3>4. CASE ~WriteImage(p) /\ ~WriteSheet(p) /\ ~WriteSheetSidecar(p)
      BY <1>2, <2>1, <3>4, OthersMakeNoSheet DEF SheetProgress, SuccessIsComplete, Sheeting
    <3> QED
      BY <3>1, <3>2, <3>3, <3>4
  <2> QED
    BY <2>2, <2>3 DEF SheetInv
<1> QED
  BY <1>1, <1>2 DEF Next

(* A command that succeeds has made every image it was asked for, and the  *)
(* sheet with its sidecar, which shows exactly these images                *)
(* (cli/seeds.py, cli/sizes.py, core/sheet.py; the second part of          *)
(* BatchTellsTheTruth).                                                    *)
THEOREM SuccessMeansComplete == Spec => [](\A p \in Procs : SuccessIsComplete(p))
<1>1. Init => IInv /\ SheetInv
  BY IInvInit, SheetInvInit
<1>2. IInv /\ SheetInv /\ [Next]_vars => (IInv /\ SheetInv)'
  BY IInvStep, SheetInvStep
<1>3. SheetInv => \A p \in Procs : SuccessIsComplete(p)
  BY DEF SheetInv, SheetProgress
<1> QED
  BY <1>1, <1>2, <1>3, PTL DEF Spec

-------------------------------------------------------------------------------
(* What gets as far as an engine.                                          *)

(* The layers, merged: the environment over the file over the default.     *)
LEMMA SizeOfTheLayers ==
  ASSUME NEW flags, NEW env, NEW file, "size" \notin DOMAIN flags
  PROVE  LET size == Settings(flags, env, file)["size"]
         IN  /\ "size" \in DOMAIN env => size = env["size"]
             /\ "size" \notin DOMAIN env /\ "size" \in DOMAIN file => size = file["size"]
             /\ "size" \notin DOMAIN env \cup DOMAIN file => size = <<1024, 1024>>
             /\ IsDefault("size", flags, env, file) <=> "size" \notin DOMAIN env \cup DOMAIN file
<1> DEFINE given == Values(flags, env, file)
<1>1. "size" \in LeafKeys /\ Defaults["size"] = <<1024, 1024>>
  BY DefaultsTyped
<1>2. /\ "size" \notin DOMAIN Known(flags)
      /\ "size" \in DOMAIN Known(env) <=> "size" \in DOMAIN env
      /\ "size" \in DOMAIN Known(file) <=> "size" \in DOMAIN file
      /\ "size" \in DOMAIN env => Known(env)["size"] = env["size"]
      /\ "size" \in DOMAIN file => Known(file)["size"] = file["size"]
  BY <1>1 DEF Known
<1>3. DOMAIN Overlay(<<>>, Known(file)) = DOMAIN Known(file)
  BY DEF Overlay
<1>4. "size" \in DOMAIN given <=> "size" \in DOMAIN env \cup DOMAIN file
  BY <1>2, <1>3 DEF Values, Overlay
<1>5. "size" \in DOMAIN env => given["size"] = env["size"]
  BY <1>2, <1>3 DEF Values, Overlay
<1>6. "size" \notin DOMAIN env /\ "size" \in DOMAIN file => given["size"] = file["size"]
  BY <1>2, <1>3 DEF Values, Overlay
<1>7. Settings(flags, env, file)["size"]
        = IF "size" \in DOMAIN given THEN given["size"] ELSE <<1024, 1024>>
  BY <1>1 DEF Settings
<1> QED
  BY <1>4, <1>5, <1>6, <1>7 DEF IsDefault

LEMMA PlannedSizesAreRight ==
  ASSUME NEW p \in Procs, NEW seed,
         NEW i \in DOMAIN Requests(opts[p], SettingsFor(p), seed)
  PROVE  SizeIsRight(p, Requests(opts[p], SettingsFor(p), seed)[i])
<1> DEFINE o == opts[p]
           s == SettingsFor(p)
           byDefault == IsDefault("size", Flags(o), world.env, world.file)
           sizes == SizesOf(o, s)
<1>1. SUFFICES ASSUME o.kind \in {"generate", "seeds"}
               PROVE  Requests(o, s, seed)[i].size = OrElse(o.size, SizeSaid(p))
  BY DEF SizeIsRight
<1>2. DOMAIN Requests(o, s, seed) = DOMAIN sizes /\ Requests(o, s, seed)[i].size = sizes[i]
  BY DEF Requests
<1>3. sizes[i] = EffectiveSize(o.size, s, world, byDefault)
  BY <1>1, <1>2 DEF SizesOf
<1>4. (IF LinuxLocal(s, world) /\ byDefault THEN <<768, 768>> ELSE s["size"]) = SizeSaid(p)
  BY FlagsAreEngine, SizeOfTheLayers DEF SizeSaid, LinuxLocal, EngineOf, SettingsFor
<1> QED
  BY <1>2, <1>3, <1>4 DEF EffectiveSize

(* Of the requests of a batch one has the largest area.                    *)
LEMMA MeasuredIsLargest ==
  ASSUME NEW rs \in Seq(Request), Len(rs) > 0, \A i \in DOMAIN rs : ValidRequest(rs[i])
  PROVE  /\ \E i \in DOMAIN rs : Measured(rs) = rs[i]
         /\ \A i \in DOMAIN rs : Area(rs[i]) <= Area(Measured(rs))
<1> DEFINE S == {4096 * 4096 - Area(r) : r \in ToSet(rs)}
<1>1. \A r \in ToSet(rs) : Area(r) \in Nat /\ Area(r) <= 4096 * 4096
  <2>1. SUFFICES ASSUME NEW i \in DOMAIN rs
                 PROVE  Area(rs[i]) \in Nat /\ Area(rs[i]) <= 4096 * 4096
    BY DEF ToSet
  <2> DEFINE x == rs[i].size[1]
             y == rs[i].size[2]
  <2>2. x \in 0 .. 4096 /\ y \in 0 .. 4096
    <3>1. ValidSide(x) /\ ValidSide(y)
      BY DEF ValidRequest, ValidSize
    <3>2. \A d \in MinSize .. MaxSize : d \in 0 .. 4096
      BY DEF MinSize, MaxSize
    <3> HIDE DEF x, y
    <3> QED
      BY <3>1, <3>2 DEF ValidSide
  <2>3. Area(rs[i]) = x * y
    BY DEF Area
  <2> HIDE DEF x, y
  <2>4. x * y \in Nat /\ x * y <= 4096 * 4096
    <3>1. PICK k \in Nat : x + k = 4096
      <4>1. 4096 - x \in Nat /\ x + (4096 - x) = 4096
        BY <2>2
      <4> QED
        BY <4>1
    <3>2. x * y + k * y = 4096 * y
      BY <2>2, <3>1
    <3>3. x * y \in Nat /\ k * y \in Nat
      BY <2>2, <3>1, Product
    <3>4. x * y <= 4096 * y
      BY <2>2, <3>2, <3>3
    <3>5. 4096 * y <= 4096 * 4096 /\ 4096 * y \in Int
      BY <2>2
    <3> QED
      BY <3>3, <3>4, <3>5
  <2> QED
    BY <2>3, <2>4
<1>2. S \in SUBSET Nat /\ S # {}
  <2>1. rs[1] \in ToSet(rs)
    BY DEF ToSet
  <2> QED
    BY <1>1, <2>1
<1>3. PICK r \in ToSet(rs) : \A x \in S : 4096 * 4096 - Area(r) <= x
  <2> HIDE DEF S
  <2>1. \E m \in S : \A x \in S : m <= x
    BY <1>2, LeastElement
  <2> QED
    BY <2>1 DEF S
<1>4. \A q \in ToSet(rs) : Area(q) <= Area(r)
  <2>1. \A q \in ToSet(rs) : 4096 * 4096 - Area(r) <= 4096 * 4096 - Area(q)
    BY <1>3
  <2> QED
    BY <1>1, <2>1
<1>5. Measured(rs) \in ToSet(rs) /\ \A q \in ToSet(rs) : Area(q) <= Area(Measured(rs))
  BY <1>4 DEF Measured
<1> QED
  BY <1>5 DEF ToSet

(* The memory check looks at one image, and answers for all of them.       *)
LEMMA OneFitsAllFit ==
  ASSUME Types, NEW p \in Procs, Len(requests[p]) > 0,
         \A i \in DOMAIN requests[p] : ValidRequest(requests[p][i]),
         ~MemoryRefuses(EstimateMemory(EngineOf(p), world.platform, Measured(requests[p]).size),
                        world.memory, opts[p].force)
  PROVE  \A i \in DOMAIN requests[p] : FitsInMemory(p, requests[p][i])
<1> DEFINE rs == requests[p]
           size == Measured(rs).size
           engine == EngineOf(p)
           platform == world.platform
<1>1. SUFFICES ASSUME NEW i \in DOMAIN rs, ~opts[p].force,
                      NEW need \in EstimateMemory(engine, platform, rs[i].size),
                      NEW have \in world.memory
               PROVE  need <= have
  BY DEF FitsInMemory
<1>2. rs \in Seq(Request) /\ world.memory \subseteq Int
  BY CommandAssumption DEF Types, TypeOK, Fields
<1>3. \E j \in DOMAIN rs : Measured(rs) = rs[j]
  BY <1>2, MeasuredIsLargest
<1>4. ValidSize(size) /\ ValidSize(rs[i].size)
  BY <1>3 DEF ValidRequest
<1>5. rs[i].size[1] * rs[i].size[2] <= size[1] * size[2]
  BY <1>2, MeasuredIsLargest DEF Area
<1>6. engine \in {"sdcpp", "ncnn"} /\ need = PeakMemory(engine, platform, rs[i].size, FALSE)
  <2>1. DOMAIN Registry.memory = {"sdcpp", "ncnn"}
    BY DEF Registry
  <2> QED
    BY <1>1, <2>1 DEF EstimateMemory
<1>7. PeakMemory(engine, platform, size, FALSE) \in EstimateMemory(engine, platform, size)
  BY <1>1 DEF EstimateMemory
<1>8. ~(PeakMemory(engine, platform, size, FALSE) > have)
  BY <1>1, <1>7 DEF MemoryRefuses
<1> HIDE DEF size, engine, platform, rs
<1>9. /\ need \in Int /\ PeakMemory(engine, platform, size, FALSE) \in Int
      /\ need <= PeakMemory(engine, platform, size, FALSE)
  BY <1>4, <1>5, <1>6, PeakGrows
<1> QED
  <2>1. have \in Int /\ need \in Int
    BY <1>1, <1>2, <1>9
  <2>2. \A e \in Int : need <= e /\ ~(e > have) => need <= have
    BY <2>1
  <2> QED
    BY <1>8, <1>9, <2>2, Zenon

LEMMA AdmitInvInit == Init => AdmitInv
<1> SUFFICES ASSUME Init, NEW p \in Procs PROVE Admitted(p)
  BY DEF AdmitInv
<1>1. requests[p] = <<>> /\ phase[p] = "plan" /\ runs[p] = 0 /\ listening[p] = "nowhere"
  BY DEF Init
<1> QED
  BY <1>1 DEF Admitted, Active, Rendering, Saving

(* Admission depends on nothing but what is planned, where it listens and  *)
(* whether the memory was checked.                                         *)
LEMMA AdmittedStays ==
  ASSUME NEW p \in Procs, Admitted(p), UNCHANGED <<world, opts, requests[p], listening[p]>>,
         Active(p)' => Active(p)
  PROVE  Admitted(p)'
<1>1. ASSUME NEW r
      PROVE  /\ SizeIsRight(p, r)' <=> SizeIsRight(p, r)
             /\ FitsInMemory(p, r)' <=> FitsInMemory(p, r)
  BY DEF SizeIsRight, SizeSaid, FitsInMemory, EngineOf, SettingsFor
<1>2. \A i \in DOMAIN requests'[p] :
        ValidRequest(requests'[p][i]) /\ SizeIsRight(p, requests[p][i])
  BY DEF Admitted
<1>3. Active(p)' => \A i \in DOMAIN requests'[p] : FitsInMemory(p, requests[p][i])
  BY DEF Admitted
<1>4. \A i \in DOMAIN requests'[p] : SizeIsRight(p, requests[p][i])'
  BY <1>1, <1>2
<1>5. Active(p)' => \A i \in DOMAIN requests'[p] : FitsInMemory(p, requests[p][i])'
  BY <1>1, <1>3
<1> QED
  BY <1>2, <1>4, <1>5 DEF Admitted

LEMMA PlanAdmits ==
  ASSUME IInv, NEW p \in Procs, Admitted(p), Plan(p)
  PROVE  Admitted(p)'
<1> DEFINE o == opts[p]
           s == SettingsFor(p)
<1>1. /\ phase \in [Procs -> Phases] /\ requests \in [Procs -> Seq(Request)]
      /\ phase[p] = "plan" /\ runs[p] = 0 /\ UNCHANGED <<world, opts, runs, listening>>
  BY DEF IInv, Types, TypeOK, Fields, Progress, Planning, Plan
<1>2. phase'[p] \in {"backend", "over"}
  BY <1>1 DEF Plan, Goes, Ends
<1>3. ~Active(p)'
  BY <1>1, <1>2 DEF Active, Rendering, Saving
<1>4. CASE requests' = requests
  BY <1>1, <1>3, <1>4, AdmittedStays
<1>5. ASSUME NEW seed \in FirstSeeds(o),
             \A i \in DOMAIN Requests(o, s, seed) : ValidRequest(Requests(o, s, seed)[i]),
             requests' = [requests EXCEPT ![p] = Requests(o, s, seed)]
      PROVE  Admitted(p)'
  <2>1. requests'[p] = Requests(o, s, seed)
    BY <1>1, <1>5
  <2>2. \A i \in DOMAIN requests'[p] : SizeIsRight(p, requests'[p][i])
    BY <2>1, PlannedSizesAreRight
  <2>3. ASSUME NEW r PROVE SizeIsRight(p, r)' <=> SizeIsRight(p, r)
    BY <1>1 DEF SizeIsRight, SizeSaid, EngineOf, SettingsFor
  <2>4. \A i \in DOMAIN requests'[p] : SizeIsRight(p, requests[p][i])'
    BY <2>2, <2>3
  <2>5. \A i \in DOMAIN requests'[p] : ValidRequest(requests'[p][i])
    BY <1>5, <2>1
  <2> QED
    BY <1>1, <1>3, <2>4, <2>5 DEF Admitted
<1> QED
  BY <1>4, <1>5 DEF Plan

(* An expanded prompt is not a blank one, and nothing else is changed.     *)
LEMMA RewriteAdmits ==
  ASSUME IInv, NEW p \in Procs, Admitted(p), Rewrite(p)
  PROVE  Admitted(p)'
<1>1. /\ phase \in [Procs -> Phases] /\ requests \in [Procs -> Seq(Request)]
      /\ phase[p] = "rewrite" /\ runs[p] = 0 /\ UNCHANGED <<world, opts, runs, listening>>
      /\ Len(requests[p]) > 0
  BY DEF IInv, Types, TypeOK, Fields, Progress, Planning, Rewrite
<1>2. phase'[p] \in {"rewrite", "memory", "over"}
  BY <1>1 DEF Rewrite, Goes, Ends
<1>3. ~Active(p)'
  BY <1>1, <1>2 DEF Active, Rendering, Saving
<1>4. CASE requests' = requests
  BY <1>1, <1>3, <1>4, AdmittedStays
<1>5. CASE requests' = [requests EXCEPT ![p][1].prompt = "expanded"]
  <2>1. requests[p] \in Seq(Request) /\ 1 \in DOMAIN requests[p]
    BY <1>1
  <2>2. requests'[p] = [requests[p] EXCEPT ![1] = [requests[p][1] EXCEPT !.prompt = "expanded"]]
    BY <1>1, <1>5
  <2>3. DOMAIN requests'[p] = DOMAIN requests[p]
    BY <2>2
  <2>4. \A i \in DOMAIN requests[p] : requests[p][i] \in Request
    BY <2>1
  <2>5. ASSUME NEW i \in DOMAIN requests[p]
        PROVE  /\ requests'[p][i].prompt \in {requests[p][i].prompt, "expanded"}
               /\ requests'[p][i].size = requests[p][i].size
               /\ requests'[p][i].steps = requests[p][i].steps
               /\ requests'[p][i].seed = requests[p][i].seed
               /\ requests'[p][i].strength = requests[p][i].strength
    <3>1. CASE i = 1
      <4>1. requests[p][1] \in Request
        BY <2>1, <2>4
      <4>2. requests'[p][1] = [requests[p][1] EXCEPT !.prompt = "expanded"]
        BY <2>1, <2>2
      <4> QED
        BY <3>1, <4>1, <4>2 DEF Request
    <3>2. CASE i # 1
      BY <2>2, <3>2
    <3> QED
      BY <3>1, <3>2
  <2>6. \A i \in DOMAIN requests'[p] : ValidRequest(requests'[p][i])
    BY <2>3, <2>5 DEF Admitted, ValidRequest
  <2>7. \A i \in DOMAIN requests'[p] : SizeIsRight(p, requests'[p][i])
    BY <2>3, <2>5 DEF Admitted, SizeIsRight
  <2>8. ASSUME NEW r PROVE SizeIsRight(p, r)' <=> SizeIsRight(p, r)
    BY <1>1 DEF SizeIsRight, SizeSaid, EngineOf, SettingsFor
  <2>9. \A i \in DOMAIN requests'[p] : SizeIsRight(p, requests[p][i])'
    BY <2>7, <2>8
  <2> QED
    BY <1>1, <1>3, <2>6, <2>9 DEF Admitted
<1> QED
  BY <1>4, <1>5 DEF Rewrite

LEMMA PreflightAdmits ==
  ASSUME IInv, NEW p \in Procs, Admitted(p), Preflight(p)
  PROVE  Admitted(p)'
<1>1. /\ Types /\ phase \in [Procs -> Phases] /\ phase[p] = "memory" /\ runs[p] = 0
      /\ UNCHANGED <<world, opts, requests, runs, listening>> /\ Len(requests[p]) > 0
  BY DEF IInv, Types, TypeOK, Fields, Progress, Planning, Preflight
<1>2. CASE phase'[p] = "over"
  BY <1>1, <1>2, AdmittedStays DEF Active, Rendering, Saving
<1>3. CASE ~MemoryRefuses(EstimateMemory(EngineOf(p), world.platform, Measured(requests[p]).size),
                          world.memory, opts[p].force)
  <2>1. \A i \in DOMAIN requests[p] : FitsInMemory(p, requests[p][i])
    BY <1>1, <1>3, OneFitsAllFit DEF Admitted
  <2>2. ASSUME NEW r
        PROVE  /\ SizeIsRight(p, r)' <=> SizeIsRight(p, r)
               /\ FitsInMemory(p, r)' <=> FitsInMemory(p, r)
    BY <1>1 DEF SizeIsRight, SizeSaid, FitsInMemory, EngineOf, SettingsFor
  <2>3. \A i \in DOMAIN requests'[p] :
          ValidRequest(requests'[p][i]) /\ SizeIsRight(p, requests[p][i])
    BY <1>1 DEF Admitted
  <2>4. \A i \in DOMAIN requests'[p] : SizeIsRight(p, requests[p][i])'
    BY <1>1, <2>2, <2>3
  <2>5. \A i \in DOMAIN requests'[p] : FitsInMemory(p, requests[p][i])'
    BY <1>1, <2>1, <2>2
  <2> QED
    BY <1>1, <2>3, <2>4, <2>5 DEF Admitted
<1> QED
  BY <1>1, <1>2, <1>3 DEF Preflight, Goes, Ends

LEMMA ServeAdmits ==
  ASSUME IInv, NEW p \in Procs, Admitted(p), Serve(p)
  PROVE  Admitted(p)'
<1>1. /\ phase \in [Procs -> Phases] /\ phase[p] = "plan" /\ runs[p] = 0
      /\ listening \in [Procs -> {"nowhere"} \cup Addresses]
      /\ UNCHANGED <<world, opts, requests, runs>>
  BY DEF IInv, Types, TypeOK, Fields, Progress, Planning, Serve
<1>2. ~Active(p)'
  BY <1>1 DEF Serve, Goes, Ends, Active, Rendering, Saving
<1>3. CASE listening' = listening
  BY <1>1, <1>2, <1>3, AdmittedStays
<1>4. ASSUME NEW configured, NEW at,
             at = Bind(opts[p].bind, configured, world.tailnet, opts[p].iKnow), at # "refused",
             listening' = [listening EXCEPT ![p] = at]
      PROVE  Admitted(p)'
  <2>1. listening'[p] = at
    BY <1>1, <1>4
  <2>2. at = "wildcard" => world.tailnet \/ opts[p].iKnow
    BY <1>4 DEF Bind
  <2>3. ASSUME NEW r PROVE SizeIsRight(p, r)' <=> SizeIsRight(p, r)
    BY <1>1 DEF SizeIsRight, SizeSaid, EngineOf, SettingsFor
  <2>4. \A i \in DOMAIN requests'[p] :
          ValidRequest(requests'[p][i]) /\ SizeIsRight(p, requests[p][i])
    BY <1>1 DEF Admitted
  <2>5. \A i \in DOMAIN requests'[p] : SizeIsRight(p, requests[p][i])'
    BY <1>1, <2>3, <2>4
  <2> QED
    BY <1>1, <1>2, <2>1, <2>2, <2>4, <2>5 DEF Admitted
<1> QED
  BY <1>3, <1>4 DEF Serve

(* No other step plans anything, and none gets past the memory check.      *)
LEMMA OthersAdmit ==
  ASSUME IInv, NEW p \in Procs, CommandStep(p) \/ Kill(p), Admitted(p),
         ~Plan(p), ~Rewrite(p), ~Preflight(p), ~Serve(p)
  PROVE  Admitted(p)'
<1>1. /\ phase \in [Procs -> Phases] /\ runs \in [Procs -> 0 .. MaxCount]
      /\ members \in [Procs -> Seq(Stems)] /\ Progress(p)
  BY DEF IInv, Types, TypeOK, Fields
<1>2. /\ phase[p] \in Saving => runs[p] > 0
  <2>1. runs[p] \in Nat /\ Len(members[p]) \in Nat
    BY <1>1 DEF MaxCount
  <2> QED
    BY <1>1, <2>1 DEF Progress
<1>3. UNCHANGED <<world, opts, requests, listening>>
  BY DEF CommandStep, OpenBackend, CheckWeights, ListLogs, OpenLog, StartEngine, EngineEnds,
         FindStem, WriteSidecar, WriteImage, WriteFails, CannotWrite, WriteSheet,
         WriteSheetSidecar, Kill
<1>4. Active(p)' => Active(p)
  <2>1. CASE OpenBackend(p)
    BY <1>1, <2>1 DEF OpenBackend, Goes, Ends, Active, Rendering, Saving
  <2>2. CASE CheckWeights(p) \/ ListLogs(p) \/ OpenLog(p) \/ StartEngine(p)
    BY <2>2 DEF CheckWeights, ListLogs, OpenLog, StartEngine, Active, Rendering
  <2>3. CASE EngineEnds(p) \/ FindStem(p) \/ WriteSidecar(p) \/ WriteImage(p) \/ WriteFails(p)
    BY <1>2, <2>3 DEF EngineEnds, FindStem, WriteSidecar, WriteImage, WriteFails, Active, Saving
  <2>4. CASE CannotWrite(p) \/ WriteSheet(p) \/ WriteSheetSidecar(p) \/ Kill(p)
    BY <1>1, <2>4 DEF CannotWrite, WriteSheet, WriteSheetSidecar, Kill, Goes, Ends, Active,
                      Rendering, Saving
  <2> QED
    BY <2>1, <2>2, <2>3, <2>4 DEF CommandStep
<1> QED
  BY <1>3, <1>4, AdmittedStays

LEMMA AdmitInvStep ==
  ASSUME IInv, AdmitInv, [Next]_vars
  PROVE  AdmitInv'
<1>1. CASE RemoveWeights \/ UNCHANGED vars
  <2>1. UNCHANGED <<world, opts, phase, runs, requests, listening>>
    BY <1>1 DEF RemoveWeights, vars, command
  <2>2. SUFFICES ASSUME NEW p \in Procs PROVE Admitted(p)'
    BY DEF AdmitInv
  <2>3. Admitted(p) /\ (Active(p)' => Active(p))
    BY <2>1 DEF AdmitInv, Active
  <2> QED
    BY <2>1, <2>3, AdmittedStays
<1>2. ASSUME NEW p \in Procs, CommandStep(p) \/ Kill(p) PROVE AdmitInv'
  <2>1. Admitted(p)'
    <3>1. Admitted(p)
      BY DEF AdmitInv
    <3> QED
      BY <1>2, <3>1, PlanAdmits, RewriteAdmits, PreflightAdmits, ServeAdmits, OthersAdmit
  <2>2. ASSUME NEW q \in Procs \ {p} PROVE Admitted(q)'
    <3>1. Admitted(q)
      BY DEF AdmitInv
    <3>2. UNCHANGED <<world, opts, phase[q], runs[q], requests[q], listening[q]>>
      BY <1>2, OthersLocals
    <3>3. Active(q)' => Active(q)
      BY <3>2 DEF Active
    <3> QED
      BY <3>1, <3>2, <3>3, AdmittedStays
  <2> QED
    BY <2>1, <2>2 DEF AdmitInv
<1> QED
  BY <1>1, <1>2 DEF Next

(* What gets as far as an engine was admitted by the rules, for any        *)
(* machine, configuration and command line: its size can be rendered and   *)
(* is the one of the highest layer that has one, no image of a batch needs *)
(* more memory than is known to be there unless --force was given, the     *)
(* sizes proposed instead of an impossible one are possible and the        *)
(* nearest, and no daemon is open to every network unknowingly             *)
(* (core/config.py, core/run.py, core/memory.py, server/bind.py).          *)
THEOREM AdmissionsAreRight == Spec => []AdmittedByTheRules
<1>1. Init => IInv /\ AdmitInv
  BY IInvInit, AdmitInvInit
<1>2. IInv /\ AdmitInv /\ [Next]_vars => (IInv /\ AdmitInv)'
  BY IInvStep, AdmitInvStep
<1>3. IInv /\ AdmitInv => AdmittedByTheRules
  <2>1. SUFFICES ASSUME IInv, AdmitInv, NEW p \in Procs
                 PROVE  /\ runs[p] > 0 =>
                             \A i \in DOMAIN requests[p] :
                               /\ ValidRequest(requests[p][i])
                               /\ SizeIsRight(p, requests[p][i])
                               /\ FitsInMemory(p, requests[p][i])
                        /\ NearestWouldDo(p)
                        /\ listening[p] = "wildcard" => world.tailnet \/ opts[p].iKnow
    BY DEF AdmittedByTheRules
  <2>2. Admitted(p)
    BY <2>1 DEF AdmitInv
  <2>3. NearestWouldDo(p)
    <3>1. opts[p].size \subseteq Int \X Int
      BY <2>1, CommandAssumption DEF IInv, Types, TypeOK, IsCommandLine, AnySize
    <3>2. ASSUME NEW size \in opts[p].size, NEW near \in Nearest(size)
          PROVE  /\ ValidSize(near)
                 /\ \A d \in 1 .. 2 : ~\E other \in MinSize .. MaxSize :
                      /\ ValidSide(other)
                      /\ \/ size[d] < other /\ other < near[d]
                         \/ near[d] < other /\ other < size[d]
      <4>1. size \in Int \X Int
        BY <3>1
      <4>2. 1 \in 1 .. 2 /\ 2 \in 1 .. 2
        OBVIOUS
      <4>3. ValidSize(near)
        BY <4>1, <4>2, NearestAreNear DEF ValidSize
      <4> QED
        BY <4>1, <4>3, NearestAreNear
    <3> QED
      BY <3>2 DEF NearestWouldDo
  <2> QED
    BY <2>2, <2>3 DEF Admitted, Active
<1> QED
  BY <1>1, <1>2, <1>3, PTL DEF Spec

-------------------------------------------------------------------------------
(* What a finished batch shows.                                            *)

(* The tiles of a sheet of possible sizes do not cover each other, whether *)
(* they are all alike and lie in a grid or differ and lie in a row.        *)
LEMMA LayoutIsSpread ==
  ASSUME NEW sizes \in Seq((Nat \ {0}) \X (Nat \ {0})), NEW i \in DOMAIN sizes,
         NEW j \in DOMAIN sizes, i # j
  PROVE  Apart(Layout(sizes)[i], Layout(sizes)[j])
<1>1. CASE Layout(sizes) = Grid(sizes)
  BY <1>1, GridIsSpread DEF Apart
<1>2. CASE Layout(sizes) = Row(sizes)
  <2>1. i \in Nat /\ j \in Nat /\ 1 \in 1 .. 2
    OBVIOUS
  <2>2. i < j \/ j < i
    BY <2>1
  <2>3. \/ Row(sizes)[i].at[1] + Row(sizes)[i].tile[1] <= Row(sizes)[j].at[1]
        \/ Row(sizes)[j].at[1] + Row(sizes)[j].tile[1] <= Row(sizes)[i].at[1]
    BY <2>2, RowIsSpread
  <2> QED
    BY <1>2, <2>1, <2>3 DEF Apart
<1> QED
  BY <1>1, <1>2 DEF Layout

LEMMA AdmittedTilesAreApart ==
  ASSUME IInv, NEW p \in Procs, Admitted(p)
  PROVE  TilesApart(p)
<1> DEFINE sizes == [i \in DOMAIN requests[p] |-> requests[p][i].size]
<1>1. requests[p] \in Seq(Request)
  BY DEF IInv, Types, Fields
<1>2. \A i \in DOMAIN requests[p] : requests[p][i].size \in (Nat \ {0}) \X (Nat \ {0})
  <2>1. SUFFICES ASSUME NEW i \in DOMAIN requests[p]
                 PROVE  requests[p][i].size \in (Nat \ {0}) \X (Nat \ {0})
    OBVIOUS
  <2>2. requests[p][i].size \in AnySize
    <3>1. requests[p][i] \in Request
      BY <1>1, <2>1
    <3> QED
      BY <3>1 DEF Request
  <2>3. ValidSize(requests[p][i].size)
    BY <2>1 DEF Admitted, ValidRequest
  <2>4. \A d : ValidSide(d) => d \in Nat \ {0}
    BY DEF ValidSide, MinSize, MaxSize
  <2> QED
    BY <2>2, <2>3, <2>4 DEF AnySize, ValidSize
<1>3. sizes \in Seq((Nat \ {0}) \X (Nat \ {0}))
  BY <1>1, <1>2, IsASeq
<1>4. DOMAIN Layout(sizes) = DOMAIN sizes
  BY DEF Layout, Grid, Row
<1> HIDE DEF sizes
<1>5. \A i, j \in DOMAIN Layout(sizes) : i # j => Apart(Layout(sizes)[i], Layout(sizes)[j])
  BY <1>3, <1>4, LayoutIsSpread
<1> QED
  BY <1>5 DEF TilesApart, sizes

(* Single commands and batches tell the truth: what was reported is there  *)
(* at any time, nothing is missing after a success, and the contact sheet  *)
(* shows all of it with no tile over another (core/output.py,              *)
(* core/sheet.py).                                                         *)
THEOREM BatchesTellTheTruth == Spec => []BatchTellsTheTruth
<1> DEFINE Inv == IInv /\ FileInv /\ SheetInv /\ AdmitInv
<1>1. Init => Inv
  BY IInvInit, FileInvInit, SheetInvInit, AdmitInvInit
<1>2. Inv /\ [Next]_vars => Inv'
  BY IInvStep, FileInvStep, SheetInvStep, AdmitInvStep
<1>3. Inv => BatchTellsTheTruth
  <2>1. SUFFICES ASSUME Inv, NEW p \in Procs
                 PROVE  ReportedAreThere(p) /\ SuccessIsComplete(p) /\ TilesApart(p)
    BY DEF BatchTellsTheTruth
  <2> QED
    BY <2>1, AdmittedTilesAreApart DEF FileInv, Reported, SheetInv, SheetProgress, AdmitInv
<1> HIDE DEF Inv
<1> QED
  BY <1>1, <1>2, <1>3, PTL DEF Spec

-------------------------------------------------------------------------------
(* The log directory.                                                      *)

Recent == {l \in 1 .. clock : l > clock - (MaxLogs - 1)}

Old(p) == \A l \in stale[p] : l <= clock - (MaxLogs - 1)

LEMMA LogTypes ==
  ASSUME Types
  PROVE  /\ MaxLogs \in Nat \ {0} /\ clock \in Nat /\ logs \subseteq 1 .. clock
         /\ IsFiniteSet(logs) /\ Cardinality(logs) \in Nat
         /\ stale \in [Procs -> SUBSET Nat] /\ phase \in [Procs -> Phases]
         /\ IsFiniteSet(Procs) /\ Cardinality(Procs) \in Nat /\ Cardinality(Procs) >= 1
<1>1. MaxLogs \in Nat \ {0} /\ IsFiniteSet(Procs) /\ Procs # {}
  BY CommandAssumption
<1>2. /\ clock \in Nat /\ stale \in [Procs -> SUBSET Nat] /\ phase \in [Procs -> Phases]
      /\ \A p \in Procs : stale[p] \cup logs \subseteq 1 .. clock
  BY DEF Types, TypeOK, Fields
<1>3. logs \subseteq 1 .. clock
  BY <1>1, <1>2
<1>4. IsFiniteSet(1 .. clock)
  BY <1>2, FS_Interval
<1>5. IsFiniteSet(logs) /\ Cardinality(logs) \in Nat
  BY <1>3, <1>4, FS_Subset, FS_CardinalityType
<1>6. Cardinality(Procs) \in Nat /\ Cardinality(Procs) # 0
  BY <1>1, FS_CardinalityType, FS_EmptySet
<1> QED
  BY <1>1, <1>2, <1>3, <1>5, <1>6

LEMMA LogsKeptInit == Init => LogsKept
<1> SUFFICES ASSUME Init PROVE LogsKept
  OBVIOUS
<1>1. Types
  BY IInvInit DEF IInv
<1>2. logs = 1 .. MaxLogs /\ clock = MaxLogs /\ MaxLogs \in Nat
  BY <1>1, LogTypes DEF Init
<1>3. Cardinality(logs) = MaxLogs
  BY <1>1, <1>2, LogTypes, FS_Interval
<1>4. LogRetention
  BY <1>1, <1>2, <1>3, LogTypes DEF LogRetention
<1>5. \A p \in Procs : stale[p] = {} /\ phase[p] = "plan"
  BY DEF Init
<1>6. [p \in Procs |-> {}] \in [Procs -> SUBSET Procs]
  OBVIOUS
<1>7. \A p \in Procs : Pruned(p, [q \in Procs |-> {}])
  BY <1>5 DEF Pruned
<1> QED
  BY <1>4, <1>5, <1>6, <1>7 DEF LogsKept

(* Steps that neither list nor create logs.                                *)
LEMMA OthersKeepLogs ==
  ASSUME IInv, NEW p \in Procs, CommandStep(p) \/ Kill(p), ~ListLogs(p), ~OpenLog(p)
  PROVE  /\ UNCHANGED <<logs, clock, stale>>
         /\ \A q \in Procs : phase'[q] = "log" => phase[q] = "log"
<1>1. phase \in [Procs -> Phases]
  BY DEF IInv, Types, TypeOK
<1>2. UNCHANGED <<logs, clock, stale>>
  BY DEF CommandStep, Plan, OpenBackend, Rewrite, Preflight, CheckWeights, StartEngine, EngineEnds,
         FindStem, WriteSidecar, WriteImage, WriteFails, CannotWrite, WriteSheet,
         WriteSheetSidecar, Serve, Kill, shared
<1>3. \E to \in Phases \ {"log"} : phase' = [phase EXCEPT ![p] = to] \/ phase' = phase
  <2>1. CASE Plan(p)
    BY <2>1 DEF Plan, Goes, Ends, shared, Phases
  <2>2. CASE OpenBackend(p)
    BY <2>2 DEF OpenBackend, Goes, Ends, shared, Phases
  <2>3. CASE Rewrite(p)
    BY <2>3 DEF Rewrite, Goes, Ends, shared, Phases
  <2>4. CASE Preflight(p)
    BY <2>4 DEF Preflight, Goes, Ends, shared, Phases
  <2>5. CASE CheckWeights(p)
    BY <2>5 DEF CheckWeights, Goes, Ends, shared, Phases
  <2>6. CASE Serve(p)
    BY <2>6 DEF Serve, Goes, Ends, shared, Phases
  <2>7. CASE StartEngine(p) \/ EngineEnds(p)
    BY <2>7 DEF StartEngine, EngineEnds, Goes, Ends, Phases
  <2>8. CASE FindStem(p) \/ WriteSidecar(p) \/ WriteFails(p) \/ WriteImage(p)
    BY <2>8 DEF FindStem, WriteSidecar, WriteFails, WriteImage, Afterwards, Goes, Ends, Phases
  <2>9. CASE CannotWrite(p) \/ WriteSheet(p) \/ WriteSheetSidecar(p) \/ Kill(p)
    BY <2>9 DEF CannotWrite, WriteSheet, WriteSheetSidecar, Kill, Goes, Ends, Phases
  <2> QED
    BY <2>1, <2>2, <2>3, <2>4, <2>5, <2>6, <2>7, <2>8, <2>9 DEF CommandStep
<1> QED
  BY <1>1, <1>2, <1>3

LEMMA LogsStay ==
  ASSUME LogsKept, UNCHANGED <<logs, clock, stale>>,
         \A q \in Procs : phase'[q] = "log" => phase[q] = "log"
  PROVE  LogsKept'
<1>1. PICK since \in [Procs -> SUBSET Procs] : \A p \in Procs : Pruned(p, since)
  BY DEF LogsKept
<1>2. \A p \in Procs : Pruned(p, since)'
  BY <1>1 DEF Pruned
<1>3. LogRetention' /\ \A p \in Procs : Old(p)'
  BY DEF LogsKept, LogRetention, Old
<1> QED
  BY <1>2, <1>3 DEF LogsKept, Old

LEMMA ListLogsKeepsLogs ==
  ASSUME IInv, LogsKept, NEW p \in Procs, ListLogs(p)
  PROVE  LogsKept'
<1>1. Types
  BY DEF IInv
<1>2. /\ UNCHANGED <<logs, clock>> /\ phase[p] = "prune"
      /\ phase' = [phase EXCEPT ![p] = "log"]
      /\ stale' = [stale EXCEPT ![p] = logs \ Newest(logs)]
  BY DEF ListLogs, Goes, shared
<1>3. LogRetention'
  BY <1>2 DEF LogsKept, LogRetention
<1>4. \A q \in Procs : Old(q)'
  <2>1. \A l \in logs \ Newest(logs) : l <= clock - (MaxLogs - 1)
    BY <1>1, LogTypes, TheRestIsOld
  <2> QED
    BY <1>1, <1>2, <2>1, LogTypes DEF LogsKept, Old
<1>5. PICK since \in [Procs -> SUBSET Procs] : \A q \in Procs : Pruned(q, since)
  BY DEF LogsKept
<1> DEFINE new == [since EXCEPT ![p] = {}]
<1>6. new \in [Procs -> SUBSET Procs] /\ new[p] = {} /\ \A q \in Procs \ {p} : new[q] = since[q]
  OBVIOUS
<1> HIDE DEF new
<1>7. Pruned(p, new)'
  <2>1. stale'[p] = logs \ Newest(logs)
    BY <1>1, <1>2, LogTypes
  <2>2. logs' \ stale'[p] \subseteq Newest(logs)
    BY <1>2, <2>1
  <2>3. IsFiniteSet(Newest(logs)) /\ Cardinality(Newest(logs)) <= MaxLogs - 1
    <3>1. logs \in SUBSET Nat
      BY <1>1 DEF Types, Fields
    <3> QED
      BY <1>1, <3>1, LogTypes, NewestAreFew
  <2>4. /\ Cardinality(logs' \ stale'[p]) <= Cardinality(Newest(logs))
        /\ Cardinality(logs' \ stale'[p]) \in Nat /\ Cardinality(Newest(logs)) \in Nat
    BY <2>2, <2>3, FS_Subset, FS_CardinalityType
  <2>5. Cardinality(new[p]) = 0
    BY <1>6, FS_EmptySet
  <2>6. Cardinality(logs' \ stale'[p]) <= MaxLogs - 1 + Cardinality(new[p])
    BY <1>1, <2>3, <2>4, <2>5, LogTypes
  <2> QED
    BY <1>6, <2>6 DEF Pruned
<1>8. ASSUME NEW q \in Procs \ {p} PROVE Pruned(q, new)'
  <2>1. Pruned(q, since) /\ UNCHANGED <<logs, phase[q], stale[q]>> /\ new[q] = since[q]
    BY <1>1, <1>2, <1>5, <1>6, LogTypes
  <2>2. \A r \in Procs : r # p => phase'[r] = phase[r] /\ new[r] = since[r]
    BY <1>1, <1>2, <1>6, LogTypes
  <2> QED
    BY <1>6, <2>1, <2>2 DEF Pruned
<1>9. \A q \in Procs : Pruned(q, new)'
  BY <1>7, <1>8
<1> QED
  BY <1>3, <1>4, <1>6, <1>9 DEF LogsKept, Old

LEMMA OpenLogKeepsLogs ==
  ASSUME IInv, LogsKept, NEW p \in Procs, OpenLog(p)
  PROVE  LogsKept'
<1>1. Types
  BY DEF IInv
<1>2. /\ clock' = clock + 1 /\ logs' = (logs \ stale[p]) \cup {clock + 1}
      /\ phase[p] = "log" /\ phase' = [phase EXCEPT ![p] = "engine"]
      /\ stale' = [stale EXCEPT ![p] = {}]
  BY DEF OpenLog, Goes
<1>3. PICK since \in [Procs -> SUBSET Procs] : \A q \in Procs : Pruned(q, since)
  BY DEF LogsKept
<1>4. /\ p \notin since[p] /\ since[p] \subseteq Procs
      /\ Cardinality(logs \ stale[p]) <= MaxLogs - 1 + Cardinality(since[p])
      /\ \A q \in since[p] : phase[q] = "log" => since[q] \subseteq since[p]
  BY <1>2, <1>3 DEF Pruned
(* After the step there is one log more than the process had kept.         *)
<1>5. /\ IsFiniteSet(logs') /\ Cardinality(logs') \in Nat /\ Cardinality(since[p]) \in Nat
      /\ Cardinality(logs') <= MaxLogs + Cardinality(since[p])
  <2>1. IsFiniteSet(logs \ stale[p]) /\ Cardinality(logs \ stale[p]) \in Nat
    BY <1>1, LogTypes, FS_Subset, FS_CardinalityType
  <2>2. /\ IsFiniteSet((logs \ stale[p]) \cup {clock + 1})
        /\ Cardinality((logs \ stale[p]) \cup {clock + 1}) <= Cardinality(logs \ stale[p]) + 1
    BY <2>1, FS_AddElement
  <2>3. Cardinality(logs') \in Nat
    BY <1>2, <2>2, FS_CardinalityType
  <2>4. Cardinality(since[p]) \in Nat
    BY <1>1, <1>4, LogTypes, FS_Subset, FS_CardinalityType
  <2> QED
    BY <1>1, <1>2, <1>4, <2>1, <2>2, <2>3, <2>4, LogTypes
<1>6. LogRetention'
  <2>1. Cardinality(since[p]) <= Cardinality(Procs) - 1
    <3>1. since[p] \subseteq Procs \ {p}
      BY <1>4
    <3>2. IsFiniteSet(Procs \ {p}) /\ Cardinality(Procs \ {p}) = Cardinality(Procs) - 1
      BY <1>1, LogTypes, FS_RemoveElement
    <3> QED
      BY <3>1, <3>2, FS_Subset
  <2>2. Cardinality(logs') <= MaxLogs + Cardinality(Procs) - 1
    BY <1>1, <1>5, <2>1, LogTypes
  <2>3. Recent \subseteq logs /\ Old(p)
    BY DEF LogsKept, LogRetention, Recent, Old
  <2>4. ASSUME NEW l \in 1 .. clock + 1, l > clock + 1 - (MaxLogs - 1) PROVE l \in logs'
    <3>1. CASE l = clock + 1
      BY <1>2, <3>1
    <3>2. CASE l # clock + 1
      <4>1. l \in 1 .. clock /\ l > clock - (MaxLogs - 1)
        BY <1>1, <2>4, <3>2, LogTypes
      <4>2. l \in logs /\ l \notin stale[p]
        <5>1. l \in Recent
          BY <4>1 DEF Recent
        <5>2. ~(l <= clock - (MaxLogs - 1))
          BY <1>1, <4>1, LogTypes
        <5> QED
          BY <2>3, <5>1, <5>2 DEF Old
      <4> QED
        BY <1>2, <4>2
    <3> QED
      BY <3>1, <3>2
  <2> QED
    <3>1. ASSUME NEW l \in 1 .. clock', l > clock' - (MaxLogs - 1) PROVE l \in logs'
      <4>1. l \in 1 .. clock + 1 /\ l > clock + 1 - (MaxLogs - 1)
        <5>1. clock \in Nat /\ clock + 1 \in Nat /\ MaxLogs - 1 \in Int
          BY <1>1, LogTypes
        <5> QED
          BY <1>2, <3>1, <5>1
      <4> QED
        BY <2>4, <4>1
    <3>2. {l \in 1 .. clock' : l > clock' - (MaxLogs - 1)} \subseteq logs'
      BY <3>1
    <3> QED
      BY <2>2, <3>2 DEF LogRetention
<1>7. ASSUME NEW q \in Procs PROVE Old(q)'
  <2>1. Old(q) /\ stale'[q] \subseteq stale[q] /\ stale[q] \subseteq Nat
    BY <1>1, <1>2, LogTypes DEF LogsKept, Old
  <2>2. SUFFICES ASSUME NEW l \in stale'[q] PROVE l <= clock' - (MaxLogs - 1)
    BY DEF Old
  <2>3. l \in Nat /\ l <= clock - (MaxLogs - 1)
    BY <2>1, <2>2 DEF Old
  <2> QED
    BY <1>1, <1>2, <2>3, LogTypes
(* The others count this process among those who have created one since.   *)
<1> DEFINE new == [q \in Procs |-> since[q] \cup {p}]
<1>8. new \in [Procs -> SUBSET Procs] /\ \A q \in Procs : new[q] = since[q] \cup {p}
  OBVIOUS
<1> HIDE DEF new
<1>9. ~(phase'[p] = "log") /\ \A q \in Procs \ {p} : UNCHANGED <<phase[q], stale[q]>>
  BY <1>1, <1>2, LogTypes
<1>10. ASSUME NEW q \in Procs, phase'[q] = "log"
       PROVE  /\ q \notin new[q]
              /\ Cardinality(logs' \ stale'[q]) <= MaxLogs - 1 + Cardinality(new[q])
              /\ \A r \in new[q] : phase'[r] = "log" => new[r] \subseteq new[q]
  <2>1. /\ q # p /\ phase[q] = "log" /\ stale'[q] = stale[q]
        /\ q \notin since[q] /\ since[q] \subseteq Procs
        /\ Cardinality(logs \ stale[q]) <= MaxLogs - 1 + Cardinality(since[q])
        /\ \A r \in since[q] : phase[r] = "log" => since[r] \subseteq since[q]
    BY <1>3, <1>9, <1>10 DEF Pruned
  <2>2. q \notin new[q]
    BY <1>8, <2>1
  <2>3. \A r \in new[q] : phase'[r] = "log" => new[r] \subseteq new[q]
    <3>1. SUFFICES ASSUME NEW r \in new[q], phase'[r] = "log" PROVE new[r] \subseteq new[q]
      OBVIOUS
    <3>2. r # p /\ r \in since[q] /\ r \in Procs /\ phase[r] = "log"
      BY <1>8, <1>9, <2>1, <3>1
    <3> QED
      BY <1>8, <2>1, <3>2
  <2>4. IsFiniteSet(since[q]) /\ Cardinality(since[q]) \in Nat
    BY <1>1, <2>1, LogTypes, FS_Subset, FS_CardinalityType
  <2>5. Cardinality(new[q]) = IF p \in since[q] THEN Cardinality(since[q]) ELSE Cardinality(since[q]) + 1
    BY <1>8, <2>4, FS_AddElement
  <2>6. Cardinality(logs' \ stale[q]) <= MaxLogs - 1 + Cardinality(new[q])
    <3>1. CASE p \notin since[q]
      <4>1. IsFiniteSet(logs \ stale[q]) /\ Cardinality(logs \ stale[q]) \in Nat
        BY <1>1, LogTypes, FS_Subset, FS_CardinalityType
      <4>2. logs' \ stale[q] \subseteq (logs \ stale[q]) \cup {clock + 1}
        BY <1>2
      <4>3. /\ IsFiniteSet((logs \ stale[q]) \cup {clock + 1})
            /\ Cardinality((logs \ stale[q]) \cup {clock + 1}) <= Cardinality(logs \ stale[q]) + 1
        <5> DEFINE kept == logs \ stale[q]
        <5> HIDE DEF kept
        <5>1. IsFiniteSet(kept) /\ Cardinality(kept) \in Nat
          BY <4>1 DEF kept
        <5>2. /\ IsFiniteSet(kept \cup {clock + 1})
              /\ Cardinality(kept \cup {clock + 1})
                   = IF clock + 1 \in kept THEN Cardinality(kept) ELSE Cardinality(kept) + 1
          BY <5>1, FS_AddElement
        <5>3. Cardinality(kept \cup {clock + 1}) <= Cardinality(kept) + 1
          BY <5>1, <5>2
        <5> QED
          BY <5>2, <5>3 DEF kept
      <4>4. /\ Cardinality(logs' \ stale[q]) <= Cardinality((logs \ stale[q]) \cup {clock + 1})
            /\ Cardinality(logs' \ stale[q]) \in Nat
            /\ Cardinality((logs \ stale[q]) \cup {clock + 1}) \in Nat
        BY <4>2, <4>3, FS_Subset, FS_CardinalityType
      <4> QED
        BY <1>1, <2>1, <2>4, <2>5, <3>1, <4>1, <4>3, <4>4, LogTypes
    <3>2. CASE p \in since[q]
      <4>1. since[p] \subseteq since[q] \ {p}
        BY <1>2, <1>4, <2>1, <3>2
      <4>2. IsFiniteSet(since[q] \ {p}) /\ Cardinality(since[q] \ {p}) = Cardinality(since[q]) - 1
        BY <2>4, <3>2, FS_RemoveElement
      <4>3. Cardinality(since[p]) <= Cardinality(since[q]) - 1
        BY <4>1, <4>2, FS_Subset
      <4>4. /\ Cardinality(logs' \ stale[q]) <= Cardinality(logs')
            /\ Cardinality(logs' \ stale[q]) \in Nat
        BY <1>5, FS_Subset, FS_CardinalityType
      <4> QED
        BY <1>1, <1>5, <2>4, <2>5, <3>2, <4>3, <4>4, LogTypes
    <3> QED
      BY <3>1, <3>2
  <2> QED
    BY <2>1, <2>2, <2>3, <2>6
<1>11. \A q \in Procs : Pruned(q, new)'
  BY <1>10 DEF Pruned
<1> QED
  BY <1>6, <1>7, <1>8, <1>11 DEF LogsKept, Old

LEMMA LogsKeptStep ==
  ASSUME IInv, LogsKept, [Next]_vars
  PROVE  LogsKept'
<1>1. CASE RemoveWeights \/ UNCHANGED vars
  <2>1. UNCHANGED <<logs, clock, stale, phase>>
    BY <1>1 DEF RemoveWeights, vars, command, shared
  <2> QED
    BY <2>1, LogsStay
<1>2. ASSUME NEW p \in Procs, CommandStep(p) \/ Kill(p) PROVE LogsKept'
  <2>1. CASE ListLogs(p)
    BY <2>1, ListLogsKeepsLogs
  <2>2. CASE OpenLog(p)
    BY <2>2, OpenLogKeepsLogs
  <2>3. CASE ~ListLogs(p) /\ ~OpenLog(p)
    BY <1>2, <2>3, OthersKeepLogs, LogsStay
  <2> QED
    BY <2>1, <2>2, <2>3
<1> QED
  BY <1>1, <1>2 DEF Next

(* Any number of processes prune the log directory at once: it never has   *)
(* more than MAX_LOG_FILES logs and one for each other process, and the    *)
(* last MAX_LOG_FILES - 1 are never gone (core/logs.py).                   *)
THEOREM NewestLogsStay == Spec => []LogRetention
<1>1. Init => IInv /\ LogsKept
  BY IInvInit, LogsKeptInit
<1>2. IInv /\ LogsKept /\ [Next]_vars => (IInv /\ LogsKept)'
  BY IInvStep, LogsKeptStep
<1>3. LogsKept => LogRetention
  BY DEF LogsKept
<1> QED
  BY <1>1, <1>2, <1>3, PTL DEF Spec

===============================================================================
