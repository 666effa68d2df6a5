------------------------------- MODULE MCCommand -------------------------------
(***************************************************************************)
(* Instances of Command for TLC: machines, configurations and command      *)
(* lines that reach every branch.                                          *)
(***************************************************************************)
EXTENDS Command

AllRoles == RequiredRoles \cup {"mmproj"}

(* A Linux laptop with all weights, enough memory for one 1024x1024 image  *)
(* and no configuration.                                                   *)
Laptop ==
  [platform |-> "linux", silicon |-> FALSE, mflux |-> FALSE, mfluxEdits |-> FALSE,
   binaries |-> {"sdcpp", "ncnn"}, ncnnFolder |-> "full", health |-> "down",
   memory |-> {13000}, tailnet |-> FALSE, terminal |-> TRUE, installed |-> AllRoles,
   savedOriginal |-> {"earlier"}, fileReadable |-> TRUE, env |-> <<>>, file |-> <<>>]

(* A Mac with a warm engine, a remote host by default and layers that      *)
(* disagree; nothing is known of its memory.                               *)
Mac ==
  [Laptop EXCEPT !.platform = "darwin", !.silicon = TRUE, !.mflux = TRUE, !.mfluxEdits = TRUE,
                 !.health = "full", !.memory = {}, !.tailnet = TRUE, !.terminal = FALSE,
                 !.env = "size" :> <<512, 512>> @@ "steps" :> 20,
                 !.file = "size" :> <<1024, 768>> @@ "default_host" :> "box"
                            @@ "hosts" :> {"box"} @@ "colour" :> "blue"]

(* A Linux host with a rewriter, an empty ncnn folder, no vision projector *)
(* and an open address in its configuration.                               *)
Host ==
  [Laptop EXCEPT !.ncnnFolder = "empty", !.memory = {40000}, !.installed = RequiredRoles,
                 !.health = "old",
                 !.file = "rewriter.endpoint" :> "url" @@ "rewriter.model" :> "gemma"
                            @@ "serve.bind" :> "wildcard" @@ "size" :> <<640, 512>>]

(* A configuration that does not validate, and one that cannot be read.    *)
Invalid == [Laptop EXCEPT !.file = "size" :> <<1000, 512>>]
Unreadable == [Laptop EXCEPT !.fileReadable = FALSE]

MCWorlds == {Laptop, Mac, Host, Invalid, Unreadable}

Generate ==
  [kind |-> "generate", engine |-> {}, host |-> {}, wait |-> FALSE, prompt |-> {"typed"},
   from |-> {}, rewrite |-> FALSE, size |-> {}, sizes |-> <<>>, count |-> 0, seed |-> {0},
   steps |-> {}, strength |-> {}, transparent |-> FALSE, force |-> FALSE, sheet |-> FALSE,
   source |-> <<>>, bind |-> {}, iKnow |-> FALSE]

Edit == [Generate EXCEPT !.kind = "edit", !.source = <<1030, 200>>]
Seeds == [Generate EXCEPT !.kind = "seeds", !.count = 2, !.seed = {}, !.sheet = TRUE]
Sizes == [Generate EXCEPT !.kind = "sizes", !.sizes = <<<<768, 768>>, <<1536, 1024>>>>,
                          !.sheet = TRUE]
ServeIt == [Generate EXCEPT !.kind = "serve", !.prompt = {}]

CommandLines ==
  {Generate,
   [Generate EXCEPT !.rewrite = TRUE],
   [Generate EXCEPT !.rewrite = TRUE, !.transparent = TRUE, !.engine = {"ncnn"}],
   [Generate EXCEPT !.prompt = {}, !.from = {"saved"}, !.engine = {"mlx"}],
   [Generate EXCEPT !.prompt = {"blank"}],
   [Generate EXCEPT !.host = {"box"}, !.engine = {"fake"}],
   [Generate EXCEPT !.host = {"nobody"}],
   [Generate EXCEPT !.wait = TRUE, !.engine = {"fake"}],
   [Generate EXCEPT !.engine = {"ncnn"}, !.size = {<<4096, 4096>>}, !.force = TRUE],
   [Generate EXCEPT !.size = {<<100, 5000>>}],
   [Generate EXCEPT !.size = {<<1000, 640>>}],
   [Generate EXCEPT !.engine = {"remote"}],
   Edit,
   [Edit EXCEPT !.engine = {"mlx"}, !.strength = {60}],
   [Edit EXCEPT !.source = <<>>],
   Seeds,
   [Seeds EXCEPT !.seed = {SeedLimit - 1}],
   Sizes,
   [Sizes EXCEPT !.engine = {"fake"}],
   [Sizes EXCEPT !.sizes = <<<<512, 512>>, <<512, 512>>>>],
   ServeIt,
   [ServeIt EXCEPT !.bind = {"wildcard"}, !.iKnow = TRUE],
   [ServeIt EXCEPT !.bind = {"malformed"}],
   [ServeIt EXCEPT !.engine = {"remote"}, !.bind = {"address"}]}

(* The other process: an image of the same prompt and seed, or a batch     *)
(* with a log for each of its images.                                      *)
Rivals == {[Generate EXCEPT !.engine = {"fake"}], [Seeds EXCEPT !.seed = {0}, !.sheet = FALSE]}

CONSTANTS first, second

MCMenu == (first :> CommandLines) @@ (second :> Rivals)

(* One edit at 1024x1024, and memory for the weights without the projector. *)
EditWorlds == {Laptop}
EditMenu == first :> {[Edit EXCEPT !.size = {<<1024, 1024>>}]}

===============================================================================
