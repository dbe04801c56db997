------------------------------- MODULE FnEval -------------------------------
(***************************************************************************)
(* kpt fn eval: one function over a package, and --save, which writes it   *)
(* into the Kptfile's pipeline for the renders to come.                    *)
(*                                                                         *)
(* The renders that run what was saved, and what is published in the       *)
(* registry meanwhile, come between the commands.                          *)
(*                                                                         *)
(* A command reads the package, builds the function's runner, takes the    *)
(* function's own configuration out of the list, selects, runs, merges,    *)
(* writes the package or the output, writes the results and then changes   *)
(* the Kptfile on disk.  Each of these is a step that may fail, and a user *)
(* may run the next command on what a failed one left.                     *)
(*                                                                         *)
(* A resource is its path, its attributes and rev, the evals that changed  *)
(* it.  The Kptfile is one of the resources; its pipeline is kept aside.   *)
(***************************************************************************)
EXTENDS Selection, Images, FiniteSets

CONSTANTS
  Order,      \* the paths of the package in the order they are read
  Attrs,      \* [path -> attributes], which no function changes
  Lines,      \* the command lines considered
  MaxEvals,   \* bound: how many commands are run
  Saved,      \* the functions the Kptfile may have at first
  Pool,       \* the images that are published or removed from the registry
  Clones,     \* whether functions copy resources with their annotations
  None        \* no such file

Paths == ToSet(Order)
Fresh == "new"          \* where functions put what they generate
Kptfile == "Kptfile"
FnConfigFile == "cfg"

\* No configuration, arguments, arguments that begin with a kind, or a file: of the
\* package, of the package by a path that is not clean, in a directory beside the package
\* whose name begins with the package's, elsewhere, or nowhere.
Configs == {"none", "args", "kind", "inside", "unclean", "sibling", "outside", "missing"}

Functions0 == [kind : {"image", "exec"}, image : FnImages, field : TagFields,
               config : Configs, selector : BOOLEAN, exclusion : BOOLEAN]

Flags == [fn : Functions0,
          when : BOOLEAN,                          \* --when
          dest : {"", "stdout", "unwrap", "dir"},  \* --output
          stdin : BOOLEAN,                         \* DIR is "-"
          save : BOOLEAN, type : {"", "mutator", "validator"},
          pull : {"Always", "IfNotPresent", "Never"},
          results : BOOLEAN]                       \* --results-dir

ASSUME FnEvalAssumption ==
  /\ Order \in Seq(Paths) /\ IsInjective(Order)
  /\ {Kptfile, FnConfigFile, Fresh} \subseteq Paths
  /\ Lines \subseteq Flags
  /\ MaxEvals \in Nat
  /\ \A s \in Saved : s \in Seq(Functions0)
  /\ Pool \subseteq FnImages

VARIABLES
  evals,     \* how many commands were begun
  pkg,       \* [Paths -> 0..MaxEvals, or None]: rev of the file's resource
  pipeline,  \* the Kptfile's functions, by type
  out,       \* the directory of --output is there
  results,   \* results.yaml: "none", "0" or "1", its exit code
  registry, present,  \* the images in the registry and on this machine
  flags, pc,
  input, selected, output,  \* lists of nodes
  config,    \* the node of the function's configuration, taken out of the list
  failed,    \* "" or why the function failed
  ran,       \* the image the last eval ran
  rendered,  \* the version a render last ran for a function with a constraint, or 0
  before, answer   \* history: the package read, and what the function returned for a path

lists == <<input, selected, output, config>>
images == <<registry, present>>
vars == <<evals, pkg, pipeline, out, results, images, flags, pc, lists, failed, ran, rendered, before, answer>>

NoPipeline == [mutator |-> <<>>, validator |-> <<>>]
NoContents == [p \in Paths |-> None]

\* The package as a list, and a list as the files it is written to.
Nodes(files) ==
  LET there == Only(Order, {p \in Paths : files[p] # None}) IN
  [i \in DOMAIN there |-> [path |-> there[i], attrs |-> Attrs[there[i]],
                           rev |-> files[there[i]], id |-> NoID]]

Files(list) ==
  [p \in Paths |-> LET own == Only(list, {n \in ToSet(list) : n.path = p}) IN
                   IF own = <<>> THEN None ELSE Last(own).rev]

Init ==
  /\ evals = 0
  /\ pkg = [p \in Paths |-> IF p = Fresh THEN None ELSE 0]
  /\ \E s \in Saved : pipeline = [mutator |-> s, validator |-> <<>>]
  /\ out = FALSE /\ results = "none"
  /\ registry = Pool /\ present \in {Pool, {}}
  /\ flags = None /\ pc = "idle"
  /\ input = <<>> /\ selected = <<>> /\ output = <<>> /\ config = <<>>
  /\ failed = "" /\ ran = None /\ rendered = 0
  /\ before = NoContents /\ answer = NoContents

\* The command is over.
End ==
  /\ pc' = "idle" /\ flags' = None
  /\ failed' = "" /\ ran' = None
  /\ input' = <<>> /\ selected' = <<>> /\ output' = <<>> /\ config' = <<>>
  /\ before' = NoContents /\ answer' = NoContents

-----------------------------------------------------------------------------
(* preRunE *)

\* --save needs a type.
ValidateOptionalFlags(l) == l.save => l.type # ""

\* The directory of --output must not be there.
CheckDirectoryNotPresent(l) == l.dest = "dir" => ~out

CheckFnConfigPathExistence(l) ==
  /\ l.fn.config # "missing"
  /\ l.fn.config \in {"inside", "unclean"} => pkg[FnConfigFile] # None

\* With --save the file must be under the package: its path must begin with the
\* package's, which a directory beside the package may do as well.
ConfigUnderPackage(l) == l.save => l.fn.config # "outside"

PreRun(l) ==
  /\ pc = "idle" /\ evals < MaxEvals
  /\ ValidateOptionalFlags(l) /\ CheckDirectoryNotPresent(l)
  /\ CheckFnConfigPathExistence(l) /\ ConfigUnderPackage(l)
  /\ evals' = evals + 1
  /\ flags' = l /\ pc' = "read"
  /\ before' = pkg
  /\ UNCHANGED <<pkg, pipeline, out, results, images, lists, failed, ran, rendered, answer>>

\* The command returns an error; so does every step that follows one that fails.
Fail ==
  /\ pc \in {"read", "filter", "config", "select", "merge"}
  /\ End
  /\ UNCHANGED <<evals, pkg, pipeline, out, results, images, rendered>>

-----------------------------------------------------------------------------
(* RunFns.Execute *)

\* kpt fn source writes the package's resources with their paths; "eval -" reads them.
Source == Nodes(pkg)

GetNodes ==
  /\ pc = "read"
  /\ input' = IF flags.stdin THEN Source ELSE Nodes(pkg)
  /\ pc' = "filter"
  /\ UNCHANGED <<evals, pkg, pipeline, out, results, images, flags, selected, output, config, failed, ran, rendered, before, answer>>

\* The image of the command line; its tag field plays no part in it.
EvalImage(fn) == Latest(ResolveToImage(fn.image))

\* The filter provider: a container or an executable.
GetFilters ==
  /\ pc = "filter"
  /\ ran' = IF flags.fn.kind = "image" THEN EvalImage(flags.fn) ELSE None
  /\ pc' = "config"
  /\ UNCHANGED <<evals, pkg, pipeline, out, results, images, flags, lists, failed, rendered, before, answer>>

IsFnConfig(n) == flags.fn.config = "inside" /\ ~flags.stdin /\ n.path = FnConfigFile

\* The file given with --fn-config leaves the list, if its path is written the way the
\* package's files are.
ExcludeFnConfig ==
  /\ pc = "config"
  /\ config' = Only(input, {n \in ToSet(input) : IsFnConfig(n)})
  /\ input' = Only(input, {n \in ToSet(input) : ~IsFnConfig(n)})
  /\ pc' = "select"
  /\ UNCHANGED <<evals, pkg, pipeline, out, results, images, flags, selected, output, failed, ran, rendered, before, answer>>

\* The selector of --match-name and the like, the exclusion of --exclude-name and the like.
\* One of them may be empty.
Selectors == <<IF flags.fn.selector THEN [app |-> "x"] ELSE <<>> >>
Exclusions == <<IF flags.fn.exclusion THEN [app |-> "x"] ELSE <<>> >>
Selective == flags.fn.selector \/ flags.fn.exclusion

Select ==
  /\ pc = "select"
  /\ IF Selective
       THEN /\ input' = SetResourceIDs(input)
            /\ selected' = SelectInput(SetResourceIDs(input), Selectors, Exclusions)
       ELSE selected' = input /\ UNCHANGED input
  /\ pc' = "run"
  /\ UNCHANGED <<evals, pkg, pipeline, out, results, images, flags, output, config, failed, ran, rendered, before, answer>>

\* --when: a condition that does not hold skips the function.
Skip ==
  /\ pc = "run" /\ flags.when
  /\ output' = selected
  /\ answer' = Files(selected)
  /\ pc' = "merge"
  /\ UNCHANGED <<evals, pkg, pipeline, out, results, images, flags, input, selected, config, failed, ran, rendered, before>>

\* The container runtime finds the image, as --image-pull-policy says.
CanPull(pull) ==
  CASE pull = "Always"       -> ran \in registry
    [] pull = "IfNotPresent" -> ran \in registry \union present
    [] pull = "Never"        -> ran \in present

SelectedPaths == {n.path : n \in ToSet(selected)}

\* A function gives back some of the nodes, changed or not, and may add one of its own or
\* a copy of one it was given, if nothing else of the package has that path: a file holds
\* one resource.
Returns(dropped, changed, added, copied) ==
  LET kept == Only(selected, {n \in ToSet(selected) : n.path \notin dropped})
      returned == [i \in DOMAIN kept |->
                     IF kept[i].path \in changed THEN [kept[i] EXCEPT !.rev = evals] ELSE kept[i]]
      extra == [path |-> Fresh, attrs |-> Attrs[Fresh], rev |-> evals,
                id |-> IF copied /\ kept # <<>> THEN kept[1].id ELSE NoID]
  IN /\ added => Fresh \in dropped \/ \A n \in ToSet(input) : n.path # Fresh
     /\ output' = IF added THEN Append(returned, extra) ELSE returned
     /\ answer' = Files(output')
     /\ pc' = "merge"
     /\ UNCHANGED <<evals, pkg, pipeline, out, results, registry, flags, input, selected, config, failed, ran, rendered, before>>

ContainerRun(dropped, changed, added, copied) ==
  /\ pc = "run" /\ flags.fn.kind = "image"
  /\ CanPull(flags.pull)
  /\ present' = present \union {ran}
  /\ Returns(dropped, changed, added, copied)

ExecRun(dropped, changed, added, copied) ==
  /\ pc = "run" /\ flags.fn.kind = "exec"
  /\ Returns(dropped, changed, added, copied)
  /\ UNCHANGED present

\* No container runtime answers, or it is too old.
RuntimeUnavailable ==
  /\ pc = "run" /\ flags.fn.kind = "image"
  /\ failed' = "exec"
  /\ pc' = "merge"
  /\ UNCHANGED <<evals, pkg, pipeline, out, results, images, flags, lists, ran, rendered, before, answer>>

\* The function exits with an error, is killed after its five minutes, or its image is
\* not to be had.
RunFails ==
  /\ pc = "run"
  /\ failed' = "exec"
  /\ pc' = "merge"
  /\ UNCHANGED <<evals, pkg, pipeline, out, results, images, flags, lists, ran, rendered, before, answer>>

\* The input or the output is not KRM, the output's paths are not in order, or the
\* condition cannot be evaluated: the runner returns before it notes an exit code.
Rejected ==
  /\ pc = "run"
  /\ pc' = "merge"
  /\ failed' = "rejected"
  /\ UNCHANGED <<evals, pkg, pipeline, out, results, images, flags, lists, ran, rendered, before, answer>>

\* A failure skips the write; the configuration's node is added back unchanged.
Merge ==
  /\ pc = "merge"
  /\ output' = (IF Selective THEN DeleteResourceIDs(MergeWithInput(output, selected, input))
                ELSE output) \o config
  /\ pc' = IF failed = "" THEN "write" ELSE "results"
  /\ UNCHANGED <<evals, pkg, pipeline, out, results, images, flags, input, selected, config, failed, ran, rendered, before, answer>>

\* In place, or into a buffer that runE writes to the output.
InPlace == flags.dest = "" /\ ~flags.stdin

Write ==
  /\ pc = "write"
  /\ pkg' = IF InPlace THEN Files(output) ELSE pkg
  /\ pipeline' = IF pkg'[Kptfile] = None THEN NoPipeline ELSE pipeline
  /\ pc' = "results"
  /\ UNCHANGED <<evals, out, results, images, flags, lists, failed, ran, rendered, before, answer>>

\* The paths the write changes.
Written == {p \in Paths : Files(output)[p] # pkg[p]}

\* Some files are written, then one is not.
WriteFails(S) ==
  /\ pc = "write" /\ InPlace
  /\ pkg' = [p \in Paths |-> IF p \in S THEN Files(output)[p] ELSE pkg[p]]
  /\ pipeline' = IF pkg'[Kptfile] = None THEN NoPipeline ELSE pipeline
  /\ End
  /\ UNCHANGED <<evals, out, results, images, rendered>>

SaveResults ==
  /\ pc = "results"
  /\ results' = IF ~flags.results THEN results ELSE IF failed = "exec" THEN "1" ELSE "0"
  /\ IF failed # "" THEN End
     ELSE pc' = "output" /\ UNCHANGED <<flags, lists, failed, ran, before, answer>>
  /\ UNCHANGED <<evals, pkg, pipeline, out, images, rendered>>

\* Standard output is not modelled; a directory is.
WriteFnOutput ==
  /\ pc = "output"
  /\ out' = (out \/ flags.dest = "dir")
  /\ IF flags.save THEN pc' = "save" /\ UNCHANGED <<flags, lists, failed, ran, before, answer>>
     ELSE End
  /\ UNCHANGED <<evals, pkg, pipeline, results, images, rendered>>

\* Some of the directory is written: the next command will not write into it.
OutputFails ==
  /\ pc = "output" /\ flags.dest = "dir"
  /\ out' = TRUE
  /\ End
  /\ UNCHANGED <<evals, pkg, pipeline, results, images, rendered>>

-----------------------------------------------------------------------------
(* --save *)

\* A mutant: the path of the configuration is relative to the working directory, which is
\* not the package.
NewFunctionFromCwd(fn) ==
  [fn EXCEPT !.image = IF fn.kind = "image" THEN ResolveToImage(@) ELSE @,
             !.config = CASE @ = "kind" -> "args"
                          [] @ \in {"inside", "unclean", "sibling"} -> "outside"
                          [] OTHER -> @]

\* The function as it is written to the Kptfile: an image by its full name, arguments as a
\* ConfigMap, whatever their kind, and a file by its clean path relative to the package,
\* which for a directory beside the package begins with "..".
NewFunction(fn) ==
  [fn EXCEPT !.image = IF fn.kind = "image" THEN ResolveToImage(@) ELSE @,
             !.config = CASE @ = "kind" -> "args"
                          [] @ = "unclean" -> "inside"
                          [] @ = "sibling" -> "outside"
                          [] OTHER -> @]

\* A saved function is the evaluated one if it has the same image or executable.
SameFn(old, fn) == old.kind = fn.kind /\ old.image = NewFunction(fn).image

\* A mutant: a function that is there already is added once more.
UpdateFnListAppend(old, fn) == Append(old, NewFunction(fn))

\* Every function that is the same is replaced where it is, else the new one comes last.
UpdateFnList(old, fn) ==
  IF \E i \in DOMAIN old : SameFn(old[i], fn)
    THEN [i \in DOMAIN old |-> IF SameFn(old[i], fn) THEN NewFunction(fn) ELSE old[i]]
    ELSE Append(old, NewFunction(fn))

\* The Kptfile is read again: the function may have changed it, or removed it.  With the
\* package on standard input it is the one of the working directory, here the package.
SaveFnToKptfile ==
  /\ pc = "save"
  /\ pipeline' = IF pkg[Kptfile] = None THEN pipeline
                 ELSE [pipeline EXCEPT ![flags.type] = UpdateFnList(@, flags.fn)]
  /\ End
  /\ UNCHANGED <<evals, pkg, out, results, images, rendered>>

-----------------------------------------------------------------------------
(* Between the commands *)

Publish(i) ==
  /\ pc = "idle" /\ i \in Pool
  /\ registry' = registry \union {i}
  /\ UNCHANGED <<evals, pkg, pipeline, out, results, present, flags, pc, lists, failed, ran, rendered, before, answer>>

Unpublish(i) ==
  /\ pc = "idle" /\ i \in registry
  /\ registry' = registry \ {i}
  /\ UNCHANGED <<evals, pkg, pipeline, out, results, present, flags, pc, lists, failed, ran, rendered, before, answer>>

\* kpt fn sink writes what it reads to a directory that must not be there.
Sink ==
  /\ pc = "idle" /\ ~out
  /\ out' = TRUE
  /\ UNCHANGED <<evals, pkg, pipeline, results, images, flags, pc, lists, failed, ran, rendered, before, answer>>

TagsOf(image, S) == {i.tag : i \in {x \in S : x.name = image.name}}

\* The container runtime and the registry, which may not answer.
Listers(image, answers) ==
  {[local |-> TRUE,  ok |-> TRUE,    tags |-> TagsOf(image, present)],
   [local |-> FALSE, ok |-> answers, tags |-> TagsOf(image, registry)]}

\* A render refuses a package one of whose functions has a configuration outside of it, or
\* none at its path.
ValidConfigPath(fn) ==
  /\ fn.config \notin {"sibling", "outside", "missing"}
  /\ fn.config \in {"inside", "unclean"} => pkg[FnConfigFile] # None

ValidPipeline == \A fn \in ToSet(pipeline.mutator) \union ToSet(pipeline.validator) : ValidConfigPath(fn)

\* A render runs a mutator; the image is pulled if it is not there.
RenderRuns(fn, answers) ==
  LET image == RunnerImage(fn.image, fn.field, Listers(fn.image, answers)) IN
  /\ pc = "idle" /\ ValidPipeline /\ fn \in ToSet(pipeline.mutator) /\ fn.kind = "image"
  /\ image # Unresolved
  /\ image \in present \union registry
  /\ present' = present \union {image}
  /\ rendered' = IF fn.field.kind = "range" THEN image.tag ELSE rendered
  /\ UNCHANGED <<evals, pkg, pipeline, out, results, registry, flags, pc, lists, failed, ran, before, answer>>

-----------------------------------------------------------------------------
Next ==
  \/ \E l \in Lines : PreRun(l)
  \/ Fail \/ GetNodes \/ GetFilters \/ ExcludeFnConfig \/ Select \/ Skip
  \/ \E dropped \in SUBSET SelectedPaths : \E changed \in SUBSET (SelectedPaths \ dropped) :
       \E added \in BOOLEAN, copied \in {FALSE, Clones} :
         ContainerRun(dropped, changed, added, copied) \/ ExecRun(dropped, changed, added, copied)
  \/ RuntimeUnavailable \/ RunFails \/ Rejected \/ Merge \/ Write
  \/ SaveResults \/ WriteFnOutput \/ SaveFnToKptfile \/ OutputFails \/ Sink
  \/ \E S \in SUBSET Written : WriteFails(S)
  \/ \E i \in Pool : Publish(i) \/ Unpublish(i)
  \/ \E fn \in ToSet(pipeline.mutator), answers \in BOOLEAN : RenderRuns(fn, answers)

Spec == Init /\ [][Next]_vars

-----------------------------------------------------------------------------
(* Properties *)

Given(p) ==
  /\ before[p] # None
  /\ ~(flags.fn.config = "inside" /\ p = FnConfigFile)
  /\ flags.fn.selector => "app" \in DOMAIN Attrs[p] /\ Attrs[p].app = "x"
  /\ flags.fn.exclusion => ~("app" \in DOMAIN Attrs[p] /\ Attrs[p].app = "x")

\* An eval that wrote the package has replaced exactly what the function was given by what
\* it returned and added what it generated; what was not selected, and the file of
\* --fn-config, are as they were.  One whose function failed has changed nothing.
EvalIsExact ==
  pc = "results" =>
    pkg = IF failed # "" \/ ~InPlace THEN before
          ELSE [p \in Paths |-> IF Given(p) \/ (before[p] = None /\ p = Fresh) THEN answer[p] ELSE before[p]]

\* The configuration in a Kptfile is the one of the command line: the same arguments, or a
\* file of the package, however its path was written.
SameConfig(saved, given) == saved = given \/ (saved = "inside" /\ given = "unclean")

\* --save: the function that a later render runs from the Kptfile is the one that was
\* evaluated, by its image, configuration and selector.  One with a configuration in a
\* directory beside the package, which --save lets pass, is run by no render: they refuse
\* the Kptfile it is in.
SavedIsEvaluated ==
  [][pc = "save" /\ pkg[Kptfile] # None =>
       \E i \in DOMAIN pipeline'[flags.type] :
         LET fn == pipeline'[flags.type][i] IN
         /\ fn.kind = flags.fn.kind
         /\ fn.selector = flags.fn.selector /\ fn.exclusion = flags.fn.exclusion
         /\ IF fn.kind = "image" THEN RunnerImage(fn.image, fn.field, Listers(fn.image, TRUE)) = ran
            ELSE fn.image = flags.fn.image
         /\ IF flags.fn.config = "sibling" THEN ~ValidPipeline'
            ELSE SameConfig(fn.config, flags.fn.config)]_vars

\* --save of a function that is in the list updates it where it is, however often it is
\* repeated; no function is lost, moved or doubled.
SaveReplaces ==
  [][pc = "save" /\ pkg[Kptfile] # None =>
       LET old == pipeline[flags.type]
           new == pipeline'[flags.type]
           same(f) == f.kind = flags.fn.kind /\ f.image = NewFunction(flags.fn).image
       IN /\ \A i \in DOMAIN old : IF same(old[i]) THEN same(new[i]) ELSE new[i] = old[i]
          /\ IF \E i \in DOMAIN old : same(old[i]) THEN Len(new) = Len(old)
             ELSE Len(new) = Len(old) + 1 /\ same(new[Len(new)])]_vars

\* Tags come and go in the registry, and it may not answer: still, on one machine, a
\* function with a version constraint is never run with an older version than before,
\* because what was run is still there to be listed.
NeverOlder == [][rendered' >= rendered]_vars

=============================================================================
