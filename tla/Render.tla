------------------------------- MODULE Render -------------------------------
(***************************************************************************)
(* One execution of `kpt fn render` on a package and its subpackages:      *)
(* Renderer.Execute, the two walks over the package tree (hydrate and      *)
(* hydrateBfsOrder), the pipeline of each package and the tail that writes *)
(* the result, prunes files and records the Rendered condition             *)
(* (pkg/lib/kptops/render_executor.go, pkg/fn/runtime/runner.go).          *)
(*                                                                         *)
(* A resource is the package and the file it belongs to and the sequence   *)
(* of functions that have been applied to it.  A list of resources is the  *)
(* set of its members ({} is Go's nil slice): enforcePathInvariants keeps  *)
(* one resource per package and path.  The order within a list, contents   *)
(* of resources and messages are left out.                                 *)
(***************************************************************************)
EXTENDS Naturals, Sequences, FiniteSets, Functions

CONSTANTS
    Pkgs,        \* the root package and all packages nested in it
    Root,        \* the package that is rendered
    Children,    \* Children[p]: DirectSubpackages of p, sorted
    Parent,      \* Parent[p]: the package p is a direct subpackage of
    Below,       \* Below[p]: p and every package nested in it
    Names,       \* file names
    Kptfile,     \* the name of the Kptfile
    NoName,      \* the empty configPath / configRef
    FnIds,       \* functions of the pipelines
    Mutators,    \* Mutators[p]: the pipeline's mutators in p's Kptfile
    Validators,  \* Validators[p]: the pipeline's validators in p's Kptfile
    Layouts,     \* the sets of files the package may consist of
    BadSets,     \* the sets of packages whose Kptfile may fail validation
    Options      \* the flags and annotations of an execution

OptionType == [inPlace : BOOLEAN,    \* no --output
               save : BOOLEAN,       \* kpt.dev/save-on-render-failure
               bfs : BOOLEAN,        \* kpt.dev/bfs-rendering
               allowExec : BOOLEAN,  \* --allow-exec
               results : BOOLEAN]    \* --results-dir

(* A function of a pipeline.  drops and gens bound what its program may do: *)
(* which resources it may delete and which it may generate.                 *)
FunctionType ==
    [id : FnIds,
     exec : BOOLEAN,                   \* an executable, not an image
     fetch : BOOLEAN,                  \* building its runner may fail
     config : Names \cup {NoName},     \* configPath
     clean : BOOLEAN,                  \* configPath is in its cleaned form
     ref : Names \cup {NoName},        \* configRef
     selects : SUBSET Names,           \* selectors and exclusions
     cond : BOOLEAN,                   \* has a CEL condition
     drops : SUBSET (Pkgs \X Names),
     gens : SUBSET Names]

ASSUME TreeAssumption ==
    /\ Root \in Pkgs
    /\ Children \in [Pkgs -> Seq(Pkgs)]
    /\ Parent \in [Pkgs -> Pkgs]
    /\ Below \in [Pkgs -> SUBSET Pkgs]
    /\ \A p \in Pkgs : \A i \in DOMAIN Children[p] :
          /\ Children[p][i] # Root
          /\ Parent[Children[p][i]] = p
          /\ \A j \in DOMAIN Children[p] : Children[p][i] = Children[p][j] => i = j
    /\ \A p \in Pkgs \ {Root} : p \in Range(Children[Parent[p]])
    /\ \A p \in Pkgs : p \in Below[p]
    /\ \A p, q \in Pkgs : q \in Below[p] => Below[q] \subseteq Below[p]
    /\ \A p \in Pkgs \ {Root} : p \in Below[Parent[p]]
    /\ Below[Root] = Pkgs

(* There are no packages but the root, its subpackages, theirs and so on.   *)
ASSUME NestedAssumption ==
    \A S \in SUBSET Pkgs :
       Root \in S /\ (\A p \in S : Range(Children[p]) \subseteq S) => S = Pkgs

(* Packages are nested directories.                                         *)
ASSUME BelowAssumption ==
    /\ \A p, q \in Pkgs : p \in Below[q] /\ q \in Below[p] => p = q
    /\ \A p, q \in Pkgs : q \in Below[p] /\ q # p => Parent[q] \in Below[p]

ASSUME PipelineAssumption ==
    /\ Kptfile \in Names /\ NoName \notin Names
    /\ Mutators \in [Pkgs -> Seq(FunctionType)]
    /\ Validators \in [Pkgs -> Seq(FunctionType)]

(* An id stands for one entry of one pipeline.                              *)
ASSUME IdAssumption ==
    /\ \A p, q \in Pkgs : \A i \in DOMAIN Mutators[p], j \in DOMAIN Mutators[q] :
          Mutators[p][i].id = Mutators[q][j].id => p = q /\ i = j
    /\ \A p, q \in Pkgs : \A i \in DOMAIN Validators[p], j \in DOMAIN Validators[q] :
          Validators[p][i].id = Validators[q][j].id => p = q /\ i = j
    /\ \A p, q \in Pkgs : \A i \in DOMAIN Mutators[p], j \in DOMAIN Validators[q] :
          Mutators[p][i].id # Validators[q][j].id

ASSUME InputAssumption ==
    /\ Layouts \subseteq SUBSET (Pkgs \X Names)
    /\ \A L \in Layouts, p \in Pkgs : <<p, Kptfile>> \in L
    /\ BadSets \subseteq SUBSET Pkgs
    /\ Options \subseteq OptionType

Resource == [pkg : Pkgs, name : Names, hist : Seq(FnIds)]
Key(r) == <<r.pkg, r.name>>
Keys(S) == {Key(r) : r \in S}

VARIABLES
    opts, bad, disk0,      \* flags, invalid Kptfiles, the package as found
    disk, cond,            \* the package directory; its Rendered condition
    pc,                    \* where Execute is
    cur, state, next,      \* the walk: package, hydrationState, subpkgs index
    input, res, ret,       \* hydrate's input, pkgNode.resources, its output
    queue, order,          \* nodes still to visit, allNodes (BFS)
    inputFiles, outputFiles,
    work, idx,             \* the pipeline's resource list and function index
    call,                  \* the last function call
    mutationSteps, validationSteps, fnResults,
    hydErr, result

given   == <<opts, bad, disk0>>
onDisk  == <<disk, cond>>
walk    == <<cur, state, next, input, res, ret, inputFiles>>
visit   == <<queue, order>>
pipe    == <<work, idx, call>>
report  == <<mutationSteps, validationSteps, fnResults>>
outcome == <<outputFiles, hydErr, result>>
vars == <<given, onDisk, pc, walk, visit, pipe, report, outcome>>

NoCall == [pkg |-> Root, fn |-> NoName, items |-> {}, cfg |-> {}, listed |-> FALSE]

Init ==
    /\ opts \in Options /\ bad \in BadSets
    /\ \E L \in Layouts :
          disk0 = {[pkg |-> k[1], name |-> k[2], hist |-> <<>>] : k \in L}
    /\ disk = disk0
    /\ cond \in {"none", "True", "False"}
    /\ pc = "start" /\ cur = Root
    /\ state = [p \in Pkgs |-> "Undiscovered"]
    /\ next = [p \in Pkgs |-> 1]
    /\ input = [p \in Pkgs |-> {}] /\ res = [p \in Pkgs |-> {}] /\ ret = {}
    /\ queue = <<>> /\ order = <<>>
    /\ inputFiles = {} /\ outputFiles = {}
    /\ work = {} /\ idx = 1 /\ call = NoCall
    /\ mutationSteps = <<>> /\ validationSteps = <<>>
    /\ fnResults = [items |-> <<>>, exitCode |-> 0]
    /\ hydErr = FALSE /\ result = "none"

-----------------------------------------------------------------------------
(* Reading packages.                                                        *)

Fns(p) == Range(Mutators[p]) \cup Range(Validators[p])

LocalResources(p) == {r \in disk : r.pkg = p}

(* newPkgNode accepts the package: its Kptfile and every configPath in it   *)
(* can be read.                                                             *)
Validate(p) ==
    /\ p \notin bad
    /\ \A f \in Fns(p) : f.config # NoName => <<p, f.config>> \in Keys(disk)

(* The run-time check of a pipeline, against the files on disk.             *)
ValidatePipeline(p) ==
    \A f \in Fns(p) : \A n \in {f.config, f.ref} \ {NoName} :
        <<p, n>> \in Keys(LocalResources(p))

Discovered == {p \in Pkgs : state[p] # "Undiscovered"}

-----------------------------------------------------------------------------
(* Execute up to the walk.                                                  *)

(* The root package cannot be opened: Execute returns before there is a     *)
(* hydration context to record anything in.                                 *)
ExecuteInvalid ==
    /\ pc = "start" /\ ~Validate(Root)
    /\ pc' = "done" /\ result' = "error"
    /\ UNCHANGED <<given, onDisk, walk, visit, pipe, report, outputFiles, hydErr>>

(* trackInputFiles *)
TrackInputFilesOfRoot(p) == IF p = Root THEN Keys(LocalResources(p)) ELSE inputFiles
TrackInputFiles(p) == inputFiles \cup Keys(LocalResources(p))

(* hydrate's prologue: p is discovered, marked and its files are read.      *)
HydrateEnter(p) ==
    /\ cur' = p
    /\ state' = [state EXCEPT ![p] = "Hydrating"]
    /\ input' = [input EXCEPT ![p] = LocalResources(p)]
    /\ inputFiles' = TrackInputFiles(p)

ExecuteDfs ==
    /\ pc = "start" /\ ~opts.bfs /\ Validate(Root)
    /\ pc' = "walk" /\ HydrateEnter(Root)
    /\ UNCHANGED <<given, onDisk, next, res, ret, visit, pipe, report, outcome>>

ExecuteBfs ==
    /\ pc = "start" /\ opts.bfs /\ Validate(Root)
    /\ pc' = "discover" /\ queue' = <<Root>>
    /\ UNCHANGED <<given, onDisk, walk, order, pipe, report, outcome>>

-----------------------------------------------------------------------------
(* hydrate: depth first, a package after its subpackages.                   *)

(* The loop over DirectSubpackages has come to its end.                     *)
SubpackagesDone == next[cur] > Len(Children[cur])

(* The next subpackage is opened and hydrated.                              *)
HydrateSubpackage ==
    /\ pc = "walk" /\ ~SubpackagesDone
    /\ LET sub == Children[cur][next[cur]] IN
          /\ Validate(sub) /\ sub \notin Discovered
          /\ HydrateEnter(sub)
    /\ next' = [next EXCEPT ![cur] = @ + 1]
    /\ UNCHANGED <<given, onDisk, pc, res, ret, visit, pipe, report, outcome>>

(* The next subpackage cannot be opened, or is found in a state other than  *)
(* Wet (a cycle): hydrate returns a nil output.                             *)
HydrateSubpackageInvalid ==
    /\ pc = "walk" /\ ~SubpackagesDone
    /\ LET sub == Children[cur][next[cur]] IN ~Validate(sub) \/ sub \in Discovered
    /\ pc' = "unwind" /\ ret' = {} /\ hydErr' = TRUE
    /\ UNCHANGED <<given, onDisk, cur, state, next, input, res, inputFiles,
                   visit, pipe, report, outputFiles, result>>

(* The files of the package that was just entered cannot be read: hydrate   *)
(* returns a nil output.  (What it gathered so far is not looked at again.) *)
HydrateUnreadable ==
    /\ pc = "walk" /\ next[cur] = 1
    /\ pc' = "unwind" /\ ret' = {} /\ hydErr' = TRUE
    /\ UNCHANGED <<given, onDisk, cur, state, next, input, res, inputFiles,
                   visit, pipe, report, outputFiles, result>>

(* All subpackages are wet: the package's own pipeline gets its resources   *)
(* and theirs.                                                              *)
HydrateRunPipeline ==
    /\ pc = "walk" /\ SubpackagesDone
    /\ pc' = "pipeline" /\ work' = input[cur]
    /\ UNCHANGED <<given, onDisk, walk, visit, idx, call, report, outcome>>

(* hydrate returns without error and its caller collects the resources.     *)
HydrateReturn ==
    /\ pc = "return" /\ ~opts.bfs
    /\ state' = [state EXCEPT ![cur] = "Wet"]
    /\ res' = [res EXCEPT ![cur] = work]
    /\ IF cur = Root
       THEN pc' = "tail" /\ UNCHANGED <<cur, input>>
       ELSE /\ pc' = "walk" /\ cur' = Parent[cur]
            /\ input' = [input EXCEPT ![Parent[cur]] = @ \cup work]
    /\ UNCHANGED <<given, onDisk, next, ret, inputFiles, visit, pipe, report, outcome>>

(* hydrate's caller gets an error with output ret.  It keeps ret with what  *)
(* it has gathered when it is told to save, but itself returns nil.         *)
HydrateUnwind ==
    /\ pc = "unwind" /\ cur # Root
    /\ cur' = Parent[cur] /\ ret' = {}
    /\ IF ret # {} /\ opts.save
       THEN LET got == input[Parent[cur]] \cup ret IN
            /\ input' = [input EXCEPT ![Parent[cur]] = got]
            /\ res' = [res EXCEPT ![Parent[cur]] = got]
       ELSE UNCHANGED <<input, res>>
    /\ UNCHANGED <<given, onDisk, pc, state, next, inputFiles, visit, pipe, report, outcome>>

HydrateFailed ==
    /\ pc = "unwind" /\ cur = Root
    /\ pc' = "tail"
    /\ UNCHANGED <<given, onDisk, walk, visit, pipe, report, outcome>>

-----------------------------------------------------------------------------
(* hydrateBfsOrder: discover all packages, then run the pipelines top down. *)

(* The queue after node p and its subpackages have been processed.          *)
QueueAfter(p) == Tail(queue) \o Children[p]

(* discoverAndLoadPackages takes one node off the queue.                    *)
Discover ==
    /\ pc = "discover" /\ queue # <<>>
    /\ LET p == Head(queue) IN
          /\ p \notin Discovered
          /\ order' = Append(order, p)
          /\ state' = [state EXCEPT ![p] = "Dry"]
          /\ res' = [res EXCEPT ![p] = LocalResources(p)]
          /\ inputFiles' = TrackInputFiles(p)
          /\ IF \A c \in Range(Children[p]) : Validate(c)
             THEN queue' = QueueAfter(p) /\ UNCHANGED <<pc, hydErr>>
             ELSE pc' = "tail" /\ hydErr' = TRUE /\ queue' = Tail(queue)
    /\ UNCHANGED <<given, onDisk, cur, next, input, ret, pipe, report, outputFiles, result>>

(* A mutant: a node that cannot be read is tried again after the others.    *)
DiscoverUnreadableLater ==
    /\ pc = "discover" /\ queue # <<>>
    /\ queue' = Append(Tail(queue), Head(queue))
    /\ UNCHANGED <<given, onDisk, pc, walk, order, pipe, report, outcome>>

(* Its files cannot be read: the list of nodes is dropped, and that the node *)
(* has been marked is not looked at again.                                  *)
DiscoverUnreadable ==
    /\ pc = "discover" /\ queue # <<>>
    /\ pc' = "tail" /\ hydErr' = TRUE
    /\ UNCHANGED <<given, onDisk, walk, visit, pipe, report, outputFiles, result>>

DiscoverDone ==
    /\ pc = "discover" /\ queue = <<>>
    /\ pc' = "bfs" /\ queue' = order
    /\ UNCHANGED <<given, onDisk, walk, order, pipe, report, outcome>>

(* buildPipelineInputWithScopedVisibility: p's resources and those of its   *)
(* descendants.                                                             *)
BfsInputUnscoped(p) == UNION {res[q] : q \in Range(order)}
BfsInput(p) == UNION {res[q] : q \in Below[p]}

(* The next node of allNodes.                                               *)
BfsRunPipeline ==
    /\ pc = "bfs" /\ queue # <<>>
    /\ LET p == Head(queue) IN
          /\ cur' = p
          /\ state' = [state EXCEPT ![p] = "Hydrating"]
          /\ input' = [input EXCEPT ![p] = BfsInput(p)]
          /\ work' = BfsInput(p)
    /\ queue' = Tail(queue) /\ pc' = "pipeline"
    /\ UNCHANGED <<given, onDisk, next, res, ret, inputFiles, order, idx, call, report, outcome>>

(* propagateResourcesAcrossNodes hands p's output out to the packages its   *)
(* members belong to; a package with no resource in it keeps what it had.   *)
PropagateNothing(p, out) == [res EXCEPT ![p] = {r \in out : r.pkg = p}]
Propagate(p, out) ==
    [q \in Pkgs |-> LET own == {r \in out : r.pkg = q}
                    IN  IF q = p \/ own # {} THEN own ELSE res[q]]

(* aggregateRootResources *)
Aggregate(rs) == [rs EXCEPT ![Root] = UNION {rs[q] : q \in Range(order)}]

BfsReturn ==
    /\ pc = "return" /\ opts.bfs
    /\ state' = [state EXCEPT ![cur] = "Wet"]
    /\ res' = Propagate(cur, work)
    /\ pc' = "bfs"
    /\ UNCHANGED <<given, onDisk, cur, next, input, ret, inputFiles, visit, pipe, report, outcome>>

BfsDone ==
    /\ pc = "bfs" /\ queue = <<>>
    /\ res' = Aggregate(res) /\ pc' = "tail"
    /\ UNCHANGED <<given, onDisk, cur, state, next, input, ret, inputFiles, visit,
                   pipe, report, outcome>>

-----------------------------------------------------------------------------
(* runPipeline on package cur.                                              *)

(* What is kept of a failed pipeline: a nil output falls back to its input. *)
KeptWithoutFallback(out) == out
Kept(out) == IF out = {} THEN input[cur] ELSE out

(* How the walk takes an error of the pipeline that comes with output out.  *)
PipelineFails(out) ==
    /\ hydErr' = TRUE
    /\ IF opts.bfs
       THEN /\ pc' = "tail"
            /\ res' = IF opts.save THEN Aggregate(Propagate(cur, Kept(out))) ELSE res
            /\ UNCHANGED ret
       ELSE /\ pc' = "unwind"
            /\ res' = IF opts.save THEN [res EXCEPT ![cur] = Kept(out)] ELSE res
            /\ ret' = IF opts.save THEN Kept(out) ELSE out
    /\ UNCHANGED <<given, onDisk, cur, state, next, input, inputFiles, visit, outputFiles, result>>

InPipeline == UNCHANGED <<given, onDisk, walk, visit, outcome>>

Step(f, how) == [fn |-> f.id, how |-> how]
WithItem(f) == [fnResults EXCEPT !.items = Append(@, f.id)]
WithFailedItem(f) == [WithItem(f) EXCEPT !.exitCode = 1]

EmptyPipeline ==
    /\ pc = "pipeline" /\ Fns(cur) = {}
    /\ pc' = "return"
    /\ InPipeline /\ UNCHANGED <<pipe, report>>

(* Without functions the list is still refused if a file is not KRM.        *)
EmptyPipelineRejected ==
    /\ pc = "pipeline" /\ Fns(cur) = {}
    /\ PipelineFails({}) /\ UNCHANGED <<pipe, report>>

PipelineInvalid ==
    /\ pc = "pipeline" /\ Fns(cur) # {} /\ ~ValidatePipeline(cur)
    /\ PipelineFails({}) /\ UNCHANGED <<pipe, report>>

(* fnChain refuses an executable without --allow-exec.                      *)
Blocked(f) == f.exec /\ ~opts.allowExec

(* fnChain builds the runners of all mutators before the first one runs.    *)
FnChainFails ==
    /\ pc = "pipeline" /\ Fns(cur) # {} /\ ValidatePipeline(cur)
    /\ \E i \in DOMAIN Mutators[cur] :
          /\ \A j \in 1 .. (i - 1) : ~Blocked(Mutators[cur][j])
          /\ Blocked(Mutators[cur][i]) \/ Mutators[cur][i].fetch
          /\ mutationSteps' = Append(mutationSteps, Step(Mutators[cur][i], "fail"))
    /\ PipelineFails({}) /\ UNCHANGED <<pipe, validationSteps, fnResults>>

FnChainFromZero ==
    /\ pc = "pipeline" /\ Fns(cur) # {} /\ ValidatePipeline(cur)
    /\ \A f \in Range(Mutators[cur]) : ~Blocked(f)
    /\ pc' = "mutate" /\ idx' = 0
    /\ InPipeline /\ UNCHANGED <<work, call, report>>

FnChain ==
    /\ pc = "pipeline" /\ Fns(cur) # {} /\ ValidatePipeline(cur)
    /\ \A f \in Range(Mutators[cur]) : ~Blocked(f)
    /\ pc' = "mutate" /\ idx' = 1
    /\ InPipeline /\ UNCHANGED <<work, call, report>>

-----------------------------------------------------------------------------
(* What a function is given.                                                *)

(* The resource excludeAndRefreshFnConfig takes out of the list: it compares *)
(* the configPath as written with the path of the resource.                 *)
FnConfigNode(f) ==
    {r \in work : f.clean /\ f.config # NoName /\ Key(r) = <<cur, f.config>>}

SelectInput(f) == {r \in work \ FnConfigNode(f) : r.name \in f.selects}

ResolveConfigRef(f) == {r \in work : Key(r) = <<cur, f.ref>>}

(* functionConfig: the current version of the configPath resource, else the *)
(* file that was read when the runner was built.                            *)
FunctionConfigAsRead(f) ==
    IF f.ref # NoName THEN ResolveConfigRef(f)
    ELSE {r \in disk : f.config # NoName /\ Key(r) = <<cur, f.config>>}

FunctionConfig(f) ==
    IF f.ref # NoName THEN ResolveConfigRef(f)
    ELSE IF FnConfigNode(f) # {} THEN FnConfigNode(f)
    ELSE {r \in disk : f.config # NoName /\ Key(r) = <<cur, f.config>>}

ConfigRefMissing(f) == f.ref # NoName /\ ResolveConfigRef(f) = {}

(* A configRef gives a kind and a name, which one resource had when the     *)
(* pipeline was validated: it fails if that one is gone, or if one that a   *)
(* function has generated since has them too.                               *)
ConfigRefUnresolved(f) ==
    /\ f.ref # NoName
    /\ ResolveConfigRef(f) = {} \/ \E r \in work : r.pkg = cur /\ Key(r) \notin Keys(disk0)

Call(f) == [pkg |-> cur, fn |-> f.id, items |-> SelectInput(f),
            cfg |-> FunctionConfig(f),
            listed |-> FnConfigNode(f) # {} \/ f.ref # NoName]

(* The function's program: it may change every resource it is given, delete *)
(* some (D) and generate others (G) in the package of the pipeline.         *)
Apply(f, D, G) ==
       {[r EXCEPT !.hist = Append(@, f.id)] : r \in {s \in SelectInput(f) : Key(s) \notin D}}
  \cup {[pkg |-> cur, name |-> n, hist |-> <<f.id>>] : n \in G}

(* MergeWithInput: the rest of the list stays as it was.                    *)
MergeWithInput(f, out) == (work \ SelectInput(f)) \cup out

-----------------------------------------------------------------------------
(* runMutators *)

MutatorFromLast == Mutators[cur][Len(Mutators[cur]) + 1 - idx]
Mutator == Mutators[cur][idx]
AtMutator == pc = "mutate" /\ idx <= Len(Mutators[cur])

MutatorRuns(D, G) ==
    /\ AtMutator /\ ~ConfigRefMissing(Mutator)
    /\ work' = MergeWithInput(Mutator, Apply(Mutator, D, G))
    /\ call' = Call(Mutator)
    /\ mutationSteps' = Append(mutationSteps, Step(Mutator, "pass"))
    /\ fnResults' = WithItem(Mutator)
    /\ idx' = idx + 1
    /\ InPipeline /\ UNCHANGED <<pc, validationSteps>>

RunMutator ==
    /\ AtMutator
    /\ \E D \in SUBSET (Mutator.drops \cap Keys(SelectInput(Mutator))),
          G \in SUBSET {n \in Mutator.gens : <<cur, n>> \notin Keys(work)} :
          MutatorRuns(D, G)

(* The CEL condition is false: the list passes through.                     *)
SkipMutatorUnreported ==
    /\ AtMutator /\ Mutator.cond /\ ~ConfigRefMissing(Mutator)
    /\ idx' = idx + 1
    /\ InPipeline /\ UNCHANGED <<pc, work, call, report>>

SkipMutator ==
    /\ AtMutator /\ Mutator.cond /\ ~ConfigRefMissing(Mutator)
    /\ mutationSteps' = Append(mutationSteps, Step(Mutator, "skip"))
    /\ fnResults' = WithItem(Mutator)
    /\ idx' = idx + 1
    /\ InPipeline /\ UNCHANGED <<pc, work, call, validationSteps>>

(* The function exits with an error: there is a result item for it.         *)
MutatorFails ==
    /\ AtMutator /\ ~ConfigRefMissing(Mutator)
    /\ call' = Call(Mutator)
    /\ mutationSteps' = Append(mutationSteps, Step(Mutator, "fail"))
    /\ fnResults' = WithFailedItem(Mutator)
    /\ PipelineFails(work) /\ UNCHANGED <<work, idx, validationSteps>>

(* Its CEL condition cannot be evaluated, or its input or output is rejected *)
(* (not KRM, a path outside the package or used twice): do returns before it *)
(* appends a result item.                                                    *)
MutatorRejected ==
    /\ AtMutator /\ ~ConfigRefMissing(Mutator)
    /\ call' = Call(Mutator)
    /\ mutationSteps' = Append(mutationSteps, Step(Mutator, "fail"))
    /\ PipelineFails(work) /\ UNCHANGED <<work, idx, validationSteps, fnResults>>

(* An earlier function deleted or doubled the configRef resource: no step is *)
(* recorded, and nil is returned.                                           *)
MutatorConfigRefMissing ==
    /\ AtMutator /\ ConfigRefUnresolved(Mutator)
    /\ PipelineFails({}) /\ UNCHANGED <<pipe, report>>

MutatorsDone ==
    /\ pc = "mutate" /\ idx > Len(Mutators[cur])
    /\ pc' = "validate" /\ idx' = 1
    /\ InPipeline /\ UNCHANGED <<work, call, report>>

-----------------------------------------------------------------------------
(* runValidators: each runner is built when its turn comes, gets a copy of  *)
(* the resources, and its output is discarded.                              *)

Validator == Validators[cur][idx]
AtValidator == pc = "validate" /\ idx <= Len(Validators[cur])

(* Refused or not built, or its configRef is gone or doubled: only a step is *)
(* recorded.                                                                *)
ValidatorNotBuilt ==
    /\ AtValidator
    /\ Blocked(Validator) \/ Validator.fetch \/ ConfigRefUnresolved(Validator)
    /\ validationSteps' = Append(validationSteps, Step(Validator, "fail"))
    /\ PipelineFails(work) /\ UNCHANGED <<pipe, mutationSteps, fnResults>>

ValidatorReady == AtValidator /\ ~Blocked(Validator) /\ ~ConfigRefMissing(Validator)

RunValidator ==
    /\ ValidatorReady
    /\ call' = Call(Validator)
    /\ validationSteps' = Append(validationSteps, Step(Validator, "pass"))
    /\ fnResults' = WithItem(Validator)
    /\ idx' = idx + 1
    /\ InPipeline /\ UNCHANGED <<pc, work, mutationSteps>>

SkipValidator ==
    /\ ValidatorReady /\ Validator.cond
    /\ validationSteps' = Append(validationSteps, Step(Validator, "skip"))
    /\ fnResults' = WithItem(Validator)
    /\ idx' = idx + 1
    /\ InPipeline /\ UNCHANGED <<pc, work, call, mutationSteps>>

ValidatorFails ==
    /\ ValidatorReady
    /\ call' = Call(Validator)
    /\ validationSteps' = Append(validationSteps, Step(Validator, "fail"))
    /\ fnResults' = WithFailedItem(Validator)
    /\ PipelineFails(work) /\ UNCHANGED <<work, idx, mutationSteps>>

ValidatorRejected ==
    /\ ValidatorReady
    /\ call' = Call(Validator)
    /\ validationSteps' = Append(validationSteps, Step(Validator, "fail"))
    /\ PipelineFails(work) /\ UNCHANGED <<work, idx, mutationSteps, fnResults>>

ValidatorsDone ==
    /\ pc = "validate" /\ idx > Len(Validators[cur])
    /\ pc' = "return"
    /\ InPipeline /\ UNCHANGED <<pipe, report>>

-----------------------------------------------------------------------------
(* Execute after the walk.                                                  *)

InTail == UNCHANGED <<given, walk, visit, pipe, report, hydErr>>

(* updateRenderStatus: the condition is written into the root Kptfile; when *)
(* that cannot be read, nothing happens.                                    *)
AddRenderStatus(files, status) ==
    cond' = IF opts.inPlace /\ <<Root, Kptfile>> \in Keys(files) /\ cond = "none"
            THEN status ELSE cond

UpdateRenderStatus(files, status) ==
    cond' = IF opts.inPlace /\ <<Root, Kptfile>> \in Keys(files) THEN status ELSE cond

(* hydErr without save-on-render-failure: only the condition is recorded.   *)
GiveUp ==
    /\ pc = "tail" /\ hydErr /\ ~opts.save
    /\ UpdateRenderStatus(disk, "False")
    /\ pc' = "done" /\ result' = "error"
    /\ InTail /\ UNCHANGED <<disk, outputFiles>>

KeepsAlways == pc = "tail"
Keeps == pc = "tail" /\ (hydErr => opts.save)

(* LocalPackageReadWriter.Write: files of the given resources are replaced. *)
Overwrite(S) == S \cup {r \in disk : Key(r) \notin Keys(S)}

PruneAlways == "prune"
AfterWrite == IF hydErr THEN "finish" ELSE "prune"

WriteResources ==
    /\ Keeps /\ opts.inPlace
    /\ outputFiles' = Keys(res[Root])
    /\ disk' = Overwrite(res[Root])
    /\ pc' = AfterWrite
    /\ InTail /\ UNCHANGED <<cond, result>>

(* The files written before one of them fails: bounded to none or all but   *)
(* one, in any order.                                                       *)
PartialWrites(S) == {T \in {{}} \cup {S \ {r} : r \in S} : T # S}

(* A write fails after some of the files: Execute returns at once.          *)
WriteFails ==
    /\ Keeps /\ opts.inPlace
    /\ outputFiles' = Keys(res[Root])
    /\ \E S \in PartialWrites(res[Root]) : disk' = Overwrite(S)
    /\ pc' = "done" /\ result' = "write error"
    /\ InTail /\ UNCHANGED cond

(* The result goes to --output, and only if there was no error.             *)
WriteOutput ==
    /\ Keeps /\ ~opts.inPlace
    /\ outputFiles' = Keys(res[Root])
    /\ pc' = "finish"
    /\ InTail /\ UNCHANGED <<onDisk, result>>

WriteOutputFails ==
    /\ Keeps /\ ~opts.inPlace /\ ~hydErr
    /\ outputFiles' = Keys(res[Root])
    /\ pc' = "done" /\ result' = "write error"
    /\ InTail /\ UNCHANGED onDisk

(* A removed Kptfile takes the condition recorded in it along.              *)
Remove(files) == {r \in disk : Key(r) \notin files}

ToPrune == inputFiles \ outputFiles

PruneResources ==
    /\ pc = "prune"
    /\ disk' = Remove(ToPrune)
    /\ cond' = IF <<Root, Kptfile>> \in ToPrune THEN "none" ELSE cond
    /\ pc' = "finish"
    /\ InTail /\ UNCHANGED <<outputFiles, result>>

PruneFails ==
    /\ pc = "prune"
    /\ \E D \in SUBSET ToPrune :
          /\ D # ToPrune
          /\ disk' = Remove(D)
          /\ IF <<Root, Kptfile>> \in D THEN cond' = "none"
             ELSE UpdateRenderStatus(disk, "False")
    /\ pc' = "done" /\ result' = "error"
    /\ InTail /\ UNCHANGED outputFiles

(* With hydErr an error of saveFnResults is ignored, else it is returned.   *)
FinishFailed ==
    /\ pc = "finish" /\ hydErr
    /\ UpdateRenderStatus(disk, "False")
    /\ pc' = "done" /\ result' = "error"
    /\ InTail /\ UNCHANGED <<disk, outputFiles>>

FinishOk ==
    /\ pc = "finish" /\ ~hydErr
    /\ UpdateRenderStatus(disk, "True")
    /\ pc' = "done" /\ result' = "ok"
    /\ InTail /\ UNCHANGED <<disk, outputFiles>>

SaveFnResultsFails ==
    /\ pc = "finish" /\ ~hydErr /\ opts.results
    /\ UpdateRenderStatus(disk, "False")
    /\ pc' = "done" /\ result' = "error"
    /\ InTail /\ UNCHANGED <<disk, outputFiles>>

-----------------------------------------------------------------------------
DfsStep ==
    \/ HydrateSubpackage \/ HydrateSubpackageInvalid \/ HydrateUnreadable
    \/ HydrateRunPipeline \/ HydrateReturn \/ HydrateUnwind \/ HydrateFailed

BfsStep ==
    \/ Discover \/ DiscoverUnreadable \/ DiscoverDone
    \/ BfsRunPipeline \/ BfsReturn \/ BfsDone

PipelineStep ==
    \/ EmptyPipeline \/ EmptyPipelineRejected \/ PipelineInvalid \/ FnChainFails \/ FnChain
    \/ RunMutator \/ SkipMutator \/ MutatorFails \/ MutatorRejected
    \/ MutatorConfigRefMissing \/ MutatorsDone
    \/ ValidatorNotBuilt \/ RunValidator \/ SkipValidator
    \/ ValidatorFails \/ ValidatorRejected \/ ValidatorsDone

TailStep ==
    \/ GiveUp \/ WriteResources \/ WriteFails \/ WriteOutput \/ WriteOutputFails
    \/ PruneResources \/ PruneFails \/ FinishFailed \/ FinishOk \/ SaveFnResultsFails

Next ==
    \/ ExecuteInvalid \/ ExecuteDfs \/ ExecuteBfs
    \/ DfsStep \/ BfsStep \/ PipelineStep \/ TailStep

(* Execute is sequential code, every function call is bounded by a timeout, *)
(* so a step that can be taken is taken.                                    *)
Spec == Init /\ [][Next]_vars /\ WF_vars(Next)

-----------------------------------------------------------------------------
StateType == {"Undiscovered", "Dry", "Hydrating", "Wet"}
PcType == {"start", "walk", "unwind", "discover", "bfs", "pipeline", "mutate",
           "validate", "return", "tail", "prune", "finish", "done"}
StepType == [fn : FnIds, how : {"pass", "skip", "fail"}]
CallType == [pkg : Pkgs, fn : FnIds \cup {NoName}, items : SUBSET Resource,
             cfg : SUBSET Resource, listed : BOOLEAN]

(* The variables have their types, and the walk stays in the package tree.  *)
TypeOK ==
    /\ opts \in OptionType /\ bad \subseteq Pkgs
    /\ disk0 \subseteq Resource /\ disk \subseteq Resource
    /\ cond \in {"none", "True", "False"} /\ pc \in PcType
    /\ cur \in Pkgs /\ state \in [Pkgs -> StateType]
    /\ next \in [Pkgs -> Nat \ {0}]
    /\ input \in [Pkgs -> SUBSET Resource] /\ res \in [Pkgs -> SUBSET Resource]
    /\ ret \subseteq Resource
    /\ queue \in Seq(Pkgs) /\ order \in Seq(Pkgs)
    /\ inputFiles \subseteq Pkgs \X Names /\ outputFiles \subseteq Pkgs \X Names
    /\ work \subseteq Resource /\ idx \in Nat \ {0} /\ call \in CallType
    /\ mutationSteps \in Seq(StepType) /\ validationSteps \in Seq(StepType)
    /\ fnResults \in [items : Seq(FnIds), exitCode : {0, 1}]
    /\ hydErr \in BOOLEAN /\ result \in {"none", "ok", "error", "write error"}

(* Pipelines are scoped: whatever the walk and whatever other packages'     *)
(* functions did before, a function is only ever given resources of the     *)
(* package whose pipeline it is part of and of packages nested in it.       *)
ScopedVisibility ==
    \A r \in call.items \cup call.cfg : r.pkg \in Below[call.pkg]

-----------------------------------------------------------------------------
MutatorOf(id) == CHOOSE f \in UNION {Range(Mutators[p]) : p \in Pkgs} : f.id = id
Owner(id) == CHOOSE p \in Pkgs : id \in {f.id : f \in Range(Mutators[p])}
Position(id) == CHOOSE i \in DOMAIN Mutators[Owner(id)] : Mutators[Owner(id)][i].id = id

RunsBefore(g, h) ==
    IF Owner(g) = Owner(h) THEN Position(g) < Position(h)
    ELSE IF opts.bfs THEN Owner(h) \in Below[Owner(g)]
    ELSE Owner(g) \in Below[Owner(h)]

(* Every resource, in memory and on disk, has been through functions of its *)
(* own package and the packages around it only, each at most once, inner    *)
(* packages first (outer packages first with bfs-rendering) and in the      *)
(* order of the pipeline within a package.                                  *)
FunctionOrder ==
    \A r \in disk \cup UNION {res[p] : p \in Pkgs} :
        /\ \A g \in Range(r.hist) : r.pkg \in Below[Owner(g)]
        /\ \A i, j \in DOMAIN r.hist : i < j => RunsBefore(r.hist[i], r.hist[j])

Passed == {s.fn : s \in {t \in Range(mutationSteps) : t.how = "pass"}}

(* The mutator was given the resource (had it been there).                  *)
Reaches(id, r) ==
    /\ r.pkg \in Below[Owner(id)]
    /\ r.name \in MutatorOf(id).selects
    /\ MutatorOf(id).clean => Key(r) # <<Owner(id), MutatorOf(id).config>>

(* A functionConfig that comes from the resource list is never stale: it    *)
(* has been through exactly the functions that ran on it before this call.  *)
ConfigIsCurrent ==
    call.listed => \A c \in call.cfg :
        Range(c.hist) = {id \in Passed \ {call.fn} : Reaches(id, c)}

(* A successful render has applied every mutator that passed to every       *)
(* resource of the package that mutator selects, and no other: no update is *)
(* lost between packages.                                                   *)
SuccessIsComplete ==
    result = "ok" => \A r \in res[Root] :
        Key(r) \in Keys(disk0) => Range(r.hist) = {id \in Passed : Reaches(id, r)}

(* After a successful in-place render the package consists of the output of *)
(* the pipelines, nothing else: what functions deleted is pruned, in every  *)
(* subpackage, and what they left alone is still there.                     *)
SuccessIsExact == result = "ok" /\ opts.inPlace => disk = res[Root]

(* Without save-on-render-failure a render that fails changes no resource;  *)
(* a render to --output never does.                                         *)
FailureLeavesPackage == (hydErr /\ ~opts.save) \/ ~opts.inPlace => disk = disk0

(* A render that fails in a pipeline or while reading a package never       *)
(* deletes a file, whatever was dropped before the failure.                 *)
FailureDeletesNothing == hydErr => Keys(disk0) \subseteq Keys(disk)

(* Once the walk has begun, and unless writing the package fails, an        *)
(* in-place render leaves the outcome in the Rendered condition, whatever   *)
(* an earlier render recorded; a render to --output leaves it alone.        *)
ConditionTracksOutcome ==
    /\ pc = "done" /\ opts.inPlace /\ Discovered # {} /\ result # "write error"
       /\ <<Root, Kptfile>> \in Keys(disk)
       => cond = IF result = "ok" THEN "True" ELSE "False"

-----------------------------------------------------------------------------
Steps == mutationSteps \o validationSteps

(* The functions fns have a step each, one after the other, and no other.   *)
Accounted(steps, fns) ==
    \E k \in 0 .. Len(steps) :
        /\ k + Len(fns) <= Len(steps)
        /\ \A i \in DOMAIN steps :
              IF k < i /\ i <= k + Len(fns)
              THEN steps[i].fn = fns[i - k].id /\ steps[i].how # "fail"
              ELSE steps[i].fn \notin {f.id : f \in Range(fns)}

(* renderStatus is a true account: each function of a wet package has       *)
(* exactly one step, in pipeline order, none of them failed; a failed step  *)
(* is there only after an error, is unique and is the last of its kind.     *)
StepsTellOutcome ==
    /\ \A p \in Pkgs : state[p] = "Wet" =>
          Accounted(mutationSteps, Mutators[p]) /\ Accounted(validationSteps, Validators[p])
    /\ \A i, j \in DOMAIN Steps :
          Steps[i].how = "fail" =>
             /\ hydErr
             /\ Steps[j].how = "fail" => i = j
             /\ i \in {Len(mutationSteps), Len(Steps)}

(* The package hydrate was working on when it failed.                       *)
FailedIn == CHOOSE p \in Pkgs :
    /\ state[p] = "Hydrating"
    /\ \A q \in Below[p] \ {p} : state[q] # "Hydrating"

(* save-on-render-failure, when a function of the root package, of a direct *)
(* subpackage or (bfs-rendering) of any package fails: the resources as     *)
(* they were when it failed, and those of the subpackages that were done,   *)
(* are on disk.                                                             *)
SavedNearRoot ==
    /\ pc = "done" /\ result = "error" /\ hydErr /\ opts.save /\ opts.inPlace
    /\ \E s \in Range(Steps) : s.how = "fail"
    /\ opts.bfs \/ FailedIn \in {Root} \cup Range(Children[Root])
    => /\ work \subseteq disk
       /\ ~opts.bfs /\ FailedIn # Root =>
            \A p \in Range(Children[Root]) : state[p] = "Wet" => res[p] \subseteq disk

-----------------------------------------------------------------------------
(* Execute always returns.                                                  *)
Termination == <>(pc = "done")

=============================================================================
