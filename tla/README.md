# A TLA+ development of kpt

kpt fetches, updates and renders packages of Kubernetes resources and applies
them to clusters. This directory holds TLA+ modules of its core logic, the TLC
configurations that check them on small instances and TLAPS proofs for every
instance. `PROJECT.json` is the index: which definition models which lines,
which run checks which property, a mutant of the code that each property
catches, findings and hazards.

    tlc -config MCRender.cfg MCRender        # a run
    tlapm RenderProofs.tla                   # the proofs of a module

## The system

| component | state | operations | talks to |
|---|---|---|---|
| render (`pkg/lib/kptops/render_executor.go`, `pkg/fn/runtime/runner.go`) | package tree with a state per package, resource lists, input and output file sets, steps and results | `Execute`: walk (depth first, or breadth first by annotation), pipeline per package, write, prune, condition | function runtimes (a call per function), the package directory |
| git cache (`internal/gitutil`, `pkg/lib/util/fetch`) | a cache directory per upstream repository, shared by all kpt processes of a user; a broker per process with the refs and the fetched commits | create, `ls-remote`, fetch, hard reset, copy to a temporary directory | upstream repository; used by get, update, diff |
| pkg get (`pkg/lib/util/get`) | a stack of packages whose remote subpackages are to be fetched | fetch, write Kptfiles, hooks, clean up | git cache, render (deploy hooks) |
| pkg update (`pkg/lib/update`) | the Kptfile's upstream and lock, a stack of subpackages | write the new ref, fetch updated and origin, strategy per package | git cache, three-way merge |
| three-way merge (`pkg/lib/update/merge3`, `pkg/kptfile/kptfileutil`) | none (pure) | merge of trees, resources, Kptfile fields | |
| function selection (`pkg/fn/runtime/utils.go`) | none (pure) | `SelectInput`, `MergeWithInput`, ids | render |
| live inventory (`pkg/live`) | ResourceGroup object in the cluster and its file in the package | load, store, `Apply`, `ApplyWithPrune`, delete, CRD installation | cluster API, cli-utils applier |
| live init, migrate, apply, destroy, status, plan (`commands/live`, `commands/alpha/live`, `pkg/live/planner`) | ConfigMap template, Kptfile inventory, ResourceGroup file and object | read or write the package, apply the CRD, merge object lists, hand the inventory to the applier, delete the old one | live inventory |
| table printer (`pkg/printer/table`) | resource infos behind a mutex | event listener, print loop | event channel of the applier |
| fn eval (`thirdparty/cmdconfig/commands/cmdeval`, `thirdparty/kyaml/runfn`) | the package, an output, results, the Kptfile's pipeline | read, select, run, merge, write, save | function runtimes, image resolution |
| image tag resolution and function runtimes (`pkg/fn/runtime`) | images of the registry and of the machine | resolve a tag or constraint, pull, run | registry, docker, node, wasmtime |
| wasm push, pull and OCI cache (`pkg/wasm`, `pkg/oci`) | index of a tag, cache files shared by all processes, temporary files | push, load, run | registry |
| built-in functions, diff, init, cat, tree, source, sink, doc | | see `PROJECT.json` | |

### What is hard about it

* Render is sequential, but the failure of any of some twenty steps, at any
  depth of the tree, takes another path through `Execute`, and three features
  (`--output`, save-on-render-failure, bfs-rendering) change what each path has
  to leave on disk. Resources of one package are rewritten by functions of
  every package around it: which list is the current one?
* The git cache is a directory that several processes use without a lock, while
  upstream moves between any two git commands; a broker lives across fetches.
* pkg update writes before it fetches; its failure leaves a package that claims
  the version it failed to get.
* The live inventory is read, changed and replaced by concurrent appliers;
  migrate changes cluster and package in a row of separate steps.
* The table printer's goroutines share a channel whose reader may stop early.
* A resource is merged with the resource it came from, which has to be found
  again after renames, moves and deletions on both sides.
* fn eval writes the package, an output, the results and the Kptfile one after
  the other; what it saves is run much later, against a registry that changed.
* Wasm programs are downloaded into one file by several processes at once, and a
  push reads an index that others write.

### What makes each part correct

* render: functions see the resources of their own subtree only; each resource
  goes through each function once, in order, and no update is lost; a
  functionConfig is current when used; a success leaves exactly the output on
  disk; a failure leaves the package or saves what was done, deletes nothing,
  and is what the condition, the steps and the results say; it ends.
* git cache: a fetch delivers a commit its ref had during the fetch; the files
  are of the recorded commit; what is skipped as fetched is there.
* pkg get and update: the lock tells which version is there, whatever failed;
  every remote subpackage is fetched at the version it asks for; packages of the
  same upstream follow the parent's ref; edits survive unless upstream changed
  the same or the strategy gives them up.
* merge: every resource is merged with its own versions, field by field as a
  reference definition of the three-way merge says; local work stays; what nobody
  changed follows upstream.
* inventory and migrate: no object that was applied is ever in no inventory; the
  inventory the package names is the one that lists its objects; no applier's
  entries are lost by another's; a plan says what apply then does.
* table printer: the last table is the last state, the result is honest, and it
  returns once its input ends.
* fn eval: it changes exactly what it gave the function; what is saved is what
  was run; saving twice is saving once; a render never falls back to an older
  version.
* wasm: no cache file is half a download, no tag names two programs.

## Modules

| module | what it is |
|---|---|
| `Render` | one execution of `kpt fn render` |
| `MCRender` | the instance for TLC |
| `RenderProofs` | theorems about `Render`: what is left on disk, and what functions do to resources over a whole walk |
| `GitCache` | kpt processes fetching through one shared cache |
| `MCGitCache` | the instance for TLC |
| `GitCacheProofs` | theorems about `GitCache` |
| `PkgTree` | package trees, the operations on them and the update strategies, as operators |
| `PkgUpdate` | `kpt pkg get`, the user's changes and `kpt pkg update` over one package |
| `MCPkgUpdate` | the instance for TLC |
| `PkgUpdateProofs` | theorems about `PkgUpdate`, with lemmas about the operators of `PkgTree` |
| `Live` | the inventory of a package, on disk and on the cluster, and the `kpt live` commands |
| `Ledger` | what an inventory promises, whatever stores it: the abstract specification that `Live` implements |
| `MCLive` | the instance for TLC |
| `LiveProofs` | theorems about `Live`: types, the refinement of `Ledger`, the object list and its status, what commands leave and what a plan foretells |
| `TablePrinter` | the goroutines that print an apply's events, and the applier |
| `MCTablePrinter` | the instance for TLC |
| `TablePrinterProofs` | theorems about `TablePrinter` |
| `Selection`, `Images` | the list algorithms of function selection; which image a function runs as |
| `FnEval` | `kpt fn eval` with `--save`, and the renders that run what was saved |
| `MCFnEval` | the instance for TLC |
| `FnEvalProofs` | theorems about `FnEval` |
| `Merge3` | resources that are edited on both sides and merged, repeatedly |
| `MCMerge3` | the instance for TLC |
| `Merge3Proofs` | theorems about `Merge3` |
| `WasmCache` | wasm programs in a registry and in the cache directory of a machine |
| `MCWasmCache` | the instance for TLC |
| `WasmCacheProofs` | theorems about `WasmCache` |

`FnEval` extends `Selection` and `Images`; `PkgUpdate` extends `PkgTree`. `Merge3`
looks inside what `PkgUpdate` takes for a file with one value; `GitCache` is what
`PkgUpdate` takes for a fetch; `TablePrinter` prints what the applier of `Live`
does. These are separate modules because their state together is out of TLC's
reach and each speaks to the other by a result only.

### Render

A resource is the package and file it belongs to and the sequence `hist` of
functions that were applied to it: enough to say which function saw which
version. A list of resources is a set; the order inside a list, contents and
messages are left out.

`pc` is where `Execute` is, `cur` the package it works on. The recursion of
`hydrate` is unrolled: the call stack is the path from the root to `cur`,
`next[p]` the loop index in p's frame, `input[p]` its local list and `ret` the
value being returned with an error.

| code | actions |
|---|---|
| `Execute` up to the walk | `ExecuteInvalid`, `ExecuteDfs`, `ExecuteBfs` |
| `hydrate` | `HydrateSubpackage`, `HydrateSubpackageInvalid`, `HydrateUnreadable`, `HydrateRunPipeline`, `HydrateReturn`, `HydrateUnwind`, `HydrateFailed` |
| `hydrateBfsOrder` | `Discover`, `DiscoverUnreadable`, `DiscoverDone`, `BfsRunPipeline`, `BfsReturn`, `BfsDone` |
| `runPipeline`, `fnChain` | `EmptyPipeline`, `EmptyPipelineRejected`, `PipelineInvalid`, `FnChain`, `FnChainFails` |
| `runMutators`, `FunctionRunner.Filter` | `RunMutator`, `SkipMutator`, `MutatorFails`, `MutatorRejected`, `MutatorConfigRefMissing`, `MutatorsDone` |
| `runValidators` | `ValidatorNotBuilt`, `RunValidator`, `SkipValidator`, `ValidatorFails`, `ValidatorRejected`, `ValidatorsDone` |
| the rest of `Execute` | `GiveUp`, `WriteResources`, `WriteFails`, `WriteOutput`, `WriteOutputFails`, `PruneResources`, `PruneFails`, `FinishOk`, `FinishFailed`, `SaveFnResultsFails` |

What a function does is a choice: any subset of its `drops` it was given
disappears, any subset of its `gens` is generated in its own package, and the
rest gets the function appended to `hist`. Abstractions to know of:

* a function generates resources in the package it belongs to, and renames none;
* `clean` says whether a configPath is written in cleaned form: an unclean one
  is read from disk and never matches a resource's path, as in the code;
* errors that need invalid path annotations (`adjustRelPath`,
  `trackOutputFiles`) cannot occur for lists that passed the checks before, and
  are left out;
* a failing write has written nothing or all files but one (`PartialWrites`);
* files that cannot be read (`HydrateUnreadable`, `DiscoverUnreadable`) end the
  walk, whatever of the package had been recorded before, which nobody looks at
  afterwards;
* a configRef, which gives a kind and a name, stands for the one file that
  matched it when the pipeline was validated. A resource that a function
  generated since may match it too, which fails the function
  (`ConfigRefUnresolved`); one that takes the place of a deleted one is left out,
  the function then fails like one whose configRef is gone;
* a list is a set: the code gives a resource that two selectors match to the
  function twice. `SelectInput` of `Selection`, which `FnEval` uses, has this
  (`Matching`); in `Render` what a function is given and gives back is the same.

### GitCache

The cache is `dir` (absent, initialised without origin, ready), the commits in
it, the checked-out commit and its own refs; each process has the state of a
fetch and a broker. Every git command is one action, so that steps of other
processes and of upstream come between any two. `Begin` either gives the
process' broker to the next fetch, as pkg update does, or makes a new one. An
error or a crash ends the command and its broker; the cache stays as it is.

| code | actions |
|---|---|
| `cacheRepo`, creation | `Stat`, `GitInit`, `RemoteAdd` |
| `updateRefs` (from `NewGitUpstreamRepo` and from `GetRepo`) | `ListRefs`, `ListRefsFails` |
| `ClonerUsingGitExec`, package-specific tag | `PackageRef` |
| `cacheRepo`, fetching | `FetchSkipped`, `FetchOne`, `FetchAll` |
| `ClonerUsingGitExec`, reset and copy | `Reset`, `CopyFile`, `CopyFails`, `CopyDone` |
| upstream (external) | `Push`, `Tag`, `DeleteRef` |

git itself is external: `RevParse` says what a revision is in a repository, a
fetch of a name gets what the name is upstream at that moment, a full fetch
stores new tags and may get any old commits. `git init` checks out a branch,
and `git reset --hard` moves it: the cache has a name of its own. Branches and
tags are two namespaces: kpt resolves a name to the branch first (`ResolveRef`,
`BranchFirst`), `git fetch` of a bare name takes the tag first (`TagFirst`). Where
upstream has both (`Namesakes`) the fetch brings the tag's commit, and the reset to the
branch's fails although nothing moved, unless the cache has that commit already;
`ResetFailsOnlyOnMove` names this as the one other reason. Names that look like
a SHA are left out.

### PkgTree and PkgUpdate

A tree says of every directory whether it is a package, with which upstream,
lock and other content of the Kptfile, and which files it has. All directories
there can be are the constant `Order`, in the order in which kpt sorts them. A
file is one value: two versions of it differ or do not. `KrmFiles` are merged as
resources, the others as files. `Upstream(h, src, ref)` is the tree of an
upstream package; versions are fixed (moving refs are `GitCache`'s). `PkgTree`
has an operator per function of `pkg/lib/pkg` and `pkg/lib/update` that works on
directories; a strategy is an operator from the local, updated and origin tree
to the tree it leaves and whether it failed.

| code | actions |
|---|---|
| `get.Command.Run`, `fetchPackages`, `cleanUpDirAndError` | `Get`, `GetNext`, `GetDone`, `GetFails` |
| `update.Command.Run` up to the loop | `Run` |
| `updateRootPackage` up to its loop | `Fetch` |
| its loop: `updatePackage`, `mergePackage`, the strategies, `FindSubpackagesForPaths` | `Merge` |
| the lock, and the subpackages in `Run` | `Finish` |
| end of `Run`; an error of git or the disk, a kill | `Done`; `Abort` |
| the user | `EditFile`, `DeleteFile`, `AddPackage`, `DeletePackage` |

Every package that is merged is one step, so a command can end between any two;
its merges are also ended by the errors the code returns. `edited`, `pending`
and `mates` only serve the properties: the files the user touched, the updates
(a package and the upstream it is brought to) that have not gone through, the
packages that should follow. Abstractions to
know of: empty directories count as missing; merge comments, render status,
names in Kptfiles and deploy hooks are left out; a file system error inside a
merge has the effect of one before or after it; a get that is killed (rather
than failing) is not run again.

What the model shows and the properties have to leave out, next to the findings:

* beside a subpackage `s`, `WalkPackage` skips `s.yaml` and `s.txt` (`Shadows`):
  resource-merge does not see that the user changed `s.txt`, nor that it is
  upstream, and overwrites or deletes it (`Overlooked`), although the comment at
  `resource-merge.go:229` says that locally modified files are left untouched;
* a directory that upstream turns into a subpackage, or the other way round, is
  merged by one package and compared by another: what the user changed in it may
  be lost, and what nobody changed too (`Converted`, and the run
  `pkg_update_unmodified`);
* remote packages inside local ones are fetched by get and never updated
  (`Reached`);
* fast-forward and replace write over a remote package that upstream turned into
  a package of its own (`TakenOver`), and fast-forward refuses a package whose
  fetched remote subpackage contains a local package;
* copy-merge overwrites the Kptfiles, and so the locks, of nested packages
  (`Spoiled`);
* a run after an interrupted one takes the ref of the interrupted one for the
  package's old ref, so that subpackages no longer follow, and can meet packages
  that the interrupted run added ("added in both upstream and local");
* an interrupted update that is run back to the old version leaves newer content
  under the old lock (`pending`);
* an upstream package that names an upstream of its own (one that was fetched
  from a third place and published, as in `resource-merge_test.go:137`, or a
  Kptfile that only refers to another package): replace and copy-merge put that
  one into the Kptfile (`replace.go:40`, `copy-merge.go:43`), and so does
  resource-merge when the new version is not fetched itself, while the lock names
  what was merged. The package is then one step up the chain: `AtLock` allows
  that, the next update brings it to what it now follows. If an update is
  interrupted after its merge, the next one takes the third package for the new
  version and the old lock for the origin. Of a version that is not fetched
  itself an update takes the Kptfile only, so `InSync` says nothing of it.

### Live and Ledger

On disk a package names its inventory in a ConfigMap template (before kpt 1.0),
in its Kptfile or in a ResourceGroup file (`disk`). On the cluster the list of
applied objects is in a ConfigMap (`cm`) or in a ResourceGroup (`rgs`, by name
and namespace), whose CRD may be missing, created, the one of this binary or
another (`crd`); `live[o]` is the inventory id an object carries. A command is a
sequence of calls that each touch one file or one object, and none is undone:
an error return and a killed process leave the same state, so both are `Stop`,
which may come at any point.

| code | actions |
|---|---|
| `preRunE`, `runE`, `Run` of the commands | `BeginInit`, `BeginInstall`, `BeginMigrate`, `BeginApply`, `BeginDestroy`, `BeginStatus`, `BeginPlan`; `Stop` |
| `runApply`'s check, `ResourceGroupCRDMatched`, `InstallRG` and its polling | `VerifyCRD`, `InstallRG`, `PollEnds`; `Establish` (API server, external) |
| `ConfigureInventoryInfo.Run`, `createRGFile`, `writeRGFile` | `ConfigureInventoryInfo`, `WriteRGFile`, `RewriteKptfile` |
| `migrateCMToRG`, `migrateKptfileToRG` and what they call | `RetrieveConfigMap`, `MigrateKptfile`, `RetrieveInvObjs`, `DeleteConfigMapInv`, `DeleteConfigMapFile` |
| `live.Load`, the readers of directories and of stdin | `Load` |
| `InventoryResourceGroup.Apply`, `ApplyWithPrune` | `Apply`, `ApplyStatus`, `ApplyWithPrune`, `ApplyWithPruneStatus` |
| `runApply`, `runDestroy` | `Plan`, `InvSet` |
| `ClusterPlanner` of alpha live plan | `FetchResources`, `DryRunEvent`, `BuildPlan` |
| the inventory client and the tasks of the applier (cli-utils, external) | `Get`, `GetClusterObjs`, `ReplaceGet`, `ApplyObject`, `PruneSet`, `PruneObject`, `DeleteInventoryObj` |
| the user; another applier with the same inventory | `Edit`; `OtherMerge` |

`fresh` stands for the resource version that the API server compares on an
update: nobody wrote the object since this command read it. `Ledger` has two
sets, what is recorded and what is owned, and four actions: record before you
apply, forget only what is gone. The refinement mapping takes for recorded the
union of the ConfigMap and of all ResourceGroups, for owned the objects that
carry some inventory's id; `NoOrphans` is the specification of `Ledger` under it,
so it says of every step of every command, migration included, that it is a step
of the ledger or changes neither set. `planned` remembers the last plan until it
is carried out or something else happens; `PlanForetells` compares an apply with
it.

`init` gives an inventory any name, so its `--name` flag is covered. Ids that a
user chooses with `--inventory-id` and names given to `migrate --name` are left
out: the code takes them unchecked, and two packages, or a package and its
former self, may then have one inventory. What the model says of ids and of the
ResourceGroup of a migration is said of those that the commands make up.

What the model shows beside the finding:

* a migrate that fails between writing the ResourceGroup file and deleting the
  template cannot be repeated: the next one finds two inventories and refuses;
* `init --rg-file` with another name adds a second ResourceGroup, after which
  loading the package fails;
* `InstallRG` returns nil on AlreadyExists even if the CRD there is another one;
  the poll ends after its ten seconds with nil although its comment says that it
  blocks until the CRD is usable; `InvExistsError` is unreachable; migrate tests
  `err` where it means `rgFileErr`.

### TablePrinter

| code | actions |
|---|---|
| the applier (external) | the senders of `AwaitInit` and `Receive`; `Close` |
| `Printer.Print` | `AwaitInit`, `ReceiveInit`, `ClosedBeforeInit`, `RunPrintLoop`, `Listen`, `ShutDown`, `Join` |
| `resourceStateCollector.Listen` and its goroutine | `Receive`, `Report`, `ListenerEnds` |
| `runPrintLoop` | `Tick`, `SelectTick`, `SelectStop`, `PrintTable` |

The channel is unbuffered, so a send and its receive are one step. A row is the
action of a resource, the last result of each kind and the last status.
Validation events that come before the init event are dropped, as in the code.
A listener that met an error leaves the events after it unread, although the
comment in `collector.go` says that all are processed: the applier may then stay
blocked, which `PrintReturns` allows. Apply sends no delete events; destroy uses
the printer of the library.

### Selection, Images and FnEval

`pc` is how far the command is. A resource is its path, attributes and `rev`,
the evals that changed it; lists are sequences, since `SelectInput` and
`MergeWithInput` are list algorithms that go by resource id. An image is a name,
short or full, and a tag, which is a version or none.

| code | actions |
|---|---|
| `EvalFnRunner.preRunE` | `PreRun` |
| `RunFns.getNodesAndFilters`, `getFilters` | `GetNodes`, `GetFilters`, `ExcludeFnConfig` |
| `FunctionRunner.Filter`, `SelectInput`, `MergeWithInput` | `Select`, `Skip`, `Merge`, `Rejected` |
| the container and exec runtimes, by their outcomes | `ContainerRun`, `ExecRun`, `RuntimeUnavailable`, `RunFails` |
| `runFunctions`, `SaveResults`, `WriteFnOutput` | `Write`, `WriteFails`, `SaveResults`, `WriteFnOutput`, `OutputFails`, `Fail` |
| `SaveFnToKptfile`, `updateFnList` | `SaveFnToKptfile` |
| `fn sink`; a render of a saved function, with tag resolution | `Sink`; `RenderRuns` |
| the registry (external) | `Publish`, `Unpublish` |

What a function does is a choice: it drops, changes and generates (a file where
the package has none). Renders and the registry act between commands.
`Clones = FALSE` in the run: a function that copies a resource with its
`kpt-resource-id` loses the copy in `MergeWithInput`.

The check that `--fn-config` is inside the package goes by string prefix and
accepts a sibling directory (`pkg-x` beside `pkg`). `--save` then writes a
configPath that begins with `../` (`cmdeval.go:216`), which
`validateFnConfigPathSyntax` refuses (`validation.go:185`): every later render
of the package fails on its Kptfile (`ValidPipeline`, the guard of
`RenderRuns`). `SavedIsEvaluated` says that what is saved is what was evaluated,
or a Kptfile that no render takes. Others of this kind: an unclean or
symbolic path to it is not excluded from the input; output that is rejected
leaves a results file with exit code 0; arguments with a kind of their own are
saved as a ConfigMap; a short image name written by hand into the Kptfile is not
recognised as the function that is saved; `--save` with stdin writes the Kptfile
of the current directory; an empty `--fn-config` file is an index out of range
(`validation.go:229`); with pull policy Never a constraint may resolve to a tag
that is not on the machine; `checkContainerRuntimeOnce` reports its error only
the first time; the comment of `tag_resolution.go` says that listers are tried
in order, but the tags of all are merged. A command line has at most one
`--match` and one `--exclude` flag.

### Merge3

`upstream`, `original` (what was fetched last) and `local` are sets of
resources (the order, which is that of the files, matters to no property):
kind, file, name, the `kpt-merge` comment, the upstream identifier, a
field and a list of elements. `id`, which the code does not have, tells which
resources are the same; the code has to find that out (`IsSameResource`).

| code | actions and operators |
|---|---|
| somebody upstream, the user, a render | `EditUpstream`, `EditLocal`, `Render` |
| the resource merge of `resource-merge.go`, `addmergecomment.Process` | `Update`, `UpdateFails`, `Process` |
| `merge3`'s tuples and handling strategies | `Tuples`, `GetHandlingStrategy`, `MergeTuples` |
| `merge3/visitor.go` | `VisitScalar`, `VisitList`, `VisitAList`, `VisitNAList` |
| `getCrdSchemas`, `SchemasFromCrdKubeObjects`, `openapi.AddSchema` (external) | `GetCrdSchemas`, `SchemasFromCrds`, `AddSchema` |

Adding comments walks the three packages and ends silently at the first that
cannot be written (`n`); the properties distinguish merges with all comments
(`noted`) from others. A resource that is moved to another file, or renamed
before its comment is written, has lost its trace, and both versions stay; that
is how the code documents the comment, and the properties leave it out (`lost`).
A list that upstream removed goes as a whole, with what was added to it locally.
`getCrdSchemas` collects the schemas of the package's CRDs (of the local package
only: the updated resources are copied into a nil slice, which copies nothing,
`resource-merge.go:370`) and marshals them as they are (`resource-merge.go:379`).
`openapi.AddSchema` (`merge3.go:27`) takes the schemas of a document from its
`definitions`, of which this one has none, so no CRD is ever registered: a list
of a custom resource is one value, and upstream's change of one element replaces
a local change of another. Lists of the built-in kinds, whose schemas openapi has
of itself, are merged by their keys. `ThreeWay` states both.
Not in the model: a malformed `kpt-merge:` comment without a slash, which
`addUpstreamAnnotation` indexes into nothing; the comment that says the default
namespace is written where the empty one is; the merge of the Kptfile's function
list.

### WasmCache

| code | actions |
|---|---|
| `wasm push`: `PushWasm` | `PushGet`, `PushImage`, `PushIndex` |
| `LoadWasm`, `WithCacheFile` of the OCI storage | `LoadWasm`, `Fetch`, `Copy`, `Rename`, `Open` |
| `loadWasmFromTar`, the callers | `LoadWasmFromTar`, `Pull`, `Wasmtime`, `GetFilePath`, `Node` |
| a process that is killed; another tool that pushes (external) | `Kill`; `OtherPush` |

An image's digest is its number; contents are programs or tars of another shape.
A cache file is keyed by the reference as written. What the model shows beside
the properties: a push reads the index and writes it later, so a manifest that
another tool adds in between is lost; the `nodejs-` directory with the glue code
is never removed and the `oci-loader-` directory only after a successful run;
an empty tar makes `LoadWasm` return a nil reader that its caller uses; bad
content stays in the cache until somebody deletes it; pull keeps its files in
`kpt`, the runtimes in `krm-fn-wasm`.

## Runs

| run | result | what it shows |
|---|---|---|
| `render` | pass | eleven invariants and termination over all flags, layouts and failures |
| `git_cache` | pass | freshness, soundness of skipping and of the copy, under interleaving, crashes, a moving upstream and a tag with the name of a branch |
| `git_cache_shared` | violation | two processes: files of one commit, lock of another (`LockedContent`); `CopyIsCommit` is what does hold |
| `pkg_update` | pass | locks tell the truth, every remote package is fetched and follows its parent, edits are lost only where a strategy gives them up, also after failures and kills, when upstream makes a package of a directory, and when an upstream package is itself derived from another; commands end |
| `pkg_update_unmodified` | violation | a directory that upstream turned into a subpackage vanishes from a package nobody touched (`UnmodifiedInSync`: `resource-merge.go:126` takes it for deleted by the user); `InSync`, which leaves such directories out, is what does hold |
| `pkg_update_keeps` | violation | a package added inside a subpackage is deleted with it (`EditsAlwaysKept`, the comment in `resource-merge.go`); `EditsKept` is what does hold |
| `live` | pass | no object is orphaned (refinement of `Ledger`), the package names the inventory that lists its objects, a merge drops nobody's entries, the status belongs to the list, an apply does what a plan said |
| `live_namespace` | violation | migrate with another namespace in the context writes a ResourceGroup file that names an inventory nobody has (`OwnedAreTracked`, which passes in `live`, where the namespace is the same) |
| `table_printer` | pass | the last table and the result are those of the events processed; Print returns |
| `fn_eval` | pass | an eval changes exactly what it gave the function, saves what it ran (or, with a configuration in a sibling directory, a Kptfile that no render takes), saves it once; no render goes back to an older version |
| `merge3` | pass | merges go by the reference definition, keep local work and follow upstream where nobody changed anything |
| `wasm_cache` | pass | cache files are whole and were once what their reference named; an index names one program, and images that exist |

### Divergences

Other places where the code and what is written about it disagree. The models
reach them, or the code shows them, and the properties above say what does hold
instead.

* `render_executor.go:476`: with save-on-render-failure everything is lost if the
  failing package is more than one level below the root; the book
  (`04-using-functions/_index.md:175`) says progress is saved. `SavedNearRoot`
  is what holds.
* `render_executor.go:79`: a render that cannot open the root package leaves an
  old `Rendered=True`; the CLI reference (`fn/render/_index.md:111,119`) says the
  condition tells of the last render. `ConditionTracksOutcome` speaks of
  executions that opened the root.
* `render_executor.go:663`: with bfs-rendering, a function of the root that
  deletes all resources of a subpackage has no effect there, against the comment
  at line 501. In the run the root's function cannot empty a subpackage.
* `fetch.go:205`: a branch that was deleted upstream is served from the cache and
  its name is recorded as a commit; `types.go:210` says it is a SHA-1.
* `replace.go:44`: force-delete-replace loses local packages inside remote
  subpackages (CLI reference, `pkg/update/_index.md:60`).
* `update.go:452`: a remote subpackage that was updated on its own is set back by
  the parent's update (comment in `common.go:44`).
* `rgstream.go:53`: resources from stdin are applied even if annotated
  local-config (`annotations/local-config/_index.md:27`). `LocalConfig` is empty
  in the runs.
* `cmdeval.go:202`: `--tag` is applied to the function that is saved, not to the
  one that is run (CLI reference, `fn/eval/_index.md:178`). Command lines with
  `--tag` are left out of the run.
* `pkg/wasm/client.go:198`: the comment speaks of a cache per digest; the file is
  keyed by the reference, so a tag that is pushed again stays what it was on
  every machine that has it.
* `commands/alpha/live/plan/command.go:60`: plan takes `--inventory-policy` and
  never passes it on, so a plan with `adopt` says Skip where apply with `adopt`
  takes the object over (CLI reference, `alpha/live/plan/_index.md:53`).
  `PlanForetells` speaks of applies with the strict policy.
* The documented `--namespace` flag of migrate does not exist.
* `resource-merge.go:379`: the schemas of CRDs are not put under `definitions`, as
  the test of the merge does before it passes them on (`merge3_util_test.go:83`),
  so the cases of `merge3_test.go` in which lists of custom resources are
  merged by key do not happen in an update.

Also hard to test, and without a property: two processes that create a git cache
together, or a crash between `git init` and `git remote add` (both are actions
of `GitCache`, and end in an error); a package's own tag looked up in refs of an
earlier `ls-remote`; a failed migrate that is refused when repeated; a retry of
an interrupted update; exclusions by string prefix (`pkg/lib/pkg/util.go:50`,
`update.go:220`); a failing deploy hook, which leaves the destination; a
configPath that is not in cleaned form.

### Bounds

* Render: a tree of four packages, root with a and c, a with b: the least with
  a sibling, a grandchild, and a package (b) whose failure passes through two
  callers. Six functions cover every kind: exec, fetched, with configPath, with
  configRef, selecting, with a condition, deleting, generating; each field has a
  function for which it matters. Three layouts (complete, configRef resource
  missing, configPath file missing), three sets of invalid Kptfiles, all 16
  combinations of the flags that steer the walk and the write, all three former
  conditions.
* GitCache: two processes, two fetches between them (so also two by one process
  with its broker), two changes upstream, two commits, one short SHA, a branch,
  a tag of the same name and a package tag. A stale answer needs a fetch, a move and a fetch; an
  interference needs two processes; two moves make a ref come back to an old
  commit. `MaxFetches` and `MaxMoves` are the only bounds in guards. The
  processes are symmetric.
* PkgUpdate: a package R with a subpackage or plain directory s, that may be
  local, remote or vendored, with a nested directory that may be a package too:
  three levels, the least at which a remote package is inside a remote or a local
  one. Two versions; twenty-one histories say what is in s, and in its s, in each,
  among them directories that become packages, directories that vanish, and
  packages whose top names an upstream of its own, fetched (`derived`) or not
  (`alias`): chains of three packages. An
  update goes in either direction, so each history is also its reverse. Four
  files: a resource and a file that is none, and one of each whose name begins
  with the subpackage's. `MaxEdits`, `MaxRuns` and `MaxSteps` bound what follows
  the get: an edit and an update, or two updates, of which the first may have
  been interrupted. An edit followed by two updates (`MaxSteps = 3`) is beyond
  what a run of minutes can do; the invariants are about every state after every
  step, so a third command adds only states that a second one starts from.
  `PkgUpdateUnmodified.cfg` takes two updates by resource-merge and no edit.

* Live: two objects, two names, three ids, two ResourceGroup files, three
  commands: the least for a migration that is interrupted, a retry and an apply
  or destroy on what they left. The command lines are one of each behaviour that
  a flag changes, not every combination: the status of a list is written by
  migrate and by destroy in this instance, not by apply, which goes through the
  same two calls; the theorems are about every set of lines. Packages start as
  one of the three generations, with any subset of the objects applied. The
  objects are symmetric.
* TablePrinter: two resources, one applied and one pruned, three events after
  the init event: a result that is overwritten, or a failure and two more. Ticks
  are unbounded.
* FnEval: two evals (`MaxEvals`), so a save on a save and an eval on what a failed
  one left; five command lines between which every output, type, pull policy and
  kind of configuration occurs; two versions in the registry.
* Merge3: five resource ids, two names, two files, two values, two list keys; two
  upstream packages, a custom resource with the definition of its kind, and a
  built-in resource with a comment of its own; edits add resources of either
  kind and name. Four steps (`MaxSteps`), at most two updates (`MaxUpdates`): two
  edits, one on each side, and two updates, or three edits and one.
* WasmCache: two processes, one tag, two programs, two images, three loads: two
  that race and one that finds what they left. Processes and programs are
  symmetric.

### Deadlock and fairness

`Execute` ends (`done`), and so do bounded fetches,
updates and live commands: deadlock is not checked there.
`Render!Spec` has weak fairness of `Next`, because `Execute` is one goroutine
and each function call is bounded by its timeout
(`pkg/fn/runtime/container.go`, `exec.go`); `Termination` needs no more.
`GitCache!Spec` assumes no fairness: its properties are invariants.
`PkgUpdate!FairSpec` is weak fairness of the steps of a running command, which
is one goroutine and whose git commands end; the condition under which such a
step is enabled is written out (`Running`), because TLC evaluates `ENABLED` of a
merge too slowly. The user and failures are under no fairness.
`TablePrinter!Spec` is weakly fair to every goroutine and strongly fair to the
stop case of the print loop's select, because Go picks among ready cases at
random; nothing is assumed of the applier. `Live`, `FnEval`, `Merge3` and
`WasmCache` assume no fairness: their properties are invariants, action
properties and a refinement of a safety specification.

## Proofs

36 theorems, each about a property that a run checks on its instance and the
theorem states for every value of the constants. The assumptions on constants
are named `ASSUME`s that TLC evaluates in the runs. Every invariant that a proof
adds has also been checked by TLC, on the instance of its module's run.

| module | theorems | assumptions and hypotheses |
|---|---|---|
| `RenderProofs` | `TypeCorrect`, `FailureLeavesPackageHolds`, `FailureDeletesNothingHolds`, `ScopedVisibilityHolds`, `ConditionTracksOutcomeHolds`, `SuccessIsExactHolds`, `FunctionOrderHolds`, `StepsTellOutcomeHolds`, `SuccessIsCompleteHolds`, `ConfigIsCurrentHolds`, `SavedNearRootHolds` | `TreeAssumption`, `NestedAssumption`, `BelowAssumption`, `PipelineAssumption`, `IdAssumption`, `InputAssumption`; `SuccessIsComplete` and `ConfigIsCurrent`: `NothingRegenerated`, `KptfilesStay` |
| `GitCacheProofs` | `TypeCorrect`, `FreshCommitHolds`, `ResetFailsOnlyOnMoveHolds`, `SkipIsSoundHolds`, `CopyIsCommitHolds` | `RefAssumption` |
| `PkgUpdateProofs` | `AllFetchedHolds`, `TogetherHolds`, `EditsKeptHolds` | `TreeAssumption`, `NoneAssumption`, `UpdateAssumption`; `VendoredTruly`; the last also `EditsAreOwn` |
| `Merge3Proofs` | `ThreeWayHolds`, `LocalWorkKeptHolds`, `UnmodifiedFollowsHolds` | `Merge3Assumption` |
| `LiveProofs` | `TypeCorrect`, `NoOrphansHolds`, `MergeKeepsHolds`, `StatusFollowsListHolds`, `PlanForetellsHolds`, `OwnedAreTrackedHolds` | `RGFiles` finite and not empty; `NoRGAssumption`; the last: `FoundNamespaces \subseteq {KptfileInv.ns}` |
| `TablePrinterProofs` | `HonestResultHolds`, `FinalTableHolds` | `NoRowAssumption`; the latter: every plan applies or prunes each resource it announces |
| `FnEvalProofs` | `NeverOlderHolds`, `SavedIsEvaluatedHolds`, `SaveReplacesHolds`, `EvalIsExactHolds` | `FnEvalAssumption`, `ImagesAssumption`, `SelectionAssumption`; the first: `OneConstraint`; the second: `PlainLines`; the last: `Clones = FALSE` |
| `WasmCacheProofs` | `CacheIsWholeHolds`, `IndexSoundHolds` | tags and digests are different references |

The hypotheses are about what is outside the program, and each is what the
property needs:

* `NothingRegenerated`: a function generates files that the package did not have.
  One that deletes a resource and generates another under its name has made a new
  resource, which rightly has not been through the functions before it.
* `KptfilesStay`: with bfs-rendering, a function of one package does not delete
  the Kptfile of another; `fnChain` gives the resources of a package whose
  Kptfile is not in the list to nobody, and what functions did to them is lost
  (the divergence at `render_executor.go:663`).
* `VendoredTruly`: a package that upstream has committed with a lock has the lock
  of the version it asks for, or of one that names what it asks for; it was not
  committed in the middle of an update. A get takes such a package as fetched
  without looking further.
* `EditsAreOwn`: what the user writes is nowhere upstream, so that it can be told
  from what is fetched and merged.
* `Clones = FALSE`, `OneConstraint`, `PlainLines` and `FoundNamespaces` leave out
  what is described with their modules and under Divergences.

### Render

* `TypeCorrect` has a lemma per group of actions. The work is in the walk: the
  subpackage opened next is in the tree, the function the pipeline is at exists.
* `FailureLeavesPackageHolds`, `FailureDeletesNothingHolds`: from `DiskInv`.
  Neither property is inductive: that the tail finds the directory untouched is
  the invariant's first conjunct, and that pruning is reached without an error
  only, and saving only with the annotation, the second and third.
* `ScopedVisibilityHolds`: from `TypeOK` and `ScopeInv`, which says of every
  list (each package's resources and input, the pipeline's work, the value an
  error carries upwards) that it is in the scope of its package. The argument
  goes through the tree: a list moves to a parent, whose scope is larger
  (`ScopeOfParent`), or is handed out to the packages its members belong to
  (`ScopeOfPropagate`).
* `ConditionTracksOutcomeHolds`: from `CondInv`; before the tail `Execute` only
  returns when the root is invalid and nothing is discovered, and each return in
  the tail passes through `updateRenderStatus` or fails to write.
* `SuccessIsExactHolds`: a prune removes what was read and not written, so it
  leaves the output and nothing else only if every file was read. `WalkInv` says
  why it was. Depth first, the packages being hydrated are a path from the root
  to `cur` (`PathInv`: each has at most one such subpackage, `cur` none), a
  package's loop has entered every subpackage it passed, and a wet package's
  loop is over; when `hydrate` is back at the root nothing else is being
  hydrated (`PathEndsAtRoot`), so the discovered packages are closed under
  subpackages and are all packages. Breadth first, what is missing is in the
  queue (`QueueInv`). Both end with `NestedAssumption`: there are no packages but
  the root, its subpackages, theirs and so on. `ExactInv` follows the directory
  through write and prune.
* The second part is about `hist`. `NestInv` and `LevelInv` say which packages
  have had their turn: depth first all that are nested in a package that is wet,
  breadth first a set that is closed under parents (a package is queued after its
  parent). `FunctionOrderHolds`: with that, `HistInv` says that what is in
  the history of a resource that a pipeline works on belongs to this pipeline, up
  to where it is, or to packages whose turn is over; a function that is appended
  comes after all of them.
* `StepsTellOutcomeHolds`: the steps of the package at work are the last ones
  recorded (`CurEnding`), those of the wet packages are complete (`WetAccounted`),
  the others have none (`OthersNone`); a failed step is the last of its kind, and
  there is one only after an error (`FailInv`). The account
  says where in the list the steps are, which a step of the render extends.
* `SuccessIsCompleteHolds`, `ConfigIsCurrentHolds`: `ExactHist(r)` says that r has
  been through exactly the mutators that have passed and reach it. It does not
  hold of every list all the time: depth first, the list of a package on the path
  to `cur` is exact and that of `cur` is replaced when its turn comes (`DfsExact`);
  breadth first, the packages nested in `cur` are behind while `cur` is at work,
  and become exact when its output is handed out (`BfsExact`), for which every one
  of them has to have its Kptfile in the list.
* `SavedNearRootHolds`: a package that is being hydrated has gathered its own
  files and the output of its subpackages that are done (`GatherInv`), so what an
  error carries to the root from one level below is all there is (`SavedInv`);
  from two levels below it is not, which is the divergence at
  `render_executor.go:476`.

### GitCache

* All rest on `Inv`, the type invariant and a `ProcInv(p)` per process. None of
  the four is inductive: what a broker skips is in the cache *except* for the
  ref it has just fetched, between the fetch and the reset (`SkipInv`), and it
  stays sound because a reset that finds the commit missing ends the command
  and its broker; a fetch gets what `ls-remote` listed unless upstream moved in
  between (`FreshFetch`, `MoveInv`, `SeenInv`); what is copied is a commit that
  some process checked out (`CopyInv`).
* Interference is one argument for all: a step of another process leaves this
  process' variables alone and only adds to the cache (`Others`, `OthersCache`,
  `Grows`), and every part of `ProcInv` is monotone in the cache.

### Live

* `NoOrphansHolds` is the refinement of `Ledger`: initial states map to initial
  states and every step to a step or a stutter. `IndInv` says which calls of a
  command are still to come in each `pc` (`OpInv`, `InvInv`), what the version
  it has read guarantees as long as nobody wrote (`ReadInv`), that a migration
  has copied the list before it deletes the old one (`MigrateInv`), and that what
  is applied is listed by the inventory whose id it carries (`ListedInv`,
  `OwnedInv`). A delete of an inventory object is the step that needs all of it.
* `MergeKeepsHolds` and `StatusFollowsListHolds` use `ReadInv`: a write is refused
  unless the object is what was read.
* `PlanForetellsHolds`: `PlanInv` ties a plan to the state it was made in:
  `planned` is forgotten when anything changes, otherwise what the applier reads,
  prunes and skips is what the dry run saw.
* `OwnedAreTrackedHolds`: `TrackInv` says that the names on disk are those of one
  inventory per id, through template, Kptfile and ResourceGroup file. Its
  hypothesis is exactly what the run `live_namespace` violates.

### PkgUpdate

`AllFetchedHolds` says that no remote package is missed, by get or by update,
whatever was interrupted before and whatever upstream packages name as their own
upstream.

* The lemmas are about `PkgTree`: a strategy makes a tree of trees, and the
  package that is updated follows what it did or what the version it was brought
  to names (`FollowIn`, `Followed`; the latter with an upstream that is itself
  derived from another). Everything below it may be anything afterwards; that is
  what the invariant has to live with.
* `IndInv` is weaker than `AllFetched` where a command is at work: it claims
  nothing below a package with an unfinished update (`Settled`). `StackInv` makes
  up for it: the packages on the stack are remote, each is known to be unfinished,
  and none is inside another. So a merge, which changes everything below its
  package, disturbs nothing that is claimed, and when the package is finished the
  remote packages just below it are put on the stack: every remote package below
  is one of them, and unclaimed, or inside one of them, or inside a local package,
  where an update does not come (`Reached`). That each package below is in one of
  those just below is a lemma about `DirectSubpackages`.
* `GetInv` is the same for get, with the packages on the stack in the place of
  unfinished updates.
* `ForEach` and `Only` are recursive functions over a list. Their value at n is
  obtained for every n from the one before by well-founded induction on a set
  (`NatFrom`, `Iterated`), for which no theorem with an operator parameter is
  needed.

`TogetherHolds`: what the package's old ref was is only known while the command
runs, so this is about a run that goes on.

* `Work` is what the command still has to do, all of it inside the package
  (`WorkInv`). A remote package that it has come by is at its lock (`BehindInv`).
* A package that had the old ref is in one of four cases (`MatesInv`): upstream
  pinned it elsewhere, a directory above it became local, it is at or on its way
  to the new ref (`AtNewRef`), or it still asks for the old ref and lies in a package
  that is to be done (`Coming`). `Finish` is where the last case becomes the third:
  remote packages just below are given the new ref. A merge may set a package
  back to what upstream asks for there; then upstream's Kptfile at that place has
  the new ref, or the old one (the last case), or a third one (the first case).
* When nothing is left the last case is empty, and the others are what `Together`
  says.

`EditsKeptHolds` is about single steps, and most of it about the operators.

* `Excused` are the reasons for which a merge of three trees may lose a file, with
  a lemma per strategy; fast-forward and resource-merge compare first, replace and
  copy-merge give up (`GivesUp`) what `GivenUp` names.
* resource-merge works on packages top down, each with the tree that the ones
  before it left. Because parents come first, the packages that are in a package
  when its turn comes were in it from the start (`Fresh`), so what a merge leaves
  out of its comparison is known from the tree the update began with
  (`ResourceMergeLeaves`). A reason to lose a file is stated with paths relative
  to the package; `SeenBelow` and `ExcusedIs` make it one about the whole tree.
* `EditsAreOwn` comes in through `UnwrittenInv`: a get has nothing of the user's
  to lose.

### Merge3

* kpt recognises a resource by its kind, its file and its name or comment
  (`IsSameResource`); the model has an `id`. `Inv` says that the two agree: a
  resource that nobody has moved is once in each of the three packages (`Unique`),
  the same in every two of them (`Together`), and keeps its comment once it has
  been renamed (`Commented`). It holds through edits on both sides, renders,
  updates and updates that fail, with any number of comments written.
* A merge is then a function of three packages of this kind: tuples are formed by
  key, and each tuple has the versions of one resource (`Comes`, `Told`). What it
  says of the last merge is `LastInv`, and the three theorems are about its
  result.

### TablePrinter, FnEval, WasmCache

* `TablePrinter`: `ResultInv` and `CountInv` tie the count of failures to the
  events seen, `PhaseInv` the two goroutines and the stop signal to each other,
  `ShowInv` each row to the last event about it. An announced resource that is
  neither applied nor pruned has a row without an action, hence the hypothesis.
* `FnEval`: the version that ran is on the machine, so the container runtime
  lists it, and the largest matching version is no older (`RenderedInv`,
  `LatestListed`). Two functions with constraints of their own are not comparable
  (`OneConstraint`). The saved image is the one that ran because resolving a
  resolved name changes nothing (`RanInv`); `--tag` and arguments of another kind
  are the divergences that `PlainLines` leaves out.
* `EvalIsExactHolds`: a list of the package is its files in some order, each once
  (`Lists`), and ids are what tells two resources apart after the function had
  them (`IdsOnce`, `Answered`). `SelectInput` and `MergeWithInput` are then about
  members instead of positions: `Only`, `FlattenSeq` and what is written
  to the package are described by what they contain, by well-founded
  induction over prefixes of the list.
* `WasmCache`: what a process copies, and what lies in a temporary file, was
  served for its reference; a rename is the only way into the cache; a push adds
  an image before it names it, and an index that is written has lost the program
  it had.

### What proving changed

* `ExpectedItems`, the reference definition of a merged list, merged a list that
  upstream removed element by element; the code drops it as a whole.
* FnEval's functions could generate a second resource for a file of the package,
  which the run never did: `EvalIsExact` was false of it.
* `CASE`s with arms that could hold together (`MergeResource`, the actions of a
  plan) say their order now.
* `StepsTellOutcome` and the lists of `FnEval`, `PkgTree` and `Merge3` are stated
  with positions, `Only` or sets instead of `SelectSeq` and folds.
* On the way to a proof of `InSync`, `Together` and `EditsKept` the instance
  turned out to have no plain directories upstream, in which these three were
  false: they have been restated (`InConverted`, `Overlooked`, `Reached`), the
  instance has directories now, and what they leave out is described above.
* `AllFetched` was first proved for upstream packages that name no upstream of
  their own. Without that hypothesis it is false as it stood, with replace and
  copy-merge: `AtLock` says what is true, and the instance has such packages.
* `TreeAssumption` says of `Order` that parents come first and that every
  directory above one is in it, which the proof of `EditsKept` uses.

### Model-checked only

* Liveness (`Termination`, `Terminates`, `PrintReturns`), which needs fairness and
  `ENABLED`.
* `InSync` of PkgUpdate: what the four strategies leave of the contents of nested
  packages, with the ways in which the code is known to lose some. Beyond the run,
  an instance with directories three deep, all strategies, two edits and three
  updates was simulated at random.

## Not modelled

`PROJECT.json` lists every component with the reason. Contents of resources,
command line handling, printing, registries and the applier of cli-utils are
out; function runtimes are their outcomes. pkg diff, init, cat,
tree, fn source and doc read and write without state of their own; the CEL
environment and the built-in functions transform contents. Of modelled
components the deploy hooks of get, the function list of a Kptfile in a merge and
the timeout of a container (which starts from a background context, so that
cancelling the command does not stop it) are left out.

## Plan

1. Render: model, runs, first theorems (done).
2. GitCache: model, runs, theorems (done).
3. PkgTree and PkgUpdate, Merge3, Selection: models and runs (done).
4. Live and Ledger, TablePrinter, FnEval, WasmCache: models and runs (done).
5. Proofs for WasmCache, Live and Ledger, TablePrinter, FnEval, Merge3, all of
   Render's safety properties, and `AllFetched`, `Together` and `EditsKept` of
   PkgUpdate (done). Next: `InSync` for one strategy at a time.
6. Deploy hooks and a get that is killed; an abstract specification for
   PkgUpdate, in which a package is at a version or between two.
