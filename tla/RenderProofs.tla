---------------------------- MODULE RenderProofs ----------------------------
(***************************************************************************)
(* Proofs about Render, for every package tree, every set of pipelines and *)
(* every behaviour of the functions in them.  The first part is about what *)
(* a run leaves on disk; the second, from "The package tree" on, is about  *)
(* what functions do to resources over a whole walk: in which order they   *)
(* reach a resource, that none is left out, and that the account of the    *)
(* run and the package saved after a failure are true.                     *)
(***************************************************************************)
EXTENDS Render, TLAPS

(* The elements of a sequence over S are in S.                              *)
LEMMA RangeType ==
  ASSUME NEW S, NEW s \in Seq(S)
  PROVE  Range(s) \subseteq S
  <1>1. DOMAIN s = 1 .. Len(s) /\ \A i \in 1 .. Len(s) : s[i] \in S
    OBVIOUS
  <1> QED BY <1>1 DEF Range

(* Taking the first node off a queue keeps its type.                        *)
LEMMA HeadTailType ==
  ASSUME NEW S, NEW s \in Seq(S), s # <<>>
  PROVE  Head(s) \in S /\ Tail(s) \in Seq(S)
  OBVIOUS

(* Appending keeps the type of a sequence.                                  *)
LEMMA AppendType ==
  ASSUME NEW S, NEW s \in Seq(S), NEW x \in S
  PROVE  Append(s, x) \in Seq(S)
  OBVIOUS

(* Updating one argument keeps the type of a function.                      *)
LEMMA UpdateType ==
  ASSUME NEW A, NEW B, NEW f \in [A -> B], NEW x, NEW v \in B
  PROVE  [f EXCEPT ![x] = v] \in [A -> B]
  OBVIOUS

(* Concatenating keeps the type of a sequence.                              *)
LEMMA ConcatType ==
  ASSUME NEW S, NEW s \in Seq(S), NEW t \in Seq(S)
  PROVE  s \o t \in Seq(S)
  OBVIOUS

(* The keys of resources are pairs of a package and a file name.            *)
LEMMA KeysType == \A S \in SUBSET Resource : Keys(S) \subseteq Pkgs \X Names
  BY DEF Keys, Key, Resource

(* What a package reads from disk are resources.                            *)
LEMMA LocalType ==
  ASSUME disk \subseteq Resource, NEW p \in Pkgs
  PROVE  /\ LocalResources(p) \subseteq Resource
         /\ Keys(LocalResources(p)) \subseteq Pkgs \X Names
  BY KeysType DEF LocalResources

(* A direct subpackage is a package of the tree.                            *)
LEMMA ChildType ==
  ASSUME NEW p \in Pkgs, NEW i \in Nat \ {0}, i <= Len(Children[p])
  PROVE  Children[p][i] \in Pkgs
  BY TreeAssumption

(* So is the one hydrate opens next.                                        *)
LEMMA NextChildType ==
  ASSUME TypeOK, ~SubpackagesDone
  PROVE  Children[cur][next[cur]] \in Pkgs
  <1>1. cur \in Pkgs /\ next[cur] \in Nat \ {0}
    BY DEF TypeOK
  <1>2. Len(Children[cur]) \in Nat
    BY <1>1, TreeAssumption
  <1>3. next[cur] <= Len(Children[cur])
    BY <1>1, <1>2 DEF SubpackagesDone
  <1> QED BY <1>1, <1>3, ChildType

(* The mutator the pipeline is at is a function.                            *)
LEMMA MutatorType ==
  ASSUME TypeOK, AtMutator
  PROVE  Mutator \in FunctionType
  <1>1. Mutators[cur] \in Seq(FunctionType) /\ idx \in Nat \ {0} /\ idx <= Len(Mutators[cur])
    BY PipelineAssumption DEF TypeOK, AtMutator
  <1> QED BY <1>1 DEF Mutator

(* So is the validator.                                                     *)
LEMMA ValidatorType ==
  ASSUME TypeOK, AtValidator
  PROVE  Validator \in FunctionType
  <1>1. Validators[cur] \in Seq(FunctionType) /\ idx \in Nat \ {0} /\ idx <= Len(Validators[cur])
    BY PipelineAssumption DEF TypeOK, AtValidator
  <1> QED BY <1>1 DEF Validator

(* A call of a function has its type.                                       *)
LEMMA CallTypeOK ==
  ASSUME TypeOK, NEW f \in FunctionType
  PROVE  Call(f) \in CallType
  <1>1. SelectInput(f) \subseteq Resource
    BY DEF SelectInput, TypeOK
  <1>2. FunctionConfig(f) \subseteq Resource
    BY DEF FunctionConfig, ResolveConfigRef, FnConfigNode, TypeOK
  <1>3. f.id \in FnIds /\ cur \in Pkgs
    BY DEF FunctionType, TypeOK
  <1> QED BY <1>1, <1>2, <1>3 DEF Call, CallType

(* aggregateRootResources keeps the type of the lists.                      *)
LEMMA AggregateType ==
  ASSUME order \in Seq(Pkgs), NEW rs \in [Pkgs -> SUBSET Resource]
  PROVE  Aggregate(rs) \in [Pkgs -> SUBSET Resource]
  <1>1. Range(order) \subseteq Pkgs
    BY RangeType
  <1>2. UNION {rs[q] : q \in Range(order)} \subseteq Resource
    BY <1>1
  <1> QED BY <1>2 DEF Aggregate

(* propagateResourcesAcrossNodes keeps the type of the lists.               *)
LEMMA PropagateType ==
  ASSUME TypeOK, NEW p \in Pkgs, NEW out \in SUBSET Resource
  PROVE  Propagate(p, out) \in [Pkgs -> SUBSET Resource]
  BY DEF Propagate, TypeOK

(* So does the walk's handling of a failed pipeline.                        *)
LEMMA PipelineFailsType ==
  ASSUME TypeOK, NEW out \in SUBSET Resource, PipelineFails(out)
  PROVE  /\ opts' \in OptionType /\ bad' \subseteq Pkgs
         /\ disk0' \subseteq Resource /\ disk' \subseteq Resource
         /\ cond' \in {"none", "True", "False"} /\ pc' \in PcType
         /\ cur' \in Pkgs /\ state' \in [Pkgs -> StateType]
         /\ next' \in [Pkgs -> Nat \ {0}]
         /\ input' \in [Pkgs -> SUBSET Resource] /\ res' \in [Pkgs -> SUBSET Resource]
         /\ ret' \subseteq Resource
         /\ queue' \in Seq(Pkgs) /\ order' \in Seq(Pkgs)
         /\ inputFiles' \subseteq Pkgs \X Names /\ outputFiles' \subseteq Pkgs \X Names
         /\ hydErr' \in BOOLEAN /\ result' \in {"none", "ok", "error", "write error"}
  <1>1. Kept(out) \subseteq Resource
    BY DEF Kept, TypeOK
  <1>2. Propagate(cur, Kept(out)) \in [Pkgs -> SUBSET Resource]
    BY <1>1, PropagateType DEF TypeOK
  <1>3. Aggregate(Propagate(cur, Kept(out))) \in [Pkgs -> SUBSET Resource]
    BY <1>2, AggregateType DEF TypeOK
  <1>4. res' \in [Pkgs -> SUBSET Resource] /\ ret' \subseteq Resource /\ pc' \in PcType
    BY <1>1, <1>3, ZenonT(30) DEF PipelineFails, TypeOK, PcType
  <1> QED BY <1>4 DEF PipelineFails, TypeOK, given, onDisk, visit

(* Initial states have their types.                                         *)
LEMMA InitType == Init => TypeOK
  <1> SUFFICES ASSUME Init PROVE TypeOK
    OBVIOUS
  <1>1. disk0 \subseteq Resource
    <2>1. PICK L \in Layouts :
             disk0 = {[pkg |-> k[1], name |-> k[2], hist |-> <<>>] : k \in L}
      BY DEF Init
    <2>2. L \subseteq Pkgs \X Names /\ <<>> \in Seq(FnIds)
      BY <2>1, InputAssumption
    <2>3. \A k \in L : [pkg |-> k[1], name |-> k[2], hist |-> <<>>] \in Resource
      BY <2>2 DEF Resource
    <2> QED BY <2>1, <2>3
  <1>2. call \in CallType
    BY TreeAssumption DEF Init, NoCall, CallType
  <1>3. opts \in OptionType /\ bad \subseteq Pkgs
    BY InputAssumption DEF Init
  <1>4. cur \in Pkgs
    BY TreeAssumption DEF Init
  <1>5. mutationSteps \in Seq(StepType) /\ validationSteps \in Seq(StepType)
        /\ queue \in Seq(Pkgs) /\ order \in Seq(Pkgs)
    BY DEF Init
  <1>6. fnResults \in [items : Seq(FnIds), exitCode : {0, 1}]
    BY DEF Init
  <1>7. /\ state \in [Pkgs -> StateType] /\ next \in [Pkgs -> Nat \ {0}]
        /\ input \in [Pkgs -> SUBSET Resource] /\ res \in [Pkgs -> SUBSET Resource]
    BY DEF Init, StateType
  <1> QED BY <1>1, <1>2, <1>3, <1>4, <1>5, <1>6, <1>7 DEF Init, TypeOK, PcType

(* hydrate's prologue keeps the types of what it assigns.                   *)
LEMMA HydrateEnterType ==
  ASSUME TypeOK, NEW p \in Pkgs, HydrateEnter(p)
  PROVE  /\ cur' \in Pkgs /\ state' \in [Pkgs -> StateType]
         /\ input' \in [Pkgs -> SUBSET Resource]
         /\ inputFiles' \subseteq Pkgs \X Names
  <1>1. disk \subseteq Resource /\ inputFiles \subseteq Pkgs \X Names
    BY DEF TypeOK
  <1>2. inputFiles' \subseteq Pkgs \X Names /\ LocalResources(p) \subseteq Resource
    BY <1>1, LocalType DEF HydrateEnter, TrackInputFiles
  <1> QED BY <1>2 DEF HydrateEnter, TypeOK, StateType

(* The start of Execute keeps the types.                                    *)
LEMMA StartType ==
  ASSUME TypeOK, ExecuteInvalid \/ ExecuteDfs \/ ExecuteBfs
  PROVE  TypeOK'
  <1>1. CASE ExecuteInvalid
    BY <1>1 DEF ExecuteInvalid, TypeOK, PcType, given, onDisk, walk, visit, pipe, report, outcome
  <1>2. CASE ExecuteDfs
    <2>1. /\ cur' \in Pkgs /\ state' \in [Pkgs -> StateType]
          /\ input' \in [Pkgs -> SUBSET Resource]
          /\ inputFiles' \subseteq Pkgs \X Names
      BY <1>2, HydrateEnterType, TreeAssumption DEF ExecuteDfs
    <2> QED BY <1>2, <2>1
        DEF ExecuteDfs, TypeOK, PcType, given, onDisk, visit, pipe, report, outcome
  <1>3. CASE ExecuteBfs
    <2>1. queue' \in Seq(Pkgs) /\ pc' \in PcType
      BY <1>3, TreeAssumption DEF ExecuteBfs, PcType
    <2> QED BY <1>3, <2>1 DEF ExecuteBfs, TypeOK, given, onDisk, walk, pipe, report, outcome
  <1> QED BY <1>1, <1>2, <1>3

(* Every step of hydrate keeps the types.                                   *)
LEMMA DfsType ==
  ASSUME TypeOK, DfsStep
  PROVE  TypeOK'
  <1>1. CASE HydrateSubpackage
    <2>1. Children[cur][next[cur]] \in Pkgs
      BY <1>1, NextChildType DEF HydrateSubpackage
    <2>2. /\ cur' \in Pkgs /\ state' \in [Pkgs -> StateType]
          /\ input' \in [Pkgs -> SUBSET Resource]
          /\ inputFiles' \subseteq Pkgs \X Names
      BY <1>1, <2>1, HydrateEnterType DEF HydrateSubpackage
    <2>3. next' \in [Pkgs -> Nat \ {0}]
      <3>1. next \in [Pkgs -> Nat \ {0}] /\ cur \in Pkgs
        BY DEF TypeOK
      <3>2. next' = [next EXCEPT ![cur] = next[cur] + 1]
        BY <1>1 DEF HydrateSubpackage
      <3> QED BY <3>1, <3>2
    <2> QED BY <1>1, <2>2, <2>3
        DEF HydrateSubpackage, TypeOK, given, onDisk, visit, pipe, report, outcome
  <1>2. CASE HydrateSubpackageInvalid \/ HydrateUnreadable
    BY <1>2 DEF HydrateSubpackageInvalid, HydrateUnreadable, TypeOK, PcType, given, onDisk,
       visit, pipe, report
  <1>3. CASE HydrateRunPipeline
    BY <1>3 DEF HydrateRunPipeline, TypeOK, PcType, given, onDisk, walk, visit, report, outcome
  <1>4. CASE HydrateReturn
    <2>0. /\ cur \in Pkgs /\ Parent[cur] \in Pkgs /\ work \subseteq Resource
          /\ input \in [Pkgs -> SUBSET Resource] /\ res \in [Pkgs -> SUBSET Resource]
      BY TreeAssumption DEF TypeOK
    <2>1. cur' \in Pkgs /\ pc' \in PcType
      BY <1>4, <2>0 DEF HydrateReturn, PcType
    <2>2. input' \in [Pkgs -> SUBSET Resource] /\ res' \in [Pkgs -> SUBSET Resource]
      BY <1>4, <2>0 DEF HydrateReturn
    <2>3. state' \in [Pkgs -> StateType]
      BY <1>4 DEF HydrateReturn, TypeOK, StateType
    <2> QED BY <1>4, <2>1, <2>2, <2>3
        DEF HydrateReturn, TypeOK, given, onDisk, visit, pipe, report, outcome
  <1>5. CASE HydrateUnwind
    <2>0. /\ cur \in Pkgs /\ Parent[cur] \in Pkgs /\ ret \subseteq Resource
          /\ input \in [Pkgs -> SUBSET Resource] /\ res \in [Pkgs -> SUBSET Resource]
      BY TreeAssumption DEF TypeOK
    <2>1. cur' \in Pkgs
      BY <1>5, <2>0 DEF HydrateUnwind
    <2>2. input' \in [Pkgs -> SUBSET Resource] /\ res' \in [Pkgs -> SUBSET Resource]
      BY <1>5, <2>0 DEF HydrateUnwind
    <2> QED BY <1>5, <2>1, <2>2
        DEF HydrateUnwind, TypeOK, given, onDisk, visit, pipe, report, outcome
  <1>6. CASE HydrateFailed
    BY <1>6 DEF HydrateFailed, TypeOK, PcType, given, onDisk, walk, visit, pipe, report, outcome
  <1> QED BY <1>1, <1>2, <1>3, <1>4, <1>5, <1>6 DEF DfsStep

(* Every step of hydrateBfsOrder keeps the types.                           *)
LEMMA BfsType ==
  ASSUME TypeOK, BfsStep
  PROVE  TypeOK'
  <1>1. CASE Discover
    <2> DEFINE p == Head(queue)
    <2>0. queue \in Seq(Pkgs) /\ queue # <<>>
      BY <1>1 DEF Discover, TypeOK
    <2>1. p \in Pkgs /\ Tail(queue) \in Seq(Pkgs) /\ Children[p] \in Seq(Pkgs)
      BY <2>0, HeadTailType, TreeAssumption
    <2>2. /\ LocalResources(p) \subseteq Resource
          /\ Keys(LocalResources(p)) \subseteq Pkgs \X Names
      BY <2>1, LocalType DEF TypeOK
    <2>3. queue' \in Seq(Pkgs) /\ order' \in Seq(Pkgs)
      <3>1. Tail(queue) \o Children[p] \in Seq(Pkgs)
        BY <2>1, ConcatType
      <3>2. order' = Append(order, p) /\ queue' \in {Tail(queue) \o Children[p], Tail(queue)}
        BY <1>1 DEF Discover, QueueAfter
      <3>3. Append(order, p) \in Seq(Pkgs)
        BY <2>1, AppendType DEF TypeOK
      <3> QED BY <2>1, <3>1, <3>2, <3>3
    <2>4. inputFiles' \subseteq Pkgs \X Names /\ res' \in [Pkgs -> SUBSET Resource]
      BY <1>1, <2>1, <2>2 DEF Discover, TrackInputFiles, TypeOK
    <2>5. pc' \in PcType /\ hydErr' \in BOOLEAN /\ state' \in [Pkgs -> StateType]
      BY <1>1 DEF Discover, TypeOK, PcType, StateType
    <2> QED BY <1>1, <2>3, <2>4, <2>5 DEF Discover, TypeOK, given, onDisk, pipe, report
  <1>2. CASE DiscoverDone
    BY <1>2 DEF DiscoverDone, TypeOK, PcType, given, onDisk, walk, visit, pipe, report, outcome
  <1>3. CASE BfsRunPipeline
    <2>1. Head(queue) \in Pkgs /\ Tail(queue) \in Seq(Pkgs)
      BY <1>3, HeadTailType DEF BfsRunPipeline, TypeOK
    <2>2. BfsInput(Head(queue)) \subseteq Resource
      <3>1. \A q \in Pkgs : res[q] \subseteq Resource
        BY DEF TypeOK
      <3>2. Below[Head(queue)] \subseteq Pkgs
        BY <2>1, TreeAssumption
      <3> QED BY <3>1, <3>2 DEF BfsInput
    <2> QED BY <1>3, <2>1, <2>2
        DEF BfsRunPipeline, TypeOK, PcType, StateType, given, onDisk, report, outcome
  <1>4. CASE BfsReturn
    <2>1. Propagate(cur, work) \in [Pkgs -> SUBSET Resource]
      BY PropagateType DEF TypeOK
    <2> QED BY <1>4, <2>1
        DEF BfsReturn, TypeOK, PcType, StateType, given, onDisk, visit, pipe, report, outcome
  <1>5. CASE BfsDone
    <2>1. Aggregate(res) \in [Pkgs -> SUBSET Resource]
      BY AggregateType DEF TypeOK
    <2> QED BY <1>5, <2>1
        DEF BfsDone, TypeOK, PcType, given, onDisk, visit, pipe, report, outcome
  <1>6. CASE DiscoverUnreadable
    BY <1>6 DEF DiscoverUnreadable, TypeOK, PcType, given, onDisk, walk, visit, pipe, report
  <1> QED BY <1>1, <1>2, <1>3, <1>4, <1>5, <1>6 DEF BfsStep

(* Appending steps and result items keeps the types of the report.          *)
LEMMA ReportType ==
  ASSUME TypeOK, NEW f \in FunctionType, NEW how \in {"pass", "skip", "fail"}
  PROVE  /\ Append(mutationSteps, Step(f, how)) \in Seq(StepType)
         /\ Append(validationSteps, Step(f, how)) \in Seq(StepType)
         /\ WithItem(f) \in [items : Seq(FnIds), exitCode : {0, 1}]
         /\ WithFailedItem(f) \in [items : Seq(FnIds), exitCode : {0, 1}]
  <1>1. f.id \in FnIds
    BY DEF FunctionType
  <1>2. Step(f, how) \in StepType
    BY <1>1 DEF Step, StepType
  <1>3. /\ mutationSteps \in Seq(StepType) /\ validationSteps \in Seq(StepType)
        /\ fnResults \in [items : Seq(FnIds), exitCode : {0, 1}]
    BY DEF TypeOK
  <1>4. WithItem(f) \in [items : Seq(FnIds), exitCode : {0, 1}]
    <2>1. Append(fnResults.items, f.id) \in Seq(FnIds)
      BY <1>1, <1>3, AppendType
    <2> QED BY <1>3, <2>1 DEF WithItem
  <1>5. WithFailedItem(f) \in [items : Seq(FnIds), exitCode : {0, 1}]
    BY <1>4 DEF WithFailedItem
  <1> QED BY <1>2, <1>3, <1>4, <1>5, AppendType

(* A pipeline step that leaves the walk alone keeps the types.              *)
LEMMA InPipelineType ==
  ASSUME TypeOK, InPipeline, pc' \in PcType,
         work' \subseteq Resource, idx' \in Nat \ {0}, call' \in CallType,
         mutationSteps' \in Seq(StepType), validationSteps' \in Seq(StepType),
         fnResults' \in [items : Seq(FnIds), exitCode : {0, 1}]
  PROVE  TypeOK'
  BY DEF TypeOK, InPipeline, given, onDisk, walk, visit, outcome

(* A pipeline step that fails keeps the types.                              *)
LEMMA FailedPipelineType ==
  ASSUME TypeOK, NEW out \in SUBSET Resource, PipelineFails(out),
         work' \subseteq Resource, idx' \in Nat \ {0}, call' \in CallType,
         mutationSteps' \in Seq(StepType), validationSteps' \in Seq(StepType),
         fnResults' \in [items : Seq(FnIds), exitCode : {0, 1}]
  PROVE  TypeOK'
  <1>1. /\ opts' \in OptionType /\ bad' \subseteq Pkgs
        /\ disk0' \subseteq Resource /\ disk' \subseteq Resource
        /\ cond' \in {"none", "True", "False"} /\ pc' \in PcType
        /\ cur' \in Pkgs /\ state' \in [Pkgs -> StateType]
        /\ next' \in [Pkgs -> Nat \ {0}]
        /\ input' \in [Pkgs -> SUBSET Resource] /\ res' \in [Pkgs -> SUBSET Resource]
        /\ ret' \subseteq Resource
        /\ queue' \in Seq(Pkgs) /\ order' \in Seq(Pkgs)
        /\ inputFiles' \subseteq Pkgs \X Names /\ outputFiles' \subseteq Pkgs \X Names
        /\ hydErr' \in BOOLEAN /\ result' \in {"none", "ok", "error", "write error"}
    BY PipelineFailsType
  <1> QED BY <1>1 DEF TypeOK

(* What a function returns for its input are resources.                     *)
LEMMA ApplyType ==
  ASSUME TypeOK, NEW f \in FunctionType, NEW D, NEW G \in SUBSET f.gens
  PROVE  MergeWithInput(f, Apply(f, D, G)) \subseteq Resource
  <1>1. /\ work \subseteq Resource /\ cur \in Pkgs /\ f.id \in FnIds
        /\ f.gens \subseteq Names
    BY DEF TypeOK, FunctionType
  <1>2. \A r \in Resource : [r EXCEPT !.hist = Append(r.hist, f.id)] \in Resource
    <2> SUFFICES ASSUME NEW r \in Resource
                 PROVE  [r EXCEPT !.hist = Append(r.hist, f.id)] \in Resource
      OBVIOUS
    <2>1. Append(r.hist, f.id) \in Seq(FnIds)
      BY <1>1, AppendType DEF Resource
    <2> QED BY <2>1 DEF Resource
  <1>3. \A n \in G : [pkg |-> cur, name |-> n, hist |-> <<f.id>>] \in Resource
    BY <1>1 DEF Resource
  <1>4. SelectInput(f) \subseteq Resource
    BY <1>1 DEF SelectInput
  <1>5. Apply(f, D, G) \subseteq Resource
    BY <1>2, <1>3, <1>4 DEF Apply
  <1> QED BY <1>1, <1>5 DEF MergeWithInput

(* Every step of runPipeline keeps the types.                               *)
LEMMA PipelineType ==
  ASSUME TypeOK, PipelineStep
  PROVE  TypeOK'
  <1>0. /\ work \subseteq Resource /\ idx \in Nat \ {0} /\ call \in CallType
        /\ mutationSteps \in Seq(StepType) /\ validationSteps \in Seq(StepType)
        /\ fnResults \in [items : Seq(FnIds), exitCode : {0, 1}]
        /\ cur \in Pkgs /\ idx + 1 \in Nat \ {0} /\ pc \in PcType
    <2>1. idx \in Nat \ {0}
      BY DEF TypeOK
    <2>2. idx + 1 \in Nat \ {0}
      BY <2>1
    <2> QED BY <2>2 DEF TypeOK
  <1>1. CASE EmptyPipeline
    BY <1>0, <1>1, InPipelineType DEF EmptyPipeline, PcType, pipe, report
  <1>2. CASE EmptyPipelineRejected \/ PipelineInvalid
    BY <1>0, <1>2, FailedPipelineType DEF EmptyPipelineRejected, PipelineInvalid, pipe,
       report
  <1>3. CASE FnChainFails
    <2>1. PICK i \in DOMAIN Mutators[cur] :
             mutationSteps' = Append(mutationSteps, Step(Mutators[cur][i], "fail"))
      BY <1>3 DEF FnChainFails
    <2>2. Mutators[cur][i] \in FunctionType
      BY <1>0, PipelineAssumption
    <2>3. mutationSteps' \in Seq(StepType)
      BY <2>1, <2>2, ReportType
    <2> QED BY <1>0, <1>3, <2>3, FailedPipelineType DEF FnChainFails, pipe
  <1>4. CASE FnChain
    BY <1>0, <1>4, InPipelineType DEF FnChain, PcType, report
  <1>5. CASE RunMutator
    <2>1. PICK D \in SUBSET (Mutator.drops \cap Keys(SelectInput(Mutator))),
               G \in SUBSET Mutator.gens : MutatorRuns(D, G)
      BY <1>5 DEF RunMutator
    <2>2. Mutator \in FunctionType
      BY <1>5, MutatorType DEF RunMutator
    <2>3. work' \subseteq Resource
      BY <2>1, <2>2, ApplyType DEF MutatorRuns
    <2>4. call' \in CallType
      BY <2>1, <2>2, CallTypeOK DEF MutatorRuns
    <2>5. /\ mutationSteps' \in Seq(StepType)
          /\ fnResults' \in [items : Seq(FnIds), exitCode : {0, 1}]
      BY <2>1, <2>2, ReportType DEF MutatorRuns
    <2> QED BY <1>0, <2>1, <2>3, <2>4, <2>5, InPipelineType DEF MutatorRuns
  <1>6. CASE SkipMutator
    <2>1. Mutator \in FunctionType
      BY <1>6, MutatorType DEF SkipMutator
    <2>2. /\ mutationSteps' \in Seq(StepType)
          /\ fnResults' \in [items : Seq(FnIds), exitCode : {0, 1}]
      BY <1>6, <2>1, ReportType DEF SkipMutator
    <2> QED BY <1>0, <1>6, <2>2, InPipelineType DEF SkipMutator
  <1>7. CASE MutatorFails
    <2>1. Mutator \in FunctionType
      BY <1>7, MutatorType DEF MutatorFails
    <2>2. /\ mutationSteps' \in Seq(StepType)
          /\ fnResults' \in [items : Seq(FnIds), exitCode : {0, 1}]
      BY <1>7, <2>1, ReportType DEF MutatorFails
    <2>3. call' \in CallType
      BY <1>7, <2>1, CallTypeOK DEF MutatorFails
    <2> QED BY <1>0, <1>7, <2>2, <2>3, FailedPipelineType DEF MutatorFails
  <1>8. CASE MutatorRejected
    <2>1. Mutator \in FunctionType
      BY <1>8, MutatorType DEF MutatorRejected
    <2>2. mutationSteps' \in Seq(StepType)
      BY <1>8, <2>1, ReportType DEF MutatorRejected
    <2>3. call' \in CallType
      BY <1>8, <2>1, CallTypeOK DEF MutatorRejected
    <2> QED BY <1>0, <1>8, <2>2, <2>3, FailedPipelineType DEF MutatorRejected
  <1>9. CASE MutatorConfigRefMissing
    BY <1>0, <1>9, FailedPipelineType DEF MutatorConfigRefMissing, pipe, report
  <1>10. CASE MutatorsDone
    BY <1>0, <1>10, InPipelineType DEF MutatorsDone, PcType, report
  <1>11. CASE ValidatorNotBuilt
    <2>1. Validator \in FunctionType
      BY <1>11, ValidatorType DEF ValidatorNotBuilt
    <2>2. validationSteps' \in Seq(StepType)
      BY <1>11, <2>1, ReportType DEF ValidatorNotBuilt
    <2> QED BY <1>0, <1>11, <2>2, FailedPipelineType DEF ValidatorNotBuilt, pipe
  <1>12. CASE RunValidator
    <2>1. Validator \in FunctionType
      BY <1>12, ValidatorType DEF RunValidator, ValidatorReady
    <2>2. /\ validationSteps' \in Seq(StepType)
          /\ fnResults' \in [items : Seq(FnIds), exitCode : {0, 1}]
      BY <1>12, <2>1, ReportType DEF RunValidator
    <2>3. call' \in CallType
      BY <1>12, <2>1, CallTypeOK DEF RunValidator
    <2> QED BY <1>0, <1>12, <2>2, <2>3, InPipelineType DEF RunValidator
  <1>13. CASE SkipValidator
    <2>1. Validator \in FunctionType
      BY <1>13, ValidatorType DEF SkipValidator, ValidatorReady
    <2>2. /\ validationSteps' \in Seq(StepType)
          /\ fnResults' \in [items : Seq(FnIds), exitCode : {0, 1}]
      BY <1>13, <2>1, ReportType DEF SkipValidator
    <2> QED BY <1>0, <1>13, <2>2, InPipelineType DEF SkipValidator
  <1>14. CASE ValidatorFails
    <2>1. Validator \in FunctionType
      BY <1>14, ValidatorType DEF ValidatorFails, ValidatorReady
    <2>2. /\ validationSteps' \in Seq(StepType)
          /\ fnResults' \in [items : Seq(FnIds), exitCode : {0, 1}]
      BY <1>14, <2>1, ReportType DEF ValidatorFails
    <2>3. call' \in CallType
      BY <1>14, <2>1, CallTypeOK DEF ValidatorFails
    <2> QED BY <1>0, <1>14, <2>2, <2>3, FailedPipelineType DEF ValidatorFails
  <1>15. CASE ValidatorRejected
    <2>1. Validator \in FunctionType
      BY <1>15, ValidatorType DEF ValidatorRejected, ValidatorReady
    <2>2. validationSteps' \in Seq(StepType)
      BY <1>15, <2>1, ReportType DEF ValidatorRejected
    <2>3. call' \in CallType
      BY <1>15, <2>1, CallTypeOK DEF ValidatorRejected
    <2> QED BY <1>0, <1>15, <2>2, <2>3, FailedPipelineType DEF ValidatorRejected
  <1>16. CASE ValidatorsDone
    BY <1>0, <1>16, InPipelineType DEF ValidatorsDone, PcType, pipe, report
  <1> QED BY <1>1, <1>2, <1>3, <1>4, <1>5, <1>6, <1>7, <1>8, <1>9, <1>10, <1>11,
             <1>12, <1>13, <1>14, <1>15, <1>16 DEF PipelineStep

(* What the tail leaves alone keeps its type.                               *)
LEMMA InTailType ==
  ASSUME TypeOK, InTail, pc' \in PcType,
         disk' \subseteq Resource, cond' \in {"none", "True", "False"},
         outputFiles' \subseteq Pkgs \X Names,
         result' \in {"none", "ok", "error", "write error"}
  PROVE  TypeOK'
  BY DEF TypeOK, InTail, given, walk, visit, pipe, report

(* Every step of the tail keeps the types.                                  *)
LEMMA TailType ==
  ASSUME TypeOK, TailStep
  PROVE  TypeOK'
  <1>0. /\ disk \subseteq Resource /\ res[Root] \subseteq Resource
        /\ cond \in {"none", "True", "False"}
        /\ outputFiles \subseteq Pkgs \X Names
        /\ Keys(res[Root]) \subseteq Pkgs \X Names
        /\ result \in {"none", "ok", "error", "write error"}
    BY TreeAssumption, KeysType DEF TypeOK
  <1>a. \A S \in SUBSET Resource : Overwrite(S) \subseteq Resource
    BY <1>0 DEF Overwrite
  <1>b. \A F : Remove(F) \subseteq Resource
    BY <1>0 DEF Remove
  <1>1. CASE GiveUp
    BY <1>0, <1>1, InTailType DEF GiveUp, UpdateRenderStatus, PcType
  <1>2. CASE WriteResources
    BY <1>0, <1>2, <1>a, InTailType DEF WriteResources, AfterWrite, PcType
  <1>3. CASE WriteFails
    <2>1. PICK S \in PartialWrites(res[Root]) : disk' = Overwrite(S)
      BY <1>3 DEF WriteFails
    <2>2. S \subseteq Resource
      BY <1>0 DEF PartialWrites
    <2> QED BY <1>0, <1>3, <1>a, <2>1, <2>2, InTailType DEF WriteFails, PcType
  <1>4. CASE WriteOutput
    BY <1>0, <1>4, InTailType DEF WriteOutput, PcType, onDisk
  <1>5. CASE WriteOutputFails
    BY <1>0, <1>5, InTailType DEF WriteOutputFails, PcType, onDisk
  <1>6. CASE PruneResources
    BY <1>0, <1>6, <1>b, InTailType DEF PruneResources, PcType
  <1>7. CASE PruneFails
    BY <1>0, <1>7, <1>b, InTailType DEF PruneFails, UpdateRenderStatus, PcType
  <1>8. CASE FinishFailed
    BY <1>0, <1>8, InTailType DEF FinishFailed, UpdateRenderStatus, PcType
  <1>9. CASE FinishOk
    BY <1>0, <1>9, InTailType DEF FinishOk, UpdateRenderStatus, PcType
  <1>10. CASE SaveFnResultsFails
    BY <1>0, <1>10, InTailType DEF SaveFnResultsFails, UpdateRenderStatus, PcType
  <1> QED BY <1>1, <1>2, <1>3, <1>4, <1>5, <1>6, <1>7, <1>8, <1>9, <1>10 DEF TailStep

(* Every step of the specification keeps the types.                         *)
LEMMA NextType ==
  ASSUME TypeOK, [Next]_vars
  PROVE  TypeOK'
  <1>1. CASE Next
    BY <1>1, StartType, DfsType, BfsType, PipelineType, TailType DEF Next
  <1>2. CASE UNCHANGED vars
    BY <1>2 DEF TypeOK, vars, given, onDisk, walk, visit, pipe, report, outcome
  <1> QED BY <1>1, <1>2

(* In every behaviour of an execution, the variables have their types: the  *)
(* walk stays in the package tree and every list holds resources of the     *)
(* tree's packages only.                                                    *)
THEOREM TypeCorrect == Spec => []TypeOK
  <1>1. Init => TypeOK
    BY InitType
  <1>2. TypeOK /\ [Next]_vars => TypeOK'
    BY NextType
  <1> QED BY <1>1, <1>2, PTL DEF Spec

-----------------------------------------------------------------------------
(* What a failed render does to the package.  Until the tail the directory  *)
(* is as it was found; files are pruned only when there was no error.       *)

DiskInv ==
    /\ pc \notin {"prune", "finish", "done"} => disk = disk0
    /\ pc = "prune" => opts.inPlace /\ ~hydErr
    /\ pc = "finish" => (hydErr => opts.save)
    /\ FailureLeavesPackage
    /\ FailureDeletesNothing

(* The steps before the tail leave the directory alone.                     *)
BeforeTail ==
    \/ ExecuteInvalid \/ ExecuteDfs \/ ExecuteBfs
    \/ DfsStep \/ BfsStep \/ PipelineStep

(* Up to the tail nothing is written.                                       *)
LEMMA BeforeTailKeepsDisk ==
  ASSUME BeforeTail
  PROVE  /\ pc \notin {"tail", "prune", "finish", "done"}
         /\ pc' \notin {"prune", "finish"}
         /\ UNCHANGED <<opts, disk, disk0>>
  <1>1. CASE ExecuteInvalid \/ ExecuteDfs \/ ExecuteBfs
    BY <1>1 DEF ExecuteInvalid, ExecuteDfs, ExecuteBfs, given, onDisk
  <1>2. CASE DfsStep
    BY <1>2 DEF DfsStep, HydrateSubpackage, HydrateSubpackageInvalid, HydrateUnreadable,
       HydrateRunPipeline,
       HydrateReturn, HydrateUnwind, HydrateFailed, given, onDisk
  <1>3. CASE BfsStep
    BY <1>3 DEF BfsStep, Discover, DiscoverUnreadable, DiscoverDone, BfsRunPipeline, BfsReturn,
       BfsDone,
       given, onDisk
  <1>4. CASE PipelineStep
    BY <1>4 DEF PipelineStep, EmptyPipeline, EmptyPipelineRejected, PipelineInvalid,
       FnChainFails, FnChain,
       RunMutator, MutatorRuns, SkipMutator, MutatorFails, MutatorRejected,
       MutatorConfigRefMissing, MutatorsDone, ValidatorNotBuilt, RunValidator,
       SkipValidator, ValidatorFails, ValidatorRejected, ValidatorsDone, ValidatorReady,
       AtMutator, AtValidator, PipelineFails, InPipeline, given, onDisk
  <1> QED BY <1>1, <1>2, <1>3, <1>4 DEF BeforeTail

(* Writing resources removes no file.                                       *)
LEMMA OverwriteKeepsFiles == \A S : Keys(disk) \subseteq Keys(Overwrite(S))
  BY DEF Keys, Overwrite

(* Every step preserves DiskInv.                                            *)
LEMMA DiskInvStep ==
  ASSUME DiskInv, [Next]_vars
  PROVE  DiskInv'
  <1>1. CASE BeforeTail
    BY <1>1, BeforeTailKeepsDisk DEF DiskInv, FailureLeavesPackage, FailureDeletesNothing, Keys
  <1>2. CASE TailStep
    <2>0. InTail => UNCHANGED <<opts, disk0, hydErr>>
      BY DEF InTail, given
    <2>1. CASE GiveUp
      BY <2>0, <2>1 DEF GiveUp, DiskInv, FailureLeavesPackage, FailureDeletesNothing, Keys
    <2>2. CASE WriteResources
      BY <2>0, <2>2, OverwriteKeepsFiles
      DEF WriteResources, AfterWrite, Keeps, DiskInv, FailureLeavesPackage,
          FailureDeletesNothing
    <2>3. CASE WriteFails
      <3>1. PICK S : disk' = Overwrite(S)
        BY <2>3 DEF WriteFails
      <3>2. Keys(disk0) \subseteq Keys(disk')
        BY <2>3, <3>1, OverwriteKeepsFiles DEF WriteFails, Keeps, DiskInv
      <3>3. /\ disk0' = disk0 /\ opts' = opts /\ hydErr' = hydErr /\ pc' = "done"
            /\ opts.inPlace /\ (hydErr => opts.save)
        BY <2>0, <2>3 DEF WriteFails, Keeps
      <3> QED BY <3>2, <3>3 DEF DiskInv, FailureLeavesPackage, FailureDeletesNothing
    <2>4. CASE WriteOutput \/ WriteOutputFails
      <3>1. disk' = disk /\ disk = disk0 /\ disk0' = disk0 /\ opts' = opts /\ hydErr' = hydErr
        BY <2>0, <2>4 DEF WriteOutput, WriteOutputFails, Keeps, onDisk, DiskInv
      <3>2. pc' \in {"finish", "done"} /\ (hydErr => opts.save)
        BY <2>4 DEF WriteOutput, WriteOutputFails, Keeps
      <3> QED BY <3>1, <3>2 DEF DiskInv, FailureLeavesPackage, FailureDeletesNothing, Keys
    <2>5. CASE PruneResources \/ PruneFails
      BY <2>0, <2>5
      DEF PruneResources, PruneFails, DiskInv, FailureLeavesPackage, FailureDeletesNothing
    <2>6. CASE FinishFailed \/ FinishOk \/ SaveFnResultsFails
      BY <2>0, <2>6
      DEF FinishFailed, FinishOk, SaveFnResultsFails, DiskInv, FailureLeavesPackage,
          FailureDeletesNothing, Keys
    <2> QED BY <1>2, <2>1, <2>2, <2>3, <2>4, <2>5, <2>6 DEF TailStep
  <1>3. CASE UNCHANGED vars
    BY <1>3 DEF vars, given, onDisk, outcome, DiskInv, FailureLeavesPackage,
       FailureDeletesNothing, Keys
  <1> QED BY <1>1, <1>2, <1>3 DEF Next, BeforeTail

(* DiskInv holds initially.                                                 *)
LEMMA DiskInvInit == Init => DiskInv
  BY DEF Init, DiskInv, FailureLeavesPackage, FailureDeletesNothing

(* Unless it is told to save, a render that fails leaves every resource of  *)
(* the package as it was; so does every render to --output.                 *)
THEOREM FailureLeavesPackageHolds == Spec => []FailureLeavesPackage
  <1>1. DiskInv => FailureLeavesPackage
    BY DEF DiskInv
  <1> QED BY <1>1, DiskInvInit, DiskInvStep, PTL DEF Spec

(* A render that fails in a pipeline or while reading a package deletes no  *)
(* file, with save-on-render-failure too.                                   *)
THEOREM FailureDeletesNothingHolds == Spec => []FailureDeletesNothing
  <1>1. DiskInv => FailureDeletesNothing
    BY DEF DiskInv
  <1> QED BY <1>1, DiskInvInit, DiskInvStep, PTL DEF Spec

-----------------------------------------------------------------------------
(* Scoped visibility.  What a package has gathered belongs to it or to      *)
(* packages nested in it, at every point of either walk; that is why the    *)
(* items of a call do.                                                      *)

InScope(S, p) == \A r \in S : r.pkg \in Below[p]
Running == {"pipeline", "mutate", "validate", "return"}

ScopeInv ==
    /\ \A p \in Pkgs : InScope(res[p], p) /\ InScope(input[p], p)
    /\ pc \in Running => InScope(work, cur)
    /\ pc = "unwind" => InScope(ret, cur)
    /\ ScopedVisibility

(* What is in the scope of a package is in that of its parent.              *)
LEMMA ScopeOfParent ==
  ASSUME NEW p \in Pkgs \ {Root}, NEW S, InScope(S, p)
  PROVE  Parent[p] \in Pkgs /\ InScope(S, Parent[p])
  BY TreeAssumption DEF InScope

(* What a package reads is in its own scope.                                *)
LEMMA ScopeOfLocal ==
  ASSUME NEW p \in Pkgs
  PROVE  InScope(LocalResources(p), p)
  BY TreeAssumption DEF InScope, LocalResources

(* A call is given resources in the scope of its package only.              *)
LEMMA ScopeOfCall ==
  ASSUME TypeOK, InScope(work, cur), NEW f
  PROVE  \A r \in Call(f).items \cup Call(f).cfg : r.pkg \in Below[Call(f).pkg]
  <1>1. cur \in Pkgs /\ cur \in Below[cur]
    BY TreeAssumption DEF TypeOK
  <1>2. InScope(SelectInput(f), cur)
    BY DEF InScope, SelectInput
  <1>3. InScope(FunctionConfig(f), cur)
    <2>1. \A r : Key(r)[1] = r.pkg
      BY DEF Key
    <2>2. \A r \in FunctionConfig(f) : r \in work \/ Key(r)[1] = cur
      BY DEF FunctionConfig, ResolveConfigRef, FnConfigNode
    <2> QED BY <1>1, <2>1, <2>2 DEF InScope
  <1> QED BY <1>2, <1>3 DEF Call, InScope

(* What a function returns is in the scope of its package.                  *)
LEMMA ScopeOfApply ==
  ASSUME TypeOK, InScope(work, cur), NEW f, NEW D, NEW G
  PROVE  InScope(MergeWithInput(f, Apply(f, D, G)), cur)
  <1>1. cur \in Below[cur]
    BY TreeAssumption DEF TypeOK
  <1>2. \A r \in SelectInput(f) : r \in work /\ r \in Resource
    BY DEF SelectInput, TypeOK
  <1>3. \A r \in Resource : [r EXCEPT !.hist = Append(r.hist, f.id)].pkg = r.pkg
    BY DEF Resource
  <1>4. InScope(Apply(f, D, G), cur)
    <2> SUFFICES ASSUME NEW r \in Apply(f, D, G) PROVE r.pkg \in Below[cur]
      BY DEF InScope
    <2>1. CASE \E t \in SelectInput(f) : r = [t EXCEPT !.hist = Append(t.hist, f.id)]
      BY <1>2, <1>3, <2>1 DEF InScope
    <2>2. CASE \E n \in G : r = [pkg |-> cur, name |-> n, hist |-> <<f.id>>]
      BY <1>1, <2>2
    <2> QED BY <2>1, <2>2 DEF Apply
  <1> QED BY <1>4 DEF MergeWithInput, InScope

(* Handing out resources gives each package its own.                        *)
LEMMA ScopeOfPropagate ==
  ASSUME TypeOK, ScopeInv, NEW p \in Pkgs, NEW out, NEW q \in Pkgs
  PROVE  InScope(Propagate(p, out)[q], q)
  BY TreeAssumption DEF Propagate, InScope, ScopeInv

(* The aggregated list is in the root's scope, which is everything.         *)
LEMMA ScopeOfAggregate ==
  ASSUME TypeOK, NEW rs \in [Pkgs -> SUBSET Resource],
         \A q \in Pkgs : InScope(rs[q], q)
  PROVE  \A q \in Pkgs : InScope(Aggregate(rs)[q], q)
  <1>1. Aggregate(rs) \in [Pkgs -> SUBSET Resource]
    BY AggregateType DEF TypeOK
  <1>2. InScope(Aggregate(rs)[Root], Root)
    BY <1>1, TreeAssumption DEF InScope, Resource
  <1>3. \A q \in Pkgs \ {Root} : Aggregate(rs)[q] = rs[q]
    BY DEF Aggregate
  <1> QED BY <1>2, <1>3

(* What a failed pipeline leaves behind is in scope.                        *)
LEMMA ScopeOfFailure ==
  ASSUME TypeOK, ScopeInv, NEW out \in SUBSET Resource, InScope(out, cur),
         PipelineFails(out)
  PROVE  /\ \A p \in Pkgs : InScope(res'[p], p) /\ InScope(input'[p], p)
         /\ pc' \notin Running
         /\ pc' = "unwind" => InScope(ret', cur')
  <1>0. cur \in Pkgs /\ cur' = cur /\ input' = input
    BY DEF TypeOK, PipelineFails
  <1>1. InScope(Kept(out), cur) /\ Kept(out) \subseteq Resource
    BY <1>0 DEF Kept, ScopeInv, TypeOK
  <1>2. \A p \in Pkgs : InScope(res'[p], p)
    <2>1. CASE opts.bfs /\ opts.save
      <3>1. Propagate(cur, Kept(out)) \in [Pkgs -> SUBSET Resource]
        BY <1>0, <1>1, PropagateType
      <3>2. \A q \in Pkgs : InScope(Propagate(cur, Kept(out))[q], q)
        BY <1>0, ScopeOfPropagate
      <3>3. res' = Aggregate(Propagate(cur, Kept(out)))
        BY <2>1 DEF PipelineFails
      <3> QED BY <3>1, <3>2, <3>3, ScopeOfAggregate
    <2>2. CASE ~opts.bfs /\ opts.save
      <3>1. res' = [res EXCEPT ![cur] = Kept(out)] /\ res \in [Pkgs -> SUBSET Resource]
        BY <2>2 DEF PipelineFails, TypeOK
      <3> QED BY <1>0, <1>1, <3>1 DEF ScopeInv
    <2>3. CASE ~opts.save
      BY <2>3 DEF PipelineFails, ScopeInv
    <2> QED BY <2>1, <2>2, <2>3
  <1>3. pc' \notin Running /\ (pc' = "unwind" => InScope(ret', cur'))
    BY <1>0, <1>1 DEF PipelineFails, Running
  <1> QED BY <1>0, <1>2, <1>3 DEF ScopeInv

(* hydrate's prologue keeps the lists in scope.                             *)
LEMMA ScopeOfEnter ==
  ASSUME TypeOK, ScopeInv, NEW p \in Pkgs, HydrateEnter(p)
  PROVE  \A q \in Pkgs : InScope(input'[q], q)
  <1>1. input \in [Pkgs -> SUBSET Resource] /\ input' = [input EXCEPT ![p] = LocalResources(p)]
    BY DEF TypeOK, HydrateEnter
  <1> QED BY <1>1, ScopeOfLocal DEF ScopeInv

(* Every step of hydrate preserves ScopeInv.                                *)
LEMMA ScopeInvDfs ==
  ASSUME TypeOK, ScopeInv, DfsStep
  PROVE  ScopeInv'
  <1>0. /\ cur \in Pkgs /\ input \in [Pkgs -> SUBSET Resource]
        /\ res \in [Pkgs -> SUBSET Resource]
    BY DEF TypeOK
  <1>c. call' = call
    BY DEF DfsStep, HydrateSubpackage, HydrateSubpackageInvalid, HydrateUnreadable, HydrateRunPipeline,
           HydrateReturn, HydrateUnwind, HydrateFailed, pipe
  <1>v. ScopedVisibility'
    BY <1>c DEF ScopeInv, ScopedVisibility
  <1>1. CASE HydrateSubpackage
    <2>1. Children[cur][next[cur]] \in Pkgs
      BY <1>1, NextChildType DEF HydrateSubpackage
    <2>2. \A q \in Pkgs : InScope(input'[q], q)
      BY <1>1, <2>1, ScopeOfEnter DEF HydrateSubpackage
    <2> QED BY <1>1, <1>v, <2>2 DEF HydrateSubpackage, ScopeInv, Running
  <1>2. CASE HydrateSubpackageInvalid \/ HydrateUnreadable
    BY <1>2, <1>v DEF HydrateSubpackageInvalid, HydrateUnreadable, ScopeInv, Running, InScope
  <1>3. CASE HydrateRunPipeline
    BY <1>0, <1>3, <1>v DEF HydrateRunPipeline, ScopeInv, Running, InScope, walk
  <1>4. CASE HydrateReturn
    <2>1. InScope(work, cur)
      BY <1>4 DEF HydrateReturn, ScopeInv, Running
    <2>2. \A q \in Pkgs : InScope(res'[q], q)
      BY <1>0, <1>4, <2>1 DEF HydrateReturn, ScopeInv
    <2>3. \A q \in Pkgs : InScope(input'[q], q)
      <3>1. CASE cur = Root
        BY <1>4, <3>1 DEF HydrateReturn, ScopeInv
      <3>2. CASE cur # Root
        <4>1. Parent[cur] \in Pkgs /\ InScope(work, Parent[cur])
          BY <1>0, <2>1, <3>2, ScopeOfParent
        <4>2. InScope(input[Parent[cur]] \cup work, Parent[cur])
          BY <4>1 DEF InScope, ScopeInv
        <4>3. input' = [input EXCEPT ![Parent[cur]] = input[Parent[cur]] \cup work]
          BY <1>4, <3>2 DEF HydrateReturn
        <4> QED BY <1>0, <4>1, <4>2, <4>3 DEF ScopeInv
      <3> QED BY <3>1, <3>2
    <2>4. pc' \in {"tail", "walk"}
      BY <1>4 DEF HydrateReturn
    <2> QED BY <1>v, <2>2, <2>3, <2>4 DEF ScopeInv, Running
  <1>5. CASE HydrateUnwind
    <2>1. Parent[cur] \in Pkgs /\ InScope(ret, Parent[cur])
      BY <1>0, <1>5, ScopeOfParent DEF HydrateUnwind, ScopeInv
    <2>2. InScope(input[Parent[cur]] \cup ret, Parent[cur])
      BY <2>1 DEF InScope, ScopeInv
    <2>3. \A q \in Pkgs : InScope(res'[q], q) /\ InScope(input'[q], q)
      BY <1>0, <1>5, <2>1, <2>2 DEF HydrateUnwind, ScopeInv
    <2>4. pc' = "unwind" /\ ret' = {}
      BY <1>5 DEF HydrateUnwind
    <2> QED BY <1>v, <2>3, <2>4 DEF ScopeInv, Running, InScope
  <1>6. CASE HydrateFailed
    BY <1>6, <1>v DEF HydrateFailed, ScopeInv, Running, walk
  <1> QED BY <1>1, <1>2, <1>3, <1>4, <1>5, <1>6 DEF DfsStep

(* Every step of hydrateBfsOrder preserves ScopeInv.                        *)
LEMMA ScopeInvBfs ==
  ASSUME TypeOK, ScopeInv, BfsStep
  PROVE  ScopeInv'
  <1>0. /\ cur \in Pkgs /\ input \in [Pkgs -> SUBSET Resource]
        /\ res \in [Pkgs -> SUBSET Resource] /\ queue \in Seq(Pkgs)
    BY DEF TypeOK
  <1>c. call' = call
    BY DEF BfsStep, Discover, DiscoverUnreadable, DiscoverDone, BfsRunPipeline, BfsReturn,
       BfsDone, pipe
  <1>v. ScopedVisibility'
    BY <1>c DEF ScopeInv, ScopedVisibility
  <1>1. CASE Discover
    <2>1. Head(queue) \in Pkgs
      BY <1>0, <1>1, HeadTailType DEF Discover
    <2>2. \A q \in Pkgs : InScope(res'[q], q)
      BY <1>0, <1>1, <2>1, ScopeOfLocal DEF Discover, ScopeInv
    <2>3. pc' \in {"discover", "tail"} /\ input' = input
      BY <1>1 DEF Discover
    <2> QED BY <1>v, <2>2, <2>3 DEF ScopeInv, Running
  <1>2. CASE DiscoverDone \/ DiscoverUnreadable
    BY <1>2, <1>v DEF DiscoverDone, DiscoverUnreadable, ScopeInv, Running, walk
  <1>3. CASE BfsRunPipeline
    <2>1. Head(queue) \in Pkgs
      BY <1>0, <1>3, HeadTailType DEF BfsRunPipeline
    <2>2. InScope(BfsInput(Head(queue)), Head(queue))
      BY <2>1, TreeAssumption DEF BfsInput, ScopeInv, InScope
    <2>3. \A q \in Pkgs : InScope(res'[q], q) /\ InScope(input'[q], q)
      BY <1>0, <1>3, <2>1, <2>2 DEF BfsRunPipeline, ScopeInv
    <2>4. pc' = "pipeline" /\ InScope(work', cur')
      BY <1>3, <2>2 DEF BfsRunPipeline
    <2> QED BY <1>v, <2>3, <2>4 DEF ScopeInv
  <1>4. CASE BfsReturn
    <2>1. \A q \in Pkgs : InScope(res'[q], q)
      BY <1>0, <1>4, ScopeOfPropagate DEF BfsReturn
    <2> QED BY <1>4, <1>v, <2>1 DEF BfsReturn, ScopeInv, Running
  <1>5. CASE BfsDone
    <2>1. \A q \in Pkgs : InScope(res'[q], q)
      BY <1>0, <1>5, ScopeOfAggregate DEF BfsDone, ScopeInv
    <2> QED BY <1>5, <1>v, <2>1 DEF BfsDone, ScopeInv, Running
  <1> QED BY <1>1, <1>2, <1>3, <1>4, <1>5 DEF BfsStep

(* Every step of runPipeline preserves ScopeInv.                            *)
LEMMA ScopeInvPipeline ==
  ASSUME TypeOK, ScopeInv, PipelineStep
  PROVE  ScopeInv'
  <1>0. pc \in Running /\ InScope(work, cur) /\ work \subseteq Resource
    BY DEF PipelineStep, EmptyPipeline, EmptyPipelineRejected, PipelineInvalid,
       FnChainFails, FnChain,
       RunMutator, SkipMutator, MutatorFails, MutatorRejected,
       MutatorConfigRefMissing, MutatorsDone, ValidatorNotBuilt, RunValidator,
       SkipValidator, ValidatorFails, ValidatorRejected, ValidatorsDone, ValidatorReady,
       AtMutator, AtValidator, Running, ScopeInv, TypeOK
  <1>1. ASSUME call' = call \/ \E f : call' = Call(f)
        PROVE  ScopedVisibility'
    BY <1>0, <1>1, ScopeOfCall DEF ScopeInv, ScopedVisibility
  <1>2. ASSUME NEW out \in {{}, work}, PipelineFails(out), ScopedVisibility'
        PROVE  ScopeInv'
    <2>1. out \in SUBSET Resource /\ InScope(out, cur)
      BY <1>0 DEF InScope
    <2> QED BY <1>2, <2>1, ScopeOfFailure DEF ScopeInv
  <1>3. ASSUME InPipeline, InScope(work', cur'), ScopedVisibility', pc' # "unwind"
        PROVE  ScopeInv'
    BY <1>3 DEF ScopeInv, InPipeline, walk
  <1>4. CASE EmptyPipelineRejected \/ PipelineInvalid \/ FnChainFails
             \/ MutatorConfigRefMissing
    <2>1. call' = call /\ PipelineFails({})
      BY <1>4 DEF EmptyPipelineRejected, PipelineInvalid, FnChainFails, MutatorConfigRefMissing, pipe
    <2> QED BY <1>1, <1>2, <2>1
  <1>5. CASE MutatorFails \/ MutatorRejected \/ ValidatorNotBuilt \/ ValidatorFails
             \/ ValidatorRejected
    <2>1. PipelineFails(work) /\ (call' = call \/ \E f : call' = Call(f))
      BY <1>5 DEF MutatorFails, MutatorRejected, ValidatorNotBuilt, ValidatorFails,
         ValidatorRejected, pipe
    <2> QED BY <1>1, <1>2, <2>1
  <1>6. CASE EmptyPipeline \/ FnChain \/ SkipMutator \/ MutatorsDone \/ RunValidator
             \/ SkipValidator \/ ValidatorsDone
    <2>1. /\ InPipeline /\ work' = work /\ (call' = call \/ \E f : call' = Call(f))
          /\ pc' # "unwind"
      BY <1>6, <1>0 DEF EmptyPipeline, FnChain, SkipMutator, MutatorsDone, RunValidator,
         SkipValidator, ValidatorsDone, pipe, Running
    <2>2. InScope(work', cur')
      BY <1>0, <2>1 DEF InPipeline, walk
    <2> QED BY <1>1, <1>3, <2>1, <2>2
  <1>7. CASE RunMutator
    <2>1. PICK D, G : MutatorRuns(D, G)
      BY <1>7 DEF RunMutator
    <2>2. InPipeline /\ call' = Call(Mutator) /\ pc' = pc
          /\ work' = MergeWithInput(Mutator, Apply(Mutator, D, G))
      BY <2>1 DEF MutatorRuns
    <2>3. InScope(work', cur')
      BY <1>0, <2>2, ScopeOfApply DEF InPipeline, walk
    <2>4. pc' # "unwind"
      BY <1>0, <2>2 DEF Running
    <2> QED BY <1>1, <1>3, <2>2, <2>3, <2>4
  <1> QED BY <1>4, <1>5, <1>6, <1>7 DEF PipelineStep

(* Every step of the specification preserves ScopeInv.                      *)
LEMMA ScopeInvStep ==
  ASSUME TypeOK, ScopeInv, [Next]_vars
  PROVE  ScopeInv'
  <1>1. CASE ExecuteInvalid \/ ExecuteBfs
    BY <1>1 DEF ExecuteInvalid, ExecuteBfs, ScopeInv, ScopedVisibility, Running, walk, pipe
  <1>2. CASE ExecuteDfs
    <2>1. \A q \in Pkgs : InScope(input'[q], q)
      BY <1>2, ScopeOfEnter, TreeAssumption DEF ExecuteDfs
    <2> QED BY <1>2, <2>1 DEF ExecuteDfs, ScopeInv, ScopedVisibility, Running, pipe
  <1>3. CASE TailStep
    <2>1. InTail /\ pc' \in {"prune", "finish", "done"}
      BY <1>3 DEF TailStep, GiveUp, WriteResources, AfterWrite, WriteFails, WriteOutput,
         WriteOutputFails, PruneResources, PruneFails, FinishFailed, FinishOk,
         SaveFnResultsFails
    <2> QED BY <2>1 DEF InTail, ScopeInv, ScopedVisibility, Running, walk, pipe
  <1>4. CASE UNCHANGED vars
    BY <1>4 DEF vars, ScopeInv, ScopedVisibility, InScope, walk, pipe
  <1> QED BY <1>1, <1>2, <1>3, <1>4, ScopeInvDfs, ScopeInvBfs, ScopeInvPipeline DEF Next

(* Whatever the package tree, the pipelines and the walk, a function is     *)
(* only ever given resources of its own package and packages nested in it.  *)
THEOREM ScopedVisibilityHolds == Spec => []ScopedVisibility
  <1>1. Init => ScopeInv
    BY DEF Init, ScopeInv, ScopedVisibility, NoCall, InScope, Running
  <1>2. ScopeInv => ScopedVisibility
    BY DEF ScopeInv
  <1>3. TypeOK /\ ScopeInv /\ [Next]_vars => ScopeInv'
    BY ScopeInvStep
  <1> QED BY <1>1, <1>2, <1>3, TypeCorrect, PTL DEF Spec

-----------------------------------------------------------------------------
(* The Rendered condition.                                                  *)

CondInv ==
    /\ pc = "start" => Discovered = {}
    /\ ConditionTracksOutcome

(* Before the tail, Execute returns only if the root package is invalid.    *)
LEMMA BeforeTailGoesOn ==
  ASSUME BeforeTail
  PROVE  /\ pc' # "start"
         /\ pc' = "done" => pc = "start" /\ result' = "error" /\ UNCHANGED state
         /\ pc' # "done" => UNCHANGED result
  <1>1. CASE ExecuteInvalid \/ ExecuteDfs \/ ExecuteBfs
    BY <1>1 DEF ExecuteInvalid, ExecuteDfs, ExecuteBfs, walk, outcome
  <1>2. CASE DfsStep
    BY <1>2 DEF DfsStep, HydrateSubpackage, HydrateSubpackageInvalid, HydrateUnreadable,
       HydrateRunPipeline,
       HydrateReturn, HydrateUnwind, HydrateFailed, outcome
  <1>3. CASE BfsStep
    BY <1>3 DEF BfsStep, Discover, DiscoverUnreadable, DiscoverDone, BfsRunPipeline, BfsReturn,
       BfsDone, outcome
  <1>4. CASE PipelineStep
    BY <1>4 DEF PipelineStep, EmptyPipeline, EmptyPipelineRejected, PipelineInvalid,
       FnChainFails, FnChain,
       RunMutator, MutatorRuns, SkipMutator, MutatorFails, MutatorRejected,
       MutatorConfigRefMissing, MutatorsDone, ValidatorNotBuilt, RunValidator,
       SkipValidator, ValidatorFails, ValidatorRejected, ValidatorsDone, ValidatorReady,
       AtMutator, AtValidator, PipelineFails, InPipeline, outcome
  <1> QED BY <1>1, <1>2, <1>3, <1>4 DEF BeforeTail

LEMMA CondInvStep ==
  ASSUME CondInv, [Next]_vars
  PROVE  CondInv'
  <1>1. CASE BeforeTail
    <2>1. pc' # "start" /\ (pc' = "done" => pc = "start" /\ UNCHANGED state)
      BY <1>1, BeforeTailGoesOn
    <2>2. pc' = "done" => Discovered' = {}
      BY <2>1 DEF CondInv, Discovered
    <2> QED BY <2>1, <2>2 DEF CondInv, ConditionTracksOutcome
  <1>2. CASE TailStep
    <2>0. pc' # "start"
      BY <1>2 DEF TailStep, GiveUp, WriteResources, WriteFails, WriteOutput, WriteOutputFails,
         PruneResources, PruneFails, FinishFailed, FinishOk, SaveFnResultsFails, AfterWrite
    <2>1. CASE GiveUp \/ FinishFailed \/ FinishOk \/ SaveFnResultsFails
      <3>1. /\ UNCHANGED <<opts, disk>> /\ result' \in {"ok", "error"}
            /\ UpdateRenderStatus(disk, IF result' = "ok" THEN "True" ELSE "False")
        BY <2>1 DEF GiveUp, FinishFailed, FinishOk, SaveFnResultsFails, InTail, given
      <3> QED BY <2>0, <3>1 DEF CondInv, ConditionTracksOutcome, UpdateRenderStatus
    <2>2. CASE WriteResources \/ WriteOutput \/ PruneResources
      BY <2>0, <2>2 DEF WriteResources, WriteOutput, PruneResources, AfterWrite, CondInv, ConditionTracksOutcome
    <2>3. CASE WriteFails \/ WriteOutputFails
      BY <2>0, <2>3 DEF WriteFails, WriteOutputFails, CondInv, ConditionTracksOutcome
    <2>4. CASE PruneFails
      <3>1. UNCHANGED opts /\ result' = "error"
        BY <2>4 DEF PruneFails, InTail, given
      <3>2. PICK D \in SUBSET ToPrune :
              /\ disk' = Remove(D)
              /\ IF <<Root, Kptfile>> \in D THEN cond' = "none" ELSE UpdateRenderStatus(disk, "False")
        BY <2>4 DEF PruneFails
      <3>3. <<Root, Kptfile>> \in Keys(disk') => <<Root, Kptfile>> \in Keys(disk) /\ <<Root, Kptfile>> \notin D
        BY <3>2 DEF Keys, Remove
      <3>4. (<<Root, Kptfile>> \in Keys(disk))' <=> <<Root, Kptfile>> \in Keys(disk')
        BY DEF Keys, Key
      <3> QED BY <2>0, <3>1, <3>2, <3>3, <3>4 DEF CondInv, ConditionTracksOutcome, UpdateRenderStatus
    <2> QED BY <1>2, <2>1, <2>2, <2>3, <2>4 DEF TailStep
  <1>3. CASE UNCHANGED vars
    BY <1>3 DEF vars, given, onDisk, walk, outcome, CondInv, ConditionTracksOutcome, Keys, Key, Discovered
  <1> QED BY <1>1, <1>2, <1>3 DEF Next, BeforeTail

LEMMA CondInvInit == Init => CondInv
  BY DEF Init, CondInv, ConditionTracksOutcome, Discovered

(* However an in-place render ends, short of a failed write, the condition  *)
(* in the root Kptfile is that of this render and not of an earlier one     *)
(* (updateRenderStatus on every return of Execute).                         *)
THEOREM ConditionTracksOutcomeHolds == Spec => []ConditionTracksOutcome
  <1>1. CondInv => ConditionTracksOutcome
    BY DEF CondInv
  <1> QED BY <1>1, CondInvInit, CondInvStep, PTL DEF Spec

-----------------------------------------------------------------------------
(* A successful render is exact.  The packages that are being hydrated form *)
(* a path from the root to cur, and a package has entered all subpackages   *)
(* its loop has passed (depth first); a subpackage of a discovered package  *)
(* is discovered or in the queue (breadth first).  So a walk that ends      *)
(* without an error has been to every package and knows all its files.      *)

Hydrating(p) == state[p] = "Hydrating"

ModeInv ==
    /\ pc \in {"walk", "unwind"} => ~opts.bfs
    /\ pc \in {"discover", "bfs"} => opts.bfs
    /\ pc = "unwind" => hydErr
    /\ pc = "start" => Discovered = {}

SeenInv ==
    /\ \A r \in disk0 : r.pkg \in Discovered => Key(r) \in inputFiles
    /\ \A p \in Pkgs : \A i \in DOMAIN Children[p] :
          i < next[p] => Children[p][i] \in Discovered

PathInv ==
    /\ Hydrating(Root) /\ Hydrating(cur)
    /\ \A p \in Pkgs \ {Root} : Hydrating(p) => Hydrating(Parent[p]) /\ Parent[p] # cur
    /\ \A p, q \in Pkgs \ {Root} :
          Hydrating(p) /\ Hydrating(q) /\ Parent[p] = Parent[q] => p = q
    /\ \A p \in Pkgs : state[p] # "Dry"
    /\ \A p \in Pkgs : state[p] = "Wet" => next[p] > Len(Children[p])

StackInv ==
    ~opts.bfs /\ pc \in {"walk"} \cup Running =>
       PathInv /\ (pc # "walk" => next[cur] > Len(Children[cur]))

QueueInv ==
    pc = "discover" =>
       /\ Root \in Discovered \cup Range(queue)
       /\ \A p \in Discovered : Range(Children[p]) \subseteq Discovered \cup Range(queue)

AllInv ==
    \/ opts.bfs /\ pc \in {"bfs"} \cup Running
    \/ pc \in {"tail", "prune", "finish"} /\ ~hydErr
    => Discovered = Pkgs

WalkInv == ModeInv /\ SeenInv /\ StackInv /\ QueueInv /\ AllInv

(* runPipeline leaves the walk where it is, or fails.                       *)
LEMMA PipelineKeepsWalk ==
  ASSUME PipelineStep
  PROVE  /\ pc \in Running
         /\ UNCHANGED <<opts, disk0, cur, state, next, inputFiles>>
         /\ \/ pc' \in Running /\ UNCHANGED hydErr
            \/ hydErr' /\ pc' = IF opts.bfs THEN "tail" ELSE "unwind"
  <1>0. pc \in Running
    BY DEF PipelineStep, EmptyPipeline, EmptyPipelineRejected, PipelineInvalid,
       FnChainFails, FnChain,
       RunMutator, SkipMutator, MutatorFails, MutatorRejected,
       MutatorConfigRefMissing, MutatorsDone, ValidatorNotBuilt, RunValidator,
       SkipValidator, ValidatorFails, ValidatorRejected, ValidatorsDone, ValidatorReady,
       AtMutator, AtValidator, Running
  <1>1. ASSUME NEW out, PipelineFails(out)
        PROVE  /\ UNCHANGED <<opts, disk0, cur, state, next, inputFiles>>
               /\ hydErr' /\ pc' = IF opts.bfs THEN "tail" ELSE "unwind"
    BY <1>1 DEF PipelineFails, given
  <1>2. ASSUME InPipeline, pc' \in Running
        PROVE  UNCHANGED <<opts, disk0, cur, state, next, inputFiles, hydErr>>
    BY <1>2 DEF InPipeline, given, walk, outcome
  <1>3. CASE EmptyPipelineRejected \/ PipelineInvalid \/ FnChainFails \/ MutatorConfigRefMissing
             \/ MutatorFails \/ MutatorRejected \/ ValidatorNotBuilt \/ ValidatorFails
             \/ ValidatorRejected
    <2>1. \E out : PipelineFails(out)
      BY <1>3 DEF EmptyPipelineRejected, PipelineInvalid, FnChainFails, MutatorConfigRefMissing,
         MutatorFails, MutatorRejected, ValidatorNotBuilt, ValidatorFails, ValidatorRejected
    <2> QED BY <1>0, <1>1, <2>1
  <1>4. CASE EmptyPipeline \/ FnChain \/ RunMutator \/ SkipMutator \/ MutatorsDone
             \/ RunValidator \/ SkipValidator \/ ValidatorsDone
    <2>1. InPipeline /\ pc' \in Running
      BY <1>0, <1>4 DEF EmptyPipeline, FnChain, RunMutator, MutatorRuns, SkipMutator,
         MutatorsDone, RunValidator, SkipValidator, ValidatorsDone, Running
    <2> QED BY <1>0, <1>2, <2>1
  <1> QED BY <1>3, <1>4 DEF PipelineStep

(* A set of packages with the root in it and all their subpackages is the   *)
(* whole tree.                                                              *)
LEMMA WholeTree ==
  ASSUME NEW S \in SUBSET Pkgs, Root \in S,
         \A p \in S : \A i \in DOMAIN Children[p] : Children[p][i] \in S
  PROVE  S = Pkgs
  <1>1. \A p \in S : Range(Children[p]) \subseteq S
    BY DEF Range
  <1> QED BY <1>1, NestedAssumption

(* Entering a package adds it to the discovered ones and its files to       *)
(* inputFiles.                                                              *)
LEMMA SeenOfEnter ==
  ASSUME TypeOK, SeenInv, NEW p \in Pkgs, disk = disk0, UNCHANGED disk0,
         NEW v \in StateType \ {"Undiscovered"},
         state' = [state EXCEPT ![p] = v],
         inputFiles' = inputFiles \cup Keys(LocalResources(p))
  PROVE  /\ Discovered' = Discovered \cup {p}
         /\ \A r \in disk0' : r.pkg \in Discovered' => Key(r) \in inputFiles'
  <1>0. state \in [Pkgs -> StateType]
    BY DEF TypeOK
  <1>1. Discovered' = Discovered \cup {p}
    BY <1>0 DEF Discovered
  <1>2. ASSUME NEW r \in disk0, r.pkg \in Discovered \cup {p}
        PROVE  Key(r) \in inputFiles'
    BY <1>2 DEF SeenInv, Keys, LocalResources
  <1> QED BY <1>1, <1>2

(* hydrate opens the next subpackage: the path grows by it.                 *)
LEMMA WalkOfSubpackage ==
  ASSUME TypeOK, DiskInv, WalkInv, HydrateSubpackage
  PROVE  WalkInv'
  <1> DEFINE sub == Children[cur][next[cur]]
  <1>0. /\ cur \in Pkgs /\ next \in [Pkgs -> Nat \ {0}] /\ state \in [Pkgs -> StateType]
        /\ pc = "walk" /\ pc' = "walk" /\ ~opts.bfs /\ UNCHANGED <<opts, disk0>> /\ disk = disk0
    BY DEF TypeOK, HydrateSubpackage, WalkInv, ModeInv, DiskInv, given
  <1>1. sub \in Pkgs
    BY NextChildType DEF HydrateSubpackage
  <1>2. next[cur] \in DOMAIN Children[cur]
    <2>1. Children[cur] \in Seq(Pkgs) /\ next[cur] \in Nat \ {0}
      BY <1>0, TreeAssumption
    <2>2. next[cur] <= Len(Children[cur])
      BY <2>1 DEF HydrateSubpackage, SubpackagesDone
    <2> QED BY <2>1, <2>2
  <1>3. sub # Root /\ Parent[sub] = cur
    BY <1>0, <1>2, TreeAssumption
  <1>4. /\ state[sub] = "Undiscovered" /\ state' = [state EXCEPT ![sub] = "Hydrating"]
        /\ cur' = sub /\ next' = [next EXCEPT ![cur] = next[cur] + 1]
        /\ inputFiles' = inputFiles \cup Keys(LocalResources(sub))
    BY <1>1 DEF HydrateSubpackage, HydrateEnter, TrackInputFiles, Discovered
  <1>5. /\ Discovered' = Discovered \cup {sub}
        /\ \A r \in disk0' : r.pkg \in Discovered' => Key(r) \in inputFiles'
    BY <1>0, <1>1, <1>4, SeenOfEnter DEF WalkInv, StateType
  <1>6. SeenInv'
    <2>1. ASSUME NEW p \in Pkgs, NEW i \in DOMAIN Children[p], i < next'[p]
          PROVE  Children[p][i] \in Discovered'
      <3>1. i \in Nat
        BY TreeAssumption
      <3>2. i < next[p] \/ (p = cur /\ i = next[cur])
        BY <1>0, <1>4, <2>1, <3>1
      <3> QED BY <1>5, <3>2 DEF WalkInv, SeenInv
    <2> QED BY <1>5, <2>1 DEF SeenInv
  <1>7. PathInv'
    <2>0. PathInv
      BY <1>0 DEF WalkInv, StackInv
    <2>1. \A p \in Pkgs : Hydrating(p)' <=> Hydrating(p) \/ p = sub
      BY <1>0, <1>1, <1>4 DEF Hydrating
    <2>2. cur # sub /\ Hydrating(cur) /\ Hydrating(Root) /\ ~Hydrating(sub)
      BY <1>4, <2>0 DEF PathInv, Hydrating
    <2>3. (Hydrating(Root) /\ Hydrating(cur))'
      BY <1>0, <1>4, <1>1, <2>1, <2>2, TreeAssumption DEF Hydrating
    <2>4. \A p \in Pkgs \ {Root} : Hydrating(p)' => Hydrating(Parent[p])' /\ Parent[p] # cur'
      <3>1. ASSUME NEW p \in Pkgs \ {Root}, Hydrating(p) \/ p = sub
            PROVE  Hydrating(Parent[p])' /\ Parent[p] # sub
        <4>1. Parent[p] \in Pkgs
          BY TreeAssumption
        <4>2. Hydrating(Parent[p]) 
          BY <1>3, <2>0, <2>2, <3>1 DEF PathInv
        <4> QED BY <2>1, <2>2, <4>1, <4>2
      <3> QED BY <1>4, <2>1, <3>1
    <2>5. \A p, q \in Pkgs \ {Root} :
            Hydrating(p)' /\ Hydrating(q)' /\ Parent[p] = Parent[q] => p = q
      BY <1>3, <2>0, <2>1 DEF PathInv
    <2>6. \A p \in Pkgs : state'[p] # "Dry"
      BY <1>0, <1>4, <2>0 DEF PathInv
    <2>7. \A p \in Pkgs : state'[p] = "Wet" => next'[p] > Len(Children[p])
      <3>1. ASSUME NEW p \in Pkgs, state'[p] = "Wet" PROVE next'[p] > Len(Children[p])
        <4>1. p # cur /\ state[p] = "Wet"
          BY <1>0, <1>4, <2>2, <3>1 DEF Hydrating
        <4> QED BY <1>0, <1>4, <2>0, <4>1 DEF PathInv
      <3> QED BY <3>1
    <2> QED BY <2>3, <2>4, <2>5, <2>6, <2>7 DEF PathInv
  <1> QED BY <1>0, <1>6, <1>7 DEF WalkInv, ModeInv, StackInv, QueueInv, AllInv, Running

(* Only the root is being hydrated when hydrate is back at it.              *)
LEMMA PathEndsAtRoot ==
  ASSUME PathInv, cur = Root
  PROVE  \A p \in Pkgs : Hydrating(p) => p = Root
  <1> DEFINE S == {p \in Pkgs : Hydrating(p) => p = Root}
  <1>1. Root \in S
    BY TreeAssumption
  <1>2. ASSUME NEW p \in S, NEW i \in DOMAIN Children[p] PROVE Children[p][i] \in S
    <2>1. Children[p][i] \in Pkgs /\ Children[p][i] # Root /\ Parent[Children[p][i]] = p
      BY TreeAssumption
    <2> QED BY <2>1 DEF PathInv
  <1>3. S = Pkgs
    <2> HIDE DEF S
    <2>1. S \in SUBSET Pkgs
      BY DEF S
    <2> QED BY <1>1, <1>2, <2>1, WholeTree
  <1> QED BY <1>3

(* hydrate returns: the path shrinks by cur, and when that is the root      *)
(* every package has been entered.                                          *)
LEMMA WalkOfReturn ==
  ASSUME TypeOK, WalkInv, HydrateReturn
  PROVE  WalkInv'
  <1>0. /\ cur \in Pkgs /\ next \in [Pkgs -> Nat \ {0}] /\ state \in [Pkgs -> StateType]
        /\ pc = "return" /\ ~opts.bfs /\ UNCHANGED <<opts, disk0, next, inputFiles>>
        /\ state' = [state EXCEPT ![cur] = "Wet"]
    BY DEF TypeOK, HydrateReturn, given
  <1>1. PathInv /\ next[cur] > Len(Children[cur])
    BY <1>0 DEF WalkInv, StackInv, Running
  <1>2. Discovered' = Discovered
    BY <1>0, <1>1 DEF Discovered, PathInv, Hydrating
  <1>3. SeenInv'
    BY <1>0, <1>2 DEF WalkInv, SeenInv
  <1>4. \A p \in Pkgs : Hydrating(p)' <=> Hydrating(p) /\ p # cur
    BY <1>0 DEF Hydrating
  <1>5. \A p \in Pkgs : state'[p] = "Wet" => next'[p] > Len(Children[p])
    BY <1>0, <1>1 DEF PathInv
  <1>6. CASE cur = Root
    <2>1. pc' = "tail"
      BY <1>6 DEF HydrateReturn
    <2>2. \A p \in Discovered : \A i \in DOMAIN Children[p] : Children[p][i] \in Discovered
      <3>1. ASSUME NEW p \in Discovered, NEW i \in DOMAIN Children[p]
            PROVE  Children[p][i] \in Discovered
        <4>1. p \in Pkgs /\ state[p] \in {"Hydrating", "Wet"}
          BY <1>0, <1>1 DEF Discovered, StateType, PathInv
        <4>2. next[p] > Len(Children[p])
          BY <1>1, <1>6, <4>1, PathEndsAtRoot DEF Hydrating, PathInv
        <4>3. i \in Nat /\ i <= Len(Children[p]) /\ Len(Children[p]) \in Nat /\ next[p] \in Nat
          <5>1. Children[p] \in Seq(Pkgs) /\ next[p] \in Nat
            BY <1>0, <4>1, TreeAssumption
          <5> QED BY <5>1
        <4>4. i < next[p]
          BY <4>2, <4>3
        <4> QED BY <4>1, <4>4 DEF WalkInv, SeenInv
      <3> QED BY <3>1
    <2>3. Discovered \in SUBSET Pkgs /\ Root \in Discovered
      BY <1>1, TreeAssumption DEF Discovered, PathInv, Hydrating
    <2>4. Discovered = Pkgs
      BY <2>2, <2>3, WholeTree
    <2> QED BY <1>0, <1>2, <1>3, <2>1, <2>4
        DEF WalkInv, ModeInv, StackInv, QueueInv, AllInv, Running
  <1>7. CASE cur # Root
    <2>1. pc' = "walk" /\ cur' = Parent[cur] /\ Parent[cur] \in Pkgs
      BY <1>0, <1>7, TreeAssumption DEF HydrateReturn
    <2>2. Hydrating(cur) /\ Hydrating(Parent[cur]) /\ Parent[cur] # cur
      BY <1>0, <1>1, <1>7 DEF PathInv
    <2>3. (Hydrating(Root) /\ Hydrating(cur))'
      <3>1. Hydrating(Root)'
        BY <1>1, <1>4, <1>7, TreeAssumption DEF PathInv
      <3>2. state'[Parent[cur]] = "Hydrating"
        BY <1>0, <2>1, <2>2 DEF Hydrating
      <3> QED BY <2>1, <3>1, <3>2 DEF Hydrating
    <2>4. \A p \in Pkgs \ {Root} : Hydrating(p)' => Hydrating(Parent[p])' /\ Parent[p] # cur'
      <3>1. ASSUME NEW p \in Pkgs \ {Root}, Hydrating(p), p # cur
            PROVE  Hydrating(Parent[p])' /\ Parent[p] # Parent[cur]
        <4>1. Parent[p] \in Pkgs
          BY TreeAssumption
        <4>2. Hydrating(Parent[p]) /\ Parent[p] # cur
          BY <1>1, <3>1 DEF PathInv
        <4>3. Parent[p] # Parent[cur]
          BY <1>0, <1>1, <1>7, <2>2, <3>1 DEF PathInv
        <4> QED BY <1>4, <4>1, <4>2, <4>3
      <3> QED BY <1>4, <2>1, <3>1
    <2>5. \A p, q \in Pkgs \ {Root} :
            Hydrating(p)' /\ Hydrating(q)' /\ Parent[p] = Parent[q] => p = q
      BY <1>1, <1>4 DEF PathInv
    <2>6. \A p \in Pkgs : state'[p] # "Dry"
      BY <1>0, <1>1 DEF PathInv
    <2>7. PathInv'
      BY <1>5, <2>3, <2>4, <2>5, <2>6 DEF PathInv
    <2> QED BY <1>0, <1>3, <2>1, <2>7 DEF WalkInv, ModeInv, StackInv, QueueInv, AllInv, Running
  <1> QED BY <1>6, <1>7

(* Every step of hydrate preserves WalkInv.                                 *)
LEMMA WalkInvDfs ==
  ASSUME TypeOK, DiskInv, WalkInv, DfsStep
  PROVE  WalkInv'
  <1>1. CASE HydrateSubpackageInvalid \/ HydrateUnreadable
    <2>1. /\ UNCHANGED <<opts, disk0, state, next, inputFiles>> /\ pc = "walk" /\ pc' = "unwind" /\ hydErr'
      BY <1>1 DEF HydrateSubpackageInvalid, HydrateUnreadable, given
    <2> QED BY <2>1 DEF WalkInv, ModeInv, SeenInv, StackInv, QueueInv, AllInv, Running, Discovered
  <1>2. CASE HydrateRunPipeline
    <2>1. /\ UNCHANGED <<opts, disk0, cur, state, next, inputFiles>>
          /\ pc = "walk" /\ pc' = "pipeline" /\ SubpackagesDone
      BY <1>2 DEF HydrateRunPipeline, given, walk
    <2> QED BY <2>1
        DEF WalkInv, ModeInv, SeenInv, StackInv, PathInv, Hydrating, QueueInv, AllInv, Running,
            Discovered, SubpackagesDone
  <1>3. CASE HydrateUnwind \/ HydrateFailed
    <2>1. /\ UNCHANGED <<opts, disk0, state, next, inputFiles, hydErr>>
          /\ pc = "unwind" /\ pc' \in {"unwind", "tail"}
      BY <1>3 DEF HydrateUnwind, HydrateFailed, given, walk, outcome
    <2> QED BY <2>1 DEF WalkInv, ModeInv, SeenInv, StackInv, QueueInv, AllInv, Running, Discovered
  <1> QED BY <1>1, <1>2, <1>3, WalkOfSubpackage, WalkOfReturn DEF DfsStep

(* What is in a queue is its head or in its tail; concatenation adds the    *)
(* elements of the second.                                                  *)
LEMMA RangeOfQueue ==
  ASSUME NEW S, NEW s \in Seq(S), s # <<>>, NEW t \in Seq(S)
  PROVE  /\ Range(s) \subseteq {Head(s)} \cup Range(Tail(s) \o t)
         /\ Range(t) \subseteq Range(Tail(s) \o t)
  <1>1. /\ DOMAIN s = 1 .. Len(s) /\ Len(s) \in Nat \ {0} /\ Head(s) = s[1]
        /\ Tail(s) \in Seq(S) /\ Len(Tail(s)) = Len(s) - 1
        /\ \A i \in 1 .. Len(s) - 1 : Tail(s)[i] = s[i + 1]
    OBVIOUS
  <1>2. DOMAIN t = 1 .. Len(t) /\ Len(t) \in Nat
    OBVIOUS
  <1>3. /\ DOMAIN (Tail(s) \o t) = 1 .. (Len(s) - 1 + Len(t))
        /\ \A i \in 1 .. Len(s) - 1 : (Tail(s) \o t)[i] = s[i + 1]
        /\ \A i \in 1 .. Len(t) : (Tail(s) \o t)[Len(s) - 1 + i] = t[i]
    BY <1>1, <1>2
  <1>4. ASSUME NEW i \in 1 .. Len(s) PROVE s[i] \in {Head(s)} \cup Range(Tail(s) \o t)
    <2>1. CASE i = 1
      BY <1>1, <2>1
    <2>2. CASE i # 1
      <3>1. i - 1 \in 1 .. Len(s) - 1 /\ i - 1 \in DOMAIN (Tail(s) \o t) /\ s[(i - 1) + 1] = s[i]
        BY <1>1, <1>2, <1>3, <2>2
      <3> QED BY <1>3, <3>1, ZenonT(30) DEF Range
    <2> QED BY <2>1, <2>2
  <1>5. ASSUME NEW i \in 1 .. Len(t) PROVE t[i] \in Range(Tail(s) \o t)
    <2>1. Len(s) - 1 + i \in DOMAIN (Tail(s) \o t)
      BY <1>1, <1>2, <1>3
    <2> QED BY <1>3, <2>1 DEF Range
  <1> QED BY <1>1, <1>2, <1>4, <1>5, ZenonT(30) DEF Range

(* A package is discovered: it leaves the queue and its subpackages enter.  *)
LEMMA WalkOfDiscover ==
  ASSUME TypeOK, DiskInv, WalkInv, Discover
  PROVE  WalkInv'
  <1> DEFINE p == Head(queue)
  <1>0. /\ queue \in Seq(Pkgs) /\ queue # <<>> /\ pc = "discover" /\ opts.bfs /\ disk = disk0
        /\ UNCHANGED <<opts, disk0, next>>
        /\ state' = [state EXCEPT ![p] = "Dry"]
        /\ inputFiles' = inputFiles \cup Keys(LocalResources(p))
    BY DEF TypeOK, Discover, WalkInv, ModeInv, DiskInv, given, TrackInputFiles
  <1>1. p \in Pkgs /\ Children[p] \in Seq(Pkgs)
    BY <1>0, HeadTailType, TreeAssumption
  <1>2. /\ Discovered' = Discovered \cup {p}
        /\ \A r \in disk0' : r.pkg \in Discovered' => Key(r) \in inputFiles'
    BY <1>0, <1>1, SeenOfEnter DEF WalkInv, StateType
  <1>3. SeenInv'
    BY <1>0, <1>2 DEF WalkInv, SeenInv
  <1>4. CASE pc' = "tail" /\ hydErr'
    BY <1>0, <1>3, <1>4 DEF WalkInv, ModeInv, StackInv, QueueInv, AllInv, Running
  <1>5. CASE pc' = pc /\ queue' = Tail(queue) \o Children[p]
    <2>1. /\ Range(queue) \subseteq {p} \cup Range(queue')
          /\ Range(Children[p]) \subseteq Range(queue')
      BY <1>0, <1>1, <1>5, RangeOfQueue
    <2>2. QueueInv'
      BY <1>0, <1>2, <2>1 DEF WalkInv, QueueInv
    <2> QED BY <1>0, <1>3, <1>5, <2>2 DEF WalkInv, ModeInv, StackInv, AllInv, Running
  <1> QED BY <1>4, <1>5 DEF Discover, QueueAfter

(* Every step of hydrateBfsOrder preserves WalkInv.                         *)
LEMMA WalkInvBfs ==
  ASSUME TypeOK, DiskInv, WalkInv, BfsStep
  PROVE  WalkInv'
  <1>1. CASE DiscoverDone
    <2>1. /\ UNCHANGED <<opts, disk0, state, next, inputFiles>> /\ pc' = "bfs" /\ opts.bfs
          /\ pc = "discover" /\ queue = <<>>
      BY <1>1 DEF DiscoverDone, given, walk, WalkInv, ModeInv
    <2>2. Range(queue) = {}
      BY <2>1 DEF Range
    <2>3. /\ Discovered \in SUBSET Pkgs /\ Root \in Discovered
          /\ \A p \in Discovered : \A i \in DOMAIN Children[p] : Children[p][i] \in Discovered
      BY <2>1, <2>2 DEF WalkInv, QueueInv, Discovered, Range
    <2>4. Discovered = Pkgs
      BY <2>3, WholeTree
    <2> QED BY <2>1, <2>4 DEF WalkInv, ModeInv, SeenInv, StackInv, QueueInv, AllInv, Running, Discovered
  <1>2. CASE BfsRunPipeline \/ BfsReturn \/ BfsDone
    <2>1. /\ UNCHANGED <<opts, disk0, next, inputFiles, hydErr>> /\ opts.bfs
          /\ pc \in {"bfs", "return"} /\ pc' \in {"pipeline", "bfs", "tail"}
      BY <1>2 DEF BfsRunPipeline, BfsReturn, BfsDone, given, outcome, WalkInv, ModeInv
    <2>2. Discovered = Pkgs
      BY <2>1 DEF WalkInv, AllInv, Running
    <2>3. Discovered' = Pkgs
      <3>1. \E p, v : v # "Undiscovered" /\ state' = [state EXCEPT ![p] = v]
        <4>1. CASE BfsRunPipeline \/ BfsReturn
          BY <4>1 DEF BfsRunPipeline, BfsReturn
        <4>2. CASE BfsDone
          <5>1. state' = [state EXCEPT ![Root] = state[Root]] /\ state[Root] # "Undiscovered"
            BY <2>2, <4>2, TreeAssumption DEF BfsDone, Discovered, TypeOK
          <5> QED BY <5>1
        <4> QED BY <1>2, <4>1, <4>2
      <3> QED BY <2>2, <3>1 DEF Discovered, TypeOK
    <2> QED BY <2>1, <2>2, <2>3 DEF WalkInv, ModeInv, SeenInv, StackInv, QueueInv, AllInv, Running
  <1>3. CASE DiscoverUnreadable
    <2>1. UNCHANGED <<opts, disk0, state, next, inputFiles>> /\ pc' = "tail" /\ hydErr'
      BY <1>3 DEF DiscoverUnreadable, given, walk
    <2> QED BY <2>1 DEF WalkInv, ModeInv, SeenInv, StackInv, QueueInv, AllInv, Running, Discovered
  <1> QED BY <1>1, <1>2, <1>3, WalkOfDiscover DEF BfsStep

(* Every step of the specification preserves WalkInv.                       *)
LEMMA WalkInvStep ==
  ASSUME TypeOK, DiskInv, WalkInv, [Next]_vars
  PROVE  WalkInv'
  <1>1. CASE ExecuteInvalid
    <2>1. /\ UNCHANGED <<opts, disk0, state, next, inputFiles>> /\ pc' = "done"
      BY <1>1 DEF ExecuteInvalid, given, walk
    <2> QED BY <2>1 DEF WalkInv, ModeInv, SeenInv, StackInv, QueueInv, AllInv, Running, Discovered
  <1>2. CASE ExecuteBfs
    <2>1. /\ UNCHANGED <<opts, disk0, state, next, inputFiles>> /\ pc = "start" /\ pc' = "discover"
          /\ opts.bfs /\ queue' = <<Root>>
      BY <1>2 DEF ExecuteBfs, given, walk
    <2>2. Discovered' = {}
      BY <2>1 DEF WalkInv, ModeInv, Discovered
    <2>3. Root \in Range(queue')
      <3>1. 1 \in DOMAIN queue' /\ queue'[1] = Root
        BY <2>1
      <3> QED BY <3>1 DEF Range
    <2>4. QueueInv'
      BY <2>2, <2>3 DEF QueueInv
    <2> QED BY <2>1, <2>4 DEF WalkInv, ModeInv, SeenInv, StackInv, AllInv, Running, Discovered
  <1>3. CASE ExecuteDfs
    <2>1. /\ UNCHANGED <<opts, disk0, next>> /\ pc = "start" /\ pc' = "walk" /\ ~opts.bfs
          /\ cur' = Root /\ state' = [state EXCEPT ![Root] = "Hydrating"] /\ disk = disk0
          /\ inputFiles' = inputFiles \cup Keys(LocalResources(Root))
          /\ state \in [Pkgs -> StateType] /\ Root \in Pkgs
      BY <1>3, TreeAssumption
      DEF ExecuteDfs, HydrateEnter, TrackInputFiles, given, DiskInv, TypeOK
    <2>2. /\ Discovered' = Discovered \cup {Root}
          /\ \A r \in disk0' : r.pkg \in Discovered' => Key(r) \in inputFiles'
      BY <2>1, SeenOfEnter DEF WalkInv, StateType
    <2>3. SeenInv'
      BY <2>1, <2>2 DEF WalkInv, SeenInv
    <2>4. \A p \in Pkgs : state[p] = "Undiscovered"
      BY <2>1 DEF WalkInv, ModeInv, Discovered
    <2>5. PathInv'
      BY <2>1, <2>4 DEF PathInv, Hydrating
    <2> QED BY <2>1, <2>3, <2>5 DEF WalkInv, ModeInv, StackInv, QueueInv, AllInv, Running
  <1>4. CASE PipelineStep
    <2>1. /\ pc \in Running
          /\ UNCHANGED <<opts, disk0, cur, state, next, inputFiles>>
          /\ \/ pc' \in Running /\ UNCHANGED hydErr
             \/ hydErr' /\ pc' = IF opts.bfs THEN "tail" ELSE "unwind"
      BY <1>4, PipelineKeepsWalk
    <2> QED BY <2>1 DEF WalkInv, ModeInv, SeenInv, StackInv, PathInv, Hydrating, QueueInv, AllInv,
            Running, Discovered
  <1>5. CASE TailStep
    <2>1. InTail /\ pc \in {"tail", "prune", "finish"} /\ pc' \in {"prune", "finish", "done"}
      BY <1>5 DEF TailStep, GiveUp, WriteResources, AfterWrite, WriteFails, WriteOutput, Keeps,
         WriteOutputFails, PruneResources, PruneFails, FinishFailed, FinishOk,
         SaveFnResultsFails
    <2>2. UNCHANGED <<opts, disk0, state, next, inputFiles, hydErr>>
      BY <2>1 DEF InTail, given, walk
    <2> QED BY <2>1, <2>2
        DEF WalkInv, ModeInv, SeenInv, StackInv, QueueInv, AllInv, Running, Discovered
  <1>6. CASE UNCHANGED vars
    <2>1. UNCHANGED <<opts, disk0, cur, state, next, inputFiles, hydErr, pc, queue>>
      BY <1>6 DEF vars, given, walk, visit, outcome
    <2> QED BY <2>1 DEF WalkInv, ModeInv, SeenInv, StackInv, PathInv, Hydrating, QueueInv, AllInv,
            Running, Discovered
  <1> QED BY <1>1, <1>2, <1>3, <1>4, <1>5, <1>6, WalkInvDfs, WalkInvBfs DEF Next

LEMMA WalkInvInit == Init => WalkInv
  <1> SUFFICES ASSUME Init PROVE WalkInv
    OBVIOUS
  <1>1. Discovered = {}
    BY DEF Init, Discovered
  <1>2. SeenInv
    <2>1. ASSUME NEW p \in Pkgs, NEW i \in DOMAIN Children[p] PROVE ~(i < next[p])
      BY TreeAssumption DEF Init
    <2> QED BY <1>1, <2>1 DEF SeenInv
  <1> QED BY <1>1, <1>2 DEF Init, WalkInv, ModeInv, StackInv, QueueInv, AllInv, Running

(* What is on disk after the resources have been written, and after files   *)
(* have been pruned.                                                        *)
ExactInv ==
    /\ pc = "prune" =>
          /\ outputFiles = Keys(res[Root])
          /\ disk = res[Root] \cup {r \in disk0 : Key(r) \notin Keys(res[Root])}
    /\ pc = "finish" /\ ~hydErr /\ opts.inPlace => disk = res[Root]
    /\ result = "ok" => pc = "done"
    /\ SuccessIsExact

LEMMA ExactInvStep ==
  ASSUME TypeOK, DiskInv, WalkInv, ExactInv, [Next]_vars
  PROVE  ExactInv'
  <1>1. CASE BeforeTail
    <2>1. pc \notin {"tail", "prune", "finish", "done"} /\ pc' \notin {"prune", "finish"}
      BY <1>1, BeforeTailKeepsDisk
    <2>2. result' # "ok"
      BY <1>1, <2>1, BeforeTailGoesOn DEF ExactInv
    <2> QED BY <2>1, <2>2 DEF ExactInv, SuccessIsExact
  <1>2. CASE TailStep
    <2>0. InTail => UNCHANGED <<opts, disk0, hydErr, res, inputFiles>>
      BY DEF InTail, given, walk
    <2>1. CASE WriteResources
      <3>1. /\ disk = disk0 /\ result' = result /\ pc = "tail"
            /\ pc' = IF hydErr THEN "finish" ELSE "prune"
            /\ UNCHANGED <<disk0, hydErr, res>> /\ outputFiles' = Keys(res[Root])
            /\ disk' = res[Root] \cup {r \in disk : Key(r) \notin Keys(res[Root])}
        BY <2>0, <2>1 DEF WriteResources, Keeps, AfterWrite, DiskInv, Overwrite
      <3>2. Keys(res[Root])' = Keys(res[Root])
        BY <3>1 DEF Keys
      <3>3. disk' = res[Root] \cup {r \in disk0 : Key(r) \notin Keys(res[Root])}
        BY <3>1
      <3>4. (pc = "prune" =>
                 /\ outputFiles = Keys(res[Root])
                 /\ disk = res[Root] \cup {r \in disk0 : Key(r) \notin Keys(res[Root])})'
        BY <3>1, <3>2, <3>3
      <3> QED BY <3>1, <3>4 DEF ExactInv, SuccessIsExact
    <2>2. CASE PruneResources
      <3>1. /\ pc = "prune" /\ pc' = "finish" /\ result' = result /\ ~hydErr
            /\ UNCHANGED <<hydErr, res>>
            /\ disk' = {r \in disk : Key(r) \notin inputFiles \ outputFiles}
        BY <2>0, <2>2 DEF PruneResources, Remove, ToPrune, DiskInv
      <3>2. /\ outputFiles = Keys(res[Root])
            /\ disk = res[Root] \cup {r \in disk0 : Key(r) \notin Keys(res[Root])}
        BY <3>1 DEF ExactInv
      <3>3. \A r \in disk0 : Key(r) \in inputFiles
        <4>1. Discovered = Pkgs
          BY <3>1 DEF WalkInv, AllInv
        <4>2. \A r \in disk0 : r.pkg \in Pkgs
          BY DEF TypeOK, Resource
        <4> QED BY <4>1, <4>2 DEF WalkInv, SeenInv
      <3>4. \A r \in res[Root] : Key(r) \in Keys(res[Root])
        BY DEF Keys
      <3>5. disk' = res[Root]
        BY <3>1, <3>2, <3>3, <3>4
      <3> QED BY <3>1, <3>5 DEF ExactInv, SuccessIsExact
    <2>3. CASE WriteOutput
      BY <2>0, <2>3 DEF WriteOutput, Keeps, ExactInv, SuccessIsExact
    <2>4. CASE FinishOk
      BY <2>0, <2>4 DEF FinishOk, ExactInv, SuccessIsExact
    <2>5. CASE GiveUp \/ WriteFails \/ WriteOutputFails \/ PruneFails \/ FinishFailed \/ SaveFnResultsFails
      BY <2>5 DEF GiveUp, WriteFails, WriteOutputFails, PruneFails, FinishFailed,
         SaveFnResultsFails, ExactInv, SuccessIsExact
    <2> QED BY <1>2, <2>1, <2>2, <2>3, <2>4, <2>5 DEF TailStep
  <1>3. CASE UNCHANGED vars
    <2>1. UNCHANGED <<pc, disk0, disk, outputFiles, res, hydErr, opts, result>>
      BY <1>3 DEF vars, given, onDisk, walk, outcome
    <2>2. Keys(res[Root])' = Keys(res[Root])
      BY <2>1 DEF Keys
    <2>3. {r \in disk0 : Key(r) \notin Keys(res[Root])}' = {r \in disk0 : Key(r) \notin Keys(res[Root])}
      BY <2>1, <2>2 DEF Key
    <2> QED BY <2>1, <2>2, <2>3 DEF ExactInv, SuccessIsExact
  <1> QED BY <1>1, <1>2, <1>3 DEF Next, BeforeTail

(* Whatever the tree and whatever functions delete, a successful in-place   *)
(* render leaves exactly the output of the pipelines on disk: the walk has  *)
(* been to every package, so pruneResources knows every file that was there *)
(* before.                                                                  *)
THEOREM SuccessIsExactHolds == Spec => []SuccessIsExact
  <1>1. Init => ExactInv
    BY DEF Init, ExactInv, SuccessIsExact
  <1>2. ExactInv => SuccessIsExact
    BY DEF ExactInv
  <1>3. TypeOK /\ DiskInv /\ WalkInv /\ ExactInv /\ [Next]_vars
        => DiskInv' /\ WalkInv' /\ ExactInv'
    BY DiskInvStep, WalkInvStep, ExactInvStep
  <1> QED BY <1>1, <1>2, <1>3, DiskInvInit, WalkInvInit, TypeCorrect, PTL DEF Spec

-----------------------------------------------------------------------------
(* The package tree.                                                        *)

(* The parent of a package other than the root is another package, and not  *)
(* one nested in it.                                                        *)
LEMMA ParentAbove ==
  ASSUME NEW p \in Pkgs \ {Root}
  PROVE  Parent[p] \in Pkgs /\ Parent[p] # p /\ Parent[p] \notin Below[p]
  <1>1. Parent[p] \in Pkgs /\ p \in Below[Parent[p]]
    BY TreeAssumption
  <1>2. Parent[p] # p
    <2> SUFFICES ASSUME Parent[p] = p PROVE FALSE
      OBVIOUS
    <2> DEFINE S == Pkgs \ {p}
    <2>1. S \in SUBSET Pkgs /\ Root \in S
      BY TreeAssumption
    <2>2. ASSUME NEW q \in S, NEW i \in DOMAIN Children[q] PROVE Children[q][i] \in S
      <3>1. Parent[Children[q][i]] = q /\ Children[q][i] \in Pkgs
        BY TreeAssumption
      <3> QED BY <3>1
    <2>3. S = Pkgs
      <3> HIDE DEF S
      <3> QED BY <2>1, <2>2, WholeTree
    <2> QED BY <2>3
  <1> QED BY <1>1, <1>2, BelowAssumption

(* A set of packages that has the parent of each of its members has, with a *)
(* package, every package around it.                                        *)
LEMMA ClosedUpwards ==
  ASSUME NEW A \in SUBSET Pkgs,
         \A p \in A \ {Root} : Parent[p] \in A,
         NEW x \in A, NEW d \in Pkgs, x \in Below[d]
  PROVE  d \in A
  <1> DEFINE S == {y \in Pkgs : y \in A => \A e \in Pkgs : y \in Below[e] => e \in A}
  <1>1. S \in SUBSET Pkgs
    OBVIOUS
  <1>2. Root \in S
    BY TreeAssumption, BelowAssumption
  <1>3. ASSUME NEW y \in S, NEW i \in DOMAIN Children[y] PROVE Children[y][i] \in S
    <2> DEFINE c == Children[y][i]
    <2>1. c \in Pkgs \ {Root} /\ Parent[c] = y
      BY TreeAssumption
    <2>2. ASSUME c \in A, NEW e \in Pkgs, c \in Below[e] PROVE e \in A
      <3>1. CASE e = c
        BY <2>2, <3>1
      <3>2. CASE e # c
        <4>1. y \in Below[e] /\ y \in A
          BY <2>1, <2>2, <3>2, BelowAssumption
        <4> QED BY <4>1
      <3> QED BY <3>1, <3>2
    <2> QED BY <2>1, <2>2
  <1>4. S = Pkgs
    <2> HIDE DEF S
    <2> QED BY <1>1, <1>2, <1>3, WholeTree
  <1> QED BY <1>4

(* A package nested in p is nested in one of p's direct subpackages.        *)
LEMMA ChildBetween ==
  ASSUME NEW p \in Pkgs, NEW x \in Below[p], x # p
  PROVE  \E i \in DOMAIN Children[p] : x \in Below[Children[p][i]]
  <1> DEFINE S == {y \in Pkgs : y \in Below[p] /\ y # p =>
                                \E i \in DOMAIN Children[p] : y \in Below[Children[p][i]]}
  <1>1. S \in SUBSET Pkgs
    OBVIOUS
  <1>2. Root \in S
    BY TreeAssumption, BelowAssumption
  <1>3. ASSUME NEW y \in S, NEW j \in DOMAIN Children[y] PROVE Children[y][j] \in S
    <2> DEFINE c == Children[y][j]
    <2>1. c \in Pkgs \ {Root} /\ Parent[c] = y /\ c \in Below[c] /\ c \in Below[y] /\ y \in Pkgs
      BY TreeAssumption
    <2>2. ASSUME c \in Below[p], c # p
          PROVE  \E i \in DOMAIN Children[p] : c \in Below[Children[p][i]]
      <3>1. y \in Below[p]
        BY <2>1, <2>2, BelowAssumption
      <3>2. CASE y = p
        BY <2>1, <3>2
      <3>3. CASE y # p
        <4>1. PICK i \in DOMAIN Children[p] : y \in Below[Children[p][i]]
          BY <3>1, <3>3
        <4>2. Children[p][i] \in Pkgs
          BY TreeAssumption
        <4>3. Below[y] \subseteq Below[Children[p][i]]
          BY <2>1, <4>1, <4>2, TreeAssumption
        <4> QED BY <2>1, <4>3
      <3> QED BY <3>2, <3>3
    <2> QED BY <2>1, <2>2
  <1>4. S = Pkgs
    <2> HIDE DEF S
    <2> QED BY <1>1, <1>2, <1>3, WholeTree
  <1>5. x \in Pkgs
    BY TreeAssumption
  <1> QED BY <1>4, <1>5

(* Of two packages around the same package one is nested in the other.      *)
LEMMA Comparable ==
  ASSUME NEW x \in Pkgs, NEW p \in Pkgs, NEW q \in Pkgs, x \in Below[p], x \in Below[q]
  PROVE  p \in Below[q] \/ q \in Below[p]
  <1> DEFINE S == {y \in Pkgs : \A d, e \in Pkgs :
                      y \in Below[d] /\ y \in Below[e] => d \in Below[e] \/ e \in Below[d]}
  <1>1. S \in SUBSET Pkgs
    OBVIOUS
  <1>2. Root \in S
    BY TreeAssumption, BelowAssumption
  <1>3. ASSUME NEW y \in S, NEW i \in DOMAIN Children[y] PROVE Children[y][i] \in S
    <2> DEFINE c == Children[y][i]
    <2>1. c \in Pkgs \ {Root} /\ Parent[c] = y
      BY TreeAssumption
    <2>2. ASSUME NEW d \in Pkgs, NEW e \in Pkgs, c \in Below[d], c \in Below[e]
          PROVE  d \in Below[e] \/ e \in Below[d]
      <3>1. CASE c = d \/ c = e
        BY <2>2, <3>1
      <3>2. CASE c # d /\ c # e
        <4>1. y \in Below[d] /\ y \in Below[e]
          BY <2>1, <2>2, <3>2, BelowAssumption
        <4> QED BY <4>1
      <3> QED BY <3>1, <3>2
    <2> QED BY <2>1, <2>2
  <1>4. S = Pkgs
    <2> HIDE DEF S
    <2> QED BY <1>1, <1>2, <1>3, WholeTree
  <1> QED BY <1>4

-----------------------------------------------------------------------------
(* The functions.                                                           *)

(* An id of a mutator tells its package, its place and the function.        *)
LEMMA MutatorId ==
  ASSUME NEW p \in Pkgs, NEW i \in DOMAIN Mutators[p]
  PROVE  /\ Owner(Mutators[p][i].id) = p
         /\ Position(Mutators[p][i].id) = i
         /\ MutatorOf(Mutators[p][i].id) = Mutators[p][i]
  <1> DEFINE id == Mutators[p][i].id
  <1>1. \A q \in Pkgs : id \in {f.id : f \in Range(Mutators[q])} => q = p
    BY IdAssumption DEF Range
  <1>2. id \in {f.id : f \in Range(Mutators[p])}
    BY DEF Range
  <1>3. Owner(id) = p
    BY <1>1, <1>2 DEF Owner
  <1>4. \A j \in DOMAIN Mutators[p] : Mutators[p][j].id = id => j = i
    BY IdAssumption
  <1>5. Position(id) = i
    BY <1>3, <1>4 DEF Position
  <1>6. \A f \in UNION {Range(Mutators[q]) : q \in Pkgs} : f.id = id => f = Mutators[p][i]
    <2> SUFFICES ASSUME NEW q \in Pkgs, NEW j \in DOMAIN Mutators[q], Mutators[q][j].id = id
                 PROVE  Mutators[q][j] = Mutators[p][i]
      BY DEF Range
    <2> QED BY IdAssumption
  <1>7. Mutators[p][i] \in UNION {Range(Mutators[q]) : q \in Pkgs}
    BY DEF Range
  <1>8. MutatorOf(id) = Mutators[p][i]
    <2> DEFINE F == UNION {Range(Mutators[q]) : q \in Pkgs}
    <2>1. Mutators[p][i] \in F /\ \A f \in F : f.id = id => f = Mutators[p][i]
      BY <1>6, <1>7
    <2>2. MutatorOf(id) = CHOOSE f \in F : f.id = id
      BY DEF MutatorOf
    <2> HIDE DEF F
    <2> QED BY <2>1, <2>2
  <1> QED BY <1>3, <1>5, <1>8

-----------------------------------------------------------------------------
(* The shape of the walks.  Depth first, cur is nested in every package     *)
(* that is being hydrated, and with a package everything nested in it is    *)
(* wet.  Breadth first, a package comes after its parent in allNodes, so    *)
(* the wet packages are closed under Parent.                                *)

Wet(p) == state[p] = "Wet"
WetPkgs == {p \in Pkgs : Wet(p)}

NestInv ==
    ~opts.bfs /\ pc \in {"walk"} \cup Running =>
       /\ \A h \in Pkgs : Hydrating(h) => cur \in Below[h]
       /\ \A p \in Pkgs \ {Root} : p \in Discovered => Parent[p] \in Discovered
       /\ \A p \in Pkgs : Wet(p) => \A q \in Below[p] : Wet(q)

(* The invariant depends on these variables only.                           *)
LEMMA NestInvSame ==
  ASSUME NestInv, UNCHANGED <<opts, cur, state>>,
         pc' \in {"walk"} \cup Running => pc \in {"walk"} \cup Running
  PROVE  NestInv'
  BY DEF NestInv, Hydrating, Discovered, Wet

(* hydrate opens the next subpackage.                                       *)
LEMMA NestOfSubpackage ==
  ASSUME TypeOK, WalkInv, NestInv, HydrateSubpackage
  PROVE  NestInv'
  <1> DEFINE sub == Children[cur][next[cur]]
  <1>0. /\ cur \in Pkgs /\ next \in [Pkgs -> Nat \ {0}] /\ state \in [Pkgs -> StateType]
        /\ pc = "walk" /\ pc' = "walk" /\ ~opts.bfs /\ UNCHANGED opts
    BY DEF TypeOK, HydrateSubpackage, WalkInv, ModeInv, given
  <1>1. sub \in Pkgs
    BY NextChildType DEF HydrateSubpackage
  <1>2. next[cur] \in DOMAIN Children[cur]
    <2>1. Children[cur] \in Seq(Pkgs) /\ next[cur] \in Nat \ {0}
      BY <1>0, TreeAssumption
    <2>2. next[cur] <= Len(Children[cur])
      BY <2>1 DEF HydrateSubpackage, SubpackagesDone
    <2> QED BY <2>1, <2>2
  <1>3. sub # Root /\ Parent[sub] = cur /\ sub \in Below[cur] /\ sub \in Below[sub]
    BY <1>0, <1>1, <1>2, TreeAssumption
  <1>4. /\ state[sub] = "Undiscovered" /\ state' = [state EXCEPT ![sub] = "Hydrating"]
        /\ cur' = sub
    BY <1>1 DEF HydrateSubpackage, HydrateEnter, Discovered
  <1>5. PathInv
    BY <1>0 DEF WalkInv, StackInv
  <1>6. /\ \A h \in Pkgs : Hydrating(h) => cur \in Below[h]
        /\ \A p \in Pkgs \ {Root} : p \in Discovered => Parent[p] \in Discovered
        /\ \A p \in Pkgs : Wet(p) => \A q \in Below[p] : Wet(q)
    BY <1>0 DEF NestInv
  <1>7. \A h \in Pkgs : Hydrating(h)' => cur' \in Below[h]
    <2>1. ASSUME NEW h \in Pkgs, Hydrating(h)' PROVE sub \in Below[h]
      <3>1. h = sub \/ Hydrating(h)
        BY <1>0, <1>4, <2>1 DEF Hydrating
      <3>2. CASE Hydrating(h)
        <4>1. cur \in Below[h]
          BY <1>6, <3>2
        <4>2. Below[cur] \subseteq Below[h]
          BY <1>0, <4>1, TreeAssumption
        <4> QED BY <1>3, <4>2
      <3> QED BY <1>3, <3>1, <3>2
    <2> QED BY <1>4, <2>1
  <1>8. \A p \in Pkgs \ {Root} : p \in Discovered' => Parent[p] \in Discovered'
    <2>1. Discovered' = Discovered \cup {sub}
      BY <1>0, <1>1, <1>4 DEF Discovered
    <2>2. cur \in Discovered
      BY <1>0, <1>5 DEF PathInv, Hydrating, Discovered
    <2> QED BY <1>3, <1>6, <2>1, <2>2
  <1>9. \A p \in Pkgs : Wet(p)' => \A q \in Below[p] : Wet(q)'
    <2>1. ASSUME NEW p \in Pkgs, Wet(p)', NEW q \in Below[p] PROVE Wet(q)'
      <3>1. Wet(p) /\ q \in Pkgs
        BY <1>0, <1>1, <1>4, <2>1, TreeAssumption DEF Wet
      <3>2. Wet(q)
        BY <1>6, <3>1
      <3> QED BY <1>0, <1>4, <3>1, <3>2 DEF Wet
    <2> QED BY <2>1
  <1> QED BY <1>7, <1>8, <1>9 DEF NestInv

(* At the end of a package's pipeline everything nested in it is wet.       *)
LEMMA AllBelowWet ==
  ASSUME TypeOK, WalkInv, NestInv, ~opts.bfs, pc \in Running
  PROVE  \A q \in Below[cur] \ {cur} : Wet(q)
  <1>0. /\ cur \in Pkgs /\ next[cur] \in Nat /\ state \in [Pkgs -> StateType]
        /\ PathInv /\ next[cur] > Len(Children[cur])
    <2>1. next \in [Pkgs -> Nat \ {0}] /\ cur \in Pkgs
      BY DEF TypeOK
    <2>2. next[cur] \in Nat
      BY <2>1
    <2> QED BY <2>1, <2>2 DEF TypeOK, WalkInv, StackInv, Running
  <1>1. ASSUME NEW q \in Below[cur] \ {cur} PROVE Wet(q)
    <2>1. PICK i \in DOMAIN Children[cur] : q \in Below[Children[cur][i]]
      BY <1>0, ChildBetween
    <2> DEFINE c == Children[cur][i]
    <2>2. c \in Pkgs \ {Root} /\ Parent[c] = cur
      BY <1>0, TreeAssumption
    <2>3. i < next[cur]
      <3>1. Children[cur] \in Seq(Pkgs)
        BY <1>0, TreeAssumption
      <3>2. i \in Nat /\ i <= Len(Children[cur]) /\ Len(Children[cur]) \in Nat
        BY <3>1
      <3> QED BY <1>0, <3>2
    <2>4. c \in Discovered
      BY <1>0, <2>3 DEF WalkInv, SeenInv
    <2>5. state[c] # "Hydrating" /\ state[c] # "Dry" /\ state[c] # "Undiscovered"
      BY <1>0, <2>2, <2>4 DEF PathInv, Hydrating, Discovered
    <2>6. Wet(c)
      BY <1>0, <2>2, <2>5 DEF StateType, Wet
    <2> QED BY <2>1, <2>2, <2>6 DEF NestInv
  <1> QED BY <1>1

(* hydrate returns from a subpackage.                                       *)
LEMMA NestOfReturn ==
  ASSUME TypeOK, WalkInv, NestInv, HydrateReturn
  PROVE  NestInv'
  <1>0. /\ cur \in Pkgs /\ state \in [Pkgs -> StateType]
        /\ pc = "return" /\ ~opts.bfs /\ UNCHANGED opts
        /\ state' = [state EXCEPT ![cur] = "Wet"]
    BY DEF TypeOK, HydrateReturn, given
  <1>1. CASE cur = Root
    <2>1. pc' = "tail"
      BY <1>1 DEF HydrateReturn
    <2> QED BY <2>1 DEF NestInv, Running
  <1>2. CASE cur # Root
    <2>1. cur' = Parent[cur]
      BY <1>2 DEF HydrateReturn
    <2>2. /\ \A h \in Pkgs : Hydrating(h) => cur \in Below[h]
          /\ \A p \in Pkgs \ {Root} : p \in Discovered => Parent[p] \in Discovered
          /\ \A p \in Pkgs : Wet(p) => \A q \in Below[p] : Wet(q)
      BY <1>0 DEF NestInv, Running
    <2>3. \A h \in Pkgs : Hydrating(h)' => cur' \in Below[h]
      <3>1. ASSUME NEW h \in Pkgs, Hydrating(h)' PROVE Parent[cur] \in Below[h]
        <4>1. h # cur /\ Hydrating(h)
          BY <1>0, <3>1 DEF Hydrating
        <4> QED BY <1>0, <2>2, <4>1, BelowAssumption
      <3> QED BY <2>1, <3>1
    <2>4. Discovered' = Discovered
      <3>1. Hydrating(cur)
        BY <1>0 DEF WalkInv, StackInv, PathInv, Running
      <3> QED BY <1>0, <3>1 DEF Discovered, Hydrating
    <2>5. \A p \in Pkgs : Wet(p)' => \A q \in Below[p] : Wet(q)'
      <3>1. ASSUME NEW p \in Pkgs, Wet(p)', NEW q \in Below[p] PROVE Wet(q)'
        <4>1. q \in Pkgs
          BY TreeAssumption
        <4>2. Wet(q) \/ q = cur
          <5>1. CASE p = cur
            BY <1>0, <5>1, AllBelowWet DEF Running
          <5>2. CASE p # cur
            BY <1>0, <2>2, <3>1, <5>2 DEF Wet
          <5> QED BY <5>1, <5>2
        <4> QED BY <1>0, <4>1, <4>2 DEF Wet
      <3> QED BY <3>1
    <2> QED BY <2>2, <2>3, <2>4, <2>5 DEF NestInv
  <1> QED BY <1>1, <1>2

(* Every step of the specification preserves NestInv.                       *)
LEMMA NestInvStep ==
  ASSUME TypeOK, WalkInv, NestInv, [Next]_vars
  PROVE  NestInv'
  <1>1. CASE ExecuteInvalid \/ ExecuteBfs \/ TailStep
    <2>1. pc' \notin {"walk"} \cup Running
      BY <1>1 DEF ExecuteInvalid, ExecuteBfs, TailStep, GiveUp, WriteResources, AfterWrite,
         WriteFails, WriteOutput, WriteOutputFails, PruneResources, PruneFails, FinishFailed,
         FinishOk, SaveFnResultsFails, Running
    <2> QED BY <2>1 DEF NestInv
  <1>2. CASE ExecuteDfs
    <2>1. /\ cur' = Root /\ state' = [state EXCEPT ![Root] = "Hydrating"]
          /\ state \in [Pkgs -> StateType] /\ Root \in Pkgs /\ Below[Root] = Pkgs
          /\ \A p \in Pkgs : state[p] = "Undiscovered"
      BY <1>2, TreeAssumption
      DEF ExecuteDfs, HydrateEnter, TypeOK, WalkInv, ModeInv, Discovered
    <2>2. \A p \in Pkgs : state'[p] = IF p = Root THEN "Hydrating" ELSE "Undiscovered"
      BY <2>1
    <2> QED BY <2>1, <2>2 DEF NestInv, Hydrating, Discovered, Wet
  <1>3. CASE HydrateSubpackageInvalid \/ HydrateUnreadable \/ HydrateRunPipeline \/ HydrateFailed
    <2>1. UNCHANGED <<opts, cur, state>> /\ (pc = "walk" \/ pc' = "tail")
      BY <1>3 DEF HydrateSubpackageInvalid, HydrateUnreadable, HydrateRunPipeline,
         HydrateFailed, given, walk
    <2> QED BY <2>1, NestInvSame DEF Running
  <1>4. CASE HydrateUnwind
    <2>1. pc' = "unwind"
      BY <1>4 DEF HydrateUnwind
    <2> QED BY <2>1 DEF NestInv, Running
  <1>5. CASE BfsStep
    <2>1. opts' = opts /\ opts.bfs
      BY <1>5 DEF BfsStep, Discover, DiscoverUnreadable, DiscoverDone, BfsRunPipeline,
         BfsReturn, BfsDone, given,
         WalkInv, ModeInv
    <2> QED BY <2>1 DEF NestInv
  <1>6. CASE PipelineStep
    BY <1>6, PipelineKeepsWalk, NestInvSame
  <1>7. CASE UNCHANGED vars
    BY <1>7, NestInvSame DEF vars, given, walk
  <1> QED BY <1>1, <1>2, <1>3, <1>4, <1>5, <1>6, <1>7, NestOfSubpackage, NestOfReturn
      DEF Next, DfsStep

(* What a queue holds after its head is taken off.                          *)
LEMMA TailOf ==
  ASSUME NEW S, NEW s \in Seq(S), s # <<>>
  PROVE  /\ 1 \in DOMAIN s /\ Head(s) = s[1]
         /\ \A i \in DOMAIN Tail(s) : i + 1 \in DOMAIN s /\ Tail(s)[i] = s[i + 1]
         /\ \A i \in DOMAIN s : i # 1 => i - 1 \in DOMAIN Tail(s)
         /\ \A i \in DOMAIN s : i \in Nat /\ 1 <= i
         /\ \A i \in DOMAIN Tail(s) : i \in Nat /\ 1 <= i
  OBVIOUS

(* Concatenation adds no element.                                           *)
LEMMA RangeOfConcat ==
  ASSUME NEW S, NEW s \in Seq(S), NEW t \in Seq(S)
  PROVE  \A i \in DOMAIN (s \o t) : (s \o t)[i] \in Range(s) \cup Range(t)
  <1>1. ASSUME NEW i \in DOMAIN (s \o t) PROVE (s \o t)[i] \in Range(s) \cup Range(t)
    <2>1. /\ DOMAIN s = 1 .. Len(s) /\ DOMAIN t = 1 .. Len(t)
          /\ Len(s) \in Nat /\ Len(t) \in Nat /\ i \in 1 .. (Len(s) + Len(t))
      OBVIOUS
    <2>2. CASE i <= Len(s)
      <3>1. i \in DOMAIN s /\ (s \o t)[i] = s[i]
        BY <2>1, <2>2
      <3> QED BY <3>1 DEF Range
    <2>3. CASE i > Len(s)
      <3>1. i - Len(s) \in DOMAIN t /\ (s \o t)[i] = t[i - Len(s)]
        BY <2>1, <2>3
      <3> QED BY <3>1 DEF Range
    <2> QED BY <2>1, <2>2, <2>3
  <1> QED BY <1>1

(* Appending to a sequence.                                                 *)
LEMMA AppendOf ==
  ASSUME NEW S, NEW s \in Seq(S), NEW x
  PROVE  /\ DOMAIN Append(s, x) = DOMAIN s \cup {Len(s) + 1}
         /\ \A i \in DOMAIN s : Append(s, x)[i] = s[i] /\ i \in Nat /\ 1 <= i /\ i <= Len(s)
         /\ Append(s, x)[Len(s) + 1] = x
         /\ Range(Append(s, x)) = Range(s) \cup {x}
         /\ Len(s) \in Nat /\ Len(Append(s, x)) = Len(s) + 1
         /\ DOMAIN s = 1 .. Len(s)
  <1>1. /\ DOMAIN Append(s, x) = 1 .. (Len(s) + 1) /\ DOMAIN s = 1 .. Len(s) /\ Len(s) \in Nat
        /\ \A i \in 1 .. Len(s) : Append(s, x)[i] = s[i]
        /\ Append(s, x)[Len(s) + 1] = x /\ Len(Append(s, x)) = Len(s) + 1
    OBVIOUS
  <1>2. DOMAIN Append(s, x) = DOMAIN s \cup {Len(s) + 1}
    BY <1>1
  <1>3. Range(Append(s, x)) = Range(s) \cup {x}
    BY <1>1, <1>2 DEF Range
  <1> QED BY <1>1, <1>2, <1>3

NodesInv ==
    /\ pc = "start" => order = <<>>
    /\ opts.bfs /\ pc \in {"discover", "bfs", "tail"} \cup Running => Range(order) = Discovered

DiscoverInv ==
    pc = "discover" =>
       /\ \A p \in Pkgs : state[p] \in {"Undiscovered", "Dry"}
       /\ \A i, j \in DOMAIN order : order[i] = order[j] => i = j
       /\ \A i \in DOMAIN order : order[i] # Root =>
             \E j \in DOMAIN order : j < i /\ order[j] = Parent[order[i]]
       /\ \A i \in DOMAIN queue : queue[i] # Root => Parent[queue[i]] \in Range(order)

VisitInv ==
    opts.bfs /\ pc \in {"bfs"} \cup Running =>
       /\ \A i \in DOMAIN queue : state[queue[i]] = "Dry"
       /\ \A i, j \in DOMAIN queue : queue[i] = queue[j] => i = j
       /\ \A i \in DOMAIN queue : queue[i] # Root =>
             \/ Wet(Parent[queue[i]])
             \/ pc # "bfs" /\ Parent[queue[i]] = cur
             \/ \E j \in DOMAIN queue : j < i /\ queue[j] = Parent[queue[i]]
       /\ \A p \in Pkgs \ {Root} : Wet(p) => Wet(Parent[p])
       /\ pc # "bfs" => Hydrating(cur) /\ (cur # Root => Wet(Parent[cur]))

LevelInv == NodesInv /\ DiscoverInv /\ VisitInv

(* A package is discovered: it comes after its parent.                      *)
LEMMA LevelOfDiscover ==
  ASSUME TypeOK, WalkInv, LevelInv, Discover
  PROVE  LevelInv'
  <1> DEFINE p == Head(queue)
  <1>0. /\ queue \in Seq(Pkgs) /\ queue # <<>> /\ pc = "discover" /\ opts.bfs /\ opts' = opts
        /\ order \in Seq(Pkgs) /\ order' = Append(order, p)
        /\ state \in [Pkgs -> StateType] /\ state' = [state EXCEPT ![p] = "Dry"]
        /\ p \notin Discovered
    BY DEF TypeOK, Discover, WalkInv, ModeInv, given
  <1>1. p \in Pkgs /\ Tail(queue) \in Seq(Pkgs) /\ Children[p] \in Seq(Pkgs)
    BY <1>0, HeadTailType, TreeAssumption
  <1>2. /\ DOMAIN order' = DOMAIN order \cup {Len(order) + 1}
        /\ \A i \in DOMAIN order : order'[i] = order[i] /\ i \in Nat /\ i <= Len(order)
        /\ order'[Len(order) + 1] = p /\ Range(order') = Range(order) \cup {p}
        /\ Len(order) \in Nat
    BY <1>0, AppendOf
  <1>3. Range(order) = Discovered /\ DiscoverInv
    BY <1>0 DEF LevelInv, NodesInv
  <1>4. NodesInv'
    <2>1. Discovered' = Discovered \cup {p}
      BY <1>0, <1>1 DEF Discovered
    <2>2. pc' # "start"
      BY <1>0 DEF Discover
    <2> QED BY <1>2, <1>3, <2>1, <2>2 DEF NodesInv
  <1>5. ASSUME pc' = "discover", queue' = Tail(queue) \o Children[p] PROVE DiscoverInv'
    <2>1. \A q \in Pkgs : state'[q] \in {"Undiscovered", "Dry"}
      BY <1>0, <1>1, <1>3 DEF DiscoverInv
    <2>2. \A i \in DOMAIN order : order[i] # p
      BY <1>0, <1>3 DEF Range
    <2>3. \A i, j \in DOMAIN order' : order'[i] = order'[j] => i = j
      BY <1>0, <1>2, <1>3, <2>2 DEF DiscoverInv
    <2>4. p # Root => \E j \in DOMAIN order : order[j] = Parent[p]
      <3>1. 1 \in DOMAIN queue /\ p = queue[1]
        BY <1>0, TailOf
      <3> QED BY <1>0, <1>3, <3>1 DEF DiscoverInv, Range
    <2>5. ASSUME NEW i \in DOMAIN order', order'[i] # Root
          PROVE  \E j \in DOMAIN order' : j < i /\ order'[j] = Parent[order'[i]]
      <3>1. CASE i \in DOMAIN order
        <4>1. order'[i] = order[i]
          BY <1>2, <3>1
        <4>2. PICK j \in DOMAIN order : j < i /\ order[j] = Parent[order[i]]
          BY <1>0, <1>3, <2>5, <3>1, <4>1 DEF DiscoverInv
        <4> QED BY <1>2, <4>1, <4>2
      <3>2. CASE i = Len(order) + 1
        <4>1. order'[i] = p
          BY <1>2, <3>2
        <4>2. PICK j \in DOMAIN order : order[j] = Parent[p]
          BY <2>4, <2>5, <4>1
        <4>3. j < Len(order) + 1
          BY <1>2
        <4> QED BY <1>2, <3>2, <4>1, <4>2, <4>3
      <3> QED BY <1>2, <3>1, <3>2
    <2>6. ASSUME NEW i \in DOMAIN queue', queue'[i] # Root
          PROVE  Parent[queue'[i]] \in Range(order')
      <3>1. queue'[i] \in Range(Tail(queue)) \cup Range(Children[p])
        BY <1>1, <1>5, RangeOfConcat
      <3>2. CASE queue'[i] \in Range(Children[p])
        <4>1. Parent[queue'[i]] = p
          BY <1>1, <3>2, TreeAssumption DEF Range
        <4> QED BY <1>2, <4>1
      <3>3. CASE queue'[i] \in Range(Tail(queue))
        <4>1. PICK j \in DOMAIN queue : queue'[i] = queue[j]
          BY <1>0, <3>3, TailOf DEF Range
        <4> QED BY <1>0, <1>2, <1>3, <2>6, <4>1 DEF DiscoverInv
      <3> QED BY <3>1, <3>2, <3>3
    <2> QED BY <2>1, <2>3, <2>5, <2>6 DEF DiscoverInv
  <1>6. VisitInv'
    <2>1. pc' \in {"discover", "tail"}
      BY <1>0 DEF Discover
    <2> QED BY <2>1 DEF VisitInv, Running
  <1>7. DiscoverInv'
    <2>1. pc' = "tail" \/ (pc' = "discover" /\ queue' = Tail(queue) \o Children[p])
      BY <1>0 DEF Discover, QueueAfter
    <2> QED BY <1>5, <2>1 DEF DiscoverInv
  <1> QED BY <1>4, <1>6, <1>7 DEF LevelInv

(* All packages are discovered: allNodes is the queue of the second phase.  *)
LEMMA LevelOfDiscoverDone ==
  ASSUME TypeOK, WalkInv, LevelInv, DiscoverDone
  PROVE  LevelInv'
  <1>0. /\ pc = "discover" /\ pc' = "bfs" /\ opts.bfs /\ UNCHANGED <<opts, state, order>>
        /\ queue' = order /\ order \in Seq(Pkgs)
    BY DEF TypeOK, DiscoverDone, WalkInv, ModeInv, given, walk
  <1>1. Range(order) = Discovered /\ DiscoverInv
    BY <1>0 DEF LevelInv, NodesInv
  <1>2. NodesInv'
    BY <1>0, <1>1 DEF NodesInv, Discovered
  <1>3. \A i \in DOMAIN order : order[i] \in Pkgs /\ state[order[i]] = "Dry"
    BY <1>0, <1>1 DEF DiscoverInv, Discovered, Range
  <1>4. \A p \in Pkgs : ~Wet(p)'
    BY <1>0, <1>1 DEF DiscoverInv, Wet
  <1>5. VisitInv'
    BY <1>0, <1>1, <1>3, <1>4 DEF VisitInv, DiscoverInv
  <1> QED BY <1>0, <1>2, <1>5 DEF LevelInv, DiscoverInv

(* The next package of allNodes: its parent is wet.                         *)
LEMMA LevelOfRunPipeline ==
  ASSUME TypeOK, WalkInv, LevelInv, BfsRunPipeline
  PROVE  LevelInv'
  <1> DEFINE p == Head(queue)
  <1>0. /\ queue \in Seq(Pkgs) /\ queue # <<>> /\ pc = "bfs" /\ pc' = "pipeline"
        /\ opts.bfs /\ UNCHANGED <<opts, order>> /\ cur' = p /\ queue' = Tail(queue)
        /\ state \in [Pkgs -> StateType] /\ state' = [state EXCEPT ![p] = "Hydrating"]
    BY DEF TypeOK, BfsRunPipeline, WalkInv, ModeInv, given
  <1>1. p \in Pkgs /\ Tail(queue) \in Seq(Pkgs)
    BY <1>0, HeadTailType
  <1>2. /\ 1 \in DOMAIN queue /\ p = queue[1]
        /\ \A i \in DOMAIN queue' : i + 1 \in DOMAIN queue /\ queue'[i] = queue[i + 1]
        /\ \A i \in DOMAIN queue : i # 1 => i - 1 \in DOMAIN queue'
        /\ \A i \in DOMAIN queue : i \in Nat /\ 1 <= i
        /\ \A i \in DOMAIN queue' : i \in Nat /\ 1 <= i
    BY <1>0, TailOf
  <1>3. VisitInv /\ Range(order) = Discovered /\ state[p] = "Dry"
    BY <1>0, <1>2 DEF LevelInv, NodesInv, VisitInv
  <1>4. NodesInv'
    <2>1. Discovered' = Discovered
      BY <1>0, <1>1, <1>3 DEF Discovered
    <2> QED BY <1>0, <1>3, <2>1 DEF NodesInv
  <1>5. \A q \in Pkgs : state'[q] = "Wet" <=> Wet(q)
    BY <1>0, <1>1, <1>3 DEF Wet
  <1>6. \A i \in DOMAIN queue : queue[i] \in Pkgs /\ Parent[queue[i]] \in Pkgs
    <2>1. \A i \in DOMAIN queue : queue[i] \in Pkgs
      BY <1>0
    <2> QED BY <2>1, TreeAssumption
  <1>7. \A i \in DOMAIN queue' : state'[queue'[i]] = "Dry"
    <2>1. ASSUME NEW i \in DOMAIN queue' PROVE state'[queue'[i]] = "Dry"
      <3>1. i + 1 \in DOMAIN queue /\ queue'[i] = queue[i + 1] /\ i + 1 # 1
        BY <1>2
      <3>2. queue[i + 1] # p /\ state[queue[i + 1]] = "Dry"
        BY <1>0, <1>2, <1>3, <3>1 DEF VisitInv
      <3> QED BY <1>0, <1>6, <3>1, <3>2
    <2> QED BY <2>1
  <1>8. \A i, j \in DOMAIN queue' : queue'[i] = queue'[j] => i = j
    <2>1. ASSUME NEW i \in DOMAIN queue', NEW j \in DOMAIN queue', queue'[i] = queue'[j]
          PROVE  i = j
      <3>1. i + 1 = j + 1
        BY <1>0, <1>2, <1>3, <2>1 DEF VisitInv
      <3> QED BY <1>2, <3>1
    <2> QED BY <2>1
  <1>9. ASSUME NEW i \in DOMAIN queue', queue'[i] # Root
        PROVE  \/ state'[Parent[queue'[i]]] = "Wet"
               \/ Parent[queue'[i]] = p
               \/ \E j \in DOMAIN queue' : j < i /\ queue'[j] = Parent[queue'[i]]
    <2>1. i + 1 \in DOMAIN queue /\ queue'[i] = queue[i + 1] /\ i \in Nat
      BY <1>2
    <2>2. \/ Wet(Parent[queue[i + 1]])
          \/ \E j \in DOMAIN queue : j < i + 1 /\ queue[j] = Parent[queue[i + 1]]
      BY <1>0, <1>3, <1>9, <2>1 DEF VisitInv
    <2>3. CASE Wet(Parent[queue[i + 1]])
      BY <1>5, <1>6, <2>1, <2>3
    <2>4. CASE \E j \in DOMAIN queue : j < i + 1 /\ queue[j] = Parent[queue[i + 1]]
      <3>1. PICK j \in DOMAIN queue : j < i + 1 /\ queue[j] = Parent[queue[i + 1]]
        BY <2>4
      <3>2. CASE j = 1
        BY <1>2, <2>1, <3>1, <3>2
      <3>3. CASE j # 1
        <4>1. j - 1 \in DOMAIN queue' /\ j \in Nat
          BY <1>2, <3>3
        <4>2. queue'[j - 1] = queue[j] /\ j - 1 < i
          BY <1>2, <2>1, <3>1, <4>1
        <4> QED BY <2>1, <3>1, <4>1, <4>2
      <3> QED BY <3>2, <3>3
    <2> QED BY <2>2, <2>3, <2>4
  <1>10. \A q \in Pkgs \ {Root} : state'[q] = "Wet" => state'[Parent[q]] = "Wet"
    <2>1. \A q \in Pkgs \ {Root} : Parent[q] \in Pkgs /\ (Wet(q) => Wet(Parent[q]))
      BY <1>0, <1>3, TreeAssumption DEF VisitInv
    <2> QED BY <1>5, <2>1
  <1>11. state'[p] = "Hydrating" /\ (p # Root => state'[Parent[p]] = "Wet")
    <2>1. state'[p] = "Hydrating"
      BY <1>0, <1>1
    <2>2. ASSUME p # Root PROVE state'[Parent[p]] = "Wet"
      <3>1. ~\E j \in DOMAIN queue : j < 1
        BY <1>2
      <3>2. Wet(Parent[queue[1]])
        BY <1>0, <1>2, <1>3, <2>2, <3>1 DEF VisitInv
      <3> QED BY <1>2, <1>5, <1>6, <3>2
    <2> QED BY <2>1, <2>2
  <1>12. VisitInv'
    BY <1>0, <1>7, <1>8, <1>9, <1>10, <1>11 DEF VisitInv, Wet, Hydrating
  <1> QED BY <1>0, <1>4, <1>12 DEF LevelInv, DiscoverInv

(* Its pipeline is done.                                                    *)
LEMMA LevelOfReturn ==
  ASSUME TypeOK, WalkInv, LevelInv, BfsReturn
  PROVE  LevelInv'
  <1>0. /\ queue \in Seq(Pkgs) /\ pc = "return" /\ pc' = "bfs" /\ cur \in Pkgs
        /\ opts.bfs /\ UNCHANGED <<opts, order, cur, queue>>
        /\ state \in [Pkgs -> StateType] /\ state' = [state EXCEPT ![cur] = "Wet"]
    BY DEF TypeOK, BfsReturn, given, visit
  <1>1. VisitInv /\ Range(order) = Discovered /\ Hydrating(cur)
    BY <1>0 DEF LevelInv, NodesInv, VisitInv, Running
  <1>2. NodesInv'
    <2>1. Discovered' = Discovered
      BY <1>0, <1>1 DEF Discovered, Hydrating
    <2> QED BY <1>0, <1>1, <2>1 DEF NodesInv
  <1>3. \A q \in Pkgs : state'[q] = "Wet" <=> Wet(q) \/ q = cur
    BY <1>0 DEF Wet
  <1>4. \A i \in DOMAIN queue : queue[i] \in Pkgs /\ Parent[queue[i]] \in Pkgs
    <2>1. \A i \in DOMAIN queue : queue[i] \in Pkgs
      BY <1>0
    <2> QED BY <2>1, TreeAssumption
  <1>5. \A i \in DOMAIN queue : state'[queue[i]] = "Dry"
    BY <1>0, <1>1, <1>4 DEF VisitInv, Hydrating, Running
  <1>6. \A i \in DOMAIN queue : queue[i] # Root =>
             \/ state'[Parent[queue[i]]] = "Wet"
             \/ \E j \in DOMAIN queue : j < i /\ queue[j] = Parent[queue[i]]
    BY <1>0, <1>1, <1>3, <1>4 DEF VisitInv, Running
  <1>7. \A q \in Pkgs \ {Root} : state'[q] = "Wet" => state'[Parent[q]] = "Wet"
    <2>1. \A q \in Pkgs \ {Root} : Parent[q] \in Pkgs /\ (Wet(q) => Wet(Parent[q]))
      BY <1>0, <1>1, TreeAssumption DEF VisitInv, Running
    <2>2. cur # Root => Wet(Parent[cur])
      BY <1>0, <1>1 DEF VisitInv, Running
    <2> QED BY <1>3, <2>1, <2>2
  <1>8. VisitInv'
    BY <1>0, <1>1, <1>5, <1>6, <1>7 DEF VisitInv, Running, Wet
  <1> QED BY <1>0, <1>2, <1>8 DEF LevelInv, DiscoverInv

(* Every step of the specification preserves LevelInv.                      *)
LEMMA LevelInvStep ==
  ASSUME TypeOK, WalkInv, LevelInv, [Next]_vars
  PROVE  LevelInv'
  <1>1. CASE ExecuteInvalid \/ TailStep
    <2>1. pc' \notin {"start", "discover", "bfs", "tail"} \cup Running
      BY <1>1 DEF ExecuteInvalid, TailStep, GiveUp, WriteResources, AfterWrite,
         WriteFails, WriteOutput, WriteOutputFails, PruneResources, PruneFails, FinishFailed,
         FinishOk, SaveFnResultsFails, Running
    <2> QED BY <2>1 DEF LevelInv, NodesInv, DiscoverInv, VisitInv
  <1>2. CASE ExecuteDfs \/ DfsStep
    <2>1. opts' = opts /\ ~opts.bfs /\ pc' \notin {"start", "discover"}
      BY <1>2 DEF ExecuteDfs, DfsStep, HydrateSubpackage, HydrateSubpackageInvalid, HydrateUnreadable,
         HydrateRunPipeline, HydrateReturn, HydrateUnwind, HydrateFailed, given,
         WalkInv, ModeInv
    <2> QED BY <2>1 DEF LevelInv, NodesInv, DiscoverInv, VisitInv
  <1>3. CASE ExecuteBfs
    <2>1. /\ pc = "start" /\ pc' = "discover" /\ queue' = <<Root>> /\ UNCHANGED <<state, order>>
          /\ \A p \in Pkgs : state[p] = "Undiscovered"
      BY <1>3 DEF ExecuteBfs, WalkInv, ModeInv, Discovered, walk
    <2>2. order = <<>>
      BY <2>1 DEF LevelInv, NodesInv
    <2> QED BY <2>1, <2>2 DEF LevelInv, NodesInv, DiscoverInv, VisitInv, Discovered, Range, Running
  <1>4. CASE BfsDone
    <2>1. UNCHANGED <<opts, state, order>> /\ pc' = "tail" /\ pc = "bfs"
      BY <1>4 DEF BfsDone, given, visit
    <2> QED BY <2>1 DEF LevelInv, NodesInv, DiscoverInv, VisitInv, Discovered, Running
  <1>5. CASE PipelineStep
    <2>1. /\ pc \in Running /\ UNCHANGED <<opts, cur, state, queue, order>>
          /\ pc' \in Running \cup {"tail", "unwind"}
      <3>1. UNCHANGED visit
        BY <1>5 DEF PipelineStep, EmptyPipeline, EmptyPipelineRejected, PipelineInvalid,
           FnChainFails, FnChain, RunMutator, MutatorRuns, SkipMutator, MutatorFails,
           MutatorRejected, MutatorConfigRefMissing, MutatorsDone, ValidatorNotBuilt,
           RunValidator, SkipValidator, ValidatorFails, ValidatorRejected, ValidatorsDone,
           PipelineFails, InPipeline
      <3> QED BY <1>5, <3>1, PipelineKeepsWalk DEF visit
    <2> QED BY <2>1 DEF LevelInv, NodesInv, DiscoverInv, VisitInv, Discovered, Running,
            Wet, Hydrating
  <1>7. CASE DiscoverUnreadable
    <2>1. UNCHANGED <<opts, state, order>> /\ pc = "discover" /\ pc' = "tail"
      BY <1>7 DEF DiscoverUnreadable, given, walk, visit
    <2> QED BY <2>1 DEF LevelInv, NodesInv, DiscoverInv, VisitInv, Discovered, Running
  <1>6. CASE UNCHANGED vars
    <2>1. UNCHANGED <<opts, cur, state, queue, order, pc>>
      BY <1>6 DEF vars, given, walk, visit
    <2> QED BY <2>1 DEF LevelInv, NodesInv, DiscoverInv, VisitInv, Discovered, Running,
            Wet, Hydrating
  <1> QED BY <1>1, <1>2, <1>3, <1>4, <1>5, <1>6, <1>7, LevelOfDiscover, LevelOfDiscoverDone,
             LevelOfRunPipeline, LevelOfReturn DEF Next, BfsStep

(* All that is known of a state without looking at the histories.           *)
BaseInv == TypeOK /\ DiskInv /\ ScopeInv /\ WalkInv /\ NestInv /\ LevelInv

LEMMA BaseInvStep ==
  ASSUME BaseInv, [Next]_vars
  PROVE  BaseInv'
  BY NextType, DiskInvStep, ScopeInvStep, WalkInvStep, NestInvStep, LevelInvStep DEF BaseInv

LEMMA BaseInvInit == Init => BaseInv
  <1> SUFFICES ASSUME Init PROVE BaseInv
    OBVIOUS
  <1>1. ScopeInv
    BY DEF Init, ScopeInv, ScopedVisibility, NoCall, InScope, Running
  <1>2. NestInv /\ LevelInv
    BY DEF Init, NestInv, LevelInv, NodesInv, DiscoverInv, VisitInv, Running
  <1> QED BY <1>1, <1>2, InitType, DiskInvInit, WalkInvInit DEF BaseInv

-----------------------------------------------------------------------------
(* What a step does to the resources.                                       *)

(* The steps of runPipeline: a mutator runs, the list stays as it is, or    *)
(* the pipeline fails with nothing or the list.                             *)
LEMMA PipelineEffect ==
  ASSUME PipelineStep
  PROVE  \/ RunMutator
         \/ InPipeline /\ work' = work /\ pc' \in Running
         \/ work' = work /\ idx' = idx /\ \E out \in {{}, work} : PipelineFails(out)
  <1>1. CASE EmptyPipelineRejected \/ PipelineInvalid \/ FnChainFails \/ MutatorConfigRefMissing
    <2>1. work' = work /\ idx' = idx /\ PipelineFails({})
      BY <1>1 DEF EmptyPipelineRejected, PipelineInvalid, FnChainFails, MutatorConfigRefMissing, pipe
    <2> QED BY <2>1
  <1>2. CASE MutatorFails \/ MutatorRejected \/ ValidatorNotBuilt \/ ValidatorFails
             \/ ValidatorRejected
    <2>1. work' = work /\ idx' = idx /\ PipelineFails(work)
      BY <1>2 DEF MutatorFails, MutatorRejected, ValidatorNotBuilt, ValidatorFails,
         ValidatorRejected, pipe
    <2> QED BY <2>1
  <1>3. CASE EmptyPipeline \/ FnChain \/ SkipMutator \/ MutatorsDone \/ RunValidator
             \/ SkipValidator \/ ValidatorsDone
    <2>1. InPipeline /\ work' = work /\ pc' \in Running
      BY <1>3, PipelineKeepsWalk DEF EmptyPipeline, FnChain, SkipMutator, MutatorsDone,
         RunValidator, SkipValidator, ValidatorsDone, pipe, Running, PipelineStep
    <2> QED BY <2>1
  <1> QED BY <1>1, <1>2, <1>3 DEF PipelineStep

(* A mutator of cur has reached its turn or is past it.                     *)
OwnDone(g) ==
    /\ Owner(g) = cur /\ pc # "pipeline"
    /\ pc = "mutate" => Position(g) \in 1 .. (idx - 1)

(* Whose turn has come stays so while the pipeline runs.                    *)
LEMMA OwnDoneStays ==
  ASSUME TypeOK, PipelineStep, pc' \in Running, NEW g, OwnDone(g)
  PROVE  OwnDone(g)'
  <1>0. idx \in Nat \ {0} /\ cur' = cur
    BY PipelineKeepsWalk DEF TypeOK
  <1>1. CASE EmptyPipeline \/ FnChain
    BY <1>1 DEF EmptyPipeline, FnChain, OwnDone
  <1>2. CASE RunMutator \/ SkipMutator
    <2>1. idx' = idx + 1 /\ pc = "mutate" /\ pc' = "mutate"
      BY <1>2 DEF RunMutator, MutatorRuns, SkipMutator, AtMutator
    <2>2. Position(g) \in 1 .. (idx' - 1)
      BY <1>0, <2>1 DEF OwnDone
    <2> QED BY <1>0, <2>1, <2>2 DEF OwnDone, Owner, Position
  <1>3. CASE MutatorsDone \/ RunValidator \/ SkipValidator \/ ValidatorsDone
    <2>1. pc' \in {"validate", "return"}
      BY <1>3 DEF MutatorsDone, RunValidator, SkipValidator, ValidatorsDone, ValidatorReady, AtValidator
    <2> QED BY <1>0, <2>1 DEF OwnDone, Owner
  <1>4. ASSUME NEW out, PipelineFails(out) PROVE FALSE
    BY <1>4 DEF PipelineFails, Running
  <1> QED BY <1>1, <1>2, <1>3, <1>4 DEF PipelineStep, EmptyPipelineRejected, PipelineInvalid,
             FnChainFails, MutatorConfigRefMissing, MutatorFails, MutatorRejected,
             ValidatorNotBuilt, ValidatorFails, ValidatorRejected

(* What the tail leaves on disk was there or is the root's result; the      *)
(* lists stay.                                                              *)
LEMMA TailEffect ==
  ASSUME TailStep
  PROVE  /\ disk' \subseteq disk \cup res[Root]
         /\ pc \in {"tail", "prune", "finish"} /\ pc' \in {"prune", "finish", "done"}
         /\ UNCHANGED <<opts, disk0, cur, state, input, res, ret, work, idx, call,
                        mutationSteps, validationSteps, hydErr>>
  <1>1. /\ pc \in {"tail", "prune", "finish"} /\ pc' \in {"prune", "finish", "done"} /\ InTail
    BY DEF TailStep, GiveUp, WriteResources, AfterWrite, WriteFails, WriteOutput, Keeps,
       WriteOutputFails, PruneResources, PruneFails, FinishFailed, FinishOk, SaveFnResultsFails
  <1>2. CASE WriteResources
    <2>1. disk' = Overwrite(res[Root])
      BY <1>2 DEF WriteResources
    <2> QED BY <1>1, <2>1 DEF Overwrite, InTail, given, walk, pipe, report
  <1>3. CASE WriteFails
    <2>1. PICK S \in PartialWrites(res[Root]) : disk' = Overwrite(S)
      BY <1>3 DEF WriteFails
    <2>2. S \subseteq res[Root]
      BY <2>1 DEF PartialWrites
    <2> QED BY <1>1, <2>1, <2>2 DEF Overwrite, InTail, given, walk, pipe, report
  <1>4. CASE PruneResources \/ PruneFails
    <2>1. \E D : disk' = Remove(D)
      BY <1>4 DEF PruneResources, PruneFails
    <2> QED BY <1>1, <2>1 DEF Remove, InTail, given, walk, pipe, report
  <1>5. CASE GiveUp \/ WriteOutput \/ WriteOutputFails \/ FinishFailed \/ FinishOk
             \/ SaveFnResultsFails
    <2>1. disk' = disk
      BY <1>5 DEF GiveUp, WriteOutput, WriteOutputFails, FinishFailed, FinishOk,
         SaveFnResultsFails, onDisk
    <2> QED BY <1>1, <2>1 DEF InTail, given, walk, pipe, report
  <1>6. disk' \subseteq disk \cup res[Root]
    BY <1>2, <1>3, <1>4, <1>5 DEF TailStep
  <1> QED BY <1>1, <1>6 DEF InTail, given, walk, pipe, report

-----------------------------------------------------------------------------
(* The order of functions.  Depth first, a package's list has been through  *)
(* functions of packages nested in it only; breadth first, through those of *)
(* wet packages only, and none of these is nested in a package that is not  *)
(* wet yet.  The functions of cur have been applied up to idx.              *)

Ordered(r) ==
    /\ \A g \in Range(r.hist) : r.pkg \in Below[Owner(g)]
    /\ \A i, j \in DOMAIN r.hist : i < j => RunsBefore(r.hist[i], r.hist[j])

AllOrdered(S) == \A r \in S : Ordered(r)
Fresh(S) == \A r \in S : r.hist = <<>>
OwnersIn(S, D) == \A r \in S : \A g \in Range(r.hist) : Owner(g) \in D

RanBefore(g) == OwnDone(g) \/ Owner(g) \in IF opts.bfs THEN WetPkgs ELSE Below[cur] \ {cur}
AllRanBefore(S) == \A r \in S : \A g \in Range(r.hist) : RanBefore(g)

HistInv ==
    /\ pc = "start" => \A p \in Pkgs : input[p] = {} /\ res[p] = {}
    /\ Fresh(disk0) /\ AllOrdered(disk)
    /\ \A p \in Pkgs : AllOrdered(res[p]) /\ AllOrdered(input[p])
    /\ pc = "unwind" => AllOrdered(ret)
    /\ pc \in Running => AllOrdered(work) /\ AllRanBefore(work)
    /\ ~opts.bfs /\ pc \in {"walk"} \cup Running =>
          \A p \in Pkgs : OwnersIn(input[p], Below[p] \ {p})
    /\ opts.bfs /\ pc \in {"discover", "bfs"} \cup Running =>
          \A p \in Pkgs : OwnersIn(res[p], WetPkgs)

(* Whether a resource is ordered depends on the resource and the flags.     *)
LEMMA OrderedSame ==
  ASSUME UNCHANGED opts
  PROVE  \A S : AllOrdered(S) => \A r \in S : Ordered(r)'
  BY DEF AllOrdered, Ordered, RunsBefore

(* A resource no function has been applied to is ordered.                   *)
LEMMA FreshOrdered ==
  ASSUME NEW S, Fresh(S)
  PROVE  AllOrdered(S) /\ \A D : OwnersIn(S, D)
  <1>1. \A r \in S : DOMAIN r.hist = {} /\ Range(r.hist) = {}
    BY DEF Fresh, Range
  <1> QED BY <1>1 DEF AllOrdered, Ordered, OwnersIn

(* The functions that were applied before run before the mutator at idx.    *)
LEMMA RunsBeforeMutator ==
  ASSUME BaseInv, AtMutator, NEW g, RanBefore(g),
         NEW q \in Below[cur], q \in Below[Owner(g)]
  PROVE  RunsBefore(g, Mutator.id)
  <1>0. cur \in Pkgs /\ idx \in Nat \ {0} /\ pc = "mutate" /\ pc \in Running
    BY DEF BaseInv, TypeOK, AtMutator, Running
  <1>1. idx \in DOMAIN Mutators[cur]
    <2>1. Mutators[cur] \in Seq(FunctionType) /\ idx <= Len(Mutators[cur])
      BY <1>0, PipelineAssumption DEF AtMutator
    <2> QED BY <1>0, <2>1
  <1>2. Owner(Mutator.id) = cur /\ Position(Mutator.id) = idx
    BY <1>0, <1>1, MutatorId DEF Mutator
  <1>3. CASE OwnDone(g)
    <2>1. Owner(g) = cur /\ Position(g) < idx
      BY <1>0, <1>3 DEF OwnDone
    <2> QED BY <1>2, <2>1 DEF RunsBefore
  <1>4. CASE ~opts.bfs /\ Owner(g) \in Below[cur] \ {cur}
    BY <1>2, <1>4 DEF RunsBefore
  <1>5. CASE opts.bfs /\ Owner(g) \in WetPkgs
    <2>1. Owner(g) \in Pkgs /\ Wet(Owner(g)) /\ q \in Pkgs
      BY <1>0, <1>5, TreeAssumption DEF WetPkgs
    <2>2. /\ \A p \in Pkgs \ {Root} : Wet(p) => Wet(Parent[p])
          /\ ~Wet(cur)
      BY <1>0, <1>5 DEF BaseInv, LevelInv, VisitInv, Hydrating, Wet
    <2>3. Owner(g) \notin Below[cur]
      <3>1. \A p \in WetPkgs \ {Root} : Parent[p] \in WetPkgs
        BY <2>2, TreeAssumption DEF WetPkgs
      <3>2. WetPkgs \in SUBSET Pkgs /\ cur \notin WetPkgs
        BY <2>2 DEF WetPkgs
      <3> QED BY <1>0, <1>5, <3>1, <3>2, ClosedUpwards
    <2>4. cur \in Below[Owner(g)]
      BY <1>0, <2>1, <2>3, Comparable
    <2>5. Owner(g) # cur
      BY <2>1, <2>2
    <2> QED BY <1>2, <1>5, <2>4, <2>5 DEF RunsBefore
  <1> QED BY <1>3, <1>4, <1>5 DEF RanBefore

(* A resource stays ordered when the mutator at idx has been applied to it. *)
LEMMA AppendOrdered ==
  ASSUME BaseInv, AtMutator, NEW r \in work, Ordered(r),
         \A g \in Range(r.hist) : RanBefore(g),
         NEW t, t = [r EXCEPT !.hist = Append(r.hist, Mutator.id)]
  PROVE  /\ Ordered(t)
         /\ \A g \in Range(t.hist) : g = Mutator.id \/ g \in Range(r.hist)
  <1> DEFINE id == Mutator.id
  <1>0. cur \in Pkgs /\ idx \in Nat \ {0} /\ pc = "mutate" /\ pc \in Running
    BY DEF BaseInv, TypeOK, AtMutator, Running
  <1>1. r \in Resource /\ r.pkg \in Below[cur] /\ r.hist \in Seq(FnIds)
    BY <1>0 DEF BaseInv, TypeOK, ScopeInv, InScope, Resource
  <1>2. t.pkg = r.pkg /\ t.hist = Append(r.hist, id)
    BY <1>1 DEF Resource
  <1>3. Owner(id) = cur
    <2>1. idx \in DOMAIN Mutators[cur]
      <3>1. Mutators[cur] \in Seq(FunctionType) /\ idx <= Len(Mutators[cur])
        BY <1>0, PipelineAssumption DEF AtMutator
      <3> QED BY <1>0, <3>1
    <2> QED BY <1>0, <2>1, MutatorId DEF Mutator
  <1>4. /\ DOMAIN t.hist = DOMAIN r.hist \cup {Len(r.hist) + 1}
        /\ \A i \in DOMAIN r.hist : t.hist[i] = r.hist[i] /\ i \in Nat /\ i <= Len(r.hist)
        /\ t.hist[Len(r.hist) + 1] = id /\ Range(t.hist) = Range(r.hist) \cup {id}
        /\ Len(r.hist) \in Nat
    BY <1>1, <1>2, AppendOf
  <1>5. \A g \in Range(t.hist) : t.pkg \in Below[Owner(g)]
    BY <1>1, <1>2, <1>3, <1>4 DEF Ordered
  <1>6. ASSUME NEW i \in DOMAIN t.hist, NEW j \in DOMAIN t.hist, i < j
        PROVE  RunsBefore(t.hist[i], t.hist[j])
    <2>1. i \in DOMAIN r.hist
      BY <1>4, <1>6
    <2>2. CASE j \in DOMAIN r.hist
      BY <1>4, <1>6, <2>1, <2>2 DEF Ordered
    <2>3. CASE j = Len(r.hist) + 1
      <3>1. r.hist[i] \in Range(r.hist)
        BY <2>1 DEF Range
      <3>2. r.pkg \in Below[Owner(r.hist[i])]
        BY <3>1 DEF Ordered
      <3>3. RunsBefore(r.hist[i], id)
        BY <1>1, <3>1, <3>2, RunsBeforeMutator
      <3> QED BY <1>4, <2>1, <2>3, <3>3
    <2> QED BY <1>4, <2>2, <2>3
  <1> QED BY <1>4, <1>5, <1>6 DEF Ordered

(* So is the whole list after a mutator has run.                            *)
LEMMA MutatorOrdered ==
  ASSUME BaseInv, HistInv, RunMutator
  PROVE  AllOrdered(work)' /\ AllRanBefore(work)'
  <1>0. /\ cur \in Pkgs /\ idx \in Nat \ {0} /\ pc = "mutate" /\ pc \in Running /\ AtMutator
        /\ cur \in Below[cur] /\ work \subseteq Resource
    BY TreeAssumption DEF BaseInv, TypeOK, RunMutator, AtMutator, Running
  <1>1. PICK D, G : MutatorRuns(D, G)
    BY DEF RunMutator
  <1>2. /\ UNCHANGED <<opts, cur, state, pc>> /\ idx' = idx + 1
        /\ work' = MergeWithInput(Mutator, Apply(Mutator, D, G))
    BY <1>1 DEF MutatorRuns, InPipeline, given, walk
  <1>3. AllOrdered(work) /\ AllRanBefore(work)
    BY <1>0 DEF HistInv
  <1>4. idx \in DOMAIN Mutators[cur]
    <2>1. Mutators[cur] \in Seq(FunctionType) /\ idx <= Len(Mutators[cur])
      BY <1>0, PipelineAssumption DEF AtMutator
    <2> QED BY <1>0, <2>1
  <1>5. Owner(Mutator.id) = cur /\ Position(Mutator.id) = idx
    BY <1>0, <1>4, MutatorId DEF Mutator
  <1>6. \A g : RanBefore(g) => RanBefore(g)'
    <2> SUFFICES ASSUME NEW g, RanBefore(g) PROVE RanBefore(g)'
      OBVIOUS
    <2>1. OwnDone(g) => OwnDone(g)'
      <3>1. PipelineStep /\ pc' \in Running
        BY <1>0, <1>2 DEF PipelineStep
      <3> QED BY <3>1, OwnDoneStays DEF BaseInv
    <2> QED BY <1>2, <2>1 DEF RanBefore, WetPkgs, Wet, Owner
  <1>7. ASSUME NEW r \in work' PROVE Ordered(r) /\ \A g \in Range(r.hist) : RanBefore(g)'
    <2>1. CASE r \in work
      BY <1>3, <1>6, <2>1 DEF AllOrdered, AllRanBefore
    <2>2. CASE \E t \in SelectInput(Mutator) :
                 r = [t EXCEPT !.hist = Append(t.hist, Mutator.id)]
      <3>1. PICK t \in SelectInput(Mutator) :
                 r = [t EXCEPT !.hist = Append(t.hist, Mutator.id)]
        BY <2>2
      <3>2. t \in work
        BY DEF SelectInput
      <3>3. Ordered(t) /\ \A g \in Range(t.hist) : RanBefore(g)
        BY <1>3, <3>2 DEF AllOrdered, AllRanBefore
      <3>4. Ordered(r) /\ \A g \in Range(r.hist) : g = Mutator.id \/ g \in Range(t.hist)
        BY <1>0, <3>1, <3>2, <3>3, AppendOrdered
      <3>5. ASSUME NEW g \in Range(r.hist) PROVE RanBefore(g)'
        <4>1. CASE g = Mutator.id
          <5>1. OwnDone(g)'
            <6>1. Position(g) \in 1 .. (idx' - 1) /\ Owner(g) = cur'
              BY <1>0, <1>2, <1>5, <4>1
            <6> QED BY <1>0, <1>2, <6>1 DEF OwnDone, Owner, Position
          <5> QED BY <5>1 DEF RanBefore
        <4>2. CASE g \in Range(t.hist)
          BY <1>6, <3>3, <4>2
        <4> QED BY <3>4, <4>1, <4>2
      <3> QED BY <3>4, <3>5
    <2>3. CASE \E n \in G : r = [pkg |-> cur, name |-> n, hist |-> <<Mutator.id>>]
      <3>1. r.pkg = cur /\ r.hist = <<Mutator.id>>
        BY <2>3
      <3>2. DOMAIN r.hist = {1} /\ Range(r.hist) = {Mutator.id}
        BY <3>1 DEF Range
      <3>3. Ordered(r)
        <4>1. \A i, j \in DOMAIN r.hist : ~(i < j)
          BY <3>2
        <4> QED BY <1>0, <1>5, <3>1, <3>2, <4>1 DEF Ordered
      <3>4. ASSUME NEW g \in Range(r.hist) PROVE RanBefore(g)'
        <4>1. Position(g) \in 1 .. (idx' - 1) /\ Owner(g) = cur'
          BY <1>0, <1>2, <1>5, <3>2
        <4> QED BY <1>0, <1>2, <4>1 DEF OwnDone, Owner, Position, RanBefore
      <3> QED BY <3>3, <3>4
    <2> QED BY <1>2, <2>1, <2>2, <2>3 DEF MergeWithInput, Apply
  <1>8. \A r \in work' : Ordered(r)'
    BY <1>2, <1>7, OrderedSame DEF AllOrdered
  <1> QED BY <1>7, <1>8 DEF AllOrdered, AllRanBefore

(* What a failed pipeline leaves behind is ordered.                         *)
LEMMA FailureOrdered ==
  ASSUME BaseInv, HistInv, pc \in Running, NEW out \in {{}, work}, PipelineFails(out)
  PROVE  HistInv'
  <1>0. /\ cur \in Pkgs /\ UNCHANGED <<opts, disk0, disk, cur, input>>
        /\ res \in [Pkgs -> SUBSET Resource] /\ work \subseteq Resource
        /\ order \in Seq(Pkgs) /\ input \in [Pkgs -> SUBSET Resource]
    BY DEF BaseInv, TypeOK, PipelineFails, given, onDisk
  <1>1. AllOrdered(Kept(out)) /\ AllOrdered(out) /\ Kept(out) \subseteq Resource
    BY <1>0 DEF HistInv, AllOrdered, Kept
  <1>2. \A p \in Pkgs : AllOrdered(res'[p])
    <2>1. CASE opts.bfs /\ opts.save
      <3> DEFINE rs == Propagate(cur, Kept(out))
      <3>1. rs \in [Pkgs -> SUBSET Resource]
        BY <1>0, <1>1, PropagateType DEF BaseInv
      <3>2. \A q \in Pkgs : AllOrdered(rs[q])
        BY <1>1 DEF Propagate, AllOrdered, HistInv
      <3>3. res' = Aggregate(rs)
        BY <2>1 DEF PipelineFails
      <3>4. Range(order) \subseteq Pkgs
        BY <1>0, RangeType
      <3>5. AllOrdered(UNION {rs[q] : q \in Range(order)})
        <4> HIDE DEF rs
        <4> QED BY <3>2, <3>4 DEF AllOrdered
      <3>6. \A q \in Pkgs : res'[q] = IF q = Root THEN UNION {rs[x] : x \in Range(order)} ELSE rs[q]
        <4> HIDE DEF rs
        <4> QED BY <3>1, <3>3 DEF Aggregate
      <3> QED BY <3>2, <3>5, <3>6
    <2>2. CASE ~opts.bfs /\ opts.save
      <3>1. res' = [res EXCEPT ![cur] = Kept(out)]
        BY <2>2 DEF PipelineFails
      <3> QED BY <1>0, <1>1, <3>1 DEF HistInv
    <2>3. CASE ~opts.save
      BY <2>3 DEF PipelineFails, HistInv
    <2> QED BY <2>1, <2>2, <2>3
  <1>3. \A S : AllOrdered(S) => \A r \in S : Ordered(r)'
    BY <1>0, OrderedSame
  <1>4. pc' \in {"tail", "unwind"} /\ (pc' = "unwind" => AllOrdered(ret'))
    BY <1>1 DEF PipelineFails
  <1>5. /\ Fresh(disk0) /\ AllOrdered(disk) /\ \A p \in Pkgs : AllOrdered(input[p])
    BY DEF HistInv
  <1>6. /\ Fresh(disk0)' /\ AllOrdered(disk)'
        /\ \A p \in Pkgs : AllOrdered(res[p])' /\ AllOrdered(input[p])'
        /\ pc' = "unwind" => AllOrdered(ret)'
    BY <1>0, <1>2, <1>3, <1>4, <1>5 DEF AllOrdered, Fresh
  <1> QED BY <1>4, <1>6 DEF HistInv, Running

(* Every step of runPipeline preserves HistInv.                             *)
LEMMA HistInvPipeline ==
  ASSUME BaseInv, HistInv, PipelineStep
  PROVE  HistInv'
  <1>0. pc \in Running /\ UNCHANGED <<opts, disk0, cur, state>>
    BY PipelineKeepsWalk
  <1>1. ASSUME NEW out \in {{}, work}, PipelineFails(out) PROVE HistInv'
    BY <1>0, <1>1, FailureOrdered
  <1>2. ASSUME InPipeline, pc' \in Running, AllOrdered(work)' /\ AllRanBefore(work)'
        PROVE  HistInv'
    <2>1. UNCHANGED <<opts, disk0, disk, cur, state, input, res>>
      BY <1>2 DEF InPipeline, given, onDisk, walk
    <2>2. \A S : AllOrdered(S) => \A r \in S : Ordered(r)'
      BY <2>1, OrderedSame
    <2>3. /\ Fresh(disk0)' /\ AllOrdered(disk)'
          /\ \A p \in Pkgs : AllOrdered(res[p])' /\ AllOrdered(input[p])'
      BY <2>1, <2>2 DEF HistInv, AllOrdered, Fresh
    <2>4. (~opts.bfs => \A p \in Pkgs : OwnersIn(input[p], Below[p] \ {p}))'
      BY <1>0, <2>1 DEF HistInv, OwnersIn, Owner
    <2>5. (opts.bfs => \A p \in Pkgs : OwnersIn(res[p], WetPkgs))'
      BY <1>0, <2>1 DEF HistInv, OwnersIn, Owner, WetPkgs, Wet
    <2> QED BY <1>2, <2>3, <2>4, <2>5 DEF HistInv, Running
  <1>3. CASE InPipeline /\ work' = work /\ pc' \in Running
    <2>1. AllOrdered(work) /\ AllRanBefore(work)
      BY <1>0 DEF HistInv
    <2>2. \A r \in work : Ordered(r)'
      BY <1>0, <2>1, OrderedSame
    <2>3. ASSUME NEW g, RanBefore(g) PROVE RanBefore(g)'
      <3>1. OwnDone(g) => OwnDone(g)'
        BY <1>3, OwnDoneStays DEF BaseInv
      <3> QED BY <1>0, <2>3, <3>1 DEF RanBefore, WetPkgs, Wet, Owner
    <2>4. AllOrdered(work)' /\ AllRanBefore(work)'
      BY <1>3, <2>1, <2>2, <2>3 DEF AllOrdered, AllRanBefore
    <2> QED BY <1>2, <1>3, <2>4
  <1>4. CASE RunMutator
    <2>1. InPipeline /\ pc' \in Running
      BY <1>0, <1>4 DEF RunMutator, MutatorRuns
    <2> QED BY <1>2, <1>4, <2>1, MutatorOrdered
  <1> QED BY <1>1, <1>3, <1>4, PipelineEffect

(* What is nested in a subpackage is nested in, and not, its parent.        *)
LEMMA BelowParent ==
  ASSUME NEW p \in Pkgs \ {Root}
  PROVE  Below[p] \subseteq Below[Parent[p]] \ {Parent[p]}
  BY ParentAbove, TreeAssumption

(* Every step of hydrate preserves HistInv.                                 *)
LEMMA HistInvDfs ==
  ASSUME BaseInv, HistInv, DfsStep \/ ExecuteDfs
  PROVE  HistInv'
  <1>0. /\ cur \in Pkgs /\ input \in [Pkgs -> SUBSET Resource]
        /\ res \in [Pkgs -> SUBSET Resource] /\ work \subseteq Resource /\ disk = disk0
        /\ UNCHANGED <<opts, disk0, disk>> /\ ~opts.bfs
    BY BeforeTailKeepsDisk
    DEF BaseInv, TypeOK, DiskInv, BeforeTail, DfsStep, ExecuteDfs, HydrateSubpackage,
        HydrateSubpackageInvalid, HydrateUnreadable, HydrateRunPipeline, HydrateReturn, HydrateUnwind,
        HydrateFailed, WalkInv, ModeInv
  <1>1. \A S : AllOrdered(S) => \A r \in S : Ordered(r)'
    BY <1>0, OrderedSame
  <1>2. Fresh(disk0)' /\ AllOrdered(disk)'
    BY <1>0, <1>1 DEF HistInv, Fresh, AllOrdered
  <1>3. ASSUME NEW p \in Pkgs, HydrateEnter(p), pc' = "walk", UNCHANGED res,
               pc = "walk" \/ \A q \in Pkgs : input[q] = {}
        PROVE  HistInv'
    <2>1. input' = [input EXCEPT ![p] = LocalResources(p)] /\ Fresh(LocalResources(p))
      BY <1>0, <1>3 DEF HydrateEnter, LocalResources, HistInv, Fresh
    <2>2. ASSUME NEW q \in Pkgs
          PROVE  AllOrdered(input'[q]) /\ OwnersIn(input'[q], Below[q] \ {q})
      <3>1. CASE q = p
        <4>1. input'[q] = LocalResources(p)
          BY <1>0, <2>1, <3>1
        <4> QED BY <2>1, <4>1, FreshOrdered
      <3>2. CASE q # p
        <4>1. input'[q] = input[q]
          BY <1>0, <2>1, <3>2
        <4> QED BY <1>0, <1>3, <4>1 DEF HistInv, OwnersIn, AllOrdered
      <3> QED BY <3>1, <3>2
    <2>3. \A q \in Pkgs : AllOrdered(res[q])' /\ AllOrdered(input[q])'
      BY <1>1, <1>3, <2>2 DEF HistInv, AllOrdered
    <2>4. \A q \in Pkgs : OwnersIn(input[q], Below[q] \ {q})'
      BY <2>2 DEF OwnersIn, Owner
    <2> QED BY <1>0, <1>2, <1>3, <2>3, <2>4 DEF HistInv, Running
  <1>4. CASE ExecuteDfs
    <2>1. \A q \in Pkgs : input[q] = {}
      BY <1>4 DEF ExecuteDfs, HistInv
    <2> QED BY <1>3, <1>4, <2>1, TreeAssumption DEF ExecuteDfs
  <1>5. CASE HydrateSubpackage
    <2>1. Children[cur][next[cur]] \in Pkgs
      BY <1>5, NextChildType DEF HydrateSubpackage, BaseInv
    <2>2. HydrateEnter(Children[cur][next[cur]]) /\ pc = "walk" /\ pc' = "walk" /\ UNCHANGED res
      BY <1>5 DEF HydrateSubpackage
    <2> QED BY <1>3, <2>1, <2>2
  <1>6. CASE HydrateSubpackageInvalid \/ HydrateUnreadable \/ HydrateFailed
    <2>1. UNCHANGED <<input, res>> /\ ((pc' = "unwind" /\ ret' = {}) \/ pc' = "tail")
      BY <1>6 DEF HydrateSubpackageInvalid, HydrateUnreadable, HydrateFailed, walk
    <2>2. \A q \in Pkgs : AllOrdered(res[q])' /\ AllOrdered(input[q])'
      BY <1>1, <2>1 DEF HistInv, AllOrdered
    <2> QED BY <1>2, <2>1, <2>2 DEF HistInv, Running, AllOrdered
  <1>7. CASE HydrateRunPipeline
    <2>1. UNCHANGED <<input, res, cur>> /\ pc = "walk" /\ pc' = "pipeline" /\ work' = input[cur]
      BY <1>7 DEF HydrateRunPipeline, walk
    <2>2. \A q \in Pkgs : AllOrdered(res[q])' /\ AllOrdered(input[q])'
      BY <1>1, <2>1 DEF HistInv, AllOrdered
    <2>3. \A q \in Pkgs : OwnersIn(input[q], Below[q] \ {q})
      BY <1>0, <2>1 DEF HistInv
    <2>4. AllOrdered(work)' /\ AllRanBefore(work)'
      <3>1. \A r \in work' : Ordered(r)'
        BY <1>0, <2>1, <2>2 DEF AllOrdered
      <3>2. \A r \in work' : \A g \in Range(r.hist) : Owner(g) \in Below[cur] \ {cur}
        BY <1>0, <2>1, <2>3 DEF OwnersIn
      <3> QED BY <1>0, <2>1, <3>1, <3>2 DEF AllOrdered, AllRanBefore, RanBefore, Owner
    <2>5. \A q \in Pkgs : OwnersIn(input[q], Below[q] \ {q})'
      BY <2>1, <2>3 DEF OwnersIn, Owner
    <2> QED BY <1>0, <1>2, <2>1, <2>2, <2>4, <2>5 DEF HistInv, Running
  <1>8. CASE HydrateReturn
    <2>1. res' = [res EXCEPT ![cur] = work] /\ pc = "return"
      BY <1>8 DEF HydrateReturn
    <2>2. /\ AllOrdered(work) /\ AllRanBefore(work)
          /\ \A q \in Pkgs : /\ OwnersIn(input[q], Below[q] \ {q})
                             /\ AllOrdered(res[q]) /\ AllOrdered(input[q])
      BY <1>0, <2>1 DEF HistInv, Running
    <2>3. \A q \in Pkgs : AllOrdered(res[q])'
      BY <1>0, <1>1, <2>1, <2>2 DEF AllOrdered
    <2>4. CASE cur = Root
      <3>1. pc' = "tail" /\ UNCHANGED input
        BY <1>8, <2>4 DEF HydrateReturn
      <3>2. \A q \in Pkgs : AllOrdered(input[q])'
        BY <1>1, <2>2, <3>1 DEF AllOrdered
      <3> QED BY <1>2, <2>3, <3>1, <3>2 DEF HistInv, Running
    <2>5. CASE cur # Root
      <3>1. pc' = "walk" /\ input' = [input EXCEPT ![Parent[cur]] = input[Parent[cur]] \cup work]
        BY <1>8, <2>5 DEF HydrateReturn
      <3>2. Parent[cur] \in Pkgs /\ Below[cur] \subseteq Below[Parent[cur]] \ {Parent[cur]}
            /\ cur \in Below[cur]
        BY <1>0, <2>5, ParentAbove, BelowParent, TreeAssumption
      <3>3. OwnersIn(work, Below[cur])
        BY <1>0, <2>2, <3>2 DEF OwnersIn, AllRanBefore, RanBefore, OwnDone
      <3>4. ASSUME NEW q \in Pkgs
            PROVE  AllOrdered(input'[q]) /\ OwnersIn(input'[q], Below[q] \ {q})
        <4>1. CASE q = Parent[cur]
          <5>1. input'[q] = input[q] \cup work
            BY <1>0, <3>1, <4>1
          <5> QED BY <2>2, <3>2, <3>3, <4>1, <5>1 DEF AllOrdered, OwnersIn
        <4>2. CASE q # Parent[cur]
          <5>1. input'[q] = input[q]
            BY <1>0, <3>1, <4>2
          <5> QED BY <2>2, <5>1 DEF AllOrdered, OwnersIn
        <4> QED BY <4>1, <4>2
      <3>5. \A q \in Pkgs : AllOrdered(input[q])' /\ OwnersIn(input[q], Below[q] \ {q})'
        BY <1>1, <3>4 DEF AllOrdered, OwnersIn, Owner
      <3> QED BY <1>0, <1>2, <2>3, <3>1, <3>5 DEF HistInv, Running
    <2> QED BY <2>4, <2>5
  <1>9. CASE HydrateUnwind
    <2>1. pc = "unwind" /\ pc' = "unwind" /\ ret' = {} /\ Parent[cur] \in Pkgs
      BY <1>0, <1>9, TreeAssumption DEF HydrateUnwind
    <2>2. AllOrdered(ret) /\ \A q \in Pkgs : AllOrdered(res[q]) /\ AllOrdered(input[q])
      BY <2>1 DEF HistInv
    <2>3. \A q \in Pkgs : AllOrdered(res'[q]) /\ AllOrdered(input'[q])
      <3> DEFINE got == input[Parent[cur]] \cup ret
      <3>1. CASE UNCHANGED <<input, res>>
        BY <2>2, <3>1
      <3>2. CASE /\ input' = [input EXCEPT ![Parent[cur]] = got]
                 /\ res' = [res EXCEPT ![Parent[cur]] = got]
        <4>1. AllOrdered(got)
          BY <2>1, <2>2 DEF AllOrdered
        <4> HIDE DEF got
        <4> QED BY <1>0, <2>1, <2>2, <3>2, <4>1
      <3> QED BY <1>9, <3>1, <3>2 DEF HydrateUnwind
    <2>4. \A q \in Pkgs : AllOrdered(res[q])' /\ AllOrdered(input[q])'
      BY <1>1, <2>3 DEF AllOrdered
    <2> QED BY <1>2, <2>1, <2>4 DEF HistInv, Running, AllOrdered
  <1> QED BY <1>4, <1>5, <1>6, <1>7, <1>8, <1>9 DEF DfsStep

(* Every step of hydrateBfsOrder preserves HistInv.                         *)
LEMMA HistInvBfs ==
  ASSUME BaseInv, HistInv, BfsStep
  PROVE  HistInv'
  <1>0. /\ cur \in Pkgs /\ input \in [Pkgs -> SUBSET Resource]
        /\ res \in [Pkgs -> SUBSET Resource] /\ work \subseteq Resource /\ disk = disk0
        /\ UNCHANGED <<opts, disk0, disk>> /\ opts.bfs
        /\ queue \in Seq(Pkgs) /\ order \in Seq(Pkgs) /\ state \in [Pkgs -> StateType]
    BY BeforeTailKeepsDisk
    DEF BaseInv, TypeOK, DiskInv, BeforeTail, BfsStep, Discover, DiscoverUnreadable, DiscoverDone,
        BfsRunPipeline, BfsReturn, BfsDone, WalkInv, ModeInv
  <1>1. \A S : AllOrdered(S) => \A r \in S : Ordered(r)'
    BY <1>0, OrderedSame
  <1>2. Fresh(disk0)' /\ AllOrdered(disk)'
    BY <1>0, <1>1 DEF HistInv, Fresh, AllOrdered
  <1>3. /\ \A q \in Pkgs : AllOrdered(res[q]) /\ AllOrdered(input[q])
        /\ pc # "tail" => \A q \in Pkgs : OwnersIn(res[q], WetPkgs)
    BY <1>0 DEF HistInv, BfsStep, Discover, DiscoverUnreadable, DiscoverDone, BfsRunPipeline,
       BfsReturn, BfsDone,
       Running
  <1>4. CASE Discover
    <2> DEFINE p == Head(queue)
    <2>1. /\ p \in Pkgs /\ pc = "discover" /\ pc' \in {"discover", "tail"} /\ UNCHANGED input
          /\ res' = [res EXCEPT ![p] = LocalResources(p)]
          /\ state' = [state EXCEPT ![p] = "Dry"] /\ p \notin Discovered
      BY <1>0, <1>4, HeadTailType DEF Discover
    <2>2. Fresh(LocalResources(p))
      BY <1>0 DEF LocalResources, HistInv, Fresh
    <2>3. WetPkgs \subseteq WetPkgs'
      BY <1>0, <2>1 DEF WetPkgs, Wet, Discovered
    <2>4. ASSUME NEW q \in Pkgs PROVE AllOrdered(res'[q]) /\ OwnersIn(res'[q], WetPkgs')
      <3>1. CASE q = p
        <4>1. res'[q] = LocalResources(p)
          BY <1>0, <2>1, <3>1
        <4> QED BY <2>2, <4>1, FreshOrdered
      <3>2. CASE q # p
        <4>1. res'[q] = res[q]
          BY <1>0, <2>1, <3>2
        <4> QED BY <1>3, <2>1, <2>3, <4>1 DEF OwnersIn
      <3> QED BY <3>1, <3>2
    <2>5. \A q \in Pkgs : AllOrdered(res[q])' /\ AllOrdered(input[q])' /\ OwnersIn(res[q], WetPkgs)'
      BY <1>1, <1>3, <2>1, <2>4 DEF AllOrdered, OwnersIn, Owner
    <2> QED BY <1>0, <1>2, <2>1, <2>5 DEF HistInv, Running
  <1>5. CASE DiscoverDone \/ DiscoverUnreadable
    <2>1. UNCHANGED <<res, input, state>> /\ pc = "discover" /\ pc' \in {"bfs", "tail"}
      BY <1>5 DEF DiscoverDone, DiscoverUnreadable, walk
    <2>2. \A q \in Pkgs : AllOrdered(res[q])' /\ AllOrdered(input[q])' /\ OwnersIn(res[q], WetPkgs)'
      BY <1>1, <1>3, <2>1 DEF AllOrdered, OwnersIn, Owner, WetPkgs, Wet
    <2> QED BY <1>0, <1>2, <2>1, <2>2 DEF HistInv, Running
  <1>6. CASE BfsRunPipeline
    <2> DEFINE p == Head(queue)
    <2>1. /\ p \in Pkgs /\ pc = "bfs" /\ pc' = "pipeline" /\ UNCHANGED res
          /\ input' = [input EXCEPT ![p] = BfsInput(p)] /\ work' = BfsInput(p)
          /\ state' = [state EXCEPT ![p] = "Hydrating"]
      BY <1>0, <1>6, HeadTailType DEF BfsRunPipeline
    <2>2. AllOrdered(BfsInput(p)) /\ OwnersIn(BfsInput(p), WetPkgs)
      <3>1. Below[p] \subseteq Pkgs
        BY <2>1, TreeAssumption
      <3> QED BY <1>3, <2>1, <3>1 DEF BfsInput, AllOrdered, OwnersIn
    <2>3. WetPkgs \subseteq WetPkgs'
      <3>1. ~Wet(p)
        <4>1. 1 \in DOMAIN queue /\ p = queue[1]
          BY <1>0, <1>6, TailOf DEF BfsRunPipeline
        <4> QED BY <1>0, <2>1, <4>1 DEF BaseInv, LevelInv, VisitInv, Wet
      <3> QED BY <1>0, <2>1, <3>1 DEF WetPkgs, Wet
    <2>4. \A q \in Pkgs : AllOrdered(input'[q])
      BY <1>0, <1>3, <2>1, <2>2
    <2>5. \A q \in Pkgs : AllOrdered(res[q])' /\ AllOrdered(input[q])' /\ OwnersIn(res[q], WetPkgs)'
      BY <1>1, <1>3, <2>1, <2>3, <2>4 DEF AllOrdered, OwnersIn, Owner
    <2>6. AllOrdered(work)' /\ AllRanBefore(work)'
      <3>1. \A r \in work' : Ordered(r)' /\ \A g \in Range(r.hist) : Owner(g) \in WetPkgs'
        BY <1>1, <2>1, <2>2, <2>3 DEF OwnersIn
      <3> QED BY <1>0, <3>1 DEF AllOrdered, AllRanBefore, RanBefore, Owner
    <2> QED BY <1>0, <1>2, <2>1, <2>5, <2>6 DEF HistInv, Running
  <1>7. CASE BfsReturn
    <2>1. /\ pc = "return" /\ pc' = "bfs" /\ UNCHANGED input /\ res' = Propagate(cur, work)
          /\ state' = [state EXCEPT ![cur] = "Wet"]
      BY <1>7 DEF BfsReturn
    <2>2. AllOrdered(work) /\ AllRanBefore(work)
      BY <2>1 DEF HistInv, Running
    <2>3. WetPkgs' = WetPkgs \cup {cur}
      BY <1>0, <2>1 DEF WetPkgs, Wet
    <2>4. OwnersIn(work, WetPkgs')
      BY <1>0, <2>2, <2>3 DEF OwnersIn, AllRanBefore, RanBefore, OwnDone
    <2>5. ASSUME NEW q \in Pkgs PROVE res'[q] \subseteq work \/ res'[q] = res[q]
      BY <2>1 DEF Propagate
    <2>6. \A q \in Pkgs : AllOrdered(res'[q]) /\ OwnersIn(res'[q], WetPkgs')
      BY <1>3, <2>1, <2>2, <2>3, <2>4, <2>5 DEF AllOrdered, OwnersIn
    <2>7. \A q \in Pkgs : AllOrdered(res[q])' /\ AllOrdered(input[q])' /\ OwnersIn(res[q], WetPkgs)'
      BY <1>1, <1>3, <2>1, <2>6 DEF AllOrdered, OwnersIn, Owner
    <2> QED BY <1>0, <1>2, <2>1, <2>7 DEF HistInv, Running
  <1>8. CASE BfsDone
    <2>1. pc' = "tail" /\ UNCHANGED input /\ res' = Aggregate(res)
      BY <1>8 DEF BfsDone
    <2>2. Range(order) \subseteq Pkgs
      BY <1>0, RangeType
    <2>3. AllOrdered(UNION {res[q] : q \in Range(order)})
      BY <1>3, <2>2 DEF AllOrdered
    <2>4. \A q \in Pkgs : res'[q] = IF q = Root THEN UNION {res[x] : x \in Range(order)} ELSE res[q]
      BY <1>0, <2>1 DEF Aggregate
    <2>5. \A q \in Pkgs : AllOrdered(res[q])' /\ AllOrdered(input[q])'
      BY <1>1, <1>3, <2>1, <2>3, <2>4 DEF AllOrdered
    <2> QED BY <1>2, <2>1, <2>5 DEF HistInv, Running
  <1> QED BY <1>4, <1>5, <1>6, <1>7, <1>8 DEF BfsStep

(* Every step of the specification preserves HistInv.                       *)
LEMMA HistInvStep ==
  ASSUME BaseInv, HistInv, [Next]_vars
  PROVE  HistInv'
  <1>1. ASSUME UNCHANGED <<opts, disk0, input, res>>, pc' # "start",
               disk' \subseteq disk \cup res[Root],
               pc' \notin {"unwind", "walk", "discover", "bfs"} \cup Running
                 \/ (pc = "start" /\ pc' = "discover")
        PROVE  HistInv'
    <2>1. \A S : AllOrdered(S) => \A r \in S : Ordered(r)'
      BY <1>1, OrderedSame
    <2>2. \A q \in Pkgs : AllOrdered(res[q])' /\ AllOrdered(input[q])'
      BY <1>1, <2>1 DEF HistInv, AllOrdered
    <2>3. Fresh(disk0)' /\ AllOrdered(disk)'
      BY <1>1, <2>1, TreeAssumption DEF HistInv, AllOrdered, Fresh
    <2>4. pc' = "discover" => \A q \in Pkgs : OwnersIn(res[q], WetPkgs)'
      BY <1>1 DEF HistInv, OwnersIn
    <2> QED BY <1>1, <2>2, <2>3, <2>4 DEF HistInv, Running
  <1>2. CASE ExecuteInvalid \/ ExecuteBfs
    <2>1. /\ UNCHANGED <<opts, disk0, disk, input, res>>
          /\ pc' = "done" \/ (pc = "start" /\ pc' = "discover")
      BY <1>2 DEF ExecuteInvalid, ExecuteBfs, given, onDisk, walk
    <2> QED BY <1>1, <2>1 DEF Running
  <1>3. CASE TailStep
    BY <1>1, <1>3, TailEffect DEF Running
  <1>4. CASE UNCHANGED vars
    <2>1. UNCHANGED <<opts, disk0, disk, input, res, ret, work, cur, idx, state, pc>>
      BY <1>4 DEF vars, given, onDisk, walk, pipe
    <2> QED BY <2>1 DEF HistInv, AllOrdered, Ordered, RunsBefore, Fresh, OwnersIn, AllRanBefore,
            RanBefore, OwnDone, WetPkgs, Wet, Running
  <1> QED BY <1>2, <1>3, <1>4, HistInvPipeline, HistInvDfs, HistInvBfs DEF Next

LEMMA HistInvInit == Init => HistInv
  <1> SUFFICES ASSUME Init PROVE HistInv
    OBVIOUS
  <1>1. Fresh(disk0)
    BY DEF Init, Fresh
  <1>2. \A p \in Pkgs : input[p] = {} /\ res[p] = {}
    BY DEF Init
  <1>3. AllOrdered(disk)
    BY <1>1, FreshOrdered DEF Init
  <1> QED BY <1>1, <1>2, <1>3 DEF Init, HistInv, AllOrdered, Running

(* Whatever the tree, the pipelines and what functions delete or generate,  *)
(* every resource in memory and on disk has been through functions of its   *)
(* package and the packages around it, each at most once, in the order of   *)
(* the walk and of the pipeline.                                            *)
THEOREM FunctionOrderHolds == Spec => []FunctionOrder
  <1>1. HistInv => FunctionOrder
    BY DEF HistInv, FunctionOrder, AllOrdered, Ordered
  <1>2. BaseInv /\ HistInv /\ [Next]_vars => BaseInv' /\ HistInv'
    BY BaseInvStep, HistInvStep
  <1> QED BY <1>1, <1>2, BaseInvInit, HistInvInit, PTL DEF Spec

-----------------------------------------------------------------------------
(* The account of the run.  While a pipeline runs, the steps of cur are the *)
(* last ones recorded, one for each function it is past; the functions of a *)
(* package that has not had its turn have none.                             *)

Active == {"start", "walk", "discover", "bfs"} \cup Running

Ids(fns) == {f.id : f \in Range(fns)}
NoneOf(steps, fns) == \A i \in DOMAIN steps : steps[i].fn \notin Ids(fns)

Ending(steps, fns, n) ==
    /\ n <= Len(steps)
    /\ \A i \in DOMAIN steps :
          IF i > Len(steps) - n
          THEN steps[i].fn = fns[i - (Len(steps) - n)].id /\ steps[i].how # "fail"
          ELSE steps[i].fn \notin Ids(fns)

MutatorsPassed ==
    CASE pc = "pipeline" -> 0 [] pc = "mutate" -> idx - 1 [] OTHER -> Len(Mutators[cur])
ValidatorsPassed ==
    CASE pc = "validate" -> idx - 1 [] pc = "return" -> Len(Validators[cur]) [] OTHER -> 0

WetAccounted ==
    \A p \in Pkgs : Wet(p) =>
       Accounted(mutationSteps, Mutators[p]) /\ Accounted(validationSteps, Validators[p])

OthersNone ==
    pc \in Active => \A p \in Pkgs : ~Wet(p) /\ ~(pc \in Running /\ p = cur) =>
       NoneOf(mutationSteps, Mutators[p]) /\ NoneOf(validationSteps, Validators[p])

CurEnding ==
    pc \in Running =>
       /\ Ending(mutationSteps, Mutators[cur], MutatorsPassed)
       /\ Ending(validationSteps, Validators[cur], ValidatorsPassed)
       /\ pc = "mutate" => idx <= Len(Mutators[cur]) + 1
       /\ pc = "validate" => idx <= Len(Validators[cur]) + 1

StepsOwned ==
    \A i \in DOMAIN mutationSteps :
       \E p \in Pkgs : \E j \in DOMAIN Mutators[p] : mutationSteps[i].fn = Mutators[p][j].id

StepInv == WetAccounted /\ OthersNone /\ CurEnding /\ StepsOwned

(* A step of another package's function leaves an account as it is.         *)
LEMMA AccountedAppend ==
  ASSUME NEW T, NEW steps \in Seq(T), NEW fns \in Seq(FunctionType), NEW s,
         Accounted(steps, fns), s.fn \notin Ids(fns)
  PROVE  Accounted(Append(steps, s), fns)
  <1>1. PICK k \in 0 .. Len(steps) :
           /\ k + Len(fns) <= Len(steps)
           /\ \A i \in DOMAIN steps :
                IF k < i /\ i <= k + Len(fns)
                THEN steps[i].fn = fns[i - k].id /\ steps[i].how # "fail"
                ELSE steps[i].fn \notin {f.id : f \in Range(fns)}
    BY DEF Accounted
  <1> DEFINE t == Append(steps, s)
  <1>2. /\ DOMAIN t = DOMAIN steps \cup {Len(steps) + 1}
        /\ \A i \in DOMAIN steps : t[i] = steps[i]
        /\ t[Len(steps) + 1] = s /\ Len(steps) \in Nat /\ Len(t) = Len(steps) + 1
        /\ Len(fns) \in Nat
    BY AppendOf
  <1>3. k \in 0 .. Len(t) /\ k + Len(fns) <= Len(t)
    BY <1>1, <1>2
  <1>4. ASSUME NEW i \in DOMAIN t
        PROVE  IF k < i /\ i <= k + Len(fns)
               THEN t[i].fn = fns[i - k].id /\ t[i].how # "fail"
               ELSE t[i].fn \notin {f.id : f \in Range(fns)}
    <2>1. CASE i \in DOMAIN steps
      BY <1>1, <1>2, <2>1
    <2>2. CASE i = Len(steps) + 1
      <3>1. ~(i <= k + Len(fns))
        BY <1>1, <1>2, <2>2
      <3> QED BY <1>2, <2>2, <3>1 DEF Ids
    <2> QED BY <1>2, <2>1, <2>2
  <1> HIDE DEF t
  <1> QED BY <1>3, <1>4 DEF Accounted, t

(* It leaves a package without steps without steps.                         *)
LEMMA NoneAppend ==
  ASSUME NEW T, NEW steps \in Seq(T), NEW fns, NEW s,
         NoneOf(steps, fns), s.fn \notin Ids(fns)
  PROVE  NoneOf(Append(steps, s), fns)
  BY AppendOf DEF NoneOf

(* The next function's step makes the account of a package longer.          *)
LEMMA EndingAppend ==
  ASSUME NEW T, NEW steps \in Seq(T), NEW fns, NEW n \in Nat, NEW s,
         Ending(steps, fns, n), s.fn = fns[n + 1].id, s.how # "fail"
  PROVE  Ending(Append(steps, s), fns, n + 1)
  <1> DEFINE t == Append(steps, s)
  <1>1. /\ DOMAIN t = DOMAIN steps \cup {Len(steps) + 1}
        /\ \A i \in DOMAIN steps : t[i] = steps[i] /\ i \in Nat
        /\ t[Len(steps) + 1] = s /\ Len(steps) \in Nat /\ Len(t) = Len(steps) + 1
    BY AppendOf
  <1>2. n + 1 <= Len(t) /\ Len(t) - (n + 1) = Len(steps) - n
    BY <1>1 DEF Ending
  <1>3. ASSUME NEW i \in DOMAIN t
        PROVE  IF i > Len(t) - (n + 1)
               THEN t[i].fn = fns[i - (Len(t) - (n + 1))].id /\ t[i].how # "fail"
               ELSE t[i].fn \notin Ids(fns)
    <2>1. CASE i \in DOMAIN steps
      BY <1>1, <1>2, <2>1 DEF Ending
    <2>2. CASE i = Len(steps) + 1
      <3>1. i > Len(t) - (n + 1) /\ i - (Len(t) - (n + 1)) = n + 1
        BY <1>1, <1>2, <2>2
      <3> QED BY <1>1, <2>2, <3>1
    <2> QED BY <1>1, <2>1, <2>2
  <1> HIDE DEF t
  <1> QED BY <1>2, <1>3 DEF Ending, t

(* A package without steps starts its account.                              *)
LEMMA NoneEnding ==
  ASSUME NEW T, NEW steps \in Seq(T), NEW fns, NoneOf(steps, fns)
  PROVE  Ending(steps, fns, 0)
  <1>1. Len(steps) \in Nat /\ \A i \in DOMAIN steps : i \in Nat /\ i <= Len(steps)
    OBVIOUS
  <1>2. 0 <= Len(steps) /\ \A i \in DOMAIN steps : ~(i > Len(steps) - 0)
    BY <1>1
  <1> QED BY <1>2 DEF Ending, NoneOf

(* The account is complete when the package is past its last function.      *)
LEMMA EndingAccounted ==
  ASSUME NEW T, NEW steps \in Seq(T), NEW fns \in Seq(FunctionType),
         Ending(steps, fns, Len(fns))
  PROVE  Accounted(steps, fns)
  <1> DEFINE k == Len(steps) - Len(fns)
  <1>1. /\ Len(steps) \in Nat /\ Len(fns) \in Nat /\ Len(fns) <= Len(steps)
        /\ \A i \in DOMAIN steps : i \in Nat /\ i <= Len(steps)
    BY DEF Ending
  <1>2. k \in 0 .. Len(steps) /\ k + Len(fns) = Len(steps) /\ k + Len(fns) <= Len(steps)
    BY <1>1
  <1>3. ASSUME NEW i \in DOMAIN steps
        PROVE  IF k < i /\ i <= k + Len(fns)
               THEN steps[i].fn = fns[i - k].id /\ steps[i].how # "fail"
               ELSE steps[i].fn \notin {f.id : f \in Range(fns)}
    <2>1. (k < i /\ i <= k + Len(fns)) <=> i > k
      BY <1>1, <1>2
    <2> QED BY <2>1 DEF Ending, Ids
  <1> HIDE DEF k
  <1> QED BY <1>2, <1>3 DEF Accounted

(* Different packages have different functions.                             *)
LEMMA OtherIds ==
  ASSUME NEW p \in Pkgs, NEW q \in Pkgs, p # q
  PROVE  /\ \A i \in DOMAIN Mutators[p] : Mutators[p][i].id \notin Ids(Mutators[q])
         /\ \A i \in DOMAIN Validators[p] : Validators[p][i].id \notin Ids(Validators[q])
  <1>1. ASSUME NEW i \in DOMAIN Mutators[p], Mutators[p][i].id \in Ids(Mutators[q])
        PROVE  FALSE
    <2>1. PICK j \in DOMAIN Mutators[q] : Mutators[p][i].id = Mutators[q][j].id
      BY <1>1 DEF Ids, Range
    <2> QED BY <2>1, IdAssumption
  <1>2. ASSUME NEW i \in DOMAIN Validators[p], Validators[p][i].id \in Ids(Validators[q])
        PROVE  FALSE
    <2>1. PICK j \in DOMAIN Validators[q] : Validators[p][i].id = Validators[q][j].id
      BY <1>2 DEF Ids, Range
    <2> QED BY <2>1, IdAssumption
  <1> QED BY <1>1, <1>2

(* The package whose pipeline runs is being hydrated.                       *)
LEMMA CurHydrating ==
  ASSUME BaseInv, pc \in Running
  PROVE  Hydrating(cur) /\ ~Wet(cur)
  <1>1. CASE opts.bfs
    BY <1>1 DEF BaseInv, LevelInv, VisitInv, Hydrating, Wet, Running
  <1>2. CASE ~opts.bfs
    BY <1>2 DEF BaseInv, WalkInv, StackInv, PathInv, Hydrating, Wet, Running
  <1> QED BY <1>1, <1>2

(* What the walk does to the report: nothing.  A pipeline starts for a      *)
(* package that is not wet, a package becomes wet when its pipeline is      *)
(* done, and otherwise the wet packages stay the same.                      *)
LEMMA WalkEffect ==
  ASSUME BaseInv, ExecuteInvalid \/ ExecuteDfs \/ ExecuteBfs \/ DfsStep \/ BfsStep
  PROVE  /\ UNCHANGED report
         /\ \/ /\ WetPkgs' = WetPkgs /\ pc \notin Running /\ pc' \notin Running
               /\ pc' \in Active => pc \in Active
            \/ /\ WetPkgs' = WetPkgs /\ pc \in {"walk", "bfs"} /\ pc' = "pipeline"
               /\ cur' \notin WetPkgs /\ cur' \in Pkgs
            \/ /\ WetPkgs' = WetPkgs \cup {cur} /\ pc = "return" /\ cur \in Pkgs
               /\ pc' \in {"walk", "bfs", "tail"}
  <1>0. cur \in Pkgs /\ state \in [Pkgs -> StateType] /\ queue \in Seq(Pkgs)
    BY DEF BaseInv, TypeOK
  <1>1. CASE ExecuteInvalid \/ ExecuteBfs \/ HydrateSubpackageInvalid \/ HydrateUnreadable \/ HydrateUnwind
             \/ HydrateFailed \/ DiscoverUnreadable \/ DiscoverDone \/ BfsDone
    <2>1. /\ UNCHANGED <<report, state>>
          /\ pc \in {"start", "walk", "unwind", "discover", "bfs"}
          /\ pc' \in {"done", "unwind", "tail", "discover", "bfs"}
          /\ pc = "unwind" => pc' \in {"unwind", "tail"}
      BY <1>1 DEF ExecuteInvalid, ExecuteBfs, HydrateSubpackageInvalid, HydrateUnreadable,
         HydrateUnwind,
         HydrateFailed, DiscoverUnreadable, DiscoverDone, BfsDone, walk
    <2> QED BY <2>1 DEF WetPkgs, Wet, Active, Running
  <1>2. CASE ExecuteDfs \/ HydrateSubpackage \/ Discover
    <2>1. \E p \in Pkgs, v \in {"Hydrating", "Dry"} :
             p \notin Discovered /\ state' = [state EXCEPT ![p] = v]
      <3>1. CASE ExecuteDfs
        BY <3>1, TreeAssumption DEF ExecuteDfs, HydrateEnter, BaseInv, WalkInv, ModeInv
      <3>2. CASE HydrateSubpackage
        BY <3>2, NextChildType DEF HydrateSubpackage, HydrateEnter, BaseInv
      <3>3. CASE Discover
        BY <1>0, <3>3, HeadTailType DEF Discover
      <3> QED BY <1>2, <3>1, <3>2, <3>3
    <2>2. WetPkgs' = WetPkgs
      BY <1>0, <2>1 DEF WetPkgs, Wet, Discovered
    <2>3. /\ UNCHANGED report /\ pc \in {"start", "walk", "discover"}
          /\ pc' \in {"walk", "discover", "tail"}
      BY <1>2 DEF ExecuteDfs, HydrateSubpackage, Discover
    <2> QED BY <2>2, <2>3 DEF Active, Running
  <1>3. CASE HydrateRunPipeline
    <2>1. UNCHANGED <<report, state, cur>> /\ pc = "walk" /\ pc' = "pipeline"
      BY <1>3 DEF HydrateRunPipeline, walk
    <2>2. cur \notin WetPkgs
      BY <2>1 DEF WetPkgs, Wet, BaseInv, WalkInv, ModeInv, StackInv, PathInv, Hydrating
    <2> QED BY <1>0, <2>1, <2>2 DEF WetPkgs, Wet
  <1>4. CASE BfsRunPipeline
    <2> DEFINE p == Head(queue)
    <2>1. /\ UNCHANGED report /\ pc = "bfs" /\ pc' = "pipeline" /\ cur' = p /\ p \in Pkgs
          /\ state' = [state EXCEPT ![p] = "Hydrating"] /\ opts.bfs
      BY <1>0, <1>4, HeadTailType DEF BfsRunPipeline, BaseInv, WalkInv, ModeInv
    <2>2. state[p] = "Dry"
      <3>1. 1 \in DOMAIN queue /\ p = queue[1]
        BY <1>0, <1>4, TailOf DEF BfsRunPipeline
      <3> QED BY <2>1, <3>1 DEF BaseInv, LevelInv, VisitInv
    <2>3. WetPkgs' = WetPkgs /\ p \notin WetPkgs
      BY <1>0, <2>1, <2>2 DEF WetPkgs, Wet
    <2> QED BY <2>1, <2>3
  <1>5. CASE HydrateReturn \/ BfsReturn
    <2>1. /\ UNCHANGED report /\ pc = "return" /\ pc' \in {"walk", "bfs", "tail"}
          /\ state' = [state EXCEPT ![cur] = "Wet"]
      BY <1>5 DEF HydrateReturn, BfsReturn
    <2>2. WetPkgs' = WetPkgs \cup {cur}
      BY <1>0, <2>1 DEF WetPkgs, Wet
    <2> QED BY <1>0, <2>1, <2>2
  <1> QED BY <1>1, <1>2, <1>3, <1>4, <1>5 DEF DfsStep, BfsStep

(* What runPipeline does to the report: at most one step is appended, for a *)
(* function of cur, and it is a failed one just when the pipeline fails.    *)
LEMMA ReportEffect ==
  ASSUME BaseInv, PipelineStep
  PROVE  /\ \/ UNCHANGED mutationSteps
            \/ \E i \in DOMAIN Mutators[cur], how \in {"pass", "skip", "fail"} :
                 /\ mutationSteps' = Append(mutationSteps, Step(Mutators[cur][i], how))
                 /\ UNCHANGED validationSteps /\ (how = "fail" => pc' \notin Active)
         /\ \/ UNCHANGED validationSteps
            \/ \E i \in DOMAIN Validators[cur], how \in {"pass", "skip", "fail"} :
                 /\ validationSteps' = Append(validationSteps, Step(Validators[cur][i], how))
                 /\ UNCHANGED mutationSteps /\ (how = "fail" => pc' \notin Active)
  <1>0. cur \in Pkgs /\ idx \in Nat \ {0}
    BY DEF BaseInv, TypeOK
  <1>1. AtMutator => idx \in DOMAIN Mutators[cur]
    <2>1. Mutators[cur] \in Seq(FunctionType)
      BY <1>0, PipelineAssumption
    <2> QED BY <1>0, <2>1 DEF AtMutator
  <1>2. AtValidator => idx \in DOMAIN Validators[cur]
    <2>1. Validators[cur] \in Seq(FunctionType)
      BY <1>0, PipelineAssumption
    <2> QED BY <1>0, <2>1 DEF AtValidator
  <1>3. \A out : PipelineFails(out) => pc' \notin Active
    BY DEF PipelineFails, Active, Running
  <1>4. CASE EmptyPipeline \/ EmptyPipelineRejected \/ PipelineInvalid \/ FnChain
             \/ MutatorConfigRefMissing \/ MutatorsDone \/ ValidatorsDone
    BY <1>4 DEF EmptyPipeline, EmptyPipelineRejected, PipelineInvalid, FnChain,
       MutatorConfigRefMissing, MutatorsDone, ValidatorsDone, report
  <1>5. CASE FnChainFails
    <2>1. /\ \E i \in DOMAIN Mutators[cur] :
               mutationSteps' = Append(mutationSteps, Step(Mutators[cur][i], "fail"))
          /\ UNCHANGED validationSteps /\ pc' \notin Active
      BY <1>3, <1>5 DEF FnChainFails
    <2> QED BY <2>1
  <1>6. CASE RunMutator
    <2>1. /\ mutationSteps' = Append(mutationSteps, Step(Mutators[cur][idx], "pass"))
          /\ UNCHANGED validationSteps /\ AtMutator
      BY <1>6 DEF RunMutator, MutatorRuns, Mutator
    <2> QED BY <1>1, <2>1
  <1>7. CASE SkipMutator
    <2>1. /\ mutationSteps' = Append(mutationSteps, Step(Mutators[cur][idx], "skip"))
          /\ UNCHANGED validationSteps /\ AtMutator
      BY <1>7 DEF SkipMutator, Mutator
    <2> QED BY <1>1, <2>1
  <1>8. CASE MutatorFails \/ MutatorRejected
    <2>1. /\ mutationSteps' = Append(mutationSteps, Step(Mutators[cur][idx], "fail"))
          /\ UNCHANGED validationSteps /\ AtMutator /\ pc' \notin Active
      BY <1>3, <1>8 DEF MutatorFails, MutatorRejected, Mutator
    <2> QED BY <1>1, <2>1
  <1>9. CASE RunValidator
    <2>1. /\ validationSteps' = Append(validationSteps, Step(Validators[cur][idx], "pass"))
          /\ UNCHANGED mutationSteps /\ AtValidator
      BY <1>9 DEF RunValidator, Validator, ValidatorReady
    <2> QED BY <1>2, <2>1
  <1>10. CASE SkipValidator
    <2>1. /\ validationSteps' = Append(validationSteps, Step(Validators[cur][idx], "skip"))
          /\ UNCHANGED mutationSteps /\ AtValidator
      BY <1>10 DEF SkipValidator, Validator, ValidatorReady
    <2> QED BY <1>2, <2>1
  <1>11. CASE ValidatorNotBuilt \/ ValidatorFails \/ ValidatorRejected
    <2>1. /\ validationSteps' = Append(validationSteps, Step(Validators[cur][idx], "fail"))
          /\ UNCHANGED mutationSteps /\ AtValidator /\ pc' \notin Active
      BY <1>3, <1>11 DEF ValidatorNotBuilt, ValidatorFails, ValidatorRejected, Validator,
         ValidatorReady
    <2> QED BY <1>2, <2>1
  <1> QED BY <1>4, <1>5, <1>6, <1>7, <1>8, <1>9, <1>10, <1>11 DEF PipelineStep

(* The account of cur after a step of its pipeline.                         *)
LEMMA CurEndingStep ==
  ASSUME BaseInv, CurEnding, PipelineStep
  PROVE  CurEnding'
  <1>0. /\ cur \in Pkgs /\ idx \in Nat \ {0} /\ pc \in Running /\ cur' = cur
        /\ mutationSteps \in Seq(StepType) /\ validationSteps \in Seq(StepType)
    BY PipelineKeepsWalk DEF BaseInv, TypeOK
  <1>1. /\ Mutators[cur] \in Seq(FunctionType) /\ Validators[cur] \in Seq(FunctionType)
        /\ Len(Mutators[cur]) \in Nat /\ Len(Validators[cur]) \in Nat
    <2>1. Mutators[cur] \in Seq(FunctionType) /\ Validators[cur] \in Seq(FunctionType)
      BY <1>0, PipelineAssumption
    <2> QED BY <2>1
  <1>2. /\ Ending(mutationSteps, Mutators[cur], MutatorsPassed)
        /\ Ending(validationSteps, Validators[cur], ValidatorsPassed)
        /\ pc = "mutate" => idx <= Len(Mutators[cur]) + 1
        /\ pc = "validate" => idx <= Len(Validators[cur]) + 1
    BY <1>0 DEF CurEnding
  <1>3. CASE EmptyPipeline
    <2>1. /\ pc = "pipeline" /\ pc' = "return" /\ UNCHANGED <<mutationSteps, validationSteps>>
          /\ Range(Mutators[cur]) = {} /\ Range(Validators[cur]) = {}
      BY <1>3 DEF EmptyPipeline, report, Fns
    <2>2. \A fns \in Seq(FunctionType) : Range(fns) = {} => Len(fns) = 0
      <3> SUFFICES ASSUME NEW fns \in Seq(FunctionType), Len(fns) # 0
                   PROVE  Range(fns) # {}
        OBVIOUS
      <3>1. 1 \in DOMAIN fns
        OBVIOUS
      <3> QED BY <3>1 DEF Range
    <2>3. Len(Mutators[cur]) = 0 /\ Len(Validators[cur]) = 0
      BY <1>1, <2>1, <2>2
    <2>4. /\ MutatorsPassed = 0 /\ ValidatorsPassed = 0 /\ MutatorsPassed' = 0
          /\ ValidatorsPassed' = 0
      BY <1>0, <2>1, <2>3 DEF MutatorsPassed, ValidatorsPassed
    <2> QED BY <1>0, <1>2, <2>1, <2>4 DEF CurEnding
  <1>4. CASE FnChain
    <2>1. /\ pc = "pipeline" /\ pc' = "mutate" /\ idx' = 1
          /\ UNCHANGED <<mutationSteps, validationSteps>>
      BY <1>4 DEF FnChain, report
    <2>2. /\ MutatorsPassed = 0 /\ ValidatorsPassed = 0 /\ MutatorsPassed' = 0
          /\ ValidatorsPassed' = 0
      BY <2>1 DEF MutatorsPassed, ValidatorsPassed
    <2>3. idx' <= Len(Mutators[cur]) + 1
      BY <1>1, <2>1
    <2> QED BY <1>0, <1>2, <2>1, <2>2, <2>3 DEF CurEnding
  <1>5. CASE RunMutator \/ SkipMutator
    <2>1. /\ pc = "mutate" /\ pc' = "mutate" /\ idx' = idx + 1 /\ idx <= Len(Mutators[cur])
          /\ UNCHANGED validationSteps
          /\ \E how \in {"pass", "skip"} :
               mutationSteps' = Append(mutationSteps, Step(Mutators[cur][idx], how))
      BY <1>5 DEF RunMutator, MutatorRuns, SkipMutator, AtMutator, Mutator
    <2>2. PICK how \in {"pass", "skip"} :
               mutationSteps' = Append(mutationSteps, Step(Mutators[cur][idx], how))
      BY <2>1
    <2>3. /\ Step(Mutators[cur][idx], how).fn = Mutators[cur][idx].id
          /\ Step(Mutators[cur][idx], how).how # "fail"
      BY DEF Step
    <2>4. /\ MutatorsPassed = idx - 1 /\ ValidatorsPassed = 0 /\ MutatorsPassed' = idx
          /\ ValidatorsPassed' = 0 /\ idx - 1 \in Nat /\ (idx - 1) + 1 = idx
      BY <1>0, <2>1 DEF MutatorsPassed, ValidatorsPassed
    <2>5. Ending(mutationSteps', Mutators[cur], idx)
      <3>1. Ending(mutationSteps, Mutators[cur], idx - 1)
        BY <1>2, <2>4
      <3>2. Ending(Append(mutationSteps, Step(Mutators[cur][idx], how)), Mutators[cur], (idx - 1) + 1)
        BY <1>0, <2>3, <2>4, <3>1, EndingAppend
      <3> QED BY <2>2, <2>4, <3>2
    <2>6. idx' <= Len(Mutators[cur]) + 1
      BY <1>0, <1>1, <2>1
    <2> QED BY <1>0, <1>2, <2>1, <2>4, <2>5, <2>6 DEF CurEnding
  <1>6. CASE MutatorsDone
    <2>1. /\ pc = "mutate" /\ pc' = "validate" /\ idx' = 1 /\ idx > Len(Mutators[cur])
          /\ UNCHANGED <<mutationSteps, validationSteps>>
      BY <1>6 DEF MutatorsDone, report
    <2>2. idx - 1 = Len(Mutators[cur])
      BY <1>0, <1>1, <1>2, <2>1
    <2>3. /\ MutatorsPassed = idx - 1 /\ ValidatorsPassed = 0
          /\ MutatorsPassed' = Len(Mutators[cur]) /\ ValidatorsPassed' = 0
      BY <1>0, <2>1 DEF MutatorsPassed, ValidatorsPassed
    <2>4. idx' <= Len(Validators[cur]) + 1
      BY <1>1, <2>1
    <2> QED BY <1>0, <1>2, <2>1, <2>2, <2>3, <2>4 DEF CurEnding
  <1>7. CASE RunValidator \/ SkipValidator
    <2>1. /\ pc = "validate" /\ pc' = "validate" /\ idx' = idx + 1
          /\ idx <= Len(Validators[cur]) /\ UNCHANGED mutationSteps
          /\ \E how \in {"pass", "skip"} :
               validationSteps' = Append(validationSteps, Step(Validators[cur][idx], how))
      BY <1>7 DEF RunValidator, SkipValidator, ValidatorReady, AtValidator, Validator
    <2>2. PICK how \in {"pass", "skip"} :
               validationSteps' = Append(validationSteps, Step(Validators[cur][idx], how))
      BY <2>1
    <2>3. /\ Step(Validators[cur][idx], how).fn = Validators[cur][idx].id
          /\ Step(Validators[cur][idx], how).how # "fail"
      BY DEF Step
    <2>4. /\ MutatorsPassed = Len(Mutators[cur]) /\ ValidatorsPassed = idx - 1
          /\ MutatorsPassed' = Len(Mutators[cur]) /\ ValidatorsPassed' = idx
          /\ idx - 1 \in Nat /\ (idx - 1) + 1 = idx
      BY <1>0, <2>1 DEF MutatorsPassed, ValidatorsPassed
    <2>5. Ending(validationSteps', Validators[cur], idx)
      <3>1. Ending(validationSteps, Validators[cur], idx - 1)
        BY <1>2, <2>4
      <3>2. Ending(Append(validationSteps, Step(Validators[cur][idx], how)), Validators[cur],
                   (idx - 1) + 1)
        BY <1>0, <2>3, <2>4, <3>1, EndingAppend
      <3> QED BY <2>2, <2>4, <3>2
    <2>6. idx' <= Len(Validators[cur]) + 1
      BY <1>0, <1>1, <2>1
    <2> QED BY <1>0, <1>2, <2>1, <2>4, <2>5, <2>6 DEF CurEnding
  <1>8. CASE ValidatorsDone
    <2>1. /\ pc = "validate" /\ pc' = "return" /\ idx > Len(Validators[cur])
          /\ UNCHANGED <<mutationSteps, validationSteps>>
      BY <1>8 DEF ValidatorsDone, report
    <2>2. idx - 1 = Len(Validators[cur])
      BY <1>0, <1>1, <1>2, <2>1
    <2>3. /\ MutatorsPassed = Len(Mutators[cur]) /\ ValidatorsPassed = idx - 1
          /\ MutatorsPassed' = Len(Mutators[cur]) /\ ValidatorsPassed' = Len(Validators[cur])
      BY <1>0, <2>1 DEF MutatorsPassed, ValidatorsPassed
    <2> QED BY <1>0, <1>2, <2>1, <2>2, <2>3 DEF CurEnding
  <1>9. ASSUME \E out : PipelineFails(out) PROVE CurEnding'
    BY <1>9 DEF PipelineFails, CurEnding, Running
  <1> QED BY <1>3, <1>4, <1>5, <1>6, <1>7, <1>8, <1>9
      DEF PipelineStep, EmptyPipelineRejected, PipelineInvalid, FnChainFails,
          MutatorConfigRefMissing, MutatorFails, MutatorRejected, ValidatorNotBuilt,
          ValidatorFails, ValidatorRejected

(* Every step of the specification preserves StepInv.                       *)
LEMMA StepInvStep ==
  ASSUME BaseInv, StepInv, [Next]_vars
  PROVE  StepInv'
  <1>0. /\ mutationSteps \in Seq(StepType) /\ validationSteps \in Seq(StepType)
        /\ \A p \in Pkgs : Mutators[p] \in Seq(FunctionType) /\ Validators[p] \in Seq(FunctionType)
    BY PipelineAssumption DEF BaseInv, TypeOK
  <1>1. CASE PipelineStep
    <2>1. /\ pc \in Running /\ UNCHANGED <<cur, state>> /\ cur \in Pkgs
          /\ (pc' \in Active => pc' \in Running) /\ ~Wet(cur)
      BY <1>1, PipelineKeepsWalk, CurHydrating DEF Active, Running, BaseInv, TypeOK
    <2>2. ASSUME NEW p \in Pkgs, p # cur
          PROVE  /\ Accounted(mutationSteps, Mutators[p]) => Accounted(mutationSteps', Mutators[p])
                 /\ NoneOf(mutationSteps, Mutators[p]) => NoneOf(mutationSteps', Mutators[p])
      <3>1. CASE UNCHANGED mutationSteps
        BY <3>1
      <3>2. CASE \E i \in DOMAIN Mutators[cur], how \in {"pass", "skip", "fail"} :
                   mutationSteps' = Append(mutationSteps, Step(Mutators[cur][i], how))
        <4>1. PICK i \in DOMAIN Mutators[cur], how \in {"pass", "skip", "fail"} :
                   mutationSteps' = Append(mutationSteps, Step(Mutators[cur][i], how))
          BY <3>2
        <4>2. Step(Mutators[cur][i], how).fn \notin Ids(Mutators[p])
          <5>1. Mutators[cur][i].id \notin Ids(Mutators[p])
            BY <2>1, <2>2, OtherIds
          <5> QED BY <5>1 DEF Step
        <4> QED BY <1>0, <4>1, <4>2, AccountedAppend, NoneAppend
      <3> QED BY <1>1, <3>1, <3>2, ReportEffect
    <2>3. ASSUME NEW p \in Pkgs, p # cur
          PROVE  /\ Accounted(validationSteps, Validators[p])
                      => Accounted(validationSteps', Validators[p])
                 /\ NoneOf(validationSteps, Validators[p]) => NoneOf(validationSteps', Validators[p])
      <3>1. CASE UNCHANGED validationSteps
        BY <3>1
      <3>2. CASE \E i \in DOMAIN Validators[cur], how \in {"pass", "skip", "fail"} :
                   validationSteps' = Append(validationSteps, Step(Validators[cur][i], how))
        <4>1. PICK i \in DOMAIN Validators[cur], how \in {"pass", "skip", "fail"} :
                   validationSteps' = Append(validationSteps, Step(Validators[cur][i], how))
          BY <3>2
        <4>2. Step(Validators[cur][i], how).fn \notin Ids(Validators[p])
          <5>1. Validators[cur][i].id \notin Ids(Validators[p])
            BY <2>1, <2>3, OtherIds
          <5> QED BY <5>1 DEF Step
        <4> QED BY <1>0, <4>1, <4>2, AccountedAppend, NoneAppend
      <3> QED BY <1>1, <3>1, <3>2, ReportEffect
    <2>4. WetAccounted'
      <3>1. ASSUME NEW p \in Pkgs, Wet(p)
            PROVE  /\ Accounted(mutationSteps', Mutators[p])
                   /\ Accounted(validationSteps', Validators[p])
        <4>1. p # cur
          BY <2>1, <3>1
        <4> QED BY <2>2, <2>3, <3>1, <4>1 DEF StepInv, WetAccounted
      <3> QED BY <2>1, <3>1 DEF WetAccounted, Wet
    <2>5. OthersNone'
      <3>1. ASSUME NEW p \in Pkgs, ~Wet(p), p # cur
            PROVE  NoneOf(mutationSteps', Mutators[p]) /\ NoneOf(validationSteps', Validators[p])
        BY <2>1, <2>2, <2>3, <3>1 DEF StepInv, OthersNone, Active
      <3> QED BY <2>1, <3>1 DEF OthersNone, Wet
    <2>6. CurEnding'
      BY <1>1, CurEndingStep DEF StepInv
    <2>7. StepsOwned'
      <3>1. CASE UNCHANGED mutationSteps
        BY <3>1 DEF StepInv, StepsOwned
      <3>2. CASE \E i \in DOMAIN Mutators[cur], how \in {"pass", "skip", "fail"} :
                   mutationSteps' = Append(mutationSteps, Step(Mutators[cur][i], how))
        <4>1. PICK i \in DOMAIN Mutators[cur], how \in {"pass", "skip", "fail"} :
                   mutationSteps' = Append(mutationSteps, Step(Mutators[cur][i], how))
          BY <3>2
        <4>2. Step(Mutators[cur][i], how).fn = Mutators[cur][i].id
          BY DEF Step
        <4>3. /\ DOMAIN mutationSteps' = DOMAIN mutationSteps \cup {Len(mutationSteps) + 1}
              /\ \A j \in DOMAIN mutationSteps : mutationSteps'[j] = mutationSteps[j]
              /\ mutationSteps'[Len(mutationSteps) + 1] = Step(Mutators[cur][i], how)
          BY <1>0, <4>1, AppendOf
        <4> QED BY <2>1, <4>2, <4>3 DEF StepInv, StepsOwned
      <3> QED BY <1>1, <3>1, <3>2, ReportEffect
    <2> QED BY <2>4, <2>5, <2>6, <2>7 DEF StepInv
  <1>2. CASE TailStep
    <2>1. UNCHANGED <<state, mutationSteps, validationSteps>> /\ pc' \notin Active
      BY <1>2, TailEffect DEF Active, Running
    <2> QED BY <2>1 DEF StepInv, WetAccounted, OthersNone, CurEnding, StepsOwned, Wet, Active
  <1>3. CASE UNCHANGED vars
    <2>1. UNCHANGED <<state, mutationSteps, validationSteps, pc, cur, idx>>
      BY <1>3 DEF vars, walk, pipe, report
    <2>2. UNCHANGED <<MutatorsPassed, ValidatorsPassed>>
      BY <2>1 DEF MutatorsPassed, ValidatorsPassed
    <2> QED BY <2>1, <2>2 DEF StepInv, WetAccounted, OthersNone, CurEnding, StepsOwned, Wet
  <1>4. CASE ExecuteInvalid \/ ExecuteDfs \/ ExecuteBfs \/ DfsStep \/ BfsStep
    <2>1. UNCHANGED <<mutationSteps, validationSteps>>
      BY <1>4, WalkEffect DEF report
    <2>2. StepsOwned'
      BY <2>1 DEF StepInv, StepsOwned
    <2>3. \A p \in Pkgs : (Wet(p) <=> p \in WetPkgs) /\ (Wet(p)' <=> p \in WetPkgs')
      BY DEF WetPkgs
    <2>4. CASE /\ WetPkgs' = WetPkgs /\ pc \notin Running /\ pc' \notin Running
               /\ pc' \in Active => pc \in Active
      BY <2>1, <2>2, <2>3, <2>4 DEF StepInv, WetAccounted, OthersNone, CurEnding
    <2>5. CASE /\ WetPkgs' = WetPkgs /\ pc \in {"walk", "bfs"} /\ pc' = "pipeline"
               /\ cur' \notin WetPkgs /\ cur' \in Pkgs
      <3>1. \A p \in Pkgs : ~Wet(p) =>
              NoneOf(mutationSteps, Mutators[p]) /\ NoneOf(validationSteps, Validators[p])
        BY <2>5 DEF StepInv, OthersNone, Active, Running
      <3>2. /\ Ending(mutationSteps, Mutators[cur'], 0)
            /\ Ending(validationSteps, Validators[cur'], 0)
        BY <1>0, <2>3, <2>5, <3>1, NoneEnding
      <3>3. MutatorsPassed' = 0 /\ ValidatorsPassed' = 0
        BY <2>5 DEF MutatorsPassed, ValidatorsPassed
      <3> QED BY <2>1, <2>2, <2>3, <2>5, <3>1, <3>2, <3>3
          DEF StepInv, WetAccounted, OthersNone, CurEnding, Active, Running
    <2>6. CASE /\ WetPkgs' = WetPkgs \cup {cur} /\ pc = "return" /\ cur \in Pkgs
               /\ pc' \in {"walk", "bfs", "tail"}
      <3>1. MutatorsPassed = Len(Mutators[cur]) /\ ValidatorsPassed = Len(Validators[cur])
        BY <2>6 DEF MutatorsPassed, ValidatorsPassed
      <3>2. /\ Accounted(mutationSteps, Mutators[cur])
            /\ Accounted(validationSteps, Validators[cur])
        BY <1>0, <2>6, <3>1, EndingAccounted DEF StepInv, CurEnding, Running
      <3>3. WetAccounted'
        BY <2>1, <2>3, <2>6, <3>2 DEF StepInv, WetAccounted
      <3>4. OthersNone'
        BY <2>1, <2>3, <2>6 DEF StepInv, OthersNone, Active, Running
      <3> QED BY <2>2, <2>6, <3>3, <3>4 DEF StepInv, CurEnding, Running
    <2> QED BY <1>4, <2>4, <2>5, <2>6, WalkEffect
  <1> QED BY <1>1, <1>2, <1>3, <1>4 DEF Next

(* A failed step is there only after an error, and it is the last one of    *)
(* the mutation steps or of the validation steps.                           *)
NoFail(s) == \A i \in DOMAIN s : s[i].how # "fail"
LastFail(s) == \A i \in DOMAIN s : s[i].how = "fail" => i = Len(s)

FailInv ==
    /\ pc \in Active => ~hydErr
    /\ ~hydErr => NoFail(mutationSteps) /\ NoFail(validationSteps)
    /\ \/ NoFail(mutationSteps) /\ LastFail(validationSteps)
       \/ LastFail(mutationSteps) /\ NoFail(validationSteps)

LEMMA FailAppend ==
  ASSUME NEW T, NEW s \in Seq(T), NEW x, NoFail(s)
  PROVE  LastFail(Append(s, x)) /\ (x.how # "fail" => NoFail(Append(s, x)))
  BY AppendOf DEF NoFail, LastFail

(* Every step of the specification preserves FailInv.                       *)
LEMMA FailInvStep ==
  ASSUME BaseInv, FailInv, [Next]_vars
  PROVE  FailInv'
  <1>0. mutationSteps \in Seq(StepType) /\ validationSteps \in Seq(StepType)
    BY DEF BaseInv, TypeOK
  <1>1. CASE PipelineStep
    <2>1. /\ pc \in Active /\ (pc' \in Active => UNCHANGED hydErr)
          /\ (pc' \notin Active => hydErr')
      BY <1>1, PipelineKeepsWalk DEF Active, Running
    <2>2. ~hydErr /\ NoFail(mutationSteps) /\ NoFail(validationSteps)
      BY <2>1 DEF FailInv
    <2>3. NoFail(mutationSteps) => LastFail(mutationSteps)
      BY DEF NoFail, LastFail
    <2>4. NoFail(validationSteps) => LastFail(validationSteps)
      BY DEF NoFail, LastFail
    <2>5. CASE UNCHANGED <<mutationSteps, validationSteps>>
      BY <2>1, <2>2, <2>3, <2>5 DEF FailInv, NoFail, LastFail
    <2>6. CASE \E i \in DOMAIN Mutators[cur], how \in {"pass", "skip", "fail"} :
                 /\ mutationSteps' = Append(mutationSteps, Step(Mutators[cur][i], how))
                 /\ UNCHANGED validationSteps /\ (how = "fail" => pc' \notin Active)
      <3>1. PICK i \in DOMAIN Mutators[cur], how \in {"pass", "skip", "fail"} :
                 /\ mutationSteps' = Append(mutationSteps, Step(Mutators[cur][i], how))
                 /\ UNCHANGED validationSteps /\ (how = "fail" => pc' \notin Active)
        BY <2>6
      <3>2. Step(Mutators[cur][i], how).how = how
        BY DEF Step
      <3>3. /\ LastFail(mutationSteps') /\ NoFail(validationSteps')
            /\ how # "fail" => NoFail(mutationSteps')
        BY <1>0, <2>2, <3>1, <3>2, FailAppend
      <3> QED BY <2>1, <2>2, <3>1, <3>3 DEF FailInv, NoFail, LastFail
    <2>7. CASE \E i \in DOMAIN Validators[cur], how \in {"pass", "skip", "fail"} :
                 /\ validationSteps' = Append(validationSteps, Step(Validators[cur][i], how))
                 /\ UNCHANGED mutationSteps /\ (how = "fail" => pc' \notin Active)
      <3>1. PICK i \in DOMAIN Validators[cur], how \in {"pass", "skip", "fail"} :
                 /\ validationSteps' = Append(validationSteps, Step(Validators[cur][i], how))
                 /\ UNCHANGED mutationSteps /\ (how = "fail" => pc' \notin Active)
        BY <2>7
      <3>2. Step(Validators[cur][i], how).how = how
        BY DEF Step
      <3>3. /\ LastFail(validationSteps') /\ NoFail(mutationSteps')
            /\ how # "fail" => NoFail(validationSteps')
        BY <1>0, <2>2, <3>1, <3>2, FailAppend
      <3> QED BY <2>1, <2>2, <3>1, <3>3 DEF FailInv, NoFail, LastFail
    <2> QED BY <1>1, <2>5, <2>6, <2>7, ReportEffect
  <1>2. CASE ExecuteInvalid \/ ExecuteDfs \/ ExecuteBfs \/ DfsStep \/ BfsStep
    <2>1. UNCHANGED <<mutationSteps, validationSteps>> /\ (pc' \in Active => pc \in Active)
      BY <1>2, WalkEffect DEF report, Active, Running
    <2>2. hydErr' = hydErr \/ (hydErr' /\ pc' \in {"unwind", "tail"})
      BY <1>2 DEF ExecuteInvalid, ExecuteDfs, ExecuteBfs, DfsStep, HydrateSubpackage,
         HydrateSubpackageInvalid, HydrateUnreadable, HydrateRunPipeline, HydrateReturn, HydrateUnwind,
         HydrateFailed, BfsStep, Discover, DiscoverUnreadable, DiscoverDone, BfsRunPipeline,
         BfsReturn, BfsDone,
         outcome
    <2> QED BY <2>1, <2>2 DEF FailInv, NoFail, LastFail, Active, Running
  <1>3. CASE TailStep
    <2>1. UNCHANGED <<hydErr, mutationSteps, validationSteps>> /\ pc' \notin Active
      BY <1>3, TailEffect DEF Active, Running
    <2> QED BY <2>1 DEF FailInv, NoFail, LastFail
  <1>4. CASE UNCHANGED vars
    <2>1. UNCHANGED <<hydErr, mutationSteps, validationSteps, pc>>
      BY <1>4 DEF vars, report, outcome
    <2> QED BY <2>1 DEF FailInv, NoFail, LastFail
  <1> QED BY <1>1, <1>2, <1>3, <1>4 DEF Next

LEMMA StepInvInit == Init => StepInv /\ FailInv
  <1> SUFFICES ASSUME Init PROVE StepInv /\ FailInv
    OBVIOUS
  <1>1. \A p \in Pkgs : ~Wet(p)
    BY DEF Init, Wet
  <1>2. DOMAIN mutationSteps = {} /\ DOMAIN validationSteps = {}
    BY DEF Init
  <1>3. pc = "start" /\ ~hydErr
    BY DEF Init
  <1>4. StepInv
    <2>1. OthersNone
      BY <1>2 DEF OthersNone, NoneOf
    <2>2. CurEnding
      BY <1>3 DEF CurEnding, Running
    <2> QED BY <1>1, <1>2, <2>1, <2>2 DEF StepInv, WetAccounted, StepsOwned
  <1> QED BY <1>2, <1>3, <1>4 DEF FailInv, NoFail, LastFail

(* Concatenation, element by element.                                       *)
LEMMA ConcatOf ==
  ASSUME NEW S, NEW s \in Seq(S), NEW t \in Seq(S)
  PROVE  /\ Len(s) \in Nat /\ Len(t) \in Nat /\ Len(s \o t) = Len(s) + Len(t)
         /\ DOMAIN s = 1 .. Len(s) /\ DOMAIN t = 1 .. Len(t)
         /\ DOMAIN (s \o t) = 1 .. (Len(s) + Len(t))
         /\ \A j \in 1 .. Len(s) : (s \o t)[j] = s[j]
         /\ \A j \in 1 .. Len(t) : (s \o t)[Len(s) + j] = t[j]
  OBVIOUS

(* The failed step in the list of all steps.                                *)
LEMMA FailedStep ==
  ASSUME TypeOK, FailInv, NEW i \in DOMAIN Steps, Steps[i].how = "fail"
  PROVE  /\ hydErr /\ i \in {Len(mutationSteps), Len(Steps)}
         /\ \A j \in DOMAIN Steps : Steps[j].how = "fail" => i = j
  <1> DEFINE m == mutationSteps
             v == validationSteps
  <1>1. /\ m \in Seq(StepType) /\ v \in Seq(StepType)
        /\ Len(m) \in Nat /\ Len(v) \in Nat /\ Len(Steps) = Len(m) + Len(v)
        /\ DOMAIN m = 1 .. Len(m) /\ DOMAIN v = 1 .. Len(v) /\ DOMAIN Steps = 1 .. (Len(m) + Len(v))
        /\ \A j \in 1 .. Len(m) : Steps[j] = m[j]
        /\ \A j \in 1 .. Len(v) : Steps[Len(m) + j] = v[j]
    <2>1. m \in Seq(StepType) /\ v \in Seq(StepType) /\ Steps = m \o v
      BY DEF TypeOK, Steps
    <2> HIDE DEF m, v
    <2> QED BY <2>1, ConcatOf
  <1>2. \A j \in DOMAIN Steps : \/ j \in DOMAIN m /\ Steps[j] = m[j]
                                \/ j - Len(m) \in DOMAIN v /\ Steps[j] = v[j - Len(m)]
    <2>1. ASSUME NEW j \in DOMAIN Steps, j \notin DOMAIN m
          PROVE  j - Len(m) \in DOMAIN v /\ Steps[j] = v[j - Len(m)]
      <3>1. j - Len(m) \in 1 .. Len(v) /\ Len(m) + (j - Len(m)) = j
        BY <1>1, <2>1
      <3>2. Steps[Len(m) + (j - Len(m))] = v[j - Len(m)]
        BY <1>1, <3>1
      <3> QED BY <1>1, <3>1, <3>2
    <2> QED BY <1>1, <2>1
  <1>3. hydErr
    <2>1. CASE ~hydErr
      <3>1. NoFail(m) /\ NoFail(v)
        BY <2>1 DEF FailInv
      <3> QED BY <1>2, <3>1 DEF NoFail
    <2> QED BY <2>1
  <1>4. CASE NoFail(m) /\ LastFail(v)
    <2>1. \A j \in DOMAIN Steps : Steps[j].how = "fail" => j - Len(m) = Len(v) /\ j \in Nat
      BY <1>1, <1>2, <1>4 DEF NoFail, LastFail
    <2>2. \A j \in DOMAIN Steps : Steps[j].how = "fail" => j = Len(Steps)
      BY <1>1, <2>1
    <2> QED BY <1>3, <2>2
  <1>5. CASE LastFail(m) /\ NoFail(v)
    <2>1. \A j \in DOMAIN Steps : Steps[j].how = "fail" => j = Len(m)
      BY <1>2, <1>5 DEF NoFail, LastFail
    <2> QED BY <1>3, <2>1
  <1> QED BY <1>4, <1>5 DEF FailInv

(* Whatever the tree and the pipelines, renderStatus is a true account: a   *)
(* wet package has one step, not failed, for each of its functions, in      *)
(* pipeline order and together; there is at most one failed step, only      *)
(* after an error, and it is the last of its kind.                          *)
THEOREM StepsTellOutcomeHolds == Spec => []StepsTellOutcome
  <1>1. TypeOK /\ StepInv /\ FailInv => StepsTellOutcome
    <2> SUFFICES ASSUME TypeOK, StepInv, FailInv PROVE StepsTellOutcome
      OBVIOUS
    <2>1. \A p \in Pkgs : state[p] = "Wet" =>
             Accounted(mutationSteps, Mutators[p]) /\ Accounted(validationSteps, Validators[p])
      BY DEF StepInv, WetAccounted, Wet
    <2> QED BY <2>1, FailedStep DEF StepsTellOutcome
  <1>2. BaseInv /\ StepInv /\ FailInv /\ [Next]_vars => BaseInv' /\ StepInv' /\ FailInv'
    BY BaseInvStep, StepInvStep, FailInvStep
  <1>3. BaseInv => TypeOK
    BY DEF BaseInv
  <1> QED BY <1>1, <1>2, <1>3, BaseInvInit, StepInvInit, PTL DEF Spec

-----------------------------------------------------------------------------
(* No update is lost.  A list that a pipeline may still be given has been   *)
(* through all mutators that passed and reach its resources.                *)

(* Functions generate files the package did not have.                       *)
NothingRegenerated ==
    \A L \in Layouts, p \in Pkgs : \A f \in Range(Mutators[p]) : \A n \in f.gens : <<p, n>> \notin L

(* With bfs-rendering, a package's functions do not delete the Kptfile of   *)
(* another package.                                                         *)
KptfilesStay ==
    (\E o \in Options : o.bfs) =>
    \A p, q \in Pkgs : \A f \in Range(Mutators[p]) : p # q => <<q, Kptfile>> \notin f.drops

ExactHist(r) == Key(r) \in Keys(disk0) => Range(r.hist) = {id \in Passed : Reaches(id, r)}
Exact(S) == \A r \in S : ExactHist(r)

LayoutInv == opts \in Options /\ \E L \in Layouts : Keys(disk0) = L

InputInv ==
    ~opts.bfs /\ pc \in {"walk"} \cup Running =>
       \A p \in Pkgs : \A r \in input[p] : Hydrating(p) =>
          /\ r.pkg \in Discovered
          /\ \A h \in Pkgs : Hydrating(h) /\ r.pkg \in Below[h] => p \in Below[h]

DfsExact ==
    ~opts.bfs /\ pc \in {"walk"} \cup Running =>
       \A p \in Pkgs : Hydrating(p) /\ (pc # "walk" => p # cur) => Exact(input[p])

BfsExact ==
    opts.bfs /\ pc \in {"discover", "bfs"} \cup Running =>
       /\ \A q \in Pkgs : \A r \in res[q] : r.pkg = q
       /\ \A q \in Pkgs : (pc \in Running => q \notin Below[cur]) => Exact(res[q])
       /\ \A q \in Discovered :
             ~Wet(q) /\ ~(pc \in Running /\ q = cur) => <<q, Kptfile>> \in Keys(res[q])
       /\ pc \in Running => \A q \in Below[cur] \ {cur} : <<q, Kptfile>> \in Keys(work)

WorkExact ==
    /\ pc \in Running => Exact(work)
    /\ pc \in {"mutate", "validate"} => ValidatePipeline(cur)

EndExact == pc \in {"tail", "prune", "finish", "done"} /\ ~hydErr => Exact(res[Root])

CoreInv == BaseInv /\ HistInv /\ StepInv /\ FailInv
ExactCore == LayoutInv /\ InputInv /\ DfsExact /\ BfsExact /\ WorkExact /\ EndExact

LEMMA CoreInvStep ==
  ASSUME CoreInv, [Next]_vars
  PROVE  CoreInv'
  BY BaseInvStep, HistInvStep, StepInvStep, FailInvStep DEF CoreInv

(* A mutator that passed belongs to a wet package or has had its turn.      *)
LEMMA PassedOwners ==
  ASSUME BaseInv, StepInv, pc \in Active, NEW id \in Passed
  PROVE  Owner(id) \in WetPkgs \/ (pc \in Running /\ OwnDone(id))
  <1>0. /\ mutationSteps \in Seq(StepType) /\ idx \in Nat \ {0} /\ cur \in Pkgs
        /\ Len(mutationSteps) \in Nat
        /\ \A k \in DOMAIN mutationSteps : k \in Nat /\ 1 <= k /\ k <= Len(mutationSteps)
    <2>1. mutationSteps \in Seq(StepType) /\ idx \in Nat \ {0} /\ cur \in Pkgs
      BY DEF BaseInv, TypeOK
    <2> QED BY <2>1
  <1>1. PICK k \in DOMAIN mutationSteps : mutationSteps[k].fn = id
    BY DEF Passed, Range
  <1>2. PICK p \in Pkgs : \E j \in DOMAIN Mutators[p] : id = Mutators[p][j].id
    BY <1>1 DEF StepInv, StepsOwned
  <1>3. PICK j \in DOMAIN Mutators[p] : id = Mutators[p][j].id
    BY <1>2
  <1>4. Owner(id) = p /\ Position(id) = j
    BY <1>3, MutatorId
  <1>5. id \in Ids(Mutators[p])
    BY <1>3 DEF Ids, Range
  <1>6. CASE Wet(p)
    BY <1>4, <1>6 DEF WetPkgs
  <1>7. CASE ~Wet(p)
    <2>1. pc \in Running /\ p = cur
      BY <1>1, <1>5, <1>7 DEF StepInv, OthersNone, NoneOf
    <2>2. Ending(mutationSteps, Mutators[cur], MutatorsPassed)
      BY <2>1 DEF StepInv, CurEnding
    <2>3. CASE pc = "pipeline"
      <3>1. MutatorsPassed = 0
        BY <2>3 DEF MutatorsPassed
      <3>2. ~(k > Len(mutationSteps) - 0)
        BY <1>0
      <3> QED BY <1>1, <1>5, <2>1, <2>2, <3>1, <3>2 DEF Ending
    <2>4. CASE pc = "mutate"
      <3> DEFINE n == idx - 1
                 i == k - (Len(mutationSteps) - n)
      <3>1. MutatorsPassed = n
        BY <2>4 DEF MutatorsPassed
      <3>2. k > Len(mutationSteps) - n /\ mutationSteps[k].fn = Mutators[cur][i].id
        BY <1>1, <1>5, <2>1, <2>2, <3>1 DEF Ending
      <3>3. i \in 1 .. n
        BY <1>0, <3>2
      <3>4. i \in DOMAIN Mutators[cur]
        <4>1. Mutators[cur] \in Seq(FunctionType) /\ idx <= Len(Mutators[cur]) + 1
          BY <1>0, <2>4, PipelineAssumption DEF StepInv, CurEnding, Running
        <4> QED BY <1>0, <3>3, <4>1
      <3>5. i = j
        BY <1>1, <1>3, <2>1, <3>2, <3>4, IdAssumption
      <3> QED BY <1>4, <2>1, <2>4, <3>3, <3>5 DEF OwnDone
    <2>5. CASE pc \notin {"pipeline", "mutate"}
      BY <1>4, <2>1, <2>5 DEF OwnDone
    <2> QED BY <2>1, <2>3, <2>4, <2>5
  <1> QED BY <1>6, <1>7

(* So the mutator whose turn it is has not passed, nor has any validator.   *)
LEMMA NotPassed ==
  ASSUME BaseInv, StepInv
  PROVE  /\ AtMutator => Mutator.id \notin Passed
         /\ AtValidator => Validator.id \notin Passed
  <1>0. cur \in Pkgs /\ idx \in Nat \ {0}
    BY DEF BaseInv, TypeOK
  <1>1. ASSUME AtMutator, Mutator.id \in Passed PROVE FALSE
    <2>1. idx \in DOMAIN Mutators[cur] /\ pc = "mutate" /\ pc \in Active /\ pc \in Running
      <3>1. Mutators[cur] \in Seq(FunctionType)
        BY <1>0, PipelineAssumption
      <3> QED BY <1>0, <1>1, <3>1 DEF AtMutator, Active, Running
    <2>2. Owner(Mutator.id) = cur /\ Position(Mutator.id) = idx
      BY <1>0, <2>1, MutatorId DEF Mutator
    <2>3. cur \notin WetPkgs
      BY <2>1, CurHydrating DEF WetPkgs
    <2>4. OwnDone(Mutator.id)
      BY <1>1, <2>1, <2>2, <2>3, PassedOwners
    <2>5. idx \in 1 .. (idx - 1)
      BY <2>1, <2>2, <2>4 DEF OwnDone
    <2> QED BY <1>0, <2>5
  <1>2. ASSUME AtValidator, Validator.id \in Passed PROVE FALSE
    <2>1. idx \in DOMAIN Validators[cur]
      <3>1. Validators[cur] \in Seq(FunctionType)
        BY <1>0, PipelineAssumption
      <3> QED BY <1>0, <1>2, <3>1 DEF AtValidator
    <2>2. PICK k \in DOMAIN mutationSteps : mutationSteps[k].fn = Validator.id
      BY <1>2 DEF Passed, Range
    <2>3. PICK p \in Pkgs : \E j \in DOMAIN Mutators[p] : mutationSteps[k].fn = Mutators[p][j].id
      BY <2>2 DEF StepInv, StepsOwned
    <2>4. PICK j \in DOMAIN Mutators[p] : mutationSteps[k].fn = Mutators[p][j].id
      BY <2>3
    <2>5. Mutators[p][j].id = Validators[cur][idx].id
      BY <2>2, <2>4 DEF Validator
    <2> QED BY <1>0, <2>1, <2>3, <2>4, <2>5, IdAssumption
  <1> QED BY <1>1, <1>2

(* Which mutators have passed changes only when one runs.                   *)
LEMMA PassedEffect ==
  ASSUME BaseInv, PipelineStep
  PROVE  IF RunMutator THEN Passed' = Passed \cup {Mutator.id} ELSE Passed' = Passed
  <1>0. mutationSteps \in Seq(StepType)
    BY DEF BaseInv, TypeOK
  <1>1. ASSUME NEW s, mutationSteps' = Append(mutationSteps, s)
        PROVE  Passed' = IF s.how = "pass" THEN Passed \cup {s.fn} ELSE Passed
    <2>1. Range(mutationSteps') = Range(mutationSteps) \cup {s}
      BY <1>0, <1>1, AppendOf
    <2> QED BY <2>1 DEF Passed
  <1>2. CASE RunMutator
    <2>1. mutationSteps' = Append(mutationSteps, Step(Mutator, "pass"))
      BY <1>2 DEF RunMutator, MutatorRuns
    <2>2. Step(Mutator, "pass").how = "pass" /\ Step(Mutator, "pass").fn = Mutator.id
      BY DEF Step
    <2> QED BY <1>1, <1>2, <2>1, <2>2
  <1>3. CASE ~RunMutator
    <2>1. \/ mutationSteps' = mutationSteps
          \/ \E f, how : /\ how # "pass"
                         /\ mutationSteps' = Append(mutationSteps, Step(f, how))
      <3>1. CASE EmptyPipeline \/ EmptyPipelineRejected \/ PipelineInvalid \/ FnChain
             \/ MutatorConfigRefMissing \/ MutatorsDone \/ ValidatorsDone
        BY <3>1 DEF EmptyPipeline, EmptyPipelineRejected, PipelineInvalid, FnChain,
           MutatorConfigRefMissing, MutatorsDone, ValidatorsDone, report
      <3>2. CASE FnChainFails \/ SkipMutator \/ MutatorFails \/ MutatorRejected
        <4>1. \E f : \E how \in {"skip", "fail"} :
                 mutationSteps' = Append(mutationSteps, Step(f, how))
          BY <3>2 DEF FnChainFails, SkipMutator, MutatorFails, MutatorRejected
        <4> QED BY <4>1
      <3>3. CASE ValidatorNotBuilt \/ RunValidator \/ SkipValidator \/ ValidatorFails
                 \/ ValidatorRejected
        BY <3>3 DEF ValidatorNotBuilt, RunValidator, SkipValidator, ValidatorFails,
           ValidatorRejected
      <3> QED BY <1>3, <3>1, <3>2, <3>3 DEF PipelineStep
    <2>2. CASE mutationSteps' = mutationSteps
      BY <1>3, <2>2 DEF Passed
    <2>3. CASE \E f, how : /\ how # "pass"
                           /\ mutationSteps' = Append(mutationSteps, Step(f, how))
      <3>1. PICK f, how : /\ how # "pass"
                          /\ mutationSteps' = Append(mutationSteps, Step(f, how))
        BY <2>3
      <3>2. Step(f, how).how = how
        BY DEF Step
      <3> QED BY <1>1, <1>3, <3>1, <3>2
    <2> QED BY <2>1, <2>2, <2>3
  <1> QED BY <1>2, <1>3

(* What a resource has been through depends on the report and the package   *)
(* as found.                                                                *)
LEMMA ExactSame ==
  ASSUME disk0' = disk0, Passed' = Passed
  PROVE  \A S : Exact(S) => \A r \in S : ExactHist(r)'
  <1>1. Keys(disk0)' = Keys(disk0)
    BY DEF Keys
  <1>2. \A r : ExactHist(r) => ExactHist(r)'
    <2> SUFFICES ASSUME NEW r, ExactHist(r) PROVE ExactHist(r)'
      OBVIOUS
    <2>1. \A id : Reaches(id, r)' <=> Reaches(id, r)
      BY DEF Reaches, Owner, MutatorOf, Key
    <2>2. (Key(r) \in Keys(disk0))' <=> Key(r) \in Keys(disk0)
      BY <1>1 DEF Key
    <2> QED BY <2>1, <2>2 DEF ExactHist
  <1> QED BY <1>2 DEF Exact

(* A file that has just been read is exact if no mutator that passed        *)
(* belongs to a package around it.                                          *)
LEMMA FreshExact ==
  ASSUME NEW S, Fresh(S), \A r \in S : \A id \in Passed : r.pkg \notin Below[Owner(id)]
  PROVE  Exact(S)
  <1>1. \A r \in S : Range(r.hist) = {}
    BY DEF Fresh, Range
  <1>2. \A r \in S : {id \in Passed : Reaches(id, r)} = {}
    BY DEF Reaches
  <1> QED BY <1>1, <1>2 DEF Exact, ExactHist

(* The mutator whose turn it is.                                            *)
LEMMA MutatorAt ==
  ASSUME BaseInv, AtMutator
  PROVE  /\ cur \in Pkgs /\ pc = "mutate" /\ pc \in Running /\ pc \in Active
         /\ Mutator \in FunctionType /\ Mutator \in Range(Mutators[cur])
         /\ Owner(Mutator.id) = cur /\ MutatorOf(Mutator.id) = Mutator
  <1>1. cur \in Pkgs /\ idx \in Nat \ {0} /\ Mutators[cur] \in Seq(FunctionType)
    BY PipelineAssumption DEF BaseInv, TypeOK
  <1>2. idx \in DOMAIN Mutators[cur] /\ Mutators[cur][idx] \in FunctionType
    BY <1>1 DEF AtMutator
  <1> QED BY <1>1, <1>2, MutatorId DEF Mutator, AtMutator, Running, Active, Range

(* A mutator makes no difference to a resource it does not reach.           *)
LEMMA NotReachedExact ==
  ASSUME disk0' = disk0, NEW m, Passed' = Passed \cup {m},
         NEW r, ExactHist(r), ~Reaches(m, r)
  PROVE  ExactHist(r)'
  <1>1. \A id : Reaches(id, r)' <=> Reaches(id, r)
    BY DEF Reaches, Owner, MutatorOf, Key
  <1>2. (Key(r) \in Keys(disk0))' <=> Key(r) \in Keys(disk0)
    BY DEF Key, Keys
  <1>3. {id \in Passed : Reaches(id, r)}' = {id \in Passed : Reaches(id, r)}
    BY <1>1
  <1> QED BY <1>2, <1>3 DEF ExactHist

(* After a mutator has run, what it was given has been through it, and      *)
(* nothing else of the package as found.                                    *)
LEMMA MutatorExact ==
  ASSUME NothingRegenerated, BaseInv, LayoutInv, Exact(work), RunMutator
  PROVE  \A r \in work' : ExactHist(r)'
  <1> DEFINE id == Mutator.id
  <1>1. PICK D, G : MutatorRuns(D, G) /\ G \subseteq Mutator.gens
    BY DEF RunMutator
  <1>2. /\ disk0' = disk0 /\ PipelineStep /\ AtMutator
        /\ work' = MergeWithInput(Mutator, Apply(Mutator, D, G))
    BY <1>1 DEF MutatorRuns, InPipeline, given, PipelineStep
  <1>3. Passed' = Passed \cup {id}
    BY <1>2, PassedEffect
  <1>4. /\ cur \in Pkgs /\ pc \in Running /\ Mutator \in Range(Mutators[cur])
        /\ Owner(id) = cur /\ MutatorOf(id) = Mutator
    BY <1>2, MutatorAt
  <1>5. \A r \in work : r \in Resource /\ r.pkg \in Below[cur] /\ r.name # NoName
    <2>1. work \subseteq Resource /\ \A r \in work : r.pkg \in Below[cur]
      BY <1>4 DEF BaseInv, TypeOK, ScopeInv, InScope
    <2>2. \A r \in Resource : r.name # NoName
      BY PipelineAssumption DEF Resource
    <2> QED BY <2>1, <2>2
  <1>6. ASSUME NEW r \in work \ SelectInput(Mutator) PROVE ExactHist(r)'
    <2>1. \/ r.name \notin Mutator.selects
          \/ Mutator.clean /\ Key(r) = <<cur, Mutator.config>>
      BY DEF SelectInput, FnConfigNode
    <2>2. ~Reaches(id, r)
      BY <1>4, <2>1 DEF Reaches
    <2>3. ExactHist(r)
      BY DEF Exact
    <2> QED BY <1>2, <1>3, <2>2, <2>3, NotReachedExact
  <1>7. ASSUME NEW t \in SelectInput(Mutator), NEW r, r = [t EXCEPT !.hist = Append(t.hist, id)]
        PROVE  ExactHist(r)'
    <2>1. t \in work /\ t.name \in Mutator.selects /\ t \notin FnConfigNode(Mutator)
      BY DEF SelectInput
    <2>2. t \in Resource /\ t.hist \in Seq(FnIds) /\ t.pkg \in Below[cur] /\ t.name # NoName
      BY <1>5, <2>1 DEF Resource
    <2>3. r.pkg = t.pkg /\ r.name = t.name /\ r.hist = Append(t.hist, id)
      BY <1>7, <2>2 DEF Resource
    <2>4. Mutator.clean => Key(t) # <<cur, Mutator.config>>
      BY <2>1, <2>2 DEF FnConfigNode, Key
    <2>5. Reaches(id, t)
      BY <1>4, <2>1, <2>2, <2>4 DEF Reaches
    <2>6. \A x : Reaches(x, r)' <=> Reaches(x, t)
      BY <2>3 DEF Reaches, Owner, MutatorOf, Key
    <2>7. Range(r.hist) = Range(t.hist) \cup {id}
      BY <2>2, <2>3, AppendOf
    <2>8. ExactHist(t)
      BY <2>1 DEF Exact
    <2>9. (Key(r) \in Keys(disk0))' <=> Key(t) \in Keys(disk0)
      BY <1>2, <2>3 DEF Key, Keys
    <2>10. {x \in Passed : Reaches(x, r)}' = {x \in Passed : Reaches(x, t)} \cup {id}
      BY <1>3, <2>5, <2>6
    <2> QED BY <2>7, <2>8, <2>9, <2>10 DEF ExactHist
  <1>8. ASSUME NEW n \in G, NEW r, r = [pkg |-> cur, name |-> n, hist |-> <<id>>]
        PROVE  ExactHist(r)'
    <2>1. <<cur, n>> \notin Keys(disk0)
      BY <1>1, <1>4 DEF NothingRegenerated, LayoutInv
    <2>2. Key(r) = <<cur, n>>
      BY <1>8 DEF Key
    <2>3. (Key(r) \in Keys(disk0))' <=> Key(r) \in Keys(disk0)
      BY <1>2 DEF Key, Keys
    <2> QED BY <2>1, <2>2, <2>3 DEF ExactHist
  <1>9. ASSUME NEW r \in work'
        PROVE  \/ r \in work \ SelectInput(Mutator)
               \/ \E t \in SelectInput(Mutator) : r = [t EXCEPT !.hist = Append(t.hist, id)]
               \/ \E n \in G : r = [pkg |-> cur, name |-> n, hist |-> <<id>>]
    BY <1>2 DEF MergeWithInput, Apply
  <1> HIDE DEF id
  <1> QED BY <1>6, <1>7, <1>8, <1>9

LEMMA LayoutSame ==
  ASSUME LayoutInv, UNCHANGED <<opts, disk0>>
  PROVE  LayoutInv'
  BY DEF LayoutInv, Keys

(* The files of a package that is discovered have not been through any      *)
(* function, and no mutator that passed belongs to a package around it.     *)
LEMMA ExactFiles ==
  ASSUME BaseInv, HistInv, StepInv, pc \in {"start", "walk", "discover"},
         NEW p \in Pkgs, p \notin Discovered
  PROVE  Exact(LocalResources(p))
  <1>1. Fresh(LocalResources(p))
    BY DEF BaseInv, DiskInv, HistInv, LocalResources, Fresh
  <1>2. ASSUME NEW id \in Passed, p \in Below[Owner(id)] PROVE FALSE
    <2>1. Owner(id) \in WetPkgs
      BY PassedOwners DEF Active, Running
    <2>2. CASE pc = "start"
      BY <2>1, <2>2 DEF BaseInv, WalkInv, ModeInv, WetPkgs, Wet, Discovered
    <2>3. CASE pc = "discover"
      BY <2>1, <2>3 DEF BaseInv, LevelInv, DiscoverInv, WetPkgs, Wet
    <2>4. CASE pc = "walk"
      <3>1. \A x \in Pkgs : Wet(x) => \A q \in Below[x] : Wet(q)
        BY <2>4 DEF BaseInv, WalkInv, ModeInv, NestInv
      <3>2. Wet(p)
        BY <1>2, <2>1, <3>1 DEF WetPkgs
      <3> QED BY <3>2 DEF Wet, Discovered
    <2> QED BY <2>2, <2>3, <2>4
  <1>3. \A r \in LocalResources(p) : \A id \in Passed : r.pkg \notin Below[Owner(id)]
    BY <1>2 DEF LocalResources
  <1> QED BY <1>1, <1>3, FreshExact

(* hydrate discovers a package: the invariant of its inputs.                *)
LEMMA InputOfEnter ==
  ASSUME BaseInv, HistInv, InputInv, NEW p \in Pkgs, p \notin Discovered, HydrateEnter(p),
         UNCHANGED opts, ~opts.bfs, pc \in {"start", "walk"}
  PROVE  InputInv'
  <1>0. /\ state \in [Pkgs -> StateType] /\ input \in [Pkgs -> SUBSET Resource]
        /\ state' = [state EXCEPT ![p] = "Hydrating"]
        /\ input' = [input EXCEPT ![p] = LocalResources(p)]
    BY DEF BaseInv, TypeOK, HydrateEnter
  <1>1. Discovered' = Discovered \cup {p} /\ Discovered \in SUBSET Pkgs
    BY <1>0 DEF Discovered
  <1>2. \A h \in Pkgs : Hydrating(h)' <=> h = p \/ Hydrating(h)
    BY <1>0 DEF Hydrating
  <1>3. \A q \in Discovered \ {Root} : Parent[q] \in Discovered
    BY DEF BaseInv, WalkInv, ModeInv, NestInv, Discovered
  <1>4. ASSUME NEW q \in Pkgs, NEW r \in input'[q], Hydrating(q)'
        PROVE  /\ r.pkg \in Discovered'
               /\ \A h \in Pkgs : Hydrating(h)' /\ r.pkg \in Below[h] => q \in Below[h]
    <2>1. CASE q = p
      <3>1. r.pkg = p
        BY <1>0, <2>1 DEF LocalResources
      <3> QED BY <1>1, <2>1, <3>1
    <2>2. CASE q # p
      <3>1. Hydrating(q) /\ r \in input[q]
        BY <1>0, <1>2, <1>4, <2>2
      <3>2. pc = "walk"
        BY <3>1 DEF HistInv
      <3>3. r.pkg \in Discovered /\ \A h \in Pkgs : Hydrating(h) /\ r.pkg \in Below[h] => q \in Below[h]
        BY <3>1, <3>2 DEF InputInv
      <3>4. r.pkg \notin Below[p]
        BY <1>1, <1>3, <3>3, ClosedUpwards
      <3> QED BY <1>1, <1>2, <3>3, <3>4
    <2> QED BY <2>1, <2>2
  <1> QED BY <1>4 DEF InputInv

(* A package that is done hands its output to its parent.                   *)
LEMMA InputOfReturn ==
  ASSUME BaseInv, InputInv, HydrateReturn
  PROVE  InputInv'
  <1>0. /\ state \in [Pkgs -> StateType] /\ input \in [Pkgs -> SUBSET Resource]
        /\ cur \in Pkgs /\ pc = "return" /\ ~opts.bfs /\ UNCHANGED opts
        /\ state' = [state EXCEPT ![cur] = "Wet"] /\ pc \in Running
    BY DEF BaseInv, TypeOK, HydrateReturn, given, Running
  <1>1. CASE cur = Root
    BY <1>1 DEF HydrateReturn, InputInv, Running
  <1>2. CASE cur # Root
    <2> DEFINE up == Parent[cur]
    <2>1. input' = [input EXCEPT ![up] = input[up] \cup work] /\ up \in Pkgs
      BY <1>0, <1>2, TreeAssumption DEF HydrateReturn
    <2>2. \A h \in Pkgs : Hydrating(h)' <=> h # cur /\ Hydrating(h)
      BY <1>0 DEF Hydrating
    <2>3. Discovered' = Discovered
      <3>1. Hydrating(cur)
        BY <1>0, CurHydrating
      <3> QED BY <1>0, <3>1 DEF Discovered, Hydrating
    <2>4. ASSUME NEW r \in work
          PROVE  /\ r.pkg \in Discovered
                 /\ \A h \in Pkgs : Hydrating(h)' => up \in Below[h]
      <3>1. r.pkg \in Below[cur]
        BY <1>0 DEF BaseInv, ScopeInv, InScope
      <3>2. \A q \in Below[cur] : q \in Discovered
        <4>1. Hydrating(cur) /\ \A q \in Below[cur] \ {cur} : Wet(q)
          BY <1>0, CurHydrating, AllBelowWet DEF BaseInv
        <4> QED BY <1>0, <4>1, TreeAssumption DEF Discovered, Wet, Hydrating
      <3>3. ASSUME NEW h \in Pkgs, Hydrating(h)' PROVE up \in Below[h]
        <4>1. cur \in Below[h] /\ h # cur
          BY <1>0, <2>2, <3>3 DEF BaseInv, NestInv
        <4> QED BY <1>0, <4>1, BelowAssumption
      <3> QED BY <3>1, <3>2, <3>3
    <2>5. ASSUME NEW q \in Pkgs, NEW r \in input'[q], Hydrating(q)'
          PROVE  /\ r.pkg \in Discovered'
                 /\ \A h \in Pkgs : Hydrating(h)' /\ r.pkg \in Below[h] => q \in Below[h]
      <3>1. CASE r \in input[q]
        BY <1>0, <2>2, <2>3, <2>5, <3>1 DEF InputInv
      <3>2. CASE r \notin input[q]
        <4>1. q = up /\ r \in work
          BY <1>0, <2>1, <2>5, <3>2
        <4> QED BY <2>3, <2>4, <4>1
      <3> QED BY <3>1, <3>2
    <2> QED BY <2>5 DEF InputInv
  <1> QED BY <1>1, <1>2

(* Steps that no mutator passes in leave exact lists exact.                 *)
LEMMA StaysExact ==
  ASSUME UNCHANGED <<disk0, mutationSteps>>
  PROVE  \A S : Exact(S) => \A r \in S : ExactHist(r)'
  <1>1. Passed' = Passed
    BY DEF Passed
  <1> QED BY <1>1, ExactSame

(* Every step of hydrate preserves the invariant.                           *)
LEMMA ExactDfs ==
  ASSUME BaseInv, HistInv, StepInv, ExactCore, DfsStep \/ ExecuteDfs
  PROVE  ExactCore'
  <1>0. /\ cur \in Pkgs /\ input \in [Pkgs -> SUBSET Resource]
        /\ res \in [Pkgs -> SUBSET Resource] /\ state \in [Pkgs -> StateType]
        /\ UNCHANGED <<opts, disk0, disk, mutationSteps>> /\ ~opts.bfs
    BY BeforeTailKeepsDisk
    DEF BaseInv, TypeOK, BeforeTail, DfsStep, ExecuteDfs, HydrateSubpackage,
        HydrateSubpackageInvalid, HydrateUnreadable, HydrateRunPipeline, HydrateReturn, HydrateUnwind,
        HydrateFailed, WalkInv, ModeInv, report
  <1>1. LayoutInv' /\ BfsExact'
    BY <1>0, LayoutSame DEF ExactCore, BfsExact
  <1>2. \A S : Exact(S) => \A r \in S : ExactHist(r)'
    BY <1>0, StaysExact
  <1>3. ASSUME NEW p \in Pkgs, p \notin Discovered, HydrateEnter(p), pc' = "walk",
               pc \in {"start", "walk"}
        PROVE  ExactCore'
    <2>1. /\ input' = [input EXCEPT ![p] = LocalResources(p)]
          /\ state' = [state EXCEPT ![p] = "Hydrating"]
      BY <1>3 DEF HydrateEnter
    <2>2. InputInv'
      BY <1>0, <1>3, InputOfEnter DEF ExactCore
    <2>3. ASSUME NEW q \in Pkgs, Hydrating(q)' PROVE \A r \in input'[q] : ExactHist(r)'
      <3>1. CASE q = p
        <4>1. Exact(LocalResources(p))
          BY <1>3, ExactFiles
        <4> QED BY <1>0, <1>2, <2>1, <3>1, <4>1
      <3>2. CASE q # p
        <4>1. input'[q] = input[q] /\ Hydrating(q)
          BY <1>0, <2>1, <2>3, <3>2 DEF Hydrating
        <4>2. pc = "walk"
          BY <1>3, <4>1 DEF BaseInv, WalkInv, ModeInv, Discovered, Hydrating
        <4>3. Exact(input[q])
          BY <1>0, <4>1, <4>2 DEF ExactCore, DfsExact
        <4> QED BY <1>2, <4>1, <4>3
      <3> QED BY <3>1, <3>2
    <2>4. DfsExact'
      BY <2>3 DEF DfsExact, Exact
    <2> QED BY <1>1, <1>3, <2>2, <2>4 DEF ExactCore, WorkExact, EndExact, Running
  <1>4. CASE ExecuteDfs
    <2>1. Root \notin Discovered
      BY <1>4 DEF ExecuteDfs, BaseInv, WalkInv, ModeInv
    <2> QED BY <1>3, <1>4, <2>1, TreeAssumption DEF ExecuteDfs
  <1>5. CASE HydrateSubpackage
    <2>1. Children[cur][next[cur]] \in Pkgs
      BY <1>5, NextChildType DEF HydrateSubpackage, BaseInv
    <2> QED BY <1>3, <1>5, <2>1 DEF HydrateSubpackage
  <1>6. CASE HydrateSubpackageInvalid \/ HydrateUnreadable \/ HydrateUnwind \/ HydrateFailed
    <2>1. pc' \in {"unwind", "tail"} /\ hydErr'
      BY <1>6 DEF HydrateSubpackageInvalid, HydrateUnreadable, HydrateUnwind, HydrateFailed,
         outcome, BaseInv,
         WalkInv, ModeInv
    <2> QED BY <1>1, <2>1 DEF ExactCore, InputInv, DfsExact, WorkExact, EndExact, Running
  <1>7. CASE HydrateRunPipeline
    <2>1. /\ UNCHANGED <<input, res, cur, state>> /\ pc = "walk" /\ pc' = "pipeline"
          /\ work' = input[cur]
      BY <1>7 DEF HydrateRunPipeline, walk
    <2>2. InputInv'
      BY <1>0, <2>1 DEF ExactCore, InputInv, Hydrating, Discovered, Running
    <2>3. \A q \in Pkgs : Hydrating(q) => Exact(input[q])
      BY <1>0, <2>1 DEF ExactCore, DfsExact
    <2>4. \A q \in Pkgs : Hydrating(q)' => Exact(input[q])'
      BY <1>2, <2>1, <2>3 DEF Hydrating, Exact
    <2>5. DfsExact'
      BY <2>4 DEF DfsExact
    <2>6. Exact(work)'
      <3>1. Hydrating(cur)
        BY <1>0, <2>1 DEF BaseInv, WalkInv, StackInv, PathInv
      <3> QED BY <1>0, <1>2, <2>1, <2>3, <3>1 DEF Exact
    <2> QED BY <1>1, <2>1, <2>2, <2>5, <2>6 DEF ExactCore, WorkExact, EndExact
  <1>8. CASE HydrateReturn
    <2>1. /\ res' = [res EXCEPT ![cur] = work] /\ pc = "return" /\ pc \in Running
          /\ state' = [state EXCEPT ![cur] = "Wet"]
      BY <1>8 DEF HydrateReturn, Running
    <2>2. InputInv'
      BY <1>8, InputOfReturn DEF ExactCore
    <2>3. /\ Exact(work)
          /\ \A q \in Pkgs : Hydrating(q) /\ q # cur => Exact(input[q])
      BY <1>0, <2>1 DEF ExactCore, WorkExact, DfsExact, Running
    <2>4. CASE cur = Root
      <3>1. pc' = "tail" /\ res'[Root] = work
        BY <1>0, <1>8, <2>1, <2>4 DEF HydrateReturn
      <3>2. Exact(res[Root])'
        BY <1>2, <2>3, <3>1 DEF Exact
      <3> QED BY <1>1, <2>2, <3>1, <3>2 DEF ExactCore, DfsExact, WorkExact, EndExact, Running
    <2>5. CASE cur # Root
      <3>1. pc' = "walk" /\ input' = [input EXCEPT ![Parent[cur]] = input[Parent[cur]] \cup work]
        BY <1>8, <2>5 DEF HydrateReturn
      <3>2. ASSUME NEW q \in Pkgs, Hydrating(q)' PROVE Exact(input[q])'
        <4>1. Hydrating(q) /\ q # cur
          BY <1>0, <2>1, <3>2 DEF Hydrating
        <4>2. input'[q] \subseteq input[q] \cup work
          BY <1>0, <3>1
        <4> QED BY <1>2, <2>3, <4>1, <4>2 DEF Exact
      <3>3. DfsExact'
        BY <3>2 DEF DfsExact
      <3> QED BY <1>1, <2>2, <3>1, <3>3 DEF ExactCore, WorkExact, EndExact, Running
    <2> QED BY <2>4, <2>5
  <1> QED BY <1>4, <1>5, <1>6, <1>7, <1>8 DEF DfsStep

(* Breadth first, a package is discovered with its Kptfile.                 *)
LEMMA ExactDiscover ==
  ASSUME BaseInv, HistInv, StepInv, ExactCore, Discover
  PROVE  BfsExact'
  <1> DEFINE p == Head(queue)
  <1>0. /\ res \in [Pkgs -> SUBSET Resource] /\ state \in [Pkgs -> StateType]
        /\ queue \in Seq(Pkgs) /\ pc = "discover" /\ opts.bfs /\ p \in Pkgs /\ disk = disk0
        /\ UNCHANGED <<opts, disk0, mutationSteps>> /\ p \notin Discovered
        /\ res' = [res EXCEPT ![p] = LocalResources(p)]
        /\ state' = [state EXCEPT ![p] = "Dry"]
        /\ pc' \in {"discover", "tail"}
    BY HeadTailType DEF BaseInv, TypeOK, Discover, given, report, WalkInv, ModeInv, DiskInv
  <1>1. Discovered' = Discovered \cup {p} /\ \A q \in Pkgs : Wet(q) => Wet(q)'
    BY <1>0 DEF Discovered, Wet
  <1>2. <<p, Kptfile>> \in Keys(LocalResources(p))
    <2>1. <<p, Kptfile>> \in Keys(disk)
      BY <1>0, InputAssumption DEF ExactCore, LayoutInv
    <2> QED BY <2>1 DEF Keys, Key, LocalResources
  <1>3. Exact(LocalResources(p))
    BY <1>0, ExactFiles
  <1>4. /\ \A q \in Pkgs : Exact(res[q]) /\ \A r \in res[q] : r.pkg = q
        /\ \A q \in Discovered : ~Wet(q) => <<q, Kptfile>> \in Keys(res[q])
    BY <1>0 DEF ExactCore, BfsExact, Running
  <1>5. ASSUME NEW q \in Pkgs
        PROVE  /\ Exact(res'[q]) /\ \A r \in res'[q] : r.pkg = q
               /\ q \in Discovered' /\ ~Wet(q)' => <<q, Kptfile>> \in Keys(res'[q])
    <2>1. CASE q = p
      <3>1. res'[q] = LocalResources(p)
        BY <1>0, <2>1
      <3> QED BY <1>2, <1>3, <2>1, <3>1 DEF LocalResources
    <2>2. CASE q # p
      <3>1. res'[q] = res[q]
        BY <1>0, <2>2
      <3> QED BY <1>1, <1>4, <2>2, <3>1
    <2> QED BY <2>1, <2>2
  <1>6. \A q \in Pkgs : Exact(res[q])'
    BY <1>0, <1>5, StaysExact DEF Exact
  <1>7. \A q \in Pkgs : Keys(res[q])' = Keys(res'[q])
    BY DEF Keys, Key
  <1>8. Discovered' \subseteq Pkgs
    BY DEF Discovered
  <1> QED BY <1>0, <1>5, <1>6, <1>7, <1>8 DEF BfsExact, Running

(* The next pipeline is given exact resources, with the Kptfile of every    *)
(* package nested in its own.                                               *)
LEMMA ExactRunPipeline ==
  ASSUME BaseInv, ExactCore, BfsRunPipeline
  PROVE  BfsExact' /\ Exact(work)'
  <1> DEFINE p == Head(queue)
  <1>0. /\ res \in [Pkgs -> SUBSET Resource] /\ state \in [Pkgs -> StateType]
        /\ queue \in Seq(Pkgs) /\ queue # <<>> /\ pc = "bfs" /\ opts.bfs /\ p \in Pkgs
        /\ UNCHANGED <<opts, disk0, mutationSteps, res>> /\ Below[p] \subseteq Pkgs
        /\ state' = [state EXCEPT ![p] = "Hydrating"] /\ work' = BfsInput(p)
        /\ cur' = p /\ pc' = "pipeline"
    BY HeadTailType, TreeAssumption
    DEF BaseInv, TypeOK, BfsRunPipeline, given, report, WalkInv, ModeInv
  <1>1. state[p] = "Dry" /\ \A q \in Pkgs \ {Root} : Wet(q) => Wet(Parent[q])
    <2>1. 1 \in DOMAIN queue /\ p = queue[1]
      BY <1>0, TailOf
    <2> QED BY <1>0, <2>1 DEF BaseInv, LevelInv, VisitInv
  <1>2. \A q \in Below[p] : ~Wet(q)
    <2>1. p \notin WetPkgs /\ WetPkgs \in SUBSET Pkgs
      BY <1>1 DEF WetPkgs, Wet
    <2>2. \A x \in WetPkgs \ {Root} : Parent[x] \in WetPkgs
      BY <1>1, TreeAssumption DEF WetPkgs
    <2>3. \A q \in Below[p] : q \notin WetPkgs
      BY <1>0, <2>1, <2>2, ClosedUpwards
    <2> QED BY <1>0, <2>3 DEF WetPkgs
  <1>3. Discovered = Pkgs /\ Discovered' = Discovered
    BY <1>0, <1>1 DEF BaseInv, WalkInv, AllInv, Discovered
  <1>4. /\ \A q \in Pkgs : Exact(res[q]) /\ \A r \in res[q] : r.pkg = q
        /\ \A q \in Pkgs : ~Wet(q) => <<q, Kptfile>> \in Keys(res[q])
    BY <1>0, <1>3 DEF ExactCore, BfsExact, Running
  <1>5. \A q \in Below[p] : <<q, Kptfile>> \in Keys(work')
    <2>1. \A q \in Below[p] : <<q, Kptfile>> \in Keys(res[q])
      BY <1>0, <1>2, <1>4
    <2> QED BY <1>0, <2>1 DEF BfsInput, Keys
  <1>6. Exact(work')
    BY <1>0, <1>4 DEF BfsInput, Exact
  <1>7. Exact(work)' /\ \A q \in Pkgs : Exact(res[q])'
    BY <1>0, <1>4, <1>6, StaysExact DEF Exact
  <1>8. Keys(work)' = Keys(work') /\ \A q \in Pkgs : Keys(res[q])' = Keys(res[q])
    BY <1>0 DEF Keys, Key
  <1>9. \A q \in Pkgs : q # p => (Wet(q)' <=> Wet(q))
    BY <1>0 DEF Wet
  <1> QED BY <1>0, <1>3, <1>4, <1>5, <1>7, <1>8, <1>9 DEF BfsExact, Running

(* Handing the output out reaches every package nested in cur: its Kptfile  *)
(* is among it.                                                             *)
LEMMA ExactBfsReturn ==
  ASSUME BaseInv, ExactCore, BfsReturn
  PROVE  BfsExact'
  <1>0. /\ cur \in Pkgs /\ cur \in Below[cur] /\ state \in [Pkgs -> StateType]
        /\ pc = "return" /\ pc \in Running /\ opts.bfs /\ pc' = "bfs"
        /\ UNCHANGED <<opts, disk0, mutationSteps>>
        /\ state' = [state EXCEPT ![cur] = "Wet"] /\ res' = Propagate(cur, work)
    BY TreeAssumption DEF BaseInv, TypeOK, BfsReturn, given, report, Running
  <1>1. Discovered = Pkgs /\ Discovered' \subseteq Pkgs
    BY <1>0 DEF BaseInv, WalkInv, AllInv, Discovered
  <1>2. /\ Exact(work) /\ \A r \in work : r.pkg \in Below[cur]
        /\ \A q \in Pkgs : \A r \in res[q] : r.pkg = q
        /\ \A q \in Pkgs : q \notin Below[cur] => Exact(res[q])
        /\ \A q \in Pkgs : ~Wet(q) /\ q # cur => <<q, Kptfile>> \in Keys(res[q])
        /\ \A q \in Below[cur] \ {cur} : <<q, Kptfile>> \in Keys(work)
    BY <1>0, <1>1 DEF ExactCore, BfsExact, WorkExact, BaseInv, ScopeInv, InScope, Running
  <1>3. ASSUME NEW q \in Pkgs
        PROVE  /\ Exact(res'[q]) /\ \A r \in res'[q] : r.pkg = q
               /\ ~Wet(q)' => <<q, Kptfile>> \in Keys(res'[q])
    <2> DEFINE own == {r \in work : r.pkg = q}
    <2>1. res'[q] = IF q = cur \/ own # {} THEN own ELSE res[q]
      BY <1>0 DEF Propagate
    <2>2. q \in Below[cur] \ {cur} => \E r \in own : Key(r) = <<q, Kptfile>>
      BY <1>2 DEF Keys, Key
    <2>3. q \notin Below[cur] => own = {}
      BY <1>2
    <2>4. CASE q = cur
      BY <1>0, <1>2, <2>1, <2>4 DEF Exact, Wet
    <2>5. CASE q # cur /\ q \in Below[cur]
      <3>1. res'[q] = own
        BY <2>1, <2>2, <2>5
      <3> QED BY <1>2, <2>2, <2>5, <3>1 DEF Exact, Keys
    <2>6. CASE q \notin Below[cur]
      <3>1. res'[q] = res[q] /\ q # cur
        BY <1>0, <2>1, <2>3, <2>6
      <3> QED BY <1>0, <1>2, <2>6, <3>1 DEF Wet
    <2> QED BY <2>4, <2>5, <2>6
  <1>4. \A q \in Pkgs : Exact(res[q])'
    BY <1>0, <1>3, StaysExact DEF Exact
  <1>5. \A q \in Pkgs : Keys(res[q])' = Keys(res'[q])
    BY DEF Keys, Key
  <1> QED BY <1>0, <1>1, <1>3, <1>4, <1>5 DEF BfsExact, Running

(* Every step of hydrateBfsOrder preserves the invariant.                   *)
LEMMA ExactBfs ==
  ASSUME BaseInv, HistInv, StepInv, ExactCore, BfsStep \/ ExecuteBfs
  PROVE  ExactCore'
  <1>0. /\ order \in Seq(Pkgs) /\ res \in [Pkgs -> SUBSET Resource]
        /\ UNCHANGED <<opts, disk0, mutationSteps>> /\ opts.bfs
    BY DEF BaseInv, TypeOK, BfsStep, ExecuteBfs, Discover, DiscoverUnreadable, DiscoverDone,
       BfsRunPipeline,
        BfsReturn, BfsDone, WalkInv, ModeInv, given, report
  <1>1. LayoutInv' /\ InputInv' /\ DfsExact'
    BY <1>0, LayoutSame DEF ExactCore, InputInv, DfsExact
  <1>2. CASE ExecuteBfs
    <2>1. /\ UNCHANGED <<res, state>> /\ pc = "start" /\ pc' = "discover"
      BY <1>2 DEF ExecuteBfs, walk
    <2>2. \A q \in Pkgs : res'[q] = {} /\ state'[q] = "Undiscovered"
      BY <2>1 DEF HistInv, BaseInv, WalkInv, ModeInv, Discovered
    <2>3. Discovered' = {} /\ \A q \in Pkgs : Exact(res[q])'
      BY <2>2 DEF Discovered, Exact
    <2>4. BfsExact'
      BY <2>1, <2>2, <2>3 DEF BfsExact, Running
    <2> QED BY <1>1, <2>1, <2>4 DEF ExactCore, WorkExact, EndExact, Running
  <1>3. CASE Discover
    <2>1. pc' = "discover" \/ (pc' = "tail" /\ hydErr')
      BY <1>3 DEF Discover
    <2> QED BY <1>1, <1>3, <2>1, ExactDiscover DEF ExactCore, WorkExact, EndExact, Running
  <1>8. CASE DiscoverUnreadable
    <2>1. UNCHANGED <<res, state>> /\ pc = "discover" /\ pc' = "tail" /\ hydErr'
      BY <1>8 DEF DiscoverUnreadable, walk
    <2> QED BY <1>1, <2>1 DEF ExactCore, BfsExact, WorkExact, EndExact, Running
  <1>4. CASE DiscoverDone
    <2>1. UNCHANGED <<res, state>> /\ pc = "discover" /\ pc' = "bfs"
      BY <1>4 DEF DiscoverDone, walk
    <2>2. \A q \in Pkgs : Exact(res[q])'
      BY <1>0, <2>1, StaysExact DEF ExactCore, BfsExact, Exact, Running
    <2>3. \A q \in Pkgs : Keys(res[q])' = Keys(res[q])
      BY <2>1 DEF Keys, Key
    <2>4. BfsExact'
      BY <1>0, <2>1, <2>2, <2>3 DEF ExactCore, BfsExact, Discovered, Wet, Running
    <2> QED BY <1>1, <2>1, <2>4 DEF ExactCore, WorkExact, EndExact, Running
  <1>5. CASE BfsRunPipeline
    <2>1. pc' = "pipeline"
      BY <1>5 DEF BfsRunPipeline
    <2> QED BY <1>1, <1>5, <2>1, ExactRunPipeline DEF ExactCore, WorkExact, EndExact
  <1>6. CASE BfsReturn
    <2>1. pc' = "bfs"
      BY <1>6 DEF BfsReturn
    <2> QED BY <1>1, <1>6, <2>1, ExactBfsReturn DEF ExactCore, WorkExact, EndExact, Running
  <1>7. CASE BfsDone
    <2>1. pc = "bfs" /\ pc' = "tail" /\ res' = Aggregate(res)
      BY <1>7 DEF BfsDone
    <2>2. Range(order) \subseteq Pkgs
      BY <1>0, RangeType
    <2>3. \A q \in Pkgs : Exact(res[q])
      BY <1>0, <2>1 DEF ExactCore, BfsExact, Running
    <2>4. res'[Root] = UNION {res[q] : q \in Range(order)}
      BY <1>0, <2>1, TreeAssumption DEF Aggregate
    <2>5. Exact(res[Root])'
      BY <1>0, <2>2, <2>3, <2>4, StaysExact DEF Exact
    <2> QED BY <1>1, <2>1, <2>5 DEF ExactCore, BfsExact, WorkExact, EndExact, Running
  <1> QED BY <1>2, <1>3, <1>4, <1>5, <1>6, <1>7, <1>8 DEF BfsStep

(* A pipeline that runs has been found valid.                               *)
LEMMA StaysValid ==
  ASSUME WorkExact, PipelineStep, pc' \in {"mutate", "validate"}
  PROVE  ValidatePipeline(cur)'
  <1>1. UNCHANGED <<cur, disk>>
    BY PipelineKeepsWalk, BeforeTailKeepsDisk DEF BeforeTail
  <1>2. pc \in {"mutate", "validate"} \/ ValidatePipeline(cur)
    <2>1. CASE FnChain
      BY <2>1 DEF FnChain
    <2>2. CASE EmptyPipeline \/ ValidatorsDone
      BY <2>2 DEF EmptyPipeline, ValidatorsDone
    <2>3. CASE RunMutator \/ SkipMutator \/ MutatorsDone \/ RunValidator \/ SkipValidator
      BY <2>3 DEF RunMutator, SkipMutator, AtMutator, MutatorsDone, RunValidator, SkipValidator,
         ValidatorReady, AtValidator
    <2>4. ASSUME NEW out, PipelineFails(out) PROVE FALSE
      BY <2>4 DEF PipelineFails
    <2> QED BY <2>1, <2>2, <2>3, <2>4 DEF PipelineStep, EmptyPipelineRejected, PipelineInvalid,
               FnChainFails, MutatorConfigRefMissing, MutatorFails, MutatorRejected,
               ValidatorNotBuilt, ValidatorFails, ValidatorRejected
  <1>3. ValidatePipeline(cur)
    BY <1>2 DEF WorkExact
  <1> QED BY <1>1, <1>3 DEF ValidatePipeline, LocalResources, Keys, Key

(* When a mutator runs, what other packages have gathered is not nested in  *)
(* cur, and the Kptfiles of those nested in cur stay.                       *)
LEMMA ExactRunMutator ==
  ASSUME NothingRegenerated, KptfilesStay, BaseInv, ExactCore, RunMutator
  PROVE  DfsExact' /\ BfsExact' /\ Exact(work)'
  <1>1. PICK D, G : MutatorRuns(D, G) /\ D \subseteq Mutator.drops
    BY DEF RunMutator
  <1>2. /\ UNCHANGED <<opts, disk0, cur, state, input, res, pc>> /\ PipelineStep /\ AtMutator
        /\ work' = MergeWithInput(Mutator, Apply(Mutator, D, G))
    BY <1>1 DEF MutatorRuns, InPipeline, given, walk, PipelineStep
  <1>3. /\ cur \in Pkgs /\ pc \in Running /\ Mutator \in Range(Mutators[cur])
        /\ Owner(Mutator.id) = cur
    BY <1>2, MutatorAt
  <1>4. Passed' = Passed \cup {Mutator.id}
    BY <1>2, PassedEffect
  <1>5. ASSUME NEW S, Exact(S), \A r \in S : r.pkg \notin Below[cur]
        PROVE  \A r \in S : ExactHist(r)'
    <2> SUFFICES ASSUME NEW r \in S PROVE ExactHist(r)'
      OBVIOUS
    <2>1. ExactHist(r) /\ ~Reaches(Mutator.id, r)
      BY <1>3, <1>5 DEF Exact, Reaches
    <2> QED BY <1>2, <1>4, <2>1, NotReachedExact
  <1>6. Exact(work)'
    <2>1. Exact(work)
      BY <1>3 DEF ExactCore, WorkExact
    <2> QED BY <2>1, MutatorExact DEF ExactCore, Exact
  <1>7. DfsExact'
    <2> SUFFICES ASSUME ~opts.bfs, NEW p \in Pkgs, Hydrating(p), p # cur
                 PROVE  \A r \in input[p] : ExactHist(r)'
      <3>1. (~opts.bfs => \A p \in Pkgs : Hydrating(p) /\ p # cur => Exact(input[p]))'
        BY <1>2 DEF Exact, Hydrating
      <3> QED BY <1>2, <1>3, <3>1 DEF DfsExact, Running
    <2>1. Exact(input[p])
      BY <1>3 DEF ExactCore, DfsExact
    <2>2. ASSUME NEW r \in input[p], r.pkg \in Below[cur] PROVE FALSE
      <3>1. Hydrating(cur) /\ cur \in Below[p]
        BY <1>3, CurHydrating DEF BaseInv, NestInv
      <3>2. p \in Below[cur]
        BY <1>3, <2>2, <3>1 DEF ExactCore, InputInv
      <3> QED BY <1>3, <3>1, <3>2, BelowAssumption
    <2> QED BY <1>5, <2>1, <2>2
  <1>8. BfsExact'
    <2> SUFFICES ASSUME opts.bfs PROVE BfsExact'
      BY <1>2 DEF BfsExact
    <2>1. /\ \A q \in Pkgs : \A r \in res[q] : r.pkg = q
          /\ \A q \in Pkgs : q \notin Below[cur] => Exact(res[q])
          /\ \A q \in Discovered : ~Wet(q) /\ q # cur => <<q, Kptfile>> \in Keys(res[q])
          /\ \A q \in Below[cur] \ {cur} : <<q, Kptfile>> \in Keys(work)
      BY <1>3 DEF ExactCore, BfsExact
    <2>2. \A q \in Pkgs : q \notin Below[cur] => Exact(res[q])'
      BY <1>2, <1>5, <2>1 DEF Exact
    <2>3. ASSUME NEW q \in Below[cur] \ {cur} PROVE \E r \in work' : Key(r) = <<q, Kptfile>>
      <3>1. PICK r \in work : Key(r) = <<q, Kptfile>>
        BY <2>1 DEF Keys
      <3>2. Key(r) \notin D
        <4>1. q \in Pkgs /\ q # cur
          BY <1>3, TreeAssumption
        <4>2. <<q, Kptfile>> \notin Mutator.drops
          BY <1>3, <4>1 DEF KptfilesStay, ExactCore, LayoutInv
        <4> QED BY <1>1, <3>1, <4>2
      <3>3. CASE r \in SelectInput(Mutator)
        <4> DEFINE t == [r EXCEPT !.hist = Append(r.hist, Mutator.id)]
        <4>1. t \in work'
          BY <1>2, <3>2, <3>3 DEF MergeWithInput, Apply
        <4>2. r \in Resource
          BY DEF BaseInv, TypeOK
        <4>3. Key(t) = Key(r)
          BY <4>2 DEF Key, Resource
        <4> QED BY <3>1, <4>1, <4>3
      <3>4. CASE r \notin SelectInput(Mutator)
        BY <1>2, <3>1, <3>4 DEF MergeWithInput
      <3> QED BY <3>3, <3>4
    <2>4. \A q \in Below[cur] \ {cur} : (<<q, Kptfile>> \in Keys(work))'
      BY <2>3 DEF Keys, Key
    <2>5. \A q \in Pkgs : Keys(res[q])' = Keys(res[q])
      BY <1>2 DEF Keys, Key
    <2>6. Discovered' = Discovered /\ \A q : Wet(q)' <=> Wet(q)
      BY <1>2 DEF Discovered, Wet
    <2>7. Discovered \subseteq Pkgs
      BY DEF Discovered
    <2> QED BY <1>2, <1>3, <2>1, <2>2, <2>4, <2>5, <2>6, <2>7 DEF BfsExact
  <1> QED BY <1>6, <1>7, <1>8

(* Every step of runPipeline preserves the invariant.                       *)
LEMMA ExactPipeline ==
  ASSUME NothingRegenerated, KptfilesStay, BaseInv, ExactCore, PipelineStep
  PROVE  ExactCore'
  <1>0. pc \in Running /\ UNCHANGED <<opts, disk0, cur, state>>
    BY PipelineKeepsWalk
  <1>1. LayoutInv' /\ (pc' \in {"mutate", "validate"} => ValidatePipeline(cur)')
    BY <1>0, LayoutSame, StaysValid DEF ExactCore
  <1>2. InPipeline /\ pc' \in Running => InputInv' /\ UNCHANGED <<input, res>>
    BY <1>0 DEF InPipeline, walk, ExactCore, InputInv, Hydrating, Discovered
  <1>3. CASE RunMutator
    <2>1. InPipeline /\ pc' \in Running
      BY <1>0, <1>3 DEF RunMutator, MutatorRuns
    <2>2. DfsExact' /\ BfsExact' /\ Exact(work)'
      BY <1>3, ExactRunMutator
    <2> QED BY <1>1, <1>2, <2>1, <2>2 DEF ExactCore, WorkExact, EndExact, Running
  <1>4. CASE ~RunMutator /\ InPipeline /\ work' = work /\ pc' \in Running
    <2>1. Passed' = Passed
      BY <1>4, PassedEffect
    <2>2. \A S : Exact(S) => \A r \in S : ExactHist(r)'
      BY <1>0, <2>1, ExactSame
    <2>3. UNCHANGED <<input, res>> /\ pc \notin {"walk", "bfs", "discover"}
      BY <1>0, <1>2, <1>4 DEF Running
    <2>4. DfsExact'
      <3>1. ~opts.bfs => \A p \in Pkgs : Hydrating(p) /\ p # cur => Exact(input[p])
        BY <1>0 DEF ExactCore, DfsExact
      <3>2. ~opts.bfs => \A p \in Pkgs : Hydrating(p) /\ p # cur => Exact(input[p])'
        BY <2>2, <2>3, <3>1 DEF Exact
      <3> QED BY <1>0, <1>4, <3>2 DEF DfsExact, Hydrating, Running
    <2>5. Exact(work)'
      BY <1>0, <1>4, <2>2 DEF ExactCore, WorkExact, Exact
    <2>6. BfsExact'
      <3> SUFFICES ASSUME opts.bfs PROVE BfsExact'
        BY <1>0 DEF BfsExact
      <3>1. /\ \A q \in Pkgs : \A r \in res[q] : r.pkg = q
            /\ \A q \in Pkgs : q \notin Below[cur] => Exact(res[q])
            /\ \A q \in Discovered : ~Wet(q) /\ q # cur => <<q, Kptfile>> \in Keys(res[q])
            /\ \A q \in Below[cur] \ {cur} : <<q, Kptfile>> \in Keys(work)
        BY <1>0 DEF ExactCore, BfsExact
      <3>2. \A q \in Pkgs : q \notin Below[cur] => Exact(res[q])'
        BY <2>2, <2>3, <3>1 DEF Exact
      <3>3. Keys(work)' = Keys(work) /\ \A q \in Pkgs : Keys(res[q])' = Keys(res[q])
        BY <1>4, <2>3 DEF Keys, Key
      <3>4. Discovered' = Discovered /\ Discovered \subseteq Pkgs /\ \A q : Wet(q)' <=> Wet(q)
        BY <1>0 DEF Discovered, Wet
      <3> QED BY <1>0, <1>4, <2>3, <3>1, <3>2, <3>3, <3>4 DEF BfsExact, Running
    <2> QED BY <1>1, <1>2, <1>4, <2>4, <2>5, <2>6 DEF ExactCore, WorkExact, EndExact, Running
  <1>5. CASE \E out \in {{}, work} : PipelineFails(out)
    <2>1. hydErr' /\ pc' \in {"unwind", "tail"}
      BY <1>5 DEF PipelineFails
    <2> QED BY <1>1, <2>1 DEF ExactCore, InputInv, DfsExact, BfsExact, WorkExact, EndExact, Running
  <1> QED BY <1>3, <1>4, <1>5, PipelineEffect

(* Every step of the specification preserves the invariant.                 *)
LEMMA ExactCoreStep ==
  ASSUME NothingRegenerated, KptfilesStay, CoreInv, ExactCore, [Next]_vars
  PROVE  ExactCore'
  <1>0. BaseInv /\ HistInv /\ StepInv
    BY DEF CoreInv
  <1>1. CASE ExecuteInvalid
    <2>1. UNCHANGED <<opts, disk0, res>> /\ pc = "start" /\ pc' = "done"
      BY <1>1 DEF ExecuteInvalid, given, walk
    <2>2. res'[Root] = {}
      BY <1>0, <2>1, TreeAssumption DEF HistInv
    <2>3. LayoutInv' /\ Exact(res[Root])'
      BY <2>1, <2>2, LayoutSame DEF ExactCore, Exact
    <2> QED BY <2>1, <2>3 DEF ExactCore, InputInv, DfsExact, BfsExact, WorkExact, EndExact, Running
  <1>2. CASE TailStep
    <2>1. /\ pc \in {"tail", "prune", "finish"} /\ pc' \in {"prune", "finish", "done"}
          /\ UNCHANGED <<opts, disk0, res, mutationSteps, hydErr>>
      BY <1>2, TailEffect
    <2>2. ~hydErr' => Exact(res[Root])'
      BY <2>1, StaysExact DEF ExactCore, EndExact, Exact
    <2>3. LayoutInv'
      BY <2>1, LayoutSame DEF ExactCore
    <2> QED BY <2>1, <2>2, <2>3 DEF ExactCore, InputInv, DfsExact, BfsExact, WorkExact, EndExact, Running
  <1>3. CASE UNCHANGED vars
    <2>1. UNCHANGED <<opts, disk0, disk, pc, input, res, work, cur, state, mutationSteps, hydErr>>
      BY <1>3 DEF vars, given, onDisk, walk, pipe, report, outcome
    <2>2. \A S : Exact(S) => \A r \in S : ExactHist(r)'
      BY <2>1, StaysExact
    <2>3. LayoutInv' /\ InputInv'
      BY <2>1, LayoutSame DEF ExactCore, InputInv, Hydrating, Discovered
    <2>4. DfsExact'
      BY <2>1, <2>2 DEF ExactCore, DfsExact, Exact, Hydrating
    <2>5. BfsExact'
      <3>1. Keys(work)' = Keys(work) /\ \A q \in Pkgs : Keys(res[q])' = Keys(res[q])
        BY <2>1 DEF Keys, Key
      <3>2. \A q \in Pkgs : Exact(res[q]) => Exact(res[q])'
        BY <2>1, <2>2 DEF Exact
      <3>3. Discovered' = Discovered /\ Discovered \subseteq Pkgs /\ \A q : Wet(q)' <=> Wet(q)
        BY <2>1 DEF Discovered, Wet
      <3> QED BY <2>1, <3>1, <3>2, <3>3 DEF ExactCore, BfsExact
    <2>6. WorkExact' /\ EndExact'
      <3>1. (Exact(work) => Exact(work)') /\ (Exact(res[Root]) => Exact(res[Root])')
        BY <2>1, <2>2 DEF Exact
      <3>2. ValidatePipeline(cur) => ValidatePipeline(cur)'
        BY <2>1 DEF ValidatePipeline, LocalResources, Keys, Key
      <3> QED BY <2>1, <3>1, <3>2 DEF ExactCore, WorkExact, EndExact
    <2> QED BY <2>3, <2>4, <2>5, <2>6 DEF ExactCore
  <1> QED BY <1>0, <1>1, <1>2, <1>3, ExactDfs, ExactBfs, ExactPipeline DEF Next

LEMMA ExactCoreInit == Init => CoreInv /\ ExactCore
  <1> SUFFICES ASSUME Init PROVE CoreInv /\ ExactCore
    OBVIOUS
  <1>1. LayoutInv
    <2>1. PICK L \in Layouts : disk0 = {[pkg |-> k[1], name |-> k[2], hist |-> <<>>] : k \in L}
      BY DEF Init
    <2>2. \A k \in L : k = <<k[1], k[2]>>
      BY InputAssumption
    <2>3. ASSUME NEW k \in L PROVE k \in Keys(disk0)
      <3> DEFINE r == [pkg |-> k[1], name |-> k[2], hist |-> <<>>]
      <3>1. r \in disk0 /\ Key(r) = k
        BY <2>1, <2>2 DEF Key
      <3> QED BY <3>1 DEF Keys
    <2>4. ASSUME NEW r \in disk0 PROVE Key(r) \in L
      BY <2>1, <2>2 DEF Key
    <2>5. Keys(disk0) = L
      BY <2>3, <2>4 DEF Keys
    <2> QED BY <2>5 DEF LayoutInv, Init
  <1>2. InputInv /\ DfsExact /\ BfsExact /\ WorkExact /\ EndExact
    BY DEF Init, InputInv, DfsExact, BfsExact, WorkExact, EndExact, Running
  <1> QED BY <1>1, <1>2, BaseInvInit, HistInvInit, StepInvInit DEF CoreInv, ExactCore

(* Execute succeeds at its very end, and never after an error.              *)
OkInv == result = "ok" => pc = "done" /\ ~hydErr

LEMMA OkInvStep ==
  ASSUME OkInv, [Next]_vars
  PROVE  OkInv'
  <1>1. CASE BeforeTail
    <2>1. pc # "done" /\ (result' = result \/ result' = "error")
      BY <1>1, BeforeTailGoesOn, BeforeTailKeepsDisk
    <2> QED BY <2>1 DEF OkInv
  <1>2. CASE TailStep
    BY <1>2 DEF TailStep, GiveUp, WriteResources, WriteFails, WriteOutput, WriteOutputFails,
       PruneResources, PruneFails, FinishFailed, FinishOk, SaveFnResultsFails, Keeps, InTail, OkInv
  <1>3. CASE UNCHANGED vars
    BY <1>3 DEF vars, outcome, OkInv
  <1> QED BY <1>1, <1>2, <1>3 DEF Next, BeforeTail

(* Whatever the tree, the pipelines and what functions delete, a successful *)
(* render has applied exactly the mutators that passed to every resource    *)
(* they select: collecting resources from subpackages and handing them out  *)
(* again loses no update.                                                   *)
THEOREM SuccessIsCompleteHolds ==
  ASSUME NothingRegenerated, KptfilesStay
  PROVE  Spec => []SuccessIsComplete
  <1>1. ExactCore /\ OkInv => SuccessIsComplete
    BY DEF ExactCore, EndExact, Exact, ExactHist, OkInv, SuccessIsComplete
  <1>2. CoreInv /\ ExactCore /\ OkInv /\ [Next]_vars => CoreInv' /\ ExactCore' /\ OkInv'
    BY CoreInvStep, ExactCoreStep, OkInvStep
  <1>3. Init => OkInv
    BY DEF Init, OkInv
  <1> QED BY <1>1, <1>2, <1>3, ExactCoreInit, PTL DEF Spec

(* The functionConfig of the function whose turn it is, if it comes from    *)
(* the list: the file was there when the pipeline was found valid, and the  *)
(* list is exact.                                                           *)
LEMMA CallExact ==
  ASSUME BaseInv, StepInv, ExactCore, NEW f,
         (AtMutator /\ f = Mutator) \/ (AtValidator /\ f = Validator)
  PROVE  /\ f.id \notin Passed
         /\ Call(f).listed => \A c \in Call(f).cfg :
               Range(c.hist) = {id \in Passed : Reaches(id, c)}
  <1>0. /\ f.id \notin Passed /\ pc \in {"mutate", "validate"} /\ disk = disk0
        /\ cur \in Pkgs /\ idx \in Nat \ {0}
    BY NotPassed DEF AtMutator, AtValidator, BaseInv, DiskInv, TypeOK
  <1>1. f \in Fns(cur)
    <2>1. Mutators[cur] \in Seq(FunctionType) /\ Validators[cur] \in Seq(FunctionType)
      BY <1>0, PipelineAssumption
    <2>2. AtMutator => idx \in DOMAIN Mutators[cur]
      BY <1>0, <2>1 DEF AtMutator
    <2>3. AtValidator => idx \in DOMAIN Validators[cur]
      BY <1>0, <2>1 DEF AtValidator
    <2> QED BY <2>2, <2>3 DEF Mutator, Validator, Fns, Range
  <1>2. ValidatePipeline(cur) /\ Exact(work)
    BY <1>0 DEF ExactCore, WorkExact, Running
  <1>3. ASSUME NEW n \in {f.config, f.ref} \ {NoName} PROVE <<cur, n>> \in Keys(disk0)
    <2>1. <<cur, n>> \in Keys(LocalResources(cur))
      BY <1>1, <1>2 DEF ValidatePipeline
    <2> QED BY <1>0, <2>1 DEF Keys, LocalResources
  <1>4. ASSUME Call(f).listed, NEW c \in Call(f).cfg
        PROVE  Range(c.hist) = {id \in Passed : Reaches(id, c)}
    <2>1. c \in FunctionConfig(f) /\ (FnConfigNode(f) # {} \/ f.ref # NoName)
      BY <1>4 DEF Call
    <2>2. c \in work /\ \E n \in {f.config, f.ref} \ {NoName} : Key(c) = <<cur, n>>
      BY <2>1 DEF FunctionConfig, ResolveConfigRef, FnConfigNode
    <2> QED BY <1>2, <1>3, <2>2 DEF Exact, ExactHist
  <1> QED BY <1>0, <1>4

LEMMA ConfigStep ==
  ASSUME BaseInv, StepInv, ExactCore, ConfigIsCurrent, [Next]_vars
  PROVE  ConfigIsCurrent'
  <1>1. ASSUME UNCHANGED call, Passed' = Passed PROVE ConfigIsCurrent'
    <2>1. \A id, c : Reaches(id, c)' <=> Reaches(id, c)
      BY DEF Reaches, Owner, MutatorOf, Key
    <2> QED BY <1>1, <2>1 DEF ConfigIsCurrent
  <1>2. ASSUME NEW f, (AtMutator /\ f = Mutator) \/ (AtValidator /\ f = Validator),
               call' = Call(f), Passed' \ {f.id} = Passed \ {f.id}
        PROVE  ConfigIsCurrent'
    <2>1. \A id, c : Reaches(id, c)' <=> Reaches(id, c)
      BY DEF Reaches, Owner, MutatorOf, Key
    <2>2. /\ f.id \notin Passed
          /\ Call(f).listed => \A c \in Call(f).cfg :
                Range(c.hist) = {id \in Passed : Reaches(id, c)}
      BY <1>2, CallExact
    <2>3. Call(f).fn = f.id
      BY DEF Call
    <2>4. Passed' \ {f.id} = Passed
      BY <1>2, <2>2
    <2>5. call'.fn = f.id /\ call'.cfg = Call(f).cfg /\ call'.listed = Call(f).listed
      BY <1>2, <2>3
    <2>6. \A c : {id \in Passed \ {call.fn} : Reaches(id, c)}' = {id \in Passed : Reaches(id, c)}
      BY <2>1, <2>4, <2>5
    <2> QED BY <2>2, <2>5, <2>6 DEF ConfigIsCurrent
  <1>3. CASE PipelineStep
    <2>1. CASE RunMutator
      <3>1. AtMutator /\ call' = Call(Mutator)
        BY <2>1 DEF RunMutator, MutatorRuns
      <3>2. Passed' = Passed \cup {Mutator.id}
        BY <1>3, <2>1, PassedEffect
      <3> QED BY <1>2, <3>1, <3>2
    <2>2. CASE MutatorFails \/ MutatorRejected
      <3>1. AtMutator /\ call' = Call(Mutator)
        BY <2>2 DEF MutatorFails, MutatorRejected
      <3>2. Passed' \ {Mutator.id} = Passed \ {Mutator.id}
        BY <1>3, PassedEffect
      <3> QED BY <1>2, <3>1, <3>2
    <2>3. CASE RunValidator \/ ValidatorFails \/ ValidatorRejected
      <3>1. AtValidator /\ call' = Call(Validator) /\ ~RunMutator
        BY <2>3 DEF RunValidator, ValidatorFails, ValidatorRejected, ValidatorReady, AtValidator,
           RunMutator, AtMutator
      <3>2. Passed' = Passed
        BY <1>3, <3>1, PassedEffect
      <3> QED BY <1>2, <3>1, <3>2
    <2>4. CASE ~RunMutator /\ UNCHANGED call
      BY <1>1, <1>3, <2>4, PassedEffect
    <2> QED BY <1>3, <2>1, <2>2, <2>3, <2>4 DEF PipelineStep, EmptyPipeline, EmptyPipelineRejected,
               PipelineInvalid, FnChainFails, FnChain, SkipMutator, MutatorConfigRefMissing,
               MutatorsDone, ValidatorNotBuilt, SkipValidator, ValidatorsDone, pipe
  <1>4. CASE ExecuteInvalid \/ ExecuteDfs \/ ExecuteBfs \/ DfsStep \/ BfsStep
    <2>1. UNCHANGED mutationSteps
      BY <1>4, WalkEffect DEF report
    <2>2. UNCHANGED call
      BY <1>4 DEF ExecuteInvalid, ExecuteDfs, ExecuteBfs, DfsStep, BfsStep, HydrateSubpackage,
         HydrateSubpackageInvalid, HydrateUnreadable, HydrateRunPipeline, HydrateReturn, HydrateUnwind,
         HydrateFailed, Discover, DiscoverUnreadable, DiscoverDone, BfsRunPipeline, BfsReturn,
         BfsDone, pipe
    <2> QED BY <1>1, <2>1, <2>2 DEF Passed
  <1>5. CASE TailStep \/ UNCHANGED vars
    <2>1. UNCHANGED <<call, mutationSteps>>
      BY <1>5, TailEffect DEF vars, pipe, report
    <2> QED BY <1>1, <2>1 DEF Passed
  <1> QED BY <1>3, <1>4, <1>5 DEF Next

(* A functionConfig taken from the resource list is the current one.        *)
THEOREM ConfigIsCurrentHolds ==
  ASSUME NothingRegenerated, KptfilesStay
  PROVE  Spec => []ConfigIsCurrent
  <1>1. CoreInv /\ ExactCore /\ ConfigIsCurrent /\ [Next]_vars
        => CoreInv' /\ ExactCore' /\ ConfigIsCurrent'
    <2>1. CoreInv => BaseInv /\ StepInv
      BY DEF CoreInv
    <2> QED BY <2>1, CoreInvStep, ExactCoreStep, ConfigStep
  <1>2. Init => ConfigIsCurrent
    BY DEF Init, ConfigIsCurrent, NoCall
  <1> QED BY <1>1, <1>2, ExactCoreInit, PTL DEF Spec

-----------------------------------------------------------------------------
(* What is saved after a failure.  A package that is being hydrated has     *)
(* gathered its own files and the output of its subpackages that are done,  *)
(* so what hydrate hands back to the root after a failure is all there is.  *)

GatherInv ==
    /\ pc = "pipeline" => work = input[cur]
    /\ ~opts.bfs /\ pc \in {"walk"} \cup Running =>
          /\ \A p \in Pkgs : Hydrating(p) => LocalResources(p) \subseteq input[p]
          /\ \A p \in Pkgs \ {Root} :
                Wet(p) /\ Hydrating(Parent[p]) => res[p] \subseteq input[Parent[p]]

(* Every step of hydrate preserves GatherInv.                               *)
LEMMA GatherDfs ==
  ASSUME BaseInv, GatherInv, DfsStep \/ ExecuteDfs
  PROVE  GatherInv'
  <1>0. /\ cur \in Pkgs /\ input \in [Pkgs -> SUBSET Resource]
        /\ res \in [Pkgs -> SUBSET Resource] /\ state \in [Pkgs -> StateType]
        /\ UNCHANGED <<opts, disk>> /\ ~opts.bfs
    BY BeforeTailKeepsDisk
    DEF BaseInv, TypeOK, BeforeTail, DfsStep, ExecuteDfs, HydrateSubpackage,
        HydrateSubpackageInvalid, HydrateUnreadable, HydrateRunPipeline, HydrateReturn, HydrateUnwind,
        HydrateFailed, WalkInv, ModeInv
  <1>1. \A p : LocalResources(p)' = LocalResources(p)
    BY <1>0 DEF LocalResources
  <1>2. ASSUME NEW p \in Pkgs, p \notin Discovered, HydrateEnter(p), pc' = "walk",
               UNCHANGED res, pc \in {"start", "walk"}
        PROVE  GatherInv'
    <2>1. /\ input' = [input EXCEPT ![p] = LocalResources(p)]
          /\ state' = [state EXCEPT ![p] = "Hydrating"] /\ ~Wet(p)
      BY <1>2 DEF HydrateEnter, Wet, Discovered
    <2>2. pc = "start" => \A q \in Pkgs : ~Hydrating(q) /\ ~Wet(q)
      BY DEF BaseInv, WalkInv, ModeInv, Discovered, Hydrating, Wet
    <2>3. ASSUME NEW q \in Pkgs, Hydrating(q)' PROVE LocalResources(q) \subseteq input'[q]
      <3>1. CASE q = p
        BY <1>0, <2>1, <3>1
      <3>2. CASE q # p
        <4>1. Hydrating(q) /\ input'[q] = input[q]
          BY <1>0, <2>1, <2>3, <3>2 DEF Hydrating
        <4> QED BY <1>0, <1>2, <2>2, <4>1 DEF GatherInv
      <3> QED BY <3>1, <3>2
    <2>4. ASSUME NEW q \in Pkgs \ {Root}, Wet(q)', Hydrating(Parent[q])'
          PROVE  res[q] \subseteq input'[Parent[q]]
      <3>1. Wet(q) /\ Parent[q] \in Pkgs
        <4>1. Parent[q] \in Pkgs
          BY TreeAssumption
        <4>2. state'[q] = "Wet" /\ q \in Pkgs
          BY <2>4 DEF Wet
        <4>3. state[q] = "Wet"
          BY <1>0, <2>1, <4>2
        <4> QED BY <4>1, <4>3 DEF Wet
      <3>2. pc = "walk"
        BY <1>2, <2>2, <3>1
      <3>3. Parent[q] # p
        BY <1>0, <1>2, <3>1, <3>2 DEF BaseInv, NestInv, Discovered, Wet
      <3>4. Hydrating(Parent[q]) /\ input'[Parent[q]] = input[Parent[q]]
        BY <1>0, <2>1, <2>4, <3>1, <3>3 DEF Hydrating
      <3> QED BY <1>0, <3>1, <3>2, <3>4 DEF GatherInv
    <2> QED BY <1>1, <1>2, <2>3, <2>4 DEF GatherInv
  <1>3. CASE ExecuteDfs
    <2>1. Root \notin Discovered
      BY <1>3 DEF ExecuteDfs, BaseInv, WalkInv, ModeInv
    <2> QED BY <1>2, <1>3, <2>1, TreeAssumption DEF ExecuteDfs
  <1>4. CASE HydrateSubpackage
    <2>1. Children[cur][next[cur]] \in Pkgs
      BY <1>4, NextChildType DEF HydrateSubpackage, BaseInv
    <2> QED BY <1>2, <1>4, <2>1 DEF HydrateSubpackage
  <1>5. CASE HydrateSubpackageInvalid \/ HydrateUnreadable \/ HydrateUnwind \/ HydrateFailed
    BY <1>5 DEF HydrateSubpackageInvalid, HydrateUnreadable, HydrateUnwind, HydrateFailed,
       GatherInv, Running
  <1>6. CASE HydrateRunPipeline
    <2>1. UNCHANGED <<input, res, cur, state>> /\ pc = "walk" /\ work' = input[cur]
      BY <1>6 DEF HydrateRunPipeline, walk
    <2> QED BY <1>0, <1>1, <2>1 DEF GatherInv, Hydrating, Wet
  <1>7. CASE HydrateReturn
    <2>1. /\ pc = "return" /\ pc \in Running /\ res' = [res EXCEPT ![cur] = work]
          /\ state' = [state EXCEPT ![cur] = "Wet"]
      BY <1>7 DEF HydrateReturn, Running
    <2>2. CASE cur = Root
      BY <1>7, <2>2 DEF HydrateReturn, GatherInv, Running
    <2>3. CASE cur # Root
      <3>1. pc' = "walk" /\ input' = [input EXCEPT ![Parent[cur]] = input[Parent[cur]] \cup work]
        BY <1>7, <2>3 DEF HydrateReturn
      <3>2. \A q \in Pkgs : input[q] \subseteq input'[q]
        BY <1>0, <3>1
      <3>3. \A q \in Pkgs : Hydrating(q)' => Hydrating(q)
        BY <1>0, <2>1 DEF Hydrating
      <3>4. \A q \in Pkgs : Hydrating(q)' => LocalResources(q) \subseteq input'[q]
        BY <1>0, <2>1, <3>2, <3>3 DEF GatherInv
      <3>5. ASSUME NEW q \in Pkgs \ {Root}, Wet(q)', Hydrating(Parent[q])'
            PROVE  res'[q] \subseteq input'[Parent[q]]
        <4>1. Parent[q] \in Pkgs
          BY TreeAssumption
        <4>2. CASE q = cur
          BY <1>0, <2>1, <3>1, <4>1, <4>2
        <4>3. CASE q # cur
          <5>1. Wet(q) /\ res'[q] = res[q]
            BY <1>0, <2>1, <3>5, <4>3 DEF Wet
          <5>2. res[q] \subseteq input[Parent[q]]
            BY <1>0, <2>1, <3>3, <3>5, <4>1, <5>1 DEF GatherInv
          <5> QED BY <3>2, <4>1, <5>1, <5>2
        <4> QED BY <4>2, <4>3
      <3> QED BY <1>1, <3>1, <3>4, <3>5 DEF GatherInv
    <2> QED BY <2>2, <2>3
  <1> QED BY <1>3, <1>4, <1>5, <1>6, <1>7 DEF DfsStep

(* Every step of the specification preserves GatherInv.                     *)
LEMMA GatherInvStep ==
  ASSUME BaseInv, GatherInv, [Next]_vars
  PROVE  GatherInv'
  <1>1. CASE ExecuteInvalid \/ ExecuteBfs
    BY <1>1 DEF ExecuteInvalid, ExecuteBfs, GatherInv, Running
  <1>2. CASE BfsStep
    <2>1. opts.bfs /\ UNCHANGED opts /\ queue \in Seq(Pkgs) /\ input \in [Pkgs -> SUBSET Resource]
      BY <1>2 DEF BfsStep, Discover, DiscoverUnreadable, DiscoverDone, BfsRunPipeline,
         BfsReturn, BfsDone, given,
         BaseInv, TypeOK, WalkInv, ModeInv
    <2>2. CASE BfsRunPipeline
      <3> DEFINE p == Head(queue)
      <3>1. /\ p \in Pkgs /\ cur' = p /\ work' = BfsInput(p)
            /\ input' = [input EXCEPT ![p] = BfsInput(p)]
        BY <2>1, <2>2, HeadTailType DEF BfsRunPipeline
      <3> QED BY <2>1, <3>1 DEF GatherInv
    <2>3. CASE Discover \/ DiscoverUnreadable \/ DiscoverDone \/ BfsReturn \/ BfsDone
      <3>1. pc' # "pipeline"
        BY <2>3 DEF Discover, DiscoverUnreadable, DiscoverDone, BfsReturn, BfsDone
      <3> QED BY <2>1, <3>1 DEF GatherInv
    <2> QED BY <1>2, <2>2, <2>3 DEF BfsStep
  <1>3. CASE PipelineStep
    <2>1. pc \in Running /\ UNCHANGED <<opts, cur, state, disk>>
      BY <1>3, PipelineKeepsWalk, BeforeTailKeepsDisk DEF BeforeTail
    <2>2. pc' # "pipeline"
      BY <1>3 DEF PipelineStep, EmptyPipeline, EmptyPipelineRejected, PipelineInvalid,
         FnChainFails, FnChain, RunMutator, MutatorRuns, SkipMutator, MutatorFails,
         MutatorRejected, MutatorConfigRefMissing, MutatorsDone, ValidatorNotBuilt, RunValidator,
         SkipValidator, ValidatorFails, ValidatorRejected, ValidatorsDone, ValidatorReady,
         AtMutator, AtValidator, PipelineFails
    <2>3. CASE pc' \in Running
      <3>1. InPipeline
        <4>1. \A out : ~PipelineFails(out)
          BY <2>3 DEF PipelineFails, Running
        <4> QED BY <1>3, <4>1, PipelineEffect DEF RunMutator, MutatorRuns
      <3>2. UNCHANGED <<input, res>>
        BY <3>1 DEF InPipeline, walk
      <3> QED BY <2>1, <2>2, <3>2 DEF GatherInv, Hydrating, Wet, LocalResources
    <2>4. CASE pc' \notin Running
      <3>1. pc' \in {"tail", "unwind"}
        BY <1>3, <2>4, PipelineKeepsWalk
      <3> QED BY <3>1 DEF GatherInv, Running
    <2> QED BY <2>3, <2>4
  <1>4. CASE TailStep
    <2>1. pc' \in {"prune", "finish", "done"}
      BY <1>4, TailEffect
    <2> QED BY <2>1 DEF GatherInv, Running
  <1>5. CASE UNCHANGED vars
    <2>1. UNCHANGED <<opts, disk, pc, work, cur, state, input, res>>
      BY <1>5 DEF vars, given, onDisk, walk, pipe
    <2> QED BY <2>1 DEF GatherInv, Hydrating, Wet, LocalResources
  <1> QED BY <1>1, <1>2, <1>3, <1>4, <1>5, GatherDfs DEF Next

FailStep == \E s \in Range(Steps) : s.how = "fail"
NearRoot == opts.bfs \/ FailedIn \in {Root} \cup Range(Children[Root])

(* The list as it was at the failure and the output of the subpackages that *)
(* were done are in D.                                                      *)
SavedIn(D) ==
    /\ work \subseteq D
    /\ ~opts.bfs /\ FailedIn # Root =>
          \A p \in Range(Children[Root]) : state[p] = "Wet" => res[p] \subseteq D

SavedInv ==
    opts.save /\ hydErr /\ FailStep /\ NearRoot =>
       /\ pc = "tail" => SavedIn(res[Root])
       /\ pc = "unwind" =>
             \/ cur = Root /\ SavedIn(res[Root])
             \/ /\ cur = FailedIn /\ cur \in Range(Children[Root])
                /\ work \subseteq ret /\ ret # {}
                /\ \A p \in Range(Children[Root]) : state[p] = "Wet" => res[p] \subseteq input[Root]
       /\ opts.inPlace /\ (pc = "finish" \/ (pc = "done" /\ result = "error")) => SavedIn(disk)

(* While the walk goes on, no step has failed.                              *)
LEMMA NoFailStep ==
  ASSUME TypeOK, FailInv, ~hydErr
  PROVE  ~FailStep
  <1> SUFFICES ASSUME NEW i \in DOMAIN Steps, Steps[i].how = "fail" PROVE FALSE
    BY DEF FailStep, Range
  <1> QED BY FailedStep

(* A package whose function fails is the one hydrate was working on.        *)
LEMMA FailedInCur ==
  ASSUME BaseInv, ~opts.bfs, pc \in Running
  PROVE  FailedIn = cur
  <1>0. cur \in Pkgs /\ Hydrating(cur) /\ cur \in Below[cur]
    BY CurHydrating, TreeAssumption DEF BaseInv, TypeOK
  <1>1. \A q \in Below[cur] \ {cur} : state[q] # "Hydrating"
    BY AllBelowWet DEF BaseInv, Wet
  <1>2. ASSUME NEW p \in Pkgs, Hydrating(p), p # cur PROVE cur \in Below[p] \ {p}
    BY <1>2 DEF BaseInv, NestInv
  <1>3. \A p \in Pkgs : /\ state[p] = "Hydrating"
                        /\ \A q \in Below[p] \ {p} : state[q] # "Hydrating"
                        => p = cur
    BY <1>0, <1>2 DEF Hydrating
  <1>4. \E p \in Pkgs : /\ state[p] = "Hydrating"
                        /\ \A q \in Below[p] \ {p} : state[q] # "Hydrating"
    BY <1>0, <1>1 DEF Hydrating
  <1> QED BY <1>3, <1>4 DEF FailedIn

(* When a function fails, its list is kept.                                 *)
LEMMA FailKeeps ==
  ASSUME TypeOK, FailInv, FailInv', TypeOK', GatherInv, PipelineStep, FailStep'
  PROVE  /\ work' = work
         /\ \E out \in {{}, work} : PipelineFails(out) /\ work \subseteq Kept(out)
  <1>1. pc \in Running /\ ~hydErr
    BY PipelineKeepsWalk DEF FailInv, Active
  <1>2. ~FailStep
    BY <1>1, NoFailStep
  <1>3. ASSUME ~hydErr' PROVE FALSE
    <2>1. NoFail(mutationSteps') /\ NoFail(validationSteps')
      BY <1>3 DEF FailInv, NoFail
    <2>2. mutationSteps' \in Seq(StepType) /\ validationSteps' \in Seq(StepType)
      BY DEF TypeOK
    <2>3. \A s \in Range(mutationSteps') \cup Range(validationSteps') : s.how # "fail"
      BY <2>1 DEF NoFail, Range
    <2>4. \A s \in Range(mutationSteps' \o validationSteps') : s.how # "fail"
      BY <2>2, <2>3, RangeOfConcat DEF Range
    <2> QED BY <2>4 DEF FailStep, Steps
  <1>4. pc' \notin Running
    <2>1. pc' \in Running => ~hydErr'
      BY <1>1, PipelineKeepsWalk DEF Running
    <2> QED BY <1>3, <2>1
  <1>5. CASE EmptyPipelineRejected \/ PipelineInvalid \/ MutatorConfigRefMissing
    <2>1. UNCHANGED <<mutationSteps, validationSteps>>
      BY <1>5 DEF EmptyPipelineRejected, PipelineInvalid, MutatorConfigRefMissing, report
    <2> QED BY <1>2, <2>1 DEF FailStep, Steps
  <1>6. CASE FnChainFails
    <2>1. work' = work /\ PipelineFails({}) /\ work = input[cur]
      BY <1>6 DEF FnChainFails, pipe, GatherInv
    <2> QED BY <2>1 DEF Kept
  <1>7. CASE MutatorFails \/ MutatorRejected \/ ValidatorNotBuilt \/ ValidatorFails
             \/ ValidatorRejected
    <2>1. work' = work /\ PipelineFails(work)
      BY <1>7 DEF MutatorFails, MutatorRejected, ValidatorNotBuilt, ValidatorFails,
         ValidatorRejected, pipe
    <2> QED BY <2>1 DEF Kept
  <1>8. CASE EmptyPipeline \/ FnChain \/ RunMutator \/ SkipMutator \/ MutatorsDone
             \/ RunValidator \/ SkipValidator \/ ValidatorsDone
    <2>1. pc' \in Running
      BY <1>1, <1>8 DEF EmptyPipeline, FnChain, RunMutator, MutatorRuns, SkipMutator,
         MutatorsDone, RunValidator, SkipValidator, ValidatorsDone, Running
    <2> QED BY <1>4, <2>1
  <1> QED BY <1>5, <1>6, <1>7, <1>8 DEF PipelineStep

(* Which package failed and whether a step failed stay as they are.         *)
LEMMA SavedSame ==
  ASSUME UNCHANGED <<opts, state, mutationSteps, validationSteps>>
  PROVE  /\ FailStep' <=> FailStep
         /\ NearRoot' <=> NearRoot
         /\ FailedIn' = FailedIn
  BY DEF FailStep, Steps, NearRoot, FailedIn

(* A function fails.  Breadth first every package is discovered, so all of  *)
(* what is kept reaches the root; depth first hydrate hands it on.          *)
LEMMA SavedOfFailure ==
  ASSUME BaseInv, GatherInv, LayoutInv, opts.save, NEW out \in {{}, work}, pc \in Running,
         PipelineFails(out), work \subseteq Kept(out), work' = work, NearRoot
  PROVE  /\ pc' = "tail" => SavedIn(res[Root])'
         /\ pc' = "unwind" =>
               \/ cur' = Root /\ SavedIn(res[Root])'
               \/ /\ cur' = FailedIn' /\ cur' \in Range(Children[Root])
                  /\ work' \subseteq ret' /\ ret' # {}
                  /\ \A p \in Range(Children[Root]) :
                        state'[p] = "Wet" => res'[p] \subseteq input'[Root]
  <1>0. /\ cur \in Pkgs /\ Root \in Pkgs /\ res \in [Pkgs -> SUBSET Resource]
        /\ UNCHANGED <<opts, cur, state, input>> /\ order \in Seq(Pkgs)
        /\ work \subseteq Resource /\ input \in [Pkgs -> SUBSET Resource]
    BY TreeAssumption DEF BaseInv, TypeOK, PipelineFails, given
  <1>1. FailedIn' = FailedIn
    BY <1>0 DEF FailedIn
  <1>2. CASE opts.bfs
    <2> DEFINE rs == Propagate(cur, Kept(out))
    <2>1. Range(order) = Pkgs
      BY <1>2 DEF BaseInv, LevelInv, NodesInv, WalkInv, AllInv
    <2>2. res' = Aggregate(rs) /\ pc' = "tail"
      BY <1>2 DEF PipelineFails
    <2>3. Kept(out) \subseteq Resource
      BY <1>0 DEF Kept
    <2>4. rs \in [Pkgs -> SUBSET Resource]
      BY <1>0, <2>3, PropagateType DEF BaseInv
    <2>5. res'[Root] = UNION {rs[q] : q \in Range(order)}
      <3> HIDE DEF rs
      <3> QED BY <1>0, <2>2, <2>4 DEF Aggregate
    <2>6. \A r \in work : r.pkg \in Pkgs /\ r \in rs[r.pkg]
      BY <1>0 DEF Propagate, Resource
    <2>7. work \subseteq res'[Root]
      <3> HIDE DEF rs
      <3> QED BY <2>1, <2>5, <2>6
    <2> QED BY <1>0, <1>2, <2>2, <2>7 DEF SavedIn
  <1>3. CASE ~opts.bfs
    <2>1. /\ pc' = "unwind" /\ res' = [res EXCEPT ![cur] = Kept(out)] /\ ret' = Kept(out)
          /\ FailedIn = cur
      BY <1>3, FailedInCur DEF PipelineFails
    <2>2. CASE cur = Root
      <3>1. res'[Root] = Kept(out)
        BY <1>0, <2>1, <2>2
      <3> QED BY <1>0, <1>1, <2>1, <2>2, <3>1 DEF SavedIn
    <2>3. CASE cur \in Range(Children[Root])
      <3>1. \A p \in Range(Children[Root]) : p \in Pkgs \ {Root} /\ Parent[p] = Root
        <4>1. Range(Children[Root]) \subseteq Pkgs
          BY <1>0, RangeType, TreeAssumption
        <4> QED BY <1>0, <4>1, TreeAssumption DEF Range
      <3>2. Hydrating(Root) /\ Hydrating(cur)
        BY <1>3 DEF BaseInv, WalkInv, StackInv, PathInv
      <3>3. \A p \in Range(Children[Root]) : state[p] = "Wet" => res[p] \subseteq input[Root]
        BY <1>3, <3>1, <3>2 DEF GatherInv, Wet
      <3>4. \A p \in Range(Children[Root]) : state[p] = "Wet" => res'[p] = res[p]
        BY <1>0, <2>1, <3>1, <3>2 DEF Hydrating
      <3>5. Kept(out) # {}
        <4>1. <<cur, Kptfile>> \in Keys(disk)
          BY <1>0, InputAssumption DEF LayoutInv, BaseInv, DiskInv, Running
        <4>2. LocalResources(cur) # {}
          BY <4>1 DEF Keys, Key, LocalResources
        <4>3. LocalResources(cur) \subseteq input[cur]
          BY <1>0, <1>3, <3>2 DEF GatherInv
        <4> QED BY <4>2, <4>3 DEF Kept
      <3> QED BY <1>0, <1>1, <2>1, <2>3, <3>3, <3>4, <3>5
    <2> QED BY <1>3, <2>1, <2>2, <2>3 DEF NearRoot
  <1> QED BY <1>2, <1>3

(* Every step preserves SavedInv.                                           *)
LEMMA SavedInvStep ==
  ASSUME CoreInv, CoreInv', GatherInv, LayoutInv, SavedInv, [Next]_vars
  PROVE  SavedInv'
  <1>0. /\ BaseInv /\ FailInv /\ TypeOK /\ FailInv' /\ TypeOK' /\ Root \in Pkgs
        /\ res \in [Pkgs -> SUBSET Resource] /\ cur \in Pkgs
    BY TreeAssumption DEF CoreInv, BaseInv, TypeOK
  <1>1. ASSUME ~FailStep' PROVE SavedInv'
    BY <1>1 DEF SavedInv
  <1>2. CASE PipelineStep
    <2>1. CASE FailStep' /\ opts.save
      <3>1. PICK out \in {{}, work} : PipelineFails(out) /\ work \subseteq Kept(out)
        BY <1>0, <1>2, <2>1, FailKeeps
      <3>2. /\ work' = work /\ UNCHANGED <<opts, state>> /\ pc' \in {"tail", "unwind"}
            /\ pc \in Running
        BY <1>0, <1>2, <2>1, <3>1, FailKeeps, PipelineKeepsWalk DEF PipelineFails
      <3>3. NearRoot' <=> NearRoot
        BY <3>2 DEF NearRoot, FailedIn
      <3> QED BY <1>0, <2>1, <3>1, <3>2, <3>3, SavedOfFailure DEF SavedInv
    <2>2. CASE ~opts.save
      <3>1. UNCHANGED opts
        BY <1>2, PipelineKeepsWalk
      <3> QED BY <2>2, <3>1 DEF SavedInv
    <2> QED BY <1>1, <2>1, <2>2
  <1>3. CASE /\ ExecuteInvalid \/ ExecuteDfs \/ ExecuteBfs \/ DfsStep \/ BfsStep
             /\ ~HydrateUnwind /\ ~HydrateFailed
    <2>1. pc \in Active
      BY <1>3 DEF ExecuteInvalid, ExecuteDfs, ExecuteBfs, DfsStep, BfsStep, HydrateSubpackage,
         HydrateSubpackageInvalid, HydrateUnreadable, HydrateRunPipeline, HydrateReturn,
         Discover, DiscoverUnreadable, DiscoverDone,
         BfsRunPipeline, BfsReturn, BfsDone, Active, Running
    <2>2. ~FailStep
      BY <1>0, <2>1, NoFailStep DEF FailInv
    <2>3. UNCHANGED <<mutationSteps, validationSteps>>
      BY <1>0, <1>3, WalkEffect DEF report
    <2> QED BY <1>1, <2>2, <2>3 DEF FailStep, Steps
  <1>4. CASE HydrateUnwind \/ HydrateFailed
    <2>1. /\ UNCHANGED <<opts, state, mutationSteps, validationSteps, work, hydErr>>
          /\ pc = "unwind" /\ pc' \in {"unwind", "tail"}
      BY <1>4 DEF HydrateUnwind, HydrateFailed, given, pipe, report, walk, outcome
    <2>2. (FailStep' <=> FailStep) /\ (NearRoot' <=> NearRoot) /\ FailedIn' = FailedIn
      BY <2>1, SavedSame
    <2> SUFFICES ASSUME opts.save, hydErr, FailStep, NearRoot
                 PROVE  cur' = Root /\ SavedIn(res[Root])'
      BY <2>1, <2>2 DEF SavedInv
    <2>4. \/ cur = Root /\ SavedIn(res[Root])
          \/ /\ cur = FailedIn /\ cur \in Range(Children[Root])
             /\ work \subseteq ret /\ ret # {}
             /\ \A p \in Range(Children[Root]) : state[p] = "Wet" => res[p] \subseteq input[Root]
      BY <2>1 DEF SavedInv
    <2>5. \A p \in Range(Children[Root]) : p # Root /\ Parent[p] = Root
      BY <1>0, TreeAssumption DEF Range
    <2>6. CASE HydrateFailed
      <3>1. cur = Root /\ UNCHANGED <<cur, res>>
        BY <2>6 DEF HydrateFailed, walk
      <3> QED BY <2>1, <2>2, <2>4, <2>5, <3>1 DEF SavedIn
    <2>7. CASE HydrateUnwind
      <3> DEFINE got == input[Root] \cup ret
      <3>1. cur # Root /\ cur \in Range(Children[Root]) /\ Parent[cur] = Root
        BY <2>4, <2>5, <2>7 DEF HydrateUnwind
      <3>2. cur' = Root /\ res' = [res EXCEPT ![Root] = got]
        BY <2>4, <2>7, <3>1 DEF HydrateUnwind
      <3>3. res'[Root] = got /\ \A p \in Range(Children[Root]) : res'[p] = res[p]
        BY <1>0, <2>5, <3>2
      <3> QED BY <2>1, <2>2, <2>4, <3>1, <3>2, <3>3 DEF SavedIn
    <2> QED BY <1>4, <2>6, <2>7
  <1>5. CASE TailStep
    <2>1. /\ UNCHANGED <<opts, state, mutationSteps, validationSteps, work, hydErr, res>>
          /\ pc' \in {"prune", "finish", "done"}
      BY <1>5, TailEffect
    <2>2. (FailStep' <=> FailStep) /\ (NearRoot' <=> NearRoot) /\ FailedIn' = FailedIn
      BY <2>1, SavedSame
    <2> SUFFICES ASSUME opts.save, hydErr, FailStep, NearRoot, opts.inPlace,
                        pc' = "finish" \/ (pc' = "done" /\ result' = "error")
                 PROVE  SavedIn(disk)'
      BY <2>1, <2>2 DEF SavedInv
    <2>3. ASSUME NEW D, SavedIn(D), D \subseteq disk' PROVE SavedIn(disk)'
      BY <2>1, <2>2, <2>3 DEF SavedIn
    <2>4. CASE WriteResources
      <3>1. pc = "tail" /\ res[Root] \subseteq disk'
        BY <2>4 DEF WriteResources, Keeps, Overwrite
      <3> QED BY <2>3, <3>1 DEF SavedInv
    <2>5. CASE FinishFailed
      <3>1. pc = "finish" /\ disk' = disk
        BY <2>5 DEF FinishFailed
      <3> QED BY <2>3, <3>1 DEF SavedInv
    <2>6. CASE PruneResources \/ PruneFails
      <3>1. pc = "prune"
        BY <2>6 DEF PruneResources, PruneFails
      <3> QED BY <1>0, <3>1 DEF BaseInv, DiskInv
    <2>7. CASE GiveUp \/ WriteFails \/ WriteOutput \/ WriteOutputFails \/ FinishOk
               \/ SaveFnResultsFails
      BY <2>7 DEF GiveUp, WriteFails, WriteOutput, WriteOutputFails, FinishOk, SaveFnResultsFails
    <2> QED BY <1>5, <2>4, <2>5, <2>6, <2>7 DEF TailStep
  <1>6. CASE UNCHANGED vars
    <2>1. UNCHANGED <<opts, disk, pc, cur, state, input, res, ret, work, mutationSteps,
                      validationSteps, hydErr, result>>
      BY <1>6 DEF vars, given, onDisk, walk, pipe, report, outcome
    <2>2. (FailStep' <=> FailStep) /\ (NearRoot' <=> NearRoot) /\ FailedIn' = FailedIn
      BY <2>1, SavedSame
    <2> QED BY <2>1, <2>2 DEF SavedInv, SavedIn
  <1> QED BY <1>2, <1>3, <1>4, <1>5, <1>6 DEF Next, DfsStep

(* Whatever the tree and the pipelines: when a function near the root       *)
(* fails and save-on-render-failure is set, the list as it was then and     *)
(* what the finished subpackages returned are on disk in the end.           *)
THEOREM SavedNearRootHolds == Spec => []SavedNearRoot
  <1>1. SavedInv => SavedNearRoot
    BY DEF SavedInv, SavedIn, FailStep, NearRoot, SavedNearRoot
  <1>2. LayoutInv /\ DiskInv /\ [Next]_vars => LayoutInv'
    <2> SUFFICES ASSUME LayoutInv, [Next]_vars PROVE LayoutInv'
      OBVIOUS
    <2>1. UNCHANGED <<opts, disk0>>
      BY BeforeTailKeepsDisk, TailEffect DEF Next, BeforeTail, vars, given
    <2> QED BY <2>1, LayoutSame
  <1>3. CoreInv => BaseInv /\ DiskInv
    BY DEF CoreInv, BaseInv
  <1>4. Init => GatherInv /\ SavedInv /\ LayoutInv
    BY ExactCoreInit DEF Init, GatherInv, SavedInv, Running, ExactCore
  <1>5. CoreInv /\ [Next]_vars => CoreInv'
    BY CoreInvStep
  <1>6. CoreInv /\ CoreInv' /\ GatherInv /\ LayoutInv /\ SavedInv /\ [Next]_vars
        => GatherInv' /\ SavedInv'
    BY <1>3, GatherInvStep, SavedInvStep
  <1>7. Init => CoreInv
    BY ExactCoreInit
  <1> QED BY <1>1, <1>2, <1>3, <1>4, <1>5, <1>6, <1>7, PTL DEF Spec

=============================================================================
