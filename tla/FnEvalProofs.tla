---------------------------- MODULE FnEvalProofs ----------------------------
(***************************************************************************)
(* Proofs about FnEval: what --save leaves in the Kptfile, and which image *)
(* later renders run, for any package, functions and command lines.        *)
(***************************************************************************)
EXTENDS FnEval, WellFoundedInduction, TLAPS

(* A set of numbers with a bound has a largest member.                      *)
LEMMA MaxIn ==
  ASSUME NEW n \in Nat, NEW S \in SUBSET (0..n), S # {}
  PROVE  Max(S) \in S /\ \A k \in S : k <= Max(S)
  <1> DEFINE T == {n - k : k \in S}
             R == OpToRel(<, Nat)
  <1>1. T \subseteq Nat /\ T # {}
    <2>1. \A k \in S : n - k \in Nat
      OBVIOUS
    <2>2. PICK k \in S : TRUE
      OBVIOUS
    <2>3. n - k \in T
      BY <2>2
    <2> QED BY <2>1, <2>3
  <1>2. PICK x \in T : \A y \in T : ~ (<<y, x>> \in R)
    <2> HIDE DEF T, R
    <2> QED BY <1>1, WFMin, NatLessThanWellFounded DEF R
  <1>3. PICK m \in S : x = n - m
    BY <1>2
  <1>4. \A k \in S : ~ (n - k < n - m)
    <2> SUFFICES ASSUME NEW k \in S, n - k < n - m
                 PROVE  FALSE
      OBVIOUS
    <2>1. n - k \in T /\ n - k \in Nat /\ n - m \in Nat
      OBVIOUS
    <2>2. <<n - k, n - m>> \in R
      BY <2>1 DEF OpToRel
    <2> QED BY <1>2, <1>3, <2>1, <2>2
  <1>5. \A k \in S : m >= k
    BY <1>4
  <1> QED BY <1>5 DEF Max

-----------------------------------------------------------------------------
(* The inductive invariant *)

(* The functions of the command lines and of the Kptfile at first, and those *)
(* that have the image name and tag field of one of them.                   *)
Considered == {l.fn : l \in Lines} \union UNION {ToSet(s) : s \in Saved}
Known(f) == \E g \in Considered : f.image.name = g.image.name /\ f.field = g.field

Ranged(f) == f.field.kind = "range"

(* A command is one of the command lines, checked by preRunE.               *)
FlagsInv ==
  /\ pc # "idle" => flags \in Lines /\ (flags.save => flags.type # "")
  /\ pc = "save" => flags.save

(* The Kptfile has functions that were there or were saved.                 *)
PipelineInv ==
  /\ pipeline \in [mutator : Seq(Functions0), validator : Seq(Functions0)]
  /\ \A f \in ToSet(pipeline.mutator) \union ToSet(pipeline.validator) : Known(f)

(* After GetFilters the image of the function is the one of the flags.      *)
RanInv ==
  pc \notin {"idle", "read", "filter"} /\ flags.fn.kind = "image" => ran = EvalImage(flags.fn)

(* The version a render last ran for a constraint is still on the machine.  *)
RenderedInv ==
  /\ rendered \in Nat
  /\ rendered # 0 =>
       \E f \in Considered, i \in present :
         /\ Ranged(f) /\ i.name = f.image.name /\ i.tag = rendered
         /\ rendered \in FilterParseTags({rendered}, f.field)

IndInv == FlagsInv /\ PipelineInv /\ RanInv /\ RenderedInv

(* The elements of a sequence.                                              *)
LEMMA ToSetOf ==
  ASSUME NEW S, NEW s \in Seq(S)
  PROVE  /\ \A x \in ToSet(s) : \E i \in 1..Len(s) : x = s[i]
         /\ \A i \in 1..Len(s) : s[i] \in ToSet(s)
  <1>1. DOMAIN s = 1..Len(s)
    OBVIOUS
  <1> QED BY <1>1 DEF ToSet

LEMMA InitInv == Init => IndInv
  <1> SUFFICES ASSUME Init PROVE IndInv
    OBVIOUS
  <1>1. PICK s \in Saved : pipeline = [mutator |-> s, validator |-> <<>>]
    BY DEF Init
  <1>2. s \in Seq(Functions0) /\ <<>> \in Seq(Functions0)
    BY FnEvalAssumption
  <1>3. ToSet(<<>>) = {}
    BY DEF ToSet
  <1>4. ToSet(s) \subseteq Considered
    BY DEF Considered
  <1>5. PipelineInv
    BY <1>1, <1>2, <1>3, <1>4 DEF PipelineInv, Known
  <1> QED BY <1>5 DEF Init, IndInv, FlagsInv, RanInv, RenderedInv

(* The function that is saved.                                              *)
LEMMA NewFunctionType ==
  ASSUME NEW fn \in Functions0
  PROVE  /\ NewFunction(fn) \in Functions0
         /\ NewFunction(fn).image.name = fn.image.name
         /\ NewFunction(fn).field = fn.field
         /\ NewFunction(fn).kind = fn.kind /\ NewFunction(fn).selector = fn.selector
         /\ NewFunction(fn).exclusion = fn.exclusion
         /\ fn.config = "sibling" => ~ValidConfigPath(NewFunction(fn))
         /\ fn.config \notin {"kind", "sibling"} => SameConfig(NewFunction(fn).config, fn.config)
         /\ NewFunction(fn).image = IF fn.kind = "image" THEN ResolveToImage(fn.image) ELSE fn.image
  <1>1. fn.image \in FnImages
    BY DEF Functions0
  <1>2. ResolveToImage(fn.image) \in FnImages /\ ResolveToImage(fn.image).name = fn.image.name
    BY <1>1 DEF FnImages, ResolveToImage
  <1> QED BY <1>1, <1>2 DEF NewFunction, Functions0, Configs, ValidConfigPath, SameConfig

(* The list after --save: functions of the old one, and the new one.        *)
LEMMA UpdatedList ==
  ASSUME NEW old \in Seq(Functions0), NEW fn \in Functions0
  PROVE  /\ UpdateFnList(old, fn) \in Seq(Functions0)
         /\ \A f \in ToSet(UpdateFnList(old, fn)) : f \in ToSet(old) \/ f = NewFunction(fn)
         /\ \E i \in DOMAIN UpdateFnList(old, fn) : UpdateFnList(old, fn)[i] = NewFunction(fn)
  <1> DEFINE new == UpdateFnList(old, fn)
  <1>0. NewFunction(fn) \in Functions0
    BY NewFunctionType
  <1>1. CASE \E i \in DOMAIN old : SameFn(old[i], fn)
    <2>1. new = [i \in 1..Len(old) |-> IF SameFn(old[i], fn) THEN NewFunction(fn) ELSE old[i]]
      BY <1>1 DEF UpdateFnList
    <2>2. \A i \in 1..Len(old) : old[i] \in Functions0
      OBVIOUS
    <2>3. new \in Seq(Functions0) /\ Len(new) = Len(old)
      <3> HIDE DEF new
      <3> QED BY <1>0, <2>1, <2>2
    <2>4. \A i \in 1..Len(old) : new[i] = IF SameFn(old[i], fn) THEN NewFunction(fn) ELSE old[i]
      BY <2>1
    <2> HIDE DEF new
    <2>5. \A f \in ToSet(new) : f \in ToSet(old) \/ f = NewFunction(fn)
      BY <2>3, <2>4, ToSetOf
    <2>6. \E i \in DOMAIN new : new[i] = NewFunction(fn)
      BY <1>1, <2>1, <2>4
    <2> QED BY <2>3, <2>5, <2>6 DEF new
  <1>2. CASE ~\E i \in DOMAIN old : SameFn(old[i], fn)
    <2>1. new = Append(old, NewFunction(fn))
      BY <1>2 DEF UpdateFnList
    <2> HIDE DEF new
    <2>2. /\ new \in Seq(Functions0) /\ Len(new) = Len(old) + 1 /\ DOMAIN new = 1..Len(new)
          /\ \A i \in 1..Len(old) : new[i] = old[i]
          /\ new[Len(old) + 1] = NewFunction(fn)
      BY <1>0, <2>1
    <2>3. \A f \in ToSet(new) : f \in ToSet(old) \/ f = NewFunction(fn)
      <3> SUFFICES ASSUME NEW f \in ToSet(new), f # NewFunction(fn) PROVE f \in ToSet(old)
        OBVIOUS
      <3>1. PICK i \in 1..Len(new) : f = new[i]
        BY <2>2, ToSetOf
      <3>2. i \in 1..Len(old) /\ f = old[i]
        BY <2>2, <3>1
      <3> QED BY <3>2, ToSetOf
    <2>4. Len(old) + 1 \in DOMAIN new
      BY <2>2
    <2> QED BY <2>2, <2>3, <2>4 DEF new
  <1> QED BY <1>1, <1>2

-----------------------------------------------------------------------------
(* The steps.  Those of a command that fails or ends go back to idle.       *)

(* The version that a render chooses: the latest of the matching ones that  *)
(* are listed.                                                              *)
LEMMA LatestListed ==
  ASSUME NEW fn \in Functions0, Ranged(fn), NEW answers \in BOOLEAN,
         RunnerImage(fn.image, fn.field, Listers(fn.image, answers)) # Unresolved
  PROVE  LET found == FilterParseTags(Listed(Listers(fn.image, answers)), fn.field)
             image == RunnerImage(fn.image, fn.field, Listers(fn.image, answers))
         IN /\ image.tag \in found /\ image.tag \in Nat /\ image.name = fn.image.name
            /\ \A t \in found : t <= image.tag
  <1> DEFINE found == FilterParseTags(Listed(Listers(fn.image, answers)), fn.field)
             image == RunnerImage(fn.image, fn.field, Listers(fn.image, answers))
  <1>1. fn.image \in FnImages /\ fn.field \in TagFields /\ fn.field.below \in Nat
    BY DEF Functions0, TagFields
  <1>2. ResolveToImage(fn.image) \in FnImages /\ ResolveToImage(fn.image).name = fn.image.name
    BY <1>1 DEF FnImages, ResolveToImage
  <1>3. image = IF found = {} THEN Unresolved
                ELSE [ResolveToImage(fn.image) EXCEPT !.tag = Max(found)]
    BY DEF RunnerImage, ResolveFunctionImage, LatestMatching, Ranged
  <1>4. found \in SUBSET (0 .. fn.field.below)
    <2>1. ASSUME NEW t \in found PROVE t \in 0 .. fn.field.below
      <3>1. t \in Versions /\ t < fn.field.below
        BY DEF FilterParseTags
      <3>2. t \in Nat
        BY <3>1, ImagesAssumption
      <3> QED BY <1>1, <3>1, <3>2
    <2> HIDE DEF found
    <2> QED BY <2>1
  <1> HIDE DEF found, image
  <1>5. found # {} /\ image = [ResolveToImage(fn.image) EXCEPT !.tag = Max(found)]
    BY <1>3 DEF image
  <1>6. Max(found) \in found /\ \A t \in found : t <= Max(found)
    BY <1>1, <1>4, <1>5, MaxIn
  <1>7. image.tag = Max(found) /\ image.name = fn.image.name
    BY <1>2, <1>5 DEF FnImages
  <1> QED BY <1>4, <1>6, <1>7 DEF found, image

(* The image that was run is listed by the container runtime.               *)
LEMMA PresentIsListed ==
  ASSUME NEW image, NEW i \in present, i.name = image.name, NEW answers
  PROVE  i.tag \in Listed(Listers(image, answers))
  <1>1. i.tag \in TagsOf(image, present)
    BY DEF TagsOf
  <1>2. [local |-> TRUE, ok |-> TRUE, tags |-> TagsOf(image, present)] \in Listers(image, answers)
    BY DEF Listers
  <1> QED BY <1>1, <1>2 DEF Listed

(* Every step but a render's leaves the rendered version and its image.     *)
KeepsImages == rendered' = rendered /\ present \subseteq present'

LEMMA KeepsRendered ==
  ASSUME RenderedInv, KeepsImages
  PROVE  RenderedInv'
  BY DEF RenderedInv, KeepsImages, FilterParseTags

(* What a function leaves alone, whatever it returns.                       *)
LEMMA ReturnsLeave ==
  ASSUME NEW dropped, NEW changed, NEW added, NEW copied,
         Returns(dropped, changed, added, copied)
  PROVE  pc' = "merge" /\ UNCHANGED <<flags, ran, pipeline, rendered>>
  BY ZenonT(60) DEF Returns

(* Steps that neither save a function nor run one from the Kptfile.         *)
LEMMA CommandStep ==
  ASSUME IndInv,
         \/ \E l \in Lines : PreRun(l)
         \/ Fail \/ GetNodes \/ GetFilters \/ ExcludeFnConfig \/ Select \/ Skip
         \/ \E dropped, changed, added, copied :
              ContainerRun(dropped, changed, added, copied) \/ ExecRun(dropped, changed, added, copied)
         \/ RuntimeUnavailable \/ RunFails \/ Rejected \/ Merge
         \/ SaveResults \/ WriteFnOutput \/ OutputFails \/ Sink
         \/ \E i \in Pool : Publish(i) \/ Unpublish(i)
         \/ UNCHANGED vars
  PROVE  IndInv' /\ KeepsImages
  <1>1. KeepsImages /\ UNCHANGED pipeline
    <2>1. CASE \E l \in Lines : PreRun(l)
      BY <2>1 DEF PreRun, KeepsImages, images
    <2>2. CASE Fail \/ GetNodes \/ GetFilters \/ ExcludeFnConfig \/ Select \/ Skip
      BY <2>2 DEF Fail, GetNodes, GetFilters, ExcludeFnConfig, Select, Skip, KeepsImages, images
    <2>3. CASE \E dropped, changed, added, copied :
              ContainerRun(dropped, changed, added, copied) \/ ExecRun(dropped, changed, added, copied)
      <3>1. PICK dropped, changed, added, copied :
              ContainerRun(dropped, changed, added, copied) \/ ExecRun(dropped, changed, added, copied)
        BY <2>3
      <3>2. Returns(dropped, changed, added, copied) /\ present \subseteq present'
        BY <3>1 DEF ContainerRun, ExecRun
      <3> QED BY <3>2, ReturnsLeave DEF KeepsImages
    <2>4. CASE RuntimeUnavailable \/ RunFails \/ Rejected \/ Merge
      BY <2>4 DEF RuntimeUnavailable, RunFails, Rejected, Merge, KeepsImages, images
    <2>5. CASE SaveResults \/ WriteFnOutput \/ OutputFails \/ Sink
      BY <2>5 DEF SaveResults, WriteFnOutput, OutputFails, Sink, KeepsImages, images
    <2>6. CASE \E i \in Pool : Publish(i) \/ Unpublish(i)
      BY <2>6 DEF Publish, Unpublish, KeepsImages
    <2>7. CASE UNCHANGED vars
      BY <2>7 DEF vars, KeepsImages, images
    <2> QED BY <2>1, <2>2, <2>3, <2>4, <2>5, <2>6, <2>7
  <1>2. PipelineInv'
    BY <1>1 DEF IndInv, PipelineInv
  <1>3. FlagsInv' /\ RanInv'
    <2>1. CASE \E l \in Lines : PreRun(l)
      BY <2>1 DEF PreRun, ValidateOptionalFlags, IndInv, FlagsInv, RanInv
    <2>2. CASE Fail \/ GetNodes \/ ExcludeFnConfig \/ Select \/ Skip
      BY <2>2 DEF Fail, End, GetNodes, ExcludeFnConfig, Select, Skip, IndInv, FlagsInv, RanInv
    <2>3. CASE GetFilters
      BY <2>3 DEF GetFilters, IndInv, FlagsInv, RanInv, EvalImage
    <2>4. CASE \E dropped, changed, added, copied :
              ContainerRun(dropped, changed, added, copied) \/ ExecRun(dropped, changed, added, copied)
      <3>1. pc = "run" /\ pc' = "merge" /\ UNCHANGED <<flags, ran>>
        <4>1. PICK dropped, changed, added, copied :
                /\ pc = "run"
                /\ Returns(dropped, changed, added, copied)
          BY <2>4 DEF ContainerRun, ExecRun
        <4>2. pc' = "merge" /\ UNCHANGED <<flags, ran>>
          BY <4>1, ReturnsLeave
        <4> QED BY <4>1, <4>2
      <3> QED BY <3>1 DEF IndInv, FlagsInv, RanInv
    <2>5. CASE RuntimeUnavailable \/ RunFails \/ Rejected \/ Merge
      BY <2>5 DEF RuntimeUnavailable, RunFails, Rejected, Merge, IndInv, FlagsInv, RanInv
    <2>6. CASE SaveResults \/ WriteFnOutput \/ OutputFails \/ Sink
      BY <2>6 DEF SaveResults, WriteFnOutput, OutputFails, Sink, End, IndInv, FlagsInv, RanInv
    <2>7. CASE \E i \in Pool : Publish(i) \/ Unpublish(i)
      BY <2>7 DEF Publish, Unpublish, IndInv, FlagsInv, RanInv
    <2>8. CASE UNCHANGED vars
      BY <2>8 DEF vars, IndInv, FlagsInv, RanInv
    <2> QED BY <2>1, <2>2, <2>3, <2>4, <2>5, <2>6, <2>7, <2>8
  <1>4. RenderedInv'
    BY <1>1, KeepsRendered DEF IndInv
  <1> QED BY <1>1, <1>2, <1>3, <1>4 DEF IndInv

(* A package that loses its Kptfile loses the pipeline.                     *)
LEMMA WriteStep ==
  ASSUME IndInv, Write \/ \E S : WriteFails(S)
  PROVE  IndInv' /\ KeepsImages
  <1>1. KeepsImages
    BY DEF Write, WriteFails, KeepsImages, images
  <1>2. pipeline' \in {pipeline, NoPipeline}
    BY DEF Write, WriteFails
  <1>3. NoPipeline \in [mutator : Seq(Functions0), validator : Seq(Functions0)]
        /\ ToSet(NoPipeline.mutator) = {} /\ ToSet(NoPipeline.validator) = {}
    BY DEF NoPipeline, ToSet
  <1>4. PipelineInv'
    BY <1>2, <1>3 DEF IndInv, PipelineInv
  <1>5. FlagsInv' /\ RanInv'
    BY DEF Write, WriteFails, End, IndInv, FlagsInv, RanInv
  <1> QED BY <1>1, <1>4, <1>5, KeepsRendered DEF IndInv

(* What --save writes.                                                      *)
LEMMA SavedList ==
  ASSUME IndInv, SaveFnToKptfile
  PROVE  /\ flags \in Lines /\ flags.fn \in Functions0 /\ flags.save
         /\ flags.type \in {"mutator", "validator"}
         /\ pkg[Kptfile] # None =>
              pipeline' = [pipeline EXCEPT ![flags.type] = UpdateFnList(pipeline[flags.type], flags.fn)]
  BY FnEvalAssumption DEF SaveFnToKptfile, IndInv, FlagsInv, Flags

LEMMA SaveStep ==
  ASSUME IndInv, SaveFnToKptfile
  PROVE  IndInv' /\ KeepsImages
  <1>1. KeepsImages
    BY DEF SaveFnToKptfile, KeepsImages, images
  <1>2. FlagsInv' /\ RanInv'
    BY DEF SaveFnToKptfile, End, FlagsInv, RanInv
  <1>3. PipelineInv'
    <2>1. CASE pkg[Kptfile] = None
      BY <2>1 DEF SaveFnToKptfile, IndInv, PipelineInv
    <2>2. CASE pkg[Kptfile] # None
      <3> DEFINE t == flags.type
                 new == UpdateFnList(pipeline[t], flags.fn)
      <3>1. /\ flags \in Lines /\ flags.fn \in Functions0 /\ t \in {"mutator", "validator"}
            /\ pipeline' = [pipeline EXCEPT ![t] = new]
        BY <2>2, SavedList
      <3>2. /\ pipeline \in [mutator : Seq(Functions0), validator : Seq(Functions0)]
            /\ pipeline[t] \in Seq(Functions0)
        BY <3>1 DEF IndInv, PipelineInv
      <3>3. /\ new \in Seq(Functions0)
            /\ \A f \in ToSet(new) : f \in ToSet(pipeline[t]) \/ f = NewFunction(flags.fn)
        BY <3>1, <3>2, UpdatedList
      <3>4. Known(NewFunction(flags.fn))
        BY <3>1, NewFunctionType DEF Known, Considered
      <3> HIDE DEF t, new
      <3>5. \A f \in ToSet(pipeline[t]) : Known(f)
        BY <3>1, <3>2 DEF IndInv, PipelineInv
      <3>6. \A f \in ToSet(new) : Known(f)
        BY <3>3, <3>4, <3>5
      <3>7. CASE t = "mutator"
        <4>1. pipeline'.mutator = new /\ pipeline'.validator = pipeline.validator
              /\ pipeline' \in [mutator : Seq(Functions0), validator : Seq(Functions0)]
          BY <3>1, <3>2, <3>3, <3>7
        <4> QED BY <3>6, <4>1 DEF IndInv, PipelineInv
      <3>8. CASE t = "validator"
        <4>1. pipeline'.validator = new /\ pipeline'.mutator = pipeline.mutator
              /\ pipeline' \in [mutator : Seq(Functions0), validator : Seq(Functions0)]
          BY <3>1, <3>2, <3>3, <3>8
        <4> QED BY <3>6, <4>1 DEF IndInv, PipelineInv
      <3> QED BY <3>1, <3>7, <3>8
    <2> QED BY <2>1, <2>2
  <1> QED BY <1>1, <1>2, <1>3, KeepsRendered DEF IndInv

(* At most one image and constraint is in play: a function is compared with *)
(* itself, not with another that has a constraint of its own.               *)
OneConstraint ==
  \A f, g \in Considered :
    Ranged(f) /\ Ranged(g) => f.image.name = g.image.name /\ f.field = g.field

LEMMA RenderStep ==
  ASSUME IndInv, NEW fn \in ToSet(pipeline.mutator), NEW answers \in BOOLEAN,
         RenderRuns(fn, answers)
  PROVE  IndInv' /\ (OneConstraint => rendered' >= rendered)
  <1> DEFINE image == RunnerImage(fn.image, fn.field, Listers(fn.image, answers))
             found == FilterParseTags(Listed(Listers(fn.image, answers)), fn.field)
  <1>1. /\ image # Unresolved /\ present' = present \union {image}
        /\ rendered' = IF fn.field.kind = "range" THEN image.tag ELSE rendered
        /\ pc = "idle" /\ UNCHANGED <<pipeline, flags, pc, ran>>
    BY DEF RenderRuns
  <1>2. fn \in Functions0
    <2>1. pipeline.mutator \in Seq(Functions0)
      BY DEF IndInv, PipelineInv
    <2> QED BY <2>1, ToSetOf
  <1>3. PICK g \in Considered : fn.image.name = g.image.name /\ fn.field = g.field
    BY DEF IndInv, PipelineInv, Known
  <1>4. FlagsInv' /\ RanInv' /\ PipelineInv'
    BY <1>1 DEF IndInv, FlagsInv, RanInv, PipelineInv
  <1>5. CASE ~Ranged(fn)
    <2>1. KeepsImages
      BY <1>1, <1>5 DEF KeepsImages, Ranged
    <2>2. RenderedInv'
      BY <2>1, KeepsRendered DEF IndInv
    <2>3. rendered' >= rendered
      BY <2>1 DEF KeepsImages, IndInv, RenderedInv
    <2> QED BY <1>4, <2>2, <2>3 DEF IndInv
  <1>6. CASE Ranged(fn)
    <2>1. /\ image.tag \in found /\ image.tag \in Nat /\ image.name = fn.image.name
          /\ \A t \in found : t <= image.tag
      BY <1>1, <1>2, <1>6, LatestListed
    <2>2. rendered' = image.tag
      BY <1>1, <1>6 DEF Ranged
    <2>3. image.tag \in FilterParseTags({image.tag}, g.field)
      BY <1>3, <2>1 DEF FilterParseTags
    <2>4. image \in present' /\ Ranged(g) /\ image.name = g.image.name
      BY <1>1, <1>3, <1>6, <2>1 DEF Ranged
    <2>5. RenderedInv'
      <3> HIDE DEF image
      <3>1. rendered' \in FilterParseTags({rendered'}, g.field)
        BY <2>2, <2>3
      <3>2. FilterParseTags({rendered}, g.field)' = FilterParseTags({rendered'}, g.field)
        BY DEF FilterParseTags
      <3>3. \E f \in Considered, i \in present' :
              /\ Ranged(f) /\ i.name = f.image.name /\ i.tag = rendered'
              /\ rendered' \in FilterParseTags({rendered'}, f.field)
        BY <2>2, <2>4, <3>1
      <3> QED BY <2>1, <2>2, <3>3 DEF RenderedInv, Considered, Ranged, FilterParseTags
    <2>6. ASSUME OneConstraint PROVE rendered' >= rendered
      <3>1. CASE rendered = 0
        BY <2>1, <2>2, <3>1
      <3>2. CASE rendered # 0
        <4>1. PICK f \in Considered, i \in present :
                /\ Ranged(f) /\ i.name = f.image.name /\ i.tag = rendered
                /\ rendered \in FilterParseTags({rendered}, f.field)
          BY <3>2 DEF IndInv, RenderedInv
        <4>2. i.name = fn.image.name /\ f.field = fn.field
          BY <1>3, <2>4, <2>6, <4>1 DEF OneConstraint
        <4>3. rendered \in Listed(Listers(fn.image, answers))
          BY <4>1, <4>2, PresentIsListed
        <4>4. rendered \in found
          BY <4>1, <4>2, <4>3 DEF FilterParseTags
        <4> QED BY <2>1, <2>2, <4>4 DEF IndInv, RenderedInv
      <3> QED BY <3>1, <3>2
    <2> QED BY <1>4, <2>5, <2>6 DEF IndInv
  <1> QED BY <1>5, <1>6

(* Every step preserves the invariant, and NeverOlder holds of it.          *)
LEMMA NextStep ==
  ASSUME IndInv, [Next]_vars
  PROVE  IndInv' /\ (OneConstraint => rendered' >= rendered)
  <1>1. ASSUME KeepsImages PROVE rendered' >= rendered
    BY <1>1 DEF KeepsImages, IndInv, RenderedInv
  <1>2. CASE Write \/ (\E S \in SUBSET Written : WriteFails(S))
    BY <1>1, <1>2, WriteStep
  <1>3. CASE SaveFnToKptfile
    BY <1>1, <1>3, SaveStep
  <1>4. CASE \E fn \in ToSet(pipeline.mutator), answers \in BOOLEAN : RenderRuns(fn, answers)
    BY <1>4, RenderStep
  <1>5. CASE \/ \E l \in Lines : PreRun(l)
             \/ Fail \/ GetNodes \/ GetFilters \/ ExcludeFnConfig \/ Select \/ Skip
             \/ \E dropped, changed, added, copied :
                  ContainerRun(dropped, changed, added, copied) \/ ExecRun(dropped, changed, added, copied)
             \/ RuntimeUnavailable \/ RunFails \/ Rejected \/ Merge
             \/ SaveResults \/ WriteFnOutput \/ OutputFails \/ Sink
             \/ \E i \in Pool : Publish(i) \/ Unpublish(i)
             \/ UNCHANGED vars
    BY <1>1, <1>5, CommandStep
  <1> QED BY <1>2, <1>3, <1>4, <1>5 DEF Next

(* Tags come and go in the registry, which may not answer: a function with  *)
(* a version constraint is never run with an older version than before,     *)
(* because the image that ran is listed by the container runtime.           *)
THEOREM NeverOlderHolds ==
  ASSUME OneConstraint
  PROVE  Spec => NeverOlder
  <1>1. IndInv /\ [Next]_vars => IndInv'
    BY NextStep
  <1>2. IndInv /\ [Next]_vars => [rendered' >= rendered]_vars
    BY NextStep
  <1> QED BY <1>1, <1>2, InitInv, PTL DEF Spec, NeverOlder

(* The last step of a command with --save is that of the save.              *)
LEMMA OnlySaves ==
  ASSUME Next, pc = "save"
  PROVE  SaveFnToKptfile
  BY DEF Next, PreRun, Fail, GetNodes, GetFilters, ExcludeFnConfig, Select, Skip, ContainerRun,
     ExecRun, RuntimeUnavailable, RunFails, Rejected, Merge, Write, SaveResults,
     WriteFnOutput, OutputFails, Sink, WriteFails, Publish, Unpublish, RenderRuns

(* Command lines without --tag, which --save applies to the function that   *)
(* is saved but not to the one that is run, and without arguments of a kind *)
(* of their own, which are saved as a ConfigMap.                            *)
PlainLines ==
  \A l \in Lines : l.save => l.fn.field.kind = "none" /\ l.fn.config # "kind"

(* The function that saveFnToKptfile writes into the pipeline is the one    *)
(* that was evaluated: a render resolves its image to the one that ran.     *)
THEOREM SavedIsEvaluatedHolds ==
  ASSUME PlainLines
  PROVE  Spec => SavedIsEvaluated
  <1> DEFINE A == pc = "save" /\ pkg[Kptfile] # None =>
       \E i \in DOMAIN pipeline'[flags.type] :
         LET fn == pipeline'[flags.type][i] IN
         /\ fn.kind = flags.fn.kind
         /\ fn.selector = flags.fn.selector /\ fn.exclusion = flags.fn.exclusion
         /\ IF fn.kind = "image" THEN RunnerImage(fn.image, fn.field, Listers(fn.image, TRUE)) = ran
            ELSE fn.image = flags.fn.image
         /\ IF flags.fn.config = "sibling" THEN ~ValidPipeline'
            ELSE SameConfig(fn.config, flags.fn.config)
  <1>1. ASSUME IndInv, Next, pc = "save", pkg[Kptfile] # None
        PROVE  A
    <2>1. SaveFnToKptfile
      BY <1>1, OnlySaves
    <2> DEFINE t == flags.type
               new == UpdateFnList(pipeline[t], flags.fn)
               saved == NewFunction(flags.fn)
    <2>2. /\ flags \in Lines /\ flags.fn \in Functions0 /\ flags.save /\ t \in {"mutator", "validator"}
          /\ pipeline' = [pipeline EXCEPT ![t] = new]
      BY <1>1, <2>1, SavedList
    <2>3. pipeline \in [mutator : Seq(Functions0), validator : Seq(Functions0)]
          /\ pipeline[t] \in Seq(Functions0)
      BY <1>1, <2>2 DEF IndInv, PipelineInv
    <2>4. PICK i \in DOMAIN new : new[i] = saved
      BY <2>2, <2>3, UpdatedList
    <2>5. pipeline'[t] = new
      <3> HIDE DEF new
      <3> QED BY <2>2, <2>3
    <2>6. /\ saved.kind = flags.fn.kind
          /\ flags.fn.config # "sibling" => SameConfig(saved.config, flags.fn.config)
          /\ saved.selector = flags.fn.selector /\ saved.exclusion = flags.fn.exclusion
          /\ saved.field = flags.fn.field
          /\ saved.image = IF flags.fn.kind = "image" THEN ResolveToImage(flags.fn.image)
                           ELSE flags.fn.image
          /\ flags.fn.field.kind = "none"
      BY <2>2, NewFunctionType DEF PlainLines
    <2>7. ASSUME flags.fn.kind = "image"
          PROVE  RunnerImage(saved.image, saved.field, Listers(saved.image, TRUE)) = ran
      <3>1. ran = Latest(ResolveToImage(flags.fn.image))
        BY <1>1, <2>7 DEF IndInv, RanInv, EvalImage
      <3>2. RunnerImage(saved.image, saved.field, Listers(saved.image, TRUE))
            = Latest(ResolveToImage(ResolveToImage(flags.fn.image)))
        BY <2>6, <2>7 DEF RunnerImage
      <3>3. ResolveToImage(ResolveToImage(flags.fn.image)) = ResolveToImage(flags.fn.image)
        BY <2>2 DEF Functions0, FnImages, ResolveToImage
      <3> QED BY <3>1, <3>2, <3>3
    <2> HIDE DEF new, saved
    <2>8. /\ i \in DOMAIN pipeline'[flags.type] /\ pipeline'[flags.type][i] = saved
      BY <2>4, <2>5
    <2>9. flags.fn.config = "sibling" => ~ValidPipeline'
      <3> SUFFICES ASSUME flags.fn.config = "sibling" PROVE ~ValidPipeline'
        OBVIOUS
      <3>1. saved.config = "outside"
        BY <2>2 DEF saved, NewFunction, Functions0
      <3>2. saved \in ToSet(pipeline'.mutator) \union ToSet(pipeline'.validator)
        BY <2>2, <2>8 DEF ToSet
      <3> QED BY <3>1, <3>2 DEF ValidPipeline, ValidConfigPath
    <2> QED BY <2>6, <2>7, <2>8, <2>9
  <1>2. IndInv /\ [Next]_vars => [A]_vars
    BY <1>1
  <1>3. IndInv /\ [Next]_vars => IndInv'
    BY NextStep
  <1>4. SavedIsEvaluated <=> [][A]_vars
    BY PTL DEF SavedIsEvaluated
  <1> HIDE DEF A
  <1> QED BY <1>2, <1>3, <1>4, InitInv, PTL DEF Spec

(* --save in place: what a save does to the list, position by position.     *)
LEMMA ReplacedList ==
  ASSUME NEW old \in Seq(Functions0), NEW fn \in Functions0
  PROVE  LET new == UpdateFnList(old, fn) IN
         /\ \A i \in DOMAIN old : IF SameFn(old[i], fn) THEN SameFn(new[i], fn) ELSE new[i] = old[i]
         /\ IF \E i \in DOMAIN old : SameFn(old[i], fn) THEN Len(new) = Len(old)
            ELSE Len(new) = Len(old) + 1 /\ SameFn(new[Len(new)], fn)
  <1> DEFINE new == UpdateFnList(old, fn)
  <1>0. NewFunction(fn) \in Functions0 /\ SameFn(NewFunction(fn), fn)
    BY NewFunctionType DEF SameFn
  <1>1. CASE \E i \in DOMAIN old : SameFn(old[i], fn)
    <2>1. new = [i \in 1..Len(old) |-> IF SameFn(old[i], fn) THEN NewFunction(fn) ELSE old[i]]
      BY <1>1 DEF UpdateFnList
    <2> HIDE DEF new
    <2>2. Len(new) = Len(old)
      BY <2>1
    <2>3. \A i \in DOMAIN old : IF SameFn(old[i], fn) THEN SameFn(new[i], fn) ELSE new[i] = old[i]
      BY <1>0, <2>1
    <2> QED BY <1>1, <2>2, <2>3 DEF new
  <1>2. CASE ~\E i \in DOMAIN old : SameFn(old[i], fn)
    <2>1. new = Append(old, NewFunction(fn))
      BY <1>2 DEF UpdateFnList
    <2> HIDE DEF new
    <2>2. /\ Len(new) = Len(old) + 1 /\ new[Len(new)] = NewFunction(fn)
          /\ \A i \in DOMAIN old : new[i] = old[i]
      BY <1>0, <2>1
    <2> QED BY <1>0, <1>2, <2>2 DEF new
  <1> QED BY <1>1, <1>2

(* However often a function is saved, and whatever else is in the pipeline, *)
(* it is updated where it is: no function is lost, moved or doubled         *)
(* (updateFnList).                                                          *)
THEOREM SaveReplacesHolds == Spec => SaveReplaces
  <1> DEFINE A == pc = "save" /\ pkg[Kptfile] # None =>
       LET old == pipeline[flags.type]
           new == pipeline'[flags.type]
           same(f) == f.kind = flags.fn.kind /\ f.image = NewFunction(flags.fn).image
       IN /\ \A i \in DOMAIN old : IF same(old[i]) THEN same(new[i]) ELSE new[i] = old[i]
          /\ IF \E i \in DOMAIN old : same(old[i]) THEN Len(new) = Len(old)
             ELSE Len(new) = Len(old) + 1 /\ same(new[Len(new)])
  <1>1. ASSUME IndInv, Next, pc = "save", pkg[Kptfile] # None
        PROVE  A
    <2>1. SaveFnToKptfile
      BY <1>1, OnlySaves
    <2> DEFINE t == flags.type
               old == pipeline[t]
               new == UpdateFnList(old, flags.fn)
    <2>2. /\ flags.fn \in Functions0 /\ t \in {"mutator", "validator"}
          /\ pipeline' = [pipeline EXCEPT ![t] = new]
      BY <1>1, <2>1, SavedList
    <2>3. pipeline \in [mutator : Seq(Functions0), validator : Seq(Functions0)]
          /\ old \in Seq(Functions0)
      BY <1>1, <2>2 DEF IndInv, PipelineInv
    <2>4. /\ \A i \in DOMAIN old : IF SameFn(old[i], flags.fn) THEN SameFn(new[i], flags.fn) ELSE new[i] = old[i]
          /\ IF \E i \in DOMAIN old : SameFn(old[i], flags.fn) THEN Len(new) = Len(old)
             ELSE Len(new) = Len(old) + 1 /\ SameFn(new[Len(new)], flags.fn)
      BY <2>2, <2>3, ReplacedList
    <2>5. pipeline'[t] = new
      <3> HIDE DEF new
      <3> QED BY <2>2, <2>3
    <2> HIDE DEF new, old
    <2> QED BY <2>4, <2>5 DEF SameFn, old
  <1>2. IndInv /\ [Next]_vars => [A]_vars
    BY <1>1
  <1>3. IndInv /\ [Next]_vars => IndInv'
    BY NextStep
  <1>4. SaveReplaces <=> [][A]_vars
    BY PTL DEF SaveReplaces
  <1> HIDE DEF A
  <1> QED BY <1>2, <1>3, <1>4, InitInv, PTL DEF Spec

-----------------------------------------------------------------------------
(* Lists.                                                                   *)

LEMMA NatFrom ==
  ASSUME NEW S, 0 \in S, \A n \in Nat : n \in S => n + 1 \in S
  PROVE  Nat \subseteq S
  <1> DEFINE T == Nat \ S
             R == OpToRel(<, Nat)
  <1> SUFFICES ASSUME T # {} PROVE FALSE
    OBVIOUS
  <1>1. PICK x \in T : \A y \in T : ~ (<<y, x>> \in R)
    <2> HIDE DEF T, R
    <2>1. T \subseteq Nat
      BY DEF T
    <2> QED BY <2>1, WFMin, NatLessThanWellFounded DEF R
  <1>2. x # 0 /\ x - 1 \in Nat /\ x - 1 < x
    OBVIOUS
  <1>3. x - 1 \notin S
    BY <1>2
  <1>4. <<x - 1, x>> \in R
    BY <1>2 DEF OpToRel
  <1> QED BY <1>1, <1>2, <1>3, <1>4

(* The prefixes that FlattenSeq goes through.                               *)
Concats(f, ss, n) == f = [i \in 1..n |-> IF i = 1 THEN ss[i] ELSE f[i - 1] \o ss[i]]

LEMMA ConcatsExist ==
  ASSUME NEW ss, NEW n \in Nat
  PROVE  \E f : Concats(f, ss, n + 1)
  <1> DEFINE S == {k \in Nat : \E f : Concats(f, ss, k + 1)}
  <1>1. 0 \in S
    <2> DEFINE f == [i \in 1..1 |-> ss[i]]
    <2>1. Concats(f, ss, 1)
      BY DEF Concats
    <2> QED BY <2>1
  <1>2. ASSUME NEW k \in Nat, k \in S PROVE k + 1 \in S
    <2>1. PICK f : Concats(f, ss, k + 1)
      BY <1>2
    <2> DEFINE g == [i \in 1..(k + 2) |-> IF i = k + 2 THEN f[k + 1] \o ss[i] ELSE f[i]]
    <2>2. \A i \in 1..(k + 1) : g[i] = f[i]
      OBVIOUS
    <2>3. \A i \in 1..(k + 1) : f[i] = IF i = 1 THEN ss[i] ELSE f[i - 1] \o ss[i]
      BY <2>1, Zenon DEF Concats
    <2>4. \A i \in 1..(k + 2) : g[i] = IF i = 1 THEN ss[i] ELSE g[i - 1] \o ss[i]
      <3> SUFFICES ASSUME NEW i \in 1..(k + 2)
                   PROVE  g[i] = IF i = 1 THEN ss[i] ELSE g[i - 1] \o ss[i]
        OBVIOUS
      <3>1. CASE i = k + 2
        <4>1. g[i] = f[k + 1] \o ss[i]
          BY <3>1
        <4>2. g[k + 1] = f[k + 1]
          BY <2>2
        <4> HIDE DEF g
        <4>4. i # 1 /\ i - 1 = k + 1
          BY <3>1
        <4>3. g[i - 1] = f[k + 1]
          BY <4>2, <4>4
        <4> QED BY <4>1, <4>3, <4>4
      <3>2. CASE i # k + 2
        <4>1. i \in 1..(k + 1) /\ (i # 1 => i - 1 \in 1..(k + 1))
          BY <3>2
        <4>2. g[i] = f[i] /\ (i # 1 => g[i - 1] = f[i - 1])
          BY <2>2, <4>1
        <4>3. f[i] = IF i = 1 THEN ss[i] ELSE f[i - 1] \o ss[i]
          BY <2>3, <4>1
        <4> HIDE DEF g
        <4> QED BY <4>2, <4>3
      <3> QED BY <3>1, <3>2
    <2>5. g = [i \in 1..(k + 2) |-> IF i = 1 THEN ss[i] ELSE g[i - 1] \o ss[i]]
      <3>1. g = [i \in 1..(k + 2) |-> g[i]]
        OBVIOUS
      <3> HIDE DEF g
      <3>2. [i \in 1..(k + 2) |-> g[i]] = [i \in 1..(k + 2) |-> IF i = 1 THEN ss[i] ELSE g[i - 1] \o ss[i]]
        BY <2>4
      <3> QED BY <3>1, <3>2
    <2>6. (k + 1) + 1 = k + 2
      OBVIOUS
    <2> HIDE DEF g
    <2>7. Concats(g, ss, (k + 1) + 1)
      BY <2>5, <2>6 DEF Concats
    <2> QED BY <2>7
  <1> HIDE DEF S
  <1>3. Nat \subseteq S
    BY <1>1, <1>2, NatFrom
  <1> QED BY <1>3 DEF S

LEMMA FlattenIs ==
  ASSUME NEW ss, Len(ss) \in Nat \ {0}
  PROVE  \E f : Concats(f, ss, Len(ss)) /\ FlattenSeq(ss) = f[Len(ss)]
  <1> DEFINE f == CHOOSE f : Concats(f, ss, Len(ss))
  <1>1. Concats(f, ss, Len(ss))
    <2>1. Len(ss) - 1 \in Nat /\ (Len(ss) - 1) + 1 = Len(ss)
      OBVIOUS
    <2>2. \E g : Concats(g, ss, Len(ss))
      BY <2>1, ConcatsExist
    <2> QED BY <2>2
  <1>2. FlattenSeq(ss) = f[Len(ss)]
    BY DEF FlattenSeq, Concats
  <1> HIDE DEF f
  <1> QED BY <1>1, <1>2

LEMMA ToSetOfConcat ==
  ASSUME NEW X, NEW s \in Seq(X), NEW t \in Seq(X), NEW x
  PROVE  x \in ToSet(s \o t) <=> x \in ToSet(s) \/ x \in ToSet(t)
  <1>1. ASSUME x \in ToSet(s) PROVE x \in ToSet(s \o t)
    <2>1. PICK i \in 1..Len(s) : x = s[i]
      BY <1>1 DEF ToSet
    <2>2. i \in DOMAIN (s \o t) /\ (s \o t)[i] = s[i]
      OBVIOUS
    <2> QED BY <2>1, <2>2 DEF ToSet
  <1>2. ASSUME x \in ToSet(t) PROVE x \in ToSet(s \o t)
    <2>1. PICK i \in 1..Len(t) : x = t[i]
      BY <1>2 DEF ToSet
    <2>2. Len(s) + i \in DOMAIN (s \o t) /\ (s \o t)[Len(s) + i] = t[i]
      OBVIOUS
    <2> QED BY <2>1, <2>2 DEF ToSet
  <1>3. ASSUME x \in ToSet(s \o t) PROVE x \in ToSet(s) \/ x \in ToSet(t)
    <2>1. PICK i \in 1..(Len(s) + Len(t)) : x = (s \o t)[i]
      BY <1>3 DEF ToSet
    <2>2. CASE i <= Len(s)
      BY <2>1, <2>2 DEF ToSet
    <2>3. CASE i > Len(s)
      <3>1. i - Len(s) \in 1..Len(t) /\ x = t[i - Len(s)]
        BY <2>1, <2>3
      <3> QED BY <3>1 DEF ToSet
    <2> QED BY <2>2, <2>3
  <1> QED BY <1>1, <1>2, <1>3

LEMMA InToSet ==
  ASSUME NEW X, NEW s \in Seq(X), NEW i \in 1..Len(s)
  PROVE  s[i] \in ToSet(s)
  BY DEF ToSet

LEMMA ToSetIn ==
  ASSUME NEW X, NEW s \in Seq(X)
  PROVE  ToSet(s) \subseteq X
  BY DEF ToSet

LEMMA ConcatOne ==
  ASSUME NEW X, NEW s \in Seq(X), NEW x \in X
  PROVE  s \o <<x>> = Append(s, x) /\ s \o <<>> = s
  OBVIOUS

(* FlattenSeq has the members of all the lists.                             *)
LEMMA FlattenMembers ==
  ASSUME NEW X, NEW ss \in Seq(Seq(X))
  PROVE  /\ FlattenSeq(ss) \in Seq(X)
         /\ \A x : x \in ToSet(FlattenSeq(ss)) <=> \E i \in DOMAIN ss : x \in ToSet(ss[i])
  <1>1. CASE Len(ss) = 0
    <2>1. ss = <<>> /\ FlattenSeq(ss) = <<>>
      BY <1>1 DEF FlattenSeq
    <2>2. ToSet(<<>>) = {}
      BY DEF ToSet
    <2>3. <<>> \in Seq(X) /\ DOMAIN ss = {}
      BY <2>1
    <2> QED BY <2>1, <2>2, <2>3
  <1>2. CASE Len(ss) # 0
    <2> DEFINE n == Len(ss)
    <2>1. n \in Nat \ {0} /\ DOMAIN ss = 1..n
      BY <1>2
    <2>2. PICK f : Concats(f, ss, n) /\ FlattenSeq(ss) = f[n]
      BY <2>1, FlattenIs
    <2> HIDE DEF n
    <2> DEFINE Good(i) == /\ f[i] \in Seq(X)
                          /\ \A x : x \in ToSet(f[i]) <=> \E j \in 1..i : x \in ToSet(ss[j])
               S == {k \in Nat : k + 1 <= n => Good(k + 1)}
    <2>3. 0 \in S
      <3>1. f[1] = ss[1] /\ ss[1] \in Seq(X)
        BY <2>1, <2>2 DEF Concats
      <3>2. \A x : x \in ToSet(f[1]) <=> \E j \in 1..1 : x \in ToSet(ss[j])
        BY <3>1
      <3> QED BY <3>1, <3>2
    <2>4. ASSUME NEW k \in Nat, k \in S PROVE k + 1 \in S
      <3> SUFFICES ASSUME k + 2 <= n PROVE Good(k + 2)
        OBVIOUS
      <3> DEFINE m == k + 2
      <3>6. m \in 1..n /\ m # 1 /\ m - 1 = k + 1
        BY <2>1
      <3>7. \A i \in 1..n : f[i] = IF i = 1 THEN ss[i] ELSE f[i - 1] \o ss[i]
        BY <2>2, Zenon DEF Concats
      <3> HIDE DEF m
      <3>9. ss[m] \in Seq(X)
        BY <2>1, <3>6
      <3>10. f[m] = f[m - 1] \o ss[m]
        BY <3>6, <3>7
      <3>8. f[m] = f[k + 1] \o ss[m] /\ ss[m] \in Seq(X) /\ m \in 1..n
        BY <3>6, <3>9, <3>10
      <3>1. f[k + 2] = f[k + 1] \o ss[k + 2] /\ ss[k + 2] \in Seq(X) /\ k + 2 \in 1..n
        BY <3>8 DEF m
      <3>2. Good(k + 1)
        BY <2>1, <2>4
      <3>3. f[k + 2] \in Seq(X)
        BY <3>1, <3>2
      <3>4. \A x : x \in ToSet(f[k + 2]) <=> x \in ToSet(f[k + 1]) \/ x \in ToSet(ss[k + 2])
        BY <3>1, <3>2, ToSetOfConcat
      <3>5. ASSUME NEW x
            PROVE  x \in ToSet(f[k + 2]) <=> \E j \in 1..(k + 2) : x \in ToSet(ss[j])
        <4>1. x \in ToSet(f[k + 1]) <=> \E j \in 1..(k + 1) : x \in ToSet(ss[j])
          BY <3>2
        <4>2. 1..(k + 2) = 1..(k + 1) \union {k + 2}
          OBVIOUS
        <4> QED BY <3>4, <4>1, <4>2
      <3> QED BY <3>3, <3>5
    <2> HIDE DEF S
    <2>5. Nat \subseteq S
      BY <2>3, <2>4, NatFrom
    <2>6. n - 1 \in S /\ (n - 1) + 1 = n
      BY <2>1, <2>5
    <2>7. Good(n)
      BY <2>6 DEF S
    <2> QED BY <2>1, <2>2, <2>7
  <1> QED BY <1>1, <1>2

(* Only has the members of the list that are in S, and none twice if the    *)
(* list has none twice.                                                     *)
LEMMA OnlyIs ==
  ASSUME NEW X, NEW s \in Seq(X), NEW S
  PROVE  /\ Only(s, S) \in Seq(X)
         /\ \A x : x \in ToSet(Only(s, S)) <=> x \in ToSet(s) /\ x \in S
  <1> DEFINE ss == [i \in DOMAIN s |-> IF s[i] \in S THEN <<s[i]>> ELSE <<>>]
  <1>1. \A i \in DOMAIN s : ss[i] \in Seq(X)
    OBVIOUS
  <1>2. ss \in Seq(Seq(X)) /\ DOMAIN ss = DOMAIN s
    <2>1. DOMAIN s = 1..Len(s) /\ Len(s) \in Nat /\ DOMAIN ss = DOMAIN s
      OBVIOUS
    <2>2. ss \in [1..Len(s) -> Seq(X)]
      BY <1>1, <2>1
    <2> HIDE DEF ss
    <2> QED BY <2>1, <2>2
  <1>3. ASSUME NEW i \in DOMAIN s, NEW x PROVE x \in ToSet(ss[i]) <=> x = s[i] /\ s[i] \in S
    <2>1. CASE s[i] \in S
      <3>1. ToSet(<<s[i]>>) = {s[i]}
        BY DEF ToSet
      <3> QED BY <2>1, <3>1
    <2>2. CASE s[i] \notin S
      <3>1. ToSet(<<>>) = {}
        BY DEF ToSet
      <3> QED BY <2>2, <3>1
    <2> QED BY <2>1, <2>2
  <1>4. Only(s, S) = FlattenSeq(ss)
    BY DEF Only
  <1> HIDE DEF ss
  <1>5. FlattenSeq(ss) \in Seq(X) /\ \A x : x \in ToSet(FlattenSeq(ss)) <=> \E i \in DOMAIN ss : x \in ToSet(ss[i])
    BY <1>2, FlattenMembers
  <1>6. ASSUME NEW x PROVE x \in ToSet(FlattenSeq(ss)) <=> x \in ToSet(s) /\ x \in S
    <2>1. x \in ToSet(FlattenSeq(ss)) <=> \E i \in DOMAIN s : x = s[i] /\ s[i] \in S
      BY <1>2, <1>3, <1>5
    <2>2. x \in ToSet(s) <=> \E i \in DOMAIN s : x = s[i]
      BY DEF ToSet
    <2> QED BY <2>1, <2>2
  <1> QED BY <1>4, <1>5, <1>6

LEMMA OnlyInjective ==
  ASSUME NEW X, NEW s \in Seq(X), NEW S, IsInjective(s)
  PROVE  IsInjective(Only(s, S))
  <1> DEFINE ss == [i \in DOMAIN s |-> IF s[i] \in S THEN <<s[i]>> ELSE <<>>]
             n == Len(s)
  <1>1. Only(s, S) = FlattenSeq(ss) /\ n \in Nat /\ DOMAIN s = 1..n /\ Len(ss) = n
    BY DEF Only
  <1>2. \A i \in 1..n : ss[i] = (IF s[i] \in S THEN <<s[i]>> ELSE <<>>) /\ s[i] \in X
    BY <1>1
  <1>3. \A i, j \in 1..n : s[i] = s[j] => i = j
    BY <1>1, Zenon DEF IsInjective
  <1>4. CASE n = 0
    <2>1. FlattenSeq(ss) = ss /\ DOMAIN ss = {}
      BY <1>1, <1>4 DEF FlattenSeq
    <2> HIDE DEF ss
    <2> QED BY <1>1, <2>1 DEF IsInjective
  <1> HIDE DEF ss, n
  <1>5. CASE n # 0
    <2>2. PICK f : Concats(f, ss, n) /\ FlattenSeq(ss) = f[n]
      BY <1>1, <1>5, FlattenIs
    <2> DEFINE Good(i) == /\ f[i] \in Seq(X)
                          /\ \A x \in ToSet(f[i]) : \E j \in 1..i : x = s[j]
                          /\ IsInjective(f[i])
               T == {k \in Nat : k + 1 <= n => Good(k + 1)}
    <2>6. \A i \in 1..n : f[i] = IF i = 1 THEN ss[i] ELSE f[i - 1] \o ss[i]
      BY <2>2, Zenon DEF Concats
    <2>3. 0 \in T
      <3>1. 1 \in 1..n /\ f[1] = ss[1]
        BY <1>1, <1>5, <2>6
      <3>2. f[1] = <<s[1]>> \/ f[1] = <<>>
        BY <1>2, <3>1
      <3>3. s[1] \in X
        BY <1>2, <3>1
      <3>4. CASE f[1] = <<s[1]>>
        <4>1. ToSet(<<s[1]>>) = {s[1]} /\ <<s[1]>> \in Seq(X) /\ DOMAIN <<s[1]>> = {1}
          BY <3>3 DEF ToSet
        <4>2. IsInjective(<<s[1]>>)
          BY <4>1 DEF IsInjective
        <4>3. Good(1)
          BY <3>4, <4>1, <4>2
        <4> QED BY <4>3
      <3>5. CASE f[1] = <<>>
        <4>1. ToSet(<<>>) = {} /\ <<>> \in Seq(X) /\ DOMAIN <<>> = {}
          BY DEF ToSet
        <4>2. IsInjective(<<>>)
          BY <4>1 DEF IsInjective
        <4>3. Good(1)
          BY <3>5, <4>1, <4>2
        <4> QED BY <4>3
      <3> QED BY <3>2, <3>4, <3>5
    <2>4. ASSUME NEW k \in Nat, k \in T PROVE k + 1 \in T
      <3> SUFFICES ASSUME k + 2 <= n PROVE Good(k + 2)
        OBVIOUS
      <3> DEFINE m == k + 2
      <3>1. m \in 1..n /\ m # 1 /\ m - 1 = k + 1
        BY <1>1
      <3>2. Good(m - 1)
        BY <1>1, <2>4, <3>1
      <3> HIDE DEF m
      <3>3. f[m] = f[m - 1] \o ss[m]
        BY <2>6, <3>1
      <3>4. Good(m)
        <4>1. CASE s[m] \in S
          <5> DEFINE t == f[m - 1]  q == f[m]
          <5>1. q = Append(t, s[m]) /\ s[m] \in X /\ t \in Seq(X)
            <6>1. ss[m] = <<s[m]>> /\ s[m] \in X
              BY <1>2, <3>1, <4>1
            <6>2. t \in Seq(X) /\ q = t \o <<s[m]>>
              BY <3>2, <3>3, <6>1
            <6> HIDE DEF t, q
            <6> QED BY <6>1, <6>2, ConcatOne
          <5>2. \A j \in 1..(m - 1) : s[j] # s[m]
            BY <1>1, <1>3, <3>1
          <5>3. \A j \in 1..Len(t) : t[j] # s[m]
            <6>1. \A x \in ToSet(t) : \E j \in 1..(m - 1) : x = s[j]
              BY <3>2
            <6> HIDE DEF t
            <6>2. \A j \in 1..Len(t) : t[j] \in ToSet(t)
              BY <5>1, InToSet
            <6> QED BY <5>2, <6>1, <6>2
          <5>4. \A i, j \in 1..Len(t) : t[i] = t[j] => i = j
            <6>1. IsInjective(t) /\ DOMAIN t = 1..Len(t)
              BY <3>2, <5>1
            <6> HIDE DEF t
            <6> QED BY <6>1, Zenon DEF IsInjective
          <5>5. \A x \in ToSet(t) : \E j \in 1..(m - 1) : x = s[j]
            BY <3>2
          <5> HIDE DEF t
          <5>6. q \in Seq(X) /\ Len(q) = Len(t) + 1 /\ q[Len(t) + 1] = s[m] /\ \A j \in 1..Len(t) : q[j] = t[j]
            BY <5>1
          <5> HIDE DEF q
          <5>7. IsInjective(q)
            BY <5>1, <5>3, <5>4, <5>6 DEF IsInjective
          <5>8. ASSUME NEW x \in ToSet(q) PROVE \E j \in 1..m : x = s[j]
            <6>1. PICK i \in 1..(Len(t) + 1) : x = q[i]
              BY <5>6, <5>8 DEF ToSet
            <6>2. CASE i = Len(t) + 1
              BY <3>1, <5>6, <6>1, <6>2
            <6>3. CASE i \in 1..Len(t)
              <7>1. x \in ToSet(t)
                BY <5>1, <5>6, <6>1, <6>3 DEF ToSet
              <7> QED BY <3>1, <5>5, <7>1
            <6> QED BY <5>1, <6>2, <6>3
          <5> QED BY <5>6, <5>7, <5>8 DEF q
        <4>2. CASE s[m] \notin S
          <5>1. f[m] = f[m - 1]
            <6>1. ss[m] = <<>> /\ s[m] \in X
              BY <1>2, <3>1, <4>2
            <6> DEFINE t == f[m - 1]
            <6>2. t \in Seq(X) /\ f[m] = t \o <<>>
              BY <3>2, <3>3, <6>1
            <6> HIDE DEF t
            <6>3. f[m] = t
              BY <6>1, <6>2, ConcatOne
            <6> QED BY <6>3 DEF t
          <5> QED BY <3>1, <3>2, <5>1
        <4> QED BY <4>1, <4>2
      <3> QED BY <3>4 DEF m
    <2> HIDE DEF T
    <2>5. Nat \subseteq T
      BY <2>3, <2>4, NatFrom
    <2>7. n - 1 \in T /\ (n - 1) + 1 = n
      BY <1>1, <1>5, <2>5
    <2>8. Good(n)
      BY <2>7 DEF T
    <2> QED BY <1>1, <2>2, <2>8
  <1> QED BY <1>1, <1>4, <1>5

-----------------------------------------------------------------------------
(* Lists of nodes and the files they are written to.                        *)

Contents == [Paths -> Nat \union {None}]

Node == [path : Paths, attrs : {Attrs[p] : p \in Paths}, rev : Nat \union {None}, id : Nat \union {NoID}]

\* No two nodes of the list have the same path.
Unique(list) == \A m, n \in ToSet(list) : m.path = n.path => m = n

\* No two have the same id, and all have one.
IdsOnce(list) ==
  /\ \A n \in ToSet(list) : n.id # NoID
  /\ \A m, n \in ToSet(list) : m.id = n.id => m = n

\* The list has the files of the paths S and no other.
Lists(list, S, files) ==
  /\ list \in Seq(Node)
  /\ Unique(list)
  /\ \A n \in ToSet(list) : n.path \in S /\ n.rev = files[n.path] /\ n.attrs = Attrs[n.path]
  /\ \A p \in S : \E n \in ToSet(list) : n.path = p

LEMMA LastIn ==
  ASSUME NEW X, NEW s \in Seq(X), s # <<>>
  PROVE  Last(s) \in ToSet(s)
  <1>1. Len(s) \in 1..Len(s)
    OBVIOUS
  <1> QED BY <1>1, InToSet DEF Last

LEMMA NoneIn ==
  ASSUME NEW X, NEW s \in Seq(X), \A x : x \notin ToSet(s)
  PROVE  s = <<>>
  <1>1. Len(s) = 0
    <2> SUFFICES ASSUME Len(s) # 0 PROVE FALSE
      OBVIOUS
    <2>1. 1 \in 1..Len(s)
      OBVIOUS
    <2> QED BY <2>1, InToSet
  <1> QED BY <1>1

LEMMA FilesAt ==
  ASSUME NEW list \in Seq(Node), NEW p \in Paths
  PROVE  /\ Files(list)[p] \in Nat \union {None}
         /\ (\A n \in ToSet(list) : n.path # p) => Files(list)[p] = None
         /\ Unique(list) => \A n \in ToSet(list) : n.path = p => Files(list)[p] = n.rev
  <1> DEFINE own == Only(list, {n \in ToSet(list) : n.path = p})
  <1>1. own \in Seq(Node) /\ \A n : n \in ToSet(own) <=> n \in ToSet(list) /\ n.path = p
    BY OnlyIs
  <1>2. Files(list)[p] = IF own = <<>> THEN None ELSE Last(own).rev
    BY DEF Files
  <1> HIDE DEF own
  <1>3. ToSet(list) \subseteq Node
    BY DEF ToSet
  <1>4. CASE own = <<>>
    <2>1. ToSet(own) = {}
      BY <1>4 DEF ToSet
    <2> QED BY <1>1, <1>2, <1>4, <2>1
  <1>5. CASE own # <<>>
    <2>1. Last(own) \in ToSet(list) /\ Last(own).path = p
      BY <1>1, <1>5, LastIn
    <2>2. Last(own).rev \in Nat \union {None}
      BY <1>3, <2>1 DEF Node
    <2> QED BY <1>2, <1>5, <2>1, <2>2 DEF Unique
  <1> QED BY <1>4, <1>5

LEMMA FilesType ==
  ASSUME NEW list \in Seq(Node)
  PROVE  Files(list) \in Contents
  <1>1. Files(list) = [p \in Paths |-> Files(list)[p]]
    BY Zenon DEF Files
  <1> QED BY <1>1, FilesAt DEF Contents

(* Two lists without a common path.                                         *)
LEMMA FilesConcat ==
  ASSUME NEW a \in Seq(Node), NEW b \in Seq(Node), Unique(a), Unique(b),
         \A m \in ToSet(a), n \in ToSet(b) : m.path # n.path
  PROVE  /\ a \o b \in Seq(Node)
         /\ \A p \in Paths : Files(a \o b)[p] =
              IF \E n \in ToSet(b) : n.path = p THEN Files(b)[p] ELSE Files(a)[p]
  <1> DEFINE c == a \o b
  <1>1. c \in Seq(Node)
    OBVIOUS
  <1>2. \A n : n \in ToSet(c) <=> n \in ToSet(a) \/ n \in ToSet(b)
    BY ToSetOfConcat
  <1> HIDE DEF c
  <1>3. Unique(c)
    BY <1>2 DEF Unique
  <1>4. ASSUME NEW p \in Paths
        PROVE  Files(c)[p] = IF \E n \in ToSet(b) : n.path = p THEN Files(b)[p] ELSE Files(a)[p]
    <2>1. CASE \E n \in ToSet(b) : n.path = p
      <3>1. PICK n \in ToSet(b) : n.path = p
        BY <2>1
      <3>2. Files(b)[p] = n.rev /\ Files(c)[p] = n.rev
        BY <1>1, <1>2, <1>3, <3>1, FilesAt
      <3> QED BY <2>1, <3>2
    <2>2. CASE /\ ~ \E n \in ToSet(b) : n.path = p
               /\ \E n \in ToSet(a) : n.path = p
      <3>1. PICK n \in ToSet(a) : n.path = p
        BY <2>2
      <3>2. Files(a)[p] = n.rev /\ Files(c)[p] = n.rev
        BY <1>1, <1>2, <1>3, <3>1, FilesAt
      <3> QED BY <2>2, <3>2
    <2>3. CASE /\ ~ \E n \in ToSet(b) : n.path = p
               /\ ~ \E n \in ToSet(a) : n.path = p
      <3>1. Files(a)[p] = None
        BY <2>3, FilesAt
      <3>2. Files(c)[p] = None
        BY <1>1, <1>2, <2>3, FilesAt
      <3> QED BY <2>3, <3>1, <3>2
    <2> QED BY <2>1, <2>2, <2>3
  <1> QED BY <1>1, <1>4 DEF c

(* The package as it is read.                                               *)
LEMMA NodesList ==
  ASSUME NEW files \in Contents
  PROVE  /\ Lists(Nodes(files), {p \in Paths : files[p] # None}, files)
         /\ IsInjective(Nodes(files))
  <1> DEFINE S == {p \in Paths : files[p] # None}
             there == Only(Order, S)
             list == [i \in DOMAIN there |-> [path |-> there[i], attrs |-> Attrs[there[i]],
                                              rev |-> files[there[i]], id |-> NoID]]
  <1>1. Nodes(files) = list
    BY DEF Nodes
  <1>2. /\ there \in Seq(Paths) /\ IsInjective(there)
        /\ \A p : p \in ToSet(there) <=> p \in ToSet(Order) /\ p \in S
    BY FnEvalAssumption, OnlyIs, OnlyInjective
  <1>3. \A p : p \in ToSet(there) <=> p \in S
    BY <1>2 DEF Paths
  <1> HIDE DEF there, S
  <1>4. DOMAIN there = 1..Len(there) /\ Len(there) \in Nat
    BY <1>2
  <1>5. \A i \in DOMAIN there : there[i] \in S /\ there[i] \in Paths
    BY <1>2, <1>3 DEF ToSet
  <1>6. \A i \in DOMAIN there : list[i] \in Node
    BY <1>5 DEF Node, Contents
  <1>7. /\ DOMAIN list = DOMAIN there
        /\ \A i \in DOMAIN there : /\ list[i].path = there[i] /\ list[i].rev = files[there[i]]
                                   /\ list[i].attrs = Attrs[there[i]]
    OBVIOUS
  <1>8. list \in Seq(Node)
    <2>1. list \in [1..Len(there) -> Node]
      BY <1>4, <1>6
    <2> HIDE DEF list
    <2> QED BY <1>4, <2>1
  <1> HIDE DEF list
  <1>9. ASSUME NEW i \in DOMAIN list, NEW j \in DOMAIN list, list[i].path = list[j].path
        PROVE  i = j
    BY <1>2, <1>7, <1>9 DEF IsInjective
  <1>10. Unique(list)
    <2> SUFFICES ASSUME NEW m \in ToSet(list), NEW n \in ToSet(list), m.path = n.path PROVE m = n
      BY DEF Unique
    <2>1. PICK i \in DOMAIN list : m = list[i]
      BY DEF ToSet
    <2>2. PICK j \in DOMAIN list : n = list[j]
      BY DEF ToSet
    <2> QED BY <1>9, <2>1, <2>2
  <1>11. IsInjective(list)
    <2> SUFFICES ASSUME NEW i \in DOMAIN list, NEW j \in DOMAIN list, list[i] = list[j] PROVE i = j
      BY DEF IsInjective
    <2> QED BY <1>9
  <1>12. \A n \in ToSet(list) : n.path \in S /\ n.rev = files[n.path] /\ n.attrs = Attrs[n.path]
    <2> SUFFICES ASSUME NEW n \in ToSet(list)
                 PROVE  n.path \in S /\ n.rev = files[n.path] /\ n.attrs = Attrs[n.path]
      OBVIOUS
    <2>1. PICK i \in DOMAIN list : n = list[i]
      BY DEF ToSet
    <2> QED BY <1>5, <1>7, <2>1
  <1>13. ASSUME NEW p \in S PROVE \E n \in ToSet(list) : n.path = p
    <2>1. PICK i \in DOMAIN there : p = there[i]
      BY <1>3, <1>13 DEF ToSet
    <2>2. list[i] \in ToSet(list) /\ list[i].path = p
      BY <1>7, <2>1 DEF ToSet
    <2> QED BY <2>2
  <1>14. Lists(list, S, files)
    BY <1>8, <1>10, <1>12, <1>13 DEF Lists
  <1> QED BY <1>1, <1>11, <1>14 DEF S

LEMMA OnlyList ==
  ASSUME NEW S, NEW files, NEW list, Lists(list, S, files), NEW T, NEW T2,
         T = {n \in ToSet(list) : n.path \in T2}
  PROVE  Lists(Only(list, T), S \intersect T2, files)
  <1>1. list \in Seq(Node)
    BY DEF Lists
  <1>2. Only(list, T) \in Seq(Node) /\ \A n : n \in ToSet(Only(list, T)) <=> n \in ToSet(list) /\ n.path \in T2
    BY <1>1, OnlyIs
  <1> QED BY <1>2 DEF Lists, Unique

(* The ids of SetResourceIDs tell the nodes apart.                          *)
LEMMA SetIDs ==
  ASSUME NEW S, NEW files, NEW list, Lists(list, S, files), IsInjective(list)
  PROVE  Lists(SetResourceIDs(list), S, files) /\ IdsOnce(SetResourceIDs(list))
  <1> DEFINE new == [i \in DOMAIN list |-> [list[i] EXCEPT !.id = i - 1]]
  <1>1. list \in Seq(Node) /\ DOMAIN list = 1..Len(list) /\ Len(list) \in Nat
    BY DEF Lists
  <1>2. \A i \in DOMAIN list : list[i] \in Node /\ list[i] \in ToSet(list)
    BY <1>1 DEF ToSet
  <1>3. ASSUME NEW i \in DOMAIN list
        PROVE  /\ new[i] \in Node /\ new[i].id = i - 1 /\ new[i].path = list[i].path
               /\ new[i].rev = list[i].rev /\ new[i].attrs = list[i].attrs
    <2>1. list[i] \in Node /\ i - 1 \in Nat /\ new[i] = [list[i] EXCEPT !.id = i - 1]
      BY <1>1, <1>2
    <2> HIDE DEF new
    <2> QED BY <2>1 DEF Node
  <1>4. new \in Seq(Node) /\ DOMAIN new = DOMAIN list
    <2>1. new \in [1..Len(list) -> Node] /\ DOMAIN new = DOMAIN list
      BY <1>1, <1>3
    <2> HIDE DEF new
    <2> QED BY <1>1, <2>1
  <1>5. SetResourceIDs(list) = new
    BY DEF SetResourceIDs
  <1> HIDE DEF new
  <1>6. \A n : n \in ToSet(new) <=> \E i \in DOMAIN list : n = new[i]
    BY <1>4 DEF ToSet
  <1>7. Unique(new)
    <2> SUFFICES ASSUME NEW i \in DOMAIN list, NEW j \in DOMAIN list, new[i].path = new[j].path
                 PROVE  i = j
      BY <1>6 DEF Unique
    <2>1. list[i] = list[j]
      BY <1>2, <1>3 DEF Lists, Unique
    <2> QED BY <2>1 DEF IsInjective
  <1>8. IdsOnce(new)
    <2>1. \A n \in ToSet(new) : n.id # NoID
      BY <1>1, <1>3, <1>6, SelectionAssumption
    <2>2. ASSUME NEW i \in DOMAIN list, NEW j \in DOMAIN list, new[i].id = new[j].id
          PROVE  new[i] = new[j]
      BY <1>1, <1>3, <2>2
    <2> QED BY <1>6, <2>1, <2>2 DEF IdsOnce
  <1>9. \A n \in ToSet(new) : n.path \in S /\ n.rev = files[n.path] /\ n.attrs = Attrs[n.path]
    BY <1>2, <1>3, <1>6 DEF Lists
  <1>10. ASSUME NEW p \in S PROVE \E n \in ToSet(new) : n.path = p
    <2>1. PICK n \in ToSet(list) : n.path = p
      BY DEF Lists
    <2>2. PICK i \in DOMAIN list : n = list[i]
      BY DEF ToSet
    <2> QED BY <1>3, <1>6, <2>1, <2>2
  <1> QED BY <1>4, <1>5, <1>7, <1>8, <1>9, <1>10 DEF Lists

(* With one selector and one exclusion, either of which may be empty.       *)
LEMMA SelectOne ==
  ASSUME NEW list \in Seq(Node), NEW selector, NEW exclusion
  PROVE  LET chosen == SelectInput(list, <<selector>>, <<exclusion>>)
         IN /\ chosen \in Seq(Node)
            /\ \A n : n \in ToSet(chosen) <=> /\ n \in ToSet(list) /\ IsMatch(n, selector)
                                              /\ ~IsEmpty(exclusion) => ~IsMatch(n, exclusion)
  <1> DEFINE one == <<selector>>
             hits(n) == Only(one, {s \in ToSet(one) : IsMatch(n, s)})
             groups == [i \in DOMAIN list |-> Matching(list[i], one)]
             found == FlattenSeq(groups)
             out0 == <<exclusion>>
             chosen == Only(found, {n \in ToSet(found) : ~Excluded(n, out0)})
  <1>1. SelectInput(list, one, out0) = chosen
    <2>1. one # <<>>
      OBVIOUS
    <2> QED BY <2>1 DEF SelectInput
  <1>2. one \in Seq({selector}) /\ ToSet(one) = {selector}
    BY DEF ToSet
  <1>3. ASSUME NEW n \in Node
        PROVE  /\ Matching(n, one) \in Seq(Node)
               /\ \A x : x \in ToSet(Matching(n, one)) <=> x = n /\ IsMatch(n, selector)
    <2> DEFINE h == hits(n)
               m == [i \in DOMAIN h |-> n]
    <2>1. h \in Seq({selector}) /\ \A s : s \in ToSet(h) <=> s \in ToSet(one) /\ s \in {x \in ToSet(one) : IsMatch(n, x)}
      BY <1>2, OnlyIs
    <2>2. \A s : s \in ToSet(h) <=> s = selector /\ IsMatch(n, selector)
      BY <1>2, <2>1
    <2>3. Matching(n, one) = m
      BY DEF Matching
    <2> HIDE DEF h
    <2>4. Len(h) \in Nat /\ DOMAIN h = 1..Len(h)
      BY <2>1
    <2>5. m \in [1..Len(h) -> Node] /\ DOMAIN m = DOMAIN h /\ \A i \in DOMAIN h : m[i] = n
      BY <2>4
    <2> HIDE DEF m
    <2>6. m \in Seq(Node)
      BY <2>4, <2>5
    <2>7. (\E i : i \in DOMAIN h) <=> IsMatch(n, selector)
      BY <2>2 DEF ToSet
    <2>8. \A x : x \in ToSet(m) <=> x = n /\ IsMatch(n, selector)
      BY <2>5, <2>7 DEF ToSet
    <2> QED BY <2>3, <2>6, <2>8
  <1> HIDE DEF one
  <1>4. DOMAIN list = 1..Len(list) /\ Len(list) \in Nat /\ \A i \in DOMAIN list : list[i] \in Node
    OBVIOUS
  <1>5. groups \in [1..Len(list) -> Seq(Node)] /\ DOMAIN groups = DOMAIN list
    BY <1>3, <1>4
  <1>6. \A i \in DOMAIN list : groups[i] = Matching(list[i], one)
    OBVIOUS
  <1> HIDE DEF groups
  <1>7. groups \in Seq(Seq(Node))
    BY <1>4, <1>5
  <1>8. found \in Seq(Node) /\ \A n : n \in ToSet(found) <=> \E i \in DOMAIN groups : n \in ToSet(groups[i])
    BY <1>7, FlattenMembers
  <1> HIDE DEF found
  <1>9. ASSUME NEW n PROVE n \in ToSet(found) <=> n \in ToSet(list) /\ IsMatch(n, selector)
    <2>1. n \in ToSet(found) <=> \E i \in DOMAIN list : n = list[i] /\ IsMatch(list[i], selector)
      <3>1. n \in ToSet(found) <=> \E i \in DOMAIN list : n \in ToSet(Matching(list[i], one))
        <4>1. n \in ToSet(found) <=> \E i \in DOMAIN groups : n \in ToSet(groups[i])
          BY <1>8
        <4> QED BY <1>5, <1>6, <4>1
      <3>2. ASSUME NEW i \in DOMAIN list
            PROVE  n \in ToSet(Matching(list[i], one)) <=> n = list[i] /\ IsMatch(list[i], selector)
        BY <1>3, <1>4
      <3> QED BY <3>1, <3>2
    <2>2. n \in ToSet(list) <=> \E i \in DOMAIN list : n = list[i]
      BY DEF ToSet
    <2> QED BY <2>1, <2>2
  <1>10. \A n : Excluded(n, out0) <=> ~IsEmpty(exclusion) /\ IsMatch(n, exclusion)
    <2>1. ToSet(out0) = {exclusion}
      BY DEF ToSet
    <2> QED BY <2>1 DEF Excluded
  <1> HIDE DEF out0
  <1>11. chosen \in Seq(Node) /\ \A n : n \in ToSet(chosen) <=> n \in ToSet(found) /\ n \in {x \in ToSet(found) : ~Excluded(x, out0)}
    BY <1>8, OnlyIs
  <1>12. ASSUME NEW n
         PROVE  n \in ToSet(chosen) <=> /\ n \in ToSet(list) /\ IsMatch(n, selector)
                                        /\ ~IsEmpty(exclusion) => ~IsMatch(n, exclusion)
    <2>1. n \in ToSet(chosen) <=> n \in ToSet(found) /\ ~Excluded(n, out0)
      BY <1>11
    <2>2. Excluded(n, out0) <=> ~IsEmpty(exclusion) /\ IsMatch(n, exclusion)
      BY <1>10
    <2>3. n \in ToSet(found) <=> n \in ToSet(list) /\ IsMatch(n, selector)
      BY <1>9
    <2> HIDE DEF chosen, found
    <2> QED BY <2>1, <2>2, <2>3
  <1> QED BY <1>1, <1>11, <1>12 DEF one, out0

(* MergeWithInput: what was not chosen, and what the function returned.   *)
LEMMA Merged ==
  ASSUME NEW in \in Seq(Node), NEW sel \in Seq(Node), NEW o \in Seq(Node),
         ToSet(sel) \subseteq ToSet(in), IdsOnce(in),
         \A n \in ToSet(o) : n.id = NoID \/ \E m \in ToSet(sel) : m.id = n.id,
         \A m, n \in ToSet(o) : m.id = n.id /\ m.id # NoID => m = n
  PROVE  LET r == MergeWithInput(o, sel, in)
         IN /\ r \in Seq(Node)
            /\ \A n : n \in ToSet(r) <=> \/ n \in ToSet(in) /\ n \notin ToSet(sel)
                                         \/ n \in ToSet(o)
  <1> DEFINE kept == Only(in, {n \in ToSet(in) : PresentIn(n, sel) => PresentIn(n, o)})
             Put(n) == IF PresentIn(n, sel) THEN NodeWithResourceID(n.id, o) ELSE n
             back == [i \in DOMAIN kept |-> IF PresentIn(kept[i], sel) THEN NodeWithResourceID(kept[i].id, o)
                                            ELSE kept[i]]
             more == Generated(o)
  <1>1. MergeWithInput(o, sel, in) = back \o more
    BY DEF MergeWithInput
  <1>2. /\ kept \in Seq(Node)
        /\ \A n : n \in ToSet(kept) <=> n \in ToSet(in) /\ (PresentIn(n, sel) => PresentIn(n, o))
    BY OnlyIs
  <1>3. more \in Seq(Node) /\ \A n : n \in ToSet(more) <=> n \in ToSet(o) /\ n.id = NoID
    BY OnlyIs DEF Generated
  <1>4. \A n \in ToSet(in) : PresentIn(n, sel) <=> n \in ToSet(sel)
    BY DEF PresentIn, IdsOnce
  <1>5. ASSUME NEW n, PresentIn(n, o)
        PROVE  NodeWithResourceID(n.id, o) \in ToSet(o) /\ NodeWithResourceID(n.id, o).id = n.id
    <2> DEFINE I == {i \in DOMAIN o : o[i].id = n.id}
               First(i) == o[i].id = n.id /\ \A j \in 1..(i - 1) : o[j].id # n.id
               k == CHOOSE i \in DOMAIN o : First(i)
    <2>1. \E i \in DOMAIN o : First(i)
      <3> SUFFICES ASSUME \A i \in DOMAIN o : ~First(i) PROVE FALSE
        OBVIOUS
      <3>1. DOMAIN o = 1..Len(o) /\ Len(o) \in Nat
        OBVIOUS
      <3> DEFINE S == {m \in Nat : \A j \in 1..m : j \in DOMAIN o => o[j].id # n.id}
      <3>2. 0 \in S
        OBVIOUS
      <3>3. ASSUME NEW m \in Nat, m \in S PROVE m + 1 \in S
        <4>1. ASSUME m + 1 \in DOMAIN o PROVE o[m + 1].id # n.id
          <5>1. \A j \in 1..((m + 1) - 1) : o[j].id # n.id
            BY <3>1, <3>3, <4>1
          <5> QED BY <4>1, <5>1
        <4>2. \A j \in 1..(m + 1) : j = m + 1 \/ j \in 1..m
          OBVIOUS
        <4> QED BY <3>3, <4>1, <4>2
      <3> HIDE DEF S
      <3>4. Nat \subseteq S
        BY <3>2, <3>3, NatFrom
      <3>5. Len(o) \in S
        BY <3>1, <3>4
      <3>6. \A j \in DOMAIN o : o[j].id # n.id
        BY <3>1, <3>5 DEF S
      <3>7. PICK x \in ToSet(o) : x.id = n.id
        BY <1>5 DEF PresentIn
      <3>8. PICK j \in DOMAIN o : x = o[j]
        BY DEF ToSet
      <3> QED BY <3>6, <3>7, <3>8
    <2>2. k \in DOMAIN o /\ First(k)
      BY <2>1
    <2>3. NodeWithResourceID(n.id, o) = o[k]
      BY DEF NodeWithResourceID
    <2> HIDE DEF k
    <2> QED BY <2>2, <2>3 DEF ToSet
  <1>6. \A n \in ToSet(kept) : Put(n) \in Node
    <2>1. ToSet(o) \subseteq Node /\ ToSet(in) \subseteq Node
      BY ToSetIn
    <2> QED BY <1>2, <1>5, <2>1
  <1> HIDE DEF kept, more
  <1>7. DOMAIN kept = 1..Len(kept) /\ Len(kept) \in Nat /\ \A i \in DOMAIN kept : kept[i] \in ToSet(kept)
    BY <1>2 DEF ToSet
  <1>8. DOMAIN back = DOMAIN kept /\ \A i \in DOMAIN kept : back[i] = Put(kept[i])
    OBVIOUS
  <1>9. back \in [1..Len(kept) -> Node]
    BY <1>6, <1>7
  <1> HIDE DEF back
  <1>10. back \in Seq(Node)
    BY <1>7, <1>9
  <1>11. \A n : n \in ToSet(back) <=> \E m \in ToSet(kept) : n = Put(m)
    <2>1. \A n : n \in ToSet(back) <=> \E i \in DOMAIN kept : n = Put(kept[i])
      BY <1>8 DEF ToSet
    <2>2. \A m : m \in ToSet(kept) <=> \E i \in DOMAIN kept : m = kept[i]
      BY DEF ToSet
    <2> HIDE DEF Put
    <2> QED BY <2>1, <2>2
  <1>12. ASSUME NEW n
         PROVE  n \in ToSet(back) <=> \/ n \in ToSet(in) /\ n \notin ToSet(sel)
                                      \/ n \in ToSet(o) /\ n.id # NoID
    <2>1. ASSUME NEW m \in ToSet(kept), n = Put(m)
          PROVE  \/ n \in ToSet(in) /\ n \notin ToSet(sel)
                 \/ n \in ToSet(o) /\ n.id # NoID
      <3>1. m \in ToSet(in) /\ m.id # NoID
        BY <1>2 DEF IdsOnce
      <3>2. CASE PresentIn(m, sel)
        <4>1. PresentIn(m, o)
          BY <1>2, <3>2
        <4>2. n = NodeWithResourceID(m.id, o)
          BY <2>1, <3>2
        <4> QED BY <1>5, <3>1, <4>1, <4>2
      <3>3. CASE ~PresentIn(m, sel)
        <4>1. n = m
          BY <2>1, <3>3
        <4> QED BY <1>4, <3>1, <3>3, <4>1
      <3> QED BY <3>2, <3>3
    <2>2. ASSUME n \in ToSet(in), n \notin ToSet(sel) PROVE n \in ToSet(back)
      <3>1. ~PresentIn(n, sel)
        BY <1>4, <2>2
      <3>2. n \in ToSet(kept) /\ Put(n) = n
        BY <1>2, <2>2, <3>1
      <3> HIDE DEF Put
      <3> QED BY <1>11, <3>2
    <2>3. ASSUME n \in ToSet(o), n.id # NoID PROVE n \in ToSet(back)
      <3>1. PICK m \in ToSet(sel) : m.id = n.id
        BY <2>3
      <3>2. m \in ToSet(in) /\ PresentIn(m, sel) /\ PresentIn(m, o)
        BY <2>3, <3>1 DEF PresentIn
      <3>3. m \in ToSet(kept) /\ Put(m) = NodeWithResourceID(m.id, o)
        BY <1>2, <3>2
      <3>4. NodeWithResourceID(m.id, o) \in ToSet(o) /\ NodeWithResourceID(m.id, o).id = n.id
        BY <1>5, <3>1, <3>2
      <3>5. NodeWithResourceID(m.id, o) = n
        BY <2>3, <3>4
      <3> HIDE DEF Put
      <3> QED BY <1>11, <3>3, <3>5
    <2> HIDE DEF Put
    <2> QED BY <1>11, <2>1, <2>2, <2>3
  <1>13. \A n : n \in ToSet(back \o more) <=> n \in ToSet(back) \/ n \in ToSet(more)
    BY <1>3, <1>10, ToSetOfConcat
  <1>14. back \o more \in Seq(Node)
    BY <1>3, <1>10
  <1>15. ASSUME NEW n
         PROVE  n \in ToSet(back \o more) <=> \/ n \in ToSet(in) /\ n \notin ToSet(sel)
                                              \/ n \in ToSet(o)
    BY <1>3, <1>12, <1>13
  <1> QED BY <1>1, <1>14, <1>15

(* Without their ids the nodes are the same files.                          *)
LEMMA Deleted ==
  ASSUME NEW list \in Seq(Node), Unique(list)
  PROVE  LET new == DeleteResourceIDs(list)
         IN /\ new \in Seq(Node) /\ Unique(new)
            /\ \A n \in ToSet(new) : \E m \in ToSet(list) : m.path = n.path
            /\ \A p \in Paths : Files(new)[p] = Files(list)[p]
  <1> DEFINE new == [i \in DOMAIN list |-> [list[i] EXCEPT !.id = NoID]]
  <1>1. DOMAIN list = 1..Len(list) /\ Len(list) \in Nat /\ \A i \in DOMAIN list : list[i] \in Node
    OBVIOUS
  <1>2. ASSUME NEW i \in DOMAIN list
        PROVE  new[i] \in Node /\ new[i].path = list[i].path /\ new[i].rev = list[i].rev
    <2>1. new[i] = [list[i] EXCEPT !.id = NoID] /\ list[i] \in Node
      BY <1>1
    <2> HIDE DEF new
    <2> QED BY <2>1 DEF Node
  <1>3. new \in [1..Len(list) -> Node] /\ DOMAIN new = DOMAIN list
    BY <1>1, <1>2
  <1>4. \A i, j \in DOMAIN list : list[i] = list[j] => new[i] = new[j]
    OBVIOUS
  <1>5. DeleteResourceIDs(list) = new
    BY DEF DeleteResourceIDs
  <1> HIDE DEF new
  <1>6. new \in Seq(Node)
    BY <1>1, <1>3
  <1>7. \A n : n \in ToSet(new) <=> \E i \in DOMAIN list : n = new[i]
    BY <1>3 DEF ToSet
  <1>8. \A i \in DOMAIN list : list[i] \in ToSet(list)
    BY DEF ToSet
  <1>9. Unique(new)
    <2> SUFFICES ASSUME NEW i \in DOMAIN list, NEW j \in DOMAIN list, new[i].path = new[j].path
                 PROVE  new[i] = new[j]
      BY <1>7 DEF Unique
    <2>1. list[i] = list[j]
      BY <1>2, <1>8 DEF Unique
    <2> QED BY <1>4, <2>1
  <1>10. \A n \in ToSet(new) : \E m \in ToSet(list) : m.path = n.path
    BY <1>2, <1>7, <1>8
  <1>11. ASSUME NEW p \in Paths PROVE Files(new)[p] = Files(list)[p]
    <2>1. CASE \E i \in DOMAIN list : list[i].path = p
      <3>1. PICK i \in DOMAIN list : list[i].path = p
        BY <2>1
      <3>2. new[i] \in ToSet(new) /\ new[i].path = p /\ new[i].rev = list[i].rev
        BY <1>2, <1>7, <3>1
      <3>3. Files(new)[p] = new[i].rev
        BY <1>6, <1>9, <3>2, FilesAt
      <3>4. Files(list)[p] = list[i].rev
        BY <1>8, <3>1, FilesAt
      <3> QED BY <3>2, <3>3, <3>4
    <2>2. CASE \A i \in DOMAIN list : list[i].path # p
      <3>1. \A n \in ToSet(list) : n.path # p
        BY <2>2 DEF ToSet
      <3>2. \A n \in ToSet(new) : n.path # p
        BY <1>10, <3>1
      <3>3. Files(list)[p] = None
        BY <3>1, FilesAt
      <3>4. Files(new)[p] = None
        BY <1>6, <3>2, FilesAt
      <3> QED BY <3>3, <3>4
    <2> QED BY <2>1, <2>2
  <1> QED BY <1>5, <1>6, <1>9, <1>10, <1>11

-----------------------------------------------------------------------------
(* An eval changes exactly what it gave the function.                       *)

There == {p \in Paths : before[p] # None}

ConfigPaths == {p \in Paths : flags.fn.config = "inside" /\ ~flags.stdin /\ p = FnConfigFile}

Wanted ==
  {p \in Paths : /\ flags.fn.selector => "app" \in DOMAIN Attrs[p] /\ Attrs[p].app = "x"
                 /\ flags.fn.exclusion => ~("app" \in DOMAIN Attrs[p] /\ Attrs[p].app = "x")}

(* What the function returned is at paths that it was given or where there  *)
(* was nothing, and its ids, if there are any, are those it was given.      *)
Answered ==
  /\ output \in Seq(Node) /\ Unique(output) /\ answer = Files(output)
  /\ \A n \in ToSet(output), m \in ToSet(input) : n.path = m.path => m \in ToSet(selected)
  /\ \A n \in ToSet(output) : n.path = Fresh \/ \E m \in ToSet(selected) : m.path = n.path
  /\ Selective =>
       /\ \A n \in ToSet(output) : n.id = NoID \/ \E m \in ToSet(selected) : m.id = n.id
       /\ \A m, n \in ToSet(output) : m.id = n.id /\ m.id # NoID => m = n

Result == [p \in Paths |-> IF Given(p) \/ (before[p] = None /\ p = Fresh) THEN answer[p] ELSE before[p]]

(* The package is read once and written once.                               *)
PackageInv ==
  /\ evals \in Nat /\ pkg \in Contents
  /\ pc \in {"read", "filter", "config", "select", "run", "merge", "write"} => before = pkg
  /\ pc # "idle" => flags \in Lines

(* The lists on the way to the function.                                    *)
InputInv ==
  /\ pc \in {"filter", "config"} => Lists(input, There, before)
  /\ pc \in {"filter", "config", "select"} => IsInjective(input)
  /\ pc \in {"select", "run", "merge"} =>
       /\ Lists(input, There \ ConfigPaths, before)
       /\ Lists(config, There \intersect ConfigPaths, before)
  /\ pc \in {"run", "merge"} =>
       /\ Lists(selected, (There \ ConfigPaths) \intersect Wanted, before)
       /\ ToSet(selected) \subseteq ToSet(input)
       /\ IF Selective THEN IdsOnce(input) ELSE selected = input

(* And back.                                                                *)
OutputInv ==
  /\ pc = "merge" /\ failed = "" => Answered
  /\ pc = "write" => failed = "" /\ output \in Seq(Node) /\ (InPlace => Files(output) = Result)

ExactInv == PackageInv /\ InputInv /\ OutputInv /\ EvalIsExact

LEMMA ExactInit == Init => ExactInv
  <1> SUFFICES ASSUME Init PROVE ExactInv
    OBVIOUS
  <1>1. pkg \in Contents
    BY DEF Init, Contents
  <1> QED BY <1>1 DEF Init, ExactInv, PackageInv, InputInv, OutputInv, EvalIsExact

(* Steps that touch nothing of the command's data.                          *)
LEMMA OtherSteps ==
  ASSUME ExactInv, UNCHANGED <<evals, pkg, flags, pc, input, selected, output, config, failed, before, answer>>
  PROVE  ExactInv'
  BY DEF Selective, ExactInv, PackageInv, InputInv, OutputInv, EvalIsExact, There, ConfigPaths, Wanted,
     Answered, Result, Given, InPlace

(* The command is over, or has only its output and the Kptfile to write.    *)
LEMMA LateSteps ==
  ASSUME ExactInv, evals' = evals, pkg' \in Contents,
         pc' = "idle" \/ (pc' \in {"output", "save"} /\ UNCHANGED flags /\ pc # "idle")
  PROVE  ExactInv'
  BY DEF ExactInv, PackageInv, InputInv, OutputInv, EvalIsExact

LEMMA PreRunExact ==
  ASSUME ExactInv, NEW l \in Lines, PreRun(l)
  PROVE  ExactInv'
  BY FnEvalAssumption DEF PreRun, ExactInv, PackageInv, InputInv, OutputInv, EvalIsExact

LEMMA GetNodesExact ==
  ASSUME ExactInv, GetNodes
  PROVE  ExactInv'
  <1>1. /\ pc = "read" /\ pc' = "filter" /\ input' = Nodes(pkg)
        /\ UNCHANGED <<evals, pkg, flags, failed, before>>
    BY DEF GetNodes, Source
  <1>2. pkg \in Contents /\ before = pkg
    BY <1>1 DEF ExactInv, PackageInv
  <1>3. Lists(input', There', before') /\ IsInjective(input')
    BY <1>1, <1>2, NodesList DEF There
  <1>4. PackageInv'
    BY <1>1, <1>2 DEF ExactInv, PackageInv
  <1>5. InputInv'
    BY <1>1, <1>3 DEF InputInv
  <1> QED BY <1>1, <1>4, <1>5 DEF ExactInv, OutputInv, EvalIsExact

LEMMA GetFiltersExact ==
  ASSUME ExactInv, GetFilters
  PROVE  ExactInv'
  <1>1. /\ pc = "filter" /\ pc' = "config"
        /\ UNCHANGED <<evals, pkg, flags, input, failed, before>>
    BY DEF GetFilters, lists
  <1> QED BY <1>1 DEF ExactInv, PackageInv, InputInv, OutputInv, EvalIsExact, There

LEMMA ExcludeExact ==
  ASSUME ExactInv, ExcludeFnConfig
  PROVE  ExactInv'
  <1> DEFINE In == {n \in ToSet(input) : IsFnConfig(n)}
             Rest == {n \in ToSet(input) : ~IsFnConfig(n)}
             R == Paths \ ConfigPaths
  <1>1. /\ pc = "config" /\ pc' = "select"
        /\ config' = Only(input, In) /\ input' = Only(input, Rest)
        /\ UNCHANGED <<evals, pkg, flags, failed, before>>
    BY DEF ExcludeFnConfig
  <1>2. Lists(input, There, before) /\ IsInjective(input) /\ input \in Seq(Node)
    BY <1>1 DEF ExactInv, InputInv, Lists
  <1>3. \A n \in ToSet(input) : n.path \in Paths
    BY <1>2, ToSetIn DEF Node
  <1>4. /\ In = {n \in ToSet(input) : n.path \in ConfigPaths}
        /\ Rest = {n \in ToSet(input) : n.path \in R}
    BY <1>3 DEF IsFnConfig, ConfigPaths
  <1> HIDE DEF In, Rest
  <1>5. Lists(config', There \intersect ConfigPaths, before)
    BY <1>1, <1>2, <1>4, OnlyList
  <1>6. Lists(input', There \intersect R, before)
    BY <1>1, <1>2, <1>4, OnlyList
  <1>7. There \intersect R = There \ ConfigPaths
    BY DEF There
  <1>8. IsInjective(input')
    BY <1>1, <1>2, OnlyInjective
  <1>9. There' = There /\ ConfigPaths' = ConfigPaths
    BY <1>1 DEF There, ConfigPaths
  <1>10. InputInv'
    BY <1>1, <1>5, <1>6, <1>7, <1>8, <1>9 DEF InputInv
  <1> QED BY <1>1, <1>10 DEF ExactInv, PackageInv, OutputInv, EvalIsExact

(* What the selector takes has the wanted paths.                            *)
LEMMA SelectExact ==
  ASSUME ExactInv, Select
  PROVE  ExactInv'
  <1> DEFINE S == There \ ConfigPaths
  <1>1. /\ pc = "select" /\ pc' = "run"
        /\ UNCHANGED <<evals, pkg, flags, config, failed, before>>
    BY DEF Select
  <1>2. /\ Lists(input, S, before) /\ IsInjective(input)
        /\ Lists(config, There \intersect ConfigPaths, before)
    BY <1>1 DEF ExactInv, InputInv
  <1>3. There' = There /\ ConfigPaths' = ConfigPaths /\ Wanted' = Wanted
    BY <1>1 DEF There, ConfigPaths, Wanted
  <1>4. S \subseteq Paths
    BY DEF There
  <1>5. /\ Lists(input', S, before)
        /\ Lists(selected', S \intersect Wanted, before)
        /\ ToSet(selected') \subseteq ToSet(input')
        /\ IF Selective THEN IdsOnce(input') ELSE selected' = input'
    <2>1. CASE Selective
      <3> DEFINE x == IF flags.fn.selector THEN [app |-> "x"] ELSE <<>>
                 k == IF flags.fn.exclusion THEN [app |-> "x"] ELSE <<>>
      <3>1. input' = SetResourceIDs(input) /\ selected' = SelectInput(input', <<x>>, <<k>>)
        BY <1>1, <2>1 DEF Select, Selectors, Exclusions
      <3>2. Lists(input', S, before) /\ IdsOnce(input')
        BY <1>2, <3>1, SetIDs
      <3> DEFINE Takes(n) == IsMatch(n, x) /\ (~IsEmpty(k) => ~IsMatch(n, k))
      <3>3. ASSUME NEW n
            PROVE  Takes(n) <=>
                     /\ flags.fn.selector => "app" \in DOMAIN n.attrs /\ n.attrs.app = "x"
                     /\ flags.fn.exclusion => ~("app" \in DOMAIN n.attrs /\ n.attrs.app = "x")
        BY DEF IsEmpty, IsMatch
      <3> HIDE DEF x, k
      <3>4. /\ selected' \in Seq(Node)
            /\ \A n : n \in ToSet(selected') <=> n \in ToSet(input') /\ Takes(n)
        <4>1. input' \in Seq(Node)
          BY <3>2 DEF Lists
        <4> QED BY <3>1, <4>1, SelectOne
      <3> HIDE DEF Takes
      <3>5. ASSUME NEW n \in ToSet(input')
            PROVE  Takes(n) <=> n.path \in Wanted
        <4>1. n.path \in Paths /\ n.attrs = Attrs[n.path]
          BY <1>4, <3>2 DEF Lists
        <4> QED BY <3>3, <4>1 DEF Wanted
      <3>6. Lists(selected', S \intersect Wanted, before)
        BY <3>2, <3>4, <3>5 DEF Lists, Unique
      <3> QED BY <2>1, <3>2, <3>4, <3>6
    <2>2. CASE ~Selective
      <3>1. input' = input /\ selected' = input
        BY <2>2 DEF Select
      <3>2. S \intersect Wanted = S
        BY <1>4, <2>2 DEF Wanted, Selective
      <3> QED BY <1>2, <2>2, <3>1, <3>2
    <2> QED BY <2>1, <2>2
  <1>6. InputInv'
    BY <1>1, <1>2, <1>3, <1>5 DEF Selective, InputInv
  <1> QED BY <1>1, <1>6 DEF ExactInv, PackageInv, OutputInv, EvalIsExact

(* What the function is given, and when its answer fits it.                 *)
LEMMA RunState ==
  ASSUME ExactInv, pc \in {"run", "merge"}
  PROVE  /\ input \in Seq(Node) /\ Unique(input)
         /\ \A n \in ToSet(input) : n.path \in There \ ConfigPaths /\ n.rev = before[n.path]
         /\ \A p \in There \ ConfigPaths : \E n \in ToSet(input) : n.path = p
         /\ selected \in Seq(Node) /\ Unique(selected) /\ ToSet(selected) \subseteq ToSet(input)
         /\ \A n \in ToSet(selected) : n.path \in Wanted
         /\ \A p \in (There \ ConfigPaths) \intersect Wanted : \E n \in ToSet(selected) : n.path = p
         /\ config \in Seq(Node) /\ Unique(config)
         /\ \A n \in ToSet(config) : n.path \in There \intersect ConfigPaths /\ n.rev = before[n.path]
         /\ \A p \in There \intersect ConfigPaths : \E n \in ToSet(config) : n.path = p
         /\ IF Selective THEN IdsOnce(input) ELSE selected = input
  BY DEF ExactInv, InputInv, Lists

(* A step from run to merge.                                                *)
LEMMA RunStep ==
  ASSUME ExactInv, pc = "run", pc' = "merge",
         UNCHANGED <<evals, pkg, flags, input, selected, config, before>>,
         failed' = "" => Answered'
  PROVE  ExactInv'
  <1>1. There' = There /\ ConfigPaths' = ConfigPaths /\ Wanted' = Wanted
    BY DEF There, ConfigPaths, Wanted
  <1>2. InputInv'
    BY <1>1 DEF Selective, ExactInv, InputInv
  <1> QED BY <1>2 DEF ExactInv, PackageInv, OutputInv, EvalIsExact

LEMMA SkipExact ==
  ASSUME ExactInv, Skip
  PROVE  ExactInv'
  <1>1. /\ pc = "run" /\ pc' = "merge" /\ output' = selected /\ answer' = Files(selected)
        /\ UNCHANGED <<evals, pkg, flags, input, selected, config, before>>
    BY DEF Skip
  <1>2. /\ Unique(input) /\ ToSet(selected) \subseteq ToSet(input)
        /\ selected \in Seq(Node) /\ Unique(selected)
        /\ Selective => IdsOnce(input)
    BY <1>1, RunState
  <1>3. \A n \in ToSet(selected), m \in ToSet(input) : n.path = m.path => m \in ToSet(selected)
    BY <1>2 DEF Unique
  <1>4. Selective =>
          \A m, n \in ToSet(selected) : m.id = n.id /\ m.id # NoID => m = n
    BY <1>2 DEF IdsOnce
  <1>5. Answered'
    BY <1>1, <1>2, <1>3, <1>4 DEF Selective, Answered
  <1> QED BY <1>1, <1>5, RunStep

LEMMA ReturnsExact ==
  ASSUME ExactInv, pc = "run", NEW dropped \in SUBSET SelectedPaths, NEW changed, NEW added \in BOOLEAN,
         Returns(dropped, changed, added, FALSE)
  PROVE  ExactInv'
  <1> DEFINE kept == Only(selected, {n \in ToSet(selected) : n.path \notin dropped})
             Changed(n) == IF n.path \in changed THEN [n EXCEPT !.rev = evals] ELSE n
             returned == [i \in DOMAIN kept |-> IF kept[i].path \in changed THEN [kept[i] EXCEPT !.rev = evals]
                                                ELSE kept[i]]
             extra == [path |-> Fresh, attrs |-> Attrs[Fresh], rev |-> evals, id |-> NoID]
  <1>1. /\ added => Fresh \in dropped \/ \A n \in ToSet(input) : n.path # Fresh
        /\ output' = IF added THEN Append(returned, extra) ELSE returned
        /\ answer' = Files(output') /\ pc' = "merge"
        /\ UNCHANGED <<evals, pkg, flags, input, selected, config, before>>
    BY DEF Returns
  <1>2. /\ Unique(input) /\ ToSet(selected) \subseteq ToSet(input)
        /\ selected \in Seq(Node) /\ Unique(selected)
        /\ Selective => IdsOnce(input)
    BY RunState
  <1>3. kept \in Seq(Node) /\ \A n : n \in ToSet(kept) <=> n \in ToSet(selected) /\ n.path \notin dropped
    BY <1>2, OnlyIs
  <1>4. extra \in Node /\ extra.path = Fresh /\ extra.id = NoID
    BY FnEvalAssumption DEF Node, ExactInv, PackageInv
  <1> HIDE DEF kept, extra
  <1>5. DOMAIN kept = 1..Len(kept) /\ Len(kept) \in Nat /\ \A i \in DOMAIN kept : kept[i] \in Node
    BY <1>3
  <1>6. ASSUME NEW n \in Node
        PROVE  Changed(n) \in Node /\ Changed(n).path = n.path /\ Changed(n).id = n.id
    BY DEF Node, ExactInv, PackageInv
  <1>7. \A i \in DOMAIN kept : returned[i] = Changed(kept[i])
    OBVIOUS
  <1>8. returned \in [1..Len(kept) -> Node] /\ DOMAIN returned = DOMAIN kept
    BY <1>5, <1>6
  <1> HIDE DEF returned, Changed
  <1>9. returned \in Seq(Node)
    BY <1>5, <1>8
  <1>10. \A n : n \in ToSet(returned) <=> \E m \in ToSet(kept) : n = Changed(m)
    <2>1. \A n : n \in ToSet(returned) <=> \E i \in DOMAIN kept : n = Changed(kept[i])
      BY <1>7, <1>8 DEF ToSet
    <2>2. \A m : m \in ToSet(kept) <=> \E i \in DOMAIN kept : m = kept[i]
      BY DEF ToSet
    <2> QED BY <2>1, <2>2
  <1>11. /\ output' \in Seq(Node)
         /\ \A n : n \in ToSet(output') <=> n \in ToSet(returned) \/ (added /\ n = extra)
    <2>1. CASE added
      <3>1. output' = returned \o <<extra>>
        BY <1>1, <1>4, <1>9, <2>1
      <3>2. <<extra>> \in Seq(Node) /\ ToSet(<<extra>>) = {extra}
        BY <1>4 DEF ToSet
      <3>3. \A n : n \in ToSet(returned \o <<extra>>) <=> n \in ToSet(returned) \/ n \in ToSet(<<extra>>)
        BY <1>9, <3>2, ToSetOfConcat
      <3> QED BY <1>9, <2>1, <3>1, <3>2, <3>3
    <2>2. CASE ~added
      BY <1>1, <1>9, <2>2
    <2> QED BY <2>1, <2>2
  <1>12. ASSUME NEW n \in ToSet(returned)
         PROVE  \E m \in ToSet(selected) : m.path \notin dropped /\ n = Changed(m) /\ n.path = m.path /\ n.id = m.id
    <2>1. PICK m \in ToSet(kept) : n = Changed(m)
      BY <1>10
    <2>2. m \in Node
      BY <1>3, <2>1, ToSetIn
    <2> QED BY <1>3, <1>6, <2>1, <2>2
  <1>13. Unique(output')
    <2>1. ASSUME NEW m \in ToSet(returned), NEW n \in ToSet(returned), m.path = n.path PROVE m = n
      BY <1>2, <1>12, <2>1 DEF Unique
    <2>2. ASSUME added, NEW n \in ToSet(returned) PROVE n.path # Fresh
      BY <1>1, <1>2, <1>12, <2>2
    <2> QED BY <1>4, <1>11, <2>1, <2>2 DEF Unique
  <1>14. ASSUME NEW n \in ToSet(output'), NEW m \in ToSet(input), n.path = m.path
         PROVE  m \in ToSet(selected)
    <2>1. CASE n \in ToSet(returned)
      BY <1>2, <1>12, <1>14, <2>1 DEF Unique
    <2>2. CASE added /\ n = extra
      <3>1. Fresh \in SelectedPaths
        BY <1>1, <1>4, <1>14, <2>2
      <3>2. PICK k \in ToSet(selected) : k.path = Fresh
        BY <3>1 DEF SelectedPaths
      <3> QED BY <1>2, <1>4, <1>14, <2>2, <3>2 DEF Unique
    <2> QED BY <1>11, <2>1, <2>2
  <1>15. \A n \in ToSet(output') : n.path = Fresh \/ \E m \in ToSet(selected) : m.path = n.path
    BY <1>4, <1>11, <1>12
  <1>16. \A n \in ToSet(output') : n.id = NoID \/ \E m \in ToSet(selected) : m.id = n.id
    BY <1>4, <1>11, <1>12
  <1>17. ASSUME Selective, NEW m \in ToSet(output'), NEW n \in ToSet(output'), m.id = n.id, m.id # NoID
         PROVE  m = n
    <2>1. m \in ToSet(returned) /\ n \in ToSet(returned)
      BY <1>4, <1>11, <1>17
    <2> QED BY <1>2, <1>12, <1>17, <2>1 DEF IdsOnce
  <1>18. Answered'
    BY <1>1, <1>11, <1>13, <1>14, <1>15, <1>16, <1>17 DEF Selective, Answered
  <1> QED BY <1>1, <1>18, RunStep

LEMMA FailedRunExact ==
  ASSUME ExactInv, RuntimeUnavailable \/ RunFails \/ Rejected
  PROVE  ExactInv'
  <1>1. /\ pc = "run" /\ pc' = "merge" /\ failed' # ""
        /\ UNCHANGED <<evals, pkg, flags, input, selected, config, before>>
    BY DEF RuntimeUnavailable, RunFails, Rejected, lists
  <1> QED BY <1>1, RunStep

(* What is merged and written: the answer for what was given to the         *)
(* function and for what it generated, and the package for the rest.        *)
LEMMA MergeExact ==
  ASSUME ExactInv, Merge
  PROVE  ExactInv'
  <1>1. /\ pc = "merge" /\ pc' = IF failed = "" THEN "write" ELSE "results"
        /\ UNCHANGED <<evals, pkg, flags, failed, before, answer>>
    BY DEF Merge
  <1>2. PackageInv'
    BY <1>1 DEF ExactInv, PackageInv
  <1>3. CASE failed # ""
    BY <1>1, <1>2, <1>3 DEF ExactInv, PackageInv, InputInv, OutputInv, EvalIsExact
  <1>4. CASE failed = ""
    <2> DEFINE merged == IF Selective THEN MergeWithInput(output, selected, input) ELSE output
               base == IF Selective THEN DeleteResourceIDs(merged) ELSE merged
    <2>1. output' = base \o config
      BY DEF Merge
    <2>2. Answered
      BY <1>1, <1>4 DEF ExactInv, OutputInv
    <2>3. /\ input \in Seq(Node) /\ Unique(input)
          /\ \A n \in ToSet(input) : n.path \in There \ ConfigPaths /\ n.rev = before[n.path]
          /\ \A p \in There \ ConfigPaths : \E n \in ToSet(input) : n.path = p
          /\ selected \in Seq(Node) /\ ToSet(selected) \subseteq ToSet(input)
          /\ \A n \in ToSet(selected) : n.path \in Wanted
          /\ \A p \in (There \ ConfigPaths) \intersect Wanted : \E n \in ToSet(selected) : n.path = p
          /\ config \in Seq(Node) /\ Unique(config)
          /\ \A n \in ToSet(config) : n.path \in There \intersect ConfigPaths /\ n.rev = before[n.path]
          /\ \A p \in There \intersect ConfigPaths : \E n \in ToSet(config) : n.path = p
          /\ IF Selective THEN IdsOnce(input) ELSE selected = input
      BY <1>1, RunState
    <2>4. /\ output \in Seq(Node) /\ Unique(output) /\ answer = Files(output)
          /\ \A n \in ToSet(output), m \in ToSet(input) : n.path = m.path => m \in ToSet(selected)
          /\ \A n \in ToSet(output) : n.path = Fresh \/ \E m \in ToSet(selected) : m.path = n.path
      BY <2>2 DEF Answered
    <2>5. /\ merged \in Seq(Node)
          /\ \A n : n \in ToSet(merged) <=> \/ n \in ToSet(input) /\ n \notin ToSet(selected)
                                            \/ n \in ToSet(output)
      <3>1. CASE Selective
        BY <2>2, <2>3, <2>4, <3>1, Merged DEF Answered
      <3>2. CASE ~Selective
        BY <2>3, <2>4, <3>2
      <3> QED BY <3>1, <3>2
    <2> HIDE DEF merged
    <2>6. Unique(merged)
      BY <2>3, <2>4, <2>5 DEF Unique
    <2>7. /\ base \in Seq(Node) /\ Unique(base)
          /\ \A n \in ToSet(base) : \E m \in ToSet(merged) : m.path = n.path
          /\ \A p \in Paths : Files(base)[p] = Files(merged)[p]
      <3>1. CASE Selective
        BY <2>5, <2>6, <3>1, Deleted
      <3>2. CASE ~Selective
        BY <2>5, <2>6, <3>2
      <3> QED BY <3>1, <3>2
    <2> HIDE DEF base
    <2>8. \A n \in ToSet(merged) : n.path \notin ConfigPaths
      <3>1. Fresh \notin ConfigPaths
        BY DEF ConfigPaths, Fresh, FnConfigFile
      <3> QED BY <2>3, <2>4, <2>5, <3>1
    <2>9. \A m \in ToSet(base), n \in ToSet(config) : m.path # n.path
      BY <2>3, <2>7, <2>8
    <2>10. /\ output' \in Seq(Node)
           /\ \A p \in Paths : Files(output')[p] =
                IF \E n \in ToSet(config) : n.path = p THEN Files(config)[p] ELSE Files(base)[p]
      BY <2>1, <2>3, <2>7, <2>9, FilesConcat
    <2>11. ASSUME InPlace, NEW p \in Paths
           PROVE  Files(output')[p] = Result[p]
      <3>1. Given(p) <=> p \in (There \ ConfigPaths) \intersect Wanted
        BY <2>11, Zenon DEF Given, There, ConfigPaths, Wanted, InPlace
      <3>2. Result[p] = IF Given(p) \/ (before[p] = None /\ p = Fresh) THEN answer[p] ELSE before[p]
        BY DEF Result
      <3>3. p \in There <=> before[p] # None
        BY DEF There
      <3>4. ASSUME \A n \in ToSet(merged) : n.path = p => n \in ToSet(output)
            PROVE  Files(merged)[p] = answer[p]
        <4>1. CASE \E n \in ToSet(output) : n.path = p
          <5>1. PICK n \in ToSet(output) : n.path = p
            BY <4>1
          <5>2. Files(output)[p] = n.rev
            BY <2>4, <5>1, FilesAt
          <5>3. Files(merged)[p] = n.rev
            BY <2>5, <2>6, <5>1, FilesAt
          <5> QED BY <2>4, <5>2, <5>3
        <4>2. CASE ~\E n \in ToSet(output) : n.path = p
          <5>1. Files(output)[p] = None
            BY <2>4, <4>2, FilesAt
          <5>2. Files(merged)[p] = None
            BY <2>5, <3>4, <4>2, FilesAt
          <5> QED BY <2>4, <5>1, <5>2
        <4> QED BY <4>1, <4>2
      <3>5. CASE p \in There \intersect ConfigPaths
        <4>1. PICK n \in ToSet(config) : n.path = p /\ n.rev = before[p]
          BY <2>3, <3>5
        <4>2. Files(config)[p] = before[p]
          BY <2>3, <4>1, FilesAt
        <4> QED BY <2>10, <3>1, <3>2, <3>3, <3>5, <4>1, <4>2
      <3>6. CASE p \notin There \intersect ConfigPaths
        <4>1. Files(output')[p] = Files(merged)[p]
          BY <2>3, <2>7, <2>10, <3>6
        <4>2. CASE Given(p)
          <5>1. PICK m \in ToSet(selected) : m.path = p
            BY <2>3, <3>1, <4>2
          <5>2. \A n \in ToSet(merged) : n.path = p => n \in ToSet(output)
            BY <2>3, <2>5, <5>1 DEF Unique
          <5> QED BY <3>2, <3>4, <4>1, <4>2, <5>2
        <4>3. CASE ~Given(p) /\ before[p] # None
          <5>1. PICK m \in ToSet(input) : m.path = p /\ m.rev = before[p]
            BY <2>3, <3>3, <3>6, <4>3
          <5>2. m \in ToSet(merged)
            BY <2>3, <2>5, <3>1, <3>3, <3>6, <4>3, <5>1
          <5>3. Files(merged)[p] = before[p]
            BY <2>5, <2>6, <5>1, <5>2, FilesAt
          <5> QED BY <3>2, <4>1, <4>3, <5>3
        <4>4. CASE before[p] = None
          <5>1. \A n \in ToSet(input) : n.path # p
            BY <2>3, <3>3, <4>4
          <5>2. CASE p = Fresh
            <6>1. \A n \in ToSet(merged) : n.path = p => n \in ToSet(output)
              BY <2>5, <5>1
            <6> QED BY <3>2, <3>4, <4>1, <4>4, <5>2, <6>1
          <5>3. CASE p # Fresh
            <6>1. \A n \in ToSet(merged) : n.path # p
              BY <2>3, <2>4, <2>5, <5>1, <5>3
            <6>2. Files(merged)[p] = None
              BY <2>5, <6>1, FilesAt
            <6> QED BY <3>1, <3>2, <3>3, <4>1, <4>4, <5>3, <6>2
          <5> QED BY <5>2, <5>3
        <4> QED BY <4>2, <4>3, <4>4
      <3> QED BY <3>5, <3>6
    <2>12. Files(output') = [p \in Paths |-> Files(output')[p]]
      BY Zenon DEF Files
    <2>13. InPlace => Files(output') = Result
      <3>1. Result = [p \in Paths |-> Result[p]]
        BY Zenon DEF Result
      <3> QED BY <2>11, <2>12, <3>1
    <2>14. InPlace' = InPlace /\ Result' = Result
      BY <1>1 DEF InPlace, Result, Given
    <2>15. OutputInv'
      BY <1>1, <1>4, <2>10, <2>13, <2>14 DEF OutputInv
    <2> QED BY <1>1, <1>2, <1>4, <2>15 DEF ExactInv, InputInv, EvalIsExact
  <1> QED BY <1>3, <1>4

LEMMA WriteExact ==
  ASSUME ExactInv, Write
  PROVE  ExactInv'
  <1>1. /\ pc = "write" /\ pc' = "results" /\ pkg' = IF InPlace THEN Files(output) ELSE pkg
        /\ UNCHANGED <<evals, flags, failed, before, answer>>
    BY DEF Write
  <1>2. /\ failed = "" /\ output \in Seq(Node) /\ (InPlace => Files(output) = Result)
        /\ before = pkg /\ pkg \in Contents /\ flags \in Lines /\ evals \in Nat
    BY <1>1 DEF ExactInv, OutputInv, PackageInv
  <1>3. pkg' \in Contents
    BY <1>1, <1>2, FilesType
  <1>4. Result' = Result /\ InPlace' = InPlace
    BY <1>1 DEF Result, Given, InPlace
  <1>5. pkg' = IF InPlace THEN Result ELSE before
    BY <1>1, <1>2
  <1>6. EvalIsExact'
    BY <1>1, <1>2, <1>4, <1>5 DEF EvalIsExact, Result
  <1> QED BY <1>1, <1>2, <1>3, <1>6 DEF ExactInv, PackageInv, InputInv, OutputInv

LEMMA EndExact ==
  ASSUME ExactInv,
         \/ Fail \/ SaveResults \/ WriteFnOutput \/ OutputFails \/ SaveFnToKptfile
         \/ \E S : WriteFails(S)
  PROVE  ExactInv'
  <1>1. pkg \in Contents
    BY DEF ExactInv, PackageInv
  <1>2. CASE Fail \/ SaveResults \/ WriteFnOutput \/ OutputFails \/ SaveFnToKptfile
    BY <1>1, <1>2, LateSteps DEF Fail, SaveResults, WriteFnOutput, OutputFails, SaveFnToKptfile, End
  <1>3. CASE \E S : WriteFails(S)
    <2>1. PICK S : WriteFails(S)
      BY <1>3
    <2>2. /\ pc = "write" /\ evals' = evals /\ pc' = "idle"
          /\ pkg' = [p \in Paths |-> IF p \in S THEN Files(output)[p] ELSE pkg[p]]
      BY <2>1 DEF WriteFails, End
    <2>3. output \in Seq(Node)
      BY <2>2 DEF ExactInv, OutputInv
    <2>4. \A p \in Paths : Files(output)[p] \in Nat \union {None}
      BY <2>3, FilesAt
    <2>5. pkg' \in Contents
      BY <1>1, <2>2, <2>4 DEF Contents
    <2> QED BY <2>2, <2>5, LateSteps
  <1> QED BY <1>2, <1>3

LEMMA ExactStep ==
  ASSUME Clones = FALSE, ExactInv, [Next]_vars
  PROVE  ExactInv'
  <1>1. CASE \E l \in Lines : PreRun(l)
    BY <1>1, PreRunExact
  <1>2. CASE GetNodes \/ GetFilters \/ ExcludeFnConfig \/ Select \/ Skip
    BY <1>2, GetNodesExact, GetFiltersExact, ExcludeExact, SelectExact, SkipExact
  <1>3. CASE \E dropped \in SUBSET SelectedPaths : \E changed \in SUBSET (SelectedPaths \ dropped) :
       \E added \in BOOLEAN, copied \in {FALSE, Clones} :
         ContainerRun(dropped, changed, added, copied) \/ ExecRun(dropped, changed, added, copied)
    <2>1. PICK dropped \in SUBSET SelectedPaths : \E changed \in SUBSET (SelectedPaths \ dropped) :
           \E added \in BOOLEAN, copied \in {FALSE, Clones} :
             pc = "run" /\ Returns(dropped, changed, added, copied)
      BY <1>3, Zenon DEF ContainerRun, ExecRun
    <2>2. PICK changed \in SUBSET (SelectedPaths \ dropped), added \in BOOLEAN, copied \in {FALSE, Clones} :
             pc = "run" /\ Returns(dropped, changed, added, copied)
      BY <2>1, Zenon
    <2>3. copied = FALSE
      OBVIOUS
    <2>4. pc = "run" /\ Returns(dropped, changed, added, FALSE)
      BY <2>2, <2>3
    <2> QED BY <2>4, ReturnsExact
  <1>4. CASE RuntimeUnavailable \/ RunFails \/ Rejected
    BY <1>4, FailedRunExact
  <1>5. CASE Merge \/ Write
    BY <1>5, MergeExact, WriteExact
  <1>6. CASE \/ Fail \/ SaveResults \/ WriteFnOutput \/ OutputFails \/ SaveFnToKptfile
             \/ \E S \in SUBSET Written : WriteFails(S)
    BY <1>6, EndExact
  <1>7. CASE \/ Sink \/ \E i \in Pool : Publish(i) \/ Unpublish(i)
             \/ \E fn \in ToSet(pipeline.mutator), answers \in BOOLEAN : RenderRuns(fn, answers)
             \/ UNCHANGED vars
    <2>1. UNCHANGED <<evals, pkg, flags, pc, input, selected, output, config, failed, before, answer>>
      <3>1. CASE Sink
        BY <3>1 DEF Sink, lists
      <3>2. CASE \E i \in Pool : Publish(i) \/ Unpublish(i)
        BY <3>2 DEF Publish, Unpublish, lists
      <3>3. CASE \E fn \in ToSet(pipeline.mutator), answers \in BOOLEAN : RenderRuns(fn, answers)
        <4>1. PICK fn, answers : RenderRuns(fn, answers)
          BY <3>3
        <4> QED BY <4>1 DEF RenderRuns, lists
      <3>4. CASE UNCHANGED vars
        BY <3>4 DEF vars, lists
      <3> QED BY <1>7, <3>1, <3>2, <3>3, <3>4
    <2> QED BY <2>1, OtherSteps
  <1> QED BY <1>1, <1>2, <1>3, <1>4, <1>5, <1>6, <1>7 DEF Next

(* An eval that wrote the package has replaced exactly what the selectors   *)
(* gave the function by what it returned and added what it generated; one   *)
(* whose function failed has changed nothing (runFunctions,                 *)
(* MergeWithInput).  For functions that give each resource back once: one   *)
(* that copies a resource with its id annotation loses one of the two.      *)
THEOREM EvalIsExactHolds ==
  ASSUME Clones = FALSE
  PROVE  Spec => []EvalIsExact
  <1>1. ExactInv /\ [Next]_vars => ExactInv'
    BY ExactStep
  <1>2. ExactInv => EvalIsExact
    BY DEF ExactInv
  <1> QED BY <1>1, <1>2, ExactInit, PTL DEF Spec

=============================================================================
