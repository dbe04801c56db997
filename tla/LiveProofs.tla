----------------------------- MODULE LiveProofs -----------------------------
(***************************************************************************)
(* Proofs about Live, for any objects, inventories and command lines: what *)
(* a command leaves, and what spans several commands (a plan and the apply *)
(* that follows it, a package whose inventory is migrated and then used).  *)
(***************************************************************************)
EXTENDS Live, FiniteSetTheorems, TLAPS

(* Which command is at which step.                                          *)
OpInv ==
  /\ pc = "idle" =>
       /\ flags = NoFlags /\ from = "flags" /\ inv = NoInv /\ got = NoRG /\ fresh = FALSE
       /\ want = {} /\ prev = {} /\ todo = {} /\ keep = {}
  /\ pc \in {"verify", "apply"} => flags.op = "apply"
  /\ pc = "load" => flags.op \in {"apply", "destroy", "status", "plan", "migrate"}
  /\ pc = "plan" => flags.op \in {"apply", "destroy", "plan"}
  /\ pc = "events" => flags.op = "plan"
  /\ pc = "delinv" => flags.op = "destroy"
  /\ pc \in {"get", "objs", "write", "status"} => flags.op \in {"apply", "migrate"}
  /\ pc \in {"prune", "rget", "rwrite", "rstatus"} => flags.op \in {"apply", "destroy"}
  /\ pc \in {"retrieve", "kptfile", "cmobjs", "delcm", "delfile"} => flags.op = "migrate"
  /\ pc \in {"cfgread", "cfgrg", "cfgkf"} => flags.op \in {"init", "migrate"}
  /\ from # "flags" => flags.op = "migrate"
  /\ flags.op = "destroy" => want = {}

(* A command that works with an inventory has one, and has written it to    *)
(* the cluster before it writes its status.                                 *)
Working == {"verify", "plan", "events", "get", "objs", "write", "status", "apply", "prune",
            "rget", "rwrite", "rstatus", "delinv", "cfgrg", "cfgkf"}

InvInv ==
  /\ pc \in Working => inv \in Invs
  /\ pc \in {"crd", "poll"} /\ flags.op = "apply" => inv \in Invs
  /\ fresh => inv \in Invs
  /\ pc \in {"status", "rstatus"} => rgs[Key] # NoRG

(* What a command has read of its ResourceGroup is still so if nobody       *)
(* wrote since.                                                             *)
ReadInv ==
  /\ pc \in {"objs", "write", "rwrite"} /\ fresh => got = rgs[Key]
  /\ pc = "write" /\ fresh => Listed(Key) \subseteq prev
  /\ pc = "status" /\ fresh => rgs[Key].objs = prev \union want
  /\ pc = "rstatus" /\ fresh => rgs[Key].objs = keep

(* A migration has the list of the ConfigMap in hand, then on the cluster.  *)
MigrateInv ==
  flags.op = "migrate" =>
    /\ pc \in {"load", "get", "objs", "write"} => want = cm
    /\ pc \in {"status", "delcm"} /\ ~flags.dry => inv \in Invs /\ cm \subseteq Listed(Key)

(* An apply or a destroy lists all that it works on before it begins, and   *)
(* until the end.                                                           *)
ListedInv ==
  /\ flags.op = "apply" /\ pc \in {"get", "objs", "write", "status"} => todo = want /\ keep = {}
  /\ pc \in {"apply", "prune", "rget", "rwrite"} \/ (pc = "status" /\ flags.op = "apply")
       => prev \union want \subseteq Listed(Key) /\ todo \union keep \subseteq prev \union want

(* What the other inventories list.                                         *)
Others == cm \union UNION {Listed(k) : k \in Keys \ {Key}}

(* Every object with a mark is listed; and if this command will not keep    *)
(* it in the list and has not yet come to it, then another inventory does.  *)
OwnedInv ==
  /\ Owned \subseteq Recorded
  /\ pc = "status" /\ flags.op = "apply" => Owned \subseteq Others \union prev
  /\ pc = "apply" => Owned \subseteq Others \union (prev \ want) \union (todo \intersect prev) \union keep
  /\ pc = "prune" => Owned \subseteq Others \union todo \union keep
  /\ pc \in {"rget", "rwrite"} => Owned \subseteq Others \union keep
  /\ pc = "delinv" => Owned \subseteq Others

IndInv == TypeOK /\ OpInv /\ InvInv /\ ReadInv /\ MigrateInv /\ ListedInv /\ OwnedInv

-----------------------------------------------------------------------------
(* The types of what is stored, and of what a command holds in memory.      *)
StoreOK ==
  /\ ran \in 0..MaxCommands
  /\ disk \in [tmpl : BOOLEAN, kf : Invs \union {NoInv, BadInv, NoFile},
               rg : [RGFiles -> Invs \union {NoInv}], objs : SUBSET Objs, strings : BOOLEAN]
  /\ crd \in CRDStates
  /\ cm \subseteq Objs
  /\ rgs \in [Keys -> RGs \union {NoRG}]
  /\ live \in [Objs -> IDs \union {Absent, Unowned}]
  /\ planned \in [inv : Invs \union {NoInv}, want : SUBSET Objs, acts : [Objs -> ActionTypes]]

MemoryOK ==
  /\ flags \in Flags /\ pc \in PCs
  /\ from \in {"flags", "template", "kptfile"}
  /\ inv \in Invs \union {NoInv}
  /\ want \subseteq Objs /\ prev \subseteq Objs /\ todo \subseteq Objs /\ keep \subseteq Objs
  /\ got \in RGs \union {NoRG}
  /\ fresh \in BOOLEAN

LEMMA TypeParts == TypeOK <=> StoreOK /\ MemoryOK
  BY DEF TypeOK, StoreOK, MemoryOK

LEMMA NoFlagsType == NoFlags \in Flags /\ NoFlags.op = "none"
  <1>1. (CHOOSE f \in RGFiles : TRUE) \in RGFiles
    BY LiveAssumption
  <1> QED BY <1>1 DEF NoFlags, Flags

LEMMA NoPlanType ==
  NoPlan \in [inv : Invs \union {NoInv}, want : SUBSET Objs, acts : [Objs -> ActionTypes]]
  BY DEF NoPlan, ActionTypes

(* The command lines have the flags of their commands.                      *)
LEMMA LinesType ==
  ASSUME NEW f \in Invocations
  PROVE  /\ f \in Flags
         /\ f \in InitLines => f.op = "init"
         /\ f \in InstallLines => f.op = "installrg"
         /\ f \in MigrateLines => f.op = "migrate"
         /\ f \in ApplyLines => f.op = "apply"
         /\ f \in DestroyLines => f.op = "destroy"
         /\ f \in StatusLines => f.op = "status"
         /\ f \in PlanLines => f.op = "plan"
  BY InvocationsAssumption
  DEF Lines, InitLines, InstallLines, MigrateLines, ApplyLines, DestroyLines, StatusLines, PlanLines

LEMMA KeyType == inv \in Invs => Key \in Keys
  BY DEF Invs, Key, Keys

LEMMA ListedType ==
  ASSUME StoreOK, NEW k \in Keys
  PROVE  Listed(k) \subseteq Objs
  BY DEF StoreOK, Listed, RGs

(* What the other inventories list does not depend on this command's.       *)
LEMMA RecordedSplit ==
  ASSUME inv \in Invs
  PROVE  Recorded = Others \union Listed(Key)
  <1>1. Key \in Keys
    BY KeyType
  <1> QED BY <1>1 DEF Recorded, Others

(* A command that returns leaves nothing in memory to be wrong.             *)
LEMMA ReturnStep ==
  ASSUME Return, StoreOK', (Owned \subseteq Recorded)'
  PROVE  IndInv'
  <1>1. MemoryOK'
    BY NoFlagsType DEF Return, MemoryOK, PCs
  <1>2. TypeOK'
    BY <1>1 DEF StoreOK, MemoryOK, TypeOK
  <1>3. OpInv'
    BY NoFlagsType DEF Return, OpInv
  <1>4. InvInv'
    BY DEF Return, InvInv, Working
  <1>5. ReadInv' /\ MigrateInv' /\ ListedInv' /\ OwnedInv'
    BY NoFlagsType DEF Return, ReadInv, MigrateInv, ListedInv, OwnedInv
  <1> QED BY <1>2, <1>3, <1>4, <1>5 DEF IndInv

-----------------------------------------------------------------------------
(* Steps that leave the cluster's lists and objects alone *)

(* The steps at which a command has read or written a list of the cluster.  *)
Busy == {"load", "get", "objs", "write", "status", "delcm", "apply", "prune", "rget", "rwrite",
         "rstatus", "delinv"}

LEMMA QuietStep ==
  ASSUME IndInv, UNCHANGED <<cm, rgs, live>>,
         pc' \notin Busy \/ (pc' = "load" /\ flags'.op # "migrate")
  PROVE  ReadInv' /\ MigrateInv' /\ ListedInv' /\ OwnedInv'
  <1>1. (Owned \subseteq Recorded)'
    BY DEF IndInv, OwnedInv, Owned, Recorded, Listed
  <1>2. ReadInv' /\ MigrateInv' /\ ListedInv'
    BY DEF Busy, ReadInv, MigrateInv, ListedInv
  <1> QED BY <1>1, <1>2 DEF Busy, OwnedInv

LEMMA StillStored ==
  ASSUME IndInv, UNCHANGED <<ran, disk, cluster, planned>>
  PROVE  StoreOK' /\ (Owned \subseteq Recorded)'
  <1>1. StoreOK'
    BY TypeParts DEF IndInv, StoreOK, cluster
  <1> QED BY <1>1 DEF IndInv, OwnedInv, Owned, Recorded, Listed, cluster

LEMMA StopStep ==
  ASSUME IndInv, Stop
  PROVE  IndInv'
  <1>1. StoreOK'
    BY TypeParts, NoPlanType DEF IndInv, StoreOK, Stop, cluster
  <1>2. (Owned \subseteq Recorded)'
    BY DEF IndInv, OwnedInv, Owned, Recorded, Listed, Stop, cluster
  <1> QED BY <1>1, <1>2, ReturnStep DEF Stop

LEMMA BeginStep ==
  ASSUME IndInv, NEW f \in Invocations,
         \/ BeginInit(f) \/ BeginInstall(f) \/ BeginMigrate(f)
         \/ BeginApply(f) \/ BeginDestroy(f) \/ BeginStatus(f) \/ BeginPlan(f)
  PROVE  IndInv'
  <1>1. PICK l \in {"cfgread", "crd", "retrieve", "load"} :
          /\ Begin(f, l)
          /\ l = "cfgread" => f.op = "init"
          /\ l = "crd" => f.op \in {"installrg", "migrate"}
          /\ l = "retrieve" => f.op = "migrate"
          /\ l = "load" => f.op \in {"apply", "destroy", "status", "plan"}
    BY LinesType
    DEF BeginInit, BeginInstall, BeginMigrate, BeginApply, BeginDestroy, BeginStatus, BeginPlan
  <1>2. /\ pc = "idle" /\ flags' = f /\ pc' = l /\ ran' = ran + 1 /\ ran < MaxCommands
        /\ UNCHANGED <<disk, crd, cm, rgs, live, from, inv, want, prev, todo, keep, got, fresh>>
        /\ planned' \in {planned, NoPlan} /\ f \in Flags
    BY <1>1, LinesType DEF Begin, cluster, plan
  <1>3. StoreOK /\ MemoryOK /\ OpInv /\ InvInv
    BY TypeParts DEF IndInv
  <1>4. StoreOK'
    BY <1>2, <1>3, NoPlanType, LiveAssumption DEF StoreOK
  <1>5. MemoryOK'
    BY <1>2, <1>3 DEF MemoryOK, PCs
  <1>6. OpInv'
    BY <1>1, <1>2, <1>3 DEF OpInv
  <1>7. InvInv'
    BY <1>1, <1>2, <1>3 DEF OpInv, InvInv, Working
  <1>8. ReadInv' /\ MigrateInv' /\ ListedInv' /\ OwnedInv'
    BY <1>1, <1>2, QuietStep DEF Busy
  <1> QED BY <1>4, <1>5, <1>6, <1>7, <1>8, TypeParts DEF IndInv, TypeOK, StoreOK, MemoryOK

LEMMA EditStep ==
  ASSUME IndInv, NEW S \in SUBSET Objs, NEW strings \in BOOLEAN, Edit(S, strings)
  PROVE  IndInv'
  <1>1. /\ UNCHANGED <<ran, crd, cm, rgs, live, flags, pc, from, inv, want, prev, todo, keep, got, fresh>>
        /\ disk' = [disk EXCEPT !.objs = S, !.strings = strings] /\ planned' = NoPlan /\ pc = "idle"
    BY DEF Edit, cluster, plan
  <1>2. TypeOK'
    BY <1>1, NoPlanType DEF IndInv, TypeOK
  <1>3. OpInv' /\ InvInv'
    BY <1>1 DEF IndInv, OpInv, InvInv, Working
  <1>4. ReadInv' /\ MigrateInv' /\ ListedInv' /\ OwnedInv'
    BY <1>1, QuietStep DEF Busy
  <1> QED BY <1>2, <1>3, <1>4 DEF IndInv

(* A step that changes the CRD at most, and goes on to a quiet one.         *)
LEMMA GotoStep ==
  ASSUME IndInv, NEW l \in PCs \ Busy, Goto(l), crd' \in CRDStates,
         UNCHANGED <<planned, ran, disk, cm, rgs, live, inv, plan, got, fresh>>,
         l # "idle",
         l = "verify" => flags.op = "apply",
         l = "plan" => flags.op \in {"apply", "destroy", "plan"},
         l = "events" => flags.op = "plan",
         l \in {"retrieve", "kptfile", "cmobjs", "delfile"} => flags.op = "migrate",
         l \in {"cfgread", "cfgrg", "cfgkf"} => flags.op \in {"init", "migrate"},
         l \in Working => inv \in Invs,
         l \in {"crd", "poll"} /\ flags.op = "apply" => inv \in Invs
  PROVE  IndInv'
  <1>1. UNCHANGED <<planned, ran, disk, cm, rgs, live, inv, want, prev, todo, keep, got, fresh, flags, from>>
        /\ pc' = l
    BY DEF Goto, plan
  <1>2. TypeOK'
    BY <1>1 DEF IndInv, TypeOK
  <1>3. OpInv'
    BY <1>1 DEF IndInv, OpInv, Busy
  <1>4. InvInv'
    BY <1>1 DEF IndInv, InvInv, Busy, Working
  <1>5. ReadInv' /\ MigrateInv' /\ ListedInv' /\ OwnedInv'
    BY <1>1, QuietStep
  <1> QED BY <1>2, <1>3, <1>4, <1>5 DEF IndInv

(* What a command does after the CRD.                                       *)
LEMMA AfterCRDStep ==
  ASSUME IndInv, AfterCRD, pc \in {"crd", "poll"},
         UNCHANGED <<planned, ran, disk, cluster>>
  PROVE  IndInv'
  <1>1. CASE Return
    BY <1>1, StillStored, ReturnStep
  <1>2. ASSUME flags.op \in {"apply", "migrate"}, Goto(IF flags.op = "apply" THEN "plan" ELSE "retrieve"),
               UNCHANGED <<inv, plan, got, fresh>>
        PROVE  IndInv'
    <2>1. crd' \in CRDStates /\ UNCHANGED <<planned, ran, disk, cm, rgs, live, inv, plan, got, fresh>>
      BY <1>2 DEF IndInv, TypeOK, cluster
    <2>2. CASE flags.op = "apply"
      <3>1. inv \in Invs /\ Goto("plan")
        BY <1>2, <2>2 DEF IndInv, InvInv
      <3> QED BY <2>1, <2>2, <3>1, GotoStep DEF PCs, Busy
    <2>3. CASE flags.op = "migrate"
      <3>1. Goto("retrieve")
        BY <1>2, <2>3
      <3> QED BY <2>1, <2>3, <3>1, GotoStep DEF PCs, Busy, Working
    <2> QED BY <1>2, <2>2, <2>3
  <1> QED BY <1>1, <1>2 DEF AfterCRD

LEMMA CRDStep ==
  ASSUME IndInv, VerifyCRD \/ InstallRG \/ PollEnds \/ Establish
  PROVE  IndInv'
  <1>1. CASE VerifyCRD
    <2>1. /\ UNCHANGED <<planned, ran, disk, cm, rgs, live, inv, plan, got, fresh>> /\ crd' \in CRDStates
          /\ flags.op = "apply" /\ inv \in Invs
          /\ Goto("crd") \/ Goto("plan")
      BY <1>1 DEF VerifyCRD, IndInv, TypeOK, OpInv, InvInv, Working, cluster
    <2> QED BY <2>1, GotoStep DEF PCs, Busy, Working
  <1>2. CASE InstallRG
    <2>1. CASE crd = "none"
      <3>1. /\ UNCHANGED <<planned, ran, disk, cm, rgs, live, inv, plan, got, fresh>> /\ crd' \in CRDStates
            /\ Goto("poll") /\ (flags.op = "apply" => inv \in Invs)
        BY <1>2, <2>1 DEF InstallRG, IndInv, InvInv, CRDStates
      <3> QED BY <3>1, GotoStep DEF PCs, Busy, Working
    <2>2. CASE crd # "none"
      BY <1>2, <2>2, AfterCRDStep DEF InstallRG, cluster
    <2> QED BY <2>1, <2>2
  <1>3. CASE PollEnds
    BY <1>3, AfterCRDStep DEF PollEnds
  <1>4. CASE Establish
    <2>1. UNCHANGED <<planned, ran, disk, cm, rgs, live, flags, pc, from, inv, want, prev, todo, keep, got, fresh>>
          /\ crd' = "latest"
      BY <1>4 DEF Establish, plan
    <2>2. TypeOK' /\ OpInv' /\ InvInv'
      BY <2>1 DEF IndInv, TypeOK, OpInv, InvInv, CRDStates, Key
    <2>3. ReadInv' /\ MigrateInv' /\ ListedInv' /\ OwnedInv'
      BY <2>1 DEF IndInv, ReadInv, MigrateInv, ListedInv, OwnedInv, Listed, Key, Owned, Recorded, Others
    <2> QED BY <2>2, <2>3 DEF IndInv
  <1> QED BY <1>1, <1>2, <1>3, <1>4

(* A step that changes files of the package only.                           *)
LEMMA FileStep ==
  ASSUME IndInv, StoreOK', UNCHANGED <<cm, rgs, live, plan, got, fresh, flags, from>>,
         pc' \in {"cfgread", "cfgrg", "cfgkf", "cmobjs"},
         pc' = "cmobjs" => flags.op = "migrate", flags.op \in {"init", "migrate"},
         inv' \in Invs \union {NoInv}, pc' \in {"cfgrg", "cfgkf"} => inv' \in Invs,
         fresh => inv' \in Invs
  PROVE  IndInv'
  <1>1. UNCHANGED <<want, prev, todo, keep>>
    BY DEF plan
  <1>2. MemoryOK' /\ TypeOK'
    BY <1>1, TypeParts DEF IndInv, TypeOK, StoreOK, MemoryOK, PCs
  <1>3. OpInv'
    BY <1>1 DEF IndInv, OpInv
  <1>4. InvInv'
    BY DEF InvInv, Working
  <1>5. ReadInv' /\ MigrateInv' /\ ListedInv' /\ OwnedInv'
    BY QuietStep DEF Busy
  <1> QED BY <1>2, <1>3, <1>4, <1>5 DEF IndInv

LEMMA ConfigureStep ==
  ASSUME IndInv, ConfigureInventoryInfo \/ WriteRGFile \/ RewriteKptfile
  PROVE  IndInv'
  <1>0. StoreOK
    BY TypeParts DEF IndInv
  <1>1. CASE ConfigureInventoryInfo
    <2>1. inv' \in Invs
      BY <1>1, LiveAssumption DEF ConfigureInventoryInfo, Invs
    <2>2. /\ UNCHANGED <<planned, ran, disk, cluster, cm, rgs, live, plan, got, fresh, flags, from>>
          /\ pc = "cfgread" /\ pc' = "cfgrg"
      BY <1>1 DEF ConfigureInventoryInfo, Goto, cluster
    <2>3. flags.op \in {"init", "migrate"} /\ StoreOK'
      BY <2>2, StillStored DEF IndInv, OpInv
    <2> QED BY <2>1, <2>2, <2>3, FileStep
  <1>2. CASE WriteRGFile
    <2>1. /\ UNCHANGED <<planned, ran, crd, cm, rgs, live, inv, plan, got, fresh, flags, from>>
          /\ pc = "cfgrg" /\ pc' = "cfgkf" /\ disk' = [disk EXCEPT !.rg[flags.file] = inv]
      BY <1>2 DEF WriteRGFile, Goto, cluster
    <2>2. flags.op \in {"init", "migrate"} /\ inv \in Invs /\ flags.file \in RGFiles
      BY <2>1 DEF IndInv, OpInv, InvInv, TypeOK, Working, Flags
    <2>3. StoreOK'
      BY <1>0, <2>1, <2>2 DEF StoreOK
    <2> QED BY <2>1, <2>2, <2>3, FileStep
  <1>3. CASE RewriteKptfile
    <2>1. /\ pc = "cfgkf" /\ UNCHANGED <<planned, ran, crd, cm, rgs, live>>
          /\ disk' \in {disk, [disk EXCEPT !.kf = NoInv]}
      BY <1>3 DEF RewriteKptfile, cluster
    <2>2. StoreOK' /\ (Owned \subseteq Recorded)'
      <3>1. StoreOK'
        BY <1>0, <2>1 DEF StoreOK
      <3> QED BY <2>1, <3>1 DEF IndInv, OwnedInv, Owned, Recorded, Listed
    <2>3. CASE Return
      BY <2>2, <2>3, ReturnStep
    <2>4. CASE from = "template" /\ Goto("cmobjs") /\ UNCHANGED <<inv, plan, got, fresh>>
      <3>1. UNCHANGED <<flags, from>> /\ pc' = "cmobjs" /\ flags.op = "migrate" /\ inv \in Invs
        BY <2>1, <2>4 DEF Goto, IndInv, OpInv, InvInv, Working
      <3> QED BY <2>1, <2>2, <2>4, <3>1, FileStep
    <2> QED BY <1>3, <2>3, <2>4 DEF RewriteKptfile
  <1> QED BY <1>1, <1>2, <1>3

LEMMA RetrieveStep ==
  ASSUME IndInv, RetrieveConfigMap \/ MigrateKptfile \/ RetrieveInvObjs
  PROVE  IndInv'
  <1>1. CASE RetrieveConfigMap
    <2>1. /\ UNCHANGED <<planned, ran, disk, cluster, cm, rgs, live, flags, inv, plan, got, fresh>>
          /\ UNCHANGED <<want, prev, todo, keep>>
          /\ pc = "retrieve" /\ pc' \in {"cmobjs", "cfgread", "kptfile"} /\ from' \in {"template", "kptfile"}
      BY <1>1 DEF RetrieveConfigMap, cluster, plan
    <2>2. flags.op = "migrate" /\ StoreOK'
      BY <2>1, StillStored DEF IndInv, OpInv
    <2>3. TypeOK' /\ OpInv' /\ InvInv'
      <3>1. MemoryOK /\ OpInv /\ InvInv
        BY TypeParts DEF IndInv
      <3>2. MemoryOK'
        BY <2>1, <3>1 DEF MemoryOK, PCs
      <3> QED BY <2>1, <2>2, <3>1, <3>2 DEF TypeOK, StoreOK, MemoryOK, OpInv, InvInv, Working
    <2>4. ReadInv' /\ MigrateInv' /\ ListedInv' /\ OwnedInv'
      BY <2>1, QuietStep DEF Busy
    <2> QED BY <2>3, <2>4 DEF IndInv
  <1>2. CASE MigrateKptfile
    <2>1. pc = "kptfile" /\ flags.op = "migrate" /\ UNCHANGED <<planned, ran, disk, cluster>>
      BY <1>2 DEF MigrateKptfile, IndInv, OpInv
    <2>2. CASE Return
      BY <2>1, <2>2, StillStored, ReturnStep
    <2>3. CASE Goto("cfgread") /\ UNCHANGED <<inv, plan, got, fresh>>
      <3>1. UNCHANGED <<planned, ran, disk, cm, rgs, live>> /\ crd' \in CRDStates
        BY <2>1 DEF cluster, IndInv, TypeOK
      <3> QED BY <2>1, <2>3, <3>1, GotoStep DEF PCs, Busy, Working
    <2> QED BY <1>2, <2>2, <2>3 DEF MigrateKptfile
  <1>3. CASE RetrieveInvObjs
    <2>1. /\ UNCHANGED <<planned, ran, disk, cluster, crd, cm, rgs, live, flags, from, inv, prev, todo, keep, got, fresh>>
          /\ pc = "cmobjs" /\ pc' \in {"delfile", "delcm", "load"} /\ want' = cm
          /\ pc' = "delcm" => flags.dry
      BY <1>3 DEF RetrieveInvObjs, Goto, cluster
    <2>2. flags.op = "migrate" /\ StoreOK' /\ MemoryOK /\ OpInv /\ InvInv /\ cm \subseteq Objs /\ OwnedInv
      BY <2>1, StillStored, TypeParts DEF IndInv, OpInv, TypeOK
    <2>3. TypeOK' /\ OpInv' /\ InvInv'
      BY <2>1, <2>2 DEF TypeOK, StoreOK, MemoryOK, OpInv, InvInv, Working, PCs
    <2>4. ReadInv' /\ MigrateInv' /\ ListedInv' /\ OwnedInv'
      BY <2>1, <2>2 DEF ReadInv, MigrateInv, ListedInv, OwnedInv, Owned, Recorded, Listed
    <2> QED BY <2>3, <2>4 DEF IndInv
  <1> QED BY <1>1, <1>2, <1>3

(* The ConfigMap goes when its objects are in the ResourceGroup.            *)
LEMMA DeleteConfigMapStep ==
  ASSUME IndInv, DeleteConfigMapInv \/ DeleteConfigMapFile
  PROVE  IndInv'
  <1>0. StoreOK /\ MemoryOK /\ OpInv /\ InvInv /\ OwnedInv /\ MigrateInv
    BY TypeParts DEF IndInv
  <1>1. CASE DeleteConfigMapInv
    <2>1. /\ UNCHANGED <<planned, ran, disk, crd, rgs, live, flags, from, inv, want, prev, todo, keep, got, fresh>>
          /\ pc = "delcm" /\ pc' = "delfile" /\ cm' = IF flags.dry THEN cm ELSE {}
      BY <1>1 DEF DeleteConfigMapInv, Goto, plan
    <2>2. flags.op = "migrate"
      BY <1>0, <2>1 DEF OpInv
    <2>3. TypeOK' /\ OpInv' /\ InvInv'
      BY <1>0, <2>1, <2>2 DEF TypeOK, StoreOK, MemoryOK, OpInv, InvInv, Working, PCs
    <2>4. (Owned \subseteq Recorded)'
      <3>1. Owned' = Owned /\ Owned \subseteq Recorded /\ \A k : Listed(k)' = Listed(k)
        BY <1>0, <2>1 DEF OwnedInv, Owned, Listed
      <3>2. flags.dry \/ cm \subseteq Recorded'
        <4>1. ASSUME ~flags.dry
              PROVE  cm \subseteq Recorded'
          <5>1. cm \subseteq Listed(Key) /\ inv \in Invs
            BY <1>0, <2>1, <2>2, <4>1 DEF MigrateInv
          <5>2. Key \in Keys
            BY <5>1, KeyType
          <5> QED BY <5>1, <5>2, <3>1 DEF Recorded
        <4> QED BY <4>1
      <3> QED BY <2>1, <3>1, <3>2 DEF Recorded
    <2>5. ReadInv' /\ MigrateInv' /\ ListedInv' /\ OwnedInv'
      BY <2>1, <2>4 DEF ReadInv, MigrateInv, ListedInv, OwnedInv
    <2> QED BY <2>3, <2>5 DEF IndInv
  <1>2. CASE DeleteConfigMapFile
    <2>1. /\ UNCHANGED <<planned, ran, crd, cm, rgs, live>>
          /\ disk' \in {disk, [disk EXCEPT !.tmpl = FALSE]}
      BY <1>2 DEF DeleteConfigMapFile, cluster
    <2>2. StoreOK'
      BY <1>0, <2>1 DEF StoreOK
    <2>3. (Owned \subseteq Recorded)'
      BY <1>0, <2>1 DEF OwnedInv, Owned, Recorded, Listed
    <2> QED BY <1>2, <2>2, <2>3, ReturnStep DEF DeleteConfigMapFile
  <1> QED BY <1>1, <1>2

LEMMA LoadStep ==
  ASSUME IndInv, Load
  PROVE  IndInv'
  <1>0. StoreOK /\ MemoryOK /\ OpInv /\ InvInv /\ OwnedInv /\ MigrateInv
    BY TypeParts DEF IndInv
  <1>1. pc = "load" /\ UNCHANGED <<planned, ran, disk, cluster>>
    BY DEF Load
  <1>2. CASE Return
    BY <1>1, <1>2, StillStored, ReturnStep
  <1>3. ASSUME NEW i, NEW S \in {PathManifests, StreamManifests},
               IF flags.stdin THEN LoadFromStream(i, S) ELSE LoadFromDisk(i, S),
               flags.op # "status", inv' = i,
               want' = IF flags.op \in {"apply", "plan"} THEN S ELSE want,
               Goto(CASE flags.op = "apply" -> "verify"
                      [] flags.op \in {"destroy", "plan"} -> "plan"
                      [] flags.op = "migrate" -> "get"),
               UNCHANGED <<prev, todo, keep, got, fresh>>
        PROVE  IndInv'
    <2>1. i \in Invs
      BY <1>3 DEF LoadFromStream, LoadFromDisk, Valid
    <2>2. S \subseteq Objs
      BY <1>0, <1>3 DEF StoreOK, PathManifests, StreamManifests, FilterLocalConfig
    <2>3. flags.op \in {"apply", "destroy", "plan", "migrate"}
      BY <1>0, <1>1, <1>3 DEF OpInv
    <2>4. /\ UNCHANGED <<flags, from>> /\ pc' \in {"verify", "plan", "get"}
          /\ pc' = "verify" => flags.op = "apply"
          /\ pc' = "plan" => flags.op \in {"destroy", "plan"}
          /\ pc' = "get" => flags.op = "migrate"
      BY <1>3, <2>3 DEF Goto
    <2>5. StoreOK'
      BY <1>1, StillStored
    <2>6. MemoryOK'
      BY <1>0, <1>3, <2>1, <2>2, <2>4 DEF MemoryOK, PCs
    <2>7. TypeOK'
      BY <2>5, <2>6 DEF TypeOK, StoreOK, MemoryOK
    <2>8. OpInv'
      BY <1>0, <1>3, <2>4 DEF OpInv
    <2>9. InvInv'
      BY <1>3, <2>1, <2>4 DEF InvInv
    <2>10. UNCHANGED <<cm, rgs, live>>
      BY <1>1 DEF cluster
    <2>11. ReadInv' /\ MigrateInv' /\ ListedInv' /\ OwnedInv'
      BY <1>0, <1>1, <1>3, <2>4, <2>10
      DEF ReadInv, MigrateInv, ListedInv, OwnedInv, Owned, Recorded, Listed
    <2> QED BY <2>7, <2>8, <2>9, <2>11 DEF IndInv
  <1> QED BY <1>2, <1>3 DEF Load

LEMMA PlanStep ==
  ASSUME IndInv, Plan
  PROVE  IndInv'
  <1>0. StoreOK /\ MemoryOK /\ OpInv /\ InvInv /\ OwnedInv
    BY TypeParts DEF IndInv
  <1>1. pc = "plan" /\ UNCHANGED <<planned, ran, disk, cluster, crd, cm, rgs, live>>
    BY DEF Plan, cluster
  <1>2. inv \in Invs /\ Key \in Keys /\ StoreOK'
    BY <1>0, <1>1, KeyType, StillStored DEF InvInv, Working
  <1>3. CASE Return
    BY <1>1, <1>3, StillStored, ReturnStep
  <1>4. CASE /\ flags.op = "apply" /\ todo' = want /\ keep' = {} /\ Goto("get")
             /\ UNCHANGED <<inv, want, prev, got, fresh>>
    <2>1. UNCHANGED <<flags, from>> /\ pc' = "get"
      BY <1>4 DEF Goto
    <2>2. TypeOK' /\ OpInv' /\ InvInv'
      BY <1>0, <1>1, <1>2, <1>4, <2>1 DEF TypeOK, StoreOK, MemoryOK, OpInv, InvInv, PCs
    <2>3. ReadInv' /\ MigrateInv' /\ ListedInv' /\ OwnedInv'
      BY <1>0, <1>1, <1>4, <2>1 DEF ReadInv, MigrateInv, ListedInv, OwnedInv, Owned, Recorded, Listed
    <2> QED BY <2>2, <2>3 DEF IndInv
  <1>5. CASE /\ flags.op = "destroy" /\ prev' = Listed(Key) /\ todo' = Listed(Key) /\ keep' = {}
             /\ Goto("prune") /\ UNCHANGED <<inv, want, got, fresh>>
    <2>1. UNCHANGED <<flags, from>> /\ pc' = "prune" /\ Key' = Key /\ Listed(Key) \subseteq Objs /\ want = {}
      BY <1>0, <1>2, <1>5, ListedType DEF Goto, Key, OpInv
    <2>2. TypeOK' /\ OpInv' /\ InvInv'
      BY <1>0, <1>1, <1>2, <1>5, <2>1 DEF TypeOK, StoreOK, MemoryOK, OpInv, InvInv, PCs
    <2>3. ReadInv' /\ MigrateInv'
      BY <1>1, <1>5, <2>1 DEF ReadInv, MigrateInv
    <2>4. \A k : Listed(k)' = Listed(k)
      BY <1>1 DEF Listed
    <2>5. Listed(Key)' = Listed(Key)
      BY <1>1, <2>1 DEF Listed
    <2>6. ListedInv'
      BY <1>5, <2>1, <2>5 DEF ListedInv
    <2>7. Others' = Others /\ Recorded' = Recorded /\ Owned' = Owned
      BY <1>1, <2>1, <2>4 DEF Others, Recorded, Owned
    <2>8. OwnedInv'
      BY <1>0, <1>2, <1>5, <2>1, <2>7, RecordedSplit DEF OwnedInv
    <2> QED BY <2>2, <2>3, <2>6, <2>8 DEF IndInv
  <1> QED BY <1>3, <1>4, <1>5 DEF Plan

LEMMA ForetellStep ==
  ASSUME IndInv, FetchResources \/ BuildPlan \/ \E o \in Objs : DryRunEvent(o)
  PROVE  IndInv'
  <1>0. StoreOK /\ MemoryOK /\ OpInv /\ InvInv /\ OwnedInv
    BY TypeParts DEF IndInv
  <1>1. CASE FetchResources
    <2>1. /\ UNCHANGED <<planned, ran, disk, cluster, cm, rgs, live, flags, from, inv, want, prev, got, fresh>>
          /\ pc = "plan" /\ flags.op = "plan" /\ pc' = "events"
          /\ todo' = want \union {o \in Listed(Key) : live[o] # Absent}
          /\ keep' = {o \in todo' : live[o] # Absent}
      BY <1>1 DEF FetchResources, Goto, cluster
    <2>2. inv \in Invs /\ Listed(Key) \subseteq Objs /\ StoreOK'
      BY <1>0, <2>1, KeyType, ListedType, StillStored DEF InvInv, Working
    <2>3. todo' \subseteq Objs /\ keep' \subseteq Objs
      BY <1>0, <2>1, <2>2 DEF MemoryOK
    <2>4. TypeOK' /\ OpInv' /\ InvInv'
      BY <1>0, <2>1, <2>2, <2>3 DEF TypeOK, StoreOK, MemoryOK, OpInv, InvInv, PCs
    <2>5. ReadInv' /\ MigrateInv' /\ ListedInv' /\ OwnedInv'
      BY <2>1, QuietStep DEF Busy
    <2> QED BY <2>4, <2>5 DEF IndInv
  <1>2. CASE BuildPlan
    <2>1. /\ UNCHANGED <<ran, disk, crd, cm, rgs, live>>
          /\ planned' = [planned EXCEPT !.inv = inv, !.want = want]
      BY <1>2 DEF BuildPlan, cluster
    <2>2. StoreOK'
      BY <1>0, <2>1 DEF StoreOK, MemoryOK
    <2>3. (Owned \subseteq Recorded)'
      BY <1>0, <2>1 DEF OwnedInv, Owned, Recorded, Listed
    <2> QED BY <1>2, <2>2, <2>3, ReturnStep DEF BuildPlan
  <1>3. ASSUME NEW o \in Objs, DryRunEvent(o)
        PROVE  IndInv'
    <2>1. PICK type \in ActionTypes : planned' = [planned EXCEPT !.acts[o] = type]
      BY <1>3 DEF DryRunEvent, HandleApplyEvent, HandlePruneEvent, ActionTypes
    <2>2. /\ UNCHANGED <<ran, disk, crd, cm, rgs, live, flags, from, inv, want, prev, keep, got, fresh>>
          /\ pc = "events" /\ pc' = "events" /\ todo' = todo \ {o}
      BY <1>3 DEF DryRunEvent, Goto, cluster
    <2>3. planned' \in [inv : Invs \union {NoInv}, want : SUBSET Objs, acts : [Objs -> ActionTypes]]
      BY <1>0, <2>1 DEF StoreOK
    <2>4. TypeOK' /\ OpInv' /\ InvInv'
      BY <1>0, <2>2, <2>3 DEF TypeOK, StoreOK, MemoryOK, OpInv, InvInv, Working
    <2>5. ReadInv' /\ MigrateInv' /\ ListedInv' /\ OwnedInv'
      BY <2>2, QuietStep DEF Busy
    <2> QED BY <2>4, <2>5 DEF IndInv
  <1> QED BY <1>1, <1>2, <1>3

-----------------------------------------------------------------------------
(* The merge *)

(* The lists are the same while nobody writes a ResourceGroup.              *)
LEMMA SameLists ==
  ASSUME UNCHANGED <<cm, rgs, inv>>
  PROVE  /\ Key' = Key /\ Listed(Key)' = Listed(Key) /\ rgs[Key]' = rgs[Key]
         /\ Others' = Others /\ Recorded' = Recorded
  <1>1. Key' = Key /\ \A k : Listed(k)' = Listed(k)
    BY DEF Key, Listed
  <1>2. Listed(Key)' = Listed(Key)
    BY <1>1 DEF Listed
  <1>3. Others' = Others /\ Recorded' = Recorded
    BY <1>1 DEF Others, Recorded
  <1> QED BY <1>1, <1>2, <1>3

ObjsOf(rg) == IF rg = NoRG THEN {} ELSE rg.objs

(* A command writes the ResourceGroup of its inventory, and no other.       *)
LEMMA WriteRG ==
  ASSUME StoreOK, inv \in Invs, NEW new \in RGs \union {NoRG}, UNCHANGED cm,
         rgs' = [rgs EXCEPT ![Key] = new]
  PROVE  /\ rgs' \in [Keys -> RGs \union {NoRG}]
         /\ \A k \in Keys \ {Key} : Listed(k)' = Listed(k)
         /\ Recorded' = Others \union ObjsOf(new)
         /\ inv' = inv =>
              /\ Key' = Key /\ rgs[Key]' = new /\ Listed(Key)' = ObjsOf(new) /\ Others' = Others
  <1>1. Key \in Keys /\ rgs \in [Keys -> RGs \union {NoRG}]
    BY KeyType DEF StoreOK
  <1>2. rgs' \in [Keys -> RGs \union {NoRG}] /\ \A k \in Keys : rgs'[k] = IF k = Key THEN new ELSE rgs[k]
    BY <1>1
  <1>3. \A k \in Keys : Listed(k)' = IF k = Key THEN ObjsOf(new) ELSE Listed(k)
    BY <1>2 DEF Listed, ObjsOf
  <1>4. Recorded' = Others \union ObjsOf(new)
    <2>1. UNION {Listed(k)' : k \in Keys} = (UNION {Listed(k) : k \in Keys \ {Key}}) \union ObjsOf(new)
      BY <1>1, <1>3
    <2> QED BY <2>1 DEF Recorded, Others
  <1>5. ASSUME inv' = inv
        PROVE  /\ Key' = Key /\ rgs[Key]' = new /\ Listed(Key)' = ObjsOf(new) /\ Others' = Others
    <2>1. Key' = Key
      BY <1>5 DEF Key
    <2>2. rgs[Key]' = new /\ Listed(Key)' = ObjsOf(new)
      BY <1>1, <1>2, <2>1 DEF Listed, ObjsOf
    <2>3. Others' = Others
      BY <1>3, <2>1 DEF Others
    <2> QED BY <2>1, <2>2, <2>3
  <1> QED BY <1>2, <1>3, <1>4, <1>5

LEMMA GetStep ==
  ASSUME IndInv, Get \/ GetClusterObjs
  PROVE  IndInv'
  <1>0. StoreOK /\ MemoryOK /\ OpInv /\ InvInv /\ OwnedInv /\ MigrateInv /\ ReadInv /\ ListedInv
    BY TypeParts DEF IndInv
  <1>1. UNCHANGED <<planned, ran, disk, cluster, cm, rgs, live, inv, flags, from, want, todo, keep>>
        /\ pc \in {"get", "objs"} /\ pc' \in {"objs", "write"}
    BY DEF Get, GetClusterObjs, Goto, cluster, plan
  <1>2. inv \in Invs /\ Key \in Keys /\ StoreOK' /\ flags.op \in {"apply", "migrate"} /\ Listed(Key) \subseteq Objs
    BY <1>0, <1>1, StillStored, KeyType, ListedType DEF InvInv, Working, OpInv
  <1>3. got' \in RGs \union {NoRG} /\ fresh' \in BOOLEAN /\ prev' \subseteq Objs
    BY <1>0, <1>2, ZenonT(30) DEF Get, GetClusterObjs, MemoryOK, StoreOK, plan
  <1>4. TypeOK' /\ OpInv'
    BY <1>0, <1>1, <1>2, <1>3 DEF TypeOK, StoreOK, MemoryOK, OpInv, PCs
  <1>5. InvInv'
    BY <1>1, <1>2 DEF InvInv
  <1>6. MigrateInv' /\ ListedInv'
    BY <1>0, <1>1, <1>2 DEF MigrateInv, ListedInv
  <1>7. /\ Key' = Key /\ Listed(Key)' = Listed(Key) /\ rgs[Key]' = rgs[Key] /\ Recorded' = Recorded
        /\ Owned' = Owned
    BY <1>1, SameLists DEF Owned
  <1>8. OwnedInv'
    BY <1>0, <1>1, <1>7 DEF OwnedInv
  <1>9. ReadInv'
    <2>1. CASE Get
      <3>1. /\ got' = rgs[Key] /\ fresh' = TRUE /\ UNCHANGED prev
            /\ pc' = IF rgs[Key] = NoRG THEN "write" ELSE "objs"
        BY <2>1 DEF Get, Goto, plan
      <3> QED BY <1>7, <3>1 DEF ReadInv, Listed
    <2>2. CASE GetClusterObjs
      <3>1. UNCHANGED <<got, fresh>> /\ prev' = Listed(Key) /\ pc = "objs" /\ pc' = "write"
        BY <2>2 DEF GetClusterObjs, Goto
      <3> QED BY <1>0, <1>7, <3>1 DEF ReadInv
    <2> QED BY <2>1, <2>2
  <1> QED BY <1>4, <1>5, <1>6, <1>8, <1>9 DEF IndInv

(* What the merge writes: the old list and the new objects.                 *)
LEMMA MergeFacts ==
  ASSUME IndInv, Apply
  PROVE  LET new == GetObject(IF got = NoRG THEN InventoryObj ELSE got, prev \union want) IN
         /\ new \in RGs /\ new # NoRG /\ new.objs = prev \union want
         /\ inv \in Invs /\ Key \in Keys /\ got = rgs[Key]
         /\ got # NoRG => new.stat = got.stat
         /\ Listed(Key) \subseteq prev
         /\ rgs' = [rgs EXCEPT ![Key] = new]
  <1> DEFINE new == GetObject(IF got = NoRG THEN InventoryObj ELSE got, prev \union want)
  <1>0. StoreOK /\ MemoryOK /\ InvInv /\ ReadInv
    BY TypeParts DEF IndInv
  <1>1. pc = "write" /\ fresh /\ rgs' = [rgs EXCEPT ![Key] = new]
    BY DEF Apply, CanWrite
  <1>2. inv \in Invs /\ Key \in Keys /\ got = rgs[Key] /\ Listed(Key) \subseteq prev
    BY <1>0, <1>1, KeyType DEF InvInv, Working, ReadInv
  <1>3. InventoryObj \in RGs
    BY <1>2 DEF InventoryObj, RGs, Invs
  <1>4. new \in RGs /\ new.objs = prev \union want /\ (got # NoRG => new.stat = got.stat)
    BY <1>0, <1>3 DEF MemoryOK, GetObject, RGs
  <1>5. new # NoRG
    BY <1>4, NoRGAssumption
  <1> QED BY <1>1, <1>2, <1>4, <1>5

LEMMA ApplyStep ==
  ASSUME IndInv, Apply
  PROVE  IndInv'
  <1> DEFINE new == GetObject(IF got = NoRG THEN InventoryObj ELSE got, prev \union want)
  <1>0. StoreOK /\ MemoryOK /\ OpInv /\ InvInv /\ OwnedInv /\ MigrateInv /\ ReadInv /\ ListedInv
    BY TypeParts DEF IndInv
  <1>1. /\ new \in RGs /\ new # NoRG /\ new.objs = prev \union want
        /\ inv \in Invs /\ Key \in Keys /\ Listed(Key) \subseteq prev
        /\ rgs' = [rgs EXCEPT ![Key] = new]
    BY MergeFacts
  <1> HIDE DEF new
  <1>2. /\ UNCHANGED <<planned, ran, disk, crd, cm, live, inv, want, prev, todo, keep, fresh, flags, from>>
        /\ pc = "write" /\ got' \in {got, NoRG} /\ pc' \in {"status", "delcm", "apply"}
        /\ pc' = "delcm" => flags.op = "migrate"
        /\ pc' = "apply" => flags.op # "migrate"
    BY DEF Apply, AfterMerge, Goto, plan
  <1>3. flags.op \in {"apply", "migrate"}
    BY <1>0, <1>2 DEF OpInv
  <1>4. /\ rgs' \in [Keys -> RGs \union {NoRG}]
        /\ Recorded' = Others \union (prev \union want)
        /\ Key' = Key /\ rgs[Key]' = new /\ Listed(Key)' = prev \union want /\ Others' = Others
    <2>1. ObjsOf(new) = prev \union want
      BY <1>1 DEF ObjsOf
    <2> QED BY <1>0, <1>1, <1>2, <2>1, WriteRG
  <1>5. TypeOK' /\ OpInv'
    BY <1>0, <1>2, <1>3, <1>4 DEF TypeOK, StoreOK, MemoryOK, OpInv, PCs
  <1>6. InvInv'
    BY <1>1, <1>2, <1>4 DEF InvInv
  <1>7. ReadInv'
    BY <1>1, <1>2, <1>4 DEF ReadInv
  <1>8. MigrateInv'
    BY <1>0, <1>1, <1>2, <1>4 DEF MigrateInv
  <1>9. ListedInv'
    BY <1>0, <1>2, <1>3, <1>4 DEF ListedInv
  <1>10. OwnedInv'
    <2>1. Owned' = Owned /\ Owned \subseteq Others \union prev
      BY <1>0, <1>1, <1>2, RecordedSplit DEF OwnedInv, Owned
    <2>2. flags.op = "apply" => todo = want /\ keep = {}
      BY <1>0, <1>2 DEF ListedInv
    <2> QED BY <1>2, <1>3, <1>4, <2>1, <2>2 DEF OwnedInv
  <1> QED BY <1>5, <1>6, <1>7, <1>8, <1>9, <1>10 DEF IndInv

(* The status of the ResourceGroup: its list stays.                         *)
LEMMA StatusFacts ==
  ASSUME IndInv, pc \in {"status", "rstatus"}, NEW S \in SUBSET Objs, UNCHANGED cm,
         rgs' = [rgs EXCEPT ![Key].stat = S]
  PROVE  LET new == [rgs[Key] EXCEPT !.stat = S] IN
         /\ new \in RGs /\ new # NoRG /\ new.objs = rgs[Key].objs /\ ObjsOf(new) = Listed(Key)
         /\ inv \in Invs /\ rgs' = [rgs EXCEPT ![Key] = new] /\ Recorded' = Recorded
  <1> DEFINE new == [rgs[Key] EXCEPT !.stat = S]
  <1>0. StoreOK /\ InvInv
    BY TypeParts DEF IndInv
  <1>1. inv \in Invs /\ Key \in Keys /\ rgs[Key] # NoRG /\ rgs[Key] \in RGs
    BY <1>0, KeyType DEF InvInv, Working, StoreOK
  <1>2. new \in RGs /\ new.objs = rgs[Key].objs
    BY <1>1 DEF RGs
  <1>3. rgs' = [rgs EXCEPT ![Key] = new]
    OBVIOUS
  <1>4. new # NoRG /\ ObjsOf(new) = Listed(Key)
    BY <1>1, <1>2, NoRGAssumption DEF ObjsOf, Listed
  <1> HIDE DEF new
  <1>5. Recorded' = Recorded
    BY <1>0, <1>1, <1>2, <1>3, <1>4, WriteRG, RecordedSplit
  <1> QED BY <1>1, <1>2, <1>3, <1>4, <1>5 DEF new

LEMMA ApplyStatusStep ==
  ASSUME IndInv, ApplyStatus
  PROVE  IndInv'
  <1> DEFINE new == [rgs[Key] EXCEPT !.stat = prev \union want]
  <1>0. StoreOK /\ MemoryOK /\ OpInv /\ InvInv /\ OwnedInv /\ MigrateInv /\ ListedInv
    BY TypeParts DEF IndInv
  <1>1. /\ UNCHANGED <<planned, ran, disk, crd, cm, live, inv, want, prev, todo, keep, fresh, flags, from>>
        /\ pc = "status" /\ got' = NoRG /\ rgs' = [rgs EXCEPT ![Key].stat = prev \union want]
        /\ pc' = IF flags.op = "migrate" THEN "delcm" ELSE "apply"
    BY DEF ApplyStatus, AfterMerge, Goto, plan
  <1>2. /\ new \in RGs /\ new # NoRG /\ ObjsOf(new) = Listed(Key)
        /\ inv \in Invs /\ rgs' = [rgs EXCEPT ![Key] = new] /\ Recorded' = Recorded
    BY <1>0, <1>1, StatusFacts DEF MemoryOK
  <1> HIDE DEF new
  <1>3. /\ rgs' \in [Keys -> RGs \union {NoRG}]
        /\ Key' = Key /\ Listed(Key)' = Listed(Key) /\ Others' = Others
    BY <1>0, <1>1, <1>2, WriteRG
  <1>4. flags.op \in {"apply", "migrate"}
    BY <1>0, <1>1 DEF OpInv
  <1>5. TypeOK' /\ OpInv'
    BY <1>0, <1>1, <1>3, <1>4 DEF TypeOK, StoreOK, MemoryOK, OpInv, PCs
  <1>6. InvInv' /\ ReadInv'
    BY <1>1, <1>2 DEF InvInv, ReadInv
  <1>7. MigrateInv' /\ ListedInv'
    BY <1>0, <1>1, <1>2, <1>3, <1>4 DEF MigrateInv, ListedInv
  <1>8. OwnedInv'
    <2>1. Owned' = Owned /\ (flags.op = "apply" => todo = want /\ keep = {})
      BY <1>0, <1>1 DEF Owned, ListedInv
    <2> QED BY <1>0, <1>1, <1>2, <1>3, <1>4, <2>1 DEF OwnedInv
  <1> QED BY <1>5, <1>6, <1>7, <1>8 DEF IndInv

-----------------------------------------------------------------------------
(* The applier and the destroyer *)

LEMMA OwnedChange ==
  ASSUME StoreOK, NEW o \in Objs, NEW x \in IDs \union {Absent, Unowned}, live' = [live EXCEPT ![o] = x]
  PROVE  /\ live' \in [Objs -> IDs \union {Absent, Unowned}]
         /\ Owned' = IF x \in IDs THEN Owned \union {o} ELSE Owned \ {o}
  BY DEF StoreOK, Owned

(* An object is applied after it has been listed, and kept or left.         *)
LEMMA ApplyObjectStep ==
  ASSUME IndInv, NEW o \in Objs, ApplyObject(o)
  PROVE  IndInv'
  <1>0. StoreOK /\ MemoryOK /\ OpInv /\ InvInv /\ OwnedInv /\ ListedInv
    BY TypeParts DEF IndInv
  <1>1. /\ UNCHANGED <<planned, ran, disk, crd, cm, rgs, inv, want, prev, got, fresh, flags, from>>
        /\ pc = "apply" /\ pc' = "apply" /\ o \in todo /\ todo' = todo \ {o}
    BY DEF ApplyObject, Goto
  <1>2. inv \in Invs /\ inv.id \in IDs /\ flags.op = "apply"
    BY <1>0, <1>1 DEF InvInv, Working, Invs, OpInv
  <1>3. /\ Key' = Key /\ Listed(Key)' = Listed(Key) /\ rgs[Key]' = rgs[Key]
        /\ Others' = Others /\ Recorded' = Recorded
    BY <1>1, SameLists
  <1>4. /\ live' \in [Objs -> IDs \union {Absent, Unowned}]
        /\ \/ Owned' = Owned \union {o} /\ keep' = keep \union {o}
           \/ Owned' = Owned /\ keep' = keep \union ({o} \intersect prev)
    <2>1. CASE live' = [live EXCEPT ![o] = inv.id] /\ keep' = keep \union {o}
      BY <1>0, <1>2, <2>1, OwnedChange
    <2>2. CASE UNCHANGED live /\ keep' = keep \union ({o} \intersect prev)
      BY <1>0, <2>2 DEF StoreOK, Owned
    <2> QED BY <2>1, <2>2 DEF ApplyObject
  <1>5. TypeOK' /\ OpInv'
    BY <1>0, <1>1, <1>4 DEF TypeOK, StoreOK, MemoryOK, OpInv
  <1>6. InvInv' /\ ReadInv' /\ MigrateInv'
    BY <1>0, <1>1, <1>2 DEF InvInv, ReadInv, MigrateInv
  <1>7. ListedInv'
    BY <1>0, <1>1, <1>3, <1>4 DEF ListedInv
  <1>8. OwnedInv'
    <2>1. o \in Recorded
      BY <1>0, <1>1, <1>2, RecordedSplit DEF ListedInv
    <2> QED BY <1>0, <1>1, <1>3, <1>4, <2>1 DEF OwnedInv
  <1> QED BY <1>5, <1>6, <1>7, <1>8 DEF IndInv

LEMMA PruneObjectStep ==
  ASSUME IndInv, NEW o \in Objs, PruneObject(o)
  PROVE  IndInv'
  <1>0. StoreOK /\ MemoryOK /\ OpInv /\ InvInv /\ OwnedInv /\ ListedInv
    BY TypeParts DEF IndInv
  <1>1. /\ UNCHANGED <<planned, ran, disk, crd, cm, rgs, inv, want, prev, got, fresh, flags, from>>
        /\ pc = "prune" /\ pc' = "prune" /\ o \in todo /\ todo' = todo \ {o}
    BY DEF PruneObject, Goto
  <1>2. inv \in Invs /\ flags.op \in {"apply", "destroy"}
    BY <1>0, <1>1 DEF InvInv, Working, OpInv
  <1>3. /\ Key' = Key /\ Listed(Key)' = Listed(Key) /\ rgs[Key]' = rgs[Key]
        /\ Others' = Others /\ Recorded' = Recorded
    BY <1>1, SameLists
  <1>4. /\ live' \in [Objs -> IDs \union {Absent, Unowned}]
        /\ \/ Owned' = Owned \ {o} /\ keep' = keep
           \/ Owned' = Owned /\ keep' = keep \union {o}
    <2>1. CASE live' = [live EXCEPT ![o] = Absent] /\ UNCHANGED keep
      BY <1>0, <2>1, OwnedChange, LiveAssumption
    <2>2. CASE UNCHANGED live /\ keep' = keep \union {o}
      BY <1>0, <2>2 DEF StoreOK, Owned
    <2> QED BY <2>1, <2>2 DEF PruneObject
  <1>5. TypeOK' /\ OpInv'
    BY <1>0, <1>1, <1>4 DEF TypeOK, StoreOK, MemoryOK, OpInv
  <1>6. InvInv' /\ ReadInv' /\ MigrateInv'
    BY <1>0, <1>1, <1>2 DEF InvInv, ReadInv, MigrateInv
  <1>7. ListedInv'
    BY <1>0, <1>1, <1>3, <1>4 DEF ListedInv
  <1>8. OwnedInv'
    BY <1>0, <1>1, <1>3, <1>4 DEF OwnedInv
  <1> QED BY <1>5, <1>6, <1>7, <1>8 DEF IndInv

LEMMA PruneSetStep ==
  ASSUME IndInv, PruneSet \/ InvSet
  PROVE  IndInv'
  <1>0. StoreOK /\ MemoryOK /\ OpInv /\ InvInv /\ OwnedInv /\ ListedInv
    BY TypeParts DEF IndInv
  <1>1. /\ UNCHANGED <<ran, disk, crd, cm, rgs, live, inv, want, prev, keep, got, fresh, flags, from>>
        /\ pc \in {"apply", "prune"} /\ todo = {} /\ planned' \in {planned, NoPlan}
    BY DEF PruneSet, InvSet, Goto, cluster, plan
  <1>2. /\ pc = "apply" => pc' = "prune" /\ todo' = prev \ want
        /\ pc = "prune" => /\ pc' = IF flags.op = "destroy" /\ keep = {} THEN "delinv" ELSE "rget"
                           /\ todo' = {}
    BY <1>1 DEF PruneSet, InvSet, Goto, plan
  <1>3. /\ inv \in Invs /\ (pc = "apply" => flags.op = "apply")
        /\ flags.op \in {"apply", "destroy"}
    BY <1>0, <1>1 DEF InvInv, Working, OpInv
  <1>4. /\ Key' = Key /\ Listed(Key)' = Listed(Key) /\ rgs[Key]' = rgs[Key]
        /\ Others' = Others /\ Recorded' = Recorded /\ Owned' = Owned
    BY <1>1, SameLists DEF Owned
  <1>5. TypeOK' /\ OpInv'
    BY <1>0, <1>1, <1>2, <1>3, NoPlanType DEF TypeOK, StoreOK, MemoryOK, OpInv, PCs
  <1>6. InvInv' /\ ReadInv' /\ MigrateInv'
    BY <1>0, <1>1, <1>2, <1>3 DEF InvInv, ReadInv, MigrateInv
  <1>7. ListedInv'
    BY <1>0, <1>1, <1>2, <1>4 DEF ListedInv
  <1>8. OwnedInv'
    BY <1>0, <1>1, <1>2, <1>4 DEF OwnedInv
  <1> QED BY <1>5, <1>6, <1>7, <1>8 DEF IndInv

LEMMA ReplaceGetStep ==
  ASSUME IndInv, ReplaceGet
  PROVE  IndInv'
  <1>0. StoreOK /\ MemoryOK /\ OpInv /\ InvInv /\ OwnedInv /\ ListedInv
    BY TypeParts DEF IndInv
  <1>1. /\ UNCHANGED <<planned, ran, disk, crd, cm, rgs, live, inv, want, prev, todo, keep, flags, from>>
        /\ pc = "rget" /\ pc' = "rwrite" /\ got' = rgs[Key] /\ fresh' = TRUE
    BY DEF ReplaceGet, Goto, cluster, plan
  <1>2. inv \in Invs /\ Key \in Keys /\ flags.op \in {"apply", "destroy"}
    BY <1>0, <1>1, KeyType DEF InvInv, Working, OpInv
  <1>3. /\ Key' = Key /\ Listed(Key)' = Listed(Key) /\ rgs[Key]' = rgs[Key]
        /\ Others' = Others /\ Recorded' = Recorded /\ Owned' = Owned
    BY <1>1, SameLists DEF Owned
  <1>4. TypeOK' /\ OpInv'
    BY <1>0, <1>1, <1>2 DEF TypeOK, StoreOK, MemoryOK, OpInv, PCs
  <1>5. InvInv' /\ ReadInv' /\ MigrateInv'
    BY <1>1, <1>2, <1>3 DEF InvInv, ReadInv, MigrateInv
  <1>6. ListedInv' /\ OwnedInv'
    BY <1>0, <1>1, <1>3 DEF ListedInv, OwnedInv
  <1> QED BY <1>4, <1>5, <1>6 DEF IndInv

(* What is struck out is gone, or another inventory has it.                 *)
LEMMA ReplaceFacts ==
  ASSUME IndInv, ApplyWithPrune
  PROVE  LET new == GetObject(got, keep) IN
         /\ new \in RGs /\ new # NoRG /\ new.objs = keep /\ new.stat = got.stat
         /\ inv \in Invs /\ got = rgs[Key] /\ keep \subseteq Listed(Key)
         /\ rgs' = [rgs EXCEPT ![Key] = new] /\ UNCHANGED <<cm, live>>
         /\ Recorded' = Others \union keep /\ Owned \subseteq Recorded' /\ Recorded' \subseteq Recorded
  <1> DEFINE new == GetObject(got, keep)
  <1>0. StoreOK /\ MemoryOK /\ InvInv /\ OwnedInv /\ ReadInv /\ ListedInv
    BY TypeParts DEF IndInv
  <1>1. pc = "rwrite" /\ fresh /\ got # NoRG /\ rgs' = [rgs EXCEPT ![Key] = new] /\ UNCHANGED <<cm, live>>
    BY DEF ApplyWithPrune, CanWrite
  <1>2. inv \in Invs /\ got = rgs[Key] /\ keep \subseteq Listed(Key) /\ Owned \subseteq Others \union keep
    BY <1>0, <1>1 DEF InvInv, Working, ReadInv, ListedInv, OwnedInv
  <1>3. new \in RGs /\ new.objs = keep /\ new.stat = got.stat
    BY <1>0, <1>1 DEF MemoryOK, GetObject, RGs
  <1>4. new # NoRG
    BY <1>3, NoRGAssumption
  <1> HIDE DEF new
  <1>5. ObjsOf(new) = keep
    BY <1>3, <1>4 DEF ObjsOf
  <1>6. Recorded' = Others \union keep
    BY <1>0, <1>1, <1>2, <1>3, <1>5, WriteRG
  <1>7. Recorded = Others \union Listed(Key)
    BY <1>2, RecordedSplit
  <1> QED BY <1>1, <1>2, <1>3, <1>4, <1>6, <1>7 DEF new

LEMMA ApplyWithPruneStep ==
  ASSUME IndInv, ApplyWithPrune
  PROVE  IndInv'
  <1> DEFINE new == GetObject(got, keep)
  <1>0. StoreOK /\ MemoryOK /\ OpInv /\ InvInv
    BY TypeParts DEF IndInv
  <1>1. /\ new \in RGs /\ new # NoRG /\ new.objs = keep
        /\ inv \in Invs /\ rgs' = [rgs EXCEPT ![Key] = new]
        /\ Owned \subseteq Recorded'
    BY ReplaceFacts
  <1> HIDE DEF new
  <1>2. pc = "rwrite" /\ UNCHANGED <<planned, ran, disk, crd, cm, live>> /\ Owned' = Owned
    BY DEF ApplyWithPrune, Owned
  <1>3. rgs' \in [Keys -> RGs \union {NoRG}] /\ (inv' = inv => Key' = Key /\ rgs[Key]' = new)
    BY <1>0, <1>1, <1>2, WriteRG
  <1>4. StoreOK' /\ (Owned \subseteq Recorded)'
    BY <1>0, <1>1, <1>2, <1>3 DEF StoreOK
  <1>5. CASE Return
    BY <1>4, <1>5, ReturnStep
  <1>6. CASE Goto("rstatus") /\ UNCHANGED <<inv, plan, got, fresh>>
    <2>1. UNCHANGED <<inv, want, prev, todo, keep, got, fresh, flags, from>> /\ pc' = "rstatus"
      BY <1>6 DEF Goto, plan
    <2>2. flags.op \in {"apply", "destroy"}
      BY <1>0, <1>2 DEF OpInv
    <2>3. TypeOK' /\ OpInv'
      BY <1>0, <1>4, <2>1, <2>2 DEF TypeOK, StoreOK, MemoryOK, OpInv, PCs
    <2>4. InvInv' /\ ReadInv'
      BY <1>1, <1>3, <2>1 DEF InvInv, ReadInv
    <2>5. MigrateInv' /\ ListedInv' /\ OwnedInv'
      BY <1>4, <2>1, <2>2 DEF MigrateInv, ListedInv, OwnedInv
    <2> QED BY <2>3, <2>4, <2>5 DEF IndInv
  <1> QED BY <1>5, <1>6 DEF ApplyWithPrune

LEMMA ApplyWithPruneStatusStep ==
  ASSUME IndInv, ApplyWithPruneStatus
  PROVE  IndInv'
  <1> DEFINE new == [rgs[Key] EXCEPT !.stat = keep]
  <1>0. StoreOK /\ MemoryOK /\ OwnedInv
    BY TypeParts DEF IndInv
  <1>1. /\ UNCHANGED <<planned, ran, disk, crd, cm, live>> /\ pc = "rstatus" /\ Return
        /\ rgs' = [rgs EXCEPT ![Key].stat = keep] /\ Owned' = Owned
    BY DEF ApplyWithPruneStatus, Owned
  <1>2. new \in RGs /\ inv \in Invs /\ rgs' = [rgs EXCEPT ![Key] = new] /\ Recorded' = Recorded
    BY <1>0, <1>1, StatusFacts DEF MemoryOK
  <1> HIDE DEF new
  <1>3. rgs' \in [Keys -> RGs \union {NoRG}]
    BY <1>0, <1>1, <1>2, WriteRG
  <1>4. StoreOK' /\ (Owned \subseteq Recorded)'
    BY <1>0, <1>1, <1>2, <1>3 DEF StoreOK, OwnedInv
  <1> QED BY <1>1, <1>4, ReturnStep

LEMMA DeleteFacts ==
  ASSUME IndInv, DeleteInventoryObj
  PROVE  /\ rgs' \in [Keys -> RGs \union {NoRG}] /\ inv \in Invs
         /\ Owned \subseteq Recorded' /\ Recorded' \subseteq Recorded
  <1>0. StoreOK /\ InvInv /\ OwnedInv
    BY TypeParts DEF IndInv
  <1>1. UNCHANGED cm /\ pc = "delinv" /\ rgs' = [rgs EXCEPT ![Key] = NoRG]
    BY DEF DeleteInventoryObj
  <1>2. inv \in Invs /\ Owned \subseteq Others
    BY <1>0, <1>1 DEF InvInv, Working, OwnedInv
  <1>3. ObjsOf(NoRG) = {}
    BY DEF ObjsOf
  <1>4. rgs' \in [Keys -> RGs \union {NoRG}] /\ Recorded' = Others
    BY <1>0, <1>1, <1>2, <1>3, WriteRG
  <1> QED BY <1>2, <1>4, RecordedSplit

LEMMA DeleteInventoryStep ==
  ASSUME IndInv, DeleteInventoryObj
  PROVE  IndInv'
  <1>1. UNCHANGED <<planned, ran, disk, crd, cm, live>> /\ Return /\ Owned' = Owned
    BY DEF DeleteInventoryObj, Owned
  <1>2. StoreOK' /\ (Owned \subseteq Recorded)'
    BY <1>1, DeleteFacts, TypeParts DEF IndInv, StoreOK
  <1> QED BY <1>1, <1>2, ReturnStep

(* Somebody else lists one more object.                                     *)
LEMMA OtherFacts ==
  ASSUME IndInv, NEW o \in Objs, OtherMerge(o)
  PROVE  \E new \in RGs :
           /\ new # NoRG /\ rgs' = [rgs EXCEPT ![Key] = new]
           /\ ObjsOf(new) = Listed(Key) \union {o} /\ (rgs[Key] # NoRG => new.stat = rgs[Key].stat)
  <1>0. StoreOK /\ inv \in Invs /\ Key \in Keys /\ rgs[Key] \in RGs \union {NoRG}
    BY TypeParts, KeyType DEF IndInv, InvInv, OtherMerge, StoreOK
  <1> DEFINE new == IF rgs[Key] = NoRG THEN [id |-> inv.id, objs |-> {o}, stat |-> {}]
                                       ELSE [rgs[Key] EXCEPT !.objs = @ \union {o}]
  <1>1. rgs' = [rgs EXCEPT ![Key] = new]
    BY DEF OtherMerge
  <1>2. /\ new \in RGs
        /\ new.objs = (IF rgs[Key] = NoRG THEN {o} ELSE rgs[Key].objs \union {o})
        /\ rgs[Key] # NoRG => new.stat = rgs[Key].stat
    BY <1>0 DEF RGs, Invs
  <1>3. new # NoRG
    BY <1>2, NoRGAssumption
  <1>4. ObjsOf(new) = Listed(Key) \union {o}
    <2> HIDE DEF new
    <2> QED BY <1>2, <1>3 DEF ObjsOf, Listed
  <1> QED BY <1>1, <1>2, <1>3, <1>4

LEMMA OtherMergeStep ==
  ASSUME IndInv, NEW o \in Objs, OtherMerge(o)
  PROVE  IndInv'
  <1>0. StoreOK /\ MemoryOK /\ OpInv /\ InvInv /\ OwnedInv /\ MigrateInv /\ ListedInv
    BY TypeParts DEF IndInv
  <1>1. PICK new \in RGs : /\ new # NoRG /\ rgs' = [rgs EXCEPT ![Key] = new]
                           /\ ObjsOf(new) = Listed(Key) \union {o}
    BY OtherFacts
  <1>2. /\ UNCHANGED <<ran, disk, crd, cm, live, flags, pc, from, inv, want, prev, todo, keep, got>>
        /\ fresh /\ fresh' = FALSE /\ planned' = NoPlan /\ inv \in Invs
    BY <1>0 DEF OtherMerge, plan, InvInv
  <1>3. /\ rgs' \in [Keys -> RGs \union {NoRG}] /\ Recorded' = Others \union Listed(Key) \union {o}
        /\ Key' = Key /\ rgs[Key]' = new /\ Listed(Key)' = Listed(Key) \union {o} /\ Others' = Others
    BY <1>0, <1>1, <1>2, WriteRG
  <1>4. Owned' = Owned /\ Recorded = Others \union Listed(Key)
    BY <1>2, RecordedSplit DEF Owned
  <1>5. TypeOK'
    BY <1>0, <1>2, <1>3, NoPlanType DEF TypeOK, StoreOK, MemoryOK
  <1>9. OpInv'
    BY <1>0, <1>2 DEF OpInv
  <1>6. InvInv' /\ ReadInv'
    BY <1>1, <1>2, <1>3 DEF InvInv, ReadInv
  <1>7. MigrateInv' /\ ListedInv'
    BY <1>0, <1>2, <1>3 DEF MigrateInv, ListedInv
  <1>8. OwnedInv'
    BY <1>0, <1>2, <1>3, <1>4 DEF OwnedInv
  <1> QED BY <1>5, <1>6, <1>7, <1>8, <1>9 DEF IndInv

-----------------------------------------------------------------------------
LEMMA InitInv == Init => IndInv
  <1> SUFFICES ASSUME Init
               PROVE  IndInv
    OBVIOUS
  <1>1. PICK tmpl \in BOOLEAN, kf \in {NoInv, NoFile, BadInv, KptfileInv},
             S \in SUBSET (Objs \ LocalConfig), id \in IDs :
          Start0(tmpl, kf, S, id) /\ (tmpl \/ kf = KptfileInv \/ S = {})
    <2>1. KptfileInv.id \in IDs /\ TemplateID \in IDs /\ {} \in SUBSET (Objs \ LocalConfig)
      BY LiveAssumption DEF Invs
    <2>2. CASE \E S \in SUBSET (Objs \ LocalConfig), kf \in {NoInv, NoFile} : Start0(TRUE, kf, S, TemplateID)
      BY <2>1, <2>2, Zenon
    <2>3. CASE \E S \in SUBSET (Objs \ LocalConfig) : Start0(FALSE, KptfileInv, S, KptfileInv.id)
      BY <2>1, <2>3, Zenon
    <2>4. CASE \E kf \in {NoFile, BadInv} : Start0(FALSE, kf, {}, TemplateID)
      BY <2>1, <2>4, Zenon
    <2> QED BY <2>2, <2>3, <2>4, Zenon DEF Init
  <1>2. crd \in CRDStates
    BY DEF Init, CRDStates
  <1>3. /\ ran = 0 /\ flags = NoFlags /\ pc = "idle" /\ from = "flags" /\ inv = NoInv
        /\ want = {} /\ prev = {} /\ todo = {} /\ keep = {}
        /\ got = NoRG /\ fresh = FALSE /\ planned = NoPlan
    BY DEF Init
  <1>4. rgs \in [Keys -> RGs \union {NoRG}] /\ cm \subseteq Objs /\ live \in [Objs -> IDs \union {Absent, Unowned}]
    <2>1. [id |-> id, objs |-> S, stat |-> S] \in RGs
      BY DEF RGs
    <2> QED BY <1>1, <2>1 DEF Start0
  <1>5. disk \in [tmpl : BOOLEAN, kf : Invs \union {NoInv, BadInv, NoFile},
                  rg : [RGFiles -> Invs \union {NoInv}], objs : SUBSET Objs, strings : BOOLEAN]
    BY <1>1, LiveAssumption DEF Start0
  <1>6. TypeOK
    <2>1. ran \in 0..MaxCommands
      BY <1>3, LiveAssumption
    <2>2. StoreOK
      BY <1>2, <1>3, <1>4, <1>5, <2>1, NoPlanType DEF StoreOK
    <2>3. MemoryOK
      BY <1>3, NoFlagsType DEF MemoryOK, PCs
    <2> QED BY <2>2, <2>3, TypeParts
  <1>7. OpInv /\ InvInv /\ ReadInv /\ MigrateInv /\ ListedInv
    BY <1>3, NoFlagsType DEF OpInv, InvInv, Working, ReadInv, MigrateInv, ListedInv
  <1>8. Owned \subseteq Recorded
    <2>1. Owned \subseteq S
      BY <1>1, LiveAssumption DEF Start0, Owned
    <2>2. CASE tmpl
      BY <1>1, <2>1, <2>2 DEF Start0, Recorded
    <2>3. CASE kf = KptfileInv
      <3>1. <<kf.name, kf.ns>> \in Keys
        BY <2>3, LiveAssumption DEF Invs, Keys
      <3>2. rgs[<<kf.name, kf.ns>>] = [id |-> id, objs |-> S, stat |-> S]
        BY <1>1, <2>3, <3>1 DEF Start0
      <3>3. [id |-> id, objs |-> S, stat |-> S] # NoRG
        <4>1. [id |-> id, objs |-> S, stat |-> S] \in RGs
          BY DEF RGs
        <4> QED BY <4>1, NoRGAssumption
      <3>4. Listed(<<kf.name, kf.ns>>) = S
        BY <3>2, <3>3 DEF Listed
      <3> QED BY <2>1, <3>1, <3>4 DEF Recorded
    <2>4. CASE S = {}
      BY <2>1, <2>4
    <2> QED BY <1>1, <2>2, <2>3, <2>4
  <1>9. OwnedInv
    BY <1>3, <1>8 DEF OwnedInv
  <1> QED BY <1>6, <1>7, <1>9 DEF IndInv

LEMMA NextInv == IndInv /\ [Next]_vars => IndInv'
  <1> SUFFICES ASSUME IndInv, [Next]_vars
               PROVE  IndInv'
    OBVIOUS
  <1>1. CASE \E f \in Invocations : \/ BeginInit(f) \/ BeginInstall(f) \/ BeginMigrate(f)
                                    \/ BeginApply(f) \/ BeginDestroy(f) \/ BeginStatus(f)
                                    \/ BeginPlan(f)
    BY <1>1, BeginStep
  <1>2. CASE Stop \/ \E S \in SUBSET Objs, strings \in BOOLEAN : Edit(S, strings)
    BY <1>2, StopStep, EditStep
  <1>3. CASE VerifyCRD \/ InstallRG \/ PollEnds \/ Establish
    BY <1>3, CRDStep
  <1>4. CASE ConfigureInventoryInfo \/ WriteRGFile \/ RewriteKptfile
    BY <1>4, ConfigureStep
  <1>5. CASE RetrieveConfigMap \/ MigrateKptfile \/ RetrieveInvObjs
    BY <1>5, RetrieveStep
  <1>6. CASE DeleteConfigMapInv \/ DeleteConfigMapFile
    BY <1>6, DeleteConfigMapStep
  <1>7. CASE Load \/ Plan \/ Get \/ GetClusterObjs \/ Apply \/ ApplyStatus
    BY <1>7, LoadStep, PlanStep, GetStep, ApplyStep, ApplyStatusStep
  <1>8. CASE PruneSet \/ InvSet \/ ReplaceGet \/ ApplyWithPrune \/ ApplyWithPruneStatus
             \/ DeleteInventoryObj
    BY <1>8, PruneSetStep, ReplaceGetStep, ApplyWithPruneStep, ApplyWithPruneStatusStep,
       DeleteInventoryStep
  <1>9. CASE FetchResources \/ BuildPlan \/ \E o \in Objs : DryRunEvent(o)
    BY <1>9, ForetellStep
  <1>10. CASE \E o \in Objs : ApplyObject(o) \/ PruneObject(o) \/ OtherMerge(o)
    BY <1>10, ApplyObjectStep, PruneObjectStep, OtherMergeStep
  <1>11. CASE UNCHANGED vars
    <2>1. /\ UNCHANGED <<planned, ran, disk, crd, cm, rgs, live, flags, pc, from, inv,
                         want, prev, todo, keep, got, fresh>>
          /\ Owned' = Owned
      BY <1>11 DEF vars, cluster, plan, Owned
    <2>2. /\ Key' = Key /\ Listed(Key)' = Listed(Key) /\ rgs[Key]' = rgs[Key]
          /\ Others' = Others /\ Recorded' = Recorded
      BY <2>1, SameLists
    <2>3. TypeOK' /\ OpInv' /\ InvInv' /\ ReadInv'
      BY <2>1, <2>2 DEF IndInv, TypeOK, OpInv, InvInv, ReadInv
    <2>4. MigrateInv' /\ ListedInv' /\ OwnedInv'
      BY <2>1, <2>2 DEF IndInv, MigrateInv, ListedInv, OwnedInv
    <2> QED BY <2>3, <2>4 DEF IndInv
  <1> QED BY <1>1, <1>2, <1>3, <1>4, <1>5, <1>6, <1>7, <1>8, <1>9, <1>10, <1>11 DEF Next

(* The types of Live.                                                       *)
THEOREM TypeCorrect == Spec => []TypeOK
  <1>1. IndInv => TypeOK
    BY DEF IndInv
  <1> QED BY <1>1, InitInv, NextInv, PTL DEF Spec

-----------------------------------------------------------------------------
(* No object is orphaned: Live implements Ledger *)

(* Most steps change neither the lists nor the objects.                     *)
LEMMA QuietLedger ==
  ASSUME UNCHANGED <<cm, rgs, live>>
  PROVE  UNCHANGED L!vars
  <1>1. \A k : Listed(k)' = Listed(k)
    BY DEF Listed
  <1>2. Recorded' = Recorded /\ Owned' = Owned
    BY <1>1 DEF Recorded, Owned
  <1> QED BY <1>2 DEF L!vars

LEMMA RecordedType ==
  ASSUME StoreOK
  PROVE  Recorded \in SUBSET Objs /\ Owned \in SUBSET Objs
  <1>1. \A k \in Keys : Listed(k) \subseteq Objs
    BY ListedType
  <1> QED BY <1>1 DEF StoreOK, Recorded, Owned

LEMMA LedgerInit == Init => L!Init
  <1> SUFFICES ASSUME Init
               PROVE  L!Init
    OBVIOUS
  <1>1. IndInv /\ StoreOK
    BY InitInv, TypeParts DEF IndInv
  <1> QED BY <1>1, RecordedType DEF L!Init, IndInv, OwnedInv

(* The steps that write a list record or forget; those that change an       *)
(* object apply or remove it.                                               *)
LEMMA LedgerStep == IndInv /\ [Next]_vars => [L!Next]_(L!vars)
  <1> SUFFICES ASSUME IndInv, [Next]_vars
               PROVE  [L!Next]_(L!vars)
    OBVIOUS
  <1>0. StoreOK /\ MemoryOK /\ OpInv /\ InvInv /\ OwnedInv /\ MigrateInv /\ ListedInv /\ IndInv' /\ StoreOK'
    BY NextInv, TypeParts DEF IndInv, TypeOK, StoreOK
  <1>1. Recorded \in SUBSET Objs /\ Recorded' \in SUBSET Objs /\ Owned \subseteq Recorded
    <2>1. Recorded \in SUBSET Objs
      BY <1>0, RecordedType
    <2>2. \A k \in Keys : Listed(k)' \subseteq Objs
      BY <1>0 DEF StoreOK, Listed, RGs
    <2>3. Recorded' \in SUBSET Objs
      BY <1>0, <2>2 DEF Recorded, StoreOK
    <2> QED BY <1>0, <2>1, <2>3 DEF OwnedInv
  <1>2. ASSUME Recorded \subseteq Recorded', Owned' = Owned
        PROVE  [L!Next]_(L!vars)
    BY <1>1, <1>2 DEF L!Next, L!Record
  <1>3. ASSUME Recorded' \subseteq Recorded, Owned \subseteq Recorded', Owned' = Owned
        PROVE  [L!Next]_(L!vars)
    BY <1>3 DEF L!Next, L!Forget
  <1>4. CASE Apply
    <2>1. inv \in Invs /\ Recorded = Others \union Listed(Key) /\ Listed(Key) \subseteq prev
      BY <1>4, MergeFacts, RecordedSplit
    <2>2. Recorded' = Others \union (prev \union want)
      <3> DEFINE new == GetObject(IF got = NoRG THEN InventoryObj ELSE got, prev \union want)
      <3>1. new \in RGs /\ new # NoRG /\ new.objs = prev \union want /\ rgs' = [rgs EXCEPT ![Key] = new]
        BY <1>4, MergeFacts
      <3>2. UNCHANGED cm
        BY <1>4 DEF Apply
      <3> HIDE DEF new
      <3>3. ObjsOf(new) = prev \union want
        BY <3>1 DEF ObjsOf
      <3> QED BY <1>0, <2>1, <3>1, <3>2, <3>3, WriteRG
    <2>3. Owned' = Owned
      BY <1>4 DEF Apply, Owned
    <2> QED BY <1>2, <2>1, <2>2, <2>3
  <1>5. CASE ApplyStatus \/ ApplyWithPruneStatus
    <2>1. PICK S \in SUBSET Objs : rgs' = [rgs EXCEPT ![Key].stat = S]
      BY <1>0, <1>5 DEF ApplyStatus, ApplyWithPruneStatus, MemoryOK
    <2>2. UNCHANGED <<cm, live>> /\ pc \in {"status", "rstatus"}
      BY <1>5 DEF ApplyStatus, ApplyWithPruneStatus
    <2>3. Recorded' = Recorded /\ Owned' = Owned
      BY <2>1, <2>2, StatusFacts DEF Owned
    <2> QED BY <1>2, <2>3
  <1>6. CASE ApplyWithPrune
    BY <1>3, <1>6, ReplaceFacts DEF Owned
  <1>7. CASE DeleteInventoryObj
    BY <1>3, <1>7, DeleteFacts DEF Owned, DeleteInventoryObj
  <1>8. CASE DeleteConfigMapInv
    <2>1. UNCHANGED <<rgs, live>> /\ cm' \subseteq cm
      BY <1>8 DEF DeleteConfigMapInv
    <2>2. (\A k : Listed(k)' = Listed(k)) /\ Owned' = Owned
      BY <2>1 DEF Listed, Owned
    <2>3. Recorded' \subseteq Recorded
      BY <2>1, <2>2 DEF Recorded
    <2>4. Owned \subseteq Recorded'
      BY <1>0, <2>2 DEF IndInv, OwnedInv
    <2> QED BY <1>3, <2>2, <2>3, <2>4
  <1>9. ASSUME NEW o \in Objs, ApplyObject(o)
        PROVE  [L!Next]_(L!vars)
    <2>1. UNCHANGED <<cm, rgs, inv>> /\ pc = "apply" /\ o \in todo
      BY <1>9 DEF ApplyObject
    <2>2. inv \in Invs /\ inv.id \in IDs /\ Recorded' = Recorded /\ o \in Recorded
      BY <1>0, <2>1, SameLists, RecordedSplit DEF InvInv, Working, Invs, ListedInv
    <2>3. Owned' = Owned \union {o} \/ Owned' = Owned
      BY <1>0, <1>9, <2>2, OwnedChange DEF ApplyObject, Owned
    <2> QED BY <2>2, <2>3 DEF L!Next, L!Apply, L!vars
  <1>10. ASSUME NEW o \in Objs, PruneObject(o)
         PROVE  [L!Next]_(L!vars)
    <2>1. UNCHANGED <<cm, rgs, inv>>
      BY <1>10 DEF PruneObject
    <2>2. Recorded' = Recorded
      BY <2>1, SameLists
    <2>3. Owned' = Owned \ {o} \/ Owned' = Owned
      BY <1>0, <1>10, OwnedChange, LiveAssumption DEF PruneObject, Owned
    <2> QED BY <2>2, <2>3 DEF L!Next, L!Remove, L!vars
  <1>11. ASSUME NEW o \in Objs, OtherMerge(o)
         PROVE  [L!Next]_(L!vars)
    <2>1. inv \in Invs /\ UNCHANGED <<cm, live>>
      BY <1>0, <1>11 DEF OtherMerge, InvInv
    <2>2. PICK new \in RGs : rgs' = [rgs EXCEPT ![Key] = new] /\ ObjsOf(new) = Listed(Key) \union {o}
      BY <1>11, OtherFacts
    <2>3. Recorded' = Others \union ObjsOf(new) /\ Recorded = Others \union Listed(Key)
      BY <1>0, <2>1, <2>2, WriteRG, RecordedSplit
    <2> QED BY <1>2, <2>1, <2>2, <2>3 DEF Owned
  <1>12. ASSUME UNCHANGED <<cm, rgs, live>>
         PROVE  [L!Next]_(L!vars)
    BY <1>12, QuietLedger
  <1>13. CASE \E f \in Invocations : \/ BeginInit(f) \/ BeginInstall(f) \/ BeginMigrate(f)
                                     \/ BeginApply(f) \/ BeginDestroy(f) \/ BeginStatus(f)
                                     \/ BeginPlan(f)
    BY <1>12, <1>13 DEF BeginInit, BeginInstall, BeginMigrate, BeginApply, BeginDestroy, BeginStatus,
                        BeginPlan, Begin, cluster
  <1>14. CASE Stop \/ \E S \in SUBSET Objs, strings \in BOOLEAN : Edit(S, strings)
    BY <1>12, <1>14 DEF Stop, Edit, cluster
  <1>15. CASE \/ VerifyCRD \/ InstallRG \/ PollEnds \/ Establish
              \/ ConfigureInventoryInfo \/ WriteRGFile \/ RewriteKptfile
    BY <1>12, <1>15 DEF VerifyCRD, InstallRG, PollEnds, Establish, ConfigureInventoryInfo, WriteRGFile,
                        RewriteKptfile, cluster
  <1>16. CASE \/ RetrieveConfigMap \/ MigrateKptfile \/ RetrieveInvObjs \/ DeleteConfigMapFile
              \/ Load \/ Plan \/ Get \/ GetClusterObjs \/ PruneSet \/ InvSet \/ ReplaceGet
    BY <1>12, <1>16 DEF RetrieveConfigMap, MigrateKptfile, RetrieveInvObjs, DeleteConfigMapFile, Load,
                        Plan, Get, GetClusterObjs, PruneSet, InvSet, ReplaceGet, cluster
  <1>17. CASE FetchResources \/ BuildPlan \/ \E o \in Objs : DryRunEvent(o)
    BY <1>12, <1>17 DEF FetchResources, BuildPlan, DryRunEvent, cluster
  <1>18. CASE UNCHANGED vars
    BY <1>12, <1>18 DEF vars, cluster
  <1> QED BY <1>4, <1>5, <1>6, <1>7, <1>8, <1>9, <1>10, <1>11, <1>13, <1>14, <1>15, <1>16, <1>17, <1>18
      DEF Next

(* Whatever command stops between two of its calls, and whoever merges into *)
(* the ResourceGroup meanwhile, an object with an inventory's mark is       *)
(* listed on the cluster (runApply, runDestroy, migrate: the list is        *)
(* written before the objects, and cut when they are gone).                 *)
THEOREM NoOrphansHolds == Spec => NoOrphans
  <1>1. IndInv /\ [Next]_vars => [L!Next]_(L!vars)
    BY LedgerStep
  <1> QED BY <1>1, LedgerInit, InitInv, NextInv, PTL DEF Spec, NoOrphans, L!Spec

-----------------------------------------------------------------------------
(* Get and update *)

(* Who writes a ResourceGroup: all other steps leave them alone.            *)
LEMMA RGWriters ==
  ASSUME [Next]_vars
  PROVE  \/ UNCHANGED rgs
         \/ Apply \/ ApplyStatus \/ ApplyWithPrune \/ ApplyWithPruneStatus \/ DeleteInventoryObj
         \/ \E o \in Objs : OtherMerge(o)
  <1>1. CASE \E f \in Invocations : \/ BeginInit(f) \/ BeginInstall(f) \/ BeginMigrate(f)
                                    \/ BeginApply(f) \/ BeginDestroy(f) \/ BeginStatus(f)
                                    \/ BeginPlan(f)
    BY <1>1 DEF BeginInit, BeginInstall, BeginMigrate, BeginApply, BeginDestroy, BeginStatus,
                BeginPlan, Begin, cluster
  <1>2. CASE Stop \/ \E S \in SUBSET Objs, strings \in BOOLEAN : Edit(S, strings)
    BY <1>2 DEF Stop, Edit, cluster
  <1>3. CASE \/ VerifyCRD \/ InstallRG \/ PollEnds \/ Establish
             \/ ConfigureInventoryInfo \/ WriteRGFile \/ RewriteKptfile
    BY <1>3 DEF VerifyCRD, InstallRG, PollEnds, Establish, ConfigureInventoryInfo, WriteRGFile,
                RewriteKptfile, cluster
  <1>4. CASE \/ RetrieveConfigMap \/ MigrateKptfile \/ RetrieveInvObjs
             \/ DeleteConfigMapInv \/ DeleteConfigMapFile
             \/ Load \/ Plan \/ Get \/ GetClusterObjs \/ PruneSet \/ InvSet \/ ReplaceGet
    BY <1>4 DEF RetrieveConfigMap, MigrateKptfile, RetrieveInvObjs, DeleteConfigMapInv,
                DeleteConfigMapFile, Load, Plan, Get, GetClusterObjs, PruneSet, InvSet, ReplaceGet, cluster
  <1>5. CASE FetchResources \/ BuildPlan \/ \E o \in Objs : DryRunEvent(o)
    BY <1>5 DEF FetchResources, BuildPlan, DryRunEvent, cluster
  <1>6. CASE \E o \in Objs : ApplyObject(o) \/ PruneObject(o)
    BY <1>6 DEF ApplyObject, PruneObject
  <1>7. CASE UNCHANGED vars
    BY <1>7 DEF vars, cluster
  <1> QED BY <1>1, <1>2, <1>3, <1>4, <1>5, <1>6, <1>7 DEF Next

(* Between the read and the write of a merge somebody else may list more;   *)
(* the write then fails (InventoryResourceGroup.Apply updates the version   *)
(* that it has read).                                                       *)
THEOREM MergeKeepsHolds == Spec => MergeKeeps
  <1>1. IndInv /\ [Next]_vars => [pc = "write" /\ pc' # "idle" => \A k \in Keys : Listed(k) \subseteq Listed(k)']_vars
    <2> SUFFICES ASSUME IndInv, [Next]_vars, pc = "write", pc' # "idle", NEW k \in Keys
                 PROVE  Listed(k) \subseteq Listed(k)'
      OBVIOUS
    <2>0. StoreOK /\ InvInv
      BY TypeParts DEF IndInv
    <2>1. CASE UNCHANGED rgs
      BY <2>1 DEF Listed
    <2>2. CASE Apply
      <3> DEFINE new == GetObject(IF got = NoRG THEN InventoryObj ELSE got, prev \union want)
      <3>1. /\ new \in RGs /\ new # NoRG /\ new.objs = prev \union want
            /\ inv \in Invs /\ Listed(Key) \subseteq prev /\ rgs' = [rgs EXCEPT ![Key] = new]
        BY <2>2, MergeFacts
      <3> HIDE DEF new
      <3>2. UNCHANGED <<cm, inv>> /\ ObjsOf(new) = prev \union want
        BY <2>2, <3>1 DEF Apply, ObjsOf
      <3>3. /\ \A j \in Keys \ {Key} : Listed(j)' = Listed(j)
            /\ Key' = Key /\ Listed(Key)' = prev \union want
        BY <2>0, <3>1, <3>2, WriteRG
      <3>4. k = Key => Listed(k)' = prev \union want
        BY <3>3 DEF Listed
      <3> QED BY <3>1, <3>3, <3>4
    <2>3. ASSUME NEW o \in Objs, OtherMerge(o)
          PROVE  Listed(k) \subseteq Listed(k)'
      <3>1. inv \in Invs /\ UNCHANGED <<cm, inv>>
        BY <2>0, <2>3 DEF OtherMerge, InvInv
      <3>2. PICK new \in RGs : rgs' = [rgs EXCEPT ![Key] = new] /\ ObjsOf(new) = Listed(Key) \union {o}
        BY <2>3, OtherFacts
      <3>3. /\ \A j \in Keys \ {Key} : Listed(j)' = Listed(j)
            /\ Key' = Key /\ Listed(Key)' = Listed(Key) \union {o}
        BY <2>0, <3>1, <3>2, WriteRG
      <3>4. k = Key => Listed(k)' = Listed(k) \union {o}
        BY <3>3 DEF Listed
      <3> QED BY <3>3, <3>4
    <2>4. CASE ApplyStatus \/ ApplyWithPrune \/ ApplyWithPruneStatus \/ DeleteInventoryObj
      BY <2>4 DEF ApplyStatus, ApplyWithPrune, ApplyWithPruneStatus, DeleteInventoryObj
    <2> QED BY <2>1, <2>2, <2>3, <2>4, RGWriters
  <1> QED BY <1>1, InitInv, NextInv, PTL DEF Spec, MergeKeeps

(* The list and its status are two calls: the second one finds the list of  *)
(* the first, or fails (InventoryResourceGroup.Apply and ApplyWithPrune).   *)
THEOREM StatusFollowsListHolds == Spec => StatusFollowsList
  <1>1. IndInv /\ [Next]_vars =>
          [\A k \in Keys : rgs[k] # NoRG /\ rgs'[k] # NoRG /\ rgs'[k].stat # rgs[k].stat
             => rgs'[k].stat = rgs'[k].objs]_vars
    <2> SUFFICES ASSUME IndInv, [Next]_vars, NEW k \in Keys,
                        rgs[k] # NoRG, rgs'[k] # NoRG, rgs'[k].stat # rgs[k].stat
                 PROVE  rgs'[k].stat = rgs'[k].objs
      OBVIOUS
    <2>0. StoreOK /\ MemoryOK /\ InvInv /\ ReadInv
      BY TypeParts DEF IndInv
    <2>1. ASSUME NEW new, rgs' = [rgs EXCEPT ![Key] = new],
                 \/ rgs[Key] # NoRG /\ new # NoRG => new.stat = rgs[Key].stat
                 \/ new # NoRG => new.stat = new.objs
          PROVE  rgs'[k].stat = rgs'[k].objs
      BY <2>0, <2>1 DEF StoreOK
    <2>2. CASE Apply
      <3> DEFINE new == GetObject(IF got = NoRG THEN InventoryObj ELSE got, prev \union want)
      <3>1. /\ rgs' = [rgs EXCEPT ![Key] = new] /\ got = rgs[Key]
            /\ got # NoRG => new.stat = got.stat
        BY <2>2, MergeFacts
      <3> HIDE DEF new
      <3> QED BY <2>1, <3>1
    <2>3. CASE ApplyWithPrune
      <3> DEFINE new == GetObject(got, keep)
      <3>1. rgs' = [rgs EXCEPT ![Key] = new] /\ got = rgs[Key] /\ new.stat = got.stat
        BY <2>3, ReplaceFacts
      <3> HIDE DEF new
      <3> QED BY <2>1, <3>1
    <2>4. ASSUME NEW S \in SUBSET Objs, pc \in {"status", "rstatus"}, UNCHANGED cm,
                 rgs' = [rgs EXCEPT ![Key].stat = S], rgs[Key].objs = S
          PROVE  rgs'[k].stat = rgs'[k].objs
      <3> DEFINE new == [rgs[Key] EXCEPT !.stat = S]
      <3>1. rgs' = [rgs EXCEPT ![Key] = new] /\ new.objs = S /\ new \in RGs
        BY <2>4, StatusFacts
      <3>2. new.stat = S
        BY <3>1, <2>0, <2>4, KeyType DEF RGs, StoreOK, InvInv, Working
      <3> HIDE DEF new
      <3> QED BY <2>1, <3>1, <3>2
    <2>5. CASE ApplyStatus
      <3>1. /\ pc = "status" /\ fresh /\ UNCHANGED cm /\ rgs' = [rgs EXCEPT ![Key].stat = prev \union want]
        BY <2>5 DEF ApplyStatus
      <3>2. rgs[Key].objs = prev \union want /\ prev \union want \in SUBSET Objs
        BY <2>0, <3>1 DEF ReadInv, MemoryOK
      <3> QED BY <2>4, <3>1, <3>2
    <2>6. CASE ApplyWithPruneStatus
      <3>1. /\ pc = "rstatus" /\ fresh /\ UNCHANGED cm /\ rgs' = [rgs EXCEPT ![Key].stat = keep]
        BY <2>6 DEF ApplyWithPruneStatus
      <3>2. rgs[Key].objs = keep /\ keep \in SUBSET Objs
        BY <2>0, <3>1 DEF ReadInv, MemoryOK
      <3> QED BY <2>4, <3>1, <3>2
    <2>7. CASE DeleteInventoryObj
      BY <2>1, <2>7 DEF DeleteInventoryObj
    <2>8. ASSUME NEW o \in Objs, OtherMerge(o)
          PROVE  rgs'[k].stat = rgs'[k].objs
      BY <2>1, <2>8, OtherFacts
    <2> QED BY <2>2, <2>3, <2>5, <2>6, <2>7, <2>8, RGWriters
  <1> QED BY <1>1, InitInv, NextInv, PTL DEF Spec, StatusFollowsList

-----------------------------------------------------------------------------
(* The plan foretells the apply *)

(* Nobody watches the ResourceGroup before a command has read it.           *)
StaleInv ==
  fresh => pc \in {"objs", "write", "status", "apply", "prune", "rget", "rwrite", "rstatus",
                   "delinv", "delcm", "delfile"}

(* The plan says of the objects in C that they will be created, if they are *)
(* not there, and of those in D that they will be deleted, if i owns them.  *)
Foretold(i, C, D) ==
  \A o \in Objs :
    /\ o \in C /\ live[o] = Absent => planned.acts[o] \in {"Error", "Create"}
    /\ o \in D /\ live[o] = i.id => planned.acts[o] \in {"Error", "Delete"}

(* The plan so far.                                                         *)
EventsInv ==
  pc = "events" =>
    /\ Foretold(inv, want \ todo, Listed(Key) \ (want \union todo))
    /\ \A o \in todo : o \in keep <=> live[o] # Absent

ListOf(i) == Listed(<<i.name, i.ns>>)

(* Where an apply is that can still follow the plan.                        *)
Ahead == {"idle", "load", "verify", "crd", "poll", "plan", "get", "objs", "write"}

PlannedInv ==
  planned.inv # NoInv =>
    /\ pc = "idle" \/ flags.op = "apply"
    /\ pc \in Ahead \union {"status", "apply", "prune"}
    /\ pc \in Ahead => Foretold(planned.inv, planned.want, ListOf(planned.inv) \ planned.want)
    /\ planned.inv = inv /\ planned.want = want =>
         /\ pc \in {"status", "apply"} => Foretold(inv, todo, prev \ want)
         /\ pc = "prune" => Foretold(inv, {}, todo)

(* An apply has read what it merged with.                                   *)
PrevInv ==
  flags.op = "apply" =>
    /\ pc \in {"load", "verify", "crd", "poll", "plan", "get", "objs"} => prev = {}
    /\ pc = "write" /\ fresh => prev \subseteq Listed(Key)
    /\ pc = "apply" => todo \subseteq want

PlanInv == StaleInv /\ EventsInv /\ PlannedInv /\ PrevInv

(* As long as an apply is ahead, and objects and lists stay, the plan holds. *)
LEMMA PlannedKeeps ==
  ASSUME PlannedInv, planned.inv # NoInv => pc \in Ahead, pc' \in Ahead,
         UNCHANGED <<live, rgs, planned>>,
         planned.inv # NoInv => pc' = "idle" \/ flags'.op = "apply"
  PROVE  PlannedInv'
  BY DEF PlannedInv, Foretold, ListOf, Listed, Ahead

LEMMA PlanReturns ==
  ASSUME PlanInv, Return, UNCHANGED <<live, rgs, planned>>, pc \in Ahead \/ planned.inv = NoInv
  PROVE  PlanInv'
  <1>1. StaleInv' /\ EventsInv' /\ PrevInv'
    BY NoFlagsType DEF Return, StaleInv, EventsInv, PrevInv
  <1>2. PlannedInv'
    BY PlannedKeeps DEF Return, PlanInv, Ahead
  <1> QED BY <1>1, <1>2 DEF PlanInv

(* Steps of a command before it touches the cluster.                        *)
LEMMA PlanQuiet ==
  ASSUME PlanInv, pc # "idle", pc' \in PCs \ {"events", "status", "apply", "prune", "write"},
         UNCHANGED <<live, rgs, planned, flags, fresh, prev>>,
         planned.inv # NoInv => pc \in Ahead /\ pc' \in Ahead \ {"idle"},
         fresh => pc' \in {"objs", "rget", "rwrite", "rstatus", "delinv", "delcm", "delfile"},
         flags.op = "apply" =>
           pc \in {"load", "verify", "crd", "poll", "plan", "get", "objs"}
             \/ pc' \notin {"load", "verify", "crd", "poll", "plan", "get", "objs"}
  PROVE  PlanInv'
  <1>1. StaleInv' /\ EventsInv' /\ PrevInv'
    BY DEF PlanInv, StaleInv, EventsInv, PrevInv
  <1>2. PlannedInv'
    BY PlannedKeeps DEF PlanInv, PlannedInv, Ahead
  <1> QED BY <1>1, <1>2 DEF PlanInv

(* Nothing is planned, or the plan is given up.                             *)
LEMMA PlanDropped ==
  ASSUME PlanInv, planned'.inv = NoInv, StaleInv', EventsInv', PrevInv'
  PROVE  PlanInv'
  BY DEF PlanInv, PlannedInv

LEMMA PlanBegin ==
  ASSUME IndInv, PlanInv, NEW f \in Invocations,
         \/ BeginInit(f) \/ BeginInstall(f) \/ BeginMigrate(f)
         \/ BeginApply(f) \/ BeginDestroy(f) \/ BeginStatus(f) \/ BeginPlan(f)
  PROVE  PlanInv'
  <1>1. PICK l \in {"cfgread", "crd", "retrieve", "load"} :
          Begin(f, l) /\ (f \in ApplyLines => l = "load" /\ f.op = "apply")
    BY LinesType
    DEF BeginInit, BeginInstall, BeginMigrate, BeginApply, BeginDestroy, BeginStatus, BeginPlan
  <1>2. /\ pc = "idle" /\ flags' = f /\ pc' = l /\ UNCHANGED <<rgs, live, prev, fresh>>
        /\ planned' = IF f \in ApplyLines THEN planned ELSE NoPlan
        /\ prev = {} /\ fresh = FALSE
    BY <1>1 DEF Begin, cluster, plan, IndInv, OpInv
  <1>3. StaleInv' /\ EventsInv' /\ PrevInv'
    BY <1>2 DEF StaleInv, EventsInv, PrevInv
  <1>4. PlannedInv'
    <2>1. CASE f \in ApplyLines
      BY <1>1, <1>2, <2>1, PlannedKeeps DEF PlanInv, Ahead
    <2>2. CASE f \notin ApplyLines
      BY <1>2, <2>2 DEF PlannedInv, NoPlan
    <2> QED BY <2>1, <2>2
  <1> QED BY <1>3, <1>4 DEF PlanInv

LEMMA PlanStopEdit ==
  ASSUME IndInv, PlanInv, Stop \/ \E S \in SUBSET Objs, strings \in BOOLEAN : Edit(S, strings)
  PROVE  PlanInv'
  <1>1. CASE Stop
    <2>1. planned'.inv = NoInv /\ Return
      BY <1>1 DEF Stop, NoPlan
    <2>2. StaleInv' /\ EventsInv' /\ PrevInv'
      BY <2>1, NoFlagsType DEF Return, StaleInv, EventsInv, PrevInv
    <2> QED BY <2>1, <2>2, PlanDropped
  <1>2. ASSUME NEW S \in SUBSET Objs, NEW strings \in BOOLEAN, Edit(S, strings)
        PROVE  PlanInv'
    <2>1. planned' = NoPlan /\ pc = "idle" /\ UNCHANGED <<pc, flags, fresh>>
      BY <1>2 DEF Edit
    <2>2. planned'.inv = NoInv
      BY <2>1 DEF NoPlan
    <2>3. flags.op = "none" /\ fresh = FALSE
      BY <2>1, NoFlagsType DEF IndInv, OpInv
    <2>4. StaleInv' /\ EventsInv' /\ PrevInv'
      BY <2>1, <2>3 DEF StaleInv, EventsInv, PrevInv
    <2> QED BY <2>2, <2>4, PlanDropped
  <1> QED BY <1>1, <1>2

LEMMA PlanCRD ==
  ASSUME IndInv, PlanInv, VerifyCRD \/ InstallRG \/ PollEnds \/ Establish
  PROVE  PlanInv'
  <1>1. CASE Establish
    <2>1. UNCHANGED <<planned, live, rgs, flags, pc, inv, want, prev, todo, keep, fresh>>
      BY <1>1 DEF Establish, plan
    <2> QED BY <2>1 DEF PlanInv, StaleInv, EventsInv, PlannedInv, PrevInv, Foretold, ListOf, Listed, Key
  <1>2. CASE VerifyCRD \/ InstallRG \/ PollEnds
    <2>1. pc \in {"verify", "crd", "poll"} /\ UNCHANGED <<live, rgs, planned>> /\ fresh = FALSE
      BY <1>2 DEF VerifyCRD, InstallRG, PollEnds, PlanInv, StaleInv, IndInv, TypeOK, cluster
    <2>2. CASE Return
      BY <2>1, <2>2, PlanReturns DEF Ahead
    <2>3. ASSUME UNCHANGED <<flags, fresh, prev>>, pc' \in {"crd", "poll", "plan", "retrieve"},
                 pc' = "retrieve" => flags.op # "apply"
          PROVE  PlanInv'
      <3>1. planned.inv # NoInv => pc \in Ahead /\ pc' \in Ahead \ {"idle"}
        BY <2>1, <2>3 DEF PlanInv, PlannedInv, Ahead
      <3> QED BY <2>1, <2>3, <3>1, PlanQuiet DEF PCs
    <2>4. \/ Return
          \/ /\ UNCHANGED <<flags, fresh, prev>> /\ pc' \in {"crd", "poll", "plan", "retrieve"}
             /\ pc' = "retrieve" => flags.op # "apply"
      BY <1>2 DEF VerifyCRD, InstallRG, PollEnds, AfterCRD, Goto, plan
    <2> QED BY <2>2, <2>3, <2>4
  <1> QED BY <1>1, <1>2

(* init and migrate are not applied after a plan.                           *)
LEMMA PlanMigrate ==
  ASSUME IndInv, PlanInv,
         \/ ConfigureInventoryInfo \/ WriteRGFile \/ RewriteKptfile
         \/ RetrieveConfigMap \/ MigrateKptfile \/ RetrieveInvObjs
         \/ DeleteConfigMapInv \/ DeleteConfigMapFile
  PROVE  PlanInv'
  <1>1. /\ flags.op \in {"init", "migrate"} /\ UNCHANGED <<live, rgs, planned>>
        /\ pc \in {"cfgread", "cfgrg", "cfgkf", "retrieve", "kptfile", "cmobjs", "delcm", "delfile"}
    BY DEF ConfigureInventoryInfo, WriteRGFile, RewriteKptfile, RetrieveConfigMap, MigrateKptfile,
           RetrieveInvObjs, DeleteConfigMapInv, DeleteConfigMapFile, IndInv, OpInv, cluster
  <1>2. planned.inv = NoInv
    BY <1>1 DEF PlanInv, PlannedInv
  <1>3. CASE Return
    BY <1>1, <1>2, <1>3, PlanReturns
  <1>4. ASSUME UNCHANGED <<flags, fresh, prev>>,
               pc' \in {"cfgread", "cfgrg", "cfgkf", "kptfile", "cmobjs", "load", "delcm", "delfile"},
               pc \in {"delcm", "delfile"} => pc' \in {"delcm", "delfile"}
        PROVE  PlanInv'
    BY <1>1, <1>2, <1>4, PlanQuiet DEF PCs, PlanInv, StaleInv
  <1>5. \/ Return
        \/ /\ UNCHANGED <<flags, fresh, prev>>
           /\ pc' \in {"cfgread", "cfgrg", "cfgkf", "kptfile", "cmobjs", "load", "delcm", "delfile"}
           /\ pc \in {"delcm", "delfile"} => pc' \in {"delcm", "delfile"}
    BY DEF ConfigureInventoryInfo, WriteRGFile, RewriteKptfile, RetrieveConfigMap, MigrateKptfile,
           RetrieveInvObjs, DeleteConfigMapInv, DeleteConfigMapFile, Goto, plan
  <1> QED BY <1>3, <1>4, <1>5

LEMMA PlanLoad ==
  ASSUME IndInv, PlanInv, Load \/ Plan \/ FetchResources
  PROVE  PlanInv'
  <1>1. pc \in {"load", "plan"} /\ UNCHANGED <<live, rgs, planned>>
    BY DEF Load, Plan, FetchResources, cluster
  <1>2. CASE Return
    BY <1>1, <1>2, PlanReturns DEF Ahead
  <1>3. CASE Load /\ ~Return
    <2>1. UNCHANGED <<flags, fresh, prev>> /\ pc' \in {"verify", "plan", "get"}
      BY <1>3 DEF Load, Goto, IndInv, OpInv
    <2> QED BY <1>1, <2>1, PlanQuiet DEF PCs, Ahead, PlanInv, StaleInv
  <1>4. CASE Plan /\ ~Return /\ flags.op = "apply"
    <2>1. UNCHANGED <<flags, fresh, prev>> /\ pc' = "get"
      BY <1>4 DEF Plan, Goto
    <2> QED BY <1>1, <2>1, <1>4, PlanQuiet DEF PCs, Ahead, PlanInv, StaleInv, Plan
  <1>5. CASE Plan /\ ~Return /\ flags.op = "destroy"
    <2>1. planned'.inv = NoInv /\ pc' = "prune" /\ UNCHANGED <<flags, fresh>>
      BY <1>1, <1>5 DEF Plan, Goto, PlanInv, PlannedInv
    <2>2. StaleInv' /\ EventsInv' /\ PrevInv'
      BY <1>5, <2>1 DEF StaleInv, EventsInv, PrevInv
    <2> QED BY <2>1, <2>2, PlanDropped
  <1>6. CASE FetchResources
    <2>1. planned'.inv = NoInv /\ pc' = "events" /\ UNCHANGED <<flags, fresh, inv, want, rgs, live>> /\ pc = "plan"
          /\ flags.op = "plan"
      BY <1>1, <1>6 DEF FetchResources, Goto, PlanInv, PlannedInv, cluster
    <2>2. todo' = want \union {o \in Listed(Key) : live[o] # Absent} /\ keep' = {o \in todo' : live[o] # Absent}
      BY <1>6 DEF FetchResources
    <2>3. Key' = Key /\ Listed(Key)' = Listed(Key)
      BY <2>1 DEF Key, Listed
    <2>4. (Foretold(inv, want \ todo, Listed(Key) \ (want \union todo)))'
      <3>1. inv.id # Absent
        BY <2>1, LiveAssumption DEF IndInv, InvInv, Working, Invs
      <3> QED BY <2>1, <2>2, <2>3, <3>1 DEF Foretold
    <2>5. StaleInv' /\ EventsInv' /\ PrevInv'
      BY <2>1, <2>2, <2>4 DEF StaleInv, EventsInv, PrevInv, PlanInv
    <2> QED BY <2>1, <2>5, PlanDropped
  <1> QED BY <1>2, <1>3, <1>4, <1>5, <1>6 DEF Plan

(* The events fill the plan in, one object at a time.                       *)
LEMMA PlanEvents ==
  ASSUME IndInv, PlanInv, BuildPlan \/ \E o \in Objs : DryRunEvent(o)
  PROVE  PlanInv'
  <1>0. /\ pc = "events" /\ planned.inv = NoInv /\ inv \in Invs /\ inv.id # Absent
        /\ planned.acts \in [Objs -> ActionTypes]
        /\ planned \in [inv : Invs \union {NoInv}, want : SUBSET Objs, acts : [Objs -> ActionTypes]]
    BY LiveAssumption
    DEF BuildPlan, DryRunEvent, PlanInv, PlannedInv, IndInv, InvInv, Working, Invs, OpInv, TypeOK
  <1>1. CASE BuildPlan
    <2>1. /\ planned'.inv = inv /\ planned'.want = want /\ planned'.acts = planned.acts
          /\ UNCHANGED <<live, rgs>> /\ todo = {}
      BY <1>0, <1>1 DEF BuildPlan, cluster
    <2>2. StaleInv' /\ EventsInv' /\ PrevInv'
      BY <1>1, NoFlagsType DEF BuildPlan, Return, StaleInv, EventsInv, PrevInv
    <2>3. Foretold(inv, want, Listed(Key) \ want)
      BY <1>0, <2>1 DEF PlanInv, EventsInv, Foretold
    <2>4. ListOf(planned.inv)' = Listed(Key)
      BY <2>1 DEF ListOf, Listed, Key
    <2>5. (Foretold(planned.inv, planned.want, ListOf(planned.inv) \ planned.want))'
      BY <2>1, <2>3, <2>4 DEF Foretold
    <2> QED BY <1>1, <2>2, <2>5 DEF PlanInv, PlannedInv, BuildPlan, Return, Ahead
  <1>2. ASSUME NEW o \in Objs, DryRunEvent(o)
        PROVE  PlanInv'
    <2>1. PICK type \in {"Error", IF o \in want THEN HandleApplyEvent(o) ELSE HandlePruneEvent(o)} :
            planned' = [planned EXCEPT !.acts[o] = type]
      BY <1>2 DEF DryRunEvent
    <2>2. /\ planned'.inv = NoInv
          /\ planned'.acts[o] = type
          /\ \A p \in Objs \ {o} : planned'.acts[p] = planned.acts[p]
      BY <1>0, <2>1
    <2>3. /\ UNCHANGED <<inv, want, keep, rgs, live, fresh, flags, pc, prev>> /\ todo' = todo \ {o} /\ o \in todo
      BY <1>2 DEF DryRunEvent, Goto, cluster
    <2>4. Key' = Key /\ Listed(Key)' = Listed(Key)
      BY <2>3 DEF Key, Listed
    <2>5. /\ o \in want /\ live[o] = Absent => type \in {"Error", "Create"}
          /\ o \notin want /\ live[o] = inv.id => type \in {"Error", "Delete"}
      BY <1>0, <2>1, <2>3 DEF HandleApplyEvent, HandlePruneEvent, DryRunSkips, PlanInv, EventsInv
    <2>6. (Foretold(inv, want \ todo, Listed(Key) \ (want \union todo)))'
      BY <1>0, <2>2, <2>3, <2>4, <2>5 DEF Foretold, PlanInv, EventsInv
    <2>7. StaleInv' /\ EventsInv' /\ PrevInv'
      BY <1>0, <2>3, <2>6 DEF StaleInv, EventsInv, PrevInv, PlanInv
    <2> QED BY <2>2, <2>7, PlanDropped
  <1> QED BY <1>1, <1>2

LEMMA PlanMerge ==
  ASSUME IndInv, PlanInv, Get \/ GetClusterObjs \/ Apply \/ ApplyStatus
  PROVE  PlanInv'
  <1>0. flags.op \in {"apply", "migrate"} /\ (planned.inv # NoInv => flags.op = "apply")
        /\ inv \in Invs /\ StoreOK
    BY TypeParts DEF Get, GetClusterObjs, Apply, ApplyStatus, IndInv, OpInv, InvInv, Working, PlanInv, PlannedInv
  <1>1. CASE Get
    <2>1. /\ UNCHANGED <<planned, live, rgs, flags, inv, want, prev, todo, keep>> /\ fresh' = TRUE
          /\ pc = "get" /\ pc' = IF rgs[Key] = NoRG THEN "write" ELSE "objs"
      BY <1>1 DEF Get, Goto, cluster, plan
    <2>2. Key' = Key
      BY <2>1 DEF Key
    <2>3. StaleInv' /\ EventsInv' /\ PrevInv'
      BY <2>1, <2>2 DEF StaleInv, EventsInv, PrevInv, PlanInv, Listed
    <2>4. PlannedInv'
      BY <1>0, <2>1, PlannedKeeps DEF PlanInv, Ahead
    <2> QED BY <2>3, <2>4 DEF PlanInv
  <1>2. CASE GetClusterObjs
    <2>1. /\ UNCHANGED <<planned, live, rgs, flags, inv, want, todo, keep, fresh>> /\ prev' = Listed(Key)
          /\ pc = "objs" /\ pc' = "write"
      BY <1>2 DEF GetClusterObjs, Goto, cluster
    <2>2. Listed(Key)' = Listed(Key)
      BY <2>1 DEF Key, Listed
    <2>3. StaleInv' /\ EventsInv' /\ PrevInv'
      BY <2>1, <2>2 DEF StaleInv, EventsInv, PrevInv, PlanInv
    <2>4. PlannedInv'
      BY <1>0, <2>1, PlannedKeeps DEF PlanInv, Ahead
    <2> QED BY <2>3, <2>4 DEF PlanInv
  <1>3. CASE Apply
    <2>1. /\ UNCHANGED <<planned, live, flags, inv, want, prev, todo, keep, fresh>> /\ fresh /\ pc = "write"
          /\ pc' \in {"status", "apply", "delcm"} /\ (flags.op = "apply" => pc' # "delcm")
      BY <1>3 DEF Apply, AfterMerge, CanWrite, Goto, plan
    <2>2. flags.op = "apply" => todo = want /\ prev \subseteq Listed(Key)
      BY <2>1 DEF IndInv, ListedInv, PlanInv, PrevInv
    <2>3. StaleInv' /\ EventsInv' /\ PrevInv'
      BY <1>0, <2>1, <2>2 DEF StaleInv, EventsInv, PrevInv
    <2>4. planned.inv # NoInv /\ planned.inv = inv /\ planned.want = want => Foretold(inv, todo, prev \ want)
      <3>1. ListOf(inv) = Listed(Key)
        BY DEF ListOf, Key
      <3> QED BY <1>0, <2>1, <2>2, <3>1 DEF PlanInv, PlannedInv, Foretold, Ahead
    <2>5. planned.inv # NoInv /\ planned.inv = inv /\ planned.want = want =>
            (Foretold(inv, todo, prev \ want))'
      BY <2>1, <2>4 DEF Foretold
    <2>6. PlannedInv'
      BY <1>0, <2>1, <2>5 DEF PlannedInv, Ahead
    <2> QED BY <2>3, <2>6 DEF PlanInv
  <1>4. CASE ApplyStatus
    <2>1. /\ UNCHANGED <<planned, live, flags, inv, want, prev, todo, keep, fresh>> /\ pc = "status"
          /\ pc' \in {"apply", "delcm"} /\ (flags.op = "apply" => pc' # "delcm")
      BY <1>4 DEF ApplyStatus, AfterMerge, Goto, plan
    <2>2. flags.op = "apply" => todo = want
      BY <2>1 DEF IndInv, ListedInv
    <2>3. StaleInv' /\ EventsInv' /\ PrevInv'
      BY <1>0, <2>1, <2>2 DEF StaleInv, EventsInv, PrevInv
    <2>4. PlannedInv'
      BY <1>0, <2>1 DEF PlanInv, PlannedInv, Ahead, Foretold
    <2> QED BY <2>3, <2>4 DEF PlanInv
  <1> QED BY <1>1, <1>2, <1>3, <1>4

LEMMA PlanTasks ==
  ASSUME IndInv, PlanInv, PruneSet \/ InvSet \/ \E o \in Objs : ApplyObject(o) \/ PruneObject(o)
  PROVE  PlanInv'
  <1>1. CASE PruneSet
    <2>1. /\ UNCHANGED <<planned, live, flags, inv, want, fresh>> /\ pc = "apply" /\ pc' = "prune"
          /\ todo' = prev \ want
      BY <1>1 DEF PruneSet, Goto, cluster
    <2>2. StaleInv' /\ EventsInv' /\ PrevInv'
      BY <2>1 DEF StaleInv, EventsInv, PrevInv
    <2>3. PlannedInv'
      BY <2>1 DEF PlanInv, PlannedInv, Ahead, Foretold
    <2> QED BY <2>2, <2>3 DEF PlanInv
  <1>2. CASE InvSet
    <2>1. /\ planned' = NoPlan /\ UNCHANGED <<flags, fresh>> /\ pc = "prune" /\ pc' \in {"rget", "delinv"}
      BY <1>2 DEF InvSet, Goto
    <2>2. planned'.inv = NoInv
      BY <2>1 DEF NoPlan
    <2>3. StaleInv' /\ EventsInv' /\ PrevInv'
      BY <2>1 DEF StaleInv, EventsInv, PrevInv
    <2> QED BY <2>2, <2>3, PlanDropped
  <1>3. ASSUME NEW o \in Objs, ApplyObject(o)
        PROVE  PlanInv'
    <2>1. /\ UNCHANGED <<planned, flags, inv, want, prev, fresh>> /\ pc = "apply" /\ pc' = "apply"
          /\ todo' = todo \ {o} /\ o \in todo /\ flags.op = "apply"
      BY <1>3 DEF ApplyObject, Goto, IndInv, OpInv
    <2>2. \A p \in Objs \ {o} : live'[p] = live[p]
      BY <1>3 DEF ApplyObject, IndInv, TypeOK
    <2>3. todo \subseteq want
      BY <2>1 DEF PlanInv, PrevInv
    <2>4. StaleInv' /\ EventsInv' /\ PrevInv'
      BY <2>1, <2>3 DEF StaleInv, EventsInv, PrevInv
    <2>5. PlannedInv'
      BY <2>1, <2>2, <2>3 DEF PlanInv, PlannedInv, Ahead, Foretold
    <2> QED BY <2>4, <2>5 DEF PlanInv
  <1>4. ASSUME NEW o \in Objs, PruneObject(o)
        PROVE  PlanInv'
    <2>1. /\ UNCHANGED <<planned, flags, inv, want, prev, fresh>> /\ pc = "prune" /\ pc' = "prune"
          /\ todo' = todo \ {o}
      BY <1>4 DEF PruneObject, Goto
    <2>2. \A p \in Objs \ {o} : live'[p] = live[p]
      BY <1>4 DEF PruneObject, IndInv, TypeOK
    <2>3. StaleInv' /\ EventsInv' /\ PrevInv'
      BY <2>1 DEF StaleInv, EventsInv, PrevInv
    <2>4. PlannedInv'
      BY <2>1, <2>2 DEF PlanInv, PlannedInv, Ahead, Foretold
    <2> QED BY <2>3, <2>4 DEF PlanInv
  <1> QED BY <1>1, <1>2, <1>3, <1>4

(* What is after the tasks follows no plan.                                 *)
LEMMA PlanReplace ==
  ASSUME IndInv, PlanInv,
         \/ ReplaceGet \/ ApplyWithPrune \/ ApplyWithPruneStatus \/ DeleteInventoryObj
         \/ \E o \in Objs : OtherMerge(o)
  PROVE  PlanInv'
  <1>1. CASE \E o \in Objs : OtherMerge(o)
    <2>1. planned' = NoPlan /\ UNCHANGED <<flags, pc, todo, want, prev>> /\ fresh /\ fresh' = FALSE
      BY <1>1 DEF OtherMerge, plan
    <2>2. planned'.inv = NoInv
      BY <2>1 DEF NoPlan
    <2>3. StaleInv' /\ EventsInv' /\ PrevInv'
      BY <2>1 DEF StaleInv, EventsInv, PrevInv, PlanInv
    <2> QED BY <2>2, <2>3, PlanDropped
  <1>2. CASE ReplaceGet \/ ApplyWithPrune \/ ApplyWithPruneStatus \/ DeleteInventoryObj
    <2>1. planned' = planned /\ pc \in {"rget", "rwrite", "rstatus", "delinv"}
      BY <1>2 DEF ReplaceGet, ApplyWithPrune, ApplyWithPruneStatus, DeleteInventoryObj
    <2>2. planned'.inv = NoInv
      BY <2>1 DEF PlanInv, PlannedInv, Ahead
    <2>3. Return \/ pc' \in {"rwrite", "rstatus"}
      BY <1>2 DEF ReplaceGet, ApplyWithPrune, ApplyWithPruneStatus, DeleteInventoryObj, Goto
    <2>4. StaleInv' /\ EventsInv' /\ PrevInv'
      BY <2>3, NoFlagsType DEF StaleInv, EventsInv, PrevInv, Return
    <2> QED BY <2>2, <2>4, PlanDropped
  <1> QED BY <1>1, <1>2

LEMMA PlanInit == Init => PlanInv
  <1> SUFFICES ASSUME Init
               PROVE  PlanInv
    OBVIOUS
  <1>1. flags.op = "none" /\ pc = "idle" /\ fresh = FALSE /\ planned.inv = NoInv
    BY NoFlagsType DEF Init, NoPlan
  <1> QED BY <1>1 DEF PlanInv, StaleInv, EventsInv, PlannedInv, PrevInv

LEMMA PlanNext == IndInv /\ PlanInv /\ [Next]_vars => PlanInv'
  <1> SUFFICES ASSUME IndInv, PlanInv, [Next]_vars
               PROVE  PlanInv'
    OBVIOUS
  <1>1. CASE UNCHANGED vars
    <2>1. UNCHANGED <<planned, live, rgs, flags, pc, inv, want, prev, todo, keep, fresh>>
      BY <1>1 DEF vars, cluster, plan
    <2> QED BY <2>1 DEF PlanInv, StaleInv, EventsInv, PlannedInv, PrevInv, Foretold, ListOf, Listed, Key
  <1> QED
    BY <1>1, PlanBegin, PlanStopEdit, PlanCRD, PlanMigrate, PlanLoad, PlanEvents, PlanMerge, PlanTasks,
       PlanReplace
    DEF Next

(* Only the tasks of an apply or a destroy change objects.                  *)
LEMMA ObjectChanges ==
  ASSUME [Next]_vars
  PROVE  UNCHANGED live \/ \E o \in Objs : ApplyObject(o) \/ PruneObject(o)
  <1>1. CASE \E f \in Invocations : \/ BeginInit(f) \/ BeginInstall(f) \/ BeginMigrate(f)
                                    \/ BeginApply(f) \/ BeginDestroy(f) \/ BeginStatus(f)
                                    \/ BeginPlan(f)
    BY <1>1 DEF BeginInit, BeginInstall, BeginMigrate, BeginApply, BeginDestroy, BeginStatus,
                BeginPlan, Begin, cluster
  <1>2. CASE Stop \/ \E S \in SUBSET Objs, strings \in BOOLEAN : Edit(S, strings)
    BY <1>2 DEF Stop, Edit, cluster
  <1>3. CASE \/ VerifyCRD \/ InstallRG \/ PollEnds \/ Establish
             \/ ConfigureInventoryInfo \/ WriteRGFile \/ RewriteKptfile
    BY <1>3 DEF VerifyCRD, InstallRG, PollEnds, Establish, ConfigureInventoryInfo, WriteRGFile,
                RewriteKptfile, cluster
  <1>4. CASE \/ RetrieveConfigMap \/ MigrateKptfile \/ RetrieveInvObjs
             \/ DeleteConfigMapInv \/ DeleteConfigMapFile
             \/ Load \/ Plan \/ Get \/ GetClusterObjs \/ PruneSet \/ InvSet \/ ReplaceGet
    BY <1>4 DEF RetrieveConfigMap, MigrateKptfile, RetrieveInvObjs, DeleteConfigMapInv,
                DeleteConfigMapFile, Load, Plan, Get, GetClusterObjs, PruneSet, InvSet, ReplaceGet, cluster
  <1>5. CASE FetchResources \/ BuildPlan \/ \E o \in Objs : DryRunEvent(o)
    BY <1>5 DEF FetchResources, BuildPlan, DryRunEvent, cluster
  <1>6. CASE \/ Apply \/ ApplyStatus \/ ApplyWithPrune \/ ApplyWithPruneStatus \/ DeleteInventoryObj
             \/ \E o \in Objs : OtherMerge(o)
    BY <1>6 DEF Apply, ApplyStatus, ApplyWithPrune, ApplyWithPruneStatus, DeleteInventoryObj, OtherMerge
  <1>7. CASE UNCHANGED vars
    BY <1>7 DEF vars, cluster
  <1> QED BY <1>1, <1>2, <1>3, <1>4, <1>5, <1>6, <1>7 DEF Next

(* What alpha live plan prints is what live apply then does to the objects, *)
(* one command later and whatever CRD installation, merge or status update  *)
(* comes between, if the package and the inventory are still the same.      *)
THEOREM PlanForetellsHolds == Spec => PlanForetells
  <1>1. IndInv /\ PlanInv /\ [Next]_vars =>
          [flags.op = "apply" /\ ~flags.adopt /\ planned.inv = inv /\ planned.want = want =>
             \A o \in Objs : live'[o] # live[o] =>
               planned.acts[o] \in {"Error", IF live'[o] = Absent THEN "Delete" ELSE "Create"}]_vars
    <2> SUFFICES ASSUME IndInv, PlanInv, [Next]_vars, flags.op = "apply", ~flags.adopt,
                        planned.inv = inv, planned.want = want, NEW o \in Objs, live'[o] # live[o]
                 PROVE  planned.acts[o] \in {"Error", IF live'[o] = Absent THEN "Delete" ELSE "Create"}
      OBVIOUS
    <2>0. live \in [Objs -> IDs \union {Absent, Unowned}]
      BY DEF IndInv, TypeOK
    <2>1. ASSUME NEW p \in Objs, ApplyObject(p)
          PROVE  planned.acts[o] \in {"Error", IF live'[o] = Absent THEN "Delete" ELSE "Create"}
      <3>1. /\ pc = "apply" /\ p \in todo /\ live' = [live EXCEPT ![p] = inv.id] /\ CanApply(p)
        BY <2>1 DEF ApplyObject
      <3>2. o = p /\ live'[o] = inv.id /\ live[o] = Absent
        BY <2>0, <3>1 DEF CanApply
      <3>3. inv # NoInv /\ inv.id # Absent
        BY <3>1, LiveAssumption DEF IndInv, InvInv, Working, Invs
      <3> QED BY <3>1, <3>2, <3>3 DEF PlanInv, PlannedInv, Foretold
    <2>2. ASSUME NEW p \in Objs, PruneObject(p)
          PROVE  planned.acts[o] \in {"Error", IF live'[o] = Absent THEN "Delete" ELSE "Create"}
      <3>1. /\ pc = "prune" /\ p \in todo /\ live' = [live EXCEPT ![p] = Absent] /\ CanPrune(p)
        BY <2>2 DEF PruneObject
      <3>2. o = p /\ live'[o] = Absent /\ live[o] = inv.id
        BY <2>0, <3>1 DEF CanPrune
      <3>3. inv # NoInv
        BY <3>1, LiveAssumption DEF IndInv, InvInv, Working
      <3> QED BY <3>1, <3>2, <3>3 DEF PlanInv, PlannedInv, Foretold
    <2> QED BY <2>1, <2>2, ObjectChanges
  <1> QED BY <1>1, InitInv, NextInv, PlanInit, PlanNext, PTL DEF Spec, PlanForetells

-----------------------------------------------------------------------------
(* The inventory that a package names tracks its objects *)

RGsOf == {RGFile(f) : f \in RGsOnDisk}

OnDisk == RGsOf \union ({disk.kf} \intersect Invs)

(* The inventories that are on disk, or in the hands of a command.          *)
Known == OnDisk \union ({inv} \intersect Invs)

(* The objects marked with i's id.                                          *)
Marked(i) == {o \in Objs : live[o] = i.id}

(* i is not the inventory of a package that still has its template.         *)
Settled(i) == i.id # TemplateID \/ ~disk.tmpl

(* The ConfigMap lists all objects with the id of the template.             *)
InConfigMap == \A o \in Objs : live[o] = TemplateID => o \in cm

DiskInv ==
  /\ disk.kf \in {NoInv, NoFile, BadInv, KptfileInv}
  /\ disk.tmpl => disk.kf \notin Invs
  /\ disk.tmpl /\ RGsOnDisk = {} => InConfigMap

(* An apply or a destroy works with the only inventory of the package.      *)
UniqueInv == flags.op \in {"apply", "destroy"} /\ inv \in Invs => OnDisk = {inv}

(* The steps of migrating the template, after its id is on disk.            *)
MigrationAt == {"cmobjs", "load", "get", "objs", "write", "status", "delcm", "delfile"}

(* A migration begins on a package without a ResourceGroup file, and gives  *)
(* it one with the id of the template.                                      *)
FromInv ==
  /\ from = "kptfile" /\ pc = "cfgread" => disk.kf \in Invs
  /\ flags.op = "migrate" /\ pc \in MigrationAt => from = "template"
  /\ from = "template" =>
       /\ disk.tmpl
       /\ pc \in {"cfgread", "cfgrg"} => RGsOnDisk = {}
       /\ pc \in {"cfgrg", "cfgkf"} => inv.id = TemplateID
       /\ pc \in {"cfgread", "cfgrg", "cfgkf"} => ~flags.dry

(* The list of the template is in the ConfigMap until it is in the          *)
(* ResourceGroup.                                                           *)
TemplateInv ==
  from = "template" /\ ~flags.dry /\ pc \in MigrationAt \union {"cfgkf"} =>
    /\ RGsOnDisk # {} /\ \A i \in RGsOf : i.id = TemplateID
    /\ inv \in Invs /\ inv.id = TemplateID
    /\ pc \in {"cfgkf", "cmobjs", "load", "get", "objs", "write"} => InConfigMap
    /\ pc \in {"status", "delcm", "delfile"} => Marked(inv) \subseteq ListOf(inv)

(* One inventory for an id, and it lists what has the id.                   *)
KnownInv ==
  /\ \A i, j \in Known : i.id = j.id => i = j
  /\ \A i \in Known : Settled(i) => Marked(i) \subseteq ListOf(i)

(* What a command has still to come to, or will keep.                       *)
MarkedInv ==
  flags.op \in {"apply", "destroy"} /\ inv \in Invs /\ Settled(inv) =>
    /\ pc = "status" => Marked(inv) \subseteq prev
    /\ pc = "apply" => Marked(inv) \subseteq (prev \ want) \union (todo \intersect prev) \union keep
    /\ pc = "prune" => Marked(inv) \subseteq todo \union keep
    /\ pc \in {"rget", "rwrite"} => Marked(inv) \subseteq keep
    /\ pc = "delinv" => Marked(inv) = {}

TrackInv == DiskInv /\ UniqueInv /\ FromInv /\ TemplateInv /\ KnownInv /\ MarkedInv

LEMMA SameDisk ==
  ASSUME UNCHANGED disk
  PROVE  UNCHANGED <<RGsOnDisk, RGsOf, OnDisk>>
  BY DEF RGsOnDisk, RGsOf, OnDisk, RGFile

(* Inventories may be forgotten and lists may grow.                         *)
LEMMA KnownKeeps ==
  ASSUME KnownInv, Known' \subseteq Known, UNCHANGED live, disk'.tmpl = disk.tmpl,
         \A i \in Known : ListOf(i) \subseteq ListOf(i)'
  PROVE  KnownInv'
  <1>1. \A i \in Known : Settled(i)' => Settled(i)
    BY DEF Settled
  <1>2. \A i \in Known : Marked(i)' = Marked(i)
    BY DEF Marked
  <1> QED BY <1>1, <1>2 DEF KnownInv

LEMMA SameListOf ==
  ASSUME UNCHANGED rgs
  PROVE  \A i : ListOf(i)' = ListOf(i)
  BY DEF ListOf, Listed

LEMMA KeyList == ListOf(inv) = Listed(Key)
  BY DEF ListOf, Key

(* A command that returns and leaves the disk as it was.                    *)
LEMMA TrackReturns ==
  ASSUME TrackInv, Return, DiskInv', KnownInv'
  PROVE  TrackInv'
  <1>1. pc' = "idle" /\ flags'.op = "none" /\ from' = "flags"
    BY NoFlagsType DEF Return
  <1> QED BY <1>1 DEF TrackInv, UniqueInv, FromInv, TemplateInv, MarkedInv

LEMMA QuietReturns ==
  ASSUME TrackInv, Return, UNCHANGED <<disk, cm, rgs, live>>, IndInv
  PROVE  TrackInv'
  <1>1. DiskInv'
    BY SameDisk DEF TrackInv, DiskInv, InConfigMap
  <1>2. Known' \subseteq Known
    BY SameDisk, LiveAssumption DEF Known, Return
  <1>3. KnownInv'
    BY <1>2, KnownKeeps, SameListOf DEF TrackInv
  <1> QED BY <1>1, <1>3, TrackReturns

(* A step that leaves package, inventory and objects as they were.          *)
LEMMA TrackQuiet ==
  ASSUME TrackInv, UNCHANGED <<disk, cm, rgs, live, inv, flags, from>>, pc # "idle",
         pc' \notin {"status", "apply", "prune", "rget", "rwrite", "delinv"},
         pc' = "cfgread" => from # "kptfile",
         flags.op = "migrate" /\ pc' \in MigrationAt => pc \in MigrationAt,
         from = "template" =>
           /\ pc' \in {"cfgread", "cfgrg"} => pc \in {"cfgread", "cfgrg"}
           /\ pc' \in {"cfgrg", "cfgkf"} => pc \in {"cfgrg", "cfgkf"}
           /\ pc' = "cfgread" => pc = "cfgread",
         from = "template" /\ ~flags.dry /\ pc' \in MigrationAt \union {"cfgkf"} =>
           /\ pc \in MigrationAt \union {"cfgkf"}
           /\ pc' \notin {"delcm", "delfile"} => pc \in {"cfgkf", "cmobjs", "load", "get", "objs", "write"}
           /\ pc' \in {"delcm", "delfile"} => pc \in {"status", "delcm", "delfile"}
  PROVE  TrackInv'
  <1>1. DiskInv' /\ UniqueInv'
    BY SameDisk DEF TrackInv, DiskInv, UniqueInv, InConfigMap
  <1>2. KnownInv'
    BY SameDisk, KnownKeeps, SameListOf DEF TrackInv, Known
  <1>3. FromInv'
    BY SameDisk DEF TrackInv, FromInv
  <1>4. TemplateInv'
    BY SameDisk, SameListOf DEF TrackInv, TemplateInv, InConfigMap, Marked
  <1>5. MarkedInv'
    BY DEF MarkedInv
  <1> QED BY <1>1, <1>2, <1>3, <1>4, <1>5 DEF TrackInv

LEMMA TrackBegin ==
  ASSUME IndInv, TrackInv, NEW f \in Invocations,
         \/ BeginInit(f) \/ BeginInstall(f) \/ BeginMigrate(f)
         \/ BeginApply(f) \/ BeginDestroy(f) \/ BeginStatus(f) \/ BeginPlan(f)
  PROVE  TrackInv'
  <1>1. PICK l \in {"cfgread", "crd", "retrieve", "load"} : Begin(f, l) /\ (f.op = "migrate" => l # "load")
    BY LinesType
    DEF BeginInit, BeginInstall, BeginMigrate, BeginApply, BeginDestroy, BeginStatus, BeginPlan
  <1>2. /\ flags' = f /\ pc' = l /\ UNCHANGED <<disk, cm, rgs, live, inv, from>>
        /\ inv = NoInv /\ from = "flags"
    BY <1>1 DEF Begin, cluster, IndInv, OpInv
  <1>3. DiskInv' /\ UniqueInv'
    BY <1>2, SameDisk, LiveAssumption DEF TrackInv, DiskInv, UniqueInv, InConfigMap
  <1>4. KnownInv'
    BY <1>2, SameDisk, KnownKeeps, SameListOf DEF TrackInv, Known
  <1>5. FromInv' /\ TemplateInv' /\ MarkedInv'
    BY <1>1, <1>2, LiveAssumption DEF FromInv, TemplateInv, MarkedInv, MigrationAt
  <1> QED BY <1>3, <1>4, <1>5 DEF TrackInv

LEMMA TrackStopEdit ==
  ASSUME IndInv, TrackInv, Stop \/ \E S \in SUBSET Objs, strings \in BOOLEAN : Edit(S, strings)
  PROVE  TrackInv'
  <1>1. CASE Stop
    BY <1>1, QuietReturns DEF Stop, cluster
  <1>2. ASSUME NEW S \in SUBSET Objs, NEW strings \in BOOLEAN, Edit(S, strings)
        PROVE  TrackInv'
    <2>1. /\ disk'.tmpl = disk.tmpl /\ disk'.kf = disk.kf /\ disk'.rg = disk.rg
          /\ UNCHANGED <<cm, rgs, live, flags, pc, from, inv>> /\ pc = "idle" /\ from = "flags"
          /\ flags.op = "none"
      BY <1>2, NoFlagsType DEF Edit, cluster, IndInv, TypeOK, OpInv
    <2>2. UNCHANGED <<RGsOnDisk, RGsOf, OnDisk, Known>>
      BY <2>1 DEF RGsOnDisk, RGsOf, OnDisk, RGFile, Known
    <2>3. DiskInv' /\ UniqueInv'
      BY <2>1, <2>2 DEF TrackInv, DiskInv, UniqueInv, InConfigMap
    <2>4. KnownInv'
      BY <2>1, <2>2, KnownKeeps, SameListOf DEF TrackInv
    <2>5. FromInv' /\ TemplateInv' /\ MarkedInv'
      BY <2>1 DEF FromInv, TemplateInv, MarkedInv
    <2> QED BY <2>3, <2>4, <2>5 DEF TrackInv
  <1> QED BY <1>1, <1>2

(* Nothing of the cluster changes but the CRD.                              *)
LEMMA TrackCRD ==
  ASSUME IndInv, TrackInv, VerifyCRD \/ InstallRG \/ PollEnds \/ Establish
  PROVE  TrackInv'
  <1>1. CASE Establish
    <2>1. UNCHANGED <<disk, cm, rgs, live, inv, flags, from, pc, want, prev, todo, keep>>
      BY <1>1 DEF Establish, plan
    <2>2. DiskInv' /\ UniqueInv'
      BY <2>1, SameDisk DEF TrackInv, DiskInv, UniqueInv, InConfigMap
    <2>3. KnownInv'
      BY <2>1, SameDisk, KnownKeeps, SameListOf DEF TrackInv, Known
    <2>4. FromInv'
      BY <2>1, SameDisk DEF TrackInv, FromInv
    <2>5. TemplateInv'
      BY <2>1, SameDisk, SameListOf DEF TrackInv, TemplateInv, InConfigMap, Marked
    <2>6. MarkedInv'
      BY <2>1 DEF TrackInv, MarkedInv, Marked, Settled
    <2> QED BY <2>2, <2>3, <2>4, <2>5, <2>6 DEF TrackInv
  <1>2. CASE VerifyCRD \/ InstallRG \/ PollEnds
    <2>1. /\ pc \in {"verify", "crd", "poll"} /\ UNCHANGED <<disk, cm, rgs, live>>
          /\ \/ Return
             \/ UNCHANGED <<inv, flags, from>> /\ pc' \in {"crd", "poll", "plan", "retrieve"}
      BY <1>2 DEF VerifyCRD, InstallRG, PollEnds, AfterCRD, Goto, cluster
    <2> QED BY <2>1, QuietReturns, TrackQuiet DEF MigrationAt
  <1> QED BY <1>1, <1>2

(* The plan changes nothing.                                                *)
LEMMA TrackPlan ==
  ASSUME IndInv, TrackInv, FetchResources \/ BuildPlan \/ \E o \in Objs : DryRunEvent(o)
  PROVE  TrackInv'
  <1>1. /\ pc \in {"plan", "events"} /\ UNCHANGED <<disk, cm, rgs, live>>
        /\ \/ Return
           \/ UNCHANGED <<inv, flags, from>> /\ pc' = "events"
    BY DEF FetchResources, BuildPlan, DryRunEvent, Goto, cluster
  <1> QED BY <1>1, QuietReturns, TrackQuiet DEF MigrationAt

-----------------------------------------------------------------------------
(* init and migrate *)

(* A new inventory has an id of its own; a migrated one has the id of the   *)
(* template, or is the one of the Kptfile.                                  *)
LEMMA TrackConfigure ==
  ASSUME IndInv, TrackInv, ConfigureInventoryInfo, FoundNamespaces \subseteq {KptfileInv.ns}
  PROVE  TrackInv'
  <1>0. /\ pc = "cfgread" /\ pc' = "cfgrg" /\ UNCHANGED <<disk, cm, rgs, live, flags, from>>
        /\ flags.op \in {"init", "migrate"} /\ from \in {"flags", "template", "kptfile"}
    BY DEF ConfigureInventoryInfo, Goto, cluster, IndInv, OpInv, TypeOK
  <1>1. PICK ns \in FoundNamespaces, n \in Names, id \in IDs :
          /\ inv' = [name |-> n, ns |-> ns, id |-> id]
          /\ from = "flags" => id \notin UsedIDs
          /\ from = "template" => id = TemplateID
          /\ from = "kptfile" => n = disk.kf.name /\ id = disk.kf.id
    BY <1>0 DEF ConfigureInventoryInfo
  <1>2. DiskInv' /\ UniqueInv' /\ MarkedInv'
    BY <1>0, SameDisk DEF TrackInv, DiskInv, UniqueInv, MarkedInv, InConfigMap
  <1>3. FromInv'
    BY <1>0, <1>1, SameDisk DEF TrackInv, FromInv, MigrationAt
  <1>4. TemplateInv'
    BY <1>0 DEF TemplateInv, MigrationAt
  <1>5. inv' \in Invs /\ Known' = OnDisk \union {inv'} /\ OnDisk \subseteq Known /\ inv'.id = id
    BY <1>0, <1>1, SameDisk, LiveAssumption DEF Known, Invs
  <1>6. KnownInv'
    <2>1. CASE from = "flags"
      <3>1. \A i \in OnDisk : i.id \in UsedIDs
        <4>1. \A i \in RGsOf : i.id \in UsedIDs
          BY DEF RGsOf, RGFile, UsedIDs
        <4>2. disk.kf \in Invs => disk.kf.id \in UsedIDs
          BY LiveAssumption DEF TrackInv, DiskInv, UsedIDs
        <4> QED BY <4>1, <4>2 DEF OnDisk
      <3>2. \A i, j \in Known' : i.id = j.id => i = j
        BY <1>1, <1>5, <2>1, <3>1 DEF TrackInv, KnownInv
      <3>3. \A i \in OnDisk : Settled(i)' => Marked(i)' \subseteq ListOf(i)'
        BY <1>0, <1>5, SameListOf DEF TrackInv, KnownInv, Settled, Marked
      <3>4. \A i \in Known' : Settled(i)' => Marked(i)' \subseteq ListOf(i)'
        BY <1>1, <1>0, <1>5, <2>1, <3>3 DEF Marked, UsedIDs
      <3> QED BY <3>2, <3>4 DEF KnownInv
    <2>2. CASE from = "template"
      <3>1. OnDisk = {}
        BY <1>0, <2>2 DEF TrackInv, FromInv, DiskInv, OnDisk, RGsOf
      <3>2. Known' = {inv'}
        BY <1>5, <3>1
      <3> QED BY <1>0, <1>1, <1>5, <2>2, <3>2 DEF KnownInv, Settled, TrackInv, FromInv
    <2>3. CASE from = "kptfile"
      <3>1. disk.kf = KptfileInv /\ ns = KptfileInv.ns
        BY <1>0, <2>3, LiveAssumption DEF TrackInv, FromInv, DiskInv
      <3>2. inv' = KptfileInv
        BY <1>1, <2>3, <3>1, LiveAssumption DEF Invs
      <3>3. Known' \subseteq Known
        BY <1>5, <3>1, <3>2, LiveAssumption DEF OnDisk, Known
      <3> QED BY <1>0, <3>3, KnownKeeps, SameListOf DEF TrackInv
    <2> QED BY <1>0, <2>1, <2>2, <2>3
  <1> QED BY <1>2, <1>3, <1>4, <1>6 DEF TrackInv

LEMMA TrackFiles ==
  ASSUME IndInv, TrackInv, WriteRGFile \/ RewriteKptfile
  PROVE  TrackInv'
  <1>0. /\ UNCHANGED <<cm, rgs, live>> /\ flags.op \in {"init", "migrate"} /\ inv \in Invs
        /\ flags.file \in RGFiles /\ inv # NoInv /\ disk.rg \in [RGFiles -> Invs \union {NoInv}]
        /\ disk \in [tmpl : BOOLEAN, kf : Invs \union {NoInv, BadInv, NoFile},
                     rg : [RGFiles -> Invs \union {NoInv}], objs : SUBSET Objs, strings : BOOLEAN]
    BY LiveAssumption
    DEF WriteRGFile, RewriteKptfile, cluster, IndInv, OpInv, InvInv, Working, TypeOK, Flags
  <1>1. CASE WriteRGFile
    <2>1. /\ disk'.tmpl = disk.tmpl /\ disk'.kf = disk.kf
          /\ disk'.rg = [disk.rg EXCEPT ![flags.file] = inv]
          /\ pc = "cfgrg" /\ pc' = "cfgkf" /\ UNCHANGED <<inv, flags, from>>
      BY <1>0, <1>1 DEF WriteRGFile, Goto
    <2>2. /\ RGsOnDisk' = RGsOnDisk \union {flags.file}
          /\ RGsOf' \subseteq RGsOf \union {inv}
      <3>1. \A f \in RGFiles : RGFile(f)' = IF f = flags.file THEN inv ELSE RGFile(f)
        BY <1>0, <2>1 DEF RGFile
      <3>2. RGsOnDisk' = RGsOnDisk \union {flags.file}
        BY <1>0, <3>1 DEF RGsOnDisk
      <3>3. RGsOf' \subseteq RGsOf \union {inv}
        BY <1>0, <3>1, <3>2 DEF RGsOf, RGsOnDisk
      <3> QED BY <3>2, <3>3
    <2>3. Known' \subseteq Known
      BY <1>0, <2>1, <2>2 DEF Known, OnDisk
    <2>4. KnownInv'
      BY <1>0, <2>1, <2>3, KnownKeeps, SameListOf DEF TrackInv
    <2>5. DiskInv' /\ UniqueInv' /\ MarkedInv'
      BY <1>0, <2>1, <2>2 DEF TrackInv, DiskInv, UniqueInv, MarkedInv
    <2>6. FromInv'
      BY <2>1 DEF TrackInv, FromInv, MigrationAt
    <2>7. TemplateInv'
      <3> SUFFICES ASSUME from = "template"
                   PROVE  TemplateInv'
        BY <2>1 DEF TemplateInv
      <3>1. disk.tmpl /\ RGsOnDisk = {} /\ inv.id = TemplateID /\ RGsOf = {}
        BY <2>1 DEF TrackInv, FromInv, RGsOf
      <3>2. InConfigMap'
        BY <1>0, <3>1 DEF TrackInv, DiskInv, InConfigMap
      <3> QED BY <1>0, <2>1, <2>2, <3>1, <3>2 DEF TemplateInv
    <2> QED BY <2>4, <2>5, <2>6, <2>7 DEF TrackInv
  <1>2. CASE RewriteKptfile
    <2>1. /\ disk'.tmpl = disk.tmpl /\ disk'.kf \in {disk.kf, NoInv} /\ disk'.rg = disk.rg
          /\ pc = "cfgkf"
          /\ \/ Return
             \/ from = "template" /\ pc' = "cmobjs" /\ UNCHANGED <<inv, flags, from>>
      BY <1>0, <1>2 DEF RewriteKptfile, Goto
    <2>2. UNCHANGED <<RGsOnDisk, RGsOf>>
      BY <2>1 DEF RGsOnDisk, RGsOf, RGFile
    <2>3. Known' \subseteq Known
      BY <2>1, <2>2, LiveAssumption DEF Known, OnDisk, Return
    <2>4. KnownInv'
      BY <1>0, <2>1, <2>3, KnownKeeps, SameListOf DEF TrackInv
    <2>5. DiskInv'
      BY <1>0, <2>1, <2>2, LiveAssumption DEF TrackInv, DiskInv, InConfigMap
    <2>6. CASE Return
      BY <2>4, <2>5, <2>6, TrackReturns
    <2>7. CASE from = "template" /\ pc' = "cmobjs" /\ UNCHANGED <<inv, flags, from>>
      <3>1. UniqueInv' /\ MarkedInv' /\ FromInv'
        BY <1>0, <2>1, <2>7 DEF TrackInv, UniqueInv, MarkedInv, FromInv
      <3>2. TemplateInv'
        BY <1>0, <2>1, <2>2, <2>7 DEF TrackInv, TemplateInv, InConfigMap, MigrationAt
      <3> QED BY <2>4, <2>5, <3>1, <3>2 DEF TrackInv
    <2> QED BY <2>1, <2>6, <2>7
  <1> QED BY <1>1, <1>2

LEMMA TrackMigrate ==
  ASSUME IndInv, TrackInv,
         \/ RetrieveConfigMap \/ MigrateKptfile \/ RetrieveInvObjs
         \/ DeleteConfigMapInv \/ DeleteConfigMapFile
  PROVE  TrackInv'
  <1>1. CASE RetrieveConfigMap
    <2>1. /\ pc = "retrieve" /\ UNCHANGED <<disk, cm, rgs, live, inv, flags>> /\ flags.op = "migrate"
          /\ \/ /\ disk.tmpl /\ RGsOnDisk = {} /\ from' = "template"
                /\ pc' = IF flags.dry THEN "cmobjs" ELSE "cfgread"
             \/ from' = "kptfile" /\ pc' = "kptfile"
      BY <1>1 DEF RetrieveConfigMap, cluster, IndInv, OpInv
    <2>2. DiskInv' /\ UniqueInv' /\ MarkedInv'
      BY <2>1, SameDisk DEF TrackInv, DiskInv, UniqueInv, MarkedInv, InConfigMap
    <2>3. KnownInv'
      BY <2>1, SameDisk, KnownKeeps, SameListOf DEF TrackInv, Known
    <2>4. FromInv'
      BY <2>1, SameDisk DEF FromInv, MigrationAt
    <2>5. TemplateInv'
      BY <2>1 DEF TemplateInv, MigrationAt
    <2> QED BY <2>2, <2>3, <2>4, <2>5 DEF TrackInv
  <1>2. CASE MigrateKptfile
    <2>1. CASE Return
      BY <1>2, <2>1, QuietReturns DEF MigrateKptfile, cluster
    <2>2. CASE ~Return
      <3>1. /\ pc = "kptfile" /\ UNCHANGED <<disk, cm, rgs, live, inv, flags, from>> /\ flags.op = "migrate"
            /\ pc' = "cfgread" /\ disk.kf \in Invs
        BY <1>2, <2>2 DEF MigrateKptfile, Goto, cluster, IndInv, OpInv
      <3>2. DiskInv' /\ UniqueInv' /\ MarkedInv'
        BY <3>1, SameDisk DEF TrackInv, DiskInv, UniqueInv, MarkedInv, InConfigMap
      <3>3. KnownInv'
        BY <3>1, SameDisk, KnownKeeps, SameListOf DEF TrackInv, Known
      <3>4. from # "template"
        BY <3>1 DEF TrackInv, FromInv, DiskInv
      <3>5. FromInv' /\ TemplateInv'
        BY <3>1, <3>4 DEF FromInv, TemplateInv, MigrationAt
      <3> QED BY <3>2, <3>3, <3>5 DEF TrackInv
    <2> QED BY <2>1, <2>2
  <1>3. CASE RetrieveInvObjs
    <2>1. /\ pc = "cmobjs" /\ UNCHANGED <<disk, cm, rgs, live, inv, flags, from>> /\ flags.op = "migrate"
          /\ pc' = IF cm = {} THEN "delfile" ELSE IF flags.dry THEN "delcm" ELSE "load"
      BY <1>3 DEF RetrieveInvObjs, Goto, cluster, IndInv, OpInv
    <2>2. DiskInv' /\ UniqueInv' /\ MarkedInv'
      BY <2>1, SameDisk DEF TrackInv, DiskInv, UniqueInv, MarkedInv, InConfigMap
    <2>3. KnownInv'
      BY <2>1, SameDisk, KnownKeeps, SameListOf DEF TrackInv, Known
    <2>4. FromInv'
      BY <2>1, SameDisk DEF TrackInv, FromInv, MigrationAt
    <2>5. TemplateInv'
      <3> SUFFICES ASSUME from = "template", ~flags.dry
                   PROVE  TemplateInv'
        BY <2>1 DEF TemplateInv
      <3>1. /\ RGsOnDisk # {} /\ \A i \in RGsOf : i.id = TemplateID
            /\ inv \in Invs /\ inv.id = TemplateID /\ InConfigMap
        BY <2>1 DEF TrackInv, TemplateInv, MigrationAt
      <3>2. InConfigMap' /\ (cm = {} => Marked(inv)' = {})
        BY <2>1, <3>1 DEF InConfigMap, Marked
      <3> QED BY <2>1, <3>1, <3>2, SameDisk DEF TemplateInv
    <2> QED BY <2>2, <2>3, <2>4, <2>5 DEF TrackInv
  <1>4. CASE DeleteConfigMapInv
    <2>1. /\ pc = "delcm" /\ UNCHANGED <<disk, rgs, live, inv, flags, from>> /\ flags.op = "migrate"
          /\ pc' = "delfile" /\ cm' = IF flags.dry THEN cm ELSE {}
      BY <1>4 DEF DeleteConfigMapInv, Goto, IndInv, OpInv
    <2>2. from = "template" /\ (~flags.dry => RGsOnDisk # {})
      BY <2>1 DEF TrackInv, FromInv, TemplateInv, MigrationAt
    <2>3. DiskInv' /\ UniqueInv' /\ MarkedInv'
      BY <2>1, <2>2, SameDisk DEF TrackInv, DiskInv, UniqueInv, MarkedInv, InConfigMap
    <2>4. KnownInv'
      BY <2>1, SameDisk, KnownKeeps, SameListOf DEF TrackInv, Known
    <2>5. FromInv'
      BY <2>1, SameDisk DEF TrackInv, FromInv, MigrationAt
    <2>6. TemplateInv'
      BY <2>1, SameDisk, SameListOf DEF TrackInv, TemplateInv, Marked, MigrationAt
    <2> QED BY <2>3, <2>4, <2>5, <2>6 DEF TrackInv
  <1>5. CASE DeleteConfigMapFile
    <2>1. /\ pc = "delfile" /\ UNCHANGED <<cm, rgs, live>> /\ flags.op = "migrate" /\ Return
          /\ disk' = IF flags.dry THEN disk ELSE [disk EXCEPT !.tmpl = FALSE]
      BY <1>5 DEF DeleteConfigMapFile, cluster, IndInv, OpInv
    <2>2. CASE flags.dry
      BY <2>1, <2>2, QuietReturns
    <2>3. CASE ~flags.dry
      <3>1. disk'.tmpl = FALSE /\ disk'.kf = disk.kf /\ disk'.rg = disk.rg
        BY <2>1, <2>3 DEF IndInv, TypeOK
      <3>2. UNCHANGED <<RGsOnDisk, RGsOf, OnDisk>>
        BY <3>1 DEF RGsOnDisk, RGsOf, OnDisk, RGFile
      <3>3. DiskInv'
        BY <3>1 DEF TrackInv, DiskInv
      <3>4. Known' = OnDisk /\ OnDisk \subseteq Known
        BY <2>1, <3>2, LiveAssumption DEF Known, Return
      <3>5. inv \in Known /\ inv.id = TemplateID /\ Marked(inv) \subseteq ListOf(inv)
        BY <2>1, <2>3 DEF TrackInv, FromInv, TemplateInv, MigrationAt, Known
      <3>6. \A i \in Known : Marked(i) \subseteq ListOf(i)
        BY <3>5 DEF TrackInv, KnownInv, Settled
      <3>7. KnownInv'
        BY <2>1, <3>4, <3>6, SameListOf DEF TrackInv, KnownInv, Marked
      <3> QED BY <2>1, <3>3, <3>7, TrackReturns
    <2> QED BY <2>2, <2>3
  <1> QED BY <1>1, <1>2, <1>3, <1>4, <1>5

-----------------------------------------------------------------------------
(* apply and destroy *)

(* A package that can be loaded has one inventory.                          *)
LEMMA LoadedIsUnique ==
  ASSUME NEW i \in Invs, LocalInventory(i) \/ StreamInventory(i), DiskInv
  PROVE  OnDisk = {i} /\ (RGsOnDisk # {} => i \in RGsOf)
  <1>1. CASE RGsOnDisk = {} /\ i = disk.kf
    BY <1>1 DEF OnDisk, RGsOf
  <1>2. ASSUME NEW f \in RGFiles, RGsOnDisk = {f}, ~HasKfInv, i = RGFile(f)
        PROVE  OnDisk = {i} /\ (RGsOnDisk # {} => i \in RGsOf)
    <2>1. RGsOf = {i}
      BY <1>2 DEF RGsOf
    <2>2. disk.kf \notin Invs
      BY <1>2, LiveAssumption DEF HasKfInv
    <2> QED BY <2>1, <2>2 DEF OnDisk
  <1>3. CASE LocalInventory(i)
    BY <1>1, <1>2, <1>3 DEF LocalInventory
  <1>4. CASE StreamInventory(i)
    <2>1. IsFiniteSet(RGsOnDisk) /\ Cardinality(RGsOnDisk) \in Nat
      BY LiveAssumption, FS_Subset, FS_CardinalityType DEF RGsOnDisk
    <2>2. CASE HasKfInv
      <3>1. RGsOnDisk = {}
        BY <1>4, <2>1, <2>2, FS_EmptySet DEF StreamInventory
      <3> QED BY <1>1, <1>4, <3>1 DEF StreamInventory
    <2>3. CASE ~HasKfInv
      <3>1. Cardinality(RGsOnDisk) = 1
        BY <1>4, <2>1, <2>3 DEF StreamInventory
      <3>2. PICK f : RGsOnDisk = {f}
        BY <2>1, <3>1, FS_Singleton
      <3> QED BY <1>2, <1>4, <2>3, <3>2 DEF StreamInventory, RGsOnDisk
    <2> QED BY <2>2, <2>3
  <1> QED BY <1>3, <1>4

LEMMA TrackLoad ==
  ASSUME IndInv, TrackInv, Load
  PROVE  TrackInv'
  <1>1. CASE Return
    BY <1>1, QuietReturns DEF Load, cluster
  <1>2. CASE ~Return
    <2>1. /\ pc = "load" /\ UNCHANGED <<disk, cm, rgs, live, flags, from>>
          /\ pc' \in {"verify", "plan", "get"} /\ (flags.op = "migrate" => pc' = "get")
      BY <1>2 DEF Load, Goto, cluster, IndInv, OpInv
    <2>2. inv' \in Invs /\ (LocalInventory(inv') \/ StreamInventory(inv'))
      BY <1>2 DEF Load, LoadFromDisk, LoadFromStream, Valid
    <2>3. OnDisk = {inv'} /\ (RGsOnDisk # {} => inv' \in RGsOf)
      BY <2>2, LoadedIsUnique DEF TrackInv
    <2>4. DiskInv' /\ UniqueInv' /\ MarkedInv'
      BY <2>1, <2>3, SameDisk DEF TrackInv, DiskInv, UniqueInv, MarkedInv, InConfigMap
    <2>5. KnownInv'
      BY <2>1, <2>3, SameDisk, KnownKeeps, SameListOf DEF TrackInv, Known
    <2>6. FromInv'
      BY <2>1, SameDisk DEF TrackInv, FromInv, MigrationAt
    <2>7. TemplateInv'
      BY <2>1, <2>2, <2>3, SameDisk DEF TrackInv, TemplateInv, InConfigMap, MigrationAt
    <2> QED BY <2>4, <2>5, <2>6, <2>7 DEF TrackInv
  <1> QED BY <1>1, <1>2

LEMMA KnownType == TypeOK => Known \subseteq Invs
  BY DEF TypeOK, Known, OnDisk, RGsOf, RGsOnDisk, RGFile

LEMMA WriteList ==
  ASSUME StoreOK, inv \in Invs, NEW new \in RGs \union {NoRG}, rgs' = [rgs EXCEPT ![Key] = new]
  PROVE  \A i \in Invs :
           /\ ListOf(i)' = IF <<i.name, i.ns>> = Key THEN ObjsOf(new) ELSE ListOf(i)
           /\ <<i.name, i.ns>> = Key => ListOf(i) = Listed(Key)
           /\ i = inv => <<i.name, i.ns>> = Key
  <1>1. Key \in Keys /\ rgs \in [Keys -> RGs \union {NoRG}]
    BY KeyType DEF StoreOK
  <1>2. \A i \in Invs : <<i.name, i.ns>> \in Keys
    BY DEF Invs, Keys
  <1>3. \A k \in Keys : rgs'[k] = IF k = Key THEN new ELSE rgs[k]
    BY <1>1
  <1>4. \A k \in Keys : Listed(k)' = IF k = Key THEN ObjsOf(new) ELSE Listed(k)
    BY <1>3 DEF Listed, ObjsOf
  <1>5. \A i \in Invs : i = inv => <<i.name, i.ns>> = Key
    BY DEF Key
  <1> QED BY <1>2, <1>4, <1>5 DEF ListOf

(* The command's list grows, and its inventory stays the same.              *)
LEMMA TrackGrows ==
  ASSUME TrackInv, UNCHANGED <<disk, cm, live, inv, flags, from>>,
         \A i \in Known : ListOf(i) \subseteq ListOf(i)'
  PROVE  DiskInv' /\ UniqueInv' /\ KnownInv'
  <1>1. DiskInv' /\ UniqueInv'
    BY SameDisk DEF TrackInv, DiskInv, UniqueInv, InConfigMap
  <1>2. KnownInv'
    BY SameDisk, KnownKeeps DEF TrackInv, Known
  <1> QED BY <1>1, <1>2

(* apply and destroy migrate nothing.                                       *)
LEMMA NoMigration ==
  ASSUME OpInv, flags.op \in {"apply", "destroy"}, UNCHANGED <<flags, from>>
  PROVE  FromInv' /\ TemplateInv'
  BY DEF OpInv, FromInv, TemplateInv

(* What the command's inventory must list is in its list.                   *)
LEMMA MarkedIsListed ==
  ASSUME TrackInv, inv \in Invs, Settled(inv)
  PROVE  Marked(inv) \subseteq Listed(Key)
  BY KeyList DEF TrackInv, KnownInv, Known

LEMMA TrackPlanTask ==
  ASSUME IndInv, TrackInv, Plan
  PROVE  TrackInv'
  <1>1. CASE Return
    BY <1>1, QuietReturns DEF Plan, cluster
  <1>2. CASE ~Return
    <2>1. /\ pc = "plan" /\ UNCHANGED <<disk, cm, rgs, live, inv, flags, from>> /\ inv \in Invs
          /\ flags.op \in {"apply", "destroy"}
          /\ \/ pc' = "get"
             \/ pc' = "prune" /\ todo' = Listed(Key)
      BY <1>2 DEF Plan, Goto, cluster, IndInv, InvInv, Working
    <2>2. DiskInv' /\ UniqueInv' /\ KnownInv'
      BY <2>1, TrackGrows, SameListOf
    <2>3. FromInv' /\ TemplateInv'
      BY <2>1, NoMigration DEF IndInv
    <2>4. MarkedInv'
      <3>1. Settled(inv) => Marked(inv) \subseteq Listed(Key)
        BY <2>1, MarkedIsListed
      <3>2. Marked(inv)' = Marked(inv) /\ (Settled(inv)' <=> Settled(inv))
        BY <2>1 DEF Marked, Settled
      <3> QED BY <2>1, <3>1, <3>2 DEF MarkedInv
    <2> QED BY <2>2, <2>3, <2>4 DEF TrackInv
  <1> QED BY <1>1, <1>2

(* The command reads its ResourceGroup.                                     *)
LEMMA TrackRead ==
  ASSUME IndInv, TrackInv, Get \/ GetClusterObjs
  PROVE  TrackInv'
  <1>1. /\ pc \in {"get", "objs"} /\ pc' \in {"objs", "write"} /\ UNCHANGED <<disk, cm, rgs, live, inv, flags, from>>
    BY DEF Get, GetClusterObjs, Goto, cluster
  <1> QED BY <1>1, TrackQuiet DEF MigrationAt

LEMMA TrackMerge ==
  ASSUME IndInv, TrackInv, Apply \/ ApplyStatus
  PROVE  TrackInv'
  <1>0. StoreOK /\ MemoryOK /\ OpInv /\ InvInv /\ ListedInv /\ MigrateInv /\ Known \subseteq Invs
    BY TypeParts, KnownType DEF IndInv
  <1>1. /\ pc \in {"write", "status"} /\ UNCHANGED <<disk, cm, live, inv, flags, from, want, prev, todo, keep>>
        /\ inv \in Invs /\ flags.op \in {"apply", "migrate"}
        /\ pc' \in {"status", "apply", "delcm"}
        /\ pc' = "delcm" => flags.op = "migrate" /\ (pc' = "apply" => flags.op = "apply")
        /\ flags.op = "migrate" => pc' # "apply"
    BY <1>0 DEF Apply, ApplyStatus, AfterMerge, Goto, plan, OpInv, InvInv, Working
  <1>2. PICK new \in RGs :
          /\ rgs' = [rgs EXCEPT ![Key] = new] /\ Listed(Key) \subseteq ObjsOf(new)
          /\ pc = "write" => Listed(Key) \subseteq prev /\ ObjsOf(new) = prev \union want
    <2>1. CASE Apply
      <3> DEFINE new == GetObject(IF got = NoRG THEN InventoryObj ELSE got, prev \union want)
      <3>1. /\ new \in RGs /\ new # NoRG /\ new.objs = prev \union want
            /\ Listed(Key) \subseteq prev /\ rgs' = [rgs EXCEPT ![Key] = new]
        BY <2>1, MergeFacts
      <3> HIDE DEF new
      <3> QED BY <3>1 DEF ObjsOf
    <2>2. CASE ApplyStatus
      <3> DEFINE S == prev \union want
      <3>1. pc = "status" /\ UNCHANGED cm /\ rgs' = [rgs EXCEPT ![Key].stat = S] /\ S \in SUBSET Objs
        BY <1>0, <2>2 DEF ApplyStatus, MemoryOK
      <3> DEFINE new == [rgs[Key] EXCEPT !.stat = S]
      <3> HIDE DEF S
      <3>2. new \in RGs /\ ObjsOf(new) = Listed(Key) /\ rgs' = [rgs EXCEPT ![Key] = new]
        BY <3>1, StatusFacts
      <3> HIDE DEF new
      <3> QED BY <3>1, <3>2
    <2> QED BY <2>1, <2>2
  <1>3. /\ \A i \in Invs : ListOf(i) \subseteq ListOf(i)'
        /\ \A i \in Invs : i = inv => ListOf(i)' = ObjsOf(new)
    BY <1>0, <1>1, <1>2, WriteList
  <1>4. DiskInv' /\ UniqueInv' /\ KnownInv'
    BY <1>0, <1>1, <1>3, TrackGrows
  <1>5. FromInv'
    BY <1>1, SameDisk DEF TrackInv, FromInv, MigrationAt
  <1>6. TemplateInv'
    <2> SUFFICES ASSUME from = "template", ~flags.dry
                 PROVE  TemplateInv'
      BY <1>1 DEF TemplateInv
    <2>1. flags.op = "migrate"
      BY <1>0 DEF OpInv
    <2>2. /\ RGsOnDisk # {} /\ \A i \in RGsOf : i.id = TemplateID
          /\ inv \in Invs /\ inv.id = TemplateID
          /\ pc = "write" => InConfigMap
          /\ pc = "status" => Marked(inv) \subseteq ListOf(inv)
      BY <1>1 DEF TrackInv, TemplateInv, MigrationAt
    <2>3. Marked(inv) \subseteq ObjsOf(new)
      <3>1. CASE pc = "write"
        BY <1>0, <1>2, <2>1, <2>2, <3>1 DEF MigrateInv, InConfigMap, Marked
      <3>2. CASE pc = "status"
        BY <1>2, <2>2, <3>2, KeyList
      <3> QED BY <1>1, <3>1, <3>2
    <2>4. Marked(inv)' = Marked(inv) /\ ListOf(inv)' = ObjsOf(new)
      <3>1. \A i : i = inv => ListOf(inv)' = ListOf(i)'
        BY <1>1 DEF ListOf
      <3> QED BY <1>1, <1>3, <3>1 DEF Marked
    <2> QED BY <1>1, <2>2, <2>1, <2>3, <2>4, SameDisk DEF TemplateInv
  <1>7. MarkedInv'
    <2> SUFFICES ASSUME flags.op = "apply", Settled(inv)
                 PROVE  MarkedInv'
      BY <1>1 DEF MarkedInv, Settled
    <2>1. todo = want /\ keep = {}
      BY <1>0, <1>1 DEF ListedInv
    <2>2. Marked(inv) \subseteq prev
      <3>1. CASE pc = "write"
        BY <1>1, <1>2, <3>1, MarkedIsListed
      <3>2. CASE pc = "status"
        BY <1>1, <3>2 DEF TrackInv, MarkedInv
      <3> QED BY <1>1, <3>1, <3>2
    <2>3. Marked(inv)' = Marked(inv)
      BY <1>1 DEF Marked
    <2> QED BY <1>1, <2>1, <2>2, <2>3 DEF MarkedInv
  <1> QED BY <1>4, <1>5, <1>6, <1>7 DEF TrackInv

(* An object gets the mark of the package's only inventory, or loses it.    *)
LEMMA TrackObject ==
  ASSUME IndInv, PlanInv, TrackInv, NEW o \in Objs, ApplyObject(o) \/ PruneObject(o)
  PROVE  TrackInv'
  <1>0. /\ OpInv /\ InvInv /\ ListedInv /\ live \in [Objs -> IDs \union {Absent, Unowned}] /\ UniqueInv /\ DiskInv
        /\ MarkedInv
    BY DEF IndInv, TypeOK, TrackInv
  <1>1. /\ pc \in {"apply", "prune"} /\ pc' = pc /\ o \in todo /\ todo' = todo \ {o}
        /\ UNCHANGED <<disk, cm, rgs, inv, flags, from, want, prev>>
        /\ inv \in Invs /\ flags.op \in {"apply", "destroy"} /\ o \in Listed(Key)
    BY <1>0 DEF ApplyObject, PruneObject, Goto, OpInv, InvInv, Working, ListedInv
  <1>2. OnDisk = {inv} /\ inv \in Invs /\ inv.id \in IDs
    BY <1>0, <1>1 DEF UniqueInv, Invs
  <1>3. \/ /\ pc = "apply" /\ live' = [live EXCEPT ![o] = inv.id] /\ keep' = keep \union {o}
        \/ /\ pc = "prune" /\ live' = [live EXCEPT ![o] = Absent] /\ keep' = keep
        \/ /\ pc = "apply" /\ live' = live /\ keep' = keep \union ({o} \intersect prev)
        \/ /\ pc = "prune" /\ live' = live /\ keep' = keep \union {o}
    BY DEF ApplyObject, PruneObject
  <1>4. /\ Marked(inv)' \subseteq Marked(inv) \union {o}
        /\ \/ pc = "apply" /\ keep' = keep \union {o}
           \/ pc = "prune" /\ keep' = keep /\ o \notin Marked(inv)'
           \/ pc = "apply" /\ Marked(inv)' = Marked(inv) /\ keep' = keep \union ({o} \intersect prev)
           \/ pc = "prune" /\ keep' = keep \union {o}
    BY <1>0, <1>1, <1>2, <1>3, LiveAssumption DEF Marked
  <1>5. DiskInv'
    <2>1. disk.tmpl => RGsOnDisk # {}
      BY <1>0, <1>2 DEF DiskInv, OnDisk, RGsOf
    <2> QED BY <1>0, <1>1, <2>1, SameDisk DEF DiskInv
  <1>6. UniqueInv'
    BY <1>1, <1>2, SameDisk DEF UniqueInv
  <1>7. FromInv' /\ TemplateInv'
    BY <1>0, <1>1, NoMigration
  <1>8. KnownInv'
    <2>1. Known' = {inv} /\ Known = {inv}
      BY <1>1, <1>2, SameDisk DEF Known
    <2>2. Settled(inv) => Marked(inv) \subseteq Listed(Key)
      BY <1>1, MarkedIsListed
    <2>3. \A i : i = inv => /\ ListOf(i)' = Listed(Key) /\ Marked(i)' = Marked(inv)' /\ (Settled(i)' => Settled(inv))
      BY <1>1, KeyList, SameListOf DEF Marked, Settled
    <2> QED BY <1>1, <1>4, <2>1, <2>2, <2>3 DEF KnownInv
  <1>9. MarkedInv'
    <2> SUFFICES ASSUME Settled(inv)
                 PROVE  MarkedInv'
      BY <1>1 DEF MarkedInv, Settled
    <2>1. pc = "apply" => todo \subseteq want
      BY <1>0, <1>1 DEF PlanInv, PrevInv, OpInv
    <2>2. /\ pc = "apply" => Marked(inv) \subseteq (prev \ want) \union (todo \intersect prev) \union keep
          /\ pc = "prune" => Marked(inv) \subseteq todo \union keep
      BY <1>0, <1>1 DEF MarkedInv
    <2> DEFINE M == Marked(inv)
               N == Marked(inv)'
    <2>3. MarkedInv' = (flags.op \in {"apply", "destroy"} /\ inv \in Invs /\ Settled(inv)' =>
            /\ pc = "status" => N \subseteq prev
            /\ pc = "apply" => N \subseteq (prev \ want) \union (todo' \intersect prev) \union keep'
            /\ pc = "prune" => N \subseteq todo' \union keep'
            /\ pc \in {"rget", "rwrite"} => N \subseteq keep'
            /\ pc = "delinv" => N = {})
      BY <1>1 DEF MarkedInv
    <2> HIDE DEF M, N
    <2>4. CASE pc = "apply"
      <3>1. N \subseteq (prev \ want) \union (todo' \intersect prev) \union keep'
        BY <1>1, <1>4, <2>1, <2>2, <2>4 DEF M, N
      <3> QED BY <2>3, <2>4, <3>1
    <2>5. CASE pc = "prune"
      <3>1. N \subseteq todo' \union keep'
        BY <1>1, <1>4, <2>2, <2>5 DEF M, N
      <3> QED BY <2>3, <2>5, <3>1
    <2> QED BY <1>1, <2>4, <2>5
  <1> QED BY <1>5, <1>6, <1>7, <1>8, <1>9 DEF TrackInv

LEMMA TrackTasks ==
  ASSUME IndInv, TrackInv, PruneSet \/ InvSet \/ ReplaceGet
  PROVE  TrackInv'
  <1>1. /\ UNCHANGED <<disk, cm, rgs, live, inv, flags, from, want, prev, keep>> /\ inv \in Invs
        /\ flags.op \in {"apply", "destroy"}
        /\ \/ pc = "apply" /\ pc' = "prune" /\ todo = {} /\ todo' = prev \ want
           \/ pc = "prune" /\ pc' \in {"delinv", "rget"} /\ todo = {} /\ (pc' = "delinv" => keep = {})
           \/ pc = "rget" /\ pc' = "rwrite"
    BY DEF PruneSet, InvSet, ReplaceGet, Goto, cluster, plan, IndInv, OpInv, InvInv, Working
  <1>2. DiskInv' /\ UniqueInv' /\ KnownInv'
    BY <1>1, TrackGrows, SameListOf
  <1>3. FromInv' /\ TemplateInv'
    BY <1>1, NoMigration DEF IndInv
  <1>4. MarkedInv'
    <2>1. Marked(inv)' = Marked(inv) /\ (Settled(inv)' <=> Settled(inv))
      BY <1>1 DEF Marked, Settled
    <2> QED BY <1>1, <2>1 DEF TrackInv, MarkedInv
  <1> QED BY <1>2, <1>3, <1>4 DEF TrackInv

(* The list of the package's only inventory is cut to what it must hold.    *)
LEMMA TrackCut ==
  ASSUME IndInv, TrackInv, NEW new \in RGs \union {NoRG}, rgs' = [rgs EXCEPT ![Key] = new],
         UNCHANGED <<disk, cm, live>>, inv \in Invs, flags.op \in {"apply", "destroy"},
         Settled(inv) => Marked(inv) \subseteq ObjsOf(new),
         Return \/ (UNCHANGED <<inv, flags, from>> /\ pc' = "rstatus")
  PROVE  TrackInv'
  <1>0. StoreOK /\ OpInv
    BY TypeParts DEF IndInv
  <1>1. OnDisk = {inv}
    BY DEF TrackInv, UniqueInv
  <1>2. Known' = {inv} /\ DiskInv'
    BY <1>1, SameDisk, LiveAssumption DEF Known, Return, TrackInv, DiskInv, InConfigMap
  <1>3. \A i : i = inv => /\ ListOf(i)' = ObjsOf(new) /\ Marked(i)' = Marked(inv) /\ (Settled(i)' => Settled(inv))
    BY <1>0, WriteList DEF Marked, Settled
  <1>4. KnownInv'
    BY <1>2, <1>3 DEF KnownInv
  <1>5. CASE Return
    BY <1>2, <1>4, <1>5, TrackReturns
  <1>6. CASE UNCHANGED <<inv, flags, from>> /\ pc' = "rstatus"
    <2>1. FromInv' /\ TemplateInv'
      BY <1>0, <1>6, NoMigration
    <2>2. UniqueInv' /\ MarkedInv'
      BY <1>1, <1>6, SameDisk DEF UniqueInv, MarkedInv
    <2> QED BY <1>2, <1>4, <2>1, <2>2 DEF TrackInv
  <1> QED BY <1>5, <1>6

LEMMA TrackReplace ==
  ASSUME IndInv, TrackInv, ApplyWithPrune \/ ApplyWithPruneStatus \/ DeleteInventoryObj
  PROVE  TrackInv'
  <1>0. StoreOK /\ MemoryOK /\ OpInv /\ InvInv /\ MarkedInv
    BY TypeParts DEF IndInv, TrackInv
  <1>1. /\ pc \in {"rwrite", "rstatus", "delinv"} /\ UNCHANGED <<disk, cm, live>> /\ inv \in Invs
        /\ flags.op \in {"apply", "destroy"}
        /\ Return \/ (UNCHANGED <<inv, flags, from>> /\ pc' = "rstatus")
    BY <1>0 DEF ApplyWithPrune, ApplyWithPruneStatus, DeleteInventoryObj, Goto, OpInv, InvInv, Working
  <1>2. CASE ApplyWithPrune
    <2> DEFINE new == GetObject(got, keep)
    <2>1. new \in RGs /\ new # NoRG /\ new.objs = keep /\ rgs' = [rgs EXCEPT ![Key] = new]
      BY <1>2, ReplaceFacts
    <2> HIDE DEF new
    <2>2. ObjsOf(new) = keep /\ pc = "rwrite"
      BY <1>2, <2>1 DEF ObjsOf, ApplyWithPrune
    <2>3. Settled(inv) => Marked(inv) \subseteq ObjsOf(new)
      BY <1>0, <1>1, <2>2 DEF MarkedInv
    <2> QED BY <1>1, <2>1, <2>3, TrackCut
  <1>3. CASE ApplyWithPruneStatus
    <2>1. pc = "rstatus" /\ keep \in SUBSET Objs /\ rgs' = [rgs EXCEPT ![Key].stat = keep]
      BY <1>0, <1>3 DEF ApplyWithPruneStatus, MemoryOK
    <2> DEFINE new == [rgs[Key] EXCEPT !.stat = keep]
    <2>2. new \in RGs /\ ObjsOf(new) = Listed(Key) /\ rgs' = [rgs EXCEPT ![Key] = new]
      BY <1>1, <2>1, StatusFacts
    <2> HIDE DEF new
    <2>3. Settled(inv) => Marked(inv) \subseteq ObjsOf(new)
      BY <1>1, <2>2, MarkedIsListed
    <2> QED BY <1>1, <2>2, <2>3, TrackCut
  <1>4. CASE DeleteInventoryObj
    <2>1. pc = "delinv" /\ rgs' = [rgs EXCEPT ![Key] = NoRG]
      BY <1>4 DEF DeleteInventoryObj
    <2>2. Settled(inv) => Marked(inv) \subseteq ObjsOf(NoRG)
      BY <1>0, <1>1, <2>1 DEF MarkedInv
    <2> QED BY <1>1, <2>1, <2>2, TrackCut
  <1> QED BY <1>2, <1>3, <1>4

LEMMA TrackOther ==
  ASSUME IndInv, TrackInv, NEW o \in Objs, OtherMerge(o)
  PROVE  TrackInv'
  <1>0. StoreOK /\ InvInv /\ Known \subseteq Invs
    BY TypeParts, KnownType DEF IndInv
  <1>1. /\ UNCHANGED <<disk, cm, live, flags, pc, from, inv, want, prev, todo, keep>> /\ inv \in Invs
    BY <1>0 DEF OtherMerge, plan, InvInv
  <1>2. PICK new \in RGs : rgs' = [rgs EXCEPT ![Key] = new] /\ ObjsOf(new) = Listed(Key) \union {o}
    BY OtherFacts
  <1>3. \A i \in Invs : ListOf(i) \subseteq ListOf(i)'
    BY <1>0, <1>1, <1>2, WriteList
  <1>4. DiskInv' /\ UniqueInv' /\ KnownInv'
    BY <1>0, <1>1, <1>3, TrackGrows
  <1>5. FromInv'
    BY <1>1, SameDisk DEF TrackInv, FromInv
  <1>6. Marked(inv)' = Marked(inv) /\ (Settled(inv)' <=> Settled(inv)) /\ ListOf(inv) \subseteq ListOf(inv)'
    <2>1. ListOf(inv) \subseteq ListOf(inv)'
      BY <1>1, <1>3 DEF ListOf
    <2> QED BY <1>1, <2>1 DEF Marked, Settled
  <1>7. TemplateInv'
    BY <1>1, <1>6, SameDisk DEF TrackInv, TemplateInv, InConfigMap
  <1>8. MarkedInv'
    BY <1>1, <1>6 DEF TrackInv, MarkedInv
  <1> QED BY <1>4, <1>5, <1>7, <1>8 DEF TrackInv

LEMMA TrackInit == Init => TrackInv
  <1> SUFFICES ASSUME Init
               PROVE  TrackInv
    OBVIOUS
  <1>1. flags.op = "none" /\ pc = "idle" /\ from = "flags" /\ inv = NoInv
    BY NoFlagsType DEF Init
  <1>2. PICK tmpl \in BOOLEAN, kf \in {NoInv, NoFile, BadInv, KptfileInv}, S \in SUBSET Objs, id \in IDs :
          /\ Start0(tmpl, kf, S, id) /\ (tmpl => id = TemplateID)
          /\ kf = KptfileInv <=> id = KptfileInv.id
          /\ kf = KptfileInv => ~tmpl
    <2>1. KptfileInv.id \in IDs /\ KptfileInv.id # TemplateID /\ TemplateID \in IDs /\ KptfileInv \notin {NoInv, NoFile, BadInv}
      BY LiveAssumption DEF Invs
    <2> QED BY <2>1 DEF Init
  <1>3. /\ disk.tmpl = tmpl /\ disk.kf = kf /\ disk.rg = [f \in RGFiles |-> NoInv]
        /\ cm = IF tmpl THEN S ELSE {}
        /\ rgs = [k \in Keys |-> IF kf = KptfileInv /\ k = <<kf.name, kf.ns>>
                                   THEN [id |-> id, objs |-> S, stat |-> S] ELSE NoRG]
        /\ \A o \in Objs : live[o] \in IDs => o \in S
    BY <1>2, LiveAssumption DEF Start0
  <1>4. RGsOnDisk = {} /\ RGsOf = {}
    BY <1>3 DEF RGsOnDisk, RGsOf, RGFile
  <1>5. DiskInv
    BY <1>2, <1>3, <1>4, LiveAssumption DEF DiskInv, InConfigMap
  <1>6. KnownInv
    <2>1. Known \subseteq {KptfileInv} /\ (Known # {} => kf = KptfileInv)
      BY <1>1, <1>2, <1>3, <1>4, LiveAssumption DEF Known, OnDisk
    <2>2. kf = KptfileInv => Marked(KptfileInv) \subseteq ListOf(KptfileInv)
      <3> SUFFICES ASSUME kf = KptfileInv
                   PROVE  Marked(KptfileInv) \subseteq ListOf(KptfileInv)
        OBVIOUS
      <3> DEFINE rg == [id |-> id, objs |-> S, stat |-> S]
      <3>1. <<KptfileInv.name, KptfileInv.ns>> \in Keys /\ KptfileInv.id \in IDs
        BY LiveAssumption DEF Invs, Keys
      <3>2. rg # NoRG /\ rg.objs = S
        BY NoRGAssumption DEF RGs
      <3>3. rgs[<<KptfileInv.name, KptfileInv.ns>>] = rg
        BY <1>3, <3>1
      <3> HIDE DEF rg
      <3> QED BY <1>3, <3>1, <3>2, <3>3 DEF Marked, ListOf, Listed
    <2> QED BY <2>1, <2>2 DEF KnownInv
  <1> QED BY <1>1, <1>5, <1>6 DEF TrackInv, UniqueInv, FromInv, TemplateInv, MarkedInv

LEMMA TrackNext ==
  ASSUME IndInv, PlanInv, TrackInv, [Next]_vars, FoundNamespaces \subseteq {KptfileInv.ns}
  PROVE  TrackInv'
  <1>1. CASE UNCHANGED vars
    <2>1. UNCHANGED <<disk, cm, rgs, live, inv, flags, from, pc, want, prev, todo, keep>>
      BY <1>1 DEF vars, cluster, plan
    <2>2. DiskInv' /\ UniqueInv' /\ KnownInv'
      BY <2>1, TrackGrows, SameListOf
    <2>3. FromInv'
      BY <2>1, SameDisk DEF TrackInv, FromInv
    <2>4. TemplateInv'
      BY <2>1, SameDisk, SameListOf DEF TrackInv, TemplateInv, InConfigMap, Marked
    <2>5. MarkedInv'
      BY <2>1 DEF TrackInv, MarkedInv, Marked, Settled
    <2> QED BY <2>2, <2>3, <2>4, <2>5 DEF TrackInv
  <1> QED
    BY <1>1, TrackBegin, TrackStopEdit, TrackCRD, TrackPlan, TrackConfigure, TrackFiles, TrackMigrate,
       TrackLoad, TrackPlanTask, TrackRead, TrackMerge, TrackObject, TrackTasks, TrackReplace, TrackOther
    DEF Next

(* Whoever loads the package finds its objects: init, apply, destroy and    *)
(* both migrations keep the inventory on disk and the list on the cluster   *)
(* together, wherever a command stops, if the migration of a Kptfile finds  *)
(* the namespace that the Kptfile had (LiveNamespace shows what happens if  *)
(* it does not).                                                            *)
THEOREM OwnedAreTrackedHolds ==
  ASSUME FoundNamespaces \subseteq {KptfileInv.ns}
  PROVE  Spec => []OwnedAreTracked
  <1>1. TrackInv => OwnedAreTracked
    <2> SUFFICES ASSUME TrackInv, ~disk.tmpl, NEW i \in Invs, LocalInventory(i)
                 PROVE  Marked(i) \subseteq ListOf(i)
      BY DEF OwnedAreTracked, Marked, ListOf
    <2>1. i \in Known
      BY LoadedIsUnique DEF TrackInv, Known
    <2> QED BY <2>1 DEF TrackInv, KnownInv, Settled
  <1>2. IndInv /\ PlanInv /\ TrackInv /\ [Next]_vars => TrackInv'
    BY TrackNext
  <1> QED BY <1>1, <1>2, InitInv, NextInv, PlanInit, PlanNext, TrackInit, PTL DEF Spec

=============================================================================
