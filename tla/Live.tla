-------------------------------- MODULE Live --------------------------------
(***************************************************************************)
(* kpt live: the inventory of a package, on disk and on the cluster, and   *)
(* the commands that change it (init, install-resource-group, migrate,     *)
(* apply, destroy) or read it (status, plan), one command at a time.       *)
(*                                                                         *)
(* On disk a package names its inventory in a ConfigMap template (kpt      *)
(* before 1.0), in its Kptfile or in a ResourceGroup file.  On the cluster *)
(* the list of applied objects is kept in a ConfigMap or in a              *)
(* ResourceGroup custom resource.  A command is a sequence of calls that   *)
(* each touch one file or one cluster object; none of them is undone when  *)
(* a later one fails, so an error return and a killed process leave the    *)
(* same state: both are the action Stop.  A copy of the package in other   *)
(* hands may write the same ResourceGroup at any time (OtherMerge).        *)
(*                                                                         *)
(* The resource version of the ResourceGroup, which the API server         *)
(* compares on update, is abstracted to fresh: nobody wrote the object     *)
(* since this command read it.  The applier of cli-utils, a library, is    *)
(* modelled from what kpt hands it.                                        *)
(***************************************************************************)
EXTENDS FiniteSets, Naturals

CONSTANTS
  Objs,             \* the objects a package may hold
  LocalConfig,      \* those annotated config.kubernetes.io/local-config
  Names, Namespaces, IDs,
  RGFiles,          \* values of --rg-file
  Invocations,      \* the command lines considered
  MaxCommands,      \* bound: how many commands are run
  FoundNamespaces,  \* what FindNamespace may answer: the context's or the resources'
  TemplateID,       \* the inventory id in the ConfigMap template
  KptfileInv,       \* the inventory of a Kptfile of kpt 1.0.0-beta
  NoInv,            \* no inventory in the file
  BadInv,           \* an inventory with an empty name, namespace or id
  NoFile,           \* no Kptfile
  NoRG,             \* no such ResourceGroup on the cluster
  Absent,           \* no such object on the cluster
  Unowned           \* an object without the owning-inventory annotation

Invs == [name : Names, ns : Namespaces, id : IDs]

ASSUME LiveAssumption ==
  /\ MaxCommands \in Nat
  /\ LocalConfig \subseteq Objs
  /\ RGFiles # {} /\ IsFiniteSet(RGFiles)
  /\ FoundNamespaces \subseteq Namespaces
  /\ TemplateID \in IDs
  /\ KptfileInv \in Invs
  /\ KptfileInv.id # TemplateID
  /\ {NoInv, BadInv, NoFile} \intersect Invs = {}
  /\ {Absent, Unowned} \intersect IDs = {}
  /\ Absent # Unowned

Keys == Names \X Namespaces

RGs == [id : IDs, objs : SUBSET Objs, stat : SUBSET Objs]

ASSUME NoRGAssumption == NoRG \notin RGs

\* The CRD is missing, created but not yet known to the RESTMapper, the one in
\* this binary, or another version.
CRDStates == {"none", "created", "latest", "other"}

Flags == [op : {"none", "init", "installrg", "migrate", "apply", "destroy", "status", "plan"},
          dry : BOOLEAN,      \* --dry-run
          force : BOOLEAN,    \* --force
          install : BOOLEAN,  \* --install-resource-group
          all : BOOLEAN,      \* --status-policy=all
          adopt : BOOLEAN,    \* --inventory-policy=adopt
          stdin : BOOLEAN,    \* the package path is "-"
          file : RGFiles]     \* --rg-file

NoFlags == [op |-> "none", dry |-> FALSE, force |-> FALSE, install |-> FALSE,
            all |-> FALSE, adopt |-> FALSE, stdin |-> FALSE,
            file |-> CHOOSE f \in RGFiles : TRUE]

\* The command lines of a command that has the flags named in used.
Lines(op, used) ==
  {f \in Flags : f.op = op /\ \A x \in DOMAIN f \ (used \union {"op"}) : f[x] = NoFlags[x]}

InitLines == Lines("init", {"force", "file"})

InstallLines == Lines("installrg", {})

\* The inventory clients of a migration store all status.
MigrateLines == {f \in Lines("migrate", {"dry", "force", "all", "file"}) : f.all}

ApplyLines == Lines("apply", {"dry", "install", "all", "adopt", "stdin"})

DestroyLines == Lines("destroy", {"dry", "all", "adopt", "stdin"})

StatusLines == Lines("status", {"stdin"})

PlanLines == Lines("plan", {"adopt", "stdin"})

ASSUME InvocationsAssumption ==
  Invocations \subseteq InitLines \union InstallLines \union MigrateLines
                          \union ApplyLines \union DestroyLines \union StatusLines \union PlanLines

PCs == {"idle", "verify", "crd", "poll", "load", "plan", "get", "objs", "write",
        "status", "apply", "prune", "rget", "rwrite", "rstatus", "delinv",
        "cfgread", "cfgrg", "cfgkf", "retrieve", "cmobjs", "delcm", "delfile",
        "kptfile", "events"}

\* What alpha live plan says of an object.
ActionTypes == {"", "Create", "Update", "Delete", "Skip", "Error"}

VARIABLES
  ran,     \* how many commands were begun
  disk,    \* [tmpl, kf, rg, objs, strings]: the package's files
  crd,     \* the state of the ResourceGroup CRD
  cm,      \* what the ConfigMap inventory on the cluster lists
  rgs,     \* the ResourceGroup objects on the cluster
  live,    \* the objects on the cluster, with the id of their inventory
  flags, pc,
  from,    \* where the inventory written by init or migrate comes from
  inv,     \* the inventory the command works with
  want,    \* the objects it merges into the inventory
  prev,    \* the objects the inventory listed before
  todo,    \* the objects still to apply or to delete
  keep,    \* what the inventory will list in the end
  got,     \* the ResourceGroup the command read
  fresh,   \* nobody wrote that ResourceGroup since
  planned  \* [inv, want, acts]: the last plan, until it is carried out or something else happens

cluster == <<crd, cm, rgs, live>>
plan == <<want, prev, todo, keep>>
vars == <<planned, ran, disk, cluster, flags, pc, from, inv, plan, got, fresh>>

TypeOK ==
  /\ ran \in 0..MaxCommands
  /\ disk \in [tmpl : BOOLEAN, kf : Invs \union {NoInv, BadInv, NoFile},
               rg : [RGFiles -> Invs \union {NoInv}], objs : SUBSET Objs, strings : BOOLEAN]
  /\ crd \in CRDStates
  /\ cm \subseteq Objs
  /\ rgs \in [Keys -> RGs \union {NoRG}]
  /\ live \in [Objs -> IDs \union {Absent, Unowned}]
  /\ flags \in Flags /\ pc \in PCs
  /\ from \in {"flags", "template", "kptfile"}
  /\ inv \in Invs \union {NoInv}
  /\ want \subseteq Objs /\ prev \subseteq Objs /\ todo \subseteq Objs /\ keep \subseteq Objs
  /\ got \in RGs \union {NoRG}
  /\ fresh \in BOOLEAN
  /\ planned \in [inv : Invs \union {NoInv}, want : SUBSET Objs, acts : [Objs -> ActionTypes]]

NoPlan == [inv |-> NoInv, want |-> {}, acts |-> [o \in Objs |-> ""]]

-----------------------------------------------------------------------------
(* The package on disk *)

RGFile(f) == disk.rg[f]

RGsOnDisk == {f \in RGFiles : RGFile(f) # NoInv}

HasKfInv == disk.kf \notin {NoInv, NoFile}

\* Name, namespace and id are all set.
Valid(i) == i \in Invs

\* i is the inventory in the package's directory.
LocalInventory(i) ==
  \/ \E f \in RGFiles : RGsOnDisk = {f} /\ ~HasKfInv /\ i = RGFile(f)
  \/ RGsOnDisk = {} /\ HasKfInv /\ i = disk.kf

\* i is the only inventory among the Kptfiles and ResourceGroups on stdin.
StreamInventory(i) ==
  /\ Cardinality(RGsOnDisk) + (IF HasKfInv THEN 1 ELSE 0) = 1
  /\ (HasKfInv /\ i = disk.kf) \/ \E f \in RGsOnDisk : i = RGFile(f)

\* Resources marked as local config are not applied.
FilterLocalConfig(S) == S \ LocalConfig

PathManifests == FilterLocalConfig(disk.objs)

\* The stream reader leaves out Kptfiles and ResourceGroups, which are not in objs.
StreamManifests == disk.objs

\* An annotation or label that is not a string makes either reader fail.
StringMaps == disk.strings

\* A mutant: the inventory's fields are not checked.
LoadFromDiskUnchecked(i, S) == LocalInventory(i) /\ StringMaps /\ S = PathManifests

LoadFromDisk(i, S) == LocalInventory(i) /\ Valid(i) /\ StringMaps /\ S = PathManifests

LoadFromStream(i, S) == StreamInventory(i) /\ Valid(i) /\ StringMaps /\ S = StreamManifests

Key == <<inv.name, inv.ns>>

\* InventoryResourceGroup.Load
Listed(k) == IF rgs[k] = NoRG THEN {} ELSE rgs[k].objs

UsedNames == {i.name : i \in {disk.rg[f] : f \in RGsOnDisk}}
               \union {k[1] : k \in {j \in Keys : rgs[j] # NoRG}}
               \union (IF disk.kf \in Invs THEN {disk.kf.name} ELSE {})

UsedIDs == {TemplateID, KptfileInv.id}
             \union {disk.rg[f].id : f \in RGsOnDisk}
             \union {rgs[k].id : k \in {j \in Keys : rgs[j] # NoRG}}
             \union {live[o] : o \in Objs}

\* The RESTMapper knows the kind ResourceGroup.
CRDApplied == crd \in {"latest", "other"}

\* The CRD on the cluster is the one in this binary.
CRDMatched == crd = "latest"

-----------------------------------------------------------------------------
(* Initial states: a package of kpt 0.39 that has been applied, a package  *)
(* of 1.0.0-beta that has been applied, or one never initialised.          *)

Start0(tmpl, kf, applied, id) ==
  /\ disk = [tmpl |-> tmpl, kf |-> kf, rg |-> [f \in RGFiles |-> NoInv], objs |-> applied \union LocalConfig,
             strings |-> TRUE]
  /\ cm = IF tmpl THEN applied ELSE {}
  /\ rgs = [k \in Keys |-> IF kf = KptfileInv /\ k = <<kf.name, kf.ns>>
                             THEN [id |-> id, objs |-> applied, stat |-> applied] ELSE NoRG]
  /\ \E foreign \in SUBSET (Objs \ applied) :
       live = [o \in Objs |-> IF o \in applied THEN id
                              ELSE IF o \in foreign THEN Unowned ELSE Absent]

Init ==
  /\ \/ \E S \in SUBSET (Objs \ LocalConfig), kf \in {NoInv, NoFile} :
          Start0(TRUE, kf, S, TemplateID) /\ crd \in {"none", "other"}
     \/ \E S \in SUBSET (Objs \ LocalConfig) :
          Start0(FALSE, KptfileInv, S, KptfileInv.id) /\ crd = "latest"
     \/ \E kf \in {NoFile, BadInv} :
          Start0(FALSE, kf, {}, TemplateID) /\ crd \in {"none", "other"}
  /\ ran = 0 /\ flags = NoFlags /\ pc = "idle" /\ from = "flags" /\ inv = NoInv
  /\ want = {} /\ prev = {} /\ todo = {} /\ keep = {}
  /\ got = NoRG /\ fresh = FALSE /\ planned = NoPlan

-----------------------------------------------------------------------------
(* Commands begin and end *)

\* The command returns; what it held in memory is gone.
Return ==
  /\ pc' = "idle" /\ flags' = NoFlags /\ from' = "flags" /\ inv' = NoInv
  /\ want' = {} /\ prev' = {} /\ todo' = {} /\ keep' = {}
  /\ got' = NoRG /\ fresh' = FALSE

Goto(l) ==
  /\ pc' = l
  /\ UNCHANGED <<flags, from>>

\* An error return, or the process is killed.
Stop ==
  /\ pc # "idle"
  /\ Return
  /\ planned' = NoPlan
  /\ UNCHANGED <<ran, disk, cluster>>

Begin(f, l) ==
  /\ pc = "idle" /\ ran < MaxCommands
  /\ ran' = ran + 1
  /\ flags' = f
  /\ pc' = l
  /\ planned' = IF f \in ApplyLines THEN planned ELSE NoPlan
  /\ UNCHANGED <<disk, cluster, from, inv, plan, got, fresh>>

BeginInit(f) == f \in InitLines /\ Begin(f, "cfgread")

BeginInstall(f) == f \in InstallLines /\ Begin(f, "crd")

BeginMigrate(f) == f \in MigrateLines /\ Begin(f, IF f.dry THEN "retrieve" ELSE "crd")

\* preRunE: without installation the CRD has to be there already.
BeginApply(f) == f \in ApplyLines /\ (f.install \/ CRDApplied) /\ Begin(f, "load")

BeginDestroy(f) == f \in DestroyLines /\ Begin(f, "load")

BeginStatus(f) == f \in StatusLines /\ Begin(f, "load")

BeginPlan(f) == f \in PlanLines /\ Begin(f, "load")

\* The user edits the package between commands.  What else is in a package that
\* no reader accepts is of no consequence.
Edit(S, strings) ==
  /\ pc = "idle" /\ ran < MaxCommands
  /\ strings \/ S = {}
  /\ disk' = [disk EXCEPT !.objs = S, !.strings = strings]
  /\ planned' = NoPlan
  /\ UNCHANGED <<ran, cluster, flags, pc, from, inv, plan, got, fresh>>

-----------------------------------------------------------------------------
(* The ResourceGroup CRD *)

\* After an installation: apply goes on to the applier, migrate to the ConfigMap.
AfterCRD ==
  \/ flags.op = "installrg" /\ Return
  \/ /\ flags.op \in {"apply", "migrate"}
     /\ Goto(IF flags.op = "apply" THEN "plan" ELSE "retrieve")
     /\ UNCHANGED <<inv, plan, got, fresh>>

\* runApply: installed if it is missing or differs from the one in this binary.
VerifyCRD ==
  /\ pc = "verify"
  /\ Goto(IF flags.install /\ (~CRDApplied \/ ~CRDMatched) THEN "crd" ELSE "plan")
  /\ UNCHANGED <<planned, ran, disk, cluster, inv, plan, got, fresh>>

\* InstallRG creates the CRD; one that exists, matching or not, is left alone.
InstallRG ==
  /\ pc = "crd"
  /\ IF crd = "none"
       THEN /\ crd' = "created"
            /\ Goto("poll")
            /\ UNCHANGED <<inv, plan, got, fresh>>
       ELSE AfterCRD /\ UNCHANGED crd
  /\ UNCHANGED <<planned, ran, disk, cm, rgs, live>>

\* The poll loop ends with its ten seconds, whatever it has seen.
PollEnds ==
  /\ pc = "poll"
  /\ AfterCRD
  /\ UNCHANGED <<planned, ran, disk, cluster>>

\* The API server accepts the CRD.
Establish ==
  /\ crd = "created"
  /\ crd' = "latest"
  /\ UNCHANGED <<planned, ran, disk, cm, rgs, live, flags, pc, from, inv, plan, got, fresh>>

-----------------------------------------------------------------------------
(* init: ConfigureInventoryInfo and createRGFile *)

\* Nothing is overwritten without force; the migration of a Kptfile forces.
MayWrite ==
  \/ flags.force
  \/ from = "kptfile"
  \/ ~HasKfInv /\ RGFile(flags.file) = NoInv

\* A mutant: the migration of a Kptfile makes up a name, as init does.
ConfigureInventoryInfoNewName ==
  /\ pc = "cfgread"
  /\ MayWrite
  /\ \E ns \in FoundNamespaces, n \in Names, id \in IDs :
       /\ inv' = [name |-> n, ns |-> ns, id |-> id]
       /\ CASE from = "flags"    -> id \notin UsedIDs
            [] from = "template" -> n \notin UsedNames /\ id = TemplateID
            [] from = "kptfile"  -> n \notin UsedNames /\ id = disk.kf.id
  /\ Goto("cfgrg")
  /\ UNCHANGED <<planned, ran, disk, cluster, plan, got, fresh>>

\* The namespace is always looked up, never taken from an older inventory.
ConfigureInventoryInfo ==
  /\ pc = "cfgread"
  /\ MayWrite
  /\ \E ns \in FoundNamespaces, n \in Names, id \in IDs :
       /\ inv' = [name |-> n, ns |-> ns, id |-> id]
       /\ CASE from = "flags"    -> id \notin UsedIDs
            [] from = "template" -> n \notin UsedNames /\ id = TemplateID
            [] from = "kptfile"  -> n = disk.kf.name /\ id = disk.kf.id
  /\ Goto("cfgrg")
  /\ UNCHANGED <<planned, ran, disk, cluster, plan, got, fresh>>

WriteRGFile ==
  /\ pc = "cfgrg"
  /\ disk' = [disk EXCEPT !.rg[flags.file] = inv]
  /\ Goto("cfgkf")
  /\ UNCHANGED <<planned, ran, cluster, inv, plan, got, fresh>>

\* The inventory leaves the Kptfile after it is in the ResourceGroup file.
RewriteKptfile ==
  /\ pc = "cfgkf"
  /\ disk' = IF HasKfInv THEN [disk EXCEPT !.kf = NoInv] ELSE disk
  /\ IF from = "template"
       THEN Goto("cmobjs") /\ UNCHANGED <<inv, plan, got, fresh>>
       ELSE Return
  /\ UNCHANGED <<planned, ran, cluster>>

-----------------------------------------------------------------------------
(* migrate *)

\* Every object with the inventory label counts, ResourceGroups included: with
\* the template and a ResourceGroup file there are two, an error.
RetrieveConfigMap ==
  /\ pc = "retrieve"
  /\ \/ /\ disk.tmpl /\ RGsOnDisk = {}
        /\ from' = "template"
        /\ pc' = IF flags.dry THEN "cmobjs" ELSE "cfgread"
     \/ /\ ~disk.tmpl /\ Cardinality(RGsOnDisk) <= 1
        /\ from' = "kptfile"
        /\ pc' = "kptfile"
  /\ UNCHANGED <<planned, ran, disk, cluster, flags, inv, plan, got, fresh>>

\* migrateKptfileToRG: nothing to do without a valid inventory in the Kptfile.
MigrateKptfile ==
  /\ pc = "kptfile"
  /\ \/ flags.dry /\ Return
     \/ ~flags.dry /\ disk.kf \in {NoInv, BadInv} /\ Return
     \/ /\ ~flags.dry /\ disk.kf \in Invs /\ RGFile(flags.file) = NoInv
        /\ Goto("cfgread")
        /\ UNCHANGED <<inv, plan, got, fresh>>
  /\ UNCHANGED <<planned, ran, disk, cluster>>

\* A mutant: the ConfigMap is deleted without merging its objects first.
RetrieveInvObjsOnly ==
  /\ pc = "cmobjs"
  /\ want' = cm
  /\ Goto(IF cm = {} THEN "delfile" ELSE "delcm")
  /\ UNCHANGED <<planned, ran, disk, cluster, inv, prev, todo, keep, got, fresh>>

\* retrieveInvObjs, and migrateObjs up to its dry-run return.
RetrieveInvObjs ==
  /\ pc = "cmobjs"
  /\ want' = cm
  /\ Goto(IF cm = {} THEN "delfile" ELSE IF flags.dry THEN "delcm" ELSE "load")
  /\ UNCHANGED <<planned, ran, disk, cluster, inv, prev, todo, keep, got, fresh>>

DeleteConfigMapInv ==
  /\ pc = "delcm"
  /\ cm' = IF flags.dry THEN cm ELSE {}
  /\ Goto("delfile")
  /\ UNCHANGED <<planned, ran, disk, crd, rgs, live, inv, plan, got, fresh>>

DeleteConfigMapFile ==
  /\ pc = "delfile"
  /\ disk' = IF flags.dry THEN disk ELSE [disk EXCEPT !.tmpl = FALSE]
  /\ Return
  /\ UNCHANGED <<planned, ran, cluster>>

-----------------------------------------------------------------------------
(* Loading the package, and the plan of the applier and the destroyer *)

\* Every command but init and install-resource-group loads the package; status
\* then only reads the cluster.
Load ==
  /\ pc = "load"
  /\ \E i \in {RGFile(f) : f \in RGsOnDisk} \union {disk.kf}, S \in {PathManifests, StreamManifests} :
       /\ IF flags.stdin THEN LoadFromStream(i, S) ELSE LoadFromDisk(i, S)
       /\ IF flags.op = "status" THEN Return
          ELSE /\ inv' = i
               /\ want' = IF flags.op \in {"apply", "plan"} THEN S ELSE want
               /\ Goto(CASE flags.op = "apply" -> "verify"
                         [] flags.op \in {"destroy", "plan"} -> "plan"
                         [] flags.op = "migrate" -> "get")
               /\ UNCHANGED <<prev, todo, keep, got, fresh>>
  /\ UNCHANGED <<planned, ran, disk, cluster>>

\* The applier refuses a ResourceGroup of that name with another inventory id,
\* which it asks of a Storage whose Strategy is by name.  A dry run changes nothing.
Plan ==
  /\ pc = "plan"
  /\ CRDApplied
  /\ \/ flags.dry /\ Return
     \/ /\ ~flags.dry /\ flags.op = "apply"
        /\ rgs[Key] # NoRG => rgs[Key].id = inv.id
        /\ todo' = want /\ keep' = {}
        /\ Goto("get")
        /\ UNCHANGED <<inv, want, prev, got, fresh>>
     \/ /\ ~flags.dry /\ flags.op = "destroy"
        /\ prev' = Listed(Key) /\ todo' = Listed(Key) /\ keep' = {}
        /\ Goto("prune")
        /\ UNCHANGED <<inv, want, got, fresh>>
  /\ UNCHANGED <<planned, ran, disk, cluster>>

-----------------------------------------------------------------------------
(* alpha live plan: the events of a dry run *)

\* The init event tells what will be applied and pruned, and what is there of it is fetched.
FetchResources ==
  /\ pc = "plan" /\ flags.op = "plan"
  /\ CRDApplied
  /\ rgs[Key] # NoRG => rgs[Key].id = inv.id
  /\ todo' = want \union {o \in Listed(Key) : live[o] # Absent}
  /\ keep' = {o \in todo' : live[o] # Absent}
  /\ Goto("events")
  /\ UNCHANGED <<planned, ran, disk, cluster, inv, want, prev, got, fresh>>

\* The dry run is made with the default policy, whatever --inventory-policy says.
DryRunSkips(o) == live[o] \notin {Absent, inv.id}

\* A mutant: an object that was not fetched counts as one to update.
HandleApplyEventUpdate(o) == IF DryRunSkips(o) THEN "Skip" ELSE "Update"

\* Update stands for Unchanged, too: the contents of objects are left out.
HandleApplyEvent(o) ==
  IF DryRunSkips(o) THEN "Skip" ELSE IF o \in keep THEN "Update" ELSE "Create"

HandlePruneEvent(o) == IF DryRunSkips(o) THEN "Skip" ELSE "Delete"

DryRunEvent(o) ==
  /\ pc = "events" /\ o \in todo
  /\ \E type \in {"Error", IF o \in want THEN HandleApplyEvent(o) ELSE HandlePruneEvent(o)} :
       planned' = [planned EXCEPT !.acts[o] = type]
  /\ todo' = todo \ {o}
  /\ Goto("events")
  /\ UNCHANGED <<ran, disk, cluster, inv, want, prev, keep, got, fresh>>

\* The channel is closed, and the plan is printed.
BuildPlan ==
  /\ pc = "events" /\ todo = {}
  /\ planned' = [planned EXCEPT !.inv = inv, !.want = want]
  /\ Return
  /\ UNCHANGED <<ran, disk, cluster>>

-----------------------------------------------------------------------------
(* Merge, and InventoryResourceGroup.Apply: get, create or update, status *)

Get ==
  /\ pc = "get"
  /\ CRDApplied
  /\ got' = rgs[Key] /\ fresh' = TRUE
  /\ Goto(IF rgs[Key] = NoRG THEN "write" ELSE "objs")
  /\ UNCHANGED <<planned, ran, disk, cluster, inv, plan>>

GetClusterObjs ==
  /\ pc = "objs"
  /\ prev' = Listed(Key)
  /\ Goto("write")
  /\ UNCHANGED <<planned, ran, disk, cluster, inv, want, todo, keep, got, fresh>>

\* generateInventoryObj: the object made from the local inventory.
InventoryObj == [id |-> inv.id, objs |-> {}, stat |-> {}]

\* The wrapped object with the stored objects in its spec.
GetObject(rg, S) == [rg EXCEPT !.objs = S]

\* getNamespacedClient needs the mapping of the kind.
NamespacedClient == CRDApplied

\* Merge returns.
AfterMerge ==
  /\ Goto(IF flags.op = "migrate" THEN "delcm" ELSE "apply")
  /\ got' = NoRG

\* A mutant: the update is sent without the version that was read.
CanWriteAnyVersion == (got = NoRG) = (rgs[Key] = NoRG)

\* Created if it is not there, else updated; an update of a version that is no
\* longer the current one is a conflict, and so is a create that comes second.
CanWrite == (got = NoRG) = (rgs[Key] = NoRG) /\ fresh

Apply ==
  /\ pc = "write"
  /\ NamespacedClient /\ CanWrite
  /\ rgs' = [rgs EXCEPT ![Key] =
               GetObject(IF got = NoRG THEN InventoryObj ELSE got, prev \union want)]
  /\ IF flags.all THEN Goto("status") /\ UNCHANGED got ELSE AfterMerge
  /\ UNCHANGED <<planned, ran, disk, crd, cm, live, inv, plan, fresh>>

\* A mutant: the status is written over any version of the object.
ApplyStatusAnyVersion ==
  /\ pc = "status"
  /\ rgs' = [rgs EXCEPT ![Key].stat = prev \union want]
  /\ AfterMerge
  /\ UNCHANGED <<planned, ran, disk, crd, cm, live, inv, plan, fresh>>

\* Status is a subresource, written in a call of its own with the version the
\* first call returned.
ApplyStatus ==
  /\ pc = "status"
  /\ fresh
  /\ rgs' = [rgs EXCEPT ![Key].stat = prev \union want]
  /\ AfterMerge
  /\ UNCHANGED <<planned, ran, disk, crd, cm, live, inv, plan, fresh>>

-----------------------------------------------------------------------------
(* The tasks of the applier and the destroyer (external), and Replace with   *)
(* InventoryResourceGroup.ApplyWithPrune                                     *)

CanApply(o) == live[o] \in {Absent, inv.id} \/ (flags.adopt /\ live[o] = Unowned)

CanPrune(o) == live[o] \in {Absent, inv.id} \/ (flags.adopt /\ live[o] = Unowned)

ApplyObject(o) ==
  /\ pc = "apply" /\ o \in todo
  /\ \/ /\ CanApply(o)
        /\ live' = [live EXCEPT ![o] = inv.id]
        /\ keep' = keep \union {o}
     \/ /\ keep' = keep \union ({o} \intersect prev)
        /\ UNCHANGED live
  /\ todo' = todo \ {o}
  /\ Goto("apply")
  /\ UNCHANGED <<planned, ran, disk, crd, cm, rgs, inv, want, prev, got, fresh>>

PruneSet ==
  /\ pc = "apply" /\ todo = {}
  /\ todo' = prev \ want
  /\ Goto("prune")
  /\ UNCHANGED <<planned, ran, disk, cluster, inv, want, prev, keep, got, fresh>>

PruneObject(o) ==
  /\ pc = "prune" /\ o \in todo
  /\ \/ /\ CanPrune(o)
        /\ live' = [live EXCEPT ![o] = Absent]
        /\ UNCHANGED keep
     \/ /\ keep' = keep \union {o}
        /\ UNCHANGED live
  /\ todo' = todo \ {o}
  /\ Goto("prune")
  /\ UNCHANGED <<planned, ran, disk, crd, cm, rgs, inv, want, prev, got, fresh>>

\* Replace reads the ResourceGroup again; destroy deletes it when it is empty.
InvSet ==
  /\ pc = "prune" /\ todo = {}
  /\ Goto(IF flags.op = "destroy" /\ keep = {} THEN "delinv" ELSE "rget")
  /\ planned' = NoPlan
  /\ UNCHANGED <<ran, disk, cluster, inv, plan, got, fresh>>

ReplaceGet ==
  /\ pc = "rget"
  /\ got' = rgs[Key] /\ fresh' = TRUE
  /\ Goto("rwrite")
  /\ UNCHANGED <<planned, ran, disk, cluster, inv, plan>>

ApplyWithPrune ==
  /\ pc = "rwrite"
  /\ NamespacedClient /\ got # NoRG /\ CanWrite
  /\ rgs' = [rgs EXCEPT ![Key] = GetObject(got, keep)]
  /\ IF flags.all THEN Goto("rstatus") /\ UNCHANGED <<inv, plan, got, fresh>> ELSE Return
  /\ UNCHANGED <<planned, ran, disk, crd, cm, live>>

ApplyWithPruneStatus ==
  /\ pc = "rstatus"
  /\ fresh
  /\ rgs' = [rgs EXCEPT ![Key].stat = keep]
  /\ Return
  /\ UNCHANGED <<planned, ran, disk, crd, cm, live>>

DeleteInventoryObj ==
  /\ pc = "delinv"
  /\ rgs' = [rgs EXCEPT ![Key] = NoRG]
  /\ Return
  /\ UNCHANGED <<planned, ran, disk, crd, cm, live>>

\* Another applier of the same package has written down what it will apply.
OtherMerge(o) ==
  /\ fresh
  /\ rgs' = [rgs EXCEPT ![Key] =
               IF rgs[Key] = NoRG THEN [id |-> inv.id, objs |-> {o}, stat |-> {}]
                                  ELSE [rgs[Key] EXCEPT !.objs = @ \union {o}]]
  /\ fresh' = FALSE
  /\ planned' = NoPlan
  /\ UNCHANGED <<ran, disk, crd, cm, live, flags, pc, from, inv, plan, got>>

-----------------------------------------------------------------------------
Next ==
  \/ \E f \in Invocations : \/ BeginInit(f) \/ BeginInstall(f) \/ BeginMigrate(f)
                             \/ BeginApply(f) \/ BeginDestroy(f) \/ BeginStatus(f)
                             \/ BeginPlan(f)
  \/ Stop \/ \E S \in SUBSET Objs, strings \in BOOLEAN : Edit(S, strings)
  \/ VerifyCRD \/ InstallRG \/ PollEnds \/ Establish
  \/ ConfigureInventoryInfo \/ WriteRGFile \/ RewriteKptfile
  \/ RetrieveConfigMap \/ MigrateKptfile \/ RetrieveInvObjs
  \/ DeleteConfigMapInv \/ DeleteConfigMapFile
  \/ Load \/ Plan \/ Get \/ GetClusterObjs \/ Apply \/ ApplyStatus
  \/ PruneSet \/ InvSet \/ ReplaceGet \/ ApplyWithPrune \/ ApplyWithPruneStatus
  \/ DeleteInventoryObj
  \/ FetchResources \/ BuildPlan \/ \E o \in Objs : DryRunEvent(o)
  \/ \E o \in Objs : ApplyObject(o) \/ PruneObject(o) \/ OtherMerge(o)

Spec == Init /\ [][Next]_vars

-----------------------------------------------------------------------------
(* Properties *)

Recorded == cm \union UNION {Listed(k) : k \in Keys}
Owned == {o \in Objs : live[o] \in IDs}

L == INSTANCE Ledger WITH recorded <- Recorded, owned <- Owned

\* No object is ever orphaned: whatever command fails or is killed between two
\* of its calls, every object that carries an inventory's mark is listed by an
\* inventory on the cluster, is listed before it is applied, and is struck out
\* only when it is gone.  Migration moves the list without a moment's gap.
NoOrphans == L!Spec

\* The inventory the package names is the one that lists its objects: once the
\* template is gone, whoever loads the package finds in that ResourceGroup every
\* object marked with its id, so apply can prune it and destroy can delete it.
OwnedAreTracked ==
  pc = "idle" /\ ~disk.tmpl =>
    \A i \in Invs : LocalInventory(i) =>
      \A o \in Objs : live[o] = i.id => o \in Listed(<<i.name, i.ns>>)

\* Get and update: merging never drops what somebody else listed in between.
MergeKeeps ==
  [][pc = "write" /\ pc' # "idle" => \A k \in Keys : Listed(k) \subseteq Listed(k)']_vars

\* The status written by the second call belongs to the list of the first: when
\* it succeeds, it has an entry for the objects listed and no other.
StatusFollowsList ==
  [][\A k \in Keys : rgs[k] # NoRG /\ rgs'[k] # NoRG /\ rgs'[k].stat # rgs[k].stat
       => rgs'[k].stat = rgs'[k].objs]_vars

\* An apply that follows a plan of the same package, with nothing done to the package or
\* the cluster by anybody else since, creates and deletes only what the plan said it
\* would, or could not find out.
PlanForetells ==
  [][flags.op = "apply" /\ ~flags.adopt /\ planned.inv = inv /\ planned.want = want =>
       \A o \in Objs : live'[o] # live[o] =>
         planned.acts[o] \in {"Error", IF live'[o] = Absent THEN "Delete" ELSE "Create"}]_vars

=============================================================================
