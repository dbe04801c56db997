----------------------------- MODULE PkgUpdate -----------------------------
(***************************************************************************)
(* kpt pkg get and kpt pkg update: a package is fetched with the remote     *)
(* packages it refers to, its user changes it, and updates bring it and     *)
(* them to other versions of upstream.  One step stands for one package     *)
(* fetched, merged or finished: commands stop half-way when a fetch or a    *)
(* merge fails or the process is killed, and can be run again.              *)
(***************************************************************************)
EXTENDS PkgTree

CONSTANTS
    Histories,      \* what upstream may be:
    Upstream(_, _, _), \* Upstream(h, src, ref) is the tree of src at ref in history h
    Root,           \* the source of the package that is fetched
    Within,         \* pairs of sources: same repository, the second's directory begins with the first's
    RunStrategies,  \* strategies kpt pkg update is run with
    MaxEdits,       \* bound: changes by the user
    MaxRuns,        \* bound: runs of kpt pkg update
    MaxSteps        \* bound: both together

ASSUME UpdateAssumption ==
    /\ \A h \in Histories, s \in Sources, v \in Versions : Upstream(h, s, v) \in Trees
    /\ Root \in Sources
    /\ Within \subseteq Sources \X Sources /\ \A s \in Sources : <<s, s>> \in Within
    /\ RunStrategies \subseteq Strategies /\ "resource-merge" \in Strategies
    /\ "e" \in Values \* what the user writes
    /\ MaxEdits \in Nat /\ MaxRuns \in Nat /\ MaxSteps \in Nat

VARIABLES
    history,   \* what upstream is
    local,     \* the package on disk
    pc,        \* start, get, idle, fetch or merge
    pkgs,      \* stack: packages to fetch or update
    cmd,       \* the running update: its package, the ref that had, the upstream it has now
    top,       \* the package being updated,
    spec,      \* the upstream it is brought to,
    base,      \* the lock it comes from, and
    rels,      \* stack: what is left of it to merge, relative to top
    edits, runs,
    \* for the properties:
    edited,    \* files the user has touched since kpt last replaced them, or kpt spoiled
    pending,   \* packages and upstreams: updates that were begun and did not finish
    mates      \* remote packages that have the ref the updated one had

vars == <<history, local, pc, pkgs, cmd, top, spec, base, rels, edits, runs, edited, pending, mates>>
envVars == <<history, edits>>
runVars == <<cmd, top, spec, base, rels>>

NoCmd == [pkg |-> <<>>, from |-> None, up |-> None]

Init ==
    /\ history \in Histories
    /\ local = NoTree /\ pc = "start" /\ pkgs = <<>>
    /\ cmd = NoCmd /\ top = <<>> /\ spec = None /\ base = None /\ rels = <<>>
    /\ edits = 0 /\ runs = 0 /\ edited = {} /\ pending = {} /\ mates = {}

Up(p) == IF IsPackageDir(local, p) THEN local[p].kptfile.up ELSE None
Lock(p) == IF IsPackageDir(local, p) THEN local[p].kptfile.lock ELSE None
Origin == IF base = None THEN NoTree ELSE Upstream(history, base.src, base.ref)
Prefixed(p, ps) == [i \in 1 .. Len(ps) |-> p \o ps[i]]
DirectSubpackages(T, p) == Prefixed(p, Sorted(Subpackages(At(T, p), "all", FALSE)))

-----------------------------------------------------------------------------
(* kpt pkg get.                                                             *)
Get == \E v \in Versions :
    /\ pc = "start"
    /\ pc' = "get" /\ pkgs' = <<<<>>>>
    /\ local' = [NoTree EXCEPT ![<<>>].kptfile =
          [up |-> [src |-> Root, ref |-> v, strat |-> "resource-merge"], lock |-> None, kf |-> None]]
    /\ UNCHANGED <<envVars, runVars, runs, edited, pending, mates>>

(* cloneAndCopy: package p as it is upstream.                               *)
Fetched(T, p) ==
    LET up == T[p].kptfile.up
        U == Upstream(history, up.src, up.ref)
        copy == UpdateKptfile(CopyPackage(U, At(T, p), TRUE, "all"), U, NoTree, FALSE)
    IN  Graft(T, p, [copy EXCEPT ![<<>>].kptfile.lock = [src |-> up.src, ref |-> up.ref]])

GetNext ==
    /\ pc = "get" /\ pkgs # <<>>
    /\ LET p == Last(pkgs)
       IN  /\ local' = IF Up(p) # None /\ Lock(p) = None THEN Fetched(local, p) ELSE local
           /\ pkgs' = Front(pkgs) \o DirectSubpackages(local', p)
    /\ UNCHANGED <<envVars, runVars, pc, runs, edited, pending, mates>>

(* An error of git: the destination is removed.                             *)
GetFails ==
    /\ pc = "get" /\ pkgs # <<>> /\ Up(Last(pkgs)) # None /\ Lock(Last(pkgs)) = None
    /\ pc' = "start" /\ local' = NoTree /\ pkgs' = <<>>
    /\ UNCHANGED <<envVars, runVars, runs, edited, pending, mates>>

GetDone ==
    /\ pc = "get" /\ pkgs = <<>>
    /\ pc' = "idle"
    /\ UNCHANGED <<envVars, runVars, local, pkgs, runs, edited, pending, mates>>

-----------------------------------------------------------------------------
(* What the user does between commands.                                     *)
Touch(T, touched) ==
    /\ pc = "idle" /\ edits < MaxEdits /\ edits + runs < MaxSteps
    /\ edits' = edits + 1 /\ local' = T /\ edited' = edited \cup touched
    /\ UNCHANGED <<history, runVars, pc, pkgs, runs, pending, mates>>

EditFile == \E p \in Paths, f \in Files :
    Exists(local, p) /\ Touch([local EXCEPT ![p].files[f] = "e"], {<<p, f>>})
DeleteFile == \E p \in Paths, f \in Files :
    local[p].files[f] # None /\ Touch([local EXCEPT ![p].files[f] = None], {<<p, f>>})
AddPackage == \E p \in Paths :
    /\ ~Exists(local, p) /\ Exists(local, Front(p))
    /\ Touch([local EXCEPT ![p] = [kptfile |-> [NoKptfile EXCEPT !.kf = "e"],
                                   files |-> [f \in Files |-> IF f \in KrmFiles /\ Shadows[f] = {} THEN "e" ELSE None]]],
             Below(p) \X Files)
DeletePackage == \E p \in Paths \ {<<>>} :
    Exists(local, p) /\ Touch(RemoveAll(local, p), Below(p) \X Files)

-----------------------------------------------------------------------------
(* Packages below p that its update comes to: none between them is local.   *)
Reached(p, q) == \A r \in Below(p) \ {p, q} :
    IsPrefix(r, q) /\ IsPackageDir(local, r) => Up(r) # None

(* kpt pkg update, of the top package or a remote one inside it.  The new   *)
(* ref and strategy are in the Kptfile before anything is fetched.          *)
Run == \E p \in Paths, v \in Versions, s \in RunStrategies :
    /\ pc = "idle" /\ runs < MaxRuns /\ edits + runs < MaxSteps /\ Up(p) # None
    /\ LET up == [Up(p) EXCEPT !.ref = v, !.strat = s]
       IN  /\ local' = [local EXCEPT ![p].kptfile.up = up]
           /\ cmd' = [pkg |-> p, from |-> Up(p).ref, up |-> up]
    /\ pc' = "fetch" /\ pkgs' = <<p>> /\ runs' = runs + 1
    /\ pending' = pending \cup {<<p, Git(Up(p)')>>}
    /\ mates' = {q \in Below(p) \ {p} : /\ Reached(p, q) /\ Up(q) # None
                                        /\ Up(q).ref = Up(p).ref /\ <<Up(p).src, Up(q).src>> \in Within}
    /\ UNCHANGED <<envVars, top, spec, base, rels, edited>>

(* updateRootPackage: the next package's upstream is fetched, and as its    *)
(* origin the version in its lock.                                          *)
FetchFrom(origin, rest) ==
    /\ pc = "fetch" /\ pkgs # <<>>
    /\ top' = Last(pkgs) /\ spec' = Up(Last(pkgs)) /\ base' = origin
    /\ pkgs' = rest /\ rels' = <<<<>>>> /\ pc' = "merge"
    /\ UNCHANGED <<envVars, cmd, local, runs, edited, pending, mates>>
FetchOriginByRef ==
    LET p == Last(pkgs)
    IN  FetchFrom(IF Lock(p) = None THEN None ELSE [src |-> Up(p).src, ref |-> Up(p).ref], Front(pkgs))
FetchPeeks == FetchFrom(Lock(Last(pkgs)), pkgs)
Fetch == FetchFrom(Lock(Last(pkgs)), Front(pkgs))

(* The command stops: everything it did so far stays.                       *)
Stop ==
    /\ pc' = "idle" /\ pkgs' = <<>> /\ rels' = <<>>
    /\ cmd' = NoCmd /\ top' = <<>> /\ spec' = None /\ base' = None

(* Files at or below p, but not in a remote package below p.                *)
Territory(T, p) ==
    {x \in Below(p) \X Files :
        ~\E q \in Below(p) \ {p} :
            IsPackageDir(T, q) /\ T[q].kptfile.up # None /\ IsPrefix(q, x[1])}

(* Is p, of the package that is updated, to be as upstream has it?          *)
NewUpstream == Upstream(history, spec.src, spec.ref)
Lossy(p) ==
    /\ Up(p) # None /\ Up(p).strat \in {"force-delete-replace", "copy-merge"}
    /\ ~Unfetched(At(NewUpstream, Rest(top, p)))
Covered(p) == Territory(local, p) \cap Territory(Graft(local, top, NewUpstream), p)
Replaced(p) == {x \in Covered(p) : Lossy(p) /\ Up(p).strat = "force-delete-replace"}

(* Directories at or below p that are packages in one of the versions that  *)
(* are merged, and are there without being packages in another.             *)
Converted(p) ==
    LET trees == {At(local, top), NewUpstream, Origin}
    IN  {d \in Below(p) \ {top} : \E A, B \in trees :
            LET q == Rest(top, d) IN IsPackageDir(A, q) /\ ~IsPackageDir(B, q) /\ Exists(B, q)}
InConverted(p, x) == \E d \in Converted(p) : IsPrefix(d, x[1])

(* Files that the update of p spoils.  In remote packages inside p, replace *)
(* removes the local packages and copy-merge overwrites the lock.  In a     *)
(* directory that is a package for one side only, files of the one are      *)
(* merged with nothing, or taken for deleted by the user.                   *)
Spoiled(T, p) ==
    {x \in (Below(p) \X Files) \ Covered(p) :
        /\ Lossy(p) /\ local[x[1]].files[x[2]] # None
        /\ \/ Up(p).strat = "copy-merge"
           \/ T[x[1]].files[x[2]] = None} \cup
    {x \in Below(p) \X Files : InConverted(p, x)}

(* FindSubpackagesForPaths for the package at rel.                          *)
RemoteSubpackages(T, rel) ==
    LET trees == {At(T, top), NewUpstream, Origin}
    IN  Prefixed(rel, Sorted(UNION {Subpackages(At(t, rel), "remote", FALSE) : t \in trees}))

(* updatePackage for the next package of top's.                             *)
Merge ==
    /\ pc = "merge" /\ rels # <<>>
    /\ \E r \in {UpdatePackage(At(local, top), NewUpstream, Origin, Last(rels))} :
           /\ local' = Graft(local, top, r.tree)
           /\ \/ r.err /\ Stop
              \/ ~r.err /\ rels' = Front(rels) \o RemoteSubpackages(local', Last(rels))
                 /\ UNCHANGED <<pc, pkgs, cmd, top, spec, base>>
    /\ edited' = (edited \ Replaced(top \o Last(rels))) \cup Spoiled(local', top \o Last(rels))
    /\ UNCHANGED <<envVars, runs, pending, mates>>

FollowsNewRef(up) == up.ref = cmd.up.ref /\ <<cmd.up.src, up.src>> \in Within
(* shouldUpdateSubPkgRef.                                                   *)
Follows(up) == up.ref = cmd.from /\ <<cmd.up.src, up.src>> \in Within

(* The lock is written, then remote packages just below are given the new   *)
(* ref if they had the old one, and are next.                               *)
Locked == [local EXCEPT ![top].kptfile.lock = [src |-> spec.src, ref |-> spec.ref]]
RemoteBelowTop ==
    Only(DirectSubpackages(Locked, top), {p \in Paths : Up(p) # None})
updateSubKf(d) == [d EXCEPT !.kptfile.up.ref = cmd.up.ref, !.kptfile.up.strat = cmd.up.strat]

FinishWith(next) ==
    /\ pc = "merge" /\ rels = <<>>
    /\ local' = [p \in Paths |->
          IF p \in ToSet(RemoteBelowTop) /\ Follows(Up(p)) THEN updateSubKf(local[p]) ELSE Locked[p]]
    /\ pkgs' = pkgs \o next /\ pc' = "fetch"
    /\ pending' = (pending \ {<<top, Git(spec)>>}) \cup {<<p, Git(Up(p)')>> : p \in ToSet(next)}
    /\ UNCHANGED <<envVars, runVars, runs, edited, mates>>
FinishFollowedOnly ==
    FinishWith(Only(RemoteBelowTop, {p \in Paths : Up(p) # None /\ Follows(Up(p))}))
Finish == FinishWith(RemoteBelowTop)

Done ==
    /\ pc = "fetch" /\ pkgs = <<>>
    /\ pc' = "idle" /\ cmd' = NoCmd /\ top' = <<>> /\ spec' = None /\ base' = None
    /\ UNCHANGED <<envVars, local, pkgs, rels, runs, edited, pending, mates>>

(* An error of git or the disk, or the process is killed.                   *)
Abort ==
    /\ pc \in {"fetch", "merge"}
    /\ Stop
    /\ UNCHANGED <<envVars, local, runs, edited, pending, mates>>

Next ==
    \/ Get \/ GetNext \/ GetFails \/ GetDone
    \/ EditFile \/ DeleteFile \/ AddPackage \/ DeletePackage
    \/ Run \/ Fetch \/ Merge \/ Finish \/ Done \/ Abort

Spec == Init /\ [][Next]_vars

(* A command that runs goes on.  This is weak fairness of Progress, with    *)
(* the condition under which it is enabled written out: evaluating ENABLED  *)
(* of a merge is out of TLC's reach.                                        *)
Running == pc \in {"get", "fetch", "merge"}
Progress == GetNext \/ GetDone \/ Fetch \/ Merge \/ Finish \/ Done
FairSpec == Spec /\ ([]<>~Running \/ []<><<Progress>>_vars)

-----------------------------------------------------------------------------
(* The updates of p and of the packages it is in all went through.          *)
Settled(p) == \A x \in pending : ~IsPrefix(x[1], p)

(* Is p as upstream has it at the version in its lock, but for the files in *)
(* except and for packages that stay as the user touched something in them? *)
(* Files whose name begins with the name of a subpackage are left out:      *)
(* WalkPackage skips them; and so are versions at which upstream itself is  *)
(* not fetched: of those mergePackage takes the Kptfile only.               *)
AsLocked(p, except) ==
    LET U == Upstream(history, Lock(p).src, Lock(p).ref)
        Kept(q) == \E r \in Below(p) \ {p} :
            /\ IsPrefix(r, q) /\ ~Exists(U, Rest(p, r))
            /\ \E x \in except : IsPrefix(r, x[1])
    IN  Unfetched(U) \/ \A x \in Territory(local, p) \ except :
            \/ local[x[1]].files[x[2]] = U[Rest(p, x[1])].files[x[2]]
            \/ Kept(x[1]) \/ Shadows[x[2]] # {}

(* The lock tells the truth: a remote package whose updates went through is *)
(* as upstream has it at the version UpdateUpstreamLockFromGit wrote, but   *)
(* for what the user touched.  Updates that failed or were killed half-way, *)
(* and were run again, included.                                            *)
InSync == \A p \in Paths : Lock(p) # None /\ Settled(p) => AsLocked(p, edited)

(* The same of packages that nobody has touched, with nothing excepted:     *)
(* what the user did not delete is not taken for deleted by the user        *)
(* ("In this case we assume the user knows what they are doing").           *)
UnmodifiedInSync ==
    edits = 0 => \A p \in Paths : Lock(p) # None /\ Settled(p) => AsLocked(p, {})

(* The version in the lock is the one the Kptfile asks for.  Or upstream    *)
(* names, at that version, an upstream of its own, as in a chain of three   *)
(* packages: an update with replace or copy-merge, and one whose new        *)
(* version is unfetched, have put that one into the Kptfile                 *)
(* (updateUpstreamAndUpstreamLock), and the next update will go there.      *)
AtLock(p) ==
    /\ Lock(p) # None
    /\ \/ Lock(p) = [src |-> Up(p).src, ref |-> Up(p).ref]
       \/ Up(p) = Kf(Upstream(history, Lock(p).src, Lock(p).ref)).up

(* After get, and after updates that went through, every remote package is  *)
(* fetched, at the version its Kptfile asks for or one that names what it   *)
(* asks for: the loops of fetchPackages and Run miss none, also those that  *)
(* upstream has just added.  An update does not come to remote packages     *)
(* inside local ones.                                                       *)
AllFetched ==
    pc = "idle" => \A p \in Paths :
        Up(p) # None /\ Settled(p) /\ Reached(<<>>, p) => AtLock(p)

(* Does upstream ask for a version of p that is neither the new one nor one *)
(* that shouldUpdateSubPkgRef replaces by it?                               *)
Repinned(p) == \E q \in Paths \ {p} :
    /\ IsPrefix(q, p) /\ Lock(q) # None
    /\ LET k == Upstream(history, Lock(q).src, Lock(q).ref)[Rest(q, p)].kptfile
       IN  /\ k # None /\ k.up # None /\ k.up.ref # cmd.up.ref
           /\ ~(k.up.ref = cmd.from /\ <<cmd.up.src, k.up.src>> \in Within)

(* Remote packages of the same repository that had the ref of the package   *)
(* that is updated are brought to its new ref with it (shouldUpdateSubPkgRef), *)
(* also those inside other remote packages, unless upstream made a local    *)
(* package of a directory above them.  They are at that ref, and ask for it *)
(* unless upstream names another upstream there.                            *)
Together ==
    pc = "fetch" /\ pkgs = <<>> =>
        \A p \in mates : Up(p) # None /\ Reached(cmd.pkg, p) /\ ~Repinned(p) =>
            AtLock(p) /\ Lock(p).ref = cmd.up.ref

(* get and update end, whatever packages refer to each other: each package  *)
(* that is taken from a stack is deeper than the one that put it there.     *)
Terminates == Running ~> ~Running

Written(x) == local[x[1]].files[x[2]] = "e"

(* Upstream changed the same resource.                                      *)
TakenUpstream(x) ==
    LET q == Rest(top, x[1])
    IN  x[2] \in KrmFiles /\ NewUpstream[q].files[x[2]] \notin {None, Origin[q].files[x[2]]}

(* A strategy that gives up edits: replace does in the package itself and   *)
(* in local packages, copy-merge in files that are or were upstream.        *)
InLocalPackage(x) ==
    \E p \in Paths : /\ IsPrefix(p, x[1]) /\ IsPackageDir(local, p) /\ Up(p) = None
                    /\ \A q \in Below(p) \ {p} : IsPackageDir(local, q) => ~IsPrefix(q, x[1])
GivenUp(x) ==
    LET p == top \o Last(rels)  q == Rest(top, x[1])
    IN  /\ Lossy(p) /\ x[1] \in Below(p)
        /\ IF Up(p).strat = "copy-merge"
           THEN \E T \in {NewUpstream, Origin} : T[q].files[x[2]] # None
           ELSE x \in Territory(local, p) \/ InLocalPackage(x)

(* The package that x's package is in was removed, with x's.                *)
WithParent(x) == \E p \in Paths \ {<<>>, x[1]} :
    IsPrefix(p, x[1]) /\ IsPackageDir(local, p) /\ ~IsPackageDir(local', p)

(* Upstream now has a package of its own where it referred to one before.   *)
TakenOver(x) == \E p \in Below(top \o Last(rels)) \ {top \o Last(rels)} :
    /\ IsPrefix(p, x[1]) /\ Up(p) # None
    /\ LET U == NewUpstream[Rest(top, p)]
       IN  U.kptfile # None /\ U.kptfile.up = None

(* The name of the file begins with that of a package next to it: it is in  *)
(* the way of WalkPackage, so resource-merge does not know that it is there, *)
(* or was changed.                                                          *)
Overlooked(x) == Skipped(local, x[1], x[2])

(* What the user wrote is lost by no step of get or update, failed ones     *)
(* included, other than: a resource upstream changed too, a strategy that   *)
(* gives edits up, a package removed with the one it is in, one that        *)
(* upstream took over or made of a directory (or the other way round), and  *)
(* a file that WalkPackage overlooks.                                       *)
EditsKept ==
    [][pc # "idle" => \A x \in Paths \X Files :
        Written(x) => \/ local'[x[1]].files[x[2]] = "e"
                      \/ TakenUpstream(x) \/ GivenUp(x) \/ WithParent(x) \/ TakenOver(x)
                      \/ InConverted(top \o Last(rels), x) \/ Overlooked(x)]_vars

(* With resource-merge, what the user wrote in a subpackage that upstream   *)
(* deleted is kept ("If there are local changes, we keep the subpackage").  *)
EditsAlwaysKept ==
    [][pc # "idle" => \A x \in Paths \X Files :
        Written(x) => \/ local'[x[1]].files[x[2]] = "e" \/ TakenUpstream(x)
                      \/ InConverted(top \o Last(rels), x) \/ Overlooked(x)]_vars
=============================================================================
