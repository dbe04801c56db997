------------------------------ MODULE PkgTree ------------------------------
(***************************************************************************)
(* Package trees and what kpt does with them: finding subpackages, copying, *)
(* comparing and removing packages, and the four strategies that bring a    *)
(* local package to a new upstream version.                                 *)
(*                                                                          *)
(* A tree says what is in each directory: the Kptfile, if the directory is  *)
(* a package, and its files.  A Kptfile is the upstream the package follows, *)
(* the lock (the version it was last fetched at) and the rest, kf; a file    *)
(* is a value.  In a KRM file one resource is taken to be one value.         *)
(***************************************************************************)
EXTENDS SequencesExt

CONSTANTS
    Order,       \* all directories, as paths, in the order sort.Slice gives them
    Files,       \* names of files
    KrmFiles,    \* those that hold resources; the others are copied as they are
    Shadows,     \* Shadows[f]: names of directories that f's name begins with
    Values,      \* contents of files and Kptfiles
    Sources,     \* upstream packages (repository and directory)
    Versions,    \* versions of the upstream packages
    Strategies,  \* update strategies in Kptfiles
    None

Paths == ToSet(Order)

Below(p) == {q \in Paths : IsPrefix(p, q)}
Rest(p, q) == SubSeq(q, Len(p) + 1, Len(q))

ASSUME TreeAssumption ==
    /\ Order \in Seq(Seq(STRING)) /\ IsInjective(Order) /\ <<>> \in Paths
    /\ \A i, j \in DOMAIN Order : IsPrefix(Order[i], Order[j]) => i <= j \* RootPkgFirstSorter
    /\ \A p \in Paths : \A i \in 0 .. Len(p) : SubSeq(p, 1, i) \in Paths
    /\ \A p \in Paths : \A q \in Below(p) : Rest(p, q) \in Paths
    /\ KrmFiles \subseteq Files
    /\ Shadows \in [Files -> SUBSET STRING]
    /\ None \notin Values \cup Sources \cup Versions
    /\ Strategies \subseteq {"resource-merge", "fast-forward", "force-delete-replace", "copy-merge"}

Upstreams == [src : Sources, ref : Versions, strat : Strategies]
Locks == [src : Sources, ref : Versions]
Kptfiles == [up : Upstreams \cup {None}, lock : Locks \cup {None}, kf : Values \cup {None}]
Dirs == [kptfile : Kptfiles \cup {None}, files : [Files -> Values \cup {None}]]
Trees == [Paths -> Dirs]

ASSUME NoneAssumption == None \notin Upstreams \cup Locks \cup Kptfiles

NoDir == [kptfile |-> None, files |-> [f \in Files |-> None]]
NoTree == [p \in Paths |-> NoDir]
NoKptfile == [up |-> None, lock |-> None, kf |-> None]

(* Kptfile of the directory, the zero value if there is none.               *)
Kf(T) == IF T[<<>>].kptfile = None THEN NoKptfile ELSE T[<<>>].kptfile

(* The tree below p, and T with U in place of it.                           *)
At(T, p) == [q \in Paths |-> IF p \o q \in Paths THEN T[p \o q] ELSE NoDir]
Graft(T, p, U) == [q \in Paths |-> IF q \in Below(p) THEN U[Rest(p, q)] ELSE T[q]]
RemoveAll(T, p) == Graft(T, p, NoTree)

IsPackageDir(T, p) == T[p].kptfile # None

(* A directory is there if something is in it; the top one always is.       *)
Exists(T, p) == p = <<>> \/ \E q \in Below(p) : T[q] # NoDir

(* The members of a list that are in S, in their order.                     *)
Only(list, S) ==
    LET kept[i \in 0 .. Len(list)] ==
            IF i = 0 THEN <<>>
            ELSE IF list[i] \in S THEN Append(kept[i - 1], list[i]) ELSE kept[i - 1]
    IN  kept[Len(list)]
Sorted(S) == Only(Order, S)

(* The packages below the top one.  Unless recursive, the walk goes no      *)
(* deeper once it is at one, whether it matches or not.                     *)
Matches(k, matcher) ==
    CASE matcher = "local" -> k.up = None
      [] matcher = "remote" -> k.up # None
      [] matcher = "all" -> TRUE
Subpackages(T, matcher, recursive) ==
    LET found == {q \in Paths \ {<<>>} : IsPackageDir(T, q)}
    IN  {q \in found :
            /\ Matches(T[q].kptfile, matcher)
            /\ recursive \/ \A r \in found : r # q => ~IsPrefix(r, q)}

(* The directories of the top package: those not in a subpackage.           *)
Own(T) ==
    {q \in Paths : \A r \in Paths \ {<<>>} : IsPackageDir(T, r) => ~IsPrefix(r, q)}

(* WalkPackage skips every path that begins with the path of a subpackage   *)
(* it met before: its content, but also s.yaml after a subpackage s.        *)
Skipped(T, p, f) == \E d \in Shadows[f] :
    Append(p, d) \in Paths /\ IsPackageDir(T, Append(p, d))
Walked(T) ==
    {x \in Own(T) \X Files : T[x[1]].files[x[2]] # None /\ ~Skipped(T, x[1], x[2])}

(* Does the top package of A differ from that of B?  Upstream and lock do   *)
(* not count.                                                               *)
PkgDiff(A, B) ==
    \/ IsPackageDir(A, <<>>) # IsPackageDir(B, <<>>)
    \/ Kf(A).kf # Kf(B).kf
    \/ Walked(A) # Walked(B)
    \/ \E x \in Walked(A) : A[x[1]].files[x[2]] # B[x[1]].files[x[2]]

(* Copies the top package of U into L, with all subpackages if asked to.    *)
(* The Kptfile on top is never overwritten, those of subpackages are.       *)
CopyPackage(U, L, copyRootKptfile, matcher) ==
    LET subs == IF matcher = "none" THEN {} ELSE Subpackages(U, matcher, TRUE)
        InSub(q) == \E r \in subs : IsPrefix(r, q)
    IN  [q \in Paths |->
            [kptfile |-> IF U[q].kptfile # None
                            /\ (InSub(q) \/ (q = <<>> /\ copyRootKptfile /\ L[q].kptfile = None))
                         THEN U[q].kptfile ELSE L[q].kptfile,
             files |-> [f \in Files |->
                         IF U[q].files[f] # None /\ (InSub(q) \/ <<q, f>> \in Walked(U))
                         THEN U[q].files[f] ELSE L[q].files[f]]]]

(* Removes the files of the top package.                                    *)
RemovePackageContent(T, removeRootKptfile) ==
    [q \in Paths |->
        [kptfile |-> IF q = <<>> /\ removeRootKptfile THEN None ELSE T[q].kptfile,
         files |-> [f \in Files |-> IF <<q, f>> \in Walked(T) THEN None ELSE T[q].files[f]]]]

(* Removes from L what O has and U has not, in subpackages too.             *)
RemoveStaleItems(O, U, L) ==
    [q \in Paths |->
        [kptfile |-> IF q # <<>> /\ U[q].kptfile = None /\ O[q].kptfile # None
                     THEN None ELSE L[q].kptfile,
         files |-> [f \in Files |->
                     IF U[q].files[f] = None /\ O[q].files[f] # None
                     THEN None ELSE L[q].files[f]]]]

-----------------------------------------------------------------------------
(* Three-way merges.                                                        *)

(* A value that upstream changed is taken, others stay.                     *)
MergeValue(l, u, o) == IF u # o THEN u ELSE l

MergeResource(l, u, o) ==
    IF o = None /\ u = None THEN l
    ELSE IF o = None /\ l = None THEN u
    ELSE IF u = None THEN IF o = l THEN None ELSE l
    ELSE IF l = None THEN None
    ELSE MergeValue(l, u, o)

MergeNonKrmUnchecked(l, u, o) == u
(* What was modified locally is left, what was not (or is not there) is as  *)
(* it is upstream.                                                          *)
MergeNonKrm(l, u, o) == IF l # None /\ l # o THEN l ELSE u

(* The Kptfile on top of L, merged; with upstream and lock if asked to.     *)
UpdateKptfile(L, U, O, updateUpstream) ==
    LET l == Kf(L)  u == Kf(U)  o == Kf(O)
        k == [up   |-> IF updateUpstream /\ u.up # None THEN u.up ELSE l.up,
              lock |-> IF updateUpstream /\ u.lock # None THEN u.lock ELSE l.lock,
              kf   |-> MergeValue(l.kf, u.kf, o.kf)]
    IN  [L EXCEPT ![<<>>].kptfile = k]

MergeFiles(L, U, O) ==
    LET Resource(T, q, f) == IF q \in Own(T) THEN T[q].files[f] ELSE None
        NonKrm(T, q, f) == IF <<q, f>> \in Walked(T) THEN T[q].files[f] ELSE None
        Merged(q, f) ==
            IF f \in KrmFiles
            THEN MergeResource(Resource(L, q, f), Resource(U, q, f), Resource(O, q, f))
            ELSE MergeNonKrm(NonKrm(L, q, f), NonKrm(U, q, f), NonKrm(O, q, f))
        Hidden(q, f) == L[q].files[f] # None /\
            IF f \in KrmFiles THEN q \notin Own(L) ELSE <<q, f>> \notin Walked(L)
    IN  [q \in Paths |-> [L[q] EXCEPT !.files = [f \in Files |->
            IF Hidden(q, f) /\ Merged(q, f) = None THEN L[q].files[f] ELSE Merged(q, f)]]]

-----------------------------------------------------------------------------
(* The strategies.  Each brings L, forked from O, to U.  The result is a    *)
(* tree and whether there was an error; the tree is then what was done      *)
(* before.                                                                  *)

Ok(T) == [tree |-> T, err |-> FALSE]
Failed(T) == [tree |-> T, err |-> TRUE]

(* Does Step(T, p) for the top package and then for the packages ps.        *)
ForEach(Step(_, _), T, ps) ==
    LET done[i \in 0 .. Len(ps)] ==
            IF i = 0 THEN Step(T, <<>>)
            ELSE LET before == done[i - 1]
                 IN  IF before.err THEN before ELSE Step(before.tree, ps[i])
    IN  done[Len(ps)]

(* ResourceMergeUpdater.updatePackage and mergePackage, for package p.      *)
MergePackage(L, U, O, p, isRoot) ==
    LET l == At(L, p)  u == At(U, p)  o == At(O, p)
    IN  Graft(L, p, MergeFiles(UpdateKptfile(l, u, o, ~isRoot), u, o))

ResourceMergePackage(L, U, O, p, isRoot) ==
    LET inL == Exists(L, p)  inU == Exists(U, p)  inO == Exists(O, p)
    IN  CASE inL /\ inU /\ ~inO -> Failed(L)
          [] ~inL /\ inU /\ ~inO ->
                Ok(Graft(L, p, CopyPackage(At(U, p), At(L, p), ~isRoot, "none")))
          [] inL /\ ~inU /\ inO ->
                IF PkgDiff(At(O, p), At(L, p)) THEN Ok(L) ELSE Ok(RemoveAll(L, p))
          [] inL /\ inU /\ inO -> Ok(MergePackage(L, U, O, p, isRoot))
             \* removed together with the package it is in: its Kptfile cannot be written
          [] ~inL /\ ~inU /\ ~inO -> Failed(L)
          [] OTHER -> Ok(L)

Git(up) == IF up = None THEN None ELSE <<up.src, up.ref>>
PkgHasUpdatedUpstream(L, O) == Kf(O).up # None /\ Git(Kf(L).up) # Git(Kf(O).up)

ResourceMerge(L, U, O, isRoot) ==
    LET subs == UNION {Subpackages(T, "local", TRUE) : T \in {L, U, O}}
    IN  IF ~isRoot /\ PkgHasUpdatedUpstream(L, O) THEN Ok(L)
        ELSE ForEach(LAMBDA T, p : ResourceMergePackage(T, U, O, p, isRoot /\ p = <<>>),
                     L, Sorted(subs))

Replace(L, U, O, isRoot) ==
    LET T0 == UpdateKptfile(L, U, O, TRUE)
        subs == Subpackages(T0, "local", TRUE) \cup Subpackages(U, "local", TRUE)
        ReplacePackage(T, p) ==
            LET root == isRoot /\ p = <<>>
                emptied == RemovePackageContent(At(T, p), ~root)
            IN  IF Exists(U, p)
                THEN Ok(Graft(T, p, CopyPackage(At(U, p), emptied, ~root, "none")))
                ELSE Ok(RemoveAll(T, p))
    IN  ForEach(ReplacePackage, T0, Sorted(subs))

LocalChanges(L, O) ==
    \E p \in {<<>>} \cup Subpackages(L, "local", TRUE) \cup Subpackages(O, "local", TRUE) :
        \/ ~Exists(L, p) \/ ~Exists(O, p)
        \/ IF p = <<>> /\ ~IsPackageDir(O, p)
           THEN \* the Kptfile was made by kpt: only more than the default counts
                PkgDiff([L EXCEPT ![p].kptfile = [Kf(L) EXCEPT !.up = None, !.lock = None]],
                        [O EXCEPT ![p].kptfile = NoKptfile])
           ELSE PkgDiff(At(L, p), At(O, p))

FastForward(L, U, O, isRoot) ==
    IF LocalChanges(L, O) THEN Failed(L) ELSE Replace(L, U, O, isRoot)

CopyMerge(L, U, O, isRoot) ==
    LET T == CopyPackage(U, UpdateKptfile(L, U, O, TRUE), isRoot, "all")
    IN  Ok(RemoveStaleItems(O, U, T))

Update(strat, L, U, O, isRoot) ==
    CASE strat = "resource-merge" -> ResourceMerge(L, U, O, isRoot)
      [] strat = "fast-forward" -> FastForward(L, U, O, isRoot)
      [] strat = "force-delete-replace" -> Replace(L, U, O, isRoot)
      [] strat = "copy-merge" -> CopyMerge(L, U, O, isRoot)

-----------------------------------------------------------------------------
(* Command.mergePackage: a package that is not fetched in upstream has only *)
(* a Kptfile to merge.                                                      *)
Unfetched(T) == Kf(T).up # None /\ Kf(T).lock = None
UpdateByStrategy(L, U, O, isRoot) ==
    CASE Unfetched(U) -> Ok(UpdateKptfile(L, U, O, TRUE))
      [] ~Unfetched(U) /\ (Unfetched(O) \/ Kf(L).up = None) -> Failed(L)
      [] OTHER -> Update(Kf(L).up.strat, L, U, O, isRoot)

(* Command.updatePackage, for the package at p of a package that is being   *)
(* updated from O to U.                                                     *)
UpdatePackage(L, U, O, p) ==
    LET isRoot == p = <<>>
        l == At(L, p)  u == At(U, p)  o == At(O, p)
        inL == IsPackageDir(L, p)
        inU == isRoot \/ IsPackageDir(U, p)
        inO == isRoot \/ IsPackageDir(O, p)
        merged == UpdateByStrategy(l, u, o, isRoot)
    IN  CASE inL /\ inU /\ ~inO -> Failed(L)
          [] ~inL /\ inU /\ ~inO -> Ok(Graft(L, p, CopyPackage(u, l, ~isRoot, "none")))
          [] inL /\ ~inU /\ inO -> IF l = o THEN Ok(RemoveAll(L, p)) ELSE Ok(L)
          [] inL /\ inU /\ inO -> [merged EXCEPT !.tree = Graft(L, p, merged.tree)]
          [] OTHER -> Ok(L)
=============================================================================
