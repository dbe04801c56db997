------------------------------ MODULE GitCache ------------------------------
(***************************************************************************)
(* kpt processes that fetch packages of one upstream repository through    *)
(* the cache directory they share: Cloner.ClonerUsingGitExec               *)
(* (pkg/lib/util/fetch/fetch.go) and gitUpstreamRepoBroker                 *)
(* (internal/gitutil/gitutil.go).  Nothing locks the directory, every git  *)
(* command is a step of its own, upstream moves, processes crash.          *)
(*                                                                         *)
(* A ref is the name of a branch or tag, a full or a short commit SHA.     *)
(* There may be a branch and a tag of one name: the broker then takes the  *)
(* branch, git the tag.  A package is the set of its files, each at the    *)
(* commit it was copied from.                                              *)
(***************************************************************************)
EXTENDS Naturals, Sequences, FiniteSets

CONSTANTS
    Procs,         \* running kpt processes
    Commits,       \* full SHAs, of commits there are or will be
    First,         \* the commit upstream starts with
    HeadNames, TagNames,
    Shorts,        \* short SHAs
    ShortOf,       \* ShortOf[s]: the commit s abbreviates
    LocalBranch,   \* the branch `git init` checks out in the cache
    PackageTags,   \* PackageTags[r]: r prefixed with the package's path and
                   \*   the directories above it, longest first
    Wanted,        \* the refs processes ask for
    Files,         \* the files of the package
    None,
    MaxFetches,    \* bound on fetches, of all processes
    MaxMoves       \* bound on changes upstream

Names == HeadNames \cup TagNames
Refs == Names \cup Commits \cup Shorts
CommitOrNone == Commits \cup {None}

(* refs/heads/x and refs/tags/x.                                            *)
RefNames == ({"heads"} \X HeadNames) \cup ({"tags"} \X TagNames)

ASSUME RefAssumption ==
    /\ First \in Commits /\ None \notin Refs /\ LocalBranch \in HeadNames
    /\ Names \cap (Commits \cup Shorts) = {} /\ Commits \cap Shorts = {}
    /\ ShortOf \in [Shorts -> Commits]
    /\ PackageTags \in [Refs -> Seq(TagNames)]
    /\ Wanted \subseteq Refs
    /\ MaxFetches \in Nat /\ MaxMoves \in Nat

VARIABLES
    published, upstream, moves,     \* the upstream repository: commits, refs
    dir, objects, worktree, local,  \* the cache: directory, commits, checked
                                    \*   out commit, refs of its own
    pc, ref, commit, copied, err,   \* a fetch: repoSpec, its temp directory
    broker, listed, fetchedRefs,    \* a process' gitUpstreamRepoBroker
    n,                              \* fetches begun, of all processes
    seen, moved, clobbered          \* history: what a ref was upstream since
                                    \*   the fetch began; upstream changed
                                    \*   since ls-remote; another process
                                    \*   reset the cache since this one did

remote  == <<published, upstream, moves>>
cache   == <<dir, objects, worktree, local>>
fetch   == <<pc, ref, commit, copied, err, n>>
brokers == <<broker, listed, fetchedRefs>>
history == <<seen, moved, clobbered>>
vars == <<remote, cache, fetch, brokers, history>>

NoRefs == [x \in RefNames |-> None]
NothingCopied == [f \in Files |-> None]

(* What a name is as a branch or as a tag, in a repository with these refs. *)
As(kind, x, refs) == IF <<kind, x>> \in RefNames THEN refs[<<kind, x>>] ELSE None
BranchFirst(x, refs) ==
    IF As("heads", x, refs) # None THEN As("heads", x, refs) ELSE As("tags", x, refs)
TagFirst(x, refs) ==
    IF As("tags", x, refs) # None THEN As("tags", x, refs) ELSE As("heads", x, refs)

Init ==
    /\ published = {First} /\ moves = 0
    /\ upstream \in {u \in [RefNames -> {First, None}] :
                        \A h \in HeadNames : u[<<"heads", h>>] = First}
    /\ dir = "absent" /\ objects = {} /\ worktree = None /\ local = NoRefs
    /\ pc = [p \in Procs |-> "idle"] /\ n = 0
    /\ ref = [p \in Procs |-> None] /\ commit = [p \in Procs |-> None]
    /\ copied = [p \in Procs |-> NothingCopied] /\ err = [p \in Procs |-> "none"]
    /\ broker = [p \in Procs |-> FALSE] /\ listed = [p \in Procs |-> NoRefs]
    /\ fetchedRefs = [p \in Procs |-> {}]
    /\ seen = [p \in Procs |-> {}] /\ moved = [p \in Procs |-> FALSE]
    /\ clobbered = [p \in Procs |-> FALSE]

-----------------------------------------------------------------------------
(* The upstream repository.                                                 *)

Set(x, c) ==
    /\ moves < MaxMoves /\ moves' = moves + 1
    /\ upstream' = [upstream EXCEPT ![x] = c]
    /\ seen' = [p \in Procs |-> seen[p] \cup {<<x, c>>}]
    /\ moved' = [p \in Procs |-> TRUE]
    /\ UNCHANGED <<cache, fetch, brokers, clobbered>>

(* A branch gets a new commit, or is reset to an old one.                   *)
Push(h, c) ==
    /\ upstream[<<"heads", h>>] # c /\ Set(<<"heads", h>>, c)
    /\ published' = published \cup {c}

(* A tag is created or moved, a branch or a tag is deleted.                 *)
Tag(t, c) == upstream[<<"tags", t>>] # c /\ Set(<<"tags", t>>, c) /\ UNCHANGED published
DeleteRef(x) == upstream[x] # None /\ Set(x, None) /\ UNCHANGED published

-----------------------------------------------------------------------------
(* Steps of process p.                                                      *)

Goto(p, l) == pc' = [pc EXCEPT ![p] = l]

NoBroker(p) ==
    /\ broker' = [broker EXCEPT ![p] = FALSE]
    /\ listed' = [listed EXCEPT ![p] = NoRefs]
    /\ fetchedRefs' = [fetchedRefs EXCEPT ![p] = {}]

(* An error ends the command and with it the broker.                        *)
FailKeepingBroker(p, e) ==
    /\ Goto(p, "failed") /\ err' = [err EXCEPT ![p] = e]
    /\ UNCHANGED brokers
Fail(p, e) ==
    /\ Goto(p, "failed") /\ err' = [err EXCEPT ![p] = e]
    /\ NoBroker(p)

(* A fetch of ref r begins.  pkg update gives a broker of an earlier fetch  *)
(* to it (WithCachedRepo), other commands make a new one.                   *)
Begin(p, r) ==
    /\ pc[p] \in {"idle", "done", "failed"} /\ n < MaxFetches /\ n' = n + 1
    /\ ref' = [ref EXCEPT ![p] = r] /\ commit' = [commit EXCEPT ![p] = None]
    /\ copied' = [copied EXCEPT ![p] = NothingCopied]
    /\ err' = [err EXCEPT ![p] = "none"]
    /\ \/ broker[p] /\ Goto(p, "tag") /\ UNCHANGED brokers
       \/ Goto(p, "stat") /\ NoBroker(p)
    /\ seen' = [seen EXCEPT ![p] = {<<x, upstream[x]>> : x \in RefNames}]
    /\ clobbered' = [clobbered EXCEPT ![p] = FALSE]
    /\ UNCHANGED <<remote, cache, moved>>

(* cacheRepo: the cache is created when its directory is not there.  It is  *)
(* never removed, so that later calls of cacheRepo find it.                 *)
Stat(p) ==
    /\ pc[p] = "stat"
    /\ Goto(p, IF dir = "absent" THEN "init" ELSE "list")
    /\ UNCHANGED <<remote, cache, ref, commit, copied, err, n, brokers, history>>

(* git init leaves a directory that is there alone.                         *)
GitInit(p) ==
    /\ pc[p] = "init" /\ Goto(p, "remote")
    /\ dir' = IF dir = "absent" THEN "no origin" ELSE dir
    /\ UNCHANGED <<remote, objects, worktree, local, ref, commit, copied, err, n,
                   brokers, history>>

(* git remote add fails if there is an origin.                              *)
RemoteAdd(p) ==
    /\ pc[p] = "remote"
    /\ IF dir = "no origin"
       THEN Goto(p, "list") /\ dir' = "ready" /\ UNCHANGED <<err, brokers>>
       ELSE Fail(p, "origin exists") /\ UNCHANGED dir
    /\ UNCHANGED <<remote, objects, worktree, local, ref, commit, copied, n, history>>

(* GetRepo without the refresh of the refs.                                 *)
ListRefsOnce(p) ==
    /\ pc[p] \in {"list", "relist"} /\ dir = "ready"
    /\ Goto(p, IF pc[p] = "list" THEN "tag" ELSE "fetch")
    /\ broker' = [broker EXCEPT ![p] = TRUE]
    /\ listed' = IF pc[p] = "list" THEN [listed EXCEPT ![p] = upstream] ELSE listed
    /\ moved' = IF pc[p] = "list" THEN [moved EXCEPT ![p] = FALSE] ELSE moved
    /\ UNCHANGED <<remote, cache, ref, commit, copied, err, n, fetchedRefs, seen, clobbered>>

(* updateRefs: git ls-remote.  NewGitUpstreamRepo and GetRepo each call it. *)
ListRefs(p) ==
    /\ pc[p] \in {"list", "relist"} /\ dir = "ready"
    /\ Goto(p, IF pc[p] = "list" THEN "tag" ELSE "fetch")
    /\ broker' = [broker EXCEPT ![p] = TRUE]
    /\ listed' = [listed EXCEPT ![p] = upstream]
    /\ moved' = [moved EXCEPT ![p] = FALSE]
    /\ UNCHANGED <<remote, cache, ref, commit, copied, err, n, fetchedRefs, seen, clobbered>>

ListRefsFails(p) ==
    /\ pc[p] \in {"list", "relist"} /\ dir # "ready"
    /\ Fail(p, "no origin")
    /\ UNCHANGED <<remote, cache, ref, commit, copied, n, history>>

(* The package's own tag, the first in PackageTags the broker knows, is     *)
(* used if there is one.                                                    *)
KnownTags(p) ==
    {i \in DOMAIN PackageTags[ref[p]] : As("tags", PackageTags[ref[p]][i], listed[p]) # None}

PackageRef(p) ==
    /\ pc[p] = "tag" /\ Goto(p, "relist")
    /\ \/ KnownTags(p) = {} /\ UNCHANGED ref
       \/ \E i \in KnownTags(p) :
             /\ \A j \in KnownTags(p) : i <= j
             /\ ref' = [ref EXCEPT ![p] = PackageTags[@][i]]
    /\ UNCHANGED <<remote, cache, commit, copied, err, n, brokers, history>>

(* ResolveRef and the key of fetchedRefs.                                   *)
Resolved(p) == ref[p] \in Names /\ BranchFirst(ref[p], listed[p]) # None
ResolveRef(p) == IF Resolved(p) THEN BranchFirst(ref[p], listed[p]) ELSE ref[p]

CacheKeyByName(p) == ref[p]
CacheKey(p) == ResolveRef(p)

(* What git makes of revision r in a repository with these commits and refs.*)
RevParse(r, commits, refs) ==
    LET sha == IF r \in Shorts THEN ShortOf[r] ELSE r IN
    IF r \in Names THEN TagFirst(r, refs) ELSE IF sha \in commits THEN sha ELSE None

(* cacheRepo: the ref has been fetched through this broker before.          *)
FetchSkipped(p) ==
    /\ pc[p] = "fetch" /\ CacheKey(p) \in fetchedRefs[p] /\ Goto(p, "reset")
    /\ UNCHANGED <<remote, cache, ref, commit, copied, err, n, brokers, history>>

(* An error of git fetch goes unnoticed.                                    *)
FetchOneUnchecked(p) ==
    /\ pc[p] = "fetch" /\ CacheKey(p) \notin fetchedRefs[p]
    /\ Resolved(p) \/ ref[p] \in Commits
    /\ objects' = objects \cup {IF ref[p] \in Names THEN TagFirst(ref[p], upstream) ELSE ref[p]}
    /\ fetchedRefs' = [fetchedRefs EXCEPT ![p] = @ \cup {CacheKey(p)}]
    /\ Goto(p, "reset")
    /\ UNCHANGED <<remote, dir, worktree, local, ref, commit, copied, err, broker, listed,
                   n, history>>

(* git fetch --depth=1 gets what the ref is upstream now, which need not be *)
(* what ls-remote said.                                                     *)
FetchOne(p) ==
    /\ pc[p] = "fetch" /\ CacheKey(p) \notin fetchedRefs[p]
    /\ Resolved(p) \/ ref[p] \in Commits
    /\ LET got == IF ref[p] \in Names THEN TagFirst(ref[p], upstream) ELSE ref[p] IN
          IF got \in published
          THEN /\ objects' = objects \cup {got}
               /\ fetchedRefs' = [fetchedRefs EXCEPT ![p] = @ \cup {CacheKey(p)}]
               /\ Goto(p, "reset") /\ UNCHANGED <<err, broker, listed>>
          ELSE Fail(p, "fetch") /\ UNCHANGED objects
    /\ UNCHANGED <<remote, dir, worktree, local, ref, commit, copied, n, history>>

(* git fetch of everything, then git show.  Of old commits it may get any   *)
(* (the cache is a shallow clone); tags are stored and never updated.       *)
FetchAll(p) ==
    /\ pc[p] = "fetch" /\ CacheKey(p) \notin fetchedRefs[p]
    /\ ~Resolved(p) /\ ref[p] \notin Commits
    /\ \E T \in SUBSET published :
          /\ {upstream[x] : x \in RefNames} \ {None} \subseteq T
          /\ objects' = objects \cup T
    /\ local' = [x \in RefNames |-> IF x[1] = "tags" /\ local[x] = None
                                    THEN upstream[x] ELSE local[x]]
    /\ IF RevParse(ref[p], objects', local') # None
       THEN /\ fetchedRefs' = [fetchedRefs EXCEPT ![p] = @ \cup {CacheKey(p)}]
            /\ Goto(p, "reset") /\ UNCHANGED <<err, broker, listed>>
       ELSE Fail(p, "show")
    /\ UNCHANGED <<remote, dir, worktree, ref, commit, copied, n, history>>

(* The cache is reset only when it is fresh.                                *)
ResetOnce(p) ==
    /\ pc[p] = "reset"
    /\ commit' = [commit EXCEPT ![p] = ResolveRef(p)]
    /\ LET to == RevParse(ResolveRef(p), objects, local) IN
          IF to # None
          THEN /\ worktree' = IF worktree = None THEN to ELSE worktree
               /\ local' = [local EXCEPT ![<<"heads", LocalBranch>>] = worktree']
               /\ clobbered' = [q \in Procs |-> q # p]
               /\ Goto(p, "copy") /\ UNCHANGED <<err, brokers>>
          ELSE Fail(p, "reset") /\ UNCHANGED <<worktree, local, clobbered>>
    /\ UNCHANGED <<remote, dir, objects, ref, copied, n, seen, moved>>

(* git reset --hard moves the branch that is checked out.                   *)
Reset(p) ==
    /\ pc[p] = "reset"
    /\ commit' = [commit EXCEPT ![p] = ResolveRef(p)]
    /\ LET to == RevParse(ResolveRef(p), objects, local) IN
          IF to # None
          THEN /\ worktree' = to /\ local' = [local EXCEPT ![<<"heads", LocalBranch>>] = to]
               /\ clobbered' = [q \in Procs |-> q # p]
               /\ Goto(p, "copy") /\ UNCHANGED <<err, brokers>>
          ELSE Fail(p, "reset") /\ UNCHANGED <<worktree, local, clobbered>>
    /\ UNCHANGED <<remote, dir, objects, ref, copied, n, seen, moved>>

(* copyDir copies file by file out of the cache.                            *)
CopyFile(p, f) ==
    /\ pc[p] = "copy" /\ copied[p][f] = None
    /\ copied' = [copied EXCEPT ![p][f] = worktree]
    /\ UNCHANGED <<remote, cache, pc, ref, commit, err, n, brokers, history>>

(* The commit that is checked out does not have the package's directory, or *)
(* has an invalid Kptfile there.                                            *)
CopyFails(p) ==
    /\ pc[p] = "copy" /\ Fail(p, "package")
    /\ UNCHANGED <<remote, cache, ref, commit, copied, n, history>>

(* The copy and the commit are the caller's (UpdateUpstreamLockFromGit).    *)
CopyDone(p) ==
    /\ pc[p] = "copy" /\ \A f \in Files : copied[p][f] # None
    /\ Goto(p, "done")
    /\ UNCHANGED <<remote, cache, ref, commit, copied, err, n, brokers, history>>

(* The process is killed, or a git command fails on its own account.        *)
Crash(p) ==
    /\ pc[p] \notin {"idle", "done", "failed"}
    /\ Fail(p, "crash")
    /\ UNCHANGED <<remote, cache, ref, commit, copied, n, history>>

-----------------------------------------------------------------------------
Upstream ==
    \/ \E h \in HeadNames, c \in Commits : Push(h, c)
    \/ \E t \in TagNames, c \in published : Tag(t, c)
    \/ \E x \in RefNames : DeleteRef(x)

Clone(p) ==
    \/ \E r \in Wanted : Begin(p, r)
    \/ Stat(p) \/ GitInit(p) \/ RemoteAdd(p) \/ ListRefs(p) \/ ListRefsFails(p)
    \/ PackageRef(p) \/ FetchSkipped(p) \/ FetchOne(p) \/ FetchAll(p) \/ Reset(p)
    \/ \E f \in Files : CopyFile(p, f)
    \/ CopyFails(p) \/ CopyDone(p) \/ Crash(p)

Next == Upstream \/ \E p \in Procs : Clone(p)

Spec == Init /\ [][Next]_vars

-----------------------------------------------------------------------------
PcType == {"idle", "stat", "init", "remote", "list", "tag", "relist", "fetch", "reset",
           "copy", "done", "failed"}
ErrType == {"none", "origin exists", "no origin", "fetch", "show", "reset", "package", "crash"}

(* The variables have their types; only commits of upstream get into the    *)
(* cache.                                                                   *)
TypeOK ==
    /\ published \subseteq Commits /\ upstream \in [RefNames -> CommitOrNone]
    /\ moves \in 0 .. MaxMoves
    /\ dir \in {"absent", "no origin", "ready"} /\ objects \subseteq published
    /\ worktree \in CommitOrNone /\ local \in [RefNames -> CommitOrNone]
    /\ pc \in [Procs -> PcType] /\ err \in [Procs -> ErrType]
    /\ ref \in [Procs -> Refs \cup {None}] /\ commit \in [Procs -> Refs \cup {None}]
    /\ copied \in [Procs -> [Files -> CommitOrNone]] /\ n \in 0 .. MaxFetches
    /\ broker \in [Procs -> BOOLEAN] /\ listed \in [Procs -> [RefNames -> CommitOrNone]]
    /\ fetchedRefs \in [Procs -> SUBSET Refs]
    /\ seen \in [Procs -> SUBSET (RefNames \X CommitOrNone)]
    /\ moved \in [Procs -> BOOLEAN] /\ clobbered \in [Procs -> BOOLEAN]

(* The commit a branch or tag is fetched at is one it pointed to upstream   *)
(* while the fetch was going on: never what an older broker, or the cache,  *)
(* remembers ("a moved ref is fetched again instead of being served the     *)
(* stale commit").                                                          *)
FreshCommit ==
    \A p \in Procs : pc[p] = "done" /\ ref[p] \in Names /\ commit[p] \in Commits =>
        \E kind \in {"heads", "tags"} : <<<<kind, ref[p]>>, commit[p]>> \in seen[p]

(* A branch and a tag of one name that are not the same commit: git fetches *)
(* the tag, and the reset is to the branch.                                 *)
Namesakes(x, refs) ==
    /\ As("heads", x, refs) # None /\ As("tags", x, refs) # None
    /\ As("heads", x, refs) # As("tags", x, refs)

(* git reset --hard fails only if upstream changed between ls-remote and    *)
(* git fetch, or the ref is the name of a branch and of another tag: a      *)
(* commit that is skipped as fetched is there.                              *)
ResetFailsOnlyOnMove ==
    \A p \in Procs : err[p] = "reset" => moved[p] \/ Namesakes(ref[p], upstream)

(* What fetchedRefs says a broker can skip is in the cache whenever the     *)
(* broker is used again, whatever happened upstream in earlier fetches.     *)
SkipIsSound ==
    \A p \in Procs : pc[p] \in {"done", "tag", "relist"} =>
        fetchedRefs[p] \cap Commits \subseteq objects

(* All files of a copy are of the commit that will be recorded.  If that is *)
(* a name, which upstream had no more, it is what the cache has by it.      *)
Means(r, commits, refs) ==
    IF r \in Names THEN {As("heads", r, refs), As("tags", r, refs)}
    ELSE {RevParse(r, commits, refs)}
FromCommit(p) ==
    \E c \in Means(commit[p], objects, local) : \A f \in Files : copied[p][f] \in {None, c}

(* Unless another process resets the cache in the meantime, a package is    *)
(* copied at the commit that is recorded for it, whatever the cache held.   *)
CopyIsCommit ==
    \A p \in Procs : pc[p] \in {"copy", "done"} /\ ~clobbered[p] => FromCommit(p)

(* What the Kptfile type says of a lock's commit: "Commit is the SHA-1 for  *)
(* the last fetch of the package".  The files fetched are those of it, also *)
(* if other processes use the cache.                                        *)
LockedContent == \A p \in Procs : pc[p] = "done" => FromCommit(p)

=============================================================================
