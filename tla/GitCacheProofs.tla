--------------------------- MODULE GitCacheProofs ---------------------------
(***************************************************************************)
(* Proofs about GitCache, for any number of processes, commits and refs.   *)
(***************************************************************************)
EXTENDS GitCache, TLAPS

(* A fetch that has begun has a ref.                                        *)
RefInv == \A p \in Procs : pc[p] # "idle" => ref[p] \in Refs

TypeInv == TypeOK /\ RefInv

(* What a name is, as a branch or as a tag, is what one of the refs is.     *)
LEMMA AsType ==
  ASSUME NEW refs \in [RefNames -> CommitOrNone], NEW x
  PROVE  /\ As("heads", x, refs) \in CommitOrNone /\ As("tags", x, refs) \in CommitOrNone
         /\ BranchFirst(x, refs) \in CommitOrNone /\ TagFirst(x, refs) \in CommitOrNone
         /\ BranchFirst(x, refs) # None =>
              \E kind \in {"heads", "tags"} : <<kind, x>> \in RefNames /\ BranchFirst(x, refs) = refs[<<kind, x>>]
  <1>1. As("heads", x, refs) \in CommitOrNone /\ As("tags", x, refs) \in CommitOrNone
    BY DEF As, CommitOrNone
  <1> QED BY <1>1 DEF As, BranchFirst, TagFirst

(* Git and the broker take the same commit, unless there are namesakes.     *)
LEMMA Unambiguous ==
  ASSUME NEW x, NEW refs, ~Namesakes(x, refs)
  PROVE  BranchFirst(x, refs) = TagFirst(x, refs)
  BY DEF Namesakes, BranchFirst, TagFirst

(* A name resolves to a commit, other refs to themselves.                   *)
LEMMA ResolveRefType ==
  ASSUME TypeInv, NEW p \in Procs
  PROVE  /\ ResolveRef(p) \in Refs \cup {None}
         /\ Resolved(p) => ResolveRef(p) \in Commits
  <1>1. ref[p] \in Refs \cup {None} /\ listed[p] \in [RefNames -> CommitOrNone]
    BY DEF TypeInv, TypeOK
  <1>2. Resolved(p) => BranchFirst(ref[p], listed[p]) \in Commits
    BY <1>1, AsType DEF Resolved, CommitOrNone
  <1> QED BY <1>1, <1>2 DEF ResolveRef, Refs

(* git finds commits of the repository only, and nothing for no revision.   *)
LEMMA RevParseType ==
  ASSUME NEW S \in SUBSET Commits, NEW names \in [RefNames -> CommitOrNone],
         NEW r \in Refs \cup {None}
  PROVE  /\ RevParse(r, S, names) \in CommitOrNone
         /\ RevParse(None, S, names) = None
  BY RefAssumption, AsType DEF RevParse, CommitOrNone, Refs

(* A process without a broker has the types of one.                         *)
LEMMA NoBrokerType ==
  ASSUME TypeInv, NEW p \in Procs, NoBroker(p)
  PROVE  /\ broker' \in [Procs -> BOOLEAN] /\ listed' \in [Procs -> [RefNames -> CommitOrNone]]
         /\ fetchedRefs' \in [Procs -> SUBSET Refs]
  BY DEF NoBroker, NoRefs, TypeInv, TypeOK, CommitOrNone

(* Failing keeps the types.                                                 *)
LEMMA FailType ==
  ASSUME TypeInv, NEW p \in Procs, NEW e \in ErrType, Fail(p, e)
  PROVE  /\ pc' \in [Procs -> PcType] /\ err' \in [Procs -> ErrType]
         /\ broker' \in [Procs -> BOOLEAN] /\ listed' \in [Procs -> [RefNames -> CommitOrNone]]
         /\ fetchedRefs' \in [Procs -> SUBSET Refs]
         /\ pc[p] # "idle" => \A q \in Procs : pc'[q] # "idle" => pc[q] # "idle"
  BY DEF Fail, Goto, NoBroker, NoRefs, TypeInv, TypeOK, PcType, CommitOrNone

(* The types hold initially.                                                *)
LEMMA InitType == Init => TypeInv
  BY RefAssumption
  DEF Init, TypeInv, TypeOK, RefInv, PcType, ErrType, CommitOrNone, NoRefs, NothingCopied

(* Changes upstream keep the types.                                         *)
LEMMA UpstreamType ==
  ASSUME TypeInv, Upstream
  PROVE  TypeInv'
  <1>1. ASSUME NEW x \in RefNames, NEW c \in CommitOrNone, Set(x, c),
               published' \in SUBSET Commits, published \subseteq published'
        PROVE  TypeInv'
    <2>0. /\ upstream \in [RefNames -> CommitOrNone] /\ moves \in 0 .. MaxMoves
          /\ seen \in [Procs -> SUBSET (RefNames \X CommitOrNone)]
      BY DEF TypeInv, TypeOK
    <2>1. upstream' \in [RefNames -> CommitOrNone] /\ moves' \in 0 .. MaxMoves
      <3>1. moves' = moves + 1 /\ moves < MaxMoves /\ MaxMoves \in Nat
        BY <1>1, RefAssumption DEF Set
      <3>2. upstream' = [upstream EXCEPT ![x] = c]
        BY <1>1 DEF Set
      <3> QED BY <1>1, <2>0, <3>1, <3>2
    <2>2. seen' \in [Procs -> SUBSET (RefNames \X CommitOrNone)]
      <3>1. \A q \in Procs : seen[q] \cup {<<x, c>>} \in SUBSET (RefNames \X CommitOrNone)
        BY <1>1, <2>0
      <3>2. seen' = [q \in Procs |-> seen[q] \cup {<<x, c>>}]
        BY <1>1 DEF Set
      <3> QED BY <3>1, <3>2
    <2>3. moved' \in [Procs -> BOOLEAN]
      BY <1>1, Zenon DEF Set
    <2>4. UNCHANGED <<cache, fetch, brokers, clobbered>>
      BY <1>1 DEF Set
    <2> QED BY <1>1, <2>1, <2>2, <2>3, <2>4
        DEF TypeInv, TypeOK, RefInv, cache, fetch, brokers
  <1>2. ASSUME NEW h \in HeadNames, NEW c \in Commits, Push(h, c)
        PROVE  TypeInv'
    BY <1>1, <1>2 DEF Push, RefNames, CommitOrNone, TypeInv, TypeOK
  <1>3. ASSUME NEW t \in TagNames, NEW c \in published, Tag(t, c)
        PROVE  TypeInv'
    BY <1>1, <1>3 DEF Tag, RefNames, CommitOrNone, TypeInv, TypeOK
  <1>4. ASSUME NEW x \in RefNames, DeleteRef(x)
        PROVE  TypeInv'
    BY <1>1, <1>4 DEF DeleteRef, CommitOrNone, TypeInv, TypeOK
  <1> QED BY <1>2, <1>3, <1>4 DEF Upstream

(* Every step of a process keeps the types.                                 *)
LEMMA CloneType ==
  ASSUME TypeInv, NEW p \in Procs, Clone(p)
  PROVE  TypeInv'
  <1> USE DEF remote, cache, brokers, history
  <1>1. ASSUME NEW r \in Wanted, Begin(p, r)
        PROVE  TypeInv'
    <2>1. /\ pc' \in [Procs -> PcType] /\ err' \in [Procs -> ErrType]
          /\ ref' \in [Procs -> Refs \cup {None}] /\ commit' \in [Procs -> Refs \cup {None}]
      BY <1>1, RefAssumption DEF Begin, Goto, TypeInv, TypeOK, PcType, ErrType
    <2>2. copied' \in [Procs -> [Files -> CommitOrNone]] /\ n' \in 0 .. MaxFetches
      <3>1. NothingCopied \in [Files -> CommitOrNone]
        BY DEF NothingCopied, CommitOrNone
      <3>2. copied \in [Procs -> [Files -> CommitOrNone]] /\ n \in 0 .. MaxFetches
        BY DEF TypeInv, TypeOK
      <3>3. copied' = [copied EXCEPT ![p] = NothingCopied] /\ n' = n + 1 /\ n < MaxFetches
        BY <1>1 DEF Begin
      <3> QED BY <3>1, <3>2, <3>3, RefAssumption
    <2>3. /\ broker' \in [Procs -> BOOLEAN] /\ listed' \in [Procs -> [RefNames -> CommitOrNone]]
          /\ fetchedRefs' \in [Procs -> SUBSET Refs]
      <3>1. CASE UNCHANGED brokers
        BY <3>1 DEF TypeInv, TypeOK
      <3>2. CASE NoBroker(p)
        BY <3>2, NoBrokerType
      <3> QED BY <1>1, <3>1, <3>2 DEF Begin
    <2>6. seen' \in [Procs -> SUBSET (RefNames \X CommitOrNone)]
      <3>1. {<<x, upstream[x]>> : x \in RefNames} \in SUBSET (RefNames \X CommitOrNone)
        <4>1. \A x \in RefNames : upstream[x] \in CommitOrNone
          BY DEF TypeInv, TypeOK
        <4> QED BY <4>1
      <3>2. seen \in [Procs -> SUBSET (RefNames \X CommitOrNone)]
        BY DEF TypeInv, TypeOK
      <3>3. seen' = [seen EXCEPT ![p] = {<<x, upstream[x]>> : x \in RefNames}]
        BY <1>1 DEF Begin
      <3> QED BY <3>1, <3>2, <3>3
    <2>4. clobbered' \in [Procs -> BOOLEAN]
      BY <1>1 DEF Begin, TypeInv, TypeOK
    <2>5. RefInv'
      BY <1>1, RefAssumption DEF Begin, Goto, RefInv, TypeInv, TypeOK
    <2> QED BY <1>1, <2>1, <2>2, <2>3, <2>4, <2>5, <2>6 DEF Begin, TypeInv, TypeOK
  <1>2. CASE Stat(p)
    BY <1>2 DEF Stat, Goto, TypeInv, TypeOK, RefInv, PcType
  <1>3. CASE GitInit(p)
    BY <1>3 DEF GitInit, Goto, TypeInv, TypeOK, RefInv, PcType
  <1>4. CASE RemoteAdd(p)
    BY <1>4, FailType DEF RemoteAdd, Goto, TypeInv, TypeOK, RefInv, PcType, ErrType
  <1>5. CASE ListRefs(p)
    BY <1>5 DEF ListRefs, Goto, TypeInv, TypeOK, RefInv, PcType
  <1>6. CASE ListRefsFails(p)
    BY <1>6, FailType DEF ListRefsFails, TypeInv, TypeOK, RefInv, ErrType
  <1>7. CASE PackageRef(p)
    <2>1. ref[p] \in Refs
      BY <1>7 DEF PackageRef, TypeInv, RefInv
    <2>2. \A i \in KnownTags(p) : PackageTags[ref[p]][i] \in Refs
      BY <2>1, RefAssumption DEF KnownTags, Refs, Names
    <2> QED BY <1>7, <2>2 DEF PackageRef, Goto, TypeInv, TypeOK, RefInv, PcType
  <1>8. CASE FetchSkipped(p)
    BY <1>8 DEF FetchSkipped, Goto, TypeInv, TypeOK, RefInv, PcType
  <1>9. CASE FetchOne(p)
    <2>1. CacheKey(p) \in Refs
      BY <1>9, ResolveRefType DEF FetchOne, CacheKey, ResolveRef, Refs
    <2>2. CASE Fail(p, "fetch") /\ UNCHANGED objects
      BY <1>9, <2>2, FailType DEF FetchOne, TypeInv, TypeOK, RefInv, ErrType
    <2>3. CASE /\ Goto(p, "reset") /\ UNCHANGED <<err, broker, listed>>
               /\ fetchedRefs' = [fetchedRefs EXCEPT ![p] = @ \cup {CacheKey(p)}]
               /\ objects' \in SUBSET published
      BY <1>9, <2>1, <2>3 DEF FetchOne, Goto, TypeInv, TypeOK, RefInv, PcType
    <2>4. ASSUME NEW got \in published, objects' = objects \cup {got}
          PROVE  objects' \in SUBSET published
      BY <2>4 DEF TypeInv, TypeOK
    <2> QED BY <1>9, <2>2, <2>3, <2>4 DEF FetchOne
  <1>10. CASE FetchAll(p)
    <2>1. CacheKey(p) \in Refs
      BY <1>10 DEF FetchAll, CacheKey, ResolveRef, TypeInv, RefInv
    <2>2. objects' \subseteq published /\ local' \in [RefNames -> CommitOrNone]
      BY <1>10 DEF FetchAll, TypeInv, TypeOK
    <2>3. CASE Fail(p, "show")
      BY <1>10, <2>2, <2>3, FailType DEF FetchAll, TypeInv, TypeOK, RefInv, ErrType
    <2>4. CASE /\ Goto(p, "reset") /\ UNCHANGED <<err, broker, listed>>
               /\ fetchedRefs' = [fetchedRefs EXCEPT ![p] = @ \cup {CacheKey(p)}]
      BY <1>10, <2>1, <2>2, <2>4 DEF FetchAll, Goto, TypeInv, TypeOK, RefInv, PcType
    <2> QED BY <1>10, <2>3, <2>4 DEF FetchAll
  <1>11. CASE Reset(p)
    <2>1. commit' \in [Procs -> Refs \cup {None}]
      BY <1>11, ResolveRefType DEF Reset, TypeInv, TypeOK
    <2>2. RevParse(ResolveRef(p), objects, local) \in CommitOrNone
      BY ResolveRefType, RevParseType DEF TypeInv, TypeOK
    <2>3. CASE Fail(p, "reset") /\ UNCHANGED <<worktree, local, clobbered>>
      BY <1>11, <2>1, <2>3, FailType DEF Reset, TypeInv, TypeOK, RefInv, ErrType
    <2>4. CASE /\ Goto(p, "copy") /\ UNCHANGED <<err, brokers>>
               /\ worktree' \in CommitOrNone
               /\ local' = [local EXCEPT ![<<"heads", LocalBranch>>] = worktree']
               /\ clobbered' = [q \in Procs |-> q # p]
      <3>1. clobbered' \in [Procs -> BOOLEAN]
        BY <2>4, Zenon
      <3>2. pc' \in [Procs -> PcType] /\ RefInv' /\ local' \in [RefNames -> CommitOrNone]
        BY <1>11, <2>4 DEF Reset, Goto, TypeInv, TypeOK, RefInv, PcType
      <3> QED BY <1>11, <2>1, <2>4, <3>1, <3>2 DEF Reset, TypeInv, TypeOK
    <2> QED BY <1>11, <2>2, <2>3, <2>4 DEF Reset
  <1>12. ASSUME NEW f \in Files, CopyFile(p, f)
         PROVE  TypeInv'
    BY <1>12 DEF CopyFile, TypeInv, TypeOK, RefInv
  <1>13. CASE CopyFails(p)
    BY <1>13, FailType DEF CopyFails, TypeInv, TypeOK, RefInv, ErrType
  <1>14. CASE CopyDone(p)
    BY <1>14 DEF CopyDone, Goto, TypeInv, TypeOK, RefInv, PcType
  <1>15. CASE Crash(p)
    BY <1>15, FailType DEF Crash, TypeInv, TypeOK, RefInv, ErrType
  <1> QED BY <1>1, <1>2, <1>3, <1>4, <1>5, <1>6, <1>7, <1>8, <1>9, <1>10, <1>11, <1>12,
             <1>13, <1>14, <1>15 DEF Clone

(* Every step keeps the types.                                              *)
LEMMA NextType == TypeInv /\ [Next]_vars => TypeInv'
  <1> SUFFICES ASSUME TypeInv, [Next]_vars PROVE TypeInv'
    OBVIOUS
  <1>1. CASE UNCHANGED vars
    BY <1>1 DEF vars, remote, cache, fetch, brokers, history, TypeInv, TypeOK, RefInv
  <1> QED BY <1>1, UpstreamType, CloneType DEF Next

(* Whatever the processes and upstream do, the state of cache, brokers and  *)
(* fetches has its types; only commits that were published upstream are     *)
(* ever in the cache.                                                       *)
THEOREM TypeCorrect == Spec => []TypeOK
  <1>1. TypeInv => TypeOK
    BY DEF TypeInv
  <1> QED BY <1>1, InitType, NextType, PTL DEF Spec

-----------------------------------------------------------------------------
(* The inductive invariant, for one process.                                *)

(* An error is one of the last fetch, and nothing is copied before a reset. *)
FreshFetch(p) ==
    /\ pc[p] # "failed" => err[p] = "none"
    /\ pc[p] \notin {"copy", "done", "failed"} => copied[p] = NothingCopied

Known(r) == RevParse(r, objects, local) # None

(* What can be skipped is known in the cache, but for the ref the process   *)
(* has just fetched and is about to find missing.                           *)
SkipInv(p) ==
    \A r \in fetchedRefs[p] : Known(r) \/ (pc[p] = "reset" /\ r = ResolveRef(p))

(* Without a change upstream and without namesakes the fetch gets what      *)
(* ls-remote said.                                                          *)
MoveInv(p) ==
    ~moved[p] => /\ pc[p] \in {"fetch", "reset"} => listed[p] = upstream
                 /\ pc[p] = "reset" => Known(ResolveRef(p)) \/ Namesakes(ref[p], upstream)
                 /\ err[p] = "reset" => Namesakes(ref[p], upstream)

(* What the broker knows when it resolves the ref was so during the fetch.  *)
SeenInv(p) ==
    /\ pc[p] # "idle" => \A x \in RefNames : <<x, upstream[x]>> \in seen[p]
    /\ pc[p] \in {"fetch", "reset"} =>
          \A x \in RefNames : listed[p][x] # None => <<x, listed[p][x]>> \in seen[p]
    /\ pc[p] \in {"copy", "done"} /\ ref[p] \in Names /\ commit[p] \in Commits =>
          \E kind \in {"heads", "tags"} : <<<<kind, ref[p]>>, commit[p]>> \in seen[p]

(* Until another process resets the cache, the commit is checked out.       *)
CopyInv(p) ==
    pc[p] \in {"copy", "done"} /\ ~clobbered[p] =>
        /\ worktree # None /\ worktree \in Means(commit[p], objects, local)
        /\ \A f \in Files : copied[p][f] \in {None, worktree}

ProcInv(p) == FreshFetch(p) /\ SkipInv(p) /\ MoveInv(p) /\ SeenInv(p) /\ CopyInv(p)

Inv == TypeInv /\ \A p \in Procs : ProcInv(p)

-----------------------------------------------------------------------------
(* What a step of process p leaves alone of process q.                      *)
Untouched(q) ==
    /\ pc'[q] = pc[q] /\ ref'[q] = ref[q] /\ commit'[q] = commit[q]
    /\ copied'[q] = copied[q] /\ err'[q] = err[q] /\ listed'[q] = listed[q]
    /\ fetchedRefs'[q] = fetchedRefs[q] /\ seen'[q] = seen[q] /\ moved'[q] = moved[q]

(* What a step leaves alone of the cache, as far as q can tell.             *)
CacheKept(q) ==
    ~clobbered'[q] =>
        /\ ~clobbered[q] /\ worktree' = worktree
        /\ \A x \in RefNames : local[x] # None => local'[x] = local[x]

CacheGrown ==
    /\ objects \subseteq objects'
    /\ \A x \in RefNames : local[x] # None => local'[x] # None

(* A process does not touch what belongs to another.                        *)
LEMMA Others ==
  ASSUME TypeInv, NEW p \in Procs, NEW q \in Procs, q # p, Clone(p)
  PROVE  Untouched(q)
  <1> USE DEF Untouched, Goto, Fail, NoBroker, brokers, history
  <1>1. ASSUME NEW r \in Wanted, Begin(p, r)
        PROVE  Untouched(q)
    BY <1>1 DEF Begin, TypeInv, TypeOK
  <1>2. CASE Stat(p)
    BY <1>2 DEF Stat, TypeInv, TypeOK
  <1>3. CASE GitInit(p)
    BY <1>3 DEF GitInit, TypeInv, TypeOK
  <1>4. CASE RemoteAdd(p)
    <2>1. CASE Fail(p, "origin exists")
      BY <1>4, <2>1 DEF RemoteAdd, TypeInv, TypeOK
    <2>2. CASE Goto(p, "list") /\ UNCHANGED <<err, brokers>>
      BY <1>4, <2>2 DEF RemoteAdd, TypeInv, TypeOK
    <2> QED BY <1>4, <2>1, <2>2 DEF RemoteAdd
  <1>5. CASE ListRefs(p)
    BY <1>5 DEF ListRefs, TypeInv, TypeOK
  <1>6. CASE ListRefsFails(p)
    BY <1>6 DEF ListRefsFails, TypeInv, TypeOK
  <1>7. CASE PackageRef(p)
    BY <1>7 DEF PackageRef, TypeInv, TypeOK
  <1>8. CASE FetchSkipped(p)
    BY <1>8 DEF FetchSkipped, TypeInv, TypeOK
  <1>9. CASE FetchOne(p)
    BY <1>9 DEF FetchOne, TypeInv, TypeOK
  <1>10. CASE FetchAll(p)
    BY <1>10 DEF FetchAll, TypeInv, TypeOK
  <1>11. CASE Reset(p)
    <2>1. CASE Fail(p, "reset")
      BY <1>11, <2>1 DEF Reset, TypeInv, TypeOK
    <2>2. CASE Goto(p, "copy") /\ UNCHANGED <<err, brokers>>
      BY <1>11, <2>2 DEF Reset, TypeInv, TypeOK
    <2> QED BY <1>11, <2>1, <2>2 DEF Reset
  <1>12. CASE CopyFails(p)
    BY <1>12 DEF CopyFails, TypeInv, TypeOK
  <1>13. CASE CopyDone(p)
    BY <1>13 DEF CopyDone, TypeInv, TypeOK
  <1>14. CASE Crash(p)
    BY <1>14 DEF Crash, TypeInv, TypeOK
  <1>15. ASSUME NEW f \in Files, CopyFile(p, f)
         PROVE  Untouched(q)
    BY <1>15 DEF CopyFile, TypeInv, TypeOK
  <1> QED BY <1>1, <1>2, <1>3, <1>4, <1>5, <1>6, <1>7, <1>8, <1>9, <1>10, <1>11, <1>12,
             <1>13, <1>14, <1>15 DEF Clone

(* Only a reset changes the checked-out commit and refs the cache has, and  *)
(* it tells the other processes so.                                         *)
LEMMA OthersCache ==
  ASSUME TypeInv, NEW p \in Procs, NEW q \in Procs, q # p, Clone(p)
  PROVE  CacheKept(q)
  <1> USE DEF CacheKept, cache, history
  <1>1. ASSUME NEW r \in Wanted, Begin(p, r)
        PROVE  CacheKept(q)
    BY <1>1 DEF Begin, TypeInv, TypeOK
  <1>2. CASE Stat(p)
    BY <1>2 DEF Stat, TypeInv, TypeOK
  <1>3. CASE GitInit(p)
    BY <1>3 DEF GitInit, TypeInv, TypeOK
  <1>4. CASE RemoteAdd(p)
    BY <1>4 DEF RemoteAdd, TypeInv, TypeOK
  <1>5. CASE ListRefs(p)
    BY <1>5 DEF ListRefs, TypeInv, TypeOK
  <1>6. CASE ListRefsFails(p)
    BY <1>6 DEF ListRefsFails, TypeInv, TypeOK
  <1>7. CASE PackageRef(p)
    BY <1>7 DEF PackageRef, TypeInv, TypeOK
  <1>8. CASE FetchSkipped(p)
    BY <1>8 DEF FetchSkipped, TypeInv, TypeOK
  <1>9. CASE FetchOne(p)
    BY <1>9 DEF FetchOne, TypeInv, TypeOK
  <1>10. CASE FetchAll(p)
    BY <1>10 DEF FetchAll, TypeInv, TypeOK
  <1>11. CASE Reset(p)
    BY <1>11 DEF Reset, TypeInv, TypeOK
  <1>12. CASE CopyFails(p)
    BY <1>12 DEF CopyFails, TypeInv, TypeOK
  <1>13. CASE CopyDone(p)
    BY <1>13 DEF CopyDone, TypeInv, TypeOK
  <1>14. CASE Crash(p)
    BY <1>14 DEF Crash, TypeInv, TypeOK
  <1>15. ASSUME NEW f \in Files, CopyFile(p, f)
         PROVE  CacheKept(q)
    BY <1>15 DEF CopyFile, TypeInv, TypeOK
  <1> QED BY <1>1, <1>2, <1>3, <1>4, <1>5, <1>6, <1>7, <1>8, <1>9, <1>10, <1>11, <1>12,
             <1>13, <1>14, <1>15 DEF Clone

(* The cache never loses a commit or a ref.                                 *)
LEMMA Grows ==
  ASSUME TypeInv, NEW p \in Procs, Clone(p)
  PROVE  CacheGrown /\ upstream' = upstream
  <1> USE DEF CacheGrown, cache, remote
  <1>1. ASSUME NEW r \in Wanted, Begin(p, r)
        PROVE  CacheGrown /\ upstream' = upstream
    BY <1>1 DEF Begin, TypeInv, TypeOK
  <1>2. CASE Stat(p)
    BY <1>2 DEF Stat, TypeInv, TypeOK
  <1>3. CASE GitInit(p)
    BY <1>3 DEF GitInit, TypeInv, TypeOK
  <1>4. CASE RemoteAdd(p)
    BY <1>4 DEF RemoteAdd, TypeInv, TypeOK
  <1>5. CASE ListRefs(p)
    BY <1>5 DEF ListRefs, TypeInv, TypeOK
  <1>6. CASE ListRefsFails(p)
    BY <1>6 DEF ListRefsFails, TypeInv, TypeOK
  <1>7. CASE PackageRef(p)
    BY <1>7 DEF PackageRef, TypeInv, TypeOK
  <1>8. CASE FetchSkipped(p)
    BY <1>8 DEF FetchSkipped, TypeInv, TypeOK
  <1>9. CASE FetchOne(p)
    BY <1>9 DEF FetchOne, TypeInv, TypeOK
  <1>10. CASE FetchAll(p)
    BY <1>10 DEF FetchAll, TypeInv, TypeOK
  <1>11. CASE Reset(p)
    BY <1>11 DEF Reset, TypeInv, TypeOK
  <1>12. CASE CopyFails(p)
    BY <1>12 DEF CopyFails, TypeInv, TypeOK
  <1>13. CASE CopyDone(p)
    BY <1>13 DEF CopyDone, TypeInv, TypeOK
  <1>14. CASE Crash(p)
    BY <1>14 DEF Crash, TypeInv, TypeOK
  <1>15. ASSUME NEW f \in Files, CopyFile(p, f)
         PROVE  CacheGrown /\ upstream' = upstream
    BY <1>15 DEF CopyFile, TypeInv, TypeOK
  <1> QED BY <1>1, <1>2, <1>3, <1>4, <1>5, <1>6, <1>7, <1>8, <1>9, <1>10, <1>11, <1>12,
             <1>13, <1>14, <1>15 DEF Clone

(* So what git knows, it knows for ever.                                    *)
LEMMA KnownGrows ==
  ASSUME CacheGrown, NEW r, Known(r)
  PROVE  Known(r)'
  BY RefAssumption, ZenonT(30) DEF CacheGrown, Known, RevParse, As, TagFirst

(* A step of another process preserves the invariant of q.                  *)
LEMMA OtherStep ==
  ASSUME Inv, NEW p \in Procs, NEW q \in Procs, q # p, Clone(p)
  PROVE  ProcInv(q)'
  <1>1. Untouched(q) /\ CacheKept(q) /\ CacheGrown /\ upstream' = upstream
    BY Others, OthersCache, Grows DEF Inv
  <1>2. ProcInv(q)
    BY DEF Inv
  <1>3. ResolveRef(q)' = ResolveRef(q)
    BY <1>1 DEF Untouched, ResolveRef, Resolved
  <1>4. FreshFetch(q)'
    BY <1>1, <1>2 DEF ProcInv, FreshFetch, Untouched
  <1>5. SkipInv(q)'
    BY <1>1, <1>2, <1>3, KnownGrows DEF ProcInv, SkipInv, Untouched
  <1>6. MoveInv(q)'
    BY <1>1, <1>2, <1>3, KnownGrows DEF ProcInv, MoveInv, Untouched
  <1>7. SeenInv(q)'
    BY <1>1, <1>2 DEF ProcInv, SeenInv, Untouched
  <1>8. CopyInv(q)'
    <2> SUFFICES ASSUME pc[q] \in {"copy", "done"}, ~clobbered'[q]
                 PROVE  /\ worktree' # None /\ worktree' \in Means(commit'[q], objects', local')
                        /\ \A f \in Files : copied'[q][f] \in {None, worktree'}
      BY <1>1 DEF CopyInv, Untouched
    <2>1. /\ worktree # None /\ worktree \in Means(commit[q], objects, local)
          /\ \A f \in Files : copied[q][f] \in {None, worktree}
          /\ worktree' = worktree /\ \A x \in RefNames : local[x] # None => local'[x] = local[x]
      BY <1>1, <1>2 DEF ProcInv, CopyInv, CacheKept
    <2>2. CASE commit[q] \in Names
      <3>1. \A kind : As(kind, commit[q], local) # None => As(kind, commit[q], local') = As(kind, commit[q], local)
        BY <2>1 DEF As
      <3> QED BY <1>1, <2>1, <2>2, <3>1 DEF Means, Untouched
    <2>3. CASE commit[q] \notin Names
      <3>1. RevParse(commit[q], objects', local') = worktree
        BY <1>1, <2>1, <2>3, RefAssumption DEF Means, CacheGrown, RevParse
      <3> QED BY <1>1, <2>1, <2>3, <3>1 DEF Means, Untouched
    <2> QED BY <2>2, <2>3
  <1> QED BY <1>4, <1>5, <1>6, <1>7, <1>8 DEF ProcInv

(* A change upstream preserves the invariant of every process.              *)
LEMMA UpstreamStep ==
  ASSUME Inv, Upstream, NEW q \in Procs
  PROVE  ProcInv(q)'
  <1>1. ASSUME NEW x \in RefNames, NEW c, Set(x, c)
        PROVE  ProcInv(q)'
    <2>1. /\ UNCHANGED <<cache, fetch, brokers, clobbered>> /\ moved'[q]
          /\ seen'[q] = seen[q] \cup {<<x, c>>}
          /\ \A y \in RefNames : upstream'[y] = IF y = x THEN c ELSE upstream[y]
      BY <1>1 DEF Set, Inv, TypeInv, TypeOK
    <2>2. ProcInv(q)
      BY DEF Inv
    <2>3. FreshFetch(q)' /\ SkipInv(q)' /\ CopyInv(q)'
      BY <2>1, <2>2 DEF ProcInv, FreshFetch, SkipInv, CopyInv, Means, Known, RevParse,
         ResolveRef, Resolved, cache, fetch, brokers
    <2>4. MoveInv(q)'
      BY <2>1 DEF MoveInv
    <2>5. SeenInv(q)'
      BY <2>1, <2>2 DEF ProcInv, SeenInv, fetch, brokers
    <2> QED BY <2>3, <2>4, <2>5 DEF ProcInv
  <1>2. \A h \in HeadNames : <<"heads", h>> \in RefNames
    BY DEF RefNames
  <1>3. \A t \in TagNames : <<"tags", t>> \in RefNames
    BY DEF RefNames
  <1> QED BY <1>1, <1>2, <1>3 DEF Upstream, Push, Tag, DeleteRef

(* A process that fails keeps its invariant, if a reset fails only after a  *)
(* change upstream or for namesakes.                                        *)
LEMMA FailStep ==
  ASSUME Inv, NEW p \in Procs, NEW e, Fail(p, e), pc[p] # "idle",
         upstream' = upstream, seen'[p] = seen[p], moved'[p] = moved[p],
         ref'[p] = ref[p], e = "reset" => moved[p] \/ Namesakes(ref[p], upstream)
  PROVE  ProcInv(p)'
  <1>1. pc'[p] = "failed" /\ err'[p] = e /\ fetchedRefs'[p] = {}
    BY DEF Fail, Goto, NoBroker, Inv, TypeInv, TypeOK
  <1>2. SeenInv(p)
    BY DEF Inv, ProcInv
  <1> QED BY <1>1, <1>2
      DEF ProcInv, FreshFetch, SkipInv, MoveInv, SeenInv, CopyInv

(* So does one that goes on before it has resolved its ref.                 *)
LEMMA EarlyStep ==
  ASSUME Inv, NEW p \in Procs, Clone(p),
         pc[p] \in {"stat", "init", "remote", "list", "tag"},
         pc'[p] \in {"init", "remote", "list", "tag", "relist"},
         err'[p] = err[p], copied'[p] = copied[p], fetchedRefs'[p] = fetchedRefs[p],
         seen'[p] = seen[p]
  PROVE  ProcInv(p)'
  <1>1. CacheGrown /\ upstream' = upstream
    BY Grows DEF Inv
  <1>2. FreshFetch(p) /\ SkipInv(p) /\ SeenInv(p)
    BY DEF Inv, ProcInv
  <1>3. FreshFetch(p)' /\ MoveInv(p)' /\ SeenInv(p)' /\ CopyInv(p)'
    BY <1>1, <1>2 DEF FreshFetch, MoveInv, SeenInv, CopyInv
  <1>4. SkipInv(p)'
    BY <1>1, <1>2, KnownGrows DEF SkipInv
  <1> QED BY <1>3, <1>4 DEF ProcInv

(* The actions of process p preserve its own invariant.                     *)
LEMMA BeginStep ==
  ASSUME Inv, NEW p \in Procs, NEW r \in Wanted, Begin(p, r)
  PROVE  ProcInv(p)'
  <1>1. /\ pc[p] # "reset" /\ pc'[p] \in {"tag", "stat"} /\ err'[p] = "none"
        /\ copied'[p] = NothingCopied /\ fetchedRefs'[p] \in {fetchedRefs[p], {}}
        /\ seen'[p] = {<<x, upstream[x]>> : x \in RefNames} /\ upstream' = upstream
        /\ UNCHANGED cache
    BY DEF Begin, Goto, NoBroker, Inv, TypeInv, TypeOK, remote, brokers
  <1>2. SkipInv(p)
    BY DEF Inv, ProcInv
  <1>3. SkipInv(p)'
    BY <1>1, <1>2 DEF SkipInv, Known, cache
  <1>4. FreshFetch(p)' /\ MoveInv(p)' /\ CopyInv(p)'
    BY <1>1 DEF FreshFetch, MoveInv, CopyInv
  <1>5. SeenInv(p)'
    BY <1>1 DEF SeenInv
  <1> QED BY <1>3, <1>4, <1>5 DEF ProcInv

(* After ls-remote the broker knows what upstream is.                       *)
LEMMA ListRefsStep ==
  ASSUME Inv, NEW p \in Procs, ListRefs(p), Clone(p)
  PROVE  ProcInv(p)'
  <1>1. /\ pc'[p] = IF pc[p] = "list" THEN "tag" ELSE "fetch"
        /\ listed'[p] = upstream /\ pc[p] \in {"list", "relist"}
        /\ UNCHANGED <<cache, upstream, ref, commit, copied, err, fetchedRefs, seen>>
    BY DEF ListRefs, Goto, Inv, TypeInv, TypeOK, remote
  <1>2. CASE pc[p] = "list"
    BY <1>1, <1>2, EarlyStep
  <1>3. CASE pc[p] = "relist"
    <2>1. FreshFetch(p) /\ SkipInv(p) /\ SeenInv(p)
      BY DEF Inv, ProcInv
    <2>2. FreshFetch(p)' /\ MoveInv(p)' /\ CopyInv(p)'
      BY <1>1, <1>3, <2>1 DEF FreshFetch, MoveInv, CopyInv
    <2>3. SkipInv(p)'
      BY <1>1, <1>3, <2>1 DEF SkipInv, Known, cache
    <2>4. SeenInv(p)'
      BY <1>1, <1>3, <2>1 DEF SeenInv
    <2> QED BY <2>2, <2>3, <2>4 DEF ProcInv
  <1> QED BY <1>1, <1>2, <1>3

(* Once fetched, or skipped, the ref is known, unless upstream has changed. *)
LEMMA FetchedStep ==
  ASSUME Inv, NEW p \in Procs, Clone(p), pc[p] = "fetch", pc'[p] = "reset",
         fetchedRefs'[p] \subseteq fetchedRefs[p] \cup {ResolveRef(p)},
         ~moved[p] => Known(ResolveRef(p))' \/ Namesakes(ref[p], upstream),
         ref'[p] = ref[p], listed'[p] = listed[p], copied'[p] = copied[p],
         err'[p] = err[p], seen'[p] = seen[p], moved'[p] = moved[p]
  PROVE  ProcInv(p)'
  <1>1. CacheGrown /\ upstream' = upstream
    BY Grows DEF Inv
  <1>2. ResolveRef(p)' = ResolveRef(p)
    BY DEF ResolveRef, Resolved
  <1>3. FreshFetch(p) /\ SkipInv(p) /\ SeenInv(p)
    BY DEF Inv, ProcInv
  <1>4. FreshFetch(p)' /\ SeenInv(p)' /\ CopyInv(p)'
    BY <1>1, <1>3 DEF FreshFetch, SeenInv, CopyInv
  <1>5. MoveInv(p)'
    <2>1. ~moved[p] => listed[p] = upstream
      BY DEF Inv, ProcInv, MoveInv
    <2> QED BY <1>1, <1>2, <1>3, <2>1 DEF MoveInv, FreshFetch
  <1>6. SkipInv(p)'
    BY <1>1, <1>2, <1>3, KnownGrows DEF SkipInv
  <1> QED BY <1>4, <1>5, <1>6 DEF ProcInv

(* A ref that is skipped is known.                                          *)
LEMMA FetchSkippedStep ==
  ASSUME Inv, NEW p \in Procs, FetchSkipped(p), Clone(p)
  PROVE  ProcInv(p)'
  <1>1. /\ pc[p] = "fetch" /\ pc'[p] = "reset" /\ CacheKey(p) \in fetchedRefs[p]
        /\ UNCHANGED <<cache, ref, copied, err, brokers, history>>
    BY DEF FetchSkipped, Goto, Inv, TypeInv, TypeOK
  <1>2. Known(CacheKey(p))
    BY <1>1 DEF Inv, ProcInv, SkipInv
  <1>3. Known(ResolveRef(p))'
    BY <1>1, <1>2 DEF CacheKey, ResolveRef, Resolved, Known, cache, brokers
  <1> QED BY <1>1, <1>3, FetchedStep DEF brokers, history

(* The fetch of one ref gets it, as ls-remote saw it, or fails.             *)
LEMMA FetchOneStep ==
  ASSUME Inv, NEW p \in Procs, FetchOne(p), Clone(p)
  PROVE  ProcInv(p)'
  <1> DEFINE got == IF ref[p] \in Names THEN TagFirst(ref[p], upstream) ELSE ref[p]
  <1>0. /\ pc[p] = "fetch" /\ UNCHANGED <<ref, copied, local, history, remote>>
        /\ Resolved(p) \/ ref[p] \in Commits
    BY DEF FetchOne
  <1>1. CASE Fail(p, "fetch")
    BY <1>0, <1>1, FailStep DEF history, remote
  <1>2. CASE /\ got \in published /\ objects' = objects \cup {got}
             /\ fetchedRefs' = [fetchedRefs EXCEPT ![p] = @ \cup {CacheKey(p)}]
             /\ Goto(p, "reset") /\ UNCHANGED <<err, broker, listed>>
    <2>1. /\ pc'[p] = "reset" /\ fetchedRefs'[p] = fetchedRefs[p] \cup {ResolveRef(p)}
      BY <1>2 DEF Goto, CacheKey, Inv, TypeInv, TypeOK
    <2>2. ASSUME ~moved[p], ~Namesakes(ref[p], upstream)
          PROVE  got = ResolveRef(p)
      <3>1. listed[p] = upstream
        BY <1>0, <2>2 DEF Inv, ProcInv, MoveInv
      <3> QED BY <1>0, <2>2, <3>1, Unambiguous, RefAssumption DEF ResolveRef, Resolved
    <2>3. got \in Commits /\ got # None
      BY <1>2, RefAssumption, ZenonT(30) DEF Inv, TypeInv, TypeOK, Refs
    <2>4. RevParse(got, objects', local') = got
      BY <1>2, <2>3, RefAssumption DEF RevParse
    <2>5. ~moved[p] => Known(ResolveRef(p))' \/ Namesakes(ref[p], upstream)
      BY <1>0, <1>2, <2>2, <2>3, <2>4 DEF Known, ResolveRef, Resolved
    <2> QED BY <1>0, <1>2, <2>1, <2>5, FetchedStep DEF history
  <1> QED BY <1>1, <1>2 DEF FetchOne

(* git show has found the ref after a full fetch.                           *)
LEMMA FetchAllStep ==
  ASSUME Inv, NEW p \in Procs, FetchAll(p), Clone(p)
  PROVE  ProcInv(p)'
  <1>0. /\ pc[p] = "fetch" /\ UNCHANGED <<ref, copied, history, remote>> /\ ~Resolved(p)
    BY DEF FetchAll
  <1>1. CASE Fail(p, "show")
    BY <1>0, <1>1, FailStep DEF history, remote
  <1>2. CASE /\ RevParse(ref[p], objects', local') # None
             /\ fetchedRefs' = [fetchedRefs EXCEPT ![p] = @ \cup {CacheKey(p)}]
             /\ Goto(p, "reset") /\ UNCHANGED <<err, broker, listed>>
    <2>1. /\ pc'[p] = "reset" /\ fetchedRefs'[p] = fetchedRefs[p] \cup {ResolveRef(p)}
      BY <1>2 DEF Goto, CacheKey, Inv, TypeInv, TypeOK
    <2>2. Known(ResolveRef(p))'
      BY <1>0, <1>2 DEF Known, ResolveRef, Resolved
    <2> QED BY <1>0, <1>2, <2>1, <2>2, FetchedStep DEF history
  <1> QED BY <1>1, <1>2 DEF FetchAll

(* The reset checks the commit out that is recorded.                        *)
LEMMA ResetStep ==
  ASSUME Inv, NEW p \in Procs, Reset(p), Clone(p)
  PROVE  ProcInv(p)'
  <1> DEFINE to == RevParse(ResolveRef(p), objects, local)
  <1>0. /\ pc[p] = "reset" /\ commit'[p] = ResolveRef(p)
        /\ UNCHANGED <<remote, objects, ref, copied, seen, moved>>
    BY DEF Reset, Inv, TypeInv, TypeOK
  <1>1. CASE to = None
    <2>1. Fail(p, "reset")
      BY <1>1 DEF Reset
    <2>2. moved[p] \/ Namesakes(ref[p], upstream)
      BY <1>0, <1>1 DEF Inv, ProcInv, MoveInv, Known
    <2> QED BY <1>0, <2>1, <2>2, FailStep DEF remote
  <1>2. CASE to # None
    <2>1. /\ worktree' = to /\ local' = [local EXCEPT ![<<"heads", LocalBranch>>] = to]
          /\ pc'[p] = "copy" /\ UNCHANGED <<err, brokers>>
      BY <1>2 DEF Reset, Goto, Inv, TypeInv, TypeOK
    <2>2. FreshFetch(p) /\ SkipInv(p) /\ SeenInv(p)
      BY DEF Inv, ProcInv
    <2>3. CacheGrown /\ upstream' = upstream
      BY Grows DEF Inv
    <2>4. FreshFetch(p)' /\ MoveInv(p)'
      BY <1>0, <2>1, <2>2 DEF FreshFetch, MoveInv
    <2>5. SkipInv(p)'
      <3>1. \A r \in fetchedRefs[p] : Known(r)
        BY <1>2, <2>2 DEF SkipInv, Known
      <3> QED BY <2>1, <2>3, <3>1, KnownGrows DEF SkipInv, brokers
    <2>6. SeenInv(p)'
      <3>1. ASSUME ref[p] \in Names, ResolveRef(p) \in Commits
            PROVE  \E kind \in {"heads", "tags"} : <<<<kind, ref[p]>>, ResolveRef(p)>> \in seen[p]
        <4>1. Resolved(p)
          BY <3>1, RefAssumption DEF ResolveRef
        <4>2. PICK kind \in {"heads", "tags"} :
                <<kind, ref[p]>> \in RefNames /\ ResolveRef(p) = listed[p][<<kind, ref[p]>>]
          BY <4>1, AsType DEF ResolveRef, Resolved, Inv, TypeInv, TypeOK
        <4>3. ResolveRef(p) # None
          BY <4>1 DEF ResolveRef, Resolved
        <4> QED BY <1>0, <2>2, <4>2, <4>3 DEF SeenInv
      <3> QED BY <1>0, <2>1, <2>2, <2>3, <3>1 DEF SeenInv
    <2>7. CopyInv(p)'
      <3>1. to \in Means(ResolveRef(p), objects', local')
        <4>1. CASE ResolveRef(p) \in Names
          <5>1. PICK kind \in {"heads", "tags"} : to = As(kind, ResolveRef(p), local)
            BY <4>1 DEF RevParse, TagFirst
          <5>2. As(kind, ResolveRef(p), local') = to
            BY <1>2, <2>1, <5>1 DEF As, Inv, TypeInv, TypeOK
          <5> QED BY <4>1, <5>1, <5>2, <2>1 DEF Means, ResolveRef, Resolved, brokers
        <4>2. CASE ResolveRef(p) \notin Names
          BY <1>0, <2>1, <4>2 DEF Means, RevParse, ResolveRef, Resolved, brokers
        <4> QED BY <4>1, <4>2
      <3>2. copied'[p] = NothingCopied
        BY <1>0, <2>2 DEF FreshFetch
      <3> QED BY <1>0, <1>2, <2>1, <3>1, <3>2 DEF CopyInv, Means, ResolveRef, Resolved, brokers, NothingCopied
    <2> QED BY <2>4, <2>5, <2>6, <2>7 DEF ProcInv
  <1> QED BY <1>1, <1>2

(* Copying takes files of the commit that is checked out.                   *)
LEMMA CopyStep ==
  ASSUME Inv, NEW p \in Procs,
         \/ \E f \in Files : CopyFile(p, f)
         \/ CopyDone(p)
  PROVE  ProcInv(p)'
  <1>1. /\ pc[p] = "copy" /\ pc'[p] \in {"copy", "done"}
        /\ UNCHANGED <<cache, ref, commit, err, brokers, history, upstream>>
    BY DEF CopyFile, CopyDone, Goto, Inv, TypeInv, TypeOK, remote
  <1>2. \A g \in Files : copied'[p][g] \in {copied[p][g], worktree}
    <2>1. copied \in [Procs -> [Files -> CommitOrNone]]
      BY DEF Inv, TypeInv, TypeOK
    <2>2. ASSUME NEW f \in Files, CopyFile(p, f), NEW g \in Files
          PROVE  copied'[p][g] \in {copied[p][g], worktree}
      BY <2>1, <2>2 DEF CopyFile
    <2>3. CASE CopyDone(p)
      BY <2>3 DEF CopyDone
    <2> QED BY <2>2, <2>3
  <1>3. ProcInv(p)
    BY DEF Inv
  <1>4. FreshFetch(p)' /\ MoveInv(p)' /\ SeenInv(p)'
    BY <1>1, <1>3 DEF ProcInv, FreshFetch, MoveInv, SeenInv, history
  <1>5. SkipInv(p)'
    BY <1>1, <1>3 DEF ProcInv, SkipInv, Known, cache, brokers
  <1>6. CopyInv(p)'
    BY <1>1, <1>2, <1>3 DEF ProcInv, CopyInv, Means, cache, history
  <1> QED BY <1>4, <1>5, <1>6 DEF ProcInv

(* Every step of a process preserves its own invariant.                     *)
LEMMA OwnStep ==
  ASSUME Inv, NEW p \in Procs, Clone(p)
  PROVE  ProcInv(p)'
  <1> USE DEF remote, brokers, history
  <1>1. CASE Stat(p)
    BY <1>1, EarlyStep DEF Stat, Goto, Inv, TypeInv, TypeOK
  <1>2. CASE GitInit(p)
    BY <1>2, EarlyStep DEF GitInit, Goto, Inv, TypeInv, TypeOK
  <1>3. CASE RemoteAdd(p)
    <2>1. CASE Fail(p, "origin exists")
      BY <1>3, <2>1, FailStep DEF RemoteAdd
    <2>2. CASE Goto(p, "list") /\ UNCHANGED <<err, brokers>>
      BY <1>3, <2>2, EarlyStep DEF RemoteAdd, Goto, Inv, TypeInv, TypeOK
    <2> QED BY <1>3, <2>1, <2>2 DEF RemoteAdd
  <1>4. CASE PackageRef(p)
    BY <1>4, EarlyStep DEF PackageRef, Goto, Inv, TypeInv, TypeOK
  <1>5. CASE ListRefsFails(p)
    BY <1>5, FailStep DEF ListRefsFails
  <1>6. CASE CopyFails(p)
    BY <1>6, FailStep DEF CopyFails
  <1>7. CASE Crash(p)
    BY <1>7, FailStep DEF Crash
  <1> QED BY <1>1, <1>2, <1>3, <1>4, <1>5, <1>6, <1>7, BeginStep, ListRefsStep,
             FetchSkippedStep, FetchOneStep, FetchAllStep, ResetStep, CopyStep DEF Clone

(* The invariant holds initially.                                           *)
LEMMA InitInv == Init => Inv
  BY InitType DEF Init, Inv, ProcInv, FreshFetch, SkipInv, MoveInv, SeenInv, CopyInv

(* Every step preserves the invariant.                                      *)
LEMMA NextInv == Inv /\ [Next]_vars => Inv'
  <1> SUFFICES ASSUME Inv, [Next]_vars PROVE Inv'
    OBVIOUS
  <1>1. TypeInv'
    BY NextType DEF Inv
  <1>2. ASSUME NEW q \in Procs
        PROVE  ProcInv(q)'
    <2>1. CASE UNCHANGED vars
      BY <2>1 DEF vars, remote, cache, fetch, brokers, history, Inv, ProcInv, FreshFetch,
         SkipInv, MoveInv, SeenInv, CopyInv, Known, Means, RevParse, ResolveRef, Resolved
    <2> QED BY <2>1, UpstreamStep, OwnStep, OtherStep DEF Next
  <1> QED BY <1>1, <1>2 DEF Inv

(* So it always holds.                                                      *)
LEMMA InvHolds == Spec => []Inv
  BY InitInv, NextInv, PTL DEF Spec

-----------------------------------------------------------------------------
(* The commit a branch or tag is fetched at is one it had upstream during   *)
(* the fetch, however many processes and fetches there are and however      *)
(* often upstream moves.                                                    *)
THEOREM FreshCommitHolds == Spec => []FreshCommit
  <1>1. Inv => FreshCommit
    BY DEF Inv, ProcInv, SeenInv, FreshCommit
  <1> QED BY <1>1, InvHolds, PTL

(* git reset --hard fails only if upstream changed after ls-remote, or the  *)
(* ref is the name of a branch and of a tag that are different commits      *)
(* (ResolveRef takes the branch, git fetch the tag).                        *)
THEOREM ResetFailsOnlyOnMoveHolds == Spec => []ResetFailsOnlyOnMove
  <1>1. Inv => ResetFailsOnlyOnMove
    BY DEF Inv, ProcInv, MoveInv, ResetFailsOnlyOnMove
  <1> QED BY <1>1, InvHolds, PTL

(* What a broker has marked as fetched is in the cache when it is used      *)
(* again.                                                                   *)
THEOREM SkipIsSoundHolds == Spec => []SkipIsSound
  <1>1. ASSUME NEW r \in Commits, Known(r)
        PROVE  r \in objects
    BY <1>1, RefAssumption DEF Known, RevParse
  <1>2. Inv => SkipIsSound
    BY <1>1 DEF Inv, ProcInv, SkipInv, SkipIsSound
  <1> QED BY <1>2, InvHolds, PTL

(* A copy during which no other process reset the cache consists of files   *)
(* of the recorded commit.                                                  *)
THEOREM CopyIsCommitHolds == Spec => []CopyIsCommit
  <1>1. Inv => CopyIsCommit
    BY DEF Inv, ProcInv, CopyInv, CopyIsCommit, FromCommit
  <1> QED BY <1>1, InvHolds, PTL
=============================================================================
