------------------------------- MODULE Merge3 -------------------------------
(***************************************************************************)
(* Which resource is merged with which, and what comes of it.              *)
(*                                                                         *)
(* A package was fetched; upstream and the local copy then go their own    *)
(* ways: values change, resources are renamed, moved, deleted and added.   *)
(* An update merges the original (what was fetched last), the updated and  *)
(* the local resources in threes.  What belongs together is found by the   *)
(* kpt-merge comment, which keeps the name a resource had upstream.        *)
(*                                                                         *)
(* PkgUpdate has the packages, files and Kptfiles around this merge; there *)
(* a resource is known by its file.  Here it is known the way the code     *)
(* knows it, and id, which the code does not have, tells the truth.        *)
(***************************************************************************)
EXTENDS Naturals, FiniteSets

CONSTANTS
  ResourceIds, Names, Files,
  Vals, Keys,     \* the values of a field; the keys of the elements of its list
  Upstreams,      \* the packages that may be fetched
  MaxSteps,       \* bound: edits and updates together, the last one an update
  MaxUpdates,     \* bound: updates
  Missing, Null,  \* no such field; an explicit null
  NoComment, None

Absent(v) == v \in {Missing, Null}
Scalars == Vals \union {Missing, Null}
NoItems == [k \in Keys |-> Missing]

\* A kind that Kubernetes has, a custom kind, and the definition of the custom kind.
Kinds == {"builtin", "cr", "crd"}

Resource ==
  [id      : ResourceIds,
   kind    : Kinds,
   path    : Files,
   name    : Names,
   comment : Names \union {NoComment}, \* the name in # kpt-merge:
   ident   : Names \union {NoComment}, \* the one in the upstream-identifier annotation
   attr    : SUBSET {"pkg", "fn"},     \* the attribution annotation
   val     : Scalars,                  \* a field
   items   : [Keys -> Vals \union {Missing}]]  \* a list; Missing everywhere if it is not there

ASSUME Merge3Assumption ==
  /\ Names # {} /\ Files # {} /\ Vals # {}
  /\ MaxSteps \in Nat /\ MaxUpdates \in Nat
  /\ Missing # Null /\ {Missing, Null} \intersect (Vals \union Names) = {}
  /\ NoComment \notin Names \union {Missing, Null}
  /\ None \notin Resource
  /\ \A pkg \in Upstreams : pkg \subseteq Resource /\ \A r, s \in pkg : r.id = s.id => r = s

VARIABLES
  upstream, original, local,  \* sets of resources
  edits,     \* how many edits
  updates,
  lost,      \* history: the resources whose key or file an edit has changed
  last       \* history: what an update has just merged and what came of it

vars == <<upstream, original, local, edits, updates, lost, last>>

NoMerge == [o |-> {}, u |-> {}, d |-> {}, result |-> {}, noted |-> FALSE]

-----------------------------------------------------------------------------
(* Comments and annotations *)

Key(r) == IF r.comment = NoComment THEN r.name ELSE r.comment

\* The comment is written once; the annotation follows it.
AddMergeComment(r) == [r EXCEPT !.comment = Key(r), !.ident = Key(r)]

Process(pkg) == {AddMergeComment(r) : r \in pkg}

\* Only resources of the Config Connector are attributed.
Attribute(r, group) == IF r.kind = "cr" THEN [r EXCEPT !.attr = @ \union {group}] ELSE r

Attributed(pkg, group) == {Attribute(r, group) : r \in pkg}

-----------------------------------------------------------------------------
(* The visitor *)

IsCleared(left, right) == left # Null /\ right = Null

VisitScalar(o, u, d) ==
  IF IsCleared(o, u) \/ IsCleared(o, d) THEN Missing
  ELSE IF Absent(u) # Absent(o) THEN u
  ELSE IF Absent(u) /\ Absent(o) THEN d
  ELSE IF u # o THEN u
  ELSE d

\* A list whose elements have keys is merged element by element.
VisitAList(o, u, d) ==
  IF u = NoItems /\ o # NoItems THEN NoItems
  ELSE [k \in Keys |-> VisitScalar(o[k], u[k], d[k])]

\* Any other list is a value.
VisitNAList(o, u, d) == IF u # o THEN u ELSE d

Crds(pkg) == {r \in pkg : r.kind = "crd"}

\* The kinds that definitions describe; one without a schema leaves none of them described.
SchemasFromCrds(crds) ==
  IF crds # {} /\ \A r \in crds : ~Absent(r.val) THEN {"cr"} ELSE {}

\* The document has the schemas at its top, and of the CRDs of the local package only: the
\* slice that the updated ones are copied to is empty.
GetCrdSchemas(updated, destination) ==
  [definitions |-> {}, top |-> SchemasFromCrds(Crds(destination))]

\* The kinds whose lists have keys: those openapi knows of itself, and those that a
\* document has under definitions.
AddSchema(document) == {"builtin"} \union document.definitions

VisitList(kind, schemas, o, u, d) ==
  IF kind \in schemas THEN VisitAList(o, u, d) ELSE VisitNAList(o, u, d)

-----------------------------------------------------------------------------
(* Tuples *)

\* A mutant: resources are matched by their names.
IsSameResourceByName(a, b) == a.kind = b.kind /\ a.name = b.name /\ a.path = b.path

IsSameResource(a, b) == a.kind = b.kind /\ Key(a) = Key(b) /\ a.path = b.path

\* Two resources of one package that cannot be told apart stop the update.
Duplicate(pkg) == \E a, b \in pkg : a # b /\ IsSameResource(a, b)

\* The node of the package that is the same resource as x.
Match(x, pkg) ==
  IF \E r \in pkg : IsSameResource(r, x) THEN CHOOSE r \in pkg : IsSameResource(r, x) ELSE None

\* No package has duplicates: the tuple a node is added to has the nodes that are the same
\* resource, at most one of each package.
Tuples(o, u, d) ==
  {[original |-> Match(x, o), updated |-> Match(x, u), dest |-> Match(x, d)] : x \in o \union u \union d}

-----------------------------------------------------------------------------
(* Strategy *)

\* What the comparison looks at: not what kpt itself writes while it merges or attributes.
StripKyamlAnnos(r) == [kind |-> r.kind, name |-> r.name, comment |-> r.comment, ident |-> r.ident,
                       val |-> r.val, items |-> r.items]

\* A mutant: the attribution counts as a change.
EqualsAttributed(a, b) == StripKyamlAnnos(a) = StripKyamlAnnos(b) /\ a.attr = b.attr

Equals(a, b) == StripKyamlAnnos(a) = StripKyamlAnnos(b)

\* A mutant: what upstream deleted goes, changed or not.
GetHandlingStrategyForced(t) ==
  IF t.original = None /\ t.updated = None THEN "KeepDest"
  ELSE IF t.original = None /\ t.dest = None THEN "KeepUpdated"
  ELSE IF t.updated = None \/ t.dest = None THEN "Skip"
  ELSE "Merge"

GetHandlingStrategy(t) ==
  IF t.original = None /\ t.updated = None THEN "KeepDest"
  ELSE IF t.original = None /\ t.dest = None THEN "KeepUpdated"
  ELSE IF t.updated = None /\ t.dest = None THEN "Skip"
  ELSE IF t.updated = None THEN IF Equals(t.original, t.dest) THEN "Skip" ELSE "KeepDest"
  ELSE IF t.dest = None THEN "Skip"
  ELSE "Merge"

\* Fields that upstream never had are missing there; the result is the local resource,
\* with its place, comment (of a key that upstream has, too) and attribution.
NoOriginal == [name |-> Missing, ident |-> NoComment, val |-> Missing, items |-> NoItems]

MergeTuple(t, schemas) ==
  LET o == IF t.original = None THEN NoOriginal ELSE t.original IN
  [t.dest EXCEPT
     !.comment = IF t.original = None THEN t.updated.comment ELSE @,
     !.name  = VisitScalar(o.name, t.updated.name, @),
     !.ident = VisitScalar(o.ident, t.updated.ident, @),
     !.val   = VisitScalar(o.val, t.updated.val, @),
     !.items = VisitList(t.dest.kind, schemas, o.items, t.updated.items, @)]

MergeTuples(tuples, schemas) ==
  {MergeTuple(t, schemas) : t \in {x \in tuples : GetHandlingStrategy(x) = "Merge"}}
  \union {t.dest : t \in {x \in tuples : GetHandlingStrategy(x) = "KeepDest"}}
  \union {t.updated : t \in {x \in tuples : GetHandlingStrategy(x) = "KeepUpdated"}}

Merge(o, u, d) == MergeTuples(Tuples(o, u, d), AddSchema(GetCrdSchemas(u, d)))

-----------------------------------------------------------------------------
(* The life of a package *)

\* kpt pkg get has fetched the package and written the comments, if it could.
Init ==
  /\ upstream \in Upstreams /\ original = upstream
  /\ local \in {upstream, Attributed(Process(upstream), "pkg")}
  /\ edits = 0 /\ updates = 0 /\ lost = {}
  /\ last = NoMerge

Ids(pkg) == {r.id : r \in pkg}

\* No resource has had the id, or none that is still there.
Unused == ResourceIds \ (Ids(upstream) \union Ids(original) \union Ids(local) \union lost)

New(kind, name) ==
  [id |-> CHOOSE i \in Unused : TRUE, kind |-> kind, path |-> CHOOSE f \in Files : TRUE, name |-> name,
   comment |-> NoComment, ident |-> NoComment, attr |-> {}, val |-> CHOOSE v \in Vals : TRUE,
   items |-> NoItems]

Added == IF Unused = {} THEN {} ELSE UNION {{New(k, n) : n \in Names} : k \in {"builtin", "cr"}}

\* A definition may lose its schema, and is else left alone.
Edited(r) == IF r.kind = "crd" THEN {[r EXCEPT !.val = Missing]} ELSE
  {[r EXCEPT !.val = v] : v \in Scalars}
  \union {[r EXCEPT !.items[k] = v] : k \in Keys, v \in (Vals \union {Missing})}
  \union {[r EXCEPT !.name = n] : n \in Names}
  \union {[r EXCEPT !.path = f] : f \in Files}

\* One edit of a package: a resource is changed, deleted or added.
Edits(pkg) ==
  (UNION {{(pkg \ {r}) \union {e} : e \in Edited(r)} : r \in pkg})
  \union {pkg \ {r} : r \in pkg}
  \union {pkg \union {r} : r \in Added}

Moved(old, new) ==
  {r.id : r \in {r \in old : \E x \in new :
     x.id = r.id /\ <<x.kind, Key(x), x.path>> # <<r.kind, Key(r), r.path>>}}

EditUpstream ==
  /\ edits + updates + 1 < MaxSteps
  /\ upstream' \in Edits(upstream) \ {upstream}
  /\ lost' = lost \union Moved(upstream, upstream')
  /\ edits' = edits + 1
  /\ last' = NoMerge /\ UNCHANGED <<original, local, updates>>

EditLocal ==
  /\ edits + updates + 1 < MaxSteps
  /\ local' \in Edits(local) \ {local}
  /\ lost' = lost \union Moved(local, local')
  /\ edits' = edits + 1
  /\ last' = NoMerge /\ UNCHANGED <<upstream, original, updates>>

\* A render leaves its mark too.
Render ==
  /\ local' = Attributed(local, "fn")
  /\ last' = NoMerge /\ UNCHANGED <<upstream, original, edits, updates, lost>>

\* Comments are written to the first n of the local, updated and original package: the
\* first that cannot be read ends it, without an error.  Then the merge, and the comments
\* of what is new, if they can be written.
Update(n, ok) ==
  LET d == IF n >= 1 THEN Process(local) ELSE local
      u == IF n >= 2 THEN Process(upstream) ELSE upstream
      o == IF n >= 3 THEN Process(original) ELSE original
      result == Merge(o, u, d)
  IN /\ updates < MaxUpdates /\ edits + updates < MaxSteps
     /\ ~Duplicate(o) /\ ~Duplicate(u) /\ ~Duplicate(d)
     /\ local' = IF ok THEN Process(result) ELSE result
     /\ original' = upstream
     /\ updates' = updates + 1
     /\ last' = [o |-> o, u |-> u, d |-> d, result |-> result, noted |-> n = 3]
     /\ UNCHANGED <<upstream, edits, lost>>

\* The update ends with an error; the local comments are written already.
UpdateFails(n) ==
  LET d == IF n >= 1 THEN Process(local) ELSE local IN
  /\ updates < MaxUpdates /\ edits + updates < MaxSteps
  /\ Duplicate(original) \/ Duplicate(upstream) \/ Duplicate(d)
  /\ local' = d
  /\ updates' = updates + 1
  /\ last' = NoMerge
  /\ UNCHANGED <<upstream, original, edits, lost>>

Next ==
  \/ EditUpstream \/ EditLocal \/ Render
  \/ \E n \in 0..3, ok \in BOOLEAN : Update(n, ok)
  \/ \E n \in {0, 1} : UpdateFails(n)

Spec == Init /\ [][Next]_vars

-----------------------------------------------------------------------------
(* Properties *)

Norm(v) == IF v = Null THEN Missing ELSE v

\* An explicit null clears the value, from either side; else upstream's change wins over
\* the local one.
Expected(o, u, d) ==
  IF o # Null /\ Null \in {u, d} THEN Missing
  ELSE IF Norm(u) # Norm(o) THEN Norm(u) ELSE Norm(d)

\* A list whose elements have keys is merged like fields, unless upstream removed it; any
\* other list is one value.
ExpectedItems(o, u, d, byKey) ==
  IF byKey /\ (u = NoItems => o = NoItems) THEN [k \in Keys |-> Expected(o[k], u[k], d[k])]
  ELSE IF u # o THEN u ELSE d

\* The three versions of a resource, whatever its names, as long as nobody moved it to
\* another file or renamed it where its comment was not written yet.
Threes ==
  {t \in last.o \X last.u \X last.d :
     t[1].id = t[2].id /\ t[2].id = t[3].id /\ t[1].id \notin lost}

\* An update merges every resource with its own upstream versions, although it was renamed
\* locally and whether or not the comments could be written this time: it is there once,
\* and every field has upstream's value where upstream changed it and else the local one.
\* So has every element of a list, but of the built-in kinds only: a list of a custom
\* resource is upstream's as a whole where upstream changed any of it, although the package
\* has the definition of the kind.
ThreeWay ==
  \A t \in Threes :
    LET o == t[1]  u == t[2]  d == t[3]
        own == {r \in last.result : r.id = o.id}
    IN /\ Cardinality(own) = 1
       /\ \A r \in own :
            /\ r.name = Expected(o.name, u.name, d.name)
            /\ Norm(r.val) = Expected(o.val, u.val, d.val)
            /\ r.items = ExpectedItems(o.items, u.items, d.items, o.kind = "builtin")

Content(r) == [kind |-> r.kind, path |-> r.path, name |-> r.name, val |-> r.val, items |-> r.items]

\* An update never removes a resource that was added or changed locally.
LocalWorkKept ==
  \A d \in last.d :
    (\A o \in last.o : Content(o) # Content(d)) => d.id \in Ids(last.result)

\* A resource that upstream deleted and nobody changed locally is deleted, although get
\* and render have left their marks on it.
UnmodifiedFollows ==
  last.noted =>
    \A o \in last.o, d \in last.d :
      /\ o.id = d.id /\ o.id \notin lost /\ Content(o) = Content(d)
      /\ \A u \in last.u : ~IsSameResource(o, u)
      => o.id \notin Ids(last.result)
=============================================================================
