---------------------------- MODULE Merge3Proofs ----------------------------
(***************************************************************************)
(* Proofs about Merge3.  What kpt calls the same resource (IsSameResource) *)
(* and what is the same resource (id) agree for all that nobody has moved: *)
(* that is invariant through edits, updates and updates that fail, and     *)
(* what a merge promises follows.                                          *)
(***************************************************************************)
EXTENDS Merge3, FiniteSetTheorems, TLAPS

(* Resources outside L have one place in A, and the same in A and B.        *)
Unique(A, L) == \A r, s \in A : r.id = s.id /\ r.id \notin L => r = s
Together(A, B, L) == \A r \in A, s \in B : r.id = s.id /\ r.id \notin L => IsSameResource(r, s)

-----------------------------------------------------------------------------
(* Keys and comments.                                                       *)

LEMMA KeyType ==
  ASSUME NEW r \in Resource
  PROVE  Key(r) \in Names
  BY DEF Key, Resource

(* A comment changes neither the resource nor its place.                    *)
LEMMA CommentKeepsPlace ==
  ASSUME NEW r \in Resource
  PROVE  /\ AddMergeComment(r) \in Resource
         /\ AddMergeComment(r).id = r.id
         /\ IsSameResource(AddMergeComment(r), r)
         /\ Key(AddMergeComment(r)) = Key(r)
         /\ AddMergeComment(r).comment = Key(r)
         /\ AddMergeComment(r).ident = Key(r)
  <1> DEFINE a == AddMergeComment(r)
  <1>1. Key(r) \in Names /\ Key(r) # NoComment
    BY KeyType, Merge3Assumption
  <1>2. a = [r EXCEPT !.comment = Key(r), !.ident = Key(r)]
    BY DEF AddMergeComment
  <1>3. a \in Resource
    <2> HIDE DEF a
    <2> QED BY <1>1, <1>2 DEF Resource
  <1>4. a.comment = Key(r) /\ a.ident = Key(r) /\ a.id = r.id /\ a.kind = r.kind /\ a.path = r.path
    <2> HIDE DEF a
    <2> QED BY <1>2 DEF Resource
  <1>5. Key(a) = Key(r)
    BY <1>1, <1>4 DEF Key
  <1> QED BY <1>3, <1>4, <1>5 DEF IsSameResource

LEMMA ProcessType ==
  ASSUME NEW A \in SUBSET Resource
  PROVE  /\ Process(A) \in SUBSET Resource
         /\ \A s \in Process(A) : \E r \in A : s = AddMergeComment(r)
         /\ \A s \in Process(A) : s.comment = Key(s) /\ s.ident = Key(s)
  BY CommentKeepsPlace DEF Process

(* Packages with or without comments.                                       *)
Noting(A) == {A, Process(A)}

LEMMA NotingKeeps ==
  ASSUME NEW A \in SUBSET Resource, NEW C \in Noting(A)
  PROVE  /\ C \in SUBSET Resource
         /\ \A s \in C : \E r \in A : s.id = r.id /\ IsSameResource(s, r) /\ s \in {r, AddMergeComment(r)}
         /\ \A r \in A : \E s \in C : s.id = r.id /\ IsSameResource(s, r) /\ s \in {r, AddMergeComment(r)}
  <1>1. CASE C = A
    BY <1>1 DEF IsSameResource
  <1>2. CASE C = Process(A)
    BY <1>2, CommentKeepsPlace, ProcessType DEF Process
  <1> QED BY <1>1, <1>2 DEF Noting

LEMMA NotingTogether ==
  ASSUME NEW A \in SUBSET Resource, NEW B \in SUBSET Resource,
         NEW C \in Noting(A), NEW D \in Noting(B), NEW L, Together(A, B, L)
  PROVE  Together(C, D, L)
  <1> SUFFICES ASSUME NEW r \in C, NEW s \in D, r.id = s.id, r.id \notin L
               PROVE  IsSameResource(r, s)
    BY DEF Together
  <1>1. PICK a \in A : r.id = a.id /\ IsSameResource(r, a)
    BY NotingKeeps
  <1>2. PICK b \in B : s.id = b.id /\ IsSameResource(s, b)
    BY NotingKeeps
  <1>3. IsSameResource(a, b)
    BY <1>1, <1>2 DEF Together
  <1> QED BY <1>1, <1>2, <1>3 DEF IsSameResource

LEMMA NotingUnique ==
  ASSUME NEW A \in SUBSET Resource, NEW C \in Noting(A), NEW L, Unique(A, L)
  PROVE  Unique(C, L)
  <1>1. CASE C = A
    BY <1>1
  <1>2. CASE C = Process(A)
    <2> SUFFICES ASSUME NEW r \in C, NEW s \in C, r.id = s.id, r.id \notin L
                 PROVE  r = s
      BY DEF Unique
    <2>1. PICK a \in A : r = AddMergeComment(a)
      BY <1>2, ProcessType
    <2>2. PICK b \in A : s = AddMergeComment(b)
      BY <1>2, ProcessType
    <2>3. a = b
      BY <2>1, <2>2, CommentKeepsPlace DEF Unique
    <2> QED BY <2>1, <2>2, <2>3
  <1> QED BY <1>1, <1>2 DEF Noting

-----------------------------------------------------------------------------
(* Tuples.                                                                  *)

LEMMA MatchFound ==
  ASSUME NEW x \in Resource, NEW A \in SUBSET Resource
  PROVE  \/ Match(x, A) = None /\ \A r \in A : ~IsSameResource(r, x)
         \/ Match(x, A) \in A /\ Match(x, A) \in Resource /\ Match(x, A) # None
            /\ IsSameResource(Match(x, A), x)
  BY Merge3Assumption DEF Match

LEMMA MatchIs ==
  ASSUME NEW x \in Resource, NEW A \in SUBSET Resource, ~Duplicate(A),
         NEW r \in A, IsSameResource(r, x)
  PROVE  Match(x, A) = r
  <1>1. Match(x, A) \in A /\ IsSameResource(Match(x, A), x)
    BY MatchFound
  <1>2. IsSameResource(Match(x, A), r)
    BY <1>1 DEF IsSameResource
  <1> QED BY <1>1, <1>2 DEF Duplicate

TupleOf(x, o, u, d) == [original |-> Match(x, o), updated |-> Match(x, u), dest |-> Match(x, d)]

(* The same resource has the same tuple.                                    *)
LEMMA TupleOfSame ==
  ASSUME NEW x \in Resource, NEW y \in Resource, IsSameResource(x, y),
         NEW o \in SUBSET Resource, NEW u \in SUBSET Resource, NEW d \in SUBSET Resource,
         ~Duplicate(o), ~Duplicate(u), ~Duplicate(d)
  PROVE  TupleOf(x, o, u, d) = TupleOf(y, o, u, d)
  <1>1. ASSUME NEW A \in SUBSET Resource, ~Duplicate(A) PROVE Match(x, A) = Match(y, A)
    <2>1. CASE Match(x, A) = None
      <3>1. \A r \in A : ~IsSameResource(r, y)
        BY <2>1, MatchFound, Merge3Assumption DEF IsSameResource
      <3> QED BY <2>1, <3>1 DEF Match
    <2>2. CASE Match(x, A) # None
      <3>1. Match(x, A) \in A /\ IsSameResource(Match(x, A), y)
        BY <2>2, MatchFound DEF IsSameResource
      <3> QED BY <1>1, <3>1, MatchIs
    <2> QED BY <2>1, <2>2
  <1> QED BY <1>1 DEF TupleOf

(* A tuple of three packages.                                               *)
Tuple(t) ==
  /\ t = [original |-> t.original, updated |-> t.updated, dest |-> t.dest]
  /\ {t.original, t.updated, t.dest} \subseteq Resource \union {None}

-----------------------------------------------------------------------------
(* What becomes of a tuple.                                                 *)

LEMMA ScalarChosen ==
  ASSUME NEW o, NEW u, NEW d
  PROVE  VisitScalar(o, u, d) \in {Missing, u, d}
  BY DEF VisitScalar

LEMMA NameMerged ==
  ASSUME NEW o \in Names \union {Missing}, NEW u \in Names, NEW d \in Names
  PROVE  VisitScalar(o, u, d) = IF u # o THEN u ELSE d
  BY Merge3Assumption DEF VisitScalar, IsCleared, Absent

LEMMA IdentMerged ==
  ASSUME NEW o \in Names \union {NoComment}, NEW u \in Names \union {NoComment},
         NEW d \in Names \union {NoComment}
  PROVE  VisitScalar(o, u, d) = IF u # o THEN u ELSE d
  BY Merge3Assumption DEF VisitScalar, IsCleared, Absent

LEMMA ListMerged ==
  ASSUME NEW o \in [Keys -> Vals \union {Missing}], NEW u \in [Keys -> Vals \union {Missing}],
         NEW d \in [Keys -> Vals \union {Missing}], NEW kind, NEW schemas
  PROVE  VisitList(kind, schemas, o, u, d) \in [Keys -> Vals \union {Missing}]
  <1>1. VisitAList(o, u, d) \in [Keys -> Vals \union {Missing}]
    BY ScalarChosen DEF VisitAList, NoItems
  <1>2. VisitNAList(o, u, d) \in [Keys -> Vals \union {Missing}]
    BY DEF VisitNAList
  <1> QED BY <1>1, <1>2 DEF VisitList

OriginalOf(t) == IF t.original = None THEN NoOriginal ELSE t.original

(* The merge of a tuple: the local resource with merged fields.             *)
LEMMA TupleMerged ==
  ASSUME NEW t, Tuple(t), t.updated # None, t.dest # None, NEW schemas
  PROVE  LET r == MergeTuple(t, schemas)
             o == OriginalOf(t)
         IN /\ r \in Resource
            /\ r.id = t.dest.id /\ r.kind = t.dest.kind /\ r.path = t.dest.path /\ r.attr = t.dest.attr
            /\ r.comment = IF t.original = None THEN t.updated.comment ELSE t.dest.comment
            /\ r.name = IF t.updated.name # o.name THEN t.updated.name ELSE t.dest.name
            /\ r.val = VisitScalar(o.val, t.updated.val, t.dest.val)
            /\ r.items = VisitList(t.dest.kind, schemas, o.items, t.updated.items, t.dest.items)
  <1> DEFINE o == OriginalOf(t)
             d == t.dest
             u == t.updated
             comment == IF t.original = None THEN u.comment ELSE d.comment
             name == VisitScalar(o.name, u.name, d.name)
             ident == VisitScalar(o.ident, u.ident, d.ident)
             val == VisitScalar(o.val, u.val, d.val)
             items == VisitList(d.kind, schemas, o.items, u.items, d.items)
             r == MergeTuple(t, schemas)
  <1>1. u \in Resource /\ d \in Resource
    BY DEF Tuple
  <1>2. /\ o.name \in Names \union {Missing} /\ o.ident \in Names \union {NoComment}
        /\ o.val \in Scalars /\ o.items \in [Keys -> Vals \union {Missing}]
    <2>1. CASE t.original = None
      BY <2>1 DEF OriginalOf, NoOriginal, NoItems, Scalars
    <2>2. CASE t.original # None
      BY <2>2 DEF OriginalOf, Tuple, Resource
    <2> QED BY <2>1, <2>2
  <1>3. name = (IF u.name # o.name THEN u.name ELSE d.name) /\ name \in Names
    BY <1>1, <1>2, NameMerged DEF Resource
  <1>4. ident \in Names \union {NoComment}
    BY <1>1, <1>2, IdentMerged, SMTT(30) DEF Resource
  <1>5. val \in Scalars
    BY <1>1, ScalarChosen DEF Resource, Scalars
  <1>6. items \in [Keys -> Vals \union {Missing}]
    BY <1>1, <1>2, ListMerged DEF Resource
  <1>7. comment \in Names \union {NoComment}
    BY <1>1 DEF Resource
  <1>8. r = [d EXCEPT !.comment = comment, !.name = name, !.ident = ident, !.val = val, !.items = items]
    BY DEF MergeTuple, OriginalOf
  <1>9. /\ r \in Resource
        /\ r.id = d.id /\ r.kind = d.kind /\ r.path = d.path /\ r.attr = d.attr
        /\ r.comment = comment /\ r.name = name /\ r.val = val /\ r.items = items
    <2> HIDE DEF r, comment, name, ident, val, items, d
    <2> QED BY <1>1, <1>3, <1>4, <1>5, <1>6, <1>7, <1>8 DEF Resource
  <1> QED BY <1>3, <1>9

(* The three ways in which something comes of a tuple.                      *)
Merges(t) == t.updated # None /\ t.dest # None
KeepsDest(t) ==
  /\ t.updated = None /\ t.dest # None
  /\ t.original # None => ~Equals(t.original, t.dest)
KeepsUpdated(t) == t.original = None /\ t.updated # None /\ t.dest = None

LEMMA Strategy ==
  ASSUME NEW t, {t.original, t.updated, t.dest} # {None}
  PROVE  /\ GetHandlingStrategy(t) = "Merge" <=> Merges(t)
         /\ GetHandlingStrategy(t) = "KeepDest" <=> KeepsDest(t)
         /\ GetHandlingStrategy(t) = "KeepUpdated" <=> KeepsUpdated(t)
  BY DEF GetHandlingStrategy, Merges, KeepsDest, KeepsUpdated

(* A result comes from one node's tuple.                                    *)
Comes(r, t, schemas) ==
  \/ Merges(t) /\ r = MergeTuple(t, schemas)
  \/ KeepsDest(t) /\ r = t.dest
  \/ KeepsUpdated(t) /\ r = t.updated

LEMMA TupleOfType ==
  ASSUME NEW o \in SUBSET Resource, NEW u \in SUBSET Resource, NEW d \in SUBSET Resource,
         NEW x \in o \union u \union d
  PROVE  LET t == TupleOf(x, o, u, d)
         IN /\ Tuple(t) /\ {t.original, t.updated, t.dest} # {None}
            /\ t.original # None => t.original \in o /\ IsSameResource(t.original, x)
            /\ t.updated # None => t.updated \in u /\ IsSameResource(t.updated, x)
            /\ t.dest # None => t.dest \in d /\ IsSameResource(t.dest, x)
  <1>1. x \in Resource /\ IsSameResource(x, x)
    BY DEF IsSameResource
  <1>2. \A A \in {o, u, d} :
           \/ Match(x, A) = None /\ \A r \in A : ~IsSameResource(r, x)
           \/ Match(x, A) \in A /\ Match(x, A) \in Resource /\ IsSameResource(Match(x, A), x)
    BY <1>1, MatchFound
  <1>3. Match(x, o) # None \/ Match(x, u) # None \/ Match(x, d) # None
    BY <1>1, <1>2, Merge3Assumption
  <1> QED BY <1>2, <1>3 DEF TupleOf, Tuple

(* The kinds whose lists a merge of u and d merges by element.              *)
SchemasOf(u, d) == AddSchema(GetCrdSchemas(u, d))

LEMMA ResultComes ==
  ASSUME NEW o \in SUBSET Resource, NEW u \in SUBSET Resource, NEW d \in SUBSET Resource, NEW r
  PROVE  r \in Merge(o, u, d) <=>
           \E x \in o \union u \union d : Comes(r, TupleOf(x, o, u, d), SchemasOf(u, d))
  <1> DEFINE T == Tuples(o, u, d)
             C == SchemasOf(u, d)
  <1>1. T = {TupleOf(x, o, u, d) : x \in o \union u \union d}
    BY DEF Tuples, TupleOf
  <1>2. ASSUME NEW t \in T PROVE {t.original, t.updated, t.dest} # {None}
    <2>1. PICK x \in o \union u \union d : t = TupleOf(x, o, u, d)
      BY <1>1
    <2> QED BY <2>1, TupleOfType
  <1>3. r \in MergeTuples(T, C) <=> \E t \in T : Comes(r, t, C)
    <2> HIDE DEF T, C
    <2>1. r \in MergeTuples(T, C) <=>
            \/ \E t \in T : GetHandlingStrategy(t) = "Merge" /\ r = MergeTuple(t, C)
            \/ \E t \in T : GetHandlingStrategy(t) = "KeepDest" /\ r = t.dest
            \/ \E t \in T : GetHandlingStrategy(t) = "KeepUpdated" /\ r = t.updated
      BY DEF MergeTuples
    <2> QED BY <1>2, <2>1, Strategy DEF Comes
  <1> QED BY <1>1, <1>3 DEF Merge, SchemasOf

-----------------------------------------------------------------------------
(* Three packages as a merge finds them, if ids tell the truth.             *)

Told(o, u, d, L) ==
  /\ ~Duplicate(o) /\ ~Duplicate(u) /\ ~Duplicate(d)
  /\ Unique(o, L) /\ Unique(u, L) /\ Unique(d, L)
  /\ Together(o, u, L) /\ Together(o, d, L) /\ Together(u, d, L)

LEMMA SamePlace ==
  ASSUME NEW o \in SUBSET Resource, NEW u \in SUBSET Resource, NEW d \in SUBSET Resource, NEW L,
         Told(o, u, d, L),
         NEW x \in o \union u \union d, NEW z \in o \union u \union d, x.id = z.id, x.id \notin L
  PROVE  IsSameResource(x, z)
  <1>1. CASE x \in o
    BY <1>1 DEF Told, Unique, Together, IsSameResource
  <1>2. CASE x \in u
    BY <1>2 DEF Told, Unique, Together, IsSameResource
  <1>3. CASE x \in d
    BY <1>3 DEF Told, Unique, Together, IsSameResource
  <1> QED BY <1>1, <1>2, <1>3

(* A result keeps the id of a local or updated node of its tuple.           *)
LEMMA ResultNode ==
  ASSUME NEW o \in SUBSET Resource, NEW u \in SUBSET Resource, NEW d \in SUBSET Resource, NEW L,
         Told(o, u, d, L), NEW r \in Merge(o, u, d)
  PROVE  /\ r \in Resource
         /\ \E z \in u \union d : r.id = z.id /\ Comes(r, TupleOf(z, o, u, d), SchemasOf(u, d))
  <1> DEFINE C == SchemasOf(u, d)
  <1>1. PICK x \in o \union u \union d : Comes(r, TupleOf(x, o, u, d), C)
    BY ResultComes
  <1> DEFINE t == TupleOf(x, o, u, d)
  <1>2. /\ Tuple(t)
        /\ t.updated # None => t.updated \in u /\ IsSameResource(t.updated, x)
        /\ t.dest # None => t.dest \in d /\ IsSameResource(t.dest, x)
    BY TupleOfType
  <1>3. r \in Resource /\ \E z \in u \union d : r.id = z.id /\ IsSameResource(z, x)
    <2> HIDE DEF t, C
    <2>1. CASE Merges(t) /\ r = MergeTuple(t, C)
      <3>1. t.updated # None /\ t.dest # None
        BY <2>1 DEF Merges
      <3>2. MergeTuple(t, C) \in Resource /\ MergeTuple(t, C).id = t.dest.id
        BY <1>2, <3>1, TupleMerged
      <3> QED BY <1>2, <2>1, <3>1, <3>2
    <2>2. CASE KeepsDest(t) /\ r = t.dest
      BY <1>2, <2>2 DEF KeepsDest
    <2>3. CASE KeepsUpdated(t) /\ r = t.updated
      BY <1>2, <2>3 DEF KeepsUpdated
    <2> QED BY <1>1, <2>1, <2>2, <2>3 DEF Comes, t
  <1>4. PICK z \in u \union d : r.id = z.id /\ IsSameResource(z, x)
    BY <1>3
  <1>5. TupleOf(z, o, u, d) = t
    BY <1>4, TupleOfSame DEF Told
  <1> QED BY <1>1, <1>3, <1>4, <1>5

(* What comes of a resource that nobody moved comes of its tuple.           *)
LEMMA ResultOf ==
  ASSUME NEW o \in SUBSET Resource, NEW u \in SUBSET Resource, NEW d \in SUBSET Resource, NEW L,
         Told(o, u, d, L),
         NEW x \in o \union u \union d, x.id \notin L, NEW r \in Merge(o, u, d), r.id = x.id
  PROVE  Comes(r, TupleOf(x, o, u, d), SchemasOf(u, d))
  <1>1. PICK z \in u \union d : r.id = z.id /\ Comes(r, TupleOf(z, o, u, d), SchemasOf(u, d))
    BY ResultNode
  <1>2. z \in o \union u \union d /\ z.id = x.id /\ z.id \notin L
    BY <1>1
  <1>3. IsSameResource(z, x)
    BY <1>2, SamePlace
  <1>4. TupleOf(z, o, u, d) = TupleOf(x, o, u, d)
    BY <1>3, TupleOfSame DEF Told
  <1> QED BY <1>1, <1>4

LEMMA ResultUnique ==
  ASSUME NEW o \in SUBSET Resource, NEW u \in SUBSET Resource, NEW d \in SUBSET Resource, NEW L,
         Told(o, u, d, L)
  PROVE  Unique(Merge(o, u, d), L)
  <1> SUFFICES ASSUME NEW r \in Merge(o, u, d), NEW s \in Merge(o, u, d), r.id = s.id, r.id \notin L
               PROVE  r = s
    BY DEF Unique
  <1>1. PICK z \in u \union d : r.id = z.id /\ Comes(r, TupleOf(z, o, u, d), SchemasOf(u, d))
    BY ResultNode
  <1>2. Comes(s, TupleOf(z, o, u, d), SchemasOf(u, d))
    BY <1>1, ResultOf
  <1> QED BY <1>1, <1>2 DEF Comes, Merges, KeepsDest, KeepsUpdated

(* A comment that upstream has, the local copy has.                         *)
Commented(u, d, L) ==
  \A x \in u, y \in d : x.id = y.id /\ x.id \notin L /\ x.comment # NoComment => y.comment # NoComment

(* A result is where upstream has the resource, although its name changed.  *)
LEMMA ResultPlace ==
  ASSUME NEW o \in SUBSET Resource, NEW u \in SUBSET Resource, NEW d \in SUBSET Resource, NEW L,
         Told(o, u, d, L), Commented(u, d, L)
  PROVE  Together(Merge(o, u, d), u, L) /\ Commented(u, Merge(o, u, d), L)
  <1> SUFFICES ASSUME NEW r \in Merge(o, u, d), NEW x \in u, r.id = x.id, r.id \notin L
               PROVE  IsSameResource(r, x) /\ (x.comment # NoComment => r.comment # NoComment)
    BY DEF Together, Commented
  <1> DEFINE t == TupleOf(x, o, u, d)
             C == SchemasOf(u, d)
  <1>1. Comes(r, t, C)
    BY ResultOf
  <1>2. x \in Resource /\ IsSameResource(x, x)
    BY DEF IsSameResource
  <1>3. t.updated = x
    BY <1>2, MatchIs DEF TupleOf, Told
  <1>4. /\ Tuple(t)
        /\ t.original # None => t.original \in o /\ IsSameResource(t.original, x)
        /\ t.dest # None => t.dest \in d /\ IsSameResource(t.dest, x)
    BY TupleOfType
  <1>5. x # None
    BY <1>2, Merge3Assumption
  <1> HIDE DEF t, C
  <1>6. CASE KeepsUpdated(t) /\ r = t.updated
    BY <1>2, <1>3, <1>6
  <1>7. CASE KeepsDest(t) /\ r = t.dest
    BY <1>3, <1>5, <1>7 DEF KeepsDest
  <1>8. CASE Merges(t) /\ r = MergeTuple(t, C)
    <2> DEFINE y == t.dest
    <2>1. y \in d /\ IsSameResource(y, x)
      BY <1>4, <1>8 DEF Merges
    <2>2. /\ r.id = y.id /\ r.kind = y.kind /\ r.path = y.path
          /\ r.comment = IF t.original = None THEN x.comment ELSE y.comment
          /\ r.name = IF x.name # OriginalOf(t).name THEN x.name ELSE y.name
      BY <1>3, <1>4, <1>8, TupleMerged DEF Merges
    <2>3. x.comment # NoComment => y.comment # NoComment
      BY <2>1, <2>2 DEF Commented
    <2>4. x.name \in Names /\ y.name \in Names /\ Missing \notin Names
      BY <1>2, <2>1, Merge3Assumption DEF Resource
    <2>5. Key(r) = Key(x)
      <3>1. CASE t.original = None
        <4>1. r.name = x.name
          BY <2>2, <2>4, <3>1 DEF OriginalOf, NoOriginal
        <4> QED BY <2>2, <3>1, <4>1 DEF Key
      <3>2. CASE t.original # None
        BY <2>1, <2>2, <2>3, <3>2 DEF Key, IsSameResource
      <3> QED BY <3>1, <3>2
    <2> QED BY <2>1, <2>2, <2>3, <2>5 DEF IsSameResource
  <1> QED BY <1>1, <1>6, <1>7, <1>8 DEF Comes

-----------------------------------------------------------------------------
(* The invariant.                                                           *)

TypeInv == upstream \in SUBSET Resource /\ original \in SUBSET Resource /\ local \in SUBSET Resource

(* In the three packages, a resource that nobody has moved is one resource, *)
(* in one place; its comment is not lost.                                   *)
IdInv ==
  /\ Unique(upstream, lost) /\ Unique(original, lost) /\ Unique(local, lost)
  /\ Together(original, upstream, lost) /\ Together(original, local, lost) /\ Together(upstream, local, lost)
  /\ Commented(upstream, local, lost)

(* So it was for the last merge.                                            *)
WasTold(m, L) ==
  /\ m.o \in SUBSET Resource /\ m.u \in SUBSET Resource /\ m.d \in SUBSET Resource
  /\ Told(m.o, m.u, m.d, L)
  /\ m.result = Merge(m.o, m.u, m.d)
  /\ m.noted => \A r \in m.o \union m.u \union m.d : r.comment = Key(r) /\ r.ident = Key(r)

LastInv == WasTold(last, lost)

Inv == TypeInv /\ IdInv /\ LastInv

LEMMA TogetherSymmetric ==
  ASSUME NEW A, NEW B, NEW L, Together(A, B, L)
  PROVE  Together(B, A, L)
  BY DEF Together, IsSameResource

LEMMA UniqueTogether ==
  ASSUME NEW A, NEW L, Unique(A, L)
  PROVE  Together(A, A, L)
  BY DEF Together, Unique, IsSameResource

LEMMA LostGrows ==
  ASSUME NEW A, NEW B, NEW L, NEW M, L \subseteq M
  PROVE  /\ Unique(A, L) => Unique(A, M)
         /\ Together(A, B, L) => Together(A, B, M)
         /\ Commented(A, B, L) => Commented(A, B, M)
  BY DEF Together, Unique, Commented

LEMMA NoMergeTold ==
  ASSUME NEW L
  PROVE  WasTold(NoMerge, L)
  <1>1. /\ NoMerge.o = {} /\ NoMerge.u = {} /\ NoMerge.d = {} /\ NoMerge.result = {}
        /\ NoMerge.noted = FALSE
    BY DEF NoMerge
  <1>2. Told({}, {}, {}, L)
    BY DEF Told, Duplicate, Unique, Together
  <1>3. ASSUME NEW r PROVE r \notin Merge({}, {}, {})
    <2>1. ~\E x \in {} \union {} \union {} : Comes(r, TupleOf(x, {}, {}, {}), SchemasOf({}, {}))
      OBVIOUS
    <2>2. {} \in SUBSET Resource
      OBVIOUS
    <2> QED BY <2>1, <2>2, ResultComes
  <1> QED BY <1>1, <1>2, <1>3 DEF WasTold

LEMMA AttributeKeeps ==
  ASSUME NEW r \in Resource, NEW g \in {"pkg", "fn"}
  PROVE  LET a == Attribute(r, g)
         IN a \in Resource /\ a.id = r.id /\ IsSameResource(a, r) /\ a.comment = r.comment
  <1>1. CASE r.kind = "cr"
    <2> DEFINE a == Attribute(r, g)
    <2>1. a = [r EXCEPT !.attr = @ \union {g}]
      BY <1>1 DEF Attribute
    <2>2. a \in Resource /\ a.id = r.id /\ a.kind = r.kind /\ a.path = r.path /\ a.comment = r.comment /\ a.name = r.name
      <3> HIDE DEF a
      <3> QED BY <2>1 DEF Resource
    <2> QED BY <2>2 DEF IsSameResource, Key
  <1>2. CASE r.kind # "cr"
    BY <1>2 DEF Attribute, IsSameResource
  <1> QED BY <1>1, <1>2

(* A package whose resources are attributed is the package.                 *)
LEMMA AttributedKeeps ==
  ASSUME NEW A \in SUBSET Resource, NEW g \in {"pkg", "fn"}, NEW L
  PROVE  /\ Attributed(A, g) \in SUBSET Resource
         /\ Unique(A, L) => Unique(Attributed(A, g), L)
         /\ \A B : Together(B, A, L) => Together(B, Attributed(A, g), L)
         /\ \A B : Commented(B, A, L) => Commented(B, Attributed(A, g), L)
  <1> DEFINE C == Attributed(A, g)
  <1>1. \A s \in C : \E r \in A : s = Attribute(r, g)
    BY DEF Attributed
  <1>2. \A r \in A : /\ Attribute(r, g) \in Resource /\ Attribute(r, g).id = r.id
                     /\ IsSameResource(Attribute(r, g), r) /\ Attribute(r, g).comment = r.comment
    BY AttributeKeeps
  <1> HIDE DEF C
  <1>3. C \in SUBSET Resource
    BY <1>1, <1>2
  <1>4. Unique(A, L) => Unique(C, L)
    BY <1>1, <1>2 DEF Unique
  <1>5. ASSUME NEW B, Together(B, A, L) PROVE Together(B, C, L)
    BY <1>1, <1>2, <1>5 DEF Together, IsSameResource
  <1>6. ASSUME NEW B, Commented(B, A, L) PROVE Commented(B, C, L)
    BY <1>1, <1>2, <1>6 DEF Commented
  <1> QED BY <1>3, <1>4, <1>5, <1>6 DEF C

LEMMA ProcessCommented ==
  ASSUME NEW A \in SUBSET Resource, NEW B, NEW L
  PROVE  Commented(B, Process(A), L)
  BY ProcessType, KeyType, Merge3Assumption DEF Commented

LEMMA InvInit ==
  ASSUME Init
  PROVE  Inv
  <1>1. upstream \in SUBSET Resource /\ Unique(upstream, {}) /\ original = upstream /\ lost = {}
    BY Merge3Assumption DEF Init, Unique
  <1>2. Together(upstream, upstream, {})
    BY <1>1, UniqueTogether
  <1> DEFINE P == Process(upstream)
  <1>3. CASE local = upstream
    <2>1. Commented(upstream, upstream, {})
      BY <1>1 DEF Commented, Unique
    <2> QED BY <1>1, <1>2, <1>3, <2>1, NoMergeTold DEF Inv, TypeInv, IdInv, LastInv, Init
  <1>4. CASE local = Attributed(P, "pkg")
    <2>1. P \in SUBSET Resource /\ P \in Noting(upstream) /\ upstream \in Noting(upstream)
      BY <1>1, ProcessType DEF Noting
    <2>2. Unique(P, {}) /\ Together(upstream, P, {}) /\ Commented(upstream, P, {})
      BY <1>1, <1>2, <2>1, NotingUnique, NotingTogether, ProcessCommented
    <2>3. local \in SUBSET Resource /\ Unique(local, {}) /\ Together(upstream, local, {}) /\ Commented(upstream, local, {})
      <3> HIDE DEF P
      <3> QED BY <1>4, <2>1, <2>2, AttributedKeeps
    <2> QED BY <1>1, <1>2, <2>3, NoMergeTold DEF Inv, TypeInv, IdInv, LastInv, Init
  <1> QED BY <1>3, <1>4 DEF Init

-----------------------------------------------------------------------------
(* Edits.                                                                   *)

LEMMA EditedKeeps ==
  ASSUME NEW r \in Resource, NEW e \in Edited(r)
  PROVE  e \in Resource /\ e.id = r.id /\ e.comment = r.comment
  <1>1. CASE r.kind = "crd"
    <2>1. e = [r EXCEPT !.val = Missing]
      BY <1>1 DEF Edited
    <2> QED BY <2>1 DEF Resource, Scalars
  <1>2. CASE r.kind # "crd"
    <2>1. \/ \E v \in Scalars : e = [r EXCEPT !.val = v]
          \/ \E k \in Keys, v \in (Vals \union {Missing}) : e = [r EXCEPT !.items[k] = v]
          \/ \E n \in Names : e = [r EXCEPT !.name = n]
          \/ \E f \in Files : e = [r EXCEPT !.path = f]
      BY <1>2 DEF Edited
    <2> QED BY <2>1 DEF Resource
  <1> QED BY <1>1, <1>2

LEMMA NewIsNew ==
  ASSUME NEW k \in {"builtin", "cr"}, NEW n \in Names, Unused # {}
  PROVE  New(k, n) \in Resource /\ New(k, n).id \in Unused /\ New(k, n).comment = NoComment
  <1>1. (CHOOSE i \in Unused : TRUE) \in Unused /\ Unused \subseteq ResourceIds
    BY DEF Unused
  <1>2. (CHOOSE f \in Files : TRUE) \in Files /\ (CHOOSE v \in Vals : TRUE) \in Vals
    BY Merge3Assumption
  <1>3. NoItems \in [Keys -> Vals \union {Missing}]
    BY DEF NoItems
  <1> QED BY <1>1, <1>2, <1>3 DEF New, Resource, Kinds, Scalars

LEMMA EditShape ==
  ASSUME NEW A \in SUBSET Resource, NEW C \in Edits(A)
  PROVE  \/ \E r \in A, e \in Resource : C = (A \ {r}) \union {e} /\ e.id = r.id /\ e.comment = r.comment
         \/ C \subseteq A
         \/ \E e \in Resource : C = A \union {e} /\ e.id \in Unused /\ e.comment = NoComment
  <1>1. CASE \E r \in A : \E e \in Edited(r) : C = (A \ {r}) \union {e}
    BY <1>1, EditedKeeps
  <1>2. CASE \E r \in A : C = A \ {r}
    BY <1>2
  <1>3. CASE \E r \in Added : C = A \union {r}
    <2>1. PICK k \in {"builtin", "cr"} : \E n \in Names : Unused # {} /\ C = A \union {New(k, n)}
      BY <1>3 DEF Added
    <2> QED BY <2>1, NewIsNew
  <1>4. \/ C \in UNION {{(A \ {r}) \union {e} : e \in Edited(r)} : r \in A}
        \/ C \in {A \ {r} : r \in A}
        \/ C \in {A \union {r} : r \in Added}
    BY DEF Edits
  <1>5. ASSUME C \in UNION {{(A \ {r}) \union {e} : e \in Edited(r)} : r \in A}
        PROVE  \E r \in A : \E e \in Edited(r) : C = (A \ {r}) \union {e}
    <2>1. PICK r \in A : C \in {(A \ {r}) \union {e} : e \in Edited(r)}
      BY <1>5
    <2> QED BY <2>1
  <1> QED BY <1>1, <1>2, <1>3, <1>4, <1>5

(* An edit leaves what it has not moved where it was.                       *)
LEMMA EditKeeps ==
  ASSUME NEW A \in SUBSET Resource, A \in {upstream, local}, NEW C \in Edits(A), Unique(A, lost)
  PROVE  LET L == lost \union Moved(A, C)
         IN /\ C \in SUBSET Resource /\ Unique(C, L)
            /\ \A B \in {upstream, original, local} :
                 /\ Together(B, A, lost) => Together(B, C, L)
                 /\ Commented(A, B, lost) => Commented(C, B, L)
                 /\ Commented(B, A, lost) => Commented(B, C, L)
  <1> DEFINE L == lost \union Moved(A, C)
  <1>1. C \in SUBSET Resource
    BY EditShape
  <1>2. ASSUME NEW r \in A, NEW s \in C, s.id = r.id, s.id \notin L PROVE IsSameResource(s, r)
    BY <1>2 DEF L, Moved, IsSameResource
  <1>3. ASSUME NEW B \in {upstream, original, local}, NEW b \in B PROVE b.id \notin Unused
    BY <1>3 DEF Unused, Ids
  <1> HIDE DEF L
  <1>4. lost \subseteq L
    BY DEF L
  <1>5. CASE C \subseteq A
    BY <1>1, <1>4, <1>5, LostGrows DEF Unique, Together, Commented, L
  <1>6. ASSUME NEW r \in A, NEW e \in Resource, C = (A \ {r}) \union {e}, e.id = r.id, e.comment = r.comment
        PROVE  /\ Unique(C, L)
               /\ \A B \in {upstream, original, local} :
                    /\ Together(B, A, lost) => Together(B, C, L)
                    /\ Commented(A, B, lost) => Commented(C, B, L)
                    /\ Commented(B, A, lost) => Commented(B, C, L)
    <2>1. Unique(C, L)
      BY <1>4, <1>6 DEF Unique
    <2>2. ASSUME NEW B, Together(B, A, lost) PROVE Together(B, C, L)
      BY <1>2, <1>4, <1>6, <2>2 DEF Together, IsSameResource
    <2>3. ASSUME NEW B, Commented(A, B, lost) PROVE Commented(C, B, L)
      BY <1>4, <1>6, <2>3 DEF Commented
    <2>4. ASSUME NEW B, Commented(B, A, lost) PROVE Commented(B, C, L)
      BY <1>4, <1>6, <2>4 DEF Commented
    <2> QED BY <2>1, <2>2, <2>3, <2>4
  <1>7. ASSUME NEW e \in Resource, C = A \union {e}, e.id \in Unused, e.comment = NoComment
        PROVE  /\ Unique(C, L)
               /\ \A B \in {upstream, original, local} :
                    /\ Together(B, A, lost) => Together(B, C, L)
                    /\ Commented(A, B, lost) => Commented(C, B, L)
                    /\ Commented(B, A, lost) => Commented(B, C, L)
    <2>1. Unique(C, L)
      BY <1>3, <1>4, <1>7 DEF Unique
    <2>2. ASSUME NEW B \in {upstream, original, local}, Together(B, A, lost) PROVE Together(B, C, L)
      BY <1>3, <1>4, <1>7, <2>2 DEF Together
    <2>3. ASSUME NEW B \in {upstream, original, local}, Commented(A, B, lost) PROVE Commented(C, B, L)
      BY <1>4, <1>7, <2>3 DEF Commented
    <2>4. ASSUME NEW B \in {upstream, original, local}, Commented(B, A, lost) PROVE Commented(B, C, L)
      BY <1>3, <1>4, <1>7, <2>4 DEF Commented
    <2> QED BY <2>1, <2>2, <2>3, <2>4
  <1>8. \/ \E r \in A, e \in Resource : C = (A \ {r}) \union {e} /\ e.id = r.id /\ e.comment = r.comment
        \/ C \subseteq A
        \/ \E e \in Resource : C = A \union {e} /\ e.id \in Unused /\ e.comment = NoComment
    BY EditShape
  <1>9. CASE \E r \in A, e \in Resource : C = (A \ {r}) \union {e} /\ e.id = r.id /\ e.comment = r.comment
    BY <1>1, <1>6, <1>9 DEF L
  <1>10. CASE \E e \in Resource : C = A \union {e} /\ e.id \in Unused /\ e.comment = NoComment
    BY <1>1, <1>7, <1>10 DEF L
  <1> QED BY <1>5, <1>8, <1>9, <1>10

LEMMA InvEdit ==
  ASSUME Inv, EditUpstream \/ EditLocal
  PROVE  Inv'
  <1>1. LastInv'
    <2>1. last' = NoMerge
      BY DEF EditUpstream, EditLocal
    <2> QED BY <2>1, NoMergeTold DEF LastInv
  <1>2. CASE EditUpstream
    <2> DEFINE L == lost \union Moved(upstream, upstream')
    <2>1. upstream' \in Edits(upstream) /\ lost' = L /\ original' = original /\ local' = local
      BY <1>2 DEF EditUpstream
    <2>2. Together(local, upstream, lost)
      BY TogetherSymmetric DEF Inv, IdInv
    <2>3. /\ upstream' \in SUBSET Resource /\ Unique(upstream', L)
          /\ Together(original, upstream', L) /\ Together(local, upstream', L)
          /\ Commented(upstream', local, L)
      BY <2>1, <2>2, EditKeeps DEF Inv, TypeInv, IdInv
    <2>4. Unique(original, L) /\ Unique(local, L) /\ Together(original, local, L)
      BY LostGrows DEF Inv, IdInv
    <2>5. Together(upstream', local, L)
      BY <2>3, TogetherSymmetric
    <2> HIDE DEF L
    <2> QED BY <1>1, <2>1, <2>3, <2>4, <2>5 DEF Inv, TypeInv, IdInv
  <1>3. CASE EditLocal
    <2> DEFINE L == lost \union Moved(local, local')
    <2>1. local' \in Edits(local) /\ lost' = L /\ original' = original /\ upstream' = upstream
      BY <1>3 DEF EditLocal
    <2>2. /\ local' \in SUBSET Resource /\ Unique(local', L)
          /\ Together(original, local', L) /\ Together(upstream, local', L)
          /\ Commented(upstream, local', L)
      BY <2>1, EditKeeps DEF Inv, TypeInv, IdInv
    <2>3. Unique(original, L) /\ Unique(upstream, L) /\ Together(original, upstream, L)
      BY LostGrows DEF Inv, IdInv
    <2> HIDE DEF L
    <2> QED BY <1>1, <2>1, <2>2, <2>3 DEF Inv, TypeInv, IdInv
  <1> QED BY <1>2, <1>3

LEMMA InvRender ==
  ASSUME Inv, Render
  PROVE  Inv'
  <1>1. /\ local' = Attributed(local, "fn") /\ last' = NoMerge
        /\ upstream' = upstream /\ original' = original /\ lost' = lost
    BY DEF Render
  <1>2. /\ local' \in SUBSET Resource /\ Unique(local', lost)
        /\ Together(original, local', lost) /\ Together(upstream, local', lost)
        /\ Commented(upstream, local', lost)
    BY <1>1, AttributedKeeps DEF Inv, TypeInv, IdInv
  <1>3. LastInv'
    BY <1>1, NoMergeTold DEF LastInv
  <1> QED BY <1>1, <1>2, <1>3 DEF Inv, TypeInv, IdInv

-----------------------------------------------------------------------------
(* Updates.                                                                 *)

LEMMA NotingTold ==
  ASSUME NEW o \in Noting(original), NEW u \in Noting(upstream), NEW d \in Noting(local),
         Inv, ~Duplicate(o), ~Duplicate(u), ~Duplicate(d)
  PROVE  Told(o, u, d, lost)
  BY NotingTogether, NotingUnique DEF Told, Inv, TypeInv, IdInv

(* The packages of a merge that got as far as n with its comments.          *)
LEMMA NotingOf ==
  ASSUME NEW A, NEW n \in 0 .. 3, NEW k \in 1 .. 3
  PROVE  (IF n >= k THEN Process(A) ELSE A) \in Noting(A)
  BY DEF Noting

LEMMA NotingCommented ==
  ASSUME Inv, NEW n \in 0 .. 3
  PROVE  Commented(IF n >= 2 THEN Process(upstream) ELSE upstream, IF n >= 1 THEN Process(local) ELSE local, lost)
  <1>1. CASE n >= 1
    BY <1>1, ProcessCommented DEF Inv, TypeInv
  <1>2. CASE ~(n >= 1)
    BY <1>2 DEF Inv, IdInv
  <1> QED BY <1>1, <1>2

(* What is known of upstream with comments is known of it without.          *)
LEMMA WithoutComments ==
  ASSUME NEW A \in SUBSET Resource, NEW C \in Noting(A), NEW B, NEW L
  PROVE  /\ Together(B, C, L) => Together(B, A, L)
         /\ Commented(C, B, L) => Commented(A, B, L)
  <1>1. \A r \in A : \E s \in C : s.id = r.id /\ IsSameResource(s, r) /\ s \in {r, AddMergeComment(r)}
    BY NotingKeeps
  <1>2. ASSUME NEW r \in A, r.comment # NoComment PROVE AddMergeComment(r).comment # NoComment
    BY <1>2, CommentKeepsPlace, KeyType, Merge3Assumption
  <1>3. Together(B, C, L) => Together(B, A, L)
    BY <1>1 DEF Together, IsSameResource
  <1>4. Commented(C, B, L) => Commented(A, B, L)
    BY <1>1, <1>2 DEF Commented
  <1> QED BY <1>3, <1>4

LEMMA InvUpdate ==
  ASSUME Inv, NEW n \in 0 .. 3, NEW ok \in BOOLEAN, Update(n, ok)
  PROVE  Inv'
  <1> DEFINE d == IF n >= 1 THEN Process(local) ELSE local
             u == IF n >= 2 THEN Process(upstream) ELSE upstream
             o == IF n >= 3 THEN Process(original) ELSE original
             result == Merge(o, u, d)
             noted == n = 3
  <1>1. /\ ~Duplicate(o) /\ ~Duplicate(u) /\ ~Duplicate(d)
        /\ local' = IF ok THEN Process(result) ELSE result
        /\ original' = upstream /\ upstream' = upstream /\ lost' = lost
        /\ last' = [o |-> o, u |-> u, d |-> d, result |-> result, noted |-> noted]
    BY DEF Update
  <1>2. d \in Noting(local) /\ u \in Noting(upstream) /\ o \in Noting(original)
    BY NotingOf
  <1>3. d \in SUBSET Resource /\ u \in SUBSET Resource /\ o \in SUBSET Resource
    BY <1>2, NotingKeeps DEF Inv, TypeInv
  <1>4. noted => \A r \in o \union u \union d : r.comment = Key(r) /\ r.ident = Key(r)
    BY ProcessType DEF Inv, TypeInv
  <1>5. Commented(u, d, lost)
    BY NotingCommented
  <1> HIDE DEF d, u, o, noted
  <1>6. Told(o, u, d, lost)
    BY <1>1, <1>2, NotingTold
  <1>7. result \in SUBSET Resource
    BY <1>3, <1>6, ResultNode
  <1>8. Unique(result, lost) /\ Together(result, u, lost) /\ Commented(u, result, lost)
    BY <1>3, <1>5, <1>6, ResultUnique, ResultPlace
  <1> HIDE DEF result
  <1>9. Together(result, upstream, lost) /\ Commented(upstream, result, lost)
    BY <1>2, <1>8, WithoutComments DEF Inv, TypeInv
  <1>10. local' \in Noting(result)
    BY <1>1 DEF Noting
  <1>11. /\ local' \in SUBSET Resource /\ Unique(local', lost)
         /\ Together(upstream, local', lost) /\ Commented(upstream, local', lost)
    <2>1. Together(upstream, result, lost) /\ upstream \in Noting(upstream)
      BY <1>9, TogetherSymmetric DEF Noting
    <2>2. Commented(upstream, local', lost)
      BY <1>7, <1>9, <1>10, ProcessCommented DEF Noting
    <2> QED BY <1>7, <1>8, <1>10, <2>1, <2>2, NotingKeeps, NotingUnique, NotingTogether DEF Inv, TypeInv
  <1>12. Together(upstream, upstream, lost)
    BY UniqueTogether DEF Inv, IdInv
  <1>13. LastInv'
    BY <1>1, <1>3, <1>4, <1>6 DEF LastInv, WasTold, result
  <1> QED BY <1>1, <1>11, <1>12, <1>13 DEF Inv, TypeInv, IdInv

LEMMA InvUpdateFails ==
  ASSUME Inv, NEW n \in {0, 1}, UpdateFails(n)
  PROVE  Inv'
  <1>1. /\ local' \in Noting(local) /\ last' = NoMerge
        /\ upstream' = upstream /\ original' = original /\ lost' = lost
    BY DEF UpdateFails, Noting
  <1>2. upstream \in Noting(upstream) /\ original \in Noting(original)
    BY DEF Noting
  <1>3. /\ local' \in SUBSET Resource /\ Unique(local', lost)
        /\ Together(upstream, local', lost) /\ Together(original, local', lost)
    BY <1>1, <1>2, NotingKeeps, NotingUnique, NotingTogether DEF Inv, TypeInv, IdInv
  <1>4. Commented(upstream, local', lost)
    BY <1>1, ProcessCommented DEF Inv, TypeInv, IdInv, Noting
  <1>5. LastInv'
    BY <1>1, NoMergeTold DEF LastInv
  <1> QED BY <1>1, <1>3, <1>4, <1>5 DEF Inv, TypeInv, IdInv

\* The inductive invariant holds of every behaviour: get, renders, edits on both sides and
\* updates, those that fail included.
THEOREM InvHolds == Spec => []Inv
  <1>1. Init => Inv
    BY InvInit
  <1>2. Inv /\ [Next]_vars => Inv'
    <2> SUFFICES ASSUME Inv, [Next]_vars PROVE Inv'
      OBVIOUS
    <2>1. CASE EditUpstream \/ EditLocal
      BY <2>1, InvEdit
    <2>2. CASE Render
      BY <2>2, InvRender
    <2>3. CASE \E n \in 0 .. 3, ok \in BOOLEAN : Update(n, ok)
      BY <2>3, InvUpdate
    <2>4. CASE \E n \in {0, 1} : UpdateFails(n)
      BY <2>4, InvUpdateFails
    <2>5. CASE UNCHANGED vars
      BY <2>5 DEF Inv, TypeInv, IdInv, LastInv, vars
    <2> QED BY <2>1, <2>2, <2>3, <2>4, <2>5 DEF Next
  <1> QED BY <1>1, <1>2, PTL DEF Spec

-----------------------------------------------------------------------------
(* What a merge promises.                                                   *)

LEMMA EqualsIs ==
  ASSUME NEW a \in Resource, NEW b \in Resource
  PROVE  Equals(a, b) <=> /\ a.kind = b.kind /\ a.name = b.name /\ a.comment = b.comment
                          /\ a.ident = b.ident /\ a.val = b.val /\ a.items = b.items
  BY DEF Equals, StripKyamlAnnos

LEMMA ScalarAsExpected ==
  ASSUME NEW o \in Scalars, NEW u \in Scalars, NEW d \in Scalars
  PROVE  Norm(VisitScalar(o, u, d)) = Expected(o, u, d)
  <1>1. Missing # Null
    BY Merge3Assumption
  <1>2. CASE IsCleared(o, u) \/ IsCleared(o, d)
    BY <1>1, <1>2 DEF VisitScalar, Expected, Norm, IsCleared
  <1>3. CASE ~(IsCleared(o, u) \/ IsCleared(o, d)) /\ Absent(u) # Absent(o)
    <2>1. VisitScalar(o, u, d) = u
      BY <1>3 DEF VisitScalar
    <2>2. Norm(u) # Norm(o)
      BY <1>1, <1>3 DEF Norm, Absent
    <2>3. ~(o # Null /\ Null \in {u, d})
      BY <1>3 DEF IsCleared
    <2> QED BY <2>1, <2>2, <2>3 DEF Expected
  <1>4. CASE ~(IsCleared(o, u) \/ IsCleared(o, d)) /\ Absent(u) /\ Absent(o)
    <2>1. VisitScalar(o, u, d) = d
      BY <1>4 DEF VisitScalar
    <2>2. Norm(u) = Norm(o)
      BY <1>1, <1>4 DEF Norm, Absent
    <2>3. ~(o # Null /\ Null \in {u, d})
      BY <1>4 DEF IsCleared
    <2> QED BY <2>1, <2>2, <2>3 DEF Expected
  <1>5. CASE ~(IsCleared(o, u) \/ IsCleared(o, d)) /\ ~Absent(u) /\ ~Absent(o)
    <2>1. VisitScalar(o, u, d) = IF u # o THEN u ELSE d
      BY <1>5 DEF VisitScalar
    <2>2. Norm(u) = u /\ Norm(o) = o
      BY <1>5 DEF Norm, Absent
    <2>3. ~(o # Null /\ Null \in {u, d})
      BY <1>5 DEF IsCleared
    <2> QED BY <2>1, <2>2, <2>3 DEF Expected
  <1> QED BY <1>2, <1>3, <1>4, <1>5 DEF Absent

LEMMA ItemsAsExpected ==
  ASSUME NEW o \in [Keys -> Vals \union {Missing}], NEW u \in [Keys -> Vals \union {Missing}],
         NEW d \in [Keys -> Vals \union {Missing}], NEW kind, NEW schemas
  PROVE  VisitList(kind, schemas, o, u, d) = ExpectedItems(o, u, d, kind \in schemas)
  <1>1. ASSUME NEW k \in Keys PROVE VisitScalar(o[k], u[k], d[k]) = Expected(o[k], u[k], d[k])
    <2>1. {o[k], u[k], d[k]} \subseteq Vals \union {Missing}
      OBVIOUS
    <2>2. Null \notin Vals \union {Missing}
      BY Merge3Assumption
    <2> QED BY <2>1, <2>2, Merge3Assumption DEF VisitScalar, Expected, Norm, IsCleared, Absent
  <1>2. [k \in Keys |-> VisitScalar(o[k], u[k], d[k])] = [k \in Keys |-> Expected(o[k], u[k], d[k])]
    BY <1>1
  <1>3. CASE kind \notin schemas
    BY <1>3 DEF VisitList, VisitNAList, ExpectedItems
  <1>4. CASE kind \in schemas /\ u = NoItems /\ o # NoItems
    BY <1>4 DEF VisitList, VisitAList, ExpectedItems
  <1>5. CASE kind \in schemas /\ ~(u = NoItems /\ o # NoItems)
    BY <1>2, <1>5 DEF VisitList, VisitAList, ExpectedItems
  <1> QED BY <1>3, <1>4, <1>5

(* The three versions of a resource are in one tuple.                       *)
LEMMA ThreesTuple ==
  ASSUME LastInv, NEW o \in last.o, NEW u \in last.u, NEW d \in last.d,
         o.id = u.id, u.id = d.id, o.id \notin lost
  PROVE  /\ TupleOf(o, last.o, last.u, last.d) = [original |-> o, updated |-> u, dest |-> d]
         /\ {o, u, d} \subseteq Resource /\ o.kind = d.kind
  <1>1. {o, u, d} \subseteq Resource /\ None \notin Resource
    BY Merge3Assumption DEF LastInv, WasTold
  <1>2. IsSameResource(o, o) /\ IsSameResource(u, o) /\ IsSameResource(d, o)
    BY DEF LastInv, WasTold, Told, Together, IsSameResource
  <1>3. Match(o, last.o) = o /\ Match(o, last.u) = u /\ Match(o, last.d) = d
    BY <1>1, <1>2, MatchIs DEF LastInv, WasTold, Told
  <1> QED BY <1>1, <1>2, <1>3 DEF TupleOf, IsSameResource

LEMMA ThreeWayLast ==
  ASSUME LastInv
  PROVE  ThreeWay
  <1> SUFFICES ASSUME NEW o \in last.o, NEW u \in last.u, NEW d \in last.d,
                      o.id = u.id, u.id = d.id, o.id \notin lost
               PROVE  LET own == {r \in last.result : r.id = o.id}
                      IN /\ Cardinality(own) = 1
                         /\ \A r \in own :
                              /\ r.name = Expected(o.name, u.name, d.name)
                              /\ Norm(r.val) = Expected(o.val, u.val, d.val)
                              /\ r.items = ExpectedItems(o.items, u.items, d.items, o.kind = "builtin")
    BY DEF ThreeWay, Threes
  <1> DEFINE t == [original |-> o, updated |-> u, dest |-> d]
             C == SchemasOf(last.u, last.d)
             r == MergeTuple(t, C)
             own == {s \in last.result : s.id = o.id}
  <1>1. t = TupleOf(o, last.o, last.u, last.d) /\ {o, u, d} \subseteq Resource /\ o.kind = d.kind
    BY ThreesTuple
  <1>2. None \notin Resource
    BY Merge3Assumption
  <1>3. Tuple(t) /\ Merges(t) /\ OriginalOf(t) = o
    BY <1>1, <1>2 DEF Tuple, Merges, OriginalOf
  <1>4. /\ r.id = d.id
        /\ r.name = IF u.name # o.name THEN u.name ELSE d.name
        /\ r.val = VisitScalar(o.val, u.val, d.val)
        /\ r.items = VisitList(d.kind, C, o.items, u.items, d.items)
    <2> HIDE DEF C
    <2>1. t.updated = u /\ t.dest = d
      OBVIOUS
    <2> HIDE DEF t
    <2> QED BY <1>3, <2>1, TupleMerged DEF Merges
  <1>5. Comes(r, TupleOf(o, last.o, last.u, last.d), C)
    BY <1>1, <1>3 DEF Comes
  <1>6. /\ last.o \in SUBSET Resource /\ last.u \in SUBSET Resource /\ last.d \in SUBSET Resource
        /\ Told(last.o, last.u, last.d, lost) /\ last.result = Merge(last.o, last.u, last.d)
    BY DEF LastInv, WasTold
  <1> HIDE DEF r, C, t
  <1>7. r \in last.result
    BY <1>5, <1>6, ResultComes DEF C
  <1>8. own = {r}
    BY <1>4, <1>6, <1>7, ResultUnique DEF Unique
  <1>9. Cardinality(own) = 1
    BY <1>8, FS_Singleton
  <1>10. r.name = Expected(o.name, u.name, d.name)
    BY <1>1, <1>4, Merge3Assumption DEF Expected, Norm, Resource
  <1>11. Norm(r.val) = Expected(o.val, u.val, d.val)
    BY <1>1, <1>4, ScalarAsExpected DEF Resource
  <1>12. r.items = ExpectedItems(o.items, u.items, d.items, o.kind = "builtin")
    <2>1. (o.kind = "builtin") = (d.kind \in C)
      BY <1>1 DEF SchemasOf, GetCrdSchemas, AddSchema, C
    <2> QED BY <1>1, <1>4, <2>1, ItemsAsExpected DEF Resource
  <1> QED BY <1>8, <1>9, <1>10, <1>11, <1>12

(* For every package, history of edits on both sides and every number of    *)
(* updates, whose comments may or may not have been written, an update      *)
(* merges a resource that was not moved with its own versions, once, and    *)
(* field by field as the reference definition has it.                       *)
THEOREM ThreeWayHolds == Spec => []ThreeWay
  <1>1. Inv => ThreeWay
    BY ThreeWayLast DEF Inv
  <1> QED BY <1>1, InvHolds, PTL

LEMMA LocalWorkKeptLast ==
  ASSUME LastInv
  PROVE  LocalWorkKept
  <1> SUFFICES ASSUME NEW d \in last.d, \A o \in last.o : Content(o) # Content(d)
               PROVE  \E r \in last.result : r.id = d.id
    BY DEF LocalWorkKept, Ids
  <1> DEFINE t == TupleOf(d, last.o, last.u, last.d)
             C == SchemasOf(last.u, last.d)
  <1>1. /\ last.o \in SUBSET Resource /\ last.u \in SUBSET Resource /\ last.d \in SUBSET Resource
        /\ ~Duplicate(last.d) /\ last.result = Merge(last.o, last.u, last.d)
    BY DEF LastInv, WasTold, Told
  <1>2. /\ Tuple(t)
        /\ t.original # None => t.original \in last.o /\ IsSameResource(t.original, d)
    BY <1>1, TupleOfType
  <1>3. t.dest = d
    <2>1. d \in Resource /\ IsSameResource(d, d)
      BY <1>1 DEF IsSameResource
    <2> QED BY <1>1, <2>1, MatchIs DEF TupleOf
  <1>4. d # None /\ d \in Resource
    BY <1>1, Merge3Assumption
  <1>5. \A r : Comes(r, t, C) => r \in last.result
    BY <1>1, ResultComes
  <1> HIDE DEF t, C
  <1>6. CASE t.updated # None
    <2>1. Comes(MergeTuple(t, C), t, C)
      BY <1>3, <1>4, <1>6 DEF Comes, Merges
    <2>2. MergeTuple(t, C).id = d.id
      BY <1>2, <1>3, <1>4, <1>6, TupleMerged
    <2> QED BY <1>5, <2>1, <2>2
  <1>7. CASE t.updated = None
    <2>1. ASSUME t.original # None, Equals(t.original, d) PROVE FALSE
      <3>1. t.original \in last.o /\ t.original \in Resource /\ t.original.path = d.path
        BY <1>1, <1>2, <2>1 DEF IsSameResource
      <3>2. Content(t.original) = Content(d)
        BY <1>4, <2>1, <3>1, EqualsIs DEF Content
      <3> QED BY <3>1, <3>2
    <2>2. Comes(d, t, C)
      BY <1>3, <1>4, <1>7, <2>1 DEF Comes, KeepsDest
    <2> QED BY <1>5, <2>2
  <1> QED BY <1>6, <1>7

(* Whatever upstream did, an update keeps every resource that was added or  *)
(* changed locally.                                                         *)
THEOREM LocalWorkKeptHolds == Spec => []LocalWorkKept
  <1>1. Inv => LocalWorkKept
    BY LocalWorkKeptLast DEF Inv
  <1> QED BY <1>1, InvHolds, PTL

LEMMA UnmodifiedFollowsLast ==
  ASSUME LastInv
  PROVE  UnmodifiedFollows
  <1> SUFFICES ASSUME last.noted, NEW o \in last.o, NEW d \in last.d,
                      o.id = d.id, o.id \notin lost, Content(o) = Content(d),
                      \A u \in last.u : ~IsSameResource(o, u),
                      NEW r \in last.result, r.id = o.id
               PROVE  FALSE
    BY DEF UnmodifiedFollows, Ids
  <1> DEFINE t == TupleOf(o, last.o, last.u, last.d)
             C == SchemasOf(last.u, last.d)
  <1>1. /\ last.o \in SUBSET Resource /\ last.u \in SUBSET Resource /\ last.d \in SUBSET Resource
        /\ Told(last.o, last.u, last.d, lost) /\ last.result = Merge(last.o, last.u, last.d)
    BY DEF LastInv, WasTold
  <1>2. Comes(r, t, C)
    BY <1>1, ResultOf
  <1>3. o \in Resource /\ d \in Resource /\ IsSameResource(o, o) /\ IsSameResource(d, o)
    BY <1>1 DEF Told, Together, IsSameResource
  <1>4. t.original = o /\ t.dest = d
    BY <1>1, <1>3, MatchIs DEF TupleOf, Told
  <1>5. t.updated = None
    <2>1. \A u \in last.u : ~IsSameResource(u, o)
      BY DEF IsSameResource
    <2> QED BY <2>1 DEF TupleOf, Match
  <1>6. Equals(o, d)
    <2>1. o.comment = Key(o) /\ o.ident = Key(o) /\ d.comment = Key(d) /\ d.ident = Key(d)
      BY DEF LastInv, WasTold
    <2>2. o.kind = d.kind /\ o.name = d.name /\ o.val = d.val /\ o.items = d.items
      BY DEF Content
    <2> QED BY <1>3, <2>1, <2>2, EqualsIs DEF IsSameResource
  <1>7. o # None /\ d # None
    BY <1>3, Merge3Assumption
  <1> HIDE DEF t, C
  <1> QED BY <1>2, <1>4, <1>5, <1>6, <1>7 DEF Comes, Merges, KeepsDest, KeepsUpdated

(* A resource that upstream deleted and nobody changed locally goes,        *)
(* whatever marks kpt itself has left on it.                                *)
THEOREM UnmodifiedFollowsHolds == Spec => []UnmodifiedFollows
  <1>1. Inv => UnmodifiedFollows
    BY UnmodifiedFollowsLast DEF Inv
  <1> QED BY <1>1, InvHolds, PTL

=============================================================================
