------------------------------- MODULE Images -------------------------------
(***************************************************************************)
(* Which image a function runs as.  An image is its name, whether that is  *)
(* the full name with a registry or the short one of the catalog, and its  *)
(* tag.  A tag is a version (a number), the name of a build or of a        *)
(* digest, or NoTag.  The tag field of a function is a version, a version  *)
(* constraint or a literal tag.                                            *)
(***************************************************************************)
EXTENDS Naturals, Sequences, SequencesExt, FiniteSetsExt

CONSTANTS Versions, NoTag, Literal, BuildTag, Unresolved

ASSUME ImagesAssumption ==
  /\ Versions \subseteq Nat
  /\ {NoTag, Literal, BuildTag, Unresolved} \intersect Versions = {}

ImageTags == Versions \union {NoTag, Literal, BuildTag}

\* The tag field of a function: none, a literal tag (a version is one too), or the
\* constraint ">= tag, < below".
TagFields == [kind : {"none", "literal", "range"}, tag : ImageTags, below : Nat]

NoTagField == [kind |-> "none", tag |-> NoTag, below |-> 0]

FnImages == [name : STRING, full : BOOLEAN, tag : ImageTags]

\* A short name gets the prefix of the catalog.
ResolveToImage(image) == [image EXCEPT !.full = TRUE]

HasTagOrDigest(image) == image.tag # NoTag

\* What the container runtime takes for an image without a tag.
Latest(image) == IF HasTagOrDigest(image) THEN image ELSE [image EXCEPT !.tag = Literal]

\* Tags that look like a digest or a build, and those that are no version, do not count.
FilterParseTags(tags, c) == {t \in tags \intersect Versions : c.tag <= t /\ t < c.below}

\* The tags a lister that answers has.  One that fails is passed over.
Listed(listers) == UNION {l.tags : l \in {x \in listers : x.ok}}

\* A mutant: the registry decides, if it answers.
LatestMatchingRemote(listers, c) ==
  LET remote == UNION {FilterParseTags(l.tags, c) : l \in {x \in listers : x.ok /\ ~x.local}} IN
  IF remote = {} THEN FilterParseTags(Listed(listers), c) ELSE remote

\* The matching tags of all listers are sorted together.
LatestMatching(listers, c) == FilterParseTags(Listed(listers), c)

ImageWithLiteralTag(image, tag) == [image EXCEPT !.tag = tag]

\* A tag field always replaces the tag of the image.  A version is taken literally
\* without asking the listers.
ResolveFunctionImage(image, field, listers) ==
  CASE field.kind = "none" -> image
    [] field.kind = "literal" -> ImageWithLiteralTag(image, field.tag)
    [] field.kind = "range" ->
         LET found == LatestMatching(listers, field) IN
         IF found = {} THEN Unresolved ELSE [image EXCEPT !.tag = Max(found)]

\* The image a pipeline function runs as in a render.
RunnerImage(image, field, listers) ==
  IF field.kind # "none" THEN ResolveFunctionImage(ResolveToImage(image), field, listers)
  ELSE Latest(ResolveToImage(image))
=============================================================================
