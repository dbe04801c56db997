------------------------------ MODULE MCMerge3 ------------------------------
(***************************************************************************)
(* A custom resource with one element and the definition of its kind; and  *)
(* a built-in resource, from an upstream with comments of its own.  Edits  *)
(* add more of them.                                                       *)
(***************************************************************************)
EXTENDS Merge3

R(id, kind, name, comment) ==
  [id |-> id, kind |-> kind, path |-> "f", name |-> name, comment |-> comment, ident |-> comment,
   attr |-> {}, val |-> "a", items |-> [k \in Keys |-> "a"]]

McUpstreams ==
  {{[R(1, "cr", "x", NoComment) EXCEPT !.items["l"] = Missing], R(2, "crd", "x", NoComment)},
   {R(1, "builtin", "x", "x")}}
=============================================================================
