----------------------------- MODULE MCFnEval -----------------------------
(***************************************************************************)
(* A package of a Kptfile, a resource and a function configuration, the    *)
(* function f in two versions and the executable e.                        *)
(***************************************************************************)
EXTENDS FnEval

McVersions == {1, 2}
McOrder == <<"Kptfile", "app", "cfg", "new">>
McAttrs == [p \in {"Kptfile", "app", "cfg", "new"} |-> [app |-> IF p = "Kptfile" THEN "k" ELSE "x"]]

F(full, tag) == [name |-> "f", full |-> full, tag |-> tag]
ImageFn(image, field, cfg, selector) ==
  [kind |-> "image", image |-> image, field |-> field, config |-> cfg, selector |-> selector,
   exclusion |-> FALSE]
ExecFn(cfg, selector) ==
  [kind |-> "exec", image |-> [name |-> "e", full |-> FALSE, tag |-> NoTag], field |-> NoTagField,
   config |-> cfg, selector |-> selector, exclusion |-> TRUE]
Range12 == [kind |-> "range", tag |-> 1, below |-> 3]

Line(fn, dest, type) ==
  [fn |-> fn, when |-> dest = "unwrap", dest |-> dest, stdin |-> dest = "stdout",
   save |-> type # "", type |-> type, pull |-> IF type = "" THEN "Never" ELSE "IfNotPresent",
   results |-> dest = ""]

McLines ==
  {Line(ImageFn(F(FALSE, 1), NoTagField, "inside", TRUE), "", "mutator"),
   Line(ImageFn(F(FALSE, 2), NoTagField, "args", FALSE), "", "mutator"),
   [Line(ImageFn(F(TRUE, 2), NoTagField, "unclean", TRUE), "unwrap", "validator") EXCEPT !.pull = "Always"],
   Line(ExecFn("sibling", FALSE), "dir", "mutator"),
   Line(ExecFn("none", FALSE), "stdout", "")}

McSaved ==
  {<<ImageFn(F(TRUE, NoTag), Range12, "none", FALSE), ImageFn(F(TRUE, 1), NoTagField, "none", TRUE),
     ExecFn("none", FALSE)>>,
   <<ImageFn(F(FALSE, 1), NoTagField, "none", FALSE), ImageFn(F(TRUE, 1), NoTagField, "args", TRUE)>>}

McPool == {F(TRUE, 1), F(TRUE, 2)}
=============================================================================
