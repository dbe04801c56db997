--------------------------- MODULE MCTablePrinter ---------------------------
(* Two resources, one applied and one pruned, as the applier announces them. *)
EXTENDS TablePrinter

Group(action, ids) == [action |-> action, ids |-> ids]

MCPlans ==
  {<<>>,
   <<Group("Inventory", {"a"}), Group("Apply", {"a"}), Group("Wait", {"a"}),
     Group("Prune", {"b"}), Group("Wait", {"b"}), Group("Inventory", {})>>}
=============================================================================
