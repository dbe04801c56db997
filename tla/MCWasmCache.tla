----------------------------- MODULE MCWasmCache -----------------------------
(***************************************************************************)
(* Two processes, one tag, two programs, and a tool that pushes images     *)
(* whose tar is empty or has a link.                                       *)
(***************************************************************************)
EXTENDS WasmCache, TLC

Symmetric == Permutations(Procs) \union Permutations(Programs)
=============================================================================
