------------------------------- MODULE MCLive -------------------------------
(* A package of two objects, and the command lines its users type. *)
EXTENDS Live, TLC

MCKptfileInv == [name |-> "n1", ns |-> "ns1", id |-> "k"]

MCInvocations ==
  {[NoFlags EXCEPT !.op = "init", !.force = b, !.file = IF b THEN "rg1" ELSE f] :
     b \in BOOLEAN, f \in RGFiles}
  \union InstallLines
  \union {f \in MigrateLines : (f.dry => ~f.force) /\ f.file = IF f.force THEN "rg2" ELSE "rg1"}
  \union {f \in ApplyLines : /\ f.install = ~f.dry /\ f.stdin = f.adopt /\ ~f.all
                             /\ f.dry => ~f.adopt}
  \union {f \in DestroyLines : f.all = f.adopt /\ ~f.stdin /\ f.dry = ~f.all}
  \union {f \in StatusLines : f.stdin}
  \union {f \in PlanLines : ~f.adopt /\ ~f.stdin}

Perms == Permutations(Objs)
=============================================================================
