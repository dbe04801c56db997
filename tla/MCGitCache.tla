----------------------------- MODULE MCGitCache -----------------------------
(***************************************************************************)
(* An instance of GitCache for TLC: a branch, a tag of the same name, and  *)
(* a tag that belongs to the package and takes precedence over both.       *)
(***************************************************************************)
EXTENDS GitCache, TLC

CONSTANTS c1, c2, s1, p1, p2

MCHeads == {"main"}
MCTags == {"main", "pkg/main"}
MCShortOf == s1 :> c1
MCPackageTags == [r \in Refs |-> IF r = "main" THEN <<"pkg/main">> ELSE <<>>]
MCWanted == {"main", s1}
NamesWanted == {"main"}
MCFiles == {"Kptfile", "x"}
OneFile == {"Kptfile"}
Perms == Permutations(Procs)
=============================================================================
