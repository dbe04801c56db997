---------------------------- MODULE MCPkgUpdate ----------------------------
(***************************************************************************)
(* An instance of PkgUpdate for TLC.  The package R may have a subpackage   *)
(* or a directory s, S is a package s may refer to, and may have a          *)
(* subpackage s itself, which may refer to a package T.  Next to s there    *)
(* may be files s.yaml and s.txt.                                           *)
(***************************************************************************)
EXTENDS PkgUpdate

MCOrder == << <<>>, <<"s">>, <<"s", "s">> >>
MCFiles == {"k", "n", "s.yaml", "s.txt"}
MCKrmFiles == {"k", "s.yaml"}
MCShadows == [f \in MCFiles |-> IF f \in {"s.yaml", "s.txt"} THEN {"s"} ELSE {}]
MCVersions == {"v1", "v2"}
MCValues == MCVersions \cup {"c", "e"}
MCWithin == {<<"R", "R">>, <<"S", "S">>, <<"T", "T">>, <<"R", "S">>, <<"R", "T">>, <<"S", "T">>}

(* A directory with k = a and n = b.                                        *)
Dir(up, lock, kf, a, b, y) ==
    [kptfile |-> [up |-> up, lock |-> lock, kf |-> kf],
     files |-> [f \in MCFiles |-> CASE f = "k" -> a [] f = "n" -> b [] f \in {"s.yaml", "s.txt"} -> y]]
Top(v) == Dir(None, None, v, v, v, v)
Stub(src, v) ==
    Dir([src |-> src, ref |-> v, strat |-> "resource-merge"], None, "c", None, None, None)
Inner(v) == Dir(None, None, "c", "c", v, None)
Plain(v) == [Inner(v) EXCEPT !.kptfile = None]
Vendored(v) ==
    Dir([src |-> "S", ref |-> v, strat |-> "resource-merge"], [src |-> "S", ref |-> v], "c", "c", v, None)

(* A package that was fetched from src and published itself.                *)
Derived(dir, src, v) ==
    [dir EXCEPT !.kptfile.up = [src |-> src, ref |-> v, strat |-> "resource-merge"],
                !.kptfile.lock = [src |-> src, ref |-> v]]

Tree(r, s, ss) == [p \in Paths |-> CASE p = <<>> -> r [] p = <<"s">> -> s [] p = <<"s", "s">> -> ss]
RTree(v, kind) ==
    CASE kind = "no" -> Tree(Top(v), NoDir, NoDir)
      [] kind = "bare" -> Tree(Dir(None, None, v, None, None, v), NoDir, NoDir)
      [] kind = "local" -> Tree(Top(v), Inner(v), NoDir)
      [] kind = "local/local" -> Tree(Top(v), Inner(v), Inner(v))
      [] kind = "local/stub" -> Tree(Top(v), Inner(v), Stub("T", v))
      [] kind = "dir" -> Tree(Top(v), Plain(v), NoDir)
      [] kind = "dir/stub" -> Tree(Top(v), Plain(v), Stub("T", v))
      [] kind = "stub" -> Tree(Top(v), Stub("S", v), NoDir)
      [] kind = "pinned" -> Tree(Top(v), Stub("S", "v1"), NoDir)
      [] kind = "fetched" -> Tree(Top(v), Vendored(v), NoDir)
      [] kind = "derived" -> Tree(Derived(Top(v), "S", v), NoDir, NoDir)
      [] kind = "alias" -> Tree(Stub("S", v), NoDir, NoDir)
STree(v, kind) ==
    CASE kind = "no" -> Tree(Inner(v), NoDir, NoDir)
      [] kind = "local" -> Tree(Inner(v), Inner(v), NoDir)
      [] kind = "stub" -> Tree(Inner(v), Stub("T", v), NoDir)
      [] kind = "derived" -> Tree(Derived(Inner(v), "T", "v1"), NoDir, NoDir)

(* A history says what R has in s, and S in its s, at v1 and at v2.         *)
MCUpstream(h, src, v) ==
    LET i == IF v = "v1" THEN 1 ELSE 2
    IN  CASE src = "R" -> RTree(v, h.r[i])
          [] src = "S" -> STree(v, h.s[i])
          [] src = "T" -> STree(v, "no")
MCHistories ==
    [r : {<<"bare", "no">>, <<"no", "local">>, <<"local/local", "no">>, <<"local", "local/local">>,
          <<"local", "local/stub">>, <<"no", "stub">>, <<"local", "stub">>,
          <<"dir", "local">>, <<"dir", "stub">>, <<"dir/stub", "local/stub">>,
          <<"no", "fetched">>, <<"stub", "fetched">>, <<"fetched", "fetched">>,
          <<"derived", "derived">>, <<"no", "alias">>},
     s : {<<"no", "no">>}] \cup
    [r : {<<"stub", "stub">>},
     s : {<<"no", "local">>, <<"local", "local">>, <<"stub", "stub">>, <<"stub", "local">>,
          <<"derived", "derived">>}] \cup
    [r : {<<"stub", "pinned">>}, s : {<<"stub", "stub">>}]
=============================================================================
