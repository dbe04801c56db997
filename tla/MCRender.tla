------------------------------ MODULE MCRender ------------------------------
(***************************************************************************)
(* An instance of Render for TLC: the root package has the subpackages a   *)
(* and c, a has the subpackage b, and between them the pipelines have a    *)
(* function of every kind.                                                 *)
(***************************************************************************)
EXTENDS Render, TLC

CONSTANTS root, a, b, c

MCPkgs == {root, a, b, c}
MCChildren == root :> <<a, c>> @@ a :> <<b>> @@ b :> <<>> @@ c :> <<>>
MCParent == root :> root @@ a :> root @@ b :> a @@ c :> root
MCBelow == root :> MCPkgs @@ a :> {a, b} @@ b :> {b} @@ c :> {c}

MCNames == {"Kptfile", "x", "cfg", "gen"}
MCFnIds == {"ma1", "ma2", "va", "mb", "mr", "vr"}

Plain(id) == [id |-> id, exec |-> FALSE, fetch |-> FALSE, config |-> "",
              clean |-> TRUE, ref |-> "", selects |-> MCNames, cond |-> FALSE,
              drops |-> {}, gens |-> {}]

(* a's first mutator may delete what its second refers to, and a resource   *)
(* of b; b's reads its configuration from a file that a's and root's may    *)
(* change; root's only sees some resources, needs --allow-exec and may      *)
(* delete one of c or the root Kptfile.                                     *)
MCMutators ==
       root :> <<[Plain("mr") EXCEPT !.exec = TRUE, !.selects = MCNames \ {"gen"},
                                     !.drops = {<<c, "x">>, <<root, "Kptfile">>}]>>
    @@ a :> <<[Plain("ma1") EXCEPT !.drops = {<<a, "cfg">>, <<b, "x">>}, !.gens = {"gen"}],
              [Plain("ma2") EXCEPT !.ref = "cfg"]>>
    @@ b :> <<[Plain("mb") EXCEPT !.config = "cfg", !.cond = TRUE, !.fetch = TRUE]>>
    @@ c :> <<>>

MCValidators ==
       root :> <<[Plain("vr") EXCEPT !.fetch = TRUE, !.cond = TRUE]>>
    @@ a :> <<[Plain("va") EXCEPT !.ref = "cfg"]>>
    @@ b :> <<>> @@ c :> <<>>

Files == {<<root, "Kptfile">>, <<a, "Kptfile">>, <<b, "Kptfile">>, <<c, "Kptfile">>,
          <<c, "x">>, <<a, "cfg">>, <<b, "cfg">>, <<b, "x">>}

(* The package complete, without a's configRef resource, and without b's    *)
(* configPath file.                                                         *)
MCLayouts == {Files, Files \ {<<a, "cfg">>}, Files \ {<<b, "cfg">>}}
MCBadSets == {{}, {root}, {c}}
MCOptions == {o \in OptionType : o.results}
=============================================================================
