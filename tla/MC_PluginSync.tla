---------------------------- MODULE MC_PluginSync ----------------------------
(* Small instances of PluginSync: plugins that gather specs, but one of the   *)
(* functions of the second version takes what is not a context.               *)
EXTENDS PluginSync, TLC

CONSTANTS f1, f2, v1, v2

MCPublished == [f \in Files |-> IF f = f1 THEN v1 ELSE v2]

S == INSTANCE SpecCollection
Spec1 == [name |-> "os", inputs |-> <<"context">>, result |-> "map", outs |-> 2,
          error |-> TRUE, does |-> {"value", "error"}]
Spec2 == [Spec1 EXCEPT !.name = "net", !.inputs = <<"other">>]
MCFunctions == v1 :> <<Spec1>> @@ v2 :> <<Spec1, Spec2>>
MCGathering ==
    {v \in Versions : /\ \A i \in DOMAIN MCFunctions[v] : S!Registrable(MCFunctions[v][i])
                      /\ S!Gathers(MCFunctions[v])}
=============================================================================
