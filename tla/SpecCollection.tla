---------------------------- MODULE SpecCollection ----------------------------
(***************************************************************************)
(* What the specs collector gets from a plugin: the plugin registers       *)
(* functions that gather specs, and sdk.Plugin.CollectSpecs calls them     *)
(* all.  What panics is recovered, and the plugin then answers with        *)
(* nothing and no error.                                                   *)
(*                                                                         *)
(* A function is [name, inputs, result, outs, error, does]:                *)
(*   inputs  the types of its parameters, "context" or another             *)
(*   result  the kind of the first value it returns                        *)
(*   outs    how many values it returns                                    *)
(*   error   whether the second is an error                                *)
(*   does    a set of "value", "error" (a value with an error), "panic",   *)
(*           and "unfit", what JSON cannot hold                            *)
(***************************************************************************)
EXTENDS Naturals, Sequences

\* MustRegisterSpecCollector exits for any other.  That the parameter is a context is
\* not looked at.
Registrable(f) ==
    /\ Len(f.inputs) <= 1
    /\ f.outs = 2 /\ f.result \in {"map", "struct"} /\ f.error

\* A name that is registered again has its last function.
Registered(functions) ==
    {functions[i] : i \in {j \in DOMAIN functions :
        \A k \in DOMAIN functions : functions[k].name = functions[j].name => k <= j}}

\* What calling it may do: a parameter that is not a context makes Call panic.
Called(f) == IF f.inputs \in {<<>>, <<"context">>} THEN f.does ELSE {"panic"}

\* What CollectSpecs may return: "specs", "empty" when there is no function, "error",
\* which comes with the specs that were gathered, or "nothing".
CollectSpecs(functions) ==
    LET outcome(does) ==
            IF \E f \in DOMAIN does : does[f] = "panic" THEN "nothing"
            ELSE IF \E f \in DOMAIN does : does[f] \in {"unfit", "error"} THEN "error"
            ELSE IF DOMAIN does = {} THEN "empty" ELSE "specs"
        fs == Registered(functions)
        all == [fs -> {"value", "error", "panic", "unfit"}]
    IN  {outcome(does) : does \in {d \in all : \A f \in fs : d[f] \in Called(f)}}

\* Whether the node may keep specs of the plugin: of an error it keeps none, and
\* nothing cannot be read.
Gathers(functions) == "specs" \in CollectSpecs(functions)
=============================================================================
