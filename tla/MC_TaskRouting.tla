--------------------------- MODULE MC_TaskRouting ---------------------------
(* Small instances of TaskRouting. *)
EXTENDS TaskRouting, TLC

CONSTANTS n1, n2, c1, collector

MCNodes == {n1, n2}
MCOneNode == {n1}
Matching(S) == [ok |-> TRUE, matches |-> S]
\* Commands that target the lines of a file, and a node.
Cmd == INSTANCE Command
Run(flag, target) ==
    Cmd!TaskRequest([flags |-> {flag}, target |-> target, parts |-> <<"p", "do">>,
                 words |-> <<>>, lockMode |-> "default"])
MCRequest == c1 :> Run("file", <<n2, n1, n2>>)
MCOneNodeRequest == c1 :> Run("target", n1)

\* The collector's tasks have the newest IDs, and those of one node are newer than those
\* of the other.
IDs(older, newer) ==
    c1 :> 2 @@ <<c1, older>> :> 3 @@ <<c1, newer>> :> 4 @@
    <<collector, older>> :> 5 @@ <<collector, newer>> :> 6
MCIdOrders == {IDs(n1, n2), IDs(n2, n1)}
\* With one node, its specs may also be the oldest result.
MCOneNodeIdOrders == {c1 :> 2 @@ <<c1, n1>> :> 3 @@ <<collector, n1>> :> i : i \in {1, 4}}
MCSpecsOf == [n \in MCNodes |-> "os" :> "linux" @@ "net" :> Branch]

\* Filters: by name, by spec, both, either, a pattern that does not compile.
BadGlob == [ok |-> FALSE, matches |-> {}]
OnId(op, value) == [field |-> "id", path |-> "", op |-> op, value |-> value]
OnSpec(path, op, value) ==
    [field |-> "specs", path |-> path, op |-> op, value |-> value]
MCQueries ==
    LET linux == OnSpec("os", "==", Matching({"linux"}))
        windows == OnSpec("os", "=~", Matching({"windows"}))
        all == OnId("==", Matching(MCNodes))
    IN  {<< <<windows, all>>, <<linux, all>> >>,
         << <<OnSpec("os", "=~", BadGlob)>>,
            <<OnSpec("net", "==", Matching({"linux"}))>> >>}
        \cup UNION {{<< <<OnId("=~", Matching({n})), linux>> >>,
                      << <<linux, OnId("==", Matching({n}))>>, <<windows>> >>}
                     : n \in MCNodes}

\* Pages of one entry and of more than the limit, from the first and from the second,
\* between dates, of the entries of a node, and dates that are the wrong way round.
Listing(offset, limit, targets, from, to) ==
    [offset |-> offset, limit |-> limit, targets |-> targets, from |-> from, to |-> to]
MCListings ==
    {Listing(offset, limit, {}, dates[1], dates[2]) :
        offset \in 0..1, limit \in {1, 3}, dates \in {<<0, 0>>, <<2, 3>>}}
    \cup {Listing(offset, 0, {n}, 0, 0) : offset \in 1..2, n \in Nodes}
    \cup {Listing(0, 0, {}, 4, 3)}

\* The nodes are interchangeable.
MCSymmetry == Permutations(Nodes)
=============================================================================
