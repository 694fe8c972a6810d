------------------------------ MODULE Targeting ------------------------------
(***************************************************************************)
(* How a request's target is turned into nodes: Dispatcher.TargetedNodes   *)
(* and the filter language of its QUERY mode.  The operators are pure;     *)
(* their parameters are the state the code reads under the dispatcher's    *)
(* read lock:                                                              *)
(*                                                                         *)
(*   known   dispatchableNodes: a function from the known nodes to         *)
(*           whether each is ready                                         *)
(*   specs   the inventory's specs: for each node a function from paths    *)
(*           to values, the leaves, or to Branch, what is not one          *)
(*                                                                         *)
(* A value to compare with is what it does: [ok, matches] says whether it  *)
(* compiles, for a glob or a regular expression, and which names or values *)
(* it matches; a list matches the names it is made of.                     *)
(***************************************************************************)
EXTENDS Sequences, FiniteSets, SequencesExt

CONSTANT Branch     \* a spec that is a map or a list

\* What a search returns: an error, or the nodes it found with their readiness.
Found(nodes) == [err |-> FALSE, nodes |-> nodes]
NoNodes == [n \in {} |-> FALSE]
Failed == [err |-> TRUE, nodes |-> NoNodes]
FoundSome(nodes) == IF DOMAIN nodes = {} THEN Failed ELSE Found(nodes)

IsReady(known, n) == n \in DOMAIN known /\ known[n]

\* A list names its nodes, those the dispatcher has never seen included.
ListMatching(known, list) ==
    FoundSome([n \in list.matches |-> IsReady(known, n)])

\* Globs and regular expressions choose among the known nodes.
PatternMatching(known, pattern) ==
    IF ~pattern.ok
    THEN Failed
    ELSE FoundSome([n \in DOMAIN known \cap pattern.matches |-> known[n]])

-----------------------------------------------------------------------------
(* The filter language: a query is a sequence of OR groups, a group is a     *)
(* sequence of conditions [field, path, op, value].                          *)

IsSequence(s) == s \in Seq({s[i] : i \in DOMAIN s})
IsQuery(query) == IsSequence(query) /\ \A i \in DOMAIN query : IsSequence(query[i])

IdCondition(known, cond) ==
    CASE cond.op = "==" -> ListMatching(known, cond.value)
      [] cond.op = "=~" -> PatternMatching(known, cond.value)
      [] OTHER -> Failed

HasLeaf(specs, n, path) ==
    /\ n \in DOMAIN specs
    /\ path \in DOMAIN specs[n]
    /\ specs[n][path] # Branch

\* No match is not an error here.  An operator or a pattern is only looked at
\* once some node has the leaf.
SpecsCondition(known, specs, cond) ==
    LET holders == {n \in DOMAIN specs : HasLeaf(specs, n, cond.path)}
        broken == \/ cond.op \notin {"==", "=~"}
                  \/ cond.op = "=~" /\ ~cond.value.ok
    IN  IF broken /\ holders # {}
        THEN Failed
        ELSE Found([n \in {m \in holders : specs[m][cond.path] \in cond.value.matches}
                    |-> IsReady(known, n)])

Condition(known, specs, cond) ==
    CASE cond.op \notin {"==", "=~"} -> Failed
      [] cond.op \in {"==", "=~"} /\ cond.field = "id" -> IdCondition(known, cond)
      [] cond.op \in {"==", "=~"} /\ cond.field = "specs" ->
            SpecsCondition(known, specs, cond)
      [] OTHER -> Failed

\* fault: the last condition decides alone.
AndLastWins(known, specs, group) ==
    LET left[i \in 0..Len(group)] ==
            IF i = 0 THEN Found(known)
            ELSE LET acc == left[i - 1]
                     m == Condition(known, specs, group[i])
                 IN  IF acc.err \/ m.err THEN Failed
                     ELSE Found([n \in DOMAIN known \cap DOMAIN m.nodes |-> known[n]])
    IN  left[Len(group)]

\* Each condition strikes out the candidates it does not match.
AndGroup(known, specs, group) ==
    LET left[i \in 0..Len(group)] ==
            IF i = 0 THEN Found(known)
            ELSE LET acc == left[i - 1]
                     m == Condition(known, specs, group[i])
                 IN  IF acc.err \/ m.err THEN Failed
                     ELSE Found([n \in DOMAIN acc.nodes \cap DOMAIN m.nodes
                                 |-> acc.nodes[n]])
    IN  left[Len(group)]

\* The groups' results are merged; one group's error is the query's.
QueryMatching(known, specs, query) ==
    LET merged[i \in 0..Len(query)] ==
            IF i = 0 THEN Found(NoNodes)
            ELSE LET acc == merged[i - 1]
                     m == AndGroup(known, specs, query[i])
                 IN  IF acc.err \/ m.err THEN Failed
                     ELSE Found([n \in DOMAIN acc.nodes \cup DOMAIN m.nodes
                                 |-> IsReady(known, n)])
        result == merged[Len(query)]
    IN  IF result.err THEN Failed ELSE FoundSome(result.nodes)

TargetedNodes(known, specs, mode, target) ==
    CASE mode = "EXACT" -> Found([n \in {target} |-> IsReady(known, n)])
      [] mode = "LIST" -> ListMatching(known, target)
      [] mode \in {"GLOB", "REGEX"} -> PatternMatching(known, target)
      [] mode = "QUERY" -> QueryMatching(known, specs, target)
      [] OTHER -> Failed

-----------------------------------------------------------------------------
(* What a filter means, independently of how it is evaluated.                *)

Holds(specs, n, cond) ==
    IF cond.field = "id"
    THEN n \in cond.value.matches
    ELSE /\ HasLeaf(specs, n, cond.path)
         /\ specs[n][cond.path] \in cond.value.matches

Satisfies(specs, n, query) ==
    \E i \in DOMAIN query : \A j \in DOMAIN query[i] : Holds(specs, n, query[i][j])
=============================================================================
