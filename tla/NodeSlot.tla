------------------------------- MODULE NodeSlot -------------------------------
(***************************************************************************)
(* What the dispatcher and the ExecTask handlers promise together: a       *)
(* node's place is taken by one stream at a time, it is shut before it is  *)
(* given up, and it is given up before another stream takes it.            *)
(***************************************************************************)
CONSTANTS Nodes, Streams

VARIABLES
    holders,    \* [Nodes]: the streams that hold the node's place
    open        \* nodes whose place accepts tasks

Init ==
    /\ holders = [n \in Nodes |-> {}]
    /\ open = {}

Take(n, s) ==
    /\ holders[n] = {}
    /\ \A m \in Nodes : s \notin holders[m]
    /\ holders' = [holders EXCEPT ![n] = {s}]
    /\ open' = open \cup {n}

Shut(n) ==
    /\ n \in open
    /\ open' = open \ {n}
    /\ UNCHANGED holders

Free(n) ==
    /\ holders[n] # {} /\ n \notin open
    /\ holders' = [holders EXCEPT ![n] = {}]
    /\ UNCHANGED open

Next == \E n \in Nodes : (\E s \in Streams : Take(n, s)) \/ Shut(n) \/ Free(n)

Spec == Init /\ [][Next]_<<holders, open>>
=============================================================================
