--------------------------- MODULE MC_NodeSession ---------------------------
(* Small instances of NodeSession. *)
EXTENDS NodeSession, TLC

CONSTANTS n1, n2, s1, s2, s3, a1

MCNodes   == {n1, n2}
MCOneNode == {n1}
MCStreams == {s1, s2, s3}
MCTwoStreams == {s1, s2}
MCAdmins  == {a1}

\* Streams, and nodes, are interchangeable: no action or property names one.
MCSymmetry == Permutations(Streams) \cup Permutations(Nodes)
=============================================================================
