---------------------------- MODULE MC_Inventory ----------------------------
(* Small instances of Inventory: one node ID that connects from two           *)
(* addresses, such as a node whose address changed, connections that cannot   *)
(* be told whose they are, and two requests at a time.                        *)
EXTENDS Inventory, TLC

CONSTANTS id1, address1, address2, key1, c1, c2

Identity == INSTANCE NodeIdentity
Addresses == {address1, address2}
MTLS == TRUE

Connections ==
    [ids : {<<id1>>, <<id1, id1>>, <<>>}, address : Addresses, key : {key1, None}]

MCIds        == {id1}
MCIdentities == {Identity!Signature(c, MTLS) :
                    c \in {d \in Connections : Identity!HasSignature(d, MTLS)}}
MCIdOf       == [nd \in MCIdentities |-> nd.id]
Matched(requests) ==
    {{nd \in MCIdentities : Identity!Matches(nd, r)} : r \in requests}
\* By ID alone, and by ID and address.
ByID         == {Identity!AcceptCommand(id1, None, None),
                 Identity!RejectCommand(id1), Identity!RemoveCommand(id1)}
ByAddress    == {Identity!AcceptCommand(id1, a, None) : a \in Addresses}
MCIdQueries  == Matched(ByID)
MCQueries    == Matched(ByID \cup ByAddress)
MCCalls      == {c1, c2}

\* Requests are interchangeable, and so are the two addresses.
MCSymmetry == Permutations(Calls) \cup Permutations(Addresses)
=============================================================================
