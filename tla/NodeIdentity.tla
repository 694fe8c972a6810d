---------------------------- MODULE NodeIdentity ----------------------------
(***************************************************************************)
(* The identity of a node, as the manager reads it from a connection, and  *)
(* the identities an operator's request is about.                          *)
(*                                                                         *)
(* A connection is [ids, address, key]: the values of its node_id          *)
(* metadata, the IP address of the peer, and the public key of its         *)
(* certificate, or None without one.  An identity is [id, address,         *)
(* certificate].                                                           *)
(***************************************************************************)
EXTENDS Sequences

CONSTANT None

\* GetMetadataUniqueKey: the metadata have exactly one node_id.
UniqueKey(values) == Len(values) = 1

\* signatureFromContext.  Without mTLS nothing is known of a certificate.
HasSignature(connection, mTLS) ==
    UniqueKey(connection.ids) /\ (mTLS => connection.key # None)

Signature(connection, mTLS) ==
    [id |-> connection.ids[1], address |-> connection.address,
     certificate |-> IF mTLS THEN connection.key ELSE ""]

-----------------------------------------------------------------------------
(* Requests: [id, address, certificate], where an address or a certificate   *)
(* that is None is not asked for.                                            *)

\* `jack nodes accept`; a flag that is not set is None.
AcceptCommand(id, address, certificate) ==
    [id |-> id, address |-> address, certificate |-> certificate]

\* `jack nodes reject` and `jack nodes remove` name the ID only.
RejectCommand(id) == [id |-> id, address |-> None, certificate |-> None]
RemoveCommand(id) == [id |-> id, address |-> None, certificate |-> None]

\* What GetMatchingAccepted, GetMatchingCandidates and GetMatchingRejected look for.
Matches(identity, request) ==
    /\ identity.id = request.id
    /\ request.address \in {None, identity.address}
    /\ request.certificate \in {None, identity.certificate}
=============================================================================
