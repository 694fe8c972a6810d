------------------------------ MODULE Inventory ------------------------------
(***************************************************************************)
(* The manager's inventory: which node identities are accepted, candidates *)
(* or rejected, in memory and in the registry file.                        *)
(*                                                                         *)
(* Every method of inventory.Nodes is one critical section.  The calls     *)
(* that use them are not: Handshake, AcceptNode, RejectNode and RemoveNode *)
(* read the lists in one section and act on what they read in later ones,  *)
(* and any number of them run at once.  An action is one section.          *)
(*                                                                         *)
(* The candidates slice never holds an identity twice (AddCandidate looks  *)
(* first), so it is a set; Reject appends without looking, so the rejected *)
(* slice is a count of copies.  Order within a slice is not modelled.      *)
(* A save may fail, and the manager may stop at any point and start again  *)
(* from the file.                                                          *)
(***************************************************************************)
EXTENDS Naturals

CONSTANTS
    Ids,            \* node IDs
    Identities,     \* ID, address and certificate of a node (see NodeIdentity)
    IdOf,           \* the ID of an identity
    Queries,        \* what a request may match: sets of identities
    Calls,          \* slots for concurrent requests
    None,
    MaxCopies,      \* bound on the copies of an identity in the rejected list
    TornWrites      \* whether os.WriteFile can stop after truncating the file

ASSUME IdsAssumption ==
    /\ IdOf \in [Identities -> Ids]
    /\ Queries \subseteq SUBSET Identities
    /\ None \notin Identities
ASSUME BoundAssumption == MaxCopies \in Nat /\ TornWrites \in BOOLEAN

VARIABLES
    accepted,       \* [Ids]: registry.Accepted
    candidates,     \* registry.candidates, not saved
    rejected,       \* [Identities]: copies in registry.Rejected
    autoAccept,     \* ServerConfig.AutoAccept of this run of the manager
    disk,           \* what the registry file holds
    unsaved,        \* the last save failed
    banned,         \* identities RejectNode reported as rejected, and that no
                    \* AcceptNode or RemoveNode dealt with since
    calls           \* [Calls]: requests under way

lists == <<accepted, candidates, rejected>>
file  == <<disk, unsaved>>
vars  == <<lists, autoAccept, file, banned, calls>>

-----------------------------------------------------------------------------
(* Types *)

NoneAccepted == [id \in Ids |-> None]
NoCopies     == [nd \in Identities |-> 0]

Image == [accepted : [Ids -> Identities \cup {None}], rejected : [Identities -> Nat]]
EmptyFile == [accepted |-> NoneAccepted, rejected |-> NoCopies]

\* nd: the identity a request is busy with; todo: what its reads matched, with
\* copies, and it has not handled yet.
IdleCall == [at |-> "idle", nd |-> None, query |-> {}, todo |-> NoCopies]

Steps == {"idle", "handshakeAdd", "handshakeRegister", "acceptRead", "acceptRegister",
          "rejectRead", "reject", "rejectShutdown", "rejectSave",
          "removeRead", "removeRead2", "remove"}
BusySteps == {"handshakeAdd", "handshakeRegister", "acceptRegister",
              "rejectShutdown", "rejectSave"}

Call == {call \in [at : Steps, nd : Identities \cup {None},
                   query : Queries \cup {{}}, todo : [Identities -> Nat]] :
            call.at \in BusySteps => call.nd \in Identities}

TypeOK ==
    /\ accepted \in [Ids -> Identities \cup {None}]
    /\ candidates \subseteq Identities
    /\ rejected \in [Identities -> Nat]
    /\ autoAccept \in BOOLEAN
    /\ disk \in Image
    /\ unsaved \in BOOLEAN
    /\ banned \subseteq Identities
    /\ calls \in [Calls -> Call]

Init ==
    /\ accepted = NoneAccepted
    /\ candidates = {}
    /\ rejected = NoCopies
    /\ autoAccept \in BOOLEAN
    /\ disk = EmptyFile
    /\ unsaved = FALSE
    /\ banned = {}
    /\ calls = [c \in Calls |-> IdleCall]

-----------------------------------------------------------------------------
(* The methods of inventory.Nodes *)

IsRegistered(nd) == accepted[IdOf[nd]] = nd
IsRejected(nd)   == rejected[nd] > 0

\* A new identity is a candidate unless it is one already or was rejected.
AddCandidateAnyway(nd) == candidates' = candidates \cup {nd}  \* fault: no isRejected
AddCandidate(nd) ==
    candidates' = IF IsRejected(nd) THEN candidates ELSE candidates \cup {nd}

\* saveRegistryFile: the file holds the new lists, or is as before, or, when the
\* write stopped after the truncation, holds nothing.
SaveOutcomes == IF TornWrites THEN {"saved", "failed", "torn"} ELSE {"saved", "failed"}

Save(outcome, before) ==
    /\ disk' = CASE outcome = "saved"  -> [accepted |-> accepted', rejected |-> rejected']
                 [] outcome = "failed" -> before
                 [] outcome = "torn"   -> EmptyFile
    /\ unsaved' = (outcome # "saved")

\* Register refuses an ID that is taken: same identity, or a potential rogue.
IdIsFreeForRogue(nd) == ~IsRegistered(nd)          \* fault: only the same identity
IdIsFree(nd) == accepted[IdOf[nd]] = None

CanRegister(nd, allowRejected) ==
    /\ IdIsFree(nd)
    /\ nd \in candidates \/ (IsRejected(nd) /\ allowRejected)
    /\ ~(nd \in candidates /\ IsRejected(nd))

\* One copy leaves the rejected list, if there is one.
CopiesAfterBlind(nd) == [rejected EXCEPT ![nd] = @ - 1] \* fault: deletes at index -1
CopiesAfter(nd) == IF IsRejected(nd) THEN [rejected EXCEPT ![nd] = @ - 1] ELSE rejected

\* Register succeeds; a failed save is only logged.
Register(nd) ==
    /\ accepted' = [accepted EXCEPT ![IdOf[nd]] = nd]
    /\ candidates' = candidates \ {nd}
    /\ rejected' = CopiesAfter(nd)
    /\ \E outcome \in SaveOutcomes : Save(outcome, disk)

Unregistered(nd) ==
    IF IsRegistered(nd) THEN [accepted EXCEPT ![IdOf[nd]] = None] ELSE accepted

\* unregister saves too, so this is what the file holds in the middle of Reject
\* and Remove.
Midway(nd) ==
    IF IsRegistered(nd) THEN [accepted |-> Unregistered(nd), rejected |-> rejected]
                        ELSE disk

\* When that first save fails, Reject and Remove give up: the identity is not
\* accepted any more, and nothing else has changed.
StopsMidway(nd) ==
    /\ IsRegistered(nd)
    /\ accepted' = Unregistered(nd)
    /\ UNCHANGED <<candidates, rejected>>
    /\ \E outcome \in SaveOutcomes \ {"saved"} : Save(outcome, disk)

Reject(nd, outcome) ==
    /\ rejected[nd] < MaxCopies
    /\ accepted' = Unregistered(nd)
    /\ candidates' = candidates \ {nd}
    /\ rejected' = [rejected EXCEPT ![nd] = @ + 1]
    /\ Save(outcome, Midway(nd))

\* Remove takes one copy out of the rejected list.
RemoveUnsaved(nd, outcome) ==                      \* fault: only unregister saves
    /\ accepted' = Unregistered(nd)
    /\ candidates' = candidates \ {nd}
    /\ rejected' = CopiesAfter(nd)
    /\ disk' = Midway(nd) /\ unsaved' = (unsaved /\ ~IsRegistered(nd))
Remove(nd, outcome) ==
    /\ accepted' = Unregistered(nd)
    /\ candidates' = candidates \ {nd}
    /\ rejected' = CopiesAfter(nd)
    /\ Save(outcome, Midway(nd))

-----------------------------------------------------------------------------
(* Handshake *)

At(c, step) == calls[c].at = step
Becomes(c, call) == calls' = [calls EXCEPT ![c] = call]
Goes(c, step) == Becomes(c, [calls[c] EXCEPT !.at = step])
Returns(c) == Becomes(c, IdleCall)
\* The loop of RejectNode goes on, whatever became of the identity.
Continues(c) == Becomes(c, [calls[c] EXCEPT !.at = "reject", !.nd = None])

\* Any identity may ask; one that is registered gets its answer at once.
Handshake(c, nd) ==
    /\ At(c, "idle")
    /\ ~IsRegistered(nd)
    /\ Becomes(c, [IdleCall EXCEPT !.at = "handshakeAdd", !.nd = nd])
    /\ UNCHANGED <<lists, autoAccept, file, banned>>

\* Whether the identity was added makes no difference to what follows.
HandshakeAdd(c) ==
    /\ At(c, "handshakeAdd")
    /\ AddCandidate(calls[c].nd)
    /\ IF autoAccept THEN Goes(c, "handshakeRegister") ELSE Returns(c)
    /\ UNCHANGED <<accepted, rejected, autoAccept, file, banned>>

HandshakeAllowsRejected == TRUE                    \* fault: Register(nd, true)
HandshakeAllows == FALSE

HandshakeRegister(c) ==
    /\ At(c, "handshakeRegister")
    /\ IF CanRegister(calls[c].nd, HandshakeAllows)
       THEN Register(calls[c].nd) ELSE UNCHANGED <<lists, file>>
    /\ Returns(c)
    /\ UNCHANGED <<autoAccept, banned>>

-----------------------------------------------------------------------------
(* AcceptNode: two reads, then Register *)

MatchingCandidates(query) == [nd \in Identities |-> IF nd \in query \cap candidates
                                                    THEN 1 ELSE 0]
MatchingRejected(query) == [nd \in Identities |-> IF nd \in query THEN rejected[nd] ELSE 0]
MatchingAccepted(query) == [nd \in Identities |-> IF nd \in query /\ IsRegistered(nd)
                                                  THEN 1 ELSE 0]
With(todo, matching) == [nd \in Identities |-> todo[nd] + matching[nd]]

\* A request starts with one read of a list and goes on to its next step.
Starts(c, step, query, matching) ==
    /\ At(c, "idle")
    /\ Becomes(c, [IdleCall EXCEPT !.at = step, !.query = query, !.todo = matching])
    /\ UNCHANGED <<lists, autoAccept, file, banned>>

AcceptNode(c, query) == Starts(c, "acceptRead", query, MatchingCandidates(query))

OnlyMatch(todo, nd) == todo[nd] = 1 /\ \A other \in Identities \ {nd} : todo[other] = 0

\* No match and "too many nodes matching" are both errors.
AcceptRead(c) ==
    LET todo == With(calls[c].todo, MatchingRejected(calls[c].query)) IN
    /\ At(c, "acceptRead")
    /\ \/ \E nd \in Identities :
             /\ OnlyMatch(todo, nd)
             /\ Becomes(c, [IdleCall EXCEPT !.at = "acceptRegister", !.nd = nd])
       \/ /\ \A nd \in Identities : ~OnlyMatch(todo, nd)
          /\ Returns(c)
    /\ UNCHANGED <<lists, autoAccept, file, banned>>

AcceptRegister(c) ==
    LET nd == calls[c].nd IN
    /\ At(c, "acceptRegister")
    /\ IF CanRegister(nd, TRUE)
       THEN Register(nd) /\ banned' = banned \ {nd}
       ELSE UNCHANGED <<lists, file, banned>>
    /\ Returns(c)
    /\ UNCHANGED autoAccept

-----------------------------------------------------------------------------
(* RejectNode and RemoveNode: reads, then a loop over what they matched *)

RejectNode(c, query) == Starts(c, "rejectRead", query, MatchingCandidates(query))
RemoveNode(c, query) == Starts(c, "removeRead", query, MatchingAccepted(query))

ReadsOn(c, step, next, matching) ==
    /\ At(c, step)
    /\ Becomes(c, [calls[c] EXCEPT !.at = next, !.todo = With(@, matching)])
    /\ UNCHANGED <<lists, autoAccept, file, banned>>

\* The last read, before the loop over what was matched.
ReadsLast(c, step, loop, matching) ==
    /\ At(c, step)
    /\ Becomes(c, [IdleCall EXCEPT !.at = loop, !.todo = With(calls[c].todo, matching)])
    /\ UNCHANGED <<lists, autoAccept, file, banned>>

RejectRead(c) == ReadsLast(c, "rejectRead", "reject", MatchingAccepted(calls[c].query))
RemoveRead(c) ==
    \/ ReadsOn(c, "removeRead", "removeRead2", MatchingCandidates(calls[c].query))
    \/ ReadsLast(c, "removeRead2", "remove", MatchingRejected(calls[c].query))

\* The loop is over, or nothing matched.
LoopEnds(c) ==
    /\ At(c, "reject") \/ At(c, "remove")
    /\ calls[c].todo = NoCopies
    /\ Returns(c)
    /\ UNCHANGED <<lists, autoAccept, file, banned>>

\* RejectNode shuts down the session of a registered identity first.
RejectNext(c, nd) ==
    /\ At(c, "reject") /\ calls[c].todo[nd] > 0
    /\ Becomes(c, [calls[c] EXCEPT
          !.at = IF IsRegistered(nd) THEN "rejectShutdown" ELSE "rejectSave",
          !.nd = nd, !.todo[nd] = @ - 1])
    /\ UNCHANGED <<lists, autoAccept, file, banned>>

\* RequestShutdown (see NodeSession) may fail, and the loop then leaves nd alone.
RejectShutdown(c) ==
    /\ At(c, "rejectShutdown")
    /\ Goes(c, "rejectSave") \/ Continues(c)
    /\ UNCHANGED <<lists, autoAccept, file, banned>>

\* The identity is reported as rejected when everything was saved.
RejectSave(c) ==
    LET nd == calls[c].nd IN
    /\ At(c, "rejectSave")
    /\ \/ /\ \E outcome \in SaveOutcomes :
                /\ Reject(nd, outcome)
                /\ banned' = IF outcome = "saved" THEN banned \cup {nd} ELSE banned
       \/ StopsMidway(nd) /\ UNCHANGED banned
    /\ Continues(c)
    /\ UNCHANGED autoAccept

\* RemoveNode goes on whether or not there was a session to shut down.
RemoveNext(c, nd) ==
    /\ At(c, "remove") /\ calls[c].todo[nd] > 0
    /\ StopsMidway(nd) \/ \E outcome \in SaveOutcomes : Remove(nd, outcome)
    /\ banned' = banned \ {nd}
    /\ Becomes(c, [calls[c] EXCEPT !.todo[nd] = @ - 1])
    /\ UNCHANGED autoAccept

-----------------------------------------------------------------------------
(* The manager stops and starts again *)

\* What the file may hold when the manager stops inside a save.
Interrupted ==
    {Midway(nd) : nd \in {x \in Identities : \E c \in Calls :
                             \/ At(c, "rejectSave") /\ calls[c].nd = x
                             \/ At(c, "remove") /\ calls[c].todo[x] > 0}}
    \cup (IF TornWrites /\ \E c \in Calls : calls[c].at \in
                {"handshakeRegister", "acceptRegister", "rejectSave", "remove"}
          THEN {EmptyFile} ELSE {})

\* LoadRegistry: candidates are not in the file, and a file that cannot be read
\* leaves the lists empty.
Restart ==
    \E image \in {disk} \cup Interrupted :
        /\ accepted' = image.accepted
        /\ rejected' = image.rejected
        /\ disk' = image
        /\ candidates' = {}
        /\ autoAccept' \in BOOLEAN
        /\ unsaved' = FALSE
        /\ calls' = [c \in Calls |-> IdleCall]
        /\ UNCHANGED banned

-----------------------------------------------------------------------------
HandshakeStep(c) ==
    \/ \E nd \in Identities : Handshake(c, nd)
    \/ HandshakeAdd(c) \/ HandshakeRegister(c)

AcceptStep(c) ==
    (\E query \in Queries : AcceptNode(c, query)) \/ AcceptRead(c) \/ AcceptRegister(c)

RejectStep(c) ==
    \/ \E query \in Queries : RejectNode(c, query)
    \/ RejectRead(c) \/ RejectShutdown(c) \/ RejectSave(c)
    \/ \E nd \in Identities : RejectNext(c, nd)

RemoveStep(c) ==
    \/ \E query \in Queries : RemoveNode(c, query)
    \/ RemoveRead(c)
    \/ \E nd \in Identities : RemoveNext(c, nd)

CallStep(c) ==
    HandshakeStep(c) \/ AcceptStep(c) \/ RejectStep(c) \/ RemoveStep(c) \/ LoopEnds(c)

Next == (\E c \in Calls : CallStep(c)) \/ Restart

Spec == Init /\ [][Next]_vars

-----------------------------------------------------------------------------
(* Safety *)

\* "in theory it should not happen": Register's check for an identity that is both
\* candidate and rejected is never needed, whatever requests overlap.
CandidateNotRejected == \A nd \in candidates : ~IsRejected(nd)

\* An identity RejectNode reported as rejected is not registered again, by any
\* handshake, auto-accepted or not, overlapping request or restart, until an
\* operator accepts or removes it.
RejectionHolds == \A nd \in banned : ~IsRegistered(nd)

\* Unless a save failed, the file holds what the lists hold: what an operator was
\* told survives a restart.
FileIsCurrent ==
    ~unsaved => disk.accepted = accepted /\ disk.rejected = rejected

\* A node with the ID of an accepted node and another address or certificate (a
\* potential rogue) never takes its place: the place is empty in between.
NoIdentitySwap ==
    [][\A id \in Ids :
          accepted[id] # accepted'[id] =>
             accepted[id] = None \/ accepted'[id] = None \/ Restart]_vars
=============================================================================
