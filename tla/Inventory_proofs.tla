-------------------------- MODULE Inventory_proofs --------------------------
(***************************************************************************)
(* Proofs about Inventory, for every set of identities, queries and        *)
(* concurrent requests: type correctness, "in theory it should not         *)
(* happen", and, when a save is not torn, that a rejection holds over      *)
(* every interleaving, failed save and restart.                            *)
(***************************************************************************)
EXTENDS Inventory, TLAPS

USE IdsAssumption, BoundAssumption

-----------------------------------------------------------------------------
(* Type correctness *)

ListsType ==
    /\ accepted \in [Ids -> Identities \cup {None}]
    /\ candidates \subseteq Identities
    /\ rejected \in [Identities -> Nat]

FileType == disk \in Image /\ unsaved \in BOOLEAN

\* What a step that leaves the requests aside has to keep.
CallsType == calls \in [Calls -> Call]

\* A save leaves an image of the lists, the previous image, or an empty file.
LEMMA SaveType ==
    ASSUME NEW outcome \in SaveOutcomes, NEW before \in Image, ListsType',
           Save(outcome, before)
    PROVE  FileType'
<1>1. EmptyFile \in Image
  BY DEF EmptyFile, Image, NoneAccepted, NoCopies
<1>2. [accepted |-> accepted', rejected |-> rejected'] \in Image
  BY DEF ListsType, Image
<1>q. QED
  BY <1>1, <1>2 DEF Save, SaveOutcomes, FileType

\* The image between the two saves of Reject and Remove is well-formed.
LEMMA MidwayType ==
    ASSUME TypeOK, NEW nd \in Identities
    PROVE  Midway(nd) \in Image /\ Unregistered(nd) \in [Ids -> Identities \cup {None}]
BY DEF Midway, Unregistered, TypeOK, Image

\* slices.Delete of a copy that is there leaves a number of copies.
LEMMA CopiesType ==
    ASSUME TypeOK, NEW nd \in Identities
    PROVE  CopiesAfter(nd) \in [Identities -> Nat]
BY DEF CopiesAfter, IsRejected, TypeOK

\* The methods of inventory.Nodes keep the lists and the file well-formed.
LEMMA MethodType ==
    ASSUME TypeOK, NEW nd \in Identities,
           \/ Register(nd) \/ StopsMidway(nd)
           \/ \E outcome \in SaveOutcomes : Reject(nd, outcome) \/ Remove(nd, outcome)
    PROVE  ListsType' /\ FileType'
<1>1. CASE Register(nd)
  <2>1. ListsType'
    BY <1>1, CopiesType DEF Register, ListsType, TypeOK
  <2>2. disk \in Image
    BY DEF TypeOK
  <2>q. QED
    BY <1>1, <2>1, <2>2, SaveType DEF Register
<1>2. CASE StopsMidway(nd)
  <2>1. ListsType'
    BY <1>2, MidwayType DEF StopsMidway, ListsType, TypeOK
  <2>2. disk \in Image
    BY DEF TypeOK
  <2>q. QED
    BY <1>2, <2>1, <2>2, SaveType DEF StopsMidway
<1>3. ASSUME NEW outcome \in SaveOutcomes, Reject(nd, outcome)
      PROVE  ListsType' /\ FileType'
  <2>1. [rejected EXCEPT ![nd] = @ + 1] \in [Identities -> Nat]
    BY DEF TypeOK
  <2>2. ListsType'
    BY <1>3, <2>1, MidwayType DEF Reject, ListsType, TypeOK
  <2>q. QED
    BY <1>3, <2>2, MidwayType, SaveType DEF Reject
<1>4. ASSUME NEW outcome \in SaveOutcomes, Remove(nd, outcome)
      PROVE  ListsType' /\ FileType'
  <2>1. ListsType'
    BY <1>4, MidwayType, CopiesType DEF Remove, ListsType, TypeOK
  <2>q. QED
    BY <1>4, <2>1, MidwayType, SaveType DEF Remove
<1>q. QED
  BY <1>1, <1>2, <1>3, <1>4

\* A request that goes on as a well-formed record keeps all of them well-formed.
LEMMA BecomesType ==
    ASSUME CallsType, NEW c \in Calls, NEW call \in Call, Becomes(c, call)
    PROVE  CallsType'
BY DEF CallsType, Becomes

\* The next step of a request whose identity is known, or that needs none.
LEMMA GoesType ==
    ASSUME CallsType, NEW c \in Calls, NEW step \in Steps, Goes(c, step),
           step \in BusySteps => calls[c].nd \in Identities
    PROVE  CallsType'
<1>1. [calls[c] EXCEPT !.at = step] \in Call
  BY DEF CallsType, Call
<1>q. QED
  BY <1>1, BecomesType DEF Goes

\* A request that is over.
LEMMA ReturnsType ==
    ASSUME CallsType, NEW c \in Calls, Returns(c)
    PROVE  CallsType'
<1>1. IdleCall \in Call
  BY DEF IdleCall, Call, NoCopies, Steps, BusySteps
<1>q. QED
  BY <1>1, BecomesType DEF Returns

\* What a read matches is a number of copies for each identity.
LEMMA MatchingType ==
    ASSUME TypeOK, NEW query, NEW c \in Calls
    PROVE  /\ MatchingCandidates(query) \in [Identities -> Nat]
           /\ MatchingRejected(query) \in [Identities -> Nat]
           /\ MatchingAccepted(query) \in [Identities -> Nat]
<1>1. rejected \in [Identities -> Nat]
  BY DEF TypeOK
<1>q. QED
  BY <1>1 DEF MatchingCandidates, MatchingRejected, MatchingAccepted

\* The first read of a request keeps the types.
LEMMA StartsType ==
    ASSUME TypeOK, NEW c \in Calls, NEW step \in Steps \ BusySteps,
           NEW query \in Queries, NEW matching \in [Identities -> Nat],
           Starts(c, step, query, matching)
    PROVE  TypeOK'
<1>1. [IdleCall EXCEPT !.at = step, !.query = query, !.todo = matching] \in Call
  BY DEF IdleCall, Call
<1>2. CallsType'
  BY <1>1, BecomesType DEF Starts, CallsType, TypeOK
<1>q. QED
  BY <1>2 DEF Starts, CallsType, TypeOK, lists, file

\* So do the later ones.
LEMMA ReadsOnType ==
    ASSUME TypeOK, NEW c \in Calls, NEW step, NEW next \in Steps \ BusySteps,
           NEW matching \in [Identities -> Nat], ReadsOn(c, step, next, matching)
    PROVE  TypeOK'
<1>1. calls[c] \in Call
  BY DEF TypeOK
<1>2. With(calls[c].todo, matching) \in [Identities -> Nat]
  BY <1>1 DEF With, Call
<1>3. [calls[c] EXCEPT !.at = next, !.todo = With(@, matching)] \in Call
  BY <1>1, <1>2 DEF Call
<1>4. CallsType'
  BY <1>3, BecomesType DEF ReadsOn, CallsType, TypeOK
<1>q. QED
  BY <1>4 DEF ReadsOn, CallsType, TypeOK, lists, file

\* And the last one, after which the loop starts.
LEMMA ReadsLastType ==
    ASSUME TypeOK, NEW c \in Calls, NEW step, NEW loop \in Steps \ BusySteps,
           NEW matching \in [Identities -> Nat], ReadsLast(c, step, loop, matching)
    PROVE  TypeOK'
<1>1. calls[c] \in Call
  BY DEF TypeOK
<1>2. With(calls[c].todo, matching) \in [Identities -> Nat]
  BY <1>1 DEF With, Call
<1>3. [IdleCall EXCEPT !.at = loop, !.todo = With(calls[c].todo, matching)] \in Call
  BY <1>2 DEF IdleCall, Call
<1>4. CallsType'
  BY <1>3, BecomesType DEF ReadsLast, CallsType, TypeOK
<1>q. QED
  BY <1>4 DEF ReadsLast, CallsType, TypeOK, lists, file

\* The loop of RejectNode goes on with what is left.
LEMMA ContinuesType ==
    ASSUME CallsType, NEW c \in Calls, Continues(c)
    PROVE  CallsType'
<1>1. "reject" \in Steps \ BusySteps
  BY DEF Steps, BusySteps
<1>2. calls[c] \in Call
  BY DEF CallsType
<1>3. [calls[c] EXCEPT !.at = "reject", !.nd = None] \in Call
  BY <1>1, <1>2 DEF Call
<1>q. QED
  BY <1>3, BecomesType DEF Continues

-----------------------------------------------------------------------------
(* Every kind of request keeps the types *)

\* A handshake: the lists change by AddCandidate and Register only.
LEMMA HandshakeType ==
    ASSUME TypeOK, NEW c \in Calls, HandshakeStep(c)
    PROVE  TypeOK'
<1>0. calls[c] \in Call /\ CallsType
  BY DEF TypeOK, CallsType
<1>1. ASSUME NEW nd \in Identities, Handshake(c, nd)
      PROVE  TypeOK'
  <2>1. [IdleCall EXCEPT !.at = "handshakeAdd", !.nd = nd] \in Call
    BY DEF IdleCall, NoCopies, Call, Steps, BusySteps
  <2>2. CallsType'
    BY <1>0, <1>1, <2>1, BecomesType DEF Handshake
  <2>q. QED
    BY <1>1, <2>2 DEF Handshake, CallsType, TypeOK, lists, file
<1>2. CASE HandshakeAdd(c)
  <2>1. calls[c].nd \in Identities
    BY <1>0, <1>2 DEF HandshakeAdd, At, Call, BusySteps
  <2>2. CallsType'
    BY <1>0, <1>2, <2>1, GoesType, ReturnsType DEF HandshakeAdd, Steps
  <2>q. QED
    BY <1>2, <2>1, <2>2 DEF HandshakeAdd, AddCandidate, CallsType, TypeOK, file
<1>3. CASE HandshakeRegister(c)
  <2>1. calls[c].nd \in Identities
    BY <1>0, <1>3 DEF HandshakeRegister, At, Call, BusySteps
  <2>2. CallsType'
    BY <1>0, <1>3, ReturnsType DEF HandshakeRegister
  <2>3. ListsType' /\ FileType'
    BY <1>3, <2>1, MethodType
       DEF HandshakeRegister, TypeOK, ListsType, FileType, lists, file
  <2>q. QED
    BY <1>3, <2>2, <2>3
       DEF HandshakeRegister, CallsType, ListsType, FileType, TypeOK
<1>q. QED
  BY <1>1, <1>2, <1>3 DEF HandshakeStep

\* AcceptNode: the lists change by Register only.
LEMMA AcceptType ==
    ASSUME TypeOK, NEW c \in Calls, AcceptStep(c)
    PROVE  TypeOK'
<1>0. calls[c] \in Call /\ CallsType
  BY DEF TypeOK, CallsType
<1>1. ASSUME NEW query \in Queries, AcceptNode(c, query)
      PROVE  TypeOK'
  <2>1. "acceptRead" \in Steps \ BusySteps
    BY DEF Steps, BusySteps
  <2>q. QED
    BY <1>1, <2>1, MatchingType, StartsType DEF AcceptNode
<1>2. CASE AcceptRead(c)
  <2>1. ASSUME NEW nd \in Identities
        PROVE  [IdleCall EXCEPT !.at = "acceptRegister", !.nd = nd] \in Call
    BY DEF IdleCall, NoCopies, Call, Steps, BusySteps
  <2>2. CallsType'
    BY <1>0, <1>2, <2>1, BecomesType, ReturnsType DEF AcceptRead
  <2>q. QED
    BY <1>2, <2>2 DEF AcceptRead, CallsType, TypeOK, lists, file
<1>3. CASE AcceptRegister(c)
  <2>1. calls[c].nd \in Identities
    BY <1>0, <1>3 DEF AcceptRegister, At, Call, BusySteps
  <2>2. CallsType'
    BY <1>0, <1>3, ReturnsType DEF AcceptRegister
  <2>3. ListsType' /\ FileType'
    BY <1>3, <2>1, MethodType
       DEF AcceptRegister, TypeOK, ListsType, FileType, lists, file
  <2>4. banned' \subseteq Identities
    BY <1>3 DEF AcceptRegister, TypeOK
  <2>q. QED
    BY <1>3, <2>2, <2>3, <2>4
       DEF AcceptRegister, CallsType, ListsType, FileType, TypeOK
<1>q. QED
  BY <1>1, <1>2, <1>3 DEF AcceptStep

\* RejectNode: the lists change by Reject, or by the unregister it starts with.
LEMMA RejectType ==
    ASSUME TypeOK, NEW c \in Calls, RejectStep(c)
    PROVE  TypeOK'
<1>0. calls[c] \in Call /\ CallsType
  BY DEF TypeOK, CallsType
<1>s. {"rejectRead", "reject"} \subseteq Steps \ BusySteps
  BY DEF Steps, BusySteps
<1>1. ASSUME NEW query \in Queries, RejectNode(c, query)
      PROVE  TypeOK'
  BY <1>1, <1>s, MatchingType, StartsType DEF RejectNode
<1>2. CASE RejectRead(c)
  BY <1>2, <1>s, MatchingType, ReadsLastType DEF RejectRead
<1>3. CASE RejectShutdown(c)
  <2>1. calls[c].nd \in Identities
    BY <1>0, <1>3 DEF RejectShutdown, At, Call, BusySteps
  <2>2. CallsType'
    BY <1>0, <1>3, <2>1, GoesType, ContinuesType DEF RejectShutdown, Steps
  <2>q. QED
    BY <1>3, <2>2 DEF RejectShutdown, CallsType, TypeOK, lists, file
<1>4. CASE RejectSave(c)
  <2>1. calls[c].nd \in Identities
    BY <1>0, <1>4 DEF RejectSave, At, Call, BusySteps
  <2>2. CallsType'
    BY <1>0, <1>4, ContinuesType DEF RejectSave
  <2>3. ListsType' /\ FileType'
    BY <1>4, <2>1, MethodType DEF RejectSave
  <2>4. banned' \subseteq Identities
    BY <1>4, <2>1 DEF RejectSave, TypeOK
  <2>q. QED
    BY <1>4, <2>2, <2>3, <2>4 DEF RejectSave, CallsType, ListsType, FileType, TypeOK
<1>5. ASSUME NEW nd \in Identities, RejectNext(c, nd)
      PROVE  TypeOK'
  <2>1. calls[c].todo \in [Identities -> Nat] /\ calls[c].todo[nd] > 0
    BY <1>0, <1>5 DEF RejectNext, Call
  <2>2. [calls[c].todo EXCEPT ![nd] = @ - 1] \in [Identities -> Nat]
    BY <2>1
  <2> DEFINE step == IF IsRegistered(nd) THEN "rejectShutdown" ELSE "rejectSave"
  <2>3. Becomes(c, [calls[c] EXCEPT !.at = step, !.nd = nd, !.todo[nd] = @ - 1])
    BY <1>5 DEF RejectNext
  <2>4. step \in Steps
    BY DEF Steps
  <2> HIDE DEF step
  <2>5. [calls[c] EXCEPT !.at = step, !.nd = nd, !.todo[nd] = @ - 1] \in Call
    BY <1>0, <2>2, <2>4 DEF Call
  <2>6. CallsType'
    BY <1>0, <2>3, <2>5, BecomesType
  <2>q. QED
    BY <1>5, <2>6 DEF RejectNext, CallsType, TypeOK, lists, file
<1>q. QED
  BY <1>1, <1>2, <1>3, <1>4, <1>5 DEF RejectStep

\* RemoveNode: the lists change by Remove, or by the unregister it starts with.
LEMMA RemoveType ==
    ASSUME TypeOK, NEW c \in Calls, RemoveStep(c)
    PROVE  TypeOK'
<1>0. calls[c] \in Call /\ CallsType
  BY DEF TypeOK, CallsType
<1>s. {"removeRead", "removeRead2", "remove"} \subseteq Steps \ BusySteps
  BY DEF Steps, BusySteps
<1>1. ASSUME NEW query \in Queries, RemoveNode(c, query)
      PROVE  TypeOK'
  BY <1>1, <1>s, MatchingType, StartsType DEF RemoveNode
<1>2. CASE RemoveRead(c)
  BY <1>2, <1>s, MatchingType, ReadsOnType, ReadsLastType DEF RemoveRead
<1>3. ASSUME NEW nd \in Identities, RemoveNext(c, nd)
      PROVE  TypeOK'
  <2>1. calls[c].todo \in [Identities -> Nat] /\ calls[c].todo[nd] > 0
    BY <1>0, <1>3 DEF RemoveNext, Call
  <2>2. [calls[c].todo EXCEPT ![nd] = @ - 1] \in [Identities -> Nat]
    BY <2>1
  <2>3. [calls[c] EXCEPT !.todo[nd] = @ - 1] \in Call
    BY <1>0, <2>2 DEF Call
  <2>4. CallsType'
    BY <1>0, <1>3, <2>3, BecomesType DEF RemoveNext
  <2>5. ListsType' /\ FileType'
    BY <1>3, MethodType DEF RemoveNext
  <2>q. QED
    BY <1>3, <2>4, <2>5 DEF RemoveNext, CallsType, ListsType, FileType, TypeOK
<1>q. QED
  BY <1>1, <1>2, <1>3 DEF RemoveStep

\* A restart reads a well-formed image.
LEMMA RestartType ==
    ASSUME TypeOK, Restart
    PROVE  TypeOK'
<1>1. Interrupted \subseteq Image
  BY MidwayType DEF Interrupted, EmptyFile, NoneAccepted, NoCopies, Image
<1>2. disk \in Image
  BY DEF TypeOK
<1>3. PICK image \in Image :
          /\ accepted' = image.accepted /\ rejected' = image.rejected /\ disk' = image
          /\ candidates' = {} /\ autoAccept' \in BOOLEAN /\ unsaved' = FALSE
          /\ calls' = [c \in Calls |-> IdleCall] /\ banned' = banned
  BY <1>1, <1>2 DEF Restart
<1>4. IdleCall \in Call
  BY DEF IdleCall, Call, NoCopies, Steps, BusySteps
<1>5. image.accepted \in [Ids -> Identities \cup {None}]
      /\ image.rejected \in [Identities -> Nat]
  BY DEF Image
<1>q. QED
  BY <1>3, <1>4, <1>5 DEF TypeOK

\* Lists, file and requests are always well-formed: a rejected list never loses a
\* copy it does not hold, and a request acts on an identity it has read.
THEOREM TypeCorrect == Spec => []TypeOK
<1>1. Init => TypeOK
  <2>1. IdleCall \in Call
    BY DEF IdleCall, Call, NoCopies, Steps, BusySteps
  <2>2. EmptyFile \in Image
    BY DEF EmptyFile, Image, NoneAccepted, NoCopies
  <2>3. Init => calls \in [Calls -> Call]
    BY <2>1 DEF Init
  <2>4. /\ NoneAccepted \in [Ids -> Identities \cup {None}]
        /\ NoCopies \in [Identities -> Nat]
    BY DEF NoneAccepted, NoCopies
  <2>q. QED
    BY <2>2, <2>3, <2>4, Zenon DEF Init, TypeOK
<1>2. TypeOK /\ [Next]_vars => TypeOK'
  <2> SUFFICES ASSUME TypeOK, [Next]_vars PROVE TypeOK'
    OBVIOUS
  <2>1. ASSUME NEW c \in Calls, LoopEnds(c)
        PROVE  TypeOK'
    BY <2>1, ReturnsType DEF LoopEnds, CallsType, TypeOK, lists, file
  <2>2. ASSUME NEW c \in Calls, CallStep(c)
        PROVE  TypeOK'
    BY <2>1, <2>2, HandshakeType, AcceptType, RejectType, RemoveType DEF CallStep
  <2>3. CASE UNCHANGED vars
    BY <2>3 DEF vars, lists, file, TypeOK
  <2>q. QED
    BY <2>2, <2>3, RestartType DEF Next
<1>q. QED
  BY <1>1, <1>2, PTL DEF Spec

-----------------------------------------------------------------------------
(* What a step does to the lists, the file and the bans *)

Quiet == UNCHANGED <<lists, file, banned>>
Adds(nd) == AddCandidate(nd) /\ UNCHANGED <<accepted, rejected, file, banned>>
RegistersCandidate(nd) == CanRegister(nd, FALSE) /\ Register(nd) /\ UNCHANGED banned
Accepts(nd) == CanRegister(nd, TRUE) /\ Register(nd) /\ banned' = banned \ {nd}
Stops(nd) == StopsMidway(nd) /\ banned' \in {banned, banned \ {nd}}
Rejects(nd) == \E outcome \in SaveOutcomes :
    /\ Reject(nd, outcome)
    /\ banned' = IF outcome = "saved" THEN banned \cup {nd} ELSE banned
Removes(nd) == \E outcome \in SaveOutcomes : Remove(nd, outcome) /\ banned' = banned \ {nd}

Changes(nd) ==
    Adds(nd) \/ RegistersCandidate(nd) \/ Accepts(nd) \/ Stops(nd)
    \/ Rejects(nd) \/ Removes(nd)

\* Whatever requests do, they do it by one method of inventory.Nodes at a time.
LEMMA StepEffect ==
    ASSUME TypeOK, [Next]_vars
    PROVE  Quiet \/ (\E nd \in Identities : Changes(nd)) \/ Restart
<1>1. ASSUME NEW c \in Calls, HandshakeStep(c)
      PROVE  Quiet \/ \E nd \in Identities : Changes(nd)
  <2>1. ASSUME NEW nd \in Identities, Handshake(c, nd)
        PROVE  Quiet
    BY <2>1 DEF Handshake, Quiet
  <2>2. calls[c].at \in BusySteps => calls[c].nd \in Identities
    BY DEF TypeOK, Call
  <2>3. CASE HandshakeAdd(c)
    <3>1. calls[c].nd \in Identities
      BY <2>2, <2>3 DEF HandshakeAdd, At, BusySteps
    <3>2. Adds(calls[c].nd)
      BY <2>3 DEF HandshakeAdd, Adds
    <3>q. QED
      BY <3>1, <3>2 DEF Changes
  <2>4. CASE HandshakeRegister(c)
    <3>1. calls[c].nd \in Identities
      BY <2>2, <2>4 DEF HandshakeRegister, At, BusySteps
    <3>2. RegistersCandidate(calls[c].nd) \/ Quiet
      BY <2>4 DEF HandshakeRegister, HandshakeAllows, RegistersCandidate, Quiet
    <3>q. QED
      BY <3>1, <3>2 DEF Changes
  <2>q. QED
    BY <1>1, <2>1, <2>3, <2>4 DEF HandshakeStep
<1>2. ASSUME NEW c \in Calls, AcceptStep(c)
      PROVE  Quiet \/ \E nd \in Identities : Changes(nd)
  <2>1. ASSUME AcceptRead(c) \/ \E query \in Queries : AcceptNode(c, query)
        PROVE  Quiet
    BY <2>1 DEF AcceptRead, AcceptNode, Starts, Quiet
  <2>2. CASE AcceptRegister(c)
    <3>1. calls[c].nd \in Identities
      BY <2>2 DEF AcceptRegister, At, BusySteps, TypeOK, Call
    <3>2. Accepts(calls[c].nd) \/ Quiet
      BY <2>2 DEF AcceptRegister, Accepts, Quiet
    <3>q. QED
      BY <3>1, <3>2 DEF Changes
  <2>q. QED
    BY <1>2, <2>1, <2>2 DEF AcceptStep
<1>3. ASSUME NEW c \in Calls, RejectStep(c)
      PROVE  Quiet \/ \E nd \in Identities : Changes(nd)
  <2>1. ASSUME RejectRead(c) \/ RejectShutdown(c)
               \/ (\E query \in Queries : RejectNode(c, query))
               \/ (\E nd \in Identities : RejectNext(c, nd))
        PROVE  Quiet
    BY <2>1 DEF RejectRead, RejectShutdown, RejectNode, RejectNext, ReadsLast, Starts,
              Quiet
  <2>2. CASE RejectSave(c)
    <3>1. calls[c].nd \in Identities
      BY <2>2 DEF RejectSave, At, BusySteps, TypeOK, Call
    <3>2. Rejects(calls[c].nd) \/ Stops(calls[c].nd)
      BY <2>2 DEF RejectSave, Rejects, Stops
    <3>q. QED
      BY <3>1, <3>2 DEF Changes
  <2>q. QED
    BY <1>3, <2>1, <2>2 DEF RejectStep
<1>4. ASSUME NEW c \in Calls, RemoveStep(c)
      PROVE  Quiet \/ \E nd \in Identities : Changes(nd)
  <2>1. ASSUME RemoveRead(c) \/ (\E query \in Queries : RemoveNode(c, query))
        PROVE  Quiet
    BY <2>1 DEF RemoveRead, RemoveNode, ReadsOn, ReadsLast, Starts, Quiet
  <2>2. ASSUME NEW nd \in Identities, RemoveNext(c, nd)
        PROVE  Changes(nd)
    BY <2>2 DEF RemoveNext, Removes, Stops, Changes
  <2>q. QED
    BY <1>4, <2>1, <2>2 DEF RemoveStep
<1>5. ASSUME NEW c \in Calls, LoopEnds(c)
      PROVE  Quiet
  BY <1>5 DEF LoopEnds, Quiet
<1>6. CASE UNCHANGED vars
  BY <1>6 DEF vars, lists, file, Quiet
<1>q. QED
  BY <1>1, <1>2, <1>3, <1>4, <1>5, <1>6 DEF Next, CallStep

-----------------------------------------------------------------------------
(* Safety *)

\* AddCandidate looks at the rejected list, and every method that adds to it
\* deletes the candidate in the same critical section.
LEMMA CandidateStep ==
    ASSUME TypeOK, CandidateNotRejected, [Next]_vars
    PROVE  CandidateNotRejected'
<1>1. CASE Quiet
  BY <1>1 DEF Quiet, lists, CandidateNotRejected, IsRejected
<1>2. CASE Restart
  BY <1>2 DEF Restart, CandidateNotRejected
<1>3. ASSUME NEW nd \in Identities, Changes(nd)
      PROVE  CandidateNotRejected'
  <2>1. CASE Adds(nd)
    BY <2>1 DEF Adds, AddCandidate, CandidateNotRejected, IsRejected
  <2>2. CASE Stops(nd)
    BY <2>2 DEF Stops, StopsMidway, CandidateNotRejected, IsRejected
  <2>3. CASE RegistersCandidate(nd) \/ Accepts(nd) \/ Removes(nd)
    <3>1. candidates' = candidates \ {nd} /\ rejected' = CopiesAfter(nd)
      BY <2>3 DEF RegistersCandidate, Accepts, Removes, Register, Remove
    <3>q. QED
      BY <3>1 DEF CopiesAfter, CandidateNotRejected, IsRejected, TypeOK
  <2>4. CASE Rejects(nd)
    <3>1. /\ candidates' = candidates \ {nd}
          /\ rejected' = [rejected EXCEPT ![nd] = @ + 1]
      BY <2>4 DEF Rejects, Reject
    <3>q. QED
      BY <3>1 DEF CandidateNotRejected, IsRejected, TypeOK
  <2>q. QED
    BY <1>3, <2>1, <2>2, <2>3, <2>4 DEF Changes
<1>q. QED
  BY <1>1, <1>2, <1>3, StepEffect

\* "in theory it should not happen" (Register): an identity that is candidate and
\* rejected does not happen, whatever requests overlap.
THEOREM NeverBoth == Spec => []CandidateNotRejected
<1>1. Init => CandidateNotRejected
  BY DEF Init, CandidateNotRejected
<1>2. TypeOK /\ CandidateNotRejected /\ [Next]_vars => CandidateNotRejected'
  BY CandidateStep
<1>q. QED
  BY <1>1, <1>2, TypeCorrect, PTL DEF Spec

\* A save that succeeds writes the lists as they are in its critical section, and
\* one that fails is remembered: an operator's change that was confirmed is on disk.
THEOREM FileCurrent == Spec => []FileIsCurrent
<1>1. Init => FileIsCurrent
  BY DEF Init, FileIsCurrent, EmptyFile
<1>2. TypeOK /\ FileIsCurrent /\ [Next]_vars => FileIsCurrent'
  <2> SUFFICES ASSUME TypeOK, FileIsCurrent, [Next]_vars PROVE FileIsCurrent'
    OBVIOUS
  <2>1. ASSUME NEW outcome \in SaveOutcomes, NEW before, Save(outcome, before)
        PROVE  FileIsCurrent'
    BY <2>1 DEF Save, SaveOutcomes, FileIsCurrent
  <2>2. CASE Quiet
    BY <2>2 DEF Quiet, lists, file, FileIsCurrent
  <2>3. CASE Restart
    BY <2>3 DEF Restart, FileIsCurrent
  <2>4. ASSUME NEW nd \in Identities, Changes(nd)
        PROVE  FileIsCurrent'
    <3>1. CASE Adds(nd)
      BY <3>1 DEF Adds, file, FileIsCurrent
    <3>2. CASE ~Adds(nd)
      <4>1. \E outcome \in SaveOutcomes, before \in {disk, Midway(nd)} :
               Save(outcome, before)
        BY <2>4, <3>2 DEF Changes, RegistersCandidate, Accepts, Stops, Rejects, Removes,
           Register, StopsMidway, Reject, Remove
      <4>q. QED
        BY <4>1, <2>1
    <3>q. QED
      BY <3>1, <3>2
  <2>q. QED
    BY <2>2, <2>3, <2>4, StepEffect
<1>q. QED
  BY <1>1, <1>2, TypeCorrect, PTL DEF Spec

\* A method frees the ID of its identity, or gives a free ID to it, and leaves the
\* other IDs alone: a potential rogue never takes the place of a node in one step.
THEOREM NoSwap == Spec => NoIdentitySwap
<1>1. TypeOK /\ [Next]_vars =>
        [\A id \in Ids :
            accepted[id] # accepted'[id] =>
               accepted[id] = None \/ accepted'[id] = None \/ Restart]_vars
  <2> SUFFICES ASSUME TypeOK, [Next]_vars, ~Restart, NEW id \in Ids,
                      accepted[id] # accepted'[id]
               PROVE  accepted[id] = None \/ accepted'[id] = None
    OBVIOUS
  <2>1. ~Quiet
    BY DEF Quiet, lists
  <2>2. PICK nd \in Identities : Changes(nd)
    BY <2>1, StepEffect
  <2>3. CASE accepted' = Unregistered(nd)
    BY <2>3 DEF Unregistered, TypeOK
  <2>4. CASE IdIsFree(nd) /\ accepted' = [accepted EXCEPT ![IdOf[nd]] = nd]
    BY <2>4 DEF IdIsFree, TypeOK
  <2>q. QED
    BY <2>2, <2>3, <2>4 DEF Changes, Adds, RegistersCandidate, Accepts, Stops, Rejects,
       Removes, CanRegister, Register, StopsMidway, Reject, Remove
<1>q. QED
  BY <1>1, TypeCorrect, PTL DEF Spec, NoIdentitySwap

-----------------------------------------------------------------------------
(* A rejection holds, when no save is torn *)

\* The invariant behind it: memory and file agree that the identity is out.  A
\* failed save then leaves an older image that says so too, and so does the image
\* between the two saves of Reject and Remove.
Out(nd, image) == image.rejected[nd] > 0 /\ image.accepted[IdOf[nd]] # nd
InMemory == [accepted |-> accepted, rejected |-> rejected]
BanInv == \A nd \in banned : Out(nd, InMemory) /\ Out(nd, disk)

\* The image in the middle of a method says what memory and file say.
LEMMA MidwayOut ==
    ASSUME TypeOK, NEW other \in Identities, NEW nd \in Identities,
           Out(nd, InMemory), Out(nd, disk)
    PROVE  Out(nd, Midway(other))
BY DEF Out, InMemory, Midway, Unregistered, IsRegistered, TypeOK

\* A save that is not torn writes the lists or leaves what was there before.
LEMMA SaveOut ==
    ASSUME ~TornWrites, NEW outcome \in SaveOutcomes, NEW before, NEW nd,
           Save(outcome, before), Out(nd, InMemory)', Out(nd, before)
    PROVE  Out(nd, disk)'
<1>1. disk' = InMemory' \/ disk' = before
  BY DEF Save, SaveOutcomes, InMemory
<1>q. QED
  BY <1>1 DEF Out

\* What a method does to the lists of an identity that is out, and not the one it
\* is called for.
LEMMA OthersOut ==
    ASSUME TypeOK, NEW nd \in Identities, NEW other \in Identities, nd # other,
           Out(nd, InMemory),
           accepted' \in {accepted, Unregistered(other),
                          [accepted EXCEPT ![IdOf[other]] = other]},
           rejected' \in {rejected, CopiesAfter(other), [rejected EXCEPT ![other] = @ + 1]}
    PROVE  Out(nd, InMemory)'
<1>1. rejected'[nd] = rejected[nd]
  BY DEF CopiesAfter, TypeOK
<1>2. accepted'[IdOf[nd]] # nd
  BY DEF Out, InMemory, Unregistered, TypeOK
<1>q. QED
  BY <1>1, <1>2 DEF Out, InMemory

\* An identity that was rejected before the step, and is not the one it is for.
LEMMA OtherBanStep ==
    ASSUME TypeOK, BanInv, ~TornWrites, NEW nd \in banned, NEW other \in Identities,
           nd # other, Changes(other)
    PROVE  Out(nd, InMemory)' /\ Out(nd, disk)'
<1>0. nd \in Identities /\ Out(nd, InMemory) /\ Out(nd, disk)
  BY DEF BanInv, TypeOK
<1>1. CASE Adds(other)
  BY <1>0, <1>1 DEF Adds, file, Out, InMemory
<1>2. CASE ~Adds(other)
  <2>1. Out(nd, InMemory)'
    <3>1. /\ accepted' \in {accepted, Unregistered(other),
                            [accepted EXCEPT ![IdOf[other]] = other]}
          /\ rejected' \in {rejected, CopiesAfter(other),
                            [rejected EXCEPT ![other] = @ + 1]}
      BY <1>2 DEF Changes, RegistersCandidate, Accepts, Stops, Rejects, Removes,
         Register, StopsMidway, Reject, Remove
    <3>q. QED
      BY <1>0, <3>1, OthersOut
  <2>2. \E outcome \in SaveOutcomes, before \in {disk, Midway(other)} :
           Save(outcome, before)
    BY <1>2 DEF Changes, RegistersCandidate, Accepts, Stops, Rejects, Removes,
       Register, StopsMidway, Reject, Remove
  <2>3. Out(nd, Midway(other))
    BY <1>0, MidwayOut
  <2>4. Out(nd, disk)'
    BY <1>0, <2>1, <2>2, <2>3, SaveOut
  <2>q. QED
    BY <2>1, <2>4
<1>q. QED
  BY <1>1, <1>2

\* The identity the step is for, when it is rejected after the step.
LEMMA OwnBanStep ==
    ASSUME TypeOK, CandidateNotRejected, BanInv, ~TornWrites, NEW nd \in Identities,
           Changes(nd), nd \in banned'
    PROVE  Out(nd, InMemory)' /\ Out(nd, disk)'
<1>0. nd \in banned => Out(nd, InMemory) /\ Out(nd, disk)
  BY DEF BanInv
<1>1. CASE Adds(nd)
  BY <1>0, <1>1 DEF Adds, file, Out, InMemory
<1>2. ~RegistersCandidate(nd)
  <2> SUFFICES ASSUME RegistersCandidate(nd) PROVE FALSE
    OBVIOUS
  <2>1. nd \in candidates /\ nd \in banned
    BY DEF RegistersCandidate, CanRegister
  <2>q. QED
    BY <1>0, <2>1 DEF CandidateNotRejected, IsRejected, Out, InMemory
<1>3. ~Accepts(nd) /\ ~Removes(nd)
  BY DEF Accepts, Removes
<1>4. ~Stops(nd)
  BY <1>0 DEF Stops, StopsMidway, IsRegistered, Out, InMemory
<1>5. ASSUME NEW outcome \in SaveOutcomes, Reject(nd, outcome),
             banned' = IF outcome = "saved" THEN banned \cup {nd} ELSE banned
      PROVE  Out(nd, InMemory)' /\ Out(nd, disk)'
  <2>1. accepted'[IdOf[nd]] # nd
    BY <1>5 DEF Reject, Unregistered, IsRegistered, TypeOK
  <2>2. rejected'[nd] > 0
    BY <1>5 DEF Reject, TypeOK
  <2>3. Out(nd, InMemory)'
    BY <2>1, <2>2 DEF Out, InMemory
  <2>4. CASE outcome = "saved"
    BY <1>5, <2>3, <2>4 DEF Reject, Save, Out, InMemory
  <2>5. CASE outcome # "saved"
    <3>1. Out(nd, Midway(nd))
      BY <1>0, <1>5, <2>5, MidwayOut
    <3>q. QED
      BY <1>5, <2>3, <3>1, SaveOut DEF Reject
  <2>q. QED
    BY <2>3, <2>4, <2>5
<1>q. QED
  BY <1>1, <1>2, <1>3, <1>4, <1>5 DEF Changes, Rejects

\* The invariant is kept by every method, failed save and restart.
LEMMA BanStep ==
    ASSUME TypeOK, CandidateNotRejected, BanInv, ~TornWrites, [Next]_vars
    PROVE  BanInv'
<1>1. CASE Quiet
  BY <1>1 DEF Quiet, lists, file, BanInv, Out, InMemory
<1>2. CASE Restart
  <2>1. Interrupted \subseteq {Midway(other) : other \in Identities}
    BY DEF Interrupted
  <2>2. ASSUME NEW nd \in banned, NEW image \in {disk} \cup Interrupted
        PROVE  Out(nd, image)
    BY <2>1, <2>2, MidwayOut DEF BanInv, TypeOK
  <2>q. QED
    BY <1>2, <2>2 DEF Restart, BanInv, Out, InMemory
<1>3. ASSUME NEW nd \in Identities, Changes(nd), NEW other \in banned'
      PROVE  Out(other, InMemory)' /\ Out(other, disk)'
  <2>1. CASE other = nd
    BY <1>3, <2>1, OwnBanStep
  <2>2. CASE other # nd
    <3>1. banned' \subseteq banned \cup {nd}
      BY <1>3 DEF Changes, Adds, RegistersCandidate, Accepts, Stops, Rejects, Removes
    <3>q. QED
      BY <1>3, <2>2, <3>1, OtherBanStep
  <2>q. QED
    BY <2>1, <2>2
<1>q. QED
  BY <1>1, <1>2, <1>3, StepEffect DEF BanInv

\* When os.WriteFile is not cut short, what RejectNode reported as rejected stays
\* out of the accepted list until an operator accepts or removes it: no handshake
\* (auto-accepted or not), overlapping request, failed save or restart lets it in.
THEOREM RejectionSurvives ==
    ASSUME ~TornWrites
    PROVE  Spec => []RejectionHolds
<1>1. Init => BanInv
  BY DEF Init, BanInv
<1>2. TypeOK /\ CandidateNotRejected /\ BanInv /\ [Next]_vars => BanInv'
  BY BanStep
<1>3. BanInv => RejectionHolds
  BY DEF BanInv, RejectionHolds, Out, InMemory, IsRegistered
<1>q. QED
  BY <1>1, <1>2, <1>3, TypeCorrect, NeverBoth, PTL DEF Spec
=============================================================================
