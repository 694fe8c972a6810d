------------------------- MODULE NodeSession_proofs -------------------------
(***************************************************************************)
(* Proofs about NodeSession, for every set of nodes, streams and operators *)
(* and every bound on the tasks of a stream.  TypeOK comes first, then one *)
(* inductive invariant, SessionInv, from which the safety properties of    *)
(* the runs and the refinement of NodeSlot follow.                         *)
(***************************************************************************)
EXTENDS NodeSession, TLAPS

(* The parts of Next that concern one call of ExecTask. *)
StreamStep(s) ==
    \/ StreamBreaks(s)
    \/ \E n \in Nodes : Open(s, n)
    \/ MainStep(s) \/ ResponderStep(s)

-----------------------------------------------------------------------------
(* The inductive invariant *)

\* A session whose channel is open: the responder did not close it yet.
ChannelOpen(s) == pc[s] = "markUp" \/ rpc[s] \in {"capture", "recv", "check", "closing"}

\* The goroutines of a call go together: a responder runs exactly while the
\* handler is between starting it and reading errCh.
Together ==
    \A s \in Streams :
        rpc[s] # "none" <=> pc[s] \in {"getChannel", "range", "sending", "waitErr"}

\* What the dispatcher's entry is, by the state of the call that has the session.
EntryOfSession ==
    \A s \in Streams :
        InSession(s) => dispatch[owner[s]] = IF ChannelOpen(s) THEN s ELSE "nil"

\* An open entry belongs to a session of that node.
SessionOfEntry ==
    \A n \in Nodes :
        dispatch[n] \in Streams => InSession(dispatch[n]) /\ owner[dispatch[n]] = n

\* A closed task channel is that of a responder that has not reported yet.
ClosedIsReported == \A s \in taskClosed : rpc[s] = "report"

FlagIsEntry ==
    \A n \in Nodes : dispatchable[n] = "yes" <=> dispatch[n] \in Streams

SessionInv ==
    /\ TypeOK
    /\ Together
    /\ EntryOfSession
    /\ SessionOfEntry
    /\ ClosedIsReported
    /\ FlagIsEntry
    /\ OneSessionPerNode
    /\ ShutdownChannelIsOpen
    /\ ConnectedHasSession

-----------------------------------------------------------------------------
(* Type correctness *)

\* Every step of a call's goroutines, of its node and of its network keeps the
\* types: the closed sets hold streams, a captured channel is never "absent".
LEMMA StreamStepType ==
    ASSUME TypeOK, NEW s \in Streams, StreamStep(s)
    PROVE  TypeOK'
<1>0. USE StreamNames, TaskBound DEF TypeOK, MainPC, ResponderPC, AdminPC, Channel, Entry
<1>1. CASE StreamBreaks(s)
  BY <1>1 DEF StreamBreaks, dispatcherVars, inventoryVars, mainVars,
     responderVars, shutdownVars
<1>2. CASE WaitRegistered(s)
  BY <1>2 DEF WaitRegistered, dispatcherVars, inventoryVars, responderVars,
     shutdownVars, streamVars
<1>3. CASE RegisterNode(s)
  BY <1>3 DEF RegisterNode, Taken, inventoryVars, responderVars, shutdownVars,
     streamVars
<1>4. CASE RegisterDuplicate(s)
  BY <1>4 DEF RegisterDuplicate, Taken, dispatcherVars, inventoryVars,
     responderVars, shutdownVars, streamVars
<1>5. CASE MarkUp(s)
  BY <1>5 DEF MarkUp, dispatcherVars, shutdownVars, streamVars
<1>6. CASE GetTasksChannel(s)
  BY <1>6 DEF GetTasksChannel, dispatcherVars, inventoryVars, responderVars,
     shutdownVars, streamVars
<1>7. CASE StreamSend(s)
  BY <1>7 DEF StreamSend, dispatcherVars, inventoryVars, responderVars,
     shutdownVars
<1>8. CASE DispatchEnds(s)
  BY <1>8 DEF DispatchEnds, AfterLoop, dispatcherVars, inventoryVars,
     responderVars, shutdownVars, streamVars
<1>9. CASE UnregisterNode(s)
  BY <1>9 DEF UnregisterNode, FlagCleared, inventoryVars, responderVars,
     shutdownVars, streamVars
<1>10. CASE MarkDown(s)
  BY <1>10 DEF MarkDown, DownMarked, dispatcherVars, responderVars,
     shutdownVars, streamVars
<1>11. CASE DeleteShutdown(s)
  BY <1>11 DEF DeleteShutdown, dispatcherVars, inventoryVars, responderVars
<1>12. CASE Capture(s)
  BY <1>12 DEF Capture, ChannelOrNil, dispatcherVars, inventoryVars, mainVars,
     shutdownVars, streamVars
<1>13. CASE Recv(s)
  BY <1>13 DEF Recv, dispatcherVars, inventoryVars, mainVars, shutdownVars
<1>14. CASE StopReceiving(s)
  BY <1>14 DEF StopReceiving, dispatcherVars, inventoryVars, mainVars,
     shutdownVars, streamVars
<1>15. CASE HandleAnswer(s)
  BY <1>15 DEF HandleAnswer, dispatcherVars, inventoryVars, mainVars,
     shutdownVars, streamVars
<1>16. CASE Close(s)
  BY <1>16 DEF Close, ClosedAfter, FlagCleared, inventoryVars, mainVars,
     shutdownVars, streamVars
<1>17. CASE Join(s)
  BY <1>17 DEF Join, inventoryVars, shutdownVars, streamVars
<1>18. CASE \E n \in Nodes : Open(s, n)
  BY <1>18 DEF Open, dispatcherVars, inventoryVars, responderVars
<1>q. QED
  BY <1>1, <1>2, <1>3, <1>4, <1>5, <1>6, <1>7, <1>8, <1>9, <1>10, <1>11, <1>12,
     <1>13, <1>14, <1>15, <1>16, <1>17, <1>18
     DEF StreamStep, MainStep, ResponderStep

\* So do the steps that belong to a node, and the operators' calls.
LEMMA NodeStepType ==
    ASSUME TypeOK, NEW n \in Nodes, Handshake(n) \/ SendTask(n) \/ Accept(n)
    PROVE  TypeOK'
<1>0. USE StreamNames, TaskBound DEF TypeOK, MainPC, ResponderPC, AdminPC, Channel, Entry
<1>1. CASE Handshake(n)
  BY <1>1 DEF Handshake, dispatcherVars, inventoryVars, mainVars, responderVars,
     shutdownVars, streamVars
<1>2. CASE SendTask(n)
  BY <1>2 DEF SendTask, dispatcherVars, inventoryVars, responderVars,
     shutdownVars, streamVars
<1>3. CASE Accept(n)
  BY <1>3 DEF Accept, dispatcherVars, mainVars, responderVars, shutdownVars,
     streamVars
<1>q. QED
  BY <1>1, <1>2, <1>3

\* RequestShutdown, successful or not, keeps the maps' types.
LEMMA ShutdownType ==
    ASSUME TypeOK, NEW n \in Nodes, RequestShutdown(n) \/ ShutdownFails(n)
    PROVE  /\ dispatch' \in [Nodes -> Entry]
           /\ dispatchable' \in [Nodes -> {"absent", "no", "yes"}]
           /\ taskClosed' \subseteq Streams
           /\ shutdownRequest' \in [Nodes -> Entry]
           /\ shutClosed' \subseteq Streams
<1>1. CASE RequestShutdown(n)
  BY <1>1 DEF RequestShutdown, EntryCleared, TypeOK, Entry
<1>2. CASE ShutdownFails(n)
  BY <1>2 DEF ShutdownFails, TypeOK, dispatcherVars, shutdownVars
<1>q. QED
  BY <1>1, <1>2

\* A RejectNode or RemoveNode call goes on to another of its steps.
LEMMA AdminGoesType ==
    ASSUME TypeOK, NEW a \in Admins, NEW at \in AdminPC, AdminGoes(a, at)
    PROVE  admin' \in [Admins -> [at : AdminPC, node : Nodes]]
BY DEF AdminGoes, TypeOK

\* The later steps of those calls keep the types: RequestShutdown, Reject, Remove.
LEMMA AdminStepType ==
    ASSUME TypeOK, NEW a \in Admins,
           AdminStep(a) \/ \E n \in Nodes : RejectNode(a, n) \/ RemoveNode(a, n)
    PROVE  TypeOK'
<1>0. USE StreamNames, TaskBound DEF TypeOK, MainPC, ResponderPC, AdminPC, Channel, Entry
<1>n. admin[a].node \in Nodes
  OBVIOUS
<1>1. CASE RejectShutdown(a)
  <2>1. \E at \in AdminPC : AdminGoes(a, at)
    BY <1>1 DEF RejectShutdown
  <2>2. RequestShutdown(admin[a].node) \/ ShutdownFails(admin[a].node)
    BY <1>1 DEF RejectShutdown
  <2>q. QED
    BY <1>1, <1>n, <2>1, <2>2, ShutdownType, AdminGoesType
       DEF RejectShutdown, mainVars, responderVars, streamVars, inventoryVars
<1>2. CASE RemoveShutdown(a)
  <2>1. \E at \in AdminPC : AdminGoes(a, at)
    BY <1>2 DEF RemoveShutdown
  <2>2. RequestShutdown(admin[a].node) \/ ShutdownFails(admin[a].node)
    BY <1>2 DEF RemoveShutdown
  <2>q. QED
    BY <1>2, <1>n, <2>1, <2>2, ShutdownType, AdminGoesType
       DEF RemoveShutdown, mainVars, responderVars, streamVars, inventoryVars
<1>3. CASE RejectSave(a)
  BY <1>3 DEF RejectSave, SaveStatus, AdminGoes, dispatcherVars, mainVars,
     responderVars, shutdownVars, streamVars
<1>4. CASE RemoveSave(a)
  BY <1>4 DEF RemoveSave, SaveStatus, AdminGoes, dispatcherVars, mainVars,
     responderVars, shutdownVars, streamVars
<1>5. CASE \E n \in Nodes : RejectNode(a, n)
  BY <1>5 DEF RejectNode, dispatcherVars, inventoryVars, mainVars,
     responderVars, shutdownVars, streamVars
<1>6. CASE \E n \in Nodes : RemoveNode(a, n)
  BY <1>6 DEF RemoveNode, dispatcherVars, inventoryVars, mainVars,
     responderVars, shutdownVars, streamVars
<1>q. QED
  BY <1>1, <1>2, <1>3, <1>4, <1>5, <1>6 DEF AdminStep

\* Type correctness of every reachable state (TypeOK of the runs).
THEOREM TypeCorrect == Spec => []TypeOK
<1>1. Init => TypeOK
  BY StreamNames, TaskBound DEF Init, TypeOK, MainPC, ResponderPC, AdminPC, Channel,
     Entry
<1>2. TypeOK /\ [Next]_vars => TypeOK'
  <2>1. CASE UNCHANGED vars
    BY <2>1 DEF TypeOK, vars, mainVars, responderVars, streamVars, dispatcherVars,
       shutdownVars, inventoryVars
  <2>2. CASE Next
    BY <2>2, StreamStepType, NodeStepType, AdminStepType DEF Next, StreamStep
  <2>q. QED
    BY <2>1, <2>2
<1>q. QED
  BY <1>1, <1>2, PTL DEF Spec

-----------------------------------------------------------------------------
(* The invariant is inductive *)

\* Every step of a call keeps the invariant.  The steps that matter are the three
\* that change the dispatcher's entry, and Open, which takes a free name; each of
\* those says first why no other session of the node is in the way.
LEMMA StreamStepInv ==
    ASSUME SessionInv, NEW s \in Streams, StreamStep(s)
    PROVE  SessionInv'
<1>0. USE StreamNames DEF SessionInv, InSession, ChannelOpen, TypeOK, Channel, Entry,
          Together, EntryOfSession, SessionOfEntry, ClosedIsReported, FlagIsEntry,
          OneSessionPerNode, ShutdownChannelIsOpen, ConnectedHasSession
<1>t. TypeOK'
  BY StreamStepType
<1>1. CASE StreamBreaks(s)
  BY <1>1, <1>t DEF StreamBreaks, dispatcherVars, inventoryVars, mainVars,
     responderVars, shutdownVars
<1>2. CASE WaitRegistered(s)
  BY <1>2, <1>t DEF WaitRegistered, dispatcherVars, inventoryVars,
     responderVars, shutdownVars, streamVars
<1>3. CASE RegisterNode(s)
  <2>1. \A t \in Streams : InSession(t) => owner[t] # owner[s]
    \* its entry would be the open channel or nil, and RegisterNode refuses both
    BY <1>3 DEF RegisterNode, Taken
  <2>2. s \notin taskClosed
    BY <1>3 DEF RegisterNode
  <2>q. QED
    BY <2>1, <2>2, <1>3, <1>t DEF RegisterNode, Taken, inventoryVars,
       responderVars, shutdownVars, streamVars
<1>4. CASE RegisterDuplicate(s)
  BY <1>4, <1>t DEF RegisterDuplicate, Taken, dispatcherVars, inventoryVars,
     responderVars, shutdownVars, streamVars
<1>5. CASE MarkUp(s)
  BY <1>5, <1>t DEF MarkUp, dispatcherVars, shutdownVars, streamVars
<1>6. CASE GetTasksChannel(s)
  BY <1>6, <1>t DEF GetTasksChannel, dispatcherVars, inventoryVars,
     responderVars, shutdownVars, streamVars
<1>7. CASE StreamSend(s)
  BY <1>7, <1>t DEF StreamSend, dispatcherVars, inventoryVars, responderVars,
     shutdownVars
<1>8. CASE DispatchEnds(s)
  BY <1>8, <1>t DEF DispatchEnds, AfterLoop, dispatcherVars, inventoryVars,
     responderVars, shutdownVars, streamVars
<1>9. CASE UnregisterNode(s)
  <2>1. \A t \in Streams : InSession(t) /\ owner[t] = owner[s] => t = s
    BY <1>9 DEF UnregisterNode
  <2>2. dispatch[owner[s]] = "nil"
    BY <1>9 DEF UnregisterNode
  <2>q. QED
    BY <2>1, <2>2, <1>9, <1>t DEF UnregisterNode, FlagCleared, inventoryVars,
       responderVars, shutdownVars, streamVars
<1>10. CASE MarkDown(s)
  BY <1>10, <1>t DEF MarkDown, DownMarked, dispatcherVars, responderVars,
     shutdownVars, streamVars
<1>11. CASE DeleteShutdown(s)
  BY <1>11, <1>t DEF DeleteShutdown, dispatcherVars, inventoryVars,
     responderVars
<1>12. CASE Capture(s)
  BY <1>12, <1>t DEF Capture, ChannelOrNil, dispatcherVars, inventoryVars,
     mainVars, shutdownVars, streamVars
<1>13. CASE Recv(s)
  BY <1>13, <1>t DEF Recv, dispatcherVars, inventoryVars, mainVars, shutdownVars
<1>14. CASE StopReceiving(s)
  BY <1>14, <1>t DEF StopReceiving, dispatcherVars, inventoryVars, mainVars,
     shutdownVars, streamVars
<1>15. CASE HandleAnswer(s)
  BY <1>15, <1>t DEF HandleAnswer, dispatcherVars, inventoryVars, mainVars,
     shutdownVars, streamVars
<1>16. CASE Close(s)
  <2>1. InSession(s) /\ dispatch[owner[s]] = s /\ s \notin taskClosed
    BY <1>16 DEF Close
  <2>2. \A t \in Streams : InSession(t) /\ owner[t] = owner[s] => t = s
    BY <2>1
  <2>q. QED
    BY <2>1, <2>2, <1>16, <1>t DEF Close, ClosedAfter, FlagCleared,
       inventoryVars, mainVars, shutdownVars, streamVars
<1>17. CASE Join(s)
  BY <1>17, <1>t DEF Join, inventoryVars, shutdownVars, streamVars
<1>18. CASE \E n \in Nodes : Open(s, n)
  <2>1. ~InSession(s) /\ rpc[s] = "none" /\ \A m \in Nodes : shutdownRequest[m] # s
    BY <1>18 DEF Open
  <2>q. QED
    BY <2>1, <1>18, <1>t DEF Open, dispatcherVars, inventoryVars, responderVars
<1>q. QED
  BY <1>1, <1>2, <1>3, <1>4, <1>5, <1>6, <1>7, <1>8, <1>9, <1>10, <1>11, <1>12,
     <1>13, <1>14, <1>15, <1>16, <1>17, <1>18
     DEF StreamStep, MainStep, ResponderStep

\* A task handed over moves a handler within its session; Handshake and Accept
\* touch nothing of the sessions.
LEMMA NodeStepInv ==
    ASSUME SessionInv, NEW n \in Nodes, Handshake(n) \/ SendTask(n) \/ Accept(n)
    PROVE  SessionInv'
<1>0. USE StreamNames DEF SessionInv, InSession, ChannelOpen, TypeOK, Channel, Entry,
          Together, EntryOfSession, SessionOfEntry, ClosedIsReported, FlagIsEntry,
          OneSessionPerNode, ShutdownChannelIsOpen, ConnectedHasSession
<1>t. TypeOK'
  BY NodeStepType
<1>1. CASE Handshake(n)
  BY <1>1, <1>t DEF Handshake, dispatcherVars, inventoryVars, mainVars,
     responderVars, shutdownVars, streamVars
<1>2. CASE SendTask(n)
  BY <1>2, <1>t DEF SendTask, dispatcherVars, inventoryVars, responderVars,
     shutdownVars, streamVars
<1>3. CASE Accept(n)
  BY <1>3, <1>t DEF Accept, dispatcherVars, mainVars, responderVars,
     shutdownVars, streamVars
<1>q. QED
  BY <1>1, <1>2, <1>3

\* RequestShutdown closes a channel that no other entry holds, and forgets the
\* flag only of a node without an entry.
LEMMA ShutdownInv ==
    ASSUME SessionInv, NEW n \in Nodes, RequestShutdown(n) \/ ShutdownFails(n), TypeOK',
           UNCHANGED <<mainVars, responderVars, streamVars, inventoryVars, ready>>
    PROVE  SessionInv'
<1>0. USE StreamNames DEF SessionInv, InSession, ChannelOpen, TypeOK, Channel, Entry,
          Together, EntryOfSession, SessionOfEntry, ClosedIsReported, FlagIsEntry,
          OneSessionPerNode, ShutdownChannelIsOpen, ConnectedHasSession
<1>1. CASE RequestShutdown(n)
  <2>1. \A m \in Nodes : shutdownRequest[m] = shutdownRequest[n] => m = n
    BY <1>1 DEF RequestShutdown
  <2>q. QED
    BY <1>1, <2>1 DEF RequestShutdown, EntryCleared, mainVars, responderVars,
       streamVars, inventoryVars
<1>2. CASE ShutdownFails(n)
  BY <1>2 DEF ShutdownFails, mainVars, responderVars, streamVars, inventoryVars,
     dispatcherVars, shutdownVars
<1>q. QED
  BY <1>1, <1>2

\* The operators' calls keep the invariant; leaving the accepted list only clears
\* the node's Connected flag.
LEMMA AdminStepInv ==
    ASSUME SessionInv, NEW a \in Admins,
           AdminStep(a) \/ \E n \in Nodes : RejectNode(a, n) \/ RemoveNode(a, n)
    PROVE  SessionInv'
<1>t. TypeOK'
  BY AdminStepType DEF SessionInv
<1>n. admin[a].node \in Nodes
  BY DEF SessionInv, TypeOK
<1>1. CASE RejectShutdown(a)
  BY <1>1, <1>t, <1>n, ShutdownInv DEF RejectShutdown
<1>2. CASE RemoveShutdown(a)
  BY <1>2, <1>t, <1>n, ShutdownInv DEF RemoveShutdown
<1>3. CASE RejectSave(a) \/ RemoveSave(a)
  <2>0. USE StreamNames DEF SessionInv, InSession, ChannelOpen, TypeOK, Channel, Entry,
            Together, EntryOfSession, SessionOfEntry, ClosedIsReported, FlagIsEntry,
            OneSessionPerNode, ShutdownChannelIsOpen, ConnectedHasSession
  <2>q. QED
    BY <1>3, <1>t, <1>n DEF RejectSave, RemoveSave, SaveStatus, dispatcherVars,
       mainVars, responderVars, shutdownVars, streamVars
<1>4. CASE \E n \in Nodes : RejectNode(a, n) \/ RemoveNode(a, n)
  <2>0. USE StreamNames DEF SessionInv, InSession, ChannelOpen, TypeOK, Channel, Entry,
            Together, EntryOfSession, SessionOfEntry, ClosedIsReported, FlagIsEntry,
            OneSessionPerNode, ShutdownChannelIsOpen, ConnectedHasSession
  <2>q. QED
    BY <1>4, <1>t DEF RejectNode, RemoveNode, dispatcherVars, inventoryVars,
       mainVars, responderVars, shutdownVars, streamVars
<1>q. QED
  BY <1>1, <1>2, <1>3, <1>4 DEF AdminStep

\* The inductive invariant holds in every reachable state.
THEOREM SessionInvariant == Spec => []SessionInv
<1>1. Init => SessionInv
  <2>1. ASSUME Init PROVE TypeOK
    BY <2>1, StreamNames, TaskBound DEF Init, TypeOK, MainPC, ResponderPC, AdminPC,
       Channel, Entry
  <2>2. ASSUME Init PROVE SessionInv
    BY <2>1, <2>2, StreamNames DEF Init, SessionInv, InSession, ChannelOpen, Together,
       EntryOfSession, SessionOfEntry, ClosedIsReported, FlagIsEntry,
       OneSessionPerNode, ShutdownChannelIsOpen, ConnectedHasSession
  <2>q. QED
    BY <2>2
<1>2. SessionInv /\ [Next]_vars => SessionInv'
  <2>1. ASSUME SessionInv, UNCHANGED vars PROVE SessionInv'
    BY <2>1 DEF vars, mainVars, responderVars, streamVars, dispatcherVars, shutdownVars,
       inventoryVars, SessionInv, TypeOK, InSession, ChannelOpen, Together,
       EntryOfSession, SessionOfEntry, ClosedIsReported, FlagIsEntry,
       OneSessionPerNode, ShutdownChannelIsOpen, ConnectedHasSession
  <2>2. ASSUME SessionInv, Next PROVE SessionInv'
    BY <2>2, StreamStepInv, NodeStepInv, AdminStepInv DEF Next, StreamStep
  <2>q. QED
    BY <2>1, <2>2
<1>q. QED
  BY <1>1, <1>2, PTL DEF Spec

-----------------------------------------------------------------------------
(* The safety properties of the runs *)

\* At most one stream of a node has a session at any time.
THEOREM OneSession == Spec => []OneSessionPerNode
<1>1. SessionInv => OneSessionPerNode
  BY DEF SessionInv
<1>q. QED
  BY <1>1, SessionInvariant, PTL

\* close() in Dispatcher.Close never panics: the entry is the open channel of the
\* responder's own call.
THEOREM CloseIsSafe == Spec => []ClosesOwnOpenChannel
<1>1. SessionInv => ClosesOwnOpenChannel
  BY DEF SessionInv, ClosesOwnOpenChannel, Together, EntryOfSession, ClosedIsReported,
     InSession, ChannelOpen
<1>q. QED
  BY <1>1, SessionInvariant, PTL

\* No responder is left behind by a call that returned.
THEOREM NoResponderLeft == Spec => []ResponderWithinSession
<1>1. SessionInv => ResponderWithinSession
  BY DEF SessionInv, ResponderWithinSession, Together
<1>q. QED
  BY <1>1, SessionInvariant, PTL

\* close() in RequestShutdown never panics either.
THEOREM ShutdownIsSafe == Spec => []ShutdownChannelIsOpen
<1>1. SessionInv => ShutdownChannelIsOpen
  BY DEF SessionInv
<1>q. QED
  BY <1>1, SessionInvariant, PTL

\* The flag TargetedNodes reads and the channel Send reads agree.
THEOREM FlagIsRight == Spec => []DispatchableMatchesChannel
<1>1. SessionInv => DispatchableMatchesChannel
  BY StreamNames DEF SessionInv, DispatchableMatchesChannel, SessionOfEntry, FlagIsEntry,
     Together, EntryOfSession, ClosedIsReported, InSession, ChannelOpen
<1>q. QED
  BY <1>1, SessionInvariant, PTL

\* A node shown as connected has a session or is being cleaned up.
THEOREM ConnectedIsRight == Spec => []ConnectedHasSession
<1>1. SessionInv => ConnectedHasSession
  BY DEF SessionInv
<1>q. QED
  BY <1>1, SessionInvariant, PTL

-----------------------------------------------------------------------------
(* NodeSession implements NodeSlot *)

\* RegisterNode takes the node's place, Close shuts it, UnregisterNode frees it,
\* and every other step of a call leaves it as it is.
LEMMA StreamStepSlot ==
    ASSUME SessionInv, SessionInv', NEW s \in Streams, StreamStep(s)
    PROVE  Slot!Next \/ UNCHANGED <<Holders, OpenPlaces>>
<1>0. USE StreamNames DEF SessionInv, InSession, TypeOK, Channel, Entry
<1>n. owner[s] \in Nodes
  OBVIOUS
<1>1. CASE RegisterNode(s)
  <2>1. \A t \in Streams : InSession(t) => owner[t] # owner[s]
    BY <1>1 DEF RegisterNode, Taken, EntryOfSession
  <2>2. Holders[owner[s]] = {} /\ \A m \in Nodes : s \notin Holders[m]
    BY <1>1, <1>n, <2>1 DEF Holders, RegisterNode
  <2>3. Holders' = [Holders EXCEPT ![owner[s]] = {s}]
    <3>1. \A n \in Nodes, t \in Streams :
             (InSession(t) /\ owner[t] = n)'
               <=> IF n = owner[s] THEN t = s ELSE InSession(t) /\ owner[t] = n
      BY <1>1, <2>1 DEF RegisterNode
    <3>2. \A n \in Nodes :
             Holders'[n] = IF n = owner[s] THEN {s} ELSE Holders[n]
      BY <3>1 DEF Holders
    <3>3. /\ Holders = [n \in Nodes |-> Holders[n]]
          /\ Holders' = [n \in Nodes |-> Holders'[n]]
      BY DEF Holders
    <3>q. QED
      BY <3>2, <3>3
  <2>4. OpenPlaces' = OpenPlaces \cup {owner[s]}
    BY <1>1, <1>n DEF OpenPlaces, RegisterNode
  <2>5. Slot!Take(owner[s], s)
    BY <2>2, <2>3, <2>4 DEF Slot!Take
  <2>q. QED
    BY <1>n, <2>5 DEF Slot!Next
<1>2. CASE Close(s)
  <2>1. owner[s] \in OpenPlaces
    BY <1>2, <1>n DEF OpenPlaces, Close
  <2>2. OpenPlaces' = OpenPlaces \ {owner[s]}
    BY <1>2, <1>n DEF OpenPlaces, Close
  <2>3. UNCHANGED Holders
    BY <1>2 DEF Holders, Close, mainVars
  <2>4. Slot!Shut(owner[s])
    BY <2>1, <2>2, <2>3 DEF Slot!Shut
  <2>q. QED
    BY <1>n, <2>4 DEF Slot!Next
<1>3. CASE UnregisterNode(s)
  <2>1. dispatch[owner[s]] = "nil"
    BY <1>3 DEF UnregisterNode, EntryOfSession, Together, ChannelOpen
  <2>2. \A t \in Streams : InSession(t) /\ owner[t] = owner[s] => t = s
    BY <1>3 DEF UnregisterNode, OneSessionPerNode
  <2>3. s \in Holders[owner[s]] /\ owner[s] \notin OpenPlaces
    BY <1>3, <1>n, <2>1 DEF Holders, OpenPlaces, UnregisterNode
  <2>4. Holders' = [Holders EXCEPT ![owner[s]] = {}]
    <3>1. \A n \in Nodes, t \in Streams :
             (InSession(t) /\ owner[t] = n)'
               <=> n # owner[s] /\ InSession(t) /\ owner[t] = n
      BY <1>3, <2>2 DEF UnregisterNode
    <3>2. \A n \in Nodes :
             Holders'[n] = IF n = owner[s] THEN {} ELSE Holders[n]
      BY <3>1 DEF Holders
    <3>3. /\ Holders = [n \in Nodes |-> Holders[n]]
          /\ Holders' = [n \in Nodes |-> Holders'[n]]
      BY DEF Holders
    <3>q. QED
      BY <3>2, <3>3
  <2>5. UNCHANGED OpenPlaces
    BY <1>3, <1>n, <2>1 DEF OpenPlaces, UnregisterNode
  <2>6. Slot!Free(owner[s])
    BY <2>3, <2>4, <2>5 DEF Slot!Free
  <2>q. QED
    BY <1>n, <2>6 DEF Slot!Next
<1>4. CASE StreamBreaks(s)
  BY <1>4 DEF Holders, OpenPlaces, StreamBreaks, dispatcherVars, inventoryVars,
     mainVars, responderVars, shutdownVars
<1>5. CASE WaitRegistered(s)
  BY <1>5 DEF Holders, OpenPlaces, WaitRegistered, dispatcherVars,
     inventoryVars, responderVars, shutdownVars, streamVars
<1>6. CASE RegisterDuplicate(s)
  BY <1>6 DEF Holders, OpenPlaces, RegisterDuplicate, Taken, dispatcherVars,
     inventoryVars, responderVars, shutdownVars, streamVars
<1>7. CASE MarkUp(s)
  BY <1>7 DEF Holders, OpenPlaces, MarkUp, dispatcherVars, shutdownVars,
     streamVars
<1>8. CASE GetTasksChannel(s)
  BY <1>8 DEF Holders, OpenPlaces, GetTasksChannel, dispatcherVars,
     inventoryVars, responderVars, shutdownVars, streamVars
<1>9. CASE StreamSend(s)
  BY <1>9 DEF Holders, OpenPlaces, StreamSend, dispatcherVars, inventoryVars,
     responderVars, shutdownVars
<1>10. CASE DispatchEnds(s)
  BY <1>10 DEF Holders, OpenPlaces, DispatchEnds, AfterLoop, dispatcherVars,
     inventoryVars, responderVars, shutdownVars, streamVars
<1>11. CASE MarkDown(s)
  BY <1>11 DEF Holders, OpenPlaces, MarkDown, DownMarked, dispatcherVars,
     responderVars, shutdownVars, streamVars
<1>12. CASE DeleteShutdown(s)
  BY <1>12 DEF Holders, OpenPlaces, DeleteShutdown, dispatcherVars,
     inventoryVars, responderVars
<1>13. CASE Capture(s)
  BY <1>13 DEF Holders, OpenPlaces, Capture, ChannelOrNil, dispatcherVars,
     inventoryVars, mainVars, shutdownVars, streamVars
<1>14. CASE Recv(s)
  BY <1>14 DEF Holders, OpenPlaces, Recv, dispatcherVars, inventoryVars,
     mainVars, shutdownVars
<1>15. CASE StopReceiving(s)
  BY <1>15 DEF Holders, OpenPlaces, StopReceiving, dispatcherVars,
     inventoryVars, mainVars, shutdownVars, streamVars
<1>16. CASE HandleAnswer(s)
  BY <1>16 DEF Holders, OpenPlaces, HandleAnswer, dispatcherVars, inventoryVars,
     mainVars, shutdownVars, streamVars
<1>17. CASE Join(s)
  BY <1>17 DEF Holders, OpenPlaces, Join, inventoryVars, shutdownVars,
     streamVars
<1>18. CASE \E n \in Nodes : Open(s, n)
  BY <1>18 DEF Holders, OpenPlaces, Open, dispatcherVars, inventoryVars,
     responderVars
<1>q. QED
  BY <1>1, <1>2, <1>3, <1>4, <1>5, <1>6, <1>7, <1>8, <1>9,
     <1>10, <1>11, <1>12, <1>13, <1>14, <1>15, <1>16, <1>17, <1>18 DEF
     StreamStep, MainStep, ResponderStep

\* Nothing else changes who is in session or which channels are open.
LEMMA OtherStepSlot ==
    ASSUME SessionInv,
           \/ \E n \in Nodes : Handshake(n) \/ SendTask(n) \/ Accept(n)
           \/ \E a \in Admins :
                 AdminStep(a) \/ \E n \in Nodes : RejectNode(a, n) \/ RemoveNode(a, n)
    PROVE  UNCHANGED <<Holders, OpenPlaces>>
<1>0. USE DEF SessionInv, InSession, TypeOK, Holders, OpenPlaces
<1>1. CASE \E n \in Nodes : Handshake(n) \/ SendTask(n) \/ Accept(n)
  BY <1>1 DEF Handshake, SendTask, Accept, mainVars, dispatcherVars
<1>2. ASSUME NEW a \in Admins,
             AdminStep(a) \/ \E n \in Nodes : RejectNode(a, n) \/ RemoveNode(a, n)
      PROVE  UNCHANGED <<pc, owner, dispatch>>
  BY <1>2 DEF AdminStep, RejectShutdown, RemoveShutdown, RejectSave, RemoveSave,
     SaveStatus, RejectNode, RemoveNode, RequestShutdown, ShutdownFails, mainVars,
     dispatcherVars
<1>q. QED
  BY <1>1, <1>2

\* The goroutines of NodeSession implement the abstract place of NodeSlot.
THEOREM Refinement == Spec => ImplementsSlot
<1>1. Init => Slot!Init
  BY StreamNames DEF Init, Slot!Init, Holders, OpenPlaces, InSession
<1>2. SessionInv /\ SessionInv' /\ [Next]_vars
        => [Slot!Next]_<<Holders, OpenPlaces>>
  <2>1. ASSUME UNCHANGED vars PROVE UNCHANGED <<Holders, OpenPlaces>>
    BY <2>1 DEF vars, mainVars, dispatcherVars, Holders, OpenPlaces, InSession
  <2>2. ASSUME SessionInv, SessionInv', Next
        PROVE  [Slot!Next]_<<Holders, OpenPlaces>>
    BY <2>2, StreamStepSlot, OtherStepSlot DEF Next, StreamStep
  <2>q. QED
    BY <2>1, <2>2
<1>q. QED
  BY <1>1, <1>2, SessionInvariant, PTL DEF Spec, ImplementsSlot, Slot!Spec
=============================================================================
