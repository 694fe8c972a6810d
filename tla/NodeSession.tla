----------------------------- MODULE NodeSession -----------------------------
(***************************************************************************)
(* The life of a node's task stream inside the manager.                    *)
(*                                                                         *)
(* Every gRPC call of Cluster.ExecTask runs two goroutines: the handler    *)
(* itself ("main", ExecTask then dispatchRequestsToNode) and a responder   *)
(* (dispatchNodeResponse, then Dispatcher.Close).  They share with every   *)
(* other call, and with the operators' RejectNode and RemoveNode, three    *)
(* maps keyed by node ID, each under a lock of its own: the dispatcher's   *)
(* task channels, the server's shutdown channels and the inventory.  One   *)
(* action below is one critical section, or one blocking operation, of     *)
(* that code; everything else may interleave between two of them.          *)
(*                                                                         *)
(* A stream is named by the slot of Streams its call occupies.  A channel  *)
(* is named by the call that made it: RegisterNode's task channel and      *)
(* ExecTask's shutdown channel of call s are both written s.               *)
(***************************************************************************)
EXTENDS Naturals, FiniteSets

CONSTANTS
    Nodes,      \* node IDs; one identity (address, certificate) per ID here
    Streams,    \* slots for concurrent ExecTask calls
    Admins,     \* concurrent RejectNode / RemoveNode calls
    MaxTasks    \* bound on the tasks under way on one stream

(* "absent": the map has no such key; "nil": the key maps to a nil channel. *)
ASSUME StreamNames == {"absent", "nil"} \cap Streams = {}
ASSUME TaskBound == MaxTasks \in Nat

VARIABLES
    pc,              \* [Streams]: where the ExecTask goroutine is
    rpc,             \* [Streams]: where the responder goroutine is
    owner,           \* [Streams]: node ID in the call's metadata
    held,            \* [Streams]: task channel the handler ranges over
    shut,            \* [Streams]: shutdown channel the responder captured
    link,            \* [Streams]: state of the gRPC stream
    asked,           \* [Streams]: requests sent whose answer was not received
    dispatch,        \* [Nodes]: Dispatcher.dispatch
    dispatchable,    \* [Nodes]: Dispatcher.dispatchableNodes
    taskClosed,      \* task channels that were closed
    shutdownRequest, \* [Nodes]: Server.shutdownRequest
    shutClosed,      \* shutdown channels that were closed
    status,          \* [Nodes]: which inventory list holds the node
    connected,       \* nodes whose inventory States entry says Connected
    ready,           \* nodes that passed Handshake and did not open a stream yet
    admin            \* [Admins]: RejectNode / RemoveNode calls

mainVars      == <<pc, owner, held>>
responderVars == <<rpc, shut>>
streamVars    == <<link, asked>>
dispatcherVars == <<dispatch, dispatchable, taskClosed>>
shutdownVars  == <<shutdownRequest, shutClosed>>
inventoryVars == <<status, connected>>
vars == <<mainVars, responderVars, streamVars, dispatcherVars, shutdownVars,
          inventoryVars, ready, admin>>

-----------------------------------------------------------------------------
(* Types *)

MainPC == {"idle", "waitRegistered", "register", "markUp", "getChannel",
           "range", "sending", "waitErr", "unregister", "markDown", "delete"}
ResponderPC == {"none", "capture", "recv", "check", "closing", "report"}
AdminPC == {"idle", "rejectShutdown", "rejectSave", "removeShutdown", "removeSave"}

Channel == Streams \cup {"nil"}
Entry   == Streams \cup {"nil", "absent"}

TypeOK ==
    /\ pc \in [Streams -> MainPC]
    /\ rpc \in [Streams -> ResponderPC]
    /\ owner \in [Streams -> Nodes]
    /\ held \in [Streams -> Channel]
    /\ shut \in [Streams -> Channel]
    /\ link \in [Streams -> {"up", "broken"}]
    /\ asked \in [Streams -> Nat]
    /\ dispatch \in [Nodes -> Entry]
    /\ dispatchable \in [Nodes -> {"absent", "no", "yes"}]
    /\ taskClosed \subseteq Streams
    /\ shutdownRequest \in [Nodes -> Entry]
    /\ shutClosed \subseteq Streams
    /\ status \in [Nodes -> {"unknown", "accepted", "rejected"}]
    /\ connected \subseteq Nodes
    /\ ready \subseteq Nodes
    /\ admin \in [Admins -> [at : AdminPC, node : Nodes]]

Init ==
    /\ pc = [s \in Streams |-> "idle"]
    /\ rpc = [s \in Streams |-> "none"]
    /\ owner \in [Streams -> Nodes]
    /\ held = [s \in Streams |-> "nil"]
    /\ shut = [s \in Streams |-> "nil"]
    /\ link = [s \in Streams |-> "broken"]
    /\ asked = [s \in Streams |-> 0]
    /\ dispatch = [n \in Nodes |-> "absent"]
    /\ dispatchable = [n \in Nodes |-> "absent"]
    /\ taskClosed = {}
    /\ shutdownRequest = [n \in Nodes |-> "absent"]
    /\ shutClosed = {}
    \* the inventory is what the registry file of an earlier run held
    /\ status \in [Nodes -> {"unknown", "accepted", "rejected"}]
    /\ connected \in SUBSET Nodes
    /\ ready = {}
    /\ admin \in [Admins -> [at : {"idle"}, node : Nodes]]

-----------------------------------------------------------------------------
(* The node and the network *)

\* A registered node's Handshake succeeds; it will open its task stream next.
Handshake(n) ==
    /\ status[n] = "accepted"
    /\ ready' = ready \cup {n}
    /\ UNCHANGED <<mainVars, responderVars, streamVars, dispatcherVars,
                   shutdownVars, inventoryVars, admin>>

\* The connection is gone: the node restarted, the network failed, or the keepalive
\* gave it up.  The stream's context is done, Recv and Send fail from now on.
StreamBreaks(s) ==
    /\ link[s] = "up"
    /\ link' = [link EXCEPT ![s] = "broken"]
    /\ UNCHANGED <<mainVars, responderVars, asked, dispatcherVars, shutdownVars,
                   inventoryVars, ready, admin>>

-----------------------------------------------------------------------------
(* ExecTask: registration *)

\* A new call: the node's shutdown channel is replaced, whoever made it.
Open(s, n) ==
    /\ n \in ready
    /\ pc[s] = "idle"
    /\ \A t \in Streams : shut[t] # s      \* the name s is free to be reused
    /\ pc' = [pc EXCEPT ![s] = "waitRegistered"]
    /\ owner' = [owner EXCEPT ![s] = n]
    /\ link' = [link EXCEPT ![s] = "up"]
    /\ shutdownRequest' = [shutdownRequest EXCEPT ![n] = s]
    /\ shutClosed' = shutClosed \ {s}
    /\ ready' = ready \ {n}
    /\ UNCHANGED <<held, asked, responderVars, dispatcherVars, inventoryVars,
                   admin>>

\* The wait loop ends once the inventory knows the node; it looks at nothing else.
WaitRegistered(s) ==
    /\ pc[s] = "waitRegistered"
    /\ status[owner[s]] = "accepted"
    /\ pc' = [pc EXCEPT ![s] = "register"]
    /\ UNCHANGED <<owner, held, responderVars, streamVars, dispatcherVars,
                   shutdownVars, inventoryVars, ready, admin>>

\* RegisterNode looks for the key, whatever channel it maps to.
TakenByChannel(n) == dispatch[n] \in Streams      \* fault: a nil channel is free
Taken(n) == dispatch[n] # "absent"

\* Dispatcher.RegisterNode makes the node's task channel.
RegisterNode(s) ==
    /\ pc[s] = "register"
    /\ ~Taken(owner[s])
    /\ dispatch' = [dispatch EXCEPT ![owner[s]] = s]
    /\ dispatchable' = [dispatchable EXCEPT ![owner[s]] = "yes"]
    /\ pc' = [pc EXCEPT ![s] = "markUp"]
    /\ UNCHANGED <<owner, held, responderVars, streamVars, taskClosed,
                   shutdownVars, inventoryVars, ready, admin>>

\* Dispatcher.RegisterNode refuses: "cannot register: duplicate node".
RegisterDuplicate(s) ==
    /\ pc[s] = "register"
    /\ Taken(owner[s])
    /\ pc' = [pc EXCEPT ![s] = "delete"]
    /\ UNCHANGED <<owner, held, responderVars, streamVars, dispatcherVars,
                   shutdownVars, inventoryVars, ready, admin>>

\* MarkNodeStateChange(true), then the responder goroutine is started.
MarkUp(s) ==
    /\ pc[s] = "markUp"
    /\ connected' = connected \cup {owner[s]}
    /\ pc' = [pc EXCEPT ![s] = "getChannel"]
    /\ rpc' = [rpc EXCEPT ![s] = "capture"]
    /\ UNCHANGED <<owner, held, shut, streamVars, dispatcherVars, shutdownVars,
                   status, ready, admin>>

-----------------------------------------------------------------------------
(* ExecTask: dispatchRequestsToNode *)

\* The channel is read once.  After Close it is nil, and `range nil` never ends.
GetTasksChannel(s) ==
    /\ pc[s] = "getChannel"
    /\ dispatch[owner[s]] # "absent"
    /\ held' = [held EXCEPT ![s] = dispatch[owner[s]]]
    /\ pc' = [pc EXCEPT ![s] = "range"]
    /\ UNCHANGED <<owner, responderVars, streamVars, dispatcherVars,
                   shutdownVars, inventoryVars, ready, admin>>

\* Dispatcher.Send meets the handler that ranges over the node's channel: the
\* forwarder of a caller's task, or of the periodic collection of specs.
SendTask(n) ==
    \E s \in Streams :
        /\ dispatch[n] = s
        /\ pc[s] = "range"
        /\ held[s] = dispatch[n]
        /\ asked[s] < MaxTasks
        /\ pc' = [pc EXCEPT ![s] = "sending"]
        /\ UNCHANGED <<owner, held, responderVars, streamVars, dispatcherVars,
                       shutdownVars, inventoryVars, ready, admin>>

StreamSend(s) ==
    /\ pc[s] = "sending"
    /\ link[s] = "up"
    /\ asked' = [asked EXCEPT ![s] = @ + 1]
    /\ pc' = [pc EXCEPT ![s] = "range"]
    /\ UNCHANGED <<owner, held, responderVars, link, dispatcherVars,
                   shutdownVars, inventoryVars, ready, admin>>

\* The handler waits for the responder before it cleans up.
AfterLoopNoWait == "unregister"                    \* fault: errCh is not read
AfterLoop == "waitErr"

\* The loop ends because stream.Send failed or because the channel is closed.
DispatchEnds(s) ==
    /\ \/ pc[s] = "sending" /\ link[s] = "broken"
       \/ pc[s] = "range" /\ held[s] \in taskClosed
    /\ pc' = [pc EXCEPT ![s] = AfterLoop]
    /\ UNCHANGED <<owner, held, responderVars, streamVars, dispatcherVars,
                   shutdownVars, inventoryVars, ready, admin>>

-----------------------------------------------------------------------------
(* The responder: dispatchNodeResponse, then Close *)

\* Reading a key that is not there gives a nil channel.
ChannelOrNil(n) ==
    IF shutdownRequest[n] \in Streams THEN shutdownRequest[n] ELSE "nil"

\* The shutdown channel is read once, and it is whatever the map holds then.
Capture(s) ==
    /\ rpc[s] = "capture"
    /\ shut' = [shut EXCEPT ![s] = ChannelOrNil(owner[s])]
    /\ rpc' = [rpc EXCEPT ![s] = "recv"]
    /\ UNCHANGED <<mainVars, streamVars, dispatcherVars, shutdownVars,
                   inventoryVars, ready, admin>>

\* stream.Recv blocks until the node answered a request or the stream is broken.
Recv(s) ==
    /\ rpc[s] = "recv"
    /\ \/ link[s] = "broken" /\ UNCHANGED asked
       \/ link[s] = "up" /\ asked[s] > 0 /\ asked' = [asked EXCEPT ![s] = @ - 1]
    /\ rpc' = [rpc EXCEPT ![s] = "check"]
    /\ UNCHANGED <<mainVars, shut, link, dispatcherVars, shutdownVars,
                   inventoryVars, ready, admin>>

\* Only after Recv: the context, the shutdown channel, then Recv's error.
StopReceiving(s) ==
    /\ rpc[s] = "check"
    /\ link[s] = "broken" \/ shut[s] \in shutClosed
    /\ rpc' = [rpc EXCEPT ![s] = "closing"]
    /\ UNCHANGED <<mainVars, shut, streamVars, dispatcherVars, shutdownVars,
                   inventoryVars, ready, admin>>

\* The answer is stored and routed to the caller, which is TaskRouting's matter.
HandleAnswer(s) ==
    /\ rpc[s] = "check"
    /\ link[s] # "broken" /\ shut[s] \notin shutClosed
    /\ rpc' = [rpc EXCEPT ![s] = "recv"]
    /\ UNCHANGED <<mainVars, shut, streamVars, dispatcherVars, shutdownVars,
                   inventoryVars, ready, admin>>

\* Close and UnregisterNode: close() of the channel, and the flag of the node.
ClosedAfterNoClose(n) == taskClosed                \* fault: set to nil, not closed
ClosedAfter(n) == taskClosed \cup {dispatch[n]}

FlagKept(n) == dispatchable                        \* fault: the flag is left alone
FlagCleared(n) == [dispatchable EXCEPT ![n] = "no"]

\* Dispatcher.Close: close() of a nil or closed channel would panic, so the step
\* exists only for an open one; ClosesOwnOpenChannel says it always is.
Close(s) ==
    /\ rpc[s] = "closing"
    /\ dispatch[owner[s]] \in Streams \ taskClosed
    /\ taskClosed' = ClosedAfter(owner[s])
    /\ dispatch' = [dispatch EXCEPT ![owner[s]] = "nil"]
    /\ dispatchable' = FlagCleared(owner[s])
    /\ rpc' = [rpc EXCEPT ![s] = "report"]
    /\ UNCHANGED <<mainVars, shut, streamVars, shutdownVars, inventoryVars,
                   ready, admin>>

\* errCh is unbuffered: the responder and the handler meet.  No goroutine holds
\* the task channel of s any more, so its name is free.
Join(s) ==
    /\ rpc[s] = "report" /\ pc[s] = "waitErr"
    /\ rpc' = [rpc EXCEPT ![s] = "none"]
    /\ shut' = [shut EXCEPT ![s] = "nil"]
    /\ pc' = [pc EXCEPT ![s] = "unregister"]
    /\ held' = [held EXCEPT ![s] = "nil"]
    /\ taskClosed' = taskClosed \ {s}
    /\ UNCHANGED <<owner, streamVars, dispatch, dispatchable, shutdownVars,
                   inventoryVars, ready, admin>>

-----------------------------------------------------------------------------
(* ExecTask: the deferred functions, last deferred first *)

UnregisterNode(s) ==
    /\ pc[s] = "unregister"
    /\ dispatch' = [dispatch EXCEPT ![owner[s]] = "absent"]
    /\ dispatchable' = FlagCleared(owner[s])
    /\ pc' = [pc EXCEPT ![s] = "markDown"]
    /\ UNCHANGED <<owner, held, responderVars, streamVars, taskClosed,
                   shutdownVars, inventoryVars, ready, admin>>

\* MarkNodeStateChange(false), in whichever session the node is by now.
DownSkipped(n) == connected                        \* fault: the state is not changed
DownMarked(n) == connected \ {n}

MarkDown(s) ==
    /\ pc[s] = "markDown"
    /\ connected' = DownMarked(owner[s])
    /\ pc' = [pc EXCEPT ![s] = "delete"]
    /\ UNCHANGED <<owner, held, responderVars, streamVars, dispatcherVars,
                   shutdownVars, status, ready, admin>>

\* The key is deleted whoever owns the channel; the call returns and its stream ends.
DeleteShutdown(s) ==
    /\ pc[s] = "delete"
    /\ shutdownRequest' = [shutdownRequest EXCEPT ![owner[s]] = "absent"]
    /\ pc' = [pc EXCEPT ![s] = "idle"]
    /\ link' = [link EXCEPT ![s] = "broken"]
    /\ asked' = [asked EXCEPT ![s] = 0]
    /\ UNCHANGED <<owner, held, responderVars, dispatcherVars, shutClosed,
                   inventoryVars, ready, admin>>

-----------------------------------------------------------------------------
(* The operators' AcceptNode, RejectNode and RemoveNode *)

Accept(n) ==
    /\ status[n] # "accepted"
    /\ status' = [status EXCEPT ![n] = "accepted"]
    /\ UNCHANGED <<mainVars, responderVars, streamVars, dispatcherVars,
                   shutdownVars, connected, ready, admin>>

AdminGoes(a, at) == admin' = [admin EXCEPT ![a].at = at]

\* RejectNode matches accepted nodes and candidates; only a registered one has a
\* connection to shut down.
RejectNode(a, n) ==
    /\ admin[a].at = "idle"
    /\ status[n] # "rejected"
    /\ admin' = [admin EXCEPT ![a] =
                    [at |-> IF status[n] = "accepted" THEN "rejectShutdown"
                                                      ELSE "rejectSave",
                     node |-> n]]
    /\ UNCHANGED <<mainVars, responderVars, streamVars, dispatcherVars,
                   shutdownVars, inventoryVars, ready>>

\* RemoveNode matches the nodes of every list.
RemoveNode(a, n) ==
    /\ admin[a].at = "idle"
    /\ admin' = [admin EXCEPT ![a] = [at |-> "removeShutdown", node |-> n]]
    /\ UNCHANGED <<mainVars, responderVars, streamVars, dispatcherVars,
                   shutdownVars, inventoryVars, ready>>

\* The channel is closed once: its key is set to nil.
EntryKept(n) == shutdownRequest                    \* fault: the closed channel stays
EntryCleared(n) == [shutdownRequest EXCEPT ![n] = "nil"]

\* RequestShutdown closes the channel and tries to Forget the node, which fails
\* while the dispatcher has a key for it.
RequestShutdown(n) ==
    /\ shutdownRequest[n] \in Streams
    /\ shutClosed' = shutClosed \cup {shutdownRequest[n]}
    /\ shutdownRequest' = EntryCleared(n)
    /\ dispatchable' = IF dispatch[n] = "absent"
                       THEN [dispatchable EXCEPT ![n] = "absent"]
                       ELSE dispatchable
    /\ UNCHANGED <<dispatch, taskClosed>>

\* "shutdownRequest channel not found" or "not initialized".
ShutdownFails(n) ==
    /\ shutdownRequest[n] \notin Streams
    /\ UNCHANGED <<dispatcherVars, shutdownVars>>

\* A rejection gives up when there is no connection to shut down.
RejectShutdown(a) ==
    /\ admin[a].at = "rejectShutdown"
    /\ \/ RequestShutdown(admin[a].node) /\ AdminGoes(a, "rejectSave")
       \/ ShutdownFails(admin[a].node) /\ AdminGoes(a, "idle")
    /\ UNCHANGED <<mainVars, responderVars, streamVars, inventoryVars, ready>>

\* A removal goes on in both cases.
RemoveShutdown(a) ==
    /\ admin[a].at = "removeShutdown"
    /\ RequestShutdown(admin[a].node) \/ ShutdownFails(admin[a].node)
    /\ AdminGoes(a, "removeSave")
    /\ UNCHANGED <<mainVars, responderVars, streamVars, inventoryVars, ready>>

\* inventory.Reject and inventory.Remove: an accepted node loses its States entry.
SaveStatus(a, at, list) ==
    LET n == admin[a].node IN
    /\ admin[a].at = at
    /\ status' = [status EXCEPT ![n] = list]
    /\ connected' = IF status[n] = "accepted" THEN connected \ {n} ELSE connected
    /\ AdminGoes(a, "idle")
    /\ UNCHANGED <<mainVars, responderVars, streamVars, dispatcherVars,
                   shutdownVars, ready>>

RejectSave(a) == SaveStatus(a, "rejectSave", "rejected")
RemoveSave(a) == SaveStatus(a, "removeSave", "unknown")

-----------------------------------------------------------------------------
MainStep(s) ==
    \/ WaitRegistered(s) \/ RegisterNode(s) \/ RegisterDuplicate(s) \/ MarkUp(s)
    \/ GetTasksChannel(s) \/ StreamSend(s) \/ DispatchEnds(s)
    \/ UnregisterNode(s) \/ MarkDown(s) \/ DeleteShutdown(s)

ResponderStep(s) ==
    \/ Capture(s) \/ Recv(s) \/ StopReceiving(s) \/ HandleAnswer(s)
    \/ Close(s) \/ Join(s)

AdminStep(a) ==
    \/ RejectShutdown(a) \/ RemoveShutdown(a) \/ RejectSave(a) \/ RemoveSave(a)

Next ==
    \/ \E n \in Nodes : Handshake(n) \/ SendTask(n) \/ Accept(n)
    \/ \E s \in Streams :
          \/ StreamBreaks(s)
          \/ \E n \in Nodes : Open(s, n)
          \/ MainStep(s) \/ ResponderStep(s)
    \/ \E a \in Admins :
          \/ AdminStep(a)
          \/ \E n \in Nodes : RejectNode(a, n) \/ RemoveNode(a, n)

Spec == Init /\ [][Next]_vars

(***************************************************************************)
(* Fairness.  A goroutine that can go on does.  The collection of specs    *)
(* sends every dispatchable node a task again and again, and Recv returns  *)
(* in the end: the node answers or the keepalive breaks the stream.        *)
(* Nothing is assumed of the operators' calls, of nodes connecting, or of  *)
(* streams breaking.                                                       *)
(***************************************************************************)
Fairness ==
    /\ \A s \in Streams :
          /\ WF_vars(MainStep(s)) /\ WF_vars(ResponderStep(s))
    /\ \A n \in Nodes : WF_vars(SendTask(n))

FairSpec == Spec /\ Fairness

-----------------------------------------------------------------------------
(* Safety *)

\* Calls that made the node's task channel and did not unregister the node yet.
InSession(s) == pc[s] \in {"markUp", "getChannel", "range", "sending", "waitErr",
                           "unregister"}

\* A reconnecting node, or a second daemon with the same ID, never gets a
\* session while an earlier stream of that ID still has one (RegisterNode's
\* duplicate check), although the two calls interleave at every step.
OneSessionPerNode ==
    \A s, t \in Streams :
        InSession(s) /\ InSession(t) /\ owner[s] = owner[t] => s = t

\* Dispatcher.Close calls close() without looking: a nil, missing or closed
\* channel would take the whole manager down.  Whatever happened since the
\* responder decided to stop, the entry is still the open channel of its call.
ClosesOwnOpenChannel ==
    \A s \in Streams :
        rpc[s] = "closing" => dispatch[owner[s]] = s /\ s \notin taskClosed

\* The responder never outlives its call: one left behind would close the task
\* channel of the node's next session.
ResponderWithinSession ==
    \A s \in Streams :
        rpc[s] # "none" => pc[s] \in {"getChannel", "range", "sending", "waitErr"}

\* RequestShutdown closes the channel it finds in the map: it is never one that
\* was closed before, and it belongs to a call of that node that still runs.
ShutdownChannelIsOpen ==
    \A n \in Nodes :
        shutdownRequest[n] \in Streams =>
            /\ shutdownRequest[n] \notin shutClosed
            /\ pc[shutdownRequest[n]] # "idle" /\ owner[shutdownRequest[n]] = n

\* What TargetedNodes reports ("dispatchable") and what Send finds (an open
\* channel) are two maps; they agree between any two critical sections, and the
\* open channel is that of a session.
DispatchableMatchesChannel ==
    \A n \in Nodes :
        /\ dispatchable[n] = "yes" <=> dispatch[n] \in Streams \ taskClosed
        /\ dispatch[n] \in Streams => InSession(dispatch[n]) /\ owner[dispatch[n]] = n

\* ListNodes shows a node as connected only while a stream of it has a session
\* or is being cleaned up.  (Before the first session since the start of the
\* manager, the flag is what the registry file says.)
ConnectedHasSession ==
    \A n \in Nodes :
        n \in connected /\ dispatchable[n] # "absent" =>
            \E s \in Streams :
                owner[s] = n /\ (InSession(s) \/ pc[s] = "markDown")

\* The abstract promise: the calls in session hold the node's place, and the
\* place is open while the node's task channel is.
Holders == [n \in Nodes |-> {s \in Streams : InSession(s) /\ owner[s] = n}]
OpenPlaces == {n \in Nodes : dispatch[n] \in Streams}

Slot == INSTANCE NodeSlot WITH holders <- Holders, open <- OpenPlaces

\* Every interleaving of handlers, responders and operators implements NodeSlot:
\* a place is never handed over open, shared, or freed before it is shut.
ImplementsSlot == Slot!Spec

-----------------------------------------------------------------------------
(* Liveness, of FairSpec *)

\* A session whose handler ranges over its own channel gives the node's place
\* up when its connection is lost or its shutdown is requested, however its
\* goroutines are interleaved with senders, operators and a second stream of the
\* node.  A shutdown request is noticed only after an answer; the answers to the
\* periodic tasks are enough for that.
SessionEnds ==
    \A n \in Nodes :
        (\E s \in Streams :
            /\ owner[s] = n
            /\ pc[s] = "range" /\ held[s] = s
            /\ link[s] = "broken" \/ shut[s] \in shutClosed)
        ~> dispatch[n] = "absent"

-----------------------------------------------------------------------------
(* What the documents and the tests say, and the code does not do *)

\* "after a node disconnects and reconnects, tasks are routed correctly again"
\* (TestE2E_NodeReconnects, which waits for the first stream to unregister):
\* the stream of a lost connection gives the node's place up.
BrokenStreamFreesNode ==
    \A n \in Nodes, s \in Streams :
        dispatch[n] = s /\ link[s] = "broken" ~> dispatch[n] = "absent"
=============================================================================
