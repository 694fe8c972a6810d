----------------------------- MODULE TaskRouting -----------------------------
(***************************************************************************)
(* A task's way through the manager: GRPCForwarder.ExecTask and the specs  *)
(* collector start a worker for each target, Dispatcher.Send hands the     *)
(* task over to the ExecTask handler of the node's stream, the handler     *)
(* sends it and registers where its answer goes, and the responder         *)
(* goroutine records answers in the job database and routes them back.     *)
(*                                                                         *)
(* Each call to the forwarder is made once and its worker for node n is    *)
(* the task <<c, n>>, which is also the ID of the request on the wire.     *)
(* What a node may still say of a task is a set: the order in which it     *)
(* answers, and the messages in flight on the stream, are the order in     *)
(* which the responder receives them.  Timers may fire at any time.        *)
(***************************************************************************)
EXTENDS JobStore

CONSTANTS
    Request,    \* [Calls -> [mode, target]]: what the calls ask
    SpecsOf,    \* [Nodes -> specs]: what the nodes report of themselves
    MaxSessions,\* bound on the streams the nodes open
    MaxWorkers, \* bound on the workers that set out
    Queries,    \* the filters of QUERY mode that are looked at
    Listings,   \* the filters of ListResults that are looked at
    Branch

T == INSTANCE Targeting

ASSUME BoundAssumption == MaxSessions \in Nat /\ MaxWorkers \in Nat
ASSUME SpecsAssumption == Nodes \subseteq DOMAIN SpecsOf

Answer == "answer"      \* the response of the task, its rejection included
Notice == "started"     \* STARTED_TIMEOUT: the task runs, its timer has fired
Replies == {Answer, Notice}
Idle == "idle"

ASSUME NoneAssumption ==
    /\ None \notin Calls \cup Tasks
    /\ None \notin Replies \cup {"disconnected", "disconnecting", "timeout", "gone"}

\* Nodes holds every name a request gives, and the parser of filters makes sequences.
ASSUME RequestAssumption == \A c \in Calls :
    /\ Request[c].mode = "EXACT" => Request[c].target \in Nodes
    /\ Request[c].mode = "LIST" => Request[c].target.matches \subseteq Nodes
    /\ Request[c].mode = "QUERY" => T!IsQuery(Request[c].target)
ASSUME QueriesAssumption == \A q \in Queries : T!IsQuery(q)

\* A negative limit, date or offset asks for what an absent one does.
ASSUME ListingsAssumption == \A flags \in Listings :
    flags \in [offset : Nat, limit : Nat, from : Nat, to : Nat, targets : SUBSET Nodes]

VARIABLES
    known,      \* dispatchableNodes
    specs,      \* the inventory's specs
    writer,     \* node whose handler or responder has announced Lock, or None
    pc,         \* [Tasks]: where the worker is
    res,        \* [Tasks]: what the worker reports
    ch,         \* [Tasks]: its response channel, of capacity one
    sent,       \* tasks that were sent to their node
    due,        \* [Tasks]: what the node may still say of the task
    link,       \* [Nodes]: the node's stream
    handler,    \* [Nodes]: its ExecTask handler
    adding,     \* [Nodes]: the task the handler has taken, until its route is added
    responder,  \* [Nodes]: its responder goroutine
    msg,        \* [Nodes]: the message the responder is routing
    dispatch,   \* [Nodes]: the node's entry of the dispatcher
    routes,     \* tasks in the responsesCh map of their node's stream
    sessions    \* number of streams opened so far

workerVars == <<pc, res, ch>>
nodeVars == <<sent, due, link, sessions>>
streamVars == <<handler, adding, responder, msg, routes>>
dispatcherVars == <<known, writer, dispatch>>
vars == <<storeVars, specs, workerVars, nodeVars, streamVars, dispatcherVars>>

-----------------------------------------------------------------------------
(* Types *)

Message == [task : Tasks, kind : Replies]

RoutingTypes ==
    /\ DOMAIN known \subseteq Nodes /\ known \in [DOMAIN known -> BOOLEAN]
    /\ DOMAIN specs \subseteq Nodes
    /\ writer \in Nodes \cup {None}
    /\ pc \in [Tasks -> {Idle, "send", "offer", "wait", "done"}]
    /\ res \in [Tasks -> {None, "disconnected", "disconnecting", "timeout"}
                         \cup Replies]
    /\ ch \in [Tasks -> Replies \cup {None}]
    /\ sent \subseteq Tasks
    /\ due \in [Tasks -> SUBSET Replies]
    /\ link \in [Nodes -> {"off", "up", "down"}]
    /\ handler \in [Nodes -> {"off", "register", "fetch", "range", "send", "add",
                              "stuck", "join", "unregister"}]
    /\ adding \in [Nodes -> Tasks \cup {None}]
    /\ \A n \in Nodes : adding[n] \in Tasks <=> handler[n] \in {"send", "add"}
    /\ responder \in [Nodes -> {"off", "recv", "route", "close", "closed"}]
    /\ msg \in [Nodes -> Message \cup {None}]
    /\ \A n \in Nodes : responder[n] = "route" => msg[n] \in Message
    /\ dispatch \in [Nodes -> {"absent", "nil", "open"}]
    /\ routes \subseteq Tasks
    /\ sessions \in 0..MaxSessions
    /\ results \in [Tasks -> Replies \cup {None, "gone"}]
    /\ unrecorded \subseteq Calls \cup Tasks

TypeOK ==
    /\ RoutingTypes
    /\ \A c \in Calls : groups[c] # None => groups[c] \in GroupEntries
    /\ order \in Seq(Calls \cup Tasks)
    /\ \A c \in Calls : requests[c] # None => requests[c] \in RequestEntries

Init ==
    /\ StoreInit
    /\ known = T!NoNodes /\ specs = T!NoNodes /\ writer = None
    /\ pc = [t \in Tasks |-> Idle] /\ res = [t \in Tasks |-> None]
    /\ ch = [t \in Tasks |-> None] /\ sent = {}
    /\ due = [t \in Tasks |-> {}]
    /\ link = [n \in Nodes |-> "off"] /\ handler = [n \in Nodes |-> "off"]
    /\ adding = [n \in Nodes |-> None] /\ responder = [n \in Nodes |-> "off"]
    /\ msg = [n \in Nodes |-> None] /\ dispatch = [n \in Nodes |-> "absent"]
    /\ routes = {} /\ sessions = 0

-----------------------------------------------------------------------------
(* The dispatcher's RWMutex: a worker that offers its task reads, and the    *)
(* writer that has announced itself waits for it and holds back the others.  *)

Readers == {t \in Tasks : pc[t] = "offer"}
MayRead == writer = None

WantsLock(n) == handler[n] \in {"register", "unregister"} \/ responder[n] = "close"

Announce(n) ==
    /\ writer = None /\ WantsLock(n)
    /\ writer' = n
    /\ UNCHANGED <<storeVars, specs, workerVars, nodeVars, streamVars, known,
                   dispatch>>

Locked(n) == writer = n /\ Readers = {}

-----------------------------------------------------------------------------
(* The callers: forwarder calls and the specs collector.                     *)

Worker(c, n) == <<c, n>>
Running(c) == \E n \in Nodes : pc[Worker(c, n)] \in {"send", "offer", "wait"}
Called(c) == \E n \in Nodes : pc[Worker(c, n)] # Idle
Returned(c) == Called(c) /\ ~Running(c)

\* The workers of a call: those of the connected targets set out, the others
\* are reported at once.
StartWorkers(c, targets) ==
    LET Of(t) == CallOf(t) = c /\ NodeOf(t) \in DOMAIN targets
    IN  /\ pc' = [t \in Tasks |->
                    IF ~Of(t) THEN pc[t]
                    ELSE IF targets[NodeOf(t)] THEN "send" ELSE "done"]
        /\ res' = [t \in Tasks |->
                    IF Of(t) /\ ~targets[NodeOf(t)] THEN "disconnected" ELSE res[t]]

\* Bound: no more than MaxWorkers workers set out.
SetOut(t) == pc[t] # Idle /\ res[t] # "disconnected"
Bounded == Cardinality({t \in Tasks : SetOut(t)'}) <= MaxWorkers

\* ExecTask of the forwarder, until its workers are started.  A target that
\* TargetedNodes refuses ends the call with an error.
ExecTask(c) ==
    /\ ~Called(c) /\ MayRead
    /\ LET found == T!TargetedNodes(known, specs, Request[c].mode, Request[c].target)
       IN  /\ ~found.err
           /\ StoreRequest(c, found.nodes)
           /\ StartWorkers(c, found.nodes)
    /\ Bounded
    /\ UNCHANGED <<specs, ch, nodeVars, streamVars, dispatcherVars>>

\* One round of CollectNodesSpecs: no request is recorded, and a node that is
\* not ready is passed over.  Bound: the collector does one round.
CollectNodesSpecs ==
    /\ ~Called(Collector) /\ MayRead
    /\ \E n \in DOMAIN known : known[n]
    /\ pc' = [t \in Tasks |->
                IF CallOf(t) = Collector /\ T!IsReady(known, NodeOf(t))
                THEN "send" ELSE pc[t]]
    /\ UNCHANGED <<storeVars, specs, res, ch, nodeVars, streamVars, dispatcherVars>>
    /\ Bounded

Finish(t, report) ==
    /\ pc' = [pc EXCEPT ![t] = "done"]
    /\ res' = [res EXCEPT ![t] = report]

\* Dispatcher.Send takes the read lock: a node that is gone, or going, is
\* reported, otherwise the task is offered, the lock held.
Send(t) ==
    /\ pc[t] = "send" /\ MayRead
    /\ IF dispatch[NodeOf(t)] = "open"
       THEN pc' = [pc EXCEPT ![t] = "offer"] /\ UNCHANGED res
       ELSE Finish(t, "disconnecting")
    /\ UNCHANGED <<storeVars, specs, ch, nodeVars, streamVars, dispatcherVars>>

\* fault: an offer is never given up.
SendBlocks(t) == FALSE /\ UNCHANGED vars

SendTimeout(t) ==
    /\ pc[t] = "offer"
    /\ Finish(t, "timeout")
    /\ UNCHANGED <<storeVars, specs, ch, nodeVars, streamVars, dispatcherVars>>

\* The specs of a node are replaced by those it answered.
SetSpec(n) ==
    specs' = [m \in DOMAIN specs \cup {n} |-> IF m = n THEN SpecsOf[m] ELSE specs[m]]

\* The collector's worker; an answer may be one it cannot use.
CollectSpecs(t) ==
    \/ ch[t] = Answer /\ SetSpec(NodeOf(t))
    \/ UNCHANGED specs

\* The worker takes what its channel holds.
ReceiveResponse(t) ==
    /\ pc[t] = "wait" /\ ch[t] # None
    /\ Finish(t, ch[t])
    /\ ch' = [ch EXCEPT ![t] = None]
    /\ IF CallOf(t) = Collector THEN CollectSpecs(t) ELSE UNCHANGED specs
    /\ UNCHANGED <<storeVars, nodeVars, streamVars, dispatcherVars>>

\* fault: the wait for an answer has no timeout.
WaitBlocks(t) == FALSE /\ UNCHANGED vars

\* fault: a wait that ends after the node went away is told as disconnecting.
WaitBlamesNode(t) ==
    /\ pc[t] = "wait"
    /\ Finish(t, IF known[NodeOf(t)] THEN "timeout" ELSE "disconnecting")
    /\ UNCHANGED <<storeVars, specs, ch, nodeVars, streamVars, dispatcherVars>>

WaitTimeout(t) ==
    /\ pc[t] = "wait"
    /\ Finish(t, "timeout")
    /\ UNCHANGED <<storeVars, specs, ch, nodeVars, streamVars, dispatcherVars>>

-----------------------------------------------------------------------------
(* The stream of a node: its handler.                                        *)

\* The node opens its stream, the handler has found it registered.
Open(n) ==
    /\ handler[n] = "off" /\ sessions < MaxSessions
    /\ sessions' = sessions + 1
    /\ link' = [link EXCEPT ![n] = "up"]
    /\ handler' = [handler EXCEPT ![n] = "register"]
    /\ UNCHANGED <<storeVars, specs, workerVars, sent, due, adding, responder, msg,
                   routes, dispatcherVars>>

\* RegisterNode; the responder goroutine starts.
RegisterNode(n) ==
    /\ handler[n] = "register" /\ Locked(n)
    /\ dispatch' = [dispatch EXCEPT ![n] = "open"]
    /\ known' = [m \in DOMAIN known \cup {n} |-> IF m = n THEN TRUE ELSE known[m]]
    /\ writer' = None
    /\ handler' = [handler EXCEPT ![n] = "fetch"]
    /\ responder' = [responder EXCEPT ![n] = "recv"]
    /\ UNCHANGED <<storeVars, specs, workerVars, nodeVars, adding, msg, routes>>

\* GetTasksChannel: once the responder has closed it, the channel is nil and
\* the loop over it never ends.
GetTasksChannel(n) ==
    /\ handler[n] = "fetch" /\ MayRead
    /\ handler' = [handler EXCEPT ![n] =
                    IF dispatch[n] = "nil" THEN "stuck" ELSE "range"]
    /\ UNCHANGED <<storeVars, specs, workerVars, nodeVars, adding, responder, msg,
                   routes, dispatcherVars>>

\* The handler takes an offered task: its worker waits for the answer from now on.
TakeTask(t) ==
    LET n == NodeOf(t)
    IN  /\ handler[n] = "range" /\ pc[t] = "offer" /\ dispatch[n] = "open"
        /\ pc' = [pc EXCEPT ![t] = "wait"]
        /\ handler' = [handler EXCEPT ![n] = "send"]
        /\ adding' = [adding EXCEPT ![n] = t]
        /\ UNCHANGED <<storeVars, specs, res, ch, nodeVars, responder, msg, routes,
                       dispatcherVars>>

\* stream.Send; a broken stream ends the loop, and the task is lost to its worker.
SendTask(n) ==
    LET t == adding[n]
    IN  /\ handler[n] = "send"
        /\ IF link[n] = "down"
           THEN /\ handler' = [handler EXCEPT ![n] = "join"]
                /\ adding' = [adding EXCEPT ![n] = None]
                /\ UNCHANGED <<sent, due>>
           ELSE /\ sent' = sent \cup {t}
                /\ due' = [due EXCEPT ![t] = Replies]
                /\ handler' = [handler EXCEPT ![n] = "add"]
                /\ UNCHANGED adding
        /\ UNCHANGED <<storeVars, specs, workerVars, link, sessions, responder, msg,
                       routes, dispatcherVars>>

\* fault: the task added last is not forgotten.
AddRouteAgain(n) ==
    /\ handler[n] = "add"
    /\ routes' = routes \cup {adding[n]}
    /\ handler' = [handler EXCEPT ![n] = "range"]
    /\ UNCHANGED <<storeVars, specs, workerVars, nodeVars, adding, responder, msg,
                   dispatcherVars>>

\* The channel of the answer is registered after the request was sent.
AddRoute(n) ==
    /\ handler[n] = "add"
    /\ routes' = routes \cup {adding[n]}
    /\ handler' = [handler EXCEPT ![n] = "range"]
    /\ adding' = [adding EXCEPT ![n] = None]
    /\ UNCHANGED <<storeVars, specs, workerVars, nodeVars, responder, msg,
                   dispatcherVars>>

\* The goroutine that AddRoute starts wakes up after the request's timeout.
CleanUpRoute(t) ==
    /\ t \in routes
    /\ routes' = routes \ {t}
    /\ UNCHANGED <<storeVars, specs, workerVars, nodeVars, handler, adding,
                   responder, msg, dispatcherVars>>

\* The loop ends when the channel is closed.
LeaveLoop(n) ==
    /\ handler[n] = "range" /\ dispatch[n] = "nil"
    /\ handler' = [handler EXCEPT ![n] = "join"]
    /\ UNCHANGED <<storeVars, specs, workerVars, nodeVars, adding, responder, msg,
                   routes, dispatcherVars>>

\* The handler has the responder's error, and runs its deferred functions.
Join(n) ==
    /\ handler[n] = "join" /\ responder[n] = "closed"
    /\ handler' = [handler EXCEPT ![n] = "unregister"]
    /\ responder' = [responder EXCEPT ![n] = "off"]
    /\ UNCHANGED <<storeVars, specs, workerVars, nodeVars, adding, msg, routes,
                   dispatcherVars>>

\* UnregisterNode; the handler returns and its map of routes goes with it.
UnregisterNode(n) ==
    /\ handler[n] = "unregister" /\ Locked(n)
    /\ dispatch' = [dispatch EXCEPT ![n] = "absent"]
    /\ known' = [known EXCEPT ![n] = FALSE]
    /\ writer' = None
    /\ handler' = [handler EXCEPT ![n] = "off"]
    /\ routes' = {t \in routes : NodeOf(t) # n}
    /\ link' = [link EXCEPT ![n] = "off"]
    /\ UNCHANGED <<storeVars, specs, workerVars, sent, due, sessions, adding,
                   responder, msg>>

-----------------------------------------------------------------------------
(* The stream of a node: the node, and the responder goroutine.              *)

OnStream(n) == {t \in Tasks : NodeOf(t) = n}

\* The stream's context ends, or the node is told to leave: what it has not said
\* is lost.
LinkBreaks(n) ==
    /\ link[n] = "up"
    /\ link' = [link EXCEPT ![n] = "down"]
    /\ due' = [t \in Tasks |-> IF t \in OnStream(n) THEN {} ELSE due[t]]
    /\ UNCHANGED <<storeVars, specs, workerVars, sent, sessions, streamVars,
                   dispatcherVars>>

\* Notices are not recorded, the answer comes later.
Record(t, kind) ==
    IF kind = Answer THEN StoreResult(t, kind) ELSE UNCHANGED storeVars

\* fault: the answer is routed first and recorded by whoever comes next.
ReceiveUnrecorded(n) ==
    /\ responder[n] = "recv" /\ link[n] = "up"
    /\ \E t \in OnStream(n) : \E kind \in due[t] :
        /\ due' = [due EXCEPT ![t] = @ \ {kind}]
        /\ msg' = [msg EXCEPT ![n] = [task |-> t, kind |-> kind]]
    /\ responder' = [responder EXCEPT ![n] = "route"]
    /\ UNCHANGED <<storeVars, specs, workerVars, sent, link, sessions, handler,
                   adding, routes, dispatcherVars>>

\* Recv returns a message, which is recorded, if it can be, and then routed.
Receive(n) ==
    /\ responder[n] = "recv" /\ link[n] = "up"
    /\ \E t \in OnStream(n) : \E kind \in due[t] :
        /\ due' = [due EXCEPT ![t] = @ \ {kind}]
        /\ Record(t, kind)
        /\ msg' = [msg EXCEPT ![n] = [task |-> t, kind |-> kind]]
    /\ responder' = [responder EXCEPT ![n] = "route"]
    /\ UNCHANGED <<specs, workerVars, sent, link, sessions, handler, adding, routes,
                   dispatcherVars>>

\* ctx.Done is looked at after every Recv, so that what had arrived is lost.
StopReceiving(n) ==
    /\ responder[n] = "recv" /\ link[n] = "down"
    /\ responder' = [responder EXCEPT ![n] = "close"]
    /\ UNCHANGED <<storeVars, specs, workerVars, nodeVars, handler, adding, msg,
                   routes, dispatcherVars>>

\* fault: the route stays after the message was delivered.
RouteKept(n) ==
    LET t == msg[n].task
    IN  /\ responder[n] = "route"
        /\ ch' = [ch EXCEPT ![t] =
                    IF t \in routes /\ @ = None THEN msg[n].kind ELSE @]
        /\ responder' = [responder EXCEPT ![n] = "recv"]
        /\ msg' = [msg EXCEPT ![n] = None]
        /\ UNCHANGED <<storeVars, specs, pc, res, nodeVars, handler, adding, routes,
                       dispatcherVars>>

\* The message goes to the channel that waits for it, if there is one (when
\* the channel is full the responder gives up after a while), and the route
\* is removed.
Route(n) ==
    LET t == msg[n].task
    IN  /\ responder[n] = "route"
        /\ ch' = [ch EXCEPT ![t] =
                    IF t \in routes /\ @ = None THEN msg[n].kind ELSE @]
        /\ routes' = routes \ {t}
        /\ responder' = [responder EXCEPT ![n] = "recv"]
        /\ msg' = [msg EXCEPT ![n] = None]
        /\ UNCHANGED <<storeVars, specs, pc, res, nodeVars, handler, adding,
                       dispatcherVars>>

\* The responder closes the node's channel.
Close(n) ==
    /\ responder[n] = "close" /\ Locked(n)
    /\ dispatch' = [dispatch EXCEPT ![n] = "nil"]
    /\ known' = [known EXCEPT ![n] = FALSE]
    /\ writer' = None
    /\ responder' = [responder EXCEPT ![n] = "closed"]
    /\ UNCHANGED <<storeVars, specs, workerVars, nodeVars, handler, adding, msg,
                   routes>>

\* Results outlive the calls that asked for them.
Expire ==
    /\ \A c \in Calls \cup {Collector} : ~Running(c)
    /\ ExpireOldest
    /\ UNCHANGED <<specs, workerVars, nodeVars, streamVars, dispatcherVars>>

WorkerStep(t) == Send(t) \/ SendTimeout(t) \/ ReceiveResponse(t) \/ WaitTimeout(t)

HandlerStep(n) ==
    \/ RegisterNode(n) \/ GetTasksChannel(n) \/ SendTask(n) \/ AddRoute(n)
    \/ LeaveLoop(n) \/ Join(n) \/ UnregisterNode(n)

ResponderStep(n) == StopReceiving(n) \/ Route(n) \/ Close(n)

Next ==
    \/ \E c \in Calls : ExecTask(c)
    \/ CollectNodesSpecs
    \/ Expire
    \/ \E t \in Tasks : WorkerStep(t) \/ TakeTask(t) \/ CleanUpRoute(t)
    \/ \E n \in Nodes : \/ Open(n) \/ LinkBreaks(n)
                        \/ Announce(n) \/ HandlerStep(n)
                        \/ Receive(n) \/ ResponderStep(n)

Spec == Init /\ [][Next]_vars

\* Goroutines run, timers fire, and Go's RWMutex lets the announced writer in
\* when its readers leave and the waiting readers in when the writer leaves.
\* Nothing is assumed of nodes and callers.
FairSpec ==
    /\ Spec
    /\ \A t \in Tasks : WF_vars(WorkerStep(t))
    /\ \A n \in Nodes : WF_vars(Announce(n) \/ HandlerStep(n) \/ ResponderStep(n))

-----------------------------------------------------------------------------
(* Properties *)

\* An answer that a caller was given was recorded, or its loss was logged: storeResult
\* comes before the routing, and is the only place where an answer is lost.
ReportedIsStored ==
    \A t \in Tasks : res[t] = Answer => results[t] # None \/ t \in unrecorded

\* A kept result is listed by its group, once: the STARTED_TIMEOUT notice of a
\* task leaves no entry, and a group outlives the results it names although
\* its entry was created with the TTL of the first.
KeptIsListedOnce ==
    \A t \in Tasks : Kept(t) /\ CallOf(t) \in Calls =>
        /\ groups[CallOf(t)] # None
        /\ Cardinality({i \in DOMAIN groups[CallOf(t)].members :
                            groups[CallOf(t)].members[i] = t}) = 1

\* The responder of a stream never waits for a caller: the channel it delivers
\* to has room, whatever order notices, answers and timeouts come in.
ResponderNeverWaits ==
    \A n \in Nodes : responder[n] = "route" /\ msg[n].task \in routes =>
        ch[msg[n].task] = None

\* The abstract promise: what was asked, sent, recorded and told of each task.
Asked == {t \in Tasks : pc[t] # Idle}
Answered == {t \in Tasks : results[t] # None}
Lost == unrecorded \cap Tasks
Refusals == {"disconnected", "disconnecting"}

Delivery == INSTANCE TaskDelivery WITH
    Timeout <- "timeout", Notice <- Notice, Answer <- Answer,
    asked <- Asked, delivered <- sent, recorded <- Answered, lost <- Lost,
    told <- res

\* However workers, handlers, responders, timers, failed writes and expiry interleave,
\* a task is sent at most once, its answer is recorded or lost once, and its caller is
\* told one report, which agrees with both: who is told of a disconnected node may ask
\* again, for the task was not and will not be sent; who has the answer finds it
\* recorded unless it was lost.  Only a timeout says nothing, the task may yet be sent.
ImplementsDelivery == Delivery!Spec

\* Before a call is made its filter, whatever its conditions on names and specs,
\* selects the known nodes that satisfy it, each with its readiness, or fails.
QuerySelectsSatisfying ==
    (\A c \in Calls : ~Called(c)) =>
        \A q \in Queries :
            LET found == T!TargetedNodes(known, specs, "QUERY", q)
            IN  ~found.err =>
                    found.nodes = [n \in {m \in DOMAIN known : T!Satisfies(specs, m, q)}
                                   |-> known[n]]

\* `results get` of a result or of a group shows no other request than the one it
\* answers, and for as long as that request is kept it shows it, with answers, none of
\* which has expired, of nodes that were connected then: the request is recorded before
\* its workers set out, and entries expire in the order they were written.
ResultLeadsToRequest ==
    \A id \in IdOrders : \A key \in Calls \cup (Calls \X Nodes) :
        LET c == IF key \in Calls THEN key ELSE CallOf(key)
        IN  Stored(key) =>
                /\ ShownRequest(id, key) \subseteq {c}
                /\ requests[c] # None =>
                    /\ ShownRequest(id, key) = {c}
                    /\ Shown(key) # {}
                    /\ \A answers \in Shown(key) : \A i \in DOMAIN answers :
                            NodeOf(answers[i]) \in requests[c].connected

\* Turning the pages of `results list` shows what its filters let through, newest
\* first, each entry once: the i-th entry of a page has the offset and i - 1 newer
\* ones before it, and an entry whose place is on the page is there.
PagesCoverListing ==
    \A id \in IdOrders : \A flags \in Listings : AsksForList(flags) =>
        LET req == ListRequest(flags)
            through == {k \in Tasks \cup Calls : /\ Stored(k)
                                                /\ InDates(id, flags, k)
                                                /\ OnTargets(flags, k)}
            place(k) == Cardinality({j \in through : id[j] > id[k]})
            page == ListResults(id, req)
        IN  /\ \A i \in DOMAIN page :
                    page[i] \in through /\ place(page[i]) = flags.offset + i - 1
            /\ \A k \in through : \A i \in 1..PageSize(req) :
                    place(k) = flags.offset + i - 1 => i \in DOMAIN page /\ page[i] = k

\* Every call returns, whatever the nodes do: neither a handler that is gone
\* nor an announced writer holds a worker for ever.
CallReturns ==
    \A c \in Calls \cup {Collector} : Called(c) ~> Returned(c)

\* The place of a node whose stream broke is freed, although workers may hold
\* the read lock while they offer tasks to it; the exception is a handler that
\* fetched a channel already closed.
PlaceIsFreed ==
    \A n \in Nodes : link[n] = "down" ~> (link[n] = "off" \/ handler[n] = "stuck")
=============================================================================
