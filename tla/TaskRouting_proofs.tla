-------------------------- MODULE TaskRouting_proofs --------------------------
(***************************************************************************)
(* Proofs about TaskRouting, for every set of calls and of nodes, every    *)
(* request, every filter and every number of streams.                      *)
(*                                                                         *)
(* The inductive invariant RoutingInv follows a task: a worker that has no *)
(* report yet has told nothing; what was sent was taken from a worker that *)
(* was not refused; an answer is recorded, or lost, from the moment it was *)
(* received; and a channel is empty for as long as a route leads to it.    *)
(*                                                                         *)
(* StoreInv, inductive with RoutingInv, follows a call in the job          *)
(* database: a request that is kept names the nodes that were asked and    *)
(* expires before any of its results, each task is answered at most once,  *)
(* and the entry of its group names every answer that is kept, once.  That *)
(* a call's targets are nodes rests on what a filter selects: its          *)
(* recursive evaluation is shown equal to a set.                           *)
(*                                                                         *)
(* A listing is followed key by key: PageHolds says what it holds when the *)
(* filters let a number of entries through, and the i-th key listed is the *)
(* one that has i - 1 newer.                                               *)
(*                                                                         *)
(* Together with SentInv, which has messages come only of tasks that were  *)
(* sent, the two invariants show that TaskRouting implements TaskDelivery. *)
(***************************************************************************)
EXTENDS TaskRouting, NatRecursion, SequenceTheorems, FiniteSetTheorems, TLAPS

\* A target reported as disconnected or disconnecting was not sent the task.
RefusedNeverSent == \A t \in Tasks : res[t] \in Refusals => t \notin sent

\* A worker that is not done has reported nothing, and its task was sent only if it
\* waits for the answer.
WorkersInOrder ==
    \A t \in Tasks :
        /\ pc[t] # "done" => res[t] = None
        /\ t \in sent => pc[t] \in {"wait", "done"}

\* A task that a handler has taken, and not sent yet, was not refused.
HandedOver ==
    \A n \in Nodes : handler[n] = "send" =>
        adding[n] \notin sent /\ res[adding[n]] \notin Refusals

\* An answer that is on its way to its worker was recorded, or lost.
Settled(t) == results[t] # None \/ t \in unrecorded
AnswersRecorded ==
    /\ \A t \in Tasks : ch[t] = Answer => Settled(t)
    /\ \A n \in Nodes : responder[n] = "route" /\ msg[n].kind = Answer =>
            Settled(msg[n].task)

\* A channel to which a route leads, or is about to, is empty; a route is added
\* once, by the handler of the task's node.
RoutesLeadToRoom ==
    /\ \A t \in Tasks :
            /\ t \in routes => ch[t] = None /\ pc[t] \in {"wait", "done"}
            /\ pc[t] \in {Idle, "send", "offer"} => ch[t] = None
    /\ \A n \in Nodes : handler[n] \in {"send", "add"} =>
            /\ NodeOf(adding[n]) = n
            /\ adding[n] \notin routes /\ ch[adding[n]] = None
            /\ pc[adding[n]] \in {"wait", "done"}

RoutingInv ==
    /\ RoutingTypes
    /\ WorkersInOrder
    /\ RefusedNeverSent
    /\ HandedOver
    /\ AnswersRecorded
    /\ ReportedIsStored
    /\ RoutesLeadToRoom

-----------------------------------------------------------------------------
(* The workers *)

\* A task is a call and a node.
LEMMA TaskParts ==
    ASSUME NEW t \in Tasks
    PROVE  /\ CallOf(t) \in Calls \cup {Collector} /\ NodeOf(t) \in Nodes
           /\ t = <<CallOf(t), NodeOf(t)>>
BY DEF Tasks, CallOf, NodeOf

\* The tasks of a call that was not made are idle.
LEMMA NotCalled ==
    ASSUME NEW c, ~Called(c), NEW t \in Tasks, CallOf(t) = c
    PROVE  pc[t] = Idle
BY TaskParts DEF Called, Worker

\* Starting workers, whatever the targets are, keeps the invariant.
LEMMA ExecTaskInv ==
    ASSUME RoutingInv, NEW c \in Calls, ExecTask(c)
    PROVE  RoutingInv'
<1>0. PICK targets :
        /\ StartWorkers(c, targets)
        /\ results' = results
        /\ unrecorded' \in {unrecorded, unrecorded \cup {c}}
  BY DEF ExecTask, StoreRequest, WriteRequest, FailToWrite
<1>1. /\ pc \in [Tasks -> {Idle, "send", "offer", "wait", "done"}]
      /\ res \in [Tasks -> {None, "disconnected", "disconnecting", "timeout"}
                           \cup Replies]
      /\ \A n \in Nodes : handler[n] \in {"send", "add"} => adding[n] \in Tasks
      /\ \A n \in Nodes : responder[n] = "route" => msg[n].task \in Tasks
  BY DEF RoutingInv, RoutingTypes, Message
<1>2. ASSUME NEW t \in Tasks
      PROVE  \/ pc'[t] = pc[t] /\ res'[t] = res[t]
             \/ pc[t] = Idle /\ pc'[t] = "send" /\ res'[t] = res[t]
             \/ pc[t] = Idle /\ pc'[t] = "done" /\ res'[t] = "disconnected"
  BY <1>0, NotCalled DEF ExecTask, StartWorkers
<1>3. /\ pc' \in [Tasks -> {Idle, "send", "offer", "wait", "done"}]
      /\ res' \in [Tasks -> {None, "disconnected", "disconnecting", "timeout"}
                            \cup Replies]
  BY <1>0, <1>1 DEF StartWorkers
<1>4. UNCHANGED <<specs, ch, sent, due, link, sessions, handler, adding, responder,
                  msg, routes, known, writer, dispatch>>
  BY DEF ExecTask, nodeVars, streamVars, dispatcherVars
<1>5. RoutingTypes'
  BY <1>0, <1>3, <1>4 DEF RoutingInv, RoutingTypes
<1>6. WorkersInOrder' /\ RefusedNeverSent'
  BY <1>2, <1>4, NoneAssumption DEF RoutingInv, WorkersInOrder, RefusedNeverSent, Idle
<1>7. AnswersRecorded' /\ ReportedIsStored'
  BY <1>0, <1>1, <1>2, <1>4 DEF RoutingInv, AnswersRecorded, Settled, ReportedIsStored,
     Answer
<1>8. RoutesLeadToRoom' /\ HandedOver'
  BY <1>1, <1>2, <1>4 DEF RoutingInv, RoutesLeadToRoom, HandedOver, Idle
<1>q. QED
  BY <1>5, <1>6, <1>7, <1>8 DEF RoutingInv

\* So does a round of the specs collector.
LEMMA CollectorInv ==
    ASSUME RoutingInv, CollectNodesSpecs
    PROVE  RoutingInv'
<1>1. ASSUME NEW t \in Tasks
      PROVE  \/ pc'[t] = pc[t]
             \/ pc[t] = Idle /\ pc'[t] = "send"
  BY NotCalled DEF CollectNodesSpecs
<1>2. UNCHANGED <<specs, res, ch, sent, due, link, sessions, handler, adding, responder,
                  msg, routes, known, writer, dispatch, results, unrecorded>>
  BY DEF CollectNodesSpecs, nodeVars, streamVars, dispatcherVars, storeVars
<1>3. pc' \in [Tasks -> {Idle, "send", "offer", "wait", "done"}]
  BY DEF CollectNodesSpecs, RoutingInv, RoutingTypes
<1>4. RoutingTypes'
  BY <1>2, <1>3 DEF RoutingInv, RoutingTypes
<1>5. WorkersInOrder' /\ RefusedNeverSent' /\ AnswersRecorded' /\ ReportedIsStored'
  BY <1>1, <1>2 DEF RoutingInv, WorkersInOrder, RefusedNeverSent, AnswersRecorded,
     Settled, ReportedIsStored, Idle
<1>6. RoutesLeadToRoom' /\ HandedOver'
  <2>1. \A n \in Nodes : handler[n] \in {"send", "add"} => adding[n] \in Tasks
    BY DEF RoutingInv, RoutingTypes
  <2>q. QED
    BY <1>1, <1>2, <2>1 DEF RoutingInv, RoutesLeadToRoom, HandedOver, Idle
<1>q. QED
  BY <1>4, <1>5, <1>6 DEF RoutingInv

\* A worker that offers its task, gives up, or takes what its channel holds keeps
\* the invariant.
LEMMA WorkerStepInv ==
    ASSUME RoutingInv, NEW t \in Tasks, WorkerStep(t)
    PROVE  RoutingInv'
<1>0. /\ pc \in [Tasks -> {Idle, "send", "offer", "wait", "done"}]
      /\ res \in [Tasks -> {None, "disconnected", "disconnecting", "timeout"}
                           \cup Replies]
      /\ ch \in [Tasks -> Replies \cup {None}]
      /\ NodeOf(t) \in Nodes
      /\ \A n \in Nodes : handler[n] \in {"send", "add"} => adding[n] \in Tasks
      /\ \A n \in Nodes : responder[n] = "route" => msg[n].task \in Tasks
  BY TaskParts DEF RoutingInv, RoutingTypes, Message
<1>1. UNCHANGED <<sent, due, link, sessions, handler, adding, responder, msg, routes,
                  known, writer, dispatch, results, unrecorded>>
  BY DEF WorkerStep, Send, SendTimeout, ReceiveResponse, WaitTimeout, Finish, nodeVars,
     streamVars, dispatcherVars, storeVars
<1>2. \/ pc[t] = "send" /\ pc' = [pc EXCEPT ![t] = "offer"] /\ UNCHANGED <<res, ch>>
      \/ pc[t] = "send" /\ Finish(t, "disconnecting") /\ UNCHANGED ch
      \/ pc[t] \in {"offer", "wait"} /\ Finish(t, "timeout") /\ UNCHANGED ch
      \/ /\ pc[t] = "wait" /\ ch[t] # None /\ Finish(t, ch[t])
         /\ ch' = [ch EXCEPT ![t] = None]
  BY DEF WorkerStep, Send, SendTimeout, ReceiveResponse, WaitTimeout
<1>3. DOMAIN specs' \subseteq Nodes
  BY <1>0 DEF RoutingInv, RoutingTypes, WorkerStep, Send, SendTimeout, ReceiveResponse,
     WaitTimeout, CollectSpecs, SetSpec
<1>4. RoutingTypes'
  <2>1. /\ pc' \in [Tasks -> {Idle, "send", "offer", "wait", "done"}]
        /\ res' \in [Tasks -> {None, "disconnected", "disconnecting", "timeout"}
                              \cup Replies]
        /\ ch' \in [Tasks -> Replies \cup {None}]
    BY <1>0, <1>2 DEF Finish
  <2>q. QED
    BY <1>1, <1>3, <2>1 DEF RoutingInv, RoutingTypes
<1>5. WorkersInOrder' /\ RefusedNeverSent'
  BY <1>0, <1>1, <1>2, NoneAssumption DEF RoutingInv, WorkersInOrder, RefusedNeverSent,
     Refusals, Finish, Replies, Answer, Notice
<1>6. AnswersRecorded' /\ ReportedIsStored'
  BY <1>0, <1>1, <1>2, NoneAssumption DEF RoutingInv, AnswersRecorded, Settled,
     ReportedIsStored, Finish, Replies, Answer
<1>7. RoutesLeadToRoom'
  BY <1>0, <1>1, <1>2 DEF RoutingInv, RoutesLeadToRoom, Finish, Idle
<1>8. HandedOver'
  BY <1>0, <1>1, <1>2, NoneAssumption DEF RoutingInv, RoutesLeadToRoom, HandedOver,
     Refusals, Finish, Replies, Answer, Notice
<1>q. QED
  BY <1>4, <1>5, <1>6, <1>7, <1>8 DEF RoutingInv

-----------------------------------------------------------------------------
(* The stream of a node *)

\* The handler that takes a task off its worker.
LEMMA TakeTaskInv ==
    ASSUME RoutingInv, NEW t \in Tasks, TakeTask(t)
    PROVE  RoutingInv'
<1>0. /\ RoutingTypes /\ NodeOf(t) \in Nodes
      /\ \A n \in Nodes : handler[n] \in {"send", "add"} => adding[n] \in Tasks
  BY TaskParts DEF RoutingInv, RoutingTypes
<1>1. /\ pc[t] = "offer" /\ pc' = [pc EXCEPT ![t] = "wait"]
      /\ handler[NodeOf(t)] = "range"
      /\ handler' = [handler EXCEPT ![NodeOf(t)] = "send"]
      /\ adding' = [adding EXCEPT ![NodeOf(t)] = t]
      /\ UNCHANGED <<specs, res, ch, sent, due, link, sessions, responder, msg, routes,
                     known, writer, dispatch, results, unrecorded>>
  BY DEF TakeTask, dispatcherVars, storeVars, nodeVars
<1>2. /\ t \notin sent /\ res[t] = None
      /\ None \notin Refusals
  BY <1>1, NoneAssumption DEF RoutingInv, WorkersInOrder, Refusals
<1>3. RoutingTypes'
  <2>1. pc' \in [Tasks -> {Idle, "send", "offer", "wait", "done"}]
    BY <1>0, <1>1 DEF RoutingTypes
  <2>2. /\ handler' \in [Nodes -> {"off", "register", "fetch", "range", "send", "add",
                                   "stuck", "join", "unregister"}]
        /\ adding' \in [Nodes -> Tasks \cup {None}]
        /\ \A n \in Nodes : adding'[n] \in Tasks <=> handler'[n] \in {"send", "add"}
    BY <1>0, <1>1 DEF RoutingTypes
  <2>q. QED
    BY <1>0, <1>1, <2>1, <2>2 DEF RoutingTypes
<1>4. WorkersInOrder' /\ RefusedNeverSent' /\ HandedOver'
  BY <1>0, <1>1, <1>2 DEF RoutingInv, RoutingTypes, WorkersInOrder, RefusedNeverSent,
     HandedOver
<1>5. AnswersRecorded' /\ ReportedIsStored'
  BY <1>1 DEF RoutingInv, AnswersRecorded, Settled, ReportedIsStored
<1>6. RoutesLeadToRoom'
  BY <1>0, <1>1 DEF RoutingInv, RoutingTypes, RoutesLeadToRoom, Idle
<1>q. QED
  BY <1>3, <1>4, <1>5, <1>6 DEF RoutingInv

\* The handler that sends the task it has taken, or finds the stream broken.
LEMMA SendTaskInv ==
    ASSUME RoutingInv, NEW n \in Nodes, SendTask(n)
    PROVE  RoutingInv'
<1> DEFINE t == adding[n]
<1>0. /\ RoutingTypes /\ t \in Tasks
      /\ \A m \in Nodes : handler[m] \in {"send", "add"} => adding[m] \in Tasks
  BY DEF RoutingInv, RoutingTypes, SendTask
<1>1. /\ handler[n] = "send"
      /\ UNCHANGED <<specs, pc, res, ch, link, sessions, responder, msg, routes, known,
                     writer, dispatch, results, unrecorded>>
  BY DEF SendTask, workerVars, dispatcherVars, storeVars
<1>2. \/ /\ handler' = [handler EXCEPT ![n] = "join"]
         /\ adding' = [adding EXCEPT ![n] = None]
         /\ UNCHANGED <<sent, due>>
      \/ /\ sent' = sent \cup {t}
         /\ due' = [due EXCEPT ![t] = Replies]
         /\ handler' = [handler EXCEPT ![n] = "add"]
         /\ UNCHANGED adding
  BY DEF SendTask
<1>3. RoutingTypes'
  <2>1. sent' \subseteq Tasks /\ due' \in [Tasks -> SUBSET Replies]
    BY <1>0, <1>1, <1>2 DEF RoutingTypes
  <2>2. /\ handler' \in [Nodes -> {"off", "register", "fetch", "range", "send", "add",
                                   "stuck", "join", "unregister"}]
        /\ adding' \in [Nodes -> Tasks \cup {None}]
        /\ \A m \in Nodes : adding'[m] \in Tasks <=> handler'[m] \in {"send", "add"}
    BY <1>0, <1>1, <1>2, NoneAssumption DEF RoutingTypes
  <2>q. QED
    BY <1>0, <1>1, <2>1, <2>2 DEF RoutingTypes
<1>4. WorkersInOrder' /\ RefusedNeverSent'
  BY <1>0, <1>1, <1>2 DEF RoutingInv, RoutesLeadToRoom, WorkersInOrder,
     RefusedNeverSent, HandedOver
<1>5. HandedOver'
  <2>1. SUFFICES ASSUME NEW m \in Nodes, handler'[m] = "send"
                 PROVE  adding'[m] \notin sent' /\ res'[adding'[m]] \notin Refusals
    BY DEF HandedOver
  <2>2. m # n /\ handler[m] = "send" /\ adding'[m] = adding[m]
    BY <1>0, <1>2, <2>1 DEF RoutingTypes
  <2>3. adding[m] # t
    BY <1>1, <2>2 DEF RoutingInv, RoutesLeadToRoom
  <2>q. QED
    BY <1>1, <1>2, <2>2, <2>3 DEF RoutingInv, HandedOver
<1>6. AnswersRecorded' /\ ReportedIsStored'
  BY <1>1 DEF RoutingInv, AnswersRecorded, Settled, ReportedIsStored
<1>7. RoutesLeadToRoom'
  BY <1>0, <1>1, <1>2 DEF RoutingInv, RoutingTypes, RoutesLeadToRoom
<1>q. QED
  BY <1>3, <1>4, <1>5, <1>6, <1>7 DEF RoutingInv

\* The handler's other steps on node n's stream, and the opening and breaking of the
\* stream, change no task but for its routes.
LEMMA HandlerStepInv ==
    ASSUME RoutingInv, NEW n \in Nodes,
           Open(n) \/ LinkBreaks(n) \/ Announce(n) \/ (HandlerStep(n) /\ ~ SendTask(n))
    PROVE  RoutingInv'
<1>0. /\ RoutingTypes
      /\ \A m \in Nodes : handler[m] \in {"send", "add"} => adding[m] \in Tasks
  BY DEF RoutingInv, RoutingTypes
<1>1. UNCHANGED <<specs, pc, res, ch, sent, msg, results, unrecorded>>
  BY DEF Open, LinkBreaks, Announce, HandlerStep, RegisterNode, GetTasksChannel,
     AddRoute, LeaveLoop, Join, UnregisterNode, workerVars, nodeVars, streamVars,
     dispatcherVars, storeVars
<1>2. WorkersInOrder' /\ RefusedNeverSent' /\ ReportedIsStored'
  BY <1>1 DEF RoutingInv, WorkersInOrder, RefusedNeverSent, ReportedIsStored
<1>3. \A m \in Nodes : responder'[m] = "route" => responder[m] = "route"
  <2>1. \/ responder' = responder
        \/ responder' = [responder EXCEPT ![n] = "recv"]
        \/ responder' = [responder EXCEPT ![n] = "off"]
    BY DEF Open, LinkBreaks, Announce, HandlerStep, RegisterNode, GetTasksChannel,
       AddRoute, LeaveLoop, Join, UnregisterNode, streamVars
  <2>q. QED
    BY <1>0, <2>1 DEF RoutingTypes
<1>4. AnswersRecorded' /\ HandedOver'
  <2>1. \/ UNCHANGED <<handler, adding>>
        \/ /\ \E label \in {"register", "fetch", "stuck", "range", "join",
                            "unregister", "off"} :
                handler' = [handler EXCEPT ![n] = label]
           /\ adding' \in {adding, [adding EXCEPT ![n] = None]}
    BY DEF Open, LinkBreaks, Announce, HandlerStep, RegisterNode, GetTasksChannel,
       AddRoute, LeaveLoop, Join, UnregisterNode, streamVars
  <2>2. \A m \in Nodes : handler'[m] = "send" =>
            handler[m] = "send" /\ adding'[m] = adding[m]
    BY <1>0, <2>1 DEF RoutingTypes
  <2>q. QED
    BY <1>1, <1>3, <2>2 DEF RoutingInv, AnswersRecorded, Settled, HandedOver
<1>5. CASE AddRoute(n)
  <2>1. RoutingTypes'
    BY <1>0, <1>1, <1>5, NoneAssumption DEF AddRoute, RoutingTypes, nodeVars,
       dispatcherVars
  <2>2. RoutesLeadToRoom'
    BY <1>0, <1>1, <1>5 DEF AddRoute, RoutingInv, RoutingTypes, RoutesLeadToRoom
  <2>q. QED
    BY <1>2, <1>4, <2>1, <2>2 DEF RoutingInv
<1>6. CASE Open(n) \/ LinkBreaks(n) \/ Announce(n)
  <2>1. due' \in [Tasks -> SUBSET Replies]
    BY <1>0, <1>6 DEF Open, LinkBreaks, Announce, RoutingTypes, nodeVars
  <2>2. sessions' \in 0..MaxSessions
    BY <1>0, <1>6, BoundAssumption DEF Open, LinkBreaks, Announce, RoutingTypes,
       nodeVars
  <2>3. RoutingTypes'
    BY <1>0, <1>1, <1>6, <2>1, <2>2 DEF Open, LinkBreaks, Announce, RoutingTypes,
       nodeVars, streamVars, dispatcherVars
  <2>4. RoutesLeadToRoom'
    BY <1>0, <1>1, <1>6 DEF Open, LinkBreaks, Announce, RoutingInv, RoutingTypes,
       RoutesLeadToRoom, streamVars
  <2>q. QED
    BY <1>2, <1>4, <2>3, <2>4 DEF RoutingInv
<1>7. CASE \/ RegisterNode(n) \/ GetTasksChannel(n) \/ LeaveLoop(n) \/ Join(n)
           \/ UnregisterNode(n)
  <2>1. DOMAIN known' \subseteq Nodes /\ known' \in [DOMAIN known' -> BOOLEAN]
    <3>1. CASE RegisterNode(n)
      <4>1. known' = [m \in DOMAIN known \cup {n} |-> IF m = n THEN TRUE ELSE known[m]]
        BY <3>1 DEF RegisterNode
      <4>2. ASSUME NEW m \in DOMAIN known, m # n PROVE known[m] \in BOOLEAN
        BY <1>0, <4>2 DEF RoutingTypes
      <4>q. QED
        BY <1>0, <4>1, <4>2 DEF RoutingTypes
    <3>2. CASE UnregisterNode(n)
      <4>1. known' = [known EXCEPT ![n] = FALSE]
        BY <3>2 DEF UnregisterNode
      <4>q. QED
        BY <1>0, <4>1 DEF RoutingTypes
    <3>3. CASE GetTasksChannel(n) \/ LeaveLoop(n) \/ Join(n)
      BY <1>0, <3>3 DEF GetTasksChannel, LeaveLoop, Join, RoutingTypes, dispatcherVars
    <3>q. QED
      BY <1>7, <3>1, <3>2, <3>3
  <2>2. RoutingTypes'
    <3>1. CASE RegisterNode(n)
      <4>2. \A m \in Nodes : responder'[m] = "route" => msg[m] \in Message
        BY <1>0, <3>1 DEF RegisterNode, RoutingTypes
      <4>3. /\ handler' \in [Nodes -> {"off", "register", "fetch", "range", "send",
                                       "add", "stuck", "join", "unregister"}]
            /\ responder' \in [Nodes -> {"off", "recv", "route", "close", "closed"}]
            /\ dispatch' \in [Nodes -> {"absent", "nil", "open"}]
            /\ writer' = None
            /\ UNCHANGED <<adding, routes, sent, due, link, sessions>>
            /\ \A m \in Nodes : adding[m] \in Tasks <=> handler'[m] \in {"send", "add"}
        BY <1>0, <3>1 DEF RegisterNode, RoutingTypes, nodeVars
      <4>q. QED
        BY <1>0, <1>1, <2>1, <4>2, <4>3 DEF RoutingTypes
    <3>2. CASE UnregisterNode(n)
      BY <1>0, <1>1, <2>1, <3>2 DEF UnregisterNode, RoutingTypes
    <3>3. CASE GetTasksChannel(n) \/ LeaveLoop(n) \/ Join(n)
      BY <1>0, <1>1, <2>1, <3>3 DEF GetTasksChannel, LeaveLoop, Join, RoutingTypes,
         nodeVars, dispatcherVars
    <3>q. QED
      BY <1>7, <3>1, <3>2, <3>3
  <2>3. RoutesLeadToRoom'
    <3>1. CASE RegisterNode(n)
      BY <1>0, <1>1, <3>1 DEF RegisterNode, RoutingInv, RoutingTypes, RoutesLeadToRoom
    <3>4. CASE GetTasksChannel(n)
      BY <1>0, <1>1, <3>4 DEF GetTasksChannel, RoutingInv, RoutingTypes,
         RoutesLeadToRoom
    <3>2. CASE UnregisterNode(n)
      BY <1>0, <1>1, <3>2 DEF UnregisterNode, RoutingInv, RoutingTypes,
         RoutesLeadToRoom
    <3>3. CASE LeaveLoop(n) \/ Join(n)
      BY <1>0, <1>1, <3>3 DEF LeaveLoop, Join, RoutingInv, RoutingTypes,
         RoutesLeadToRoom
    <3>q. QED
      BY <1>7, <3>1, <3>2, <3>3, <3>4
  <2>q. QED
    BY <1>2, <1>4, <2>2, <2>3 DEF RoutingInv
<1>q. QED
  BY <1>5, <1>6, <1>7 DEF HandlerStep

\* A message that was received is recorded, or lost, before it is routed.
LEMMA ReceiveInv ==
    ASSUME RoutingInv, NEW n \in Nodes, Receive(n)
    PROVE  RoutingInv'
<1>0. /\ RoutingTypes
      /\ \A m \in Nodes : responder[m] = "route" => msg[m] \in Message
  BY DEF RoutingInv, RoutingTypes
<1>1. PICK t \in OnStream(n) : \E kind \in due[t] :
        /\ due' = [due EXCEPT ![t] = @ \ {kind}]
        /\ Record(t, kind)
        /\ msg' = [msg EXCEPT ![n] = [task |-> t, kind |-> kind]]
  BY DEF Receive
<1>p. PICK kind \in due[t] :
        /\ due' = [due EXCEPT ![t] = @ \ {kind}]
        /\ Record(t, kind)
        /\ msg' = [msg EXCEPT ![n] = [task |-> t, kind |-> kind]]
  BY <1>1
<1>2. /\ responder[n] = "recv" /\ responder' = [responder EXCEPT ![n] = "route"]
      /\ UNCHANGED <<specs, pc, res, ch, sent, link, sessions, handler, adding, routes,
                     known, writer, dispatch>>
  BY DEF Receive, workerVars, dispatcherVars
<1>3. t \in Tasks /\ kind \in Replies /\ [task |-> t, kind |-> kind] \in Message
  BY <1>0, <1>1, <1>p DEF OnStream, RoutingTypes, Message
<1>4. /\ results' \in [Tasks -> Replies \cup {None, "gone"}]
      /\ unrecorded' \subseteq Calls \cup Tasks
      /\ \A u \in Tasks : Settled(u) => Settled(u)'
      /\ kind = Answer => Settled(t)'
  <2>1. /\ results \in [Tasks -> Replies \cup {None, "gone"}] /\ kind # None
        /\ unrecorded \subseteq Calls \cup Tasks
    BY <1>0, <1>3, NoneAssumption DEF RoutingTypes
  <2>2. CASE kind = Answer /\ WriteResult(t, kind)
    BY <1>3, <2>1, <2>2 DEF WriteResult, Settled
  <2>3. CASE kind = Answer /\ FailToWrite(t)
    BY <1>3, <2>1, <2>3 DEF FailToWrite, Settled
  <2>4. CASE kind # Answer /\ UNCHANGED storeVars
    BY <2>1, <2>4 DEF storeVars, Settled
  <2>q. QED
    BY <1>p, <2>2, <2>3, <2>4 DEF Record, StoreResult
<1>5. RoutingTypes'
  <2>1. /\ msg' \in [Nodes -> Message \cup {None}]
        /\ \A m \in Nodes : responder'[m] = "route" => msg'[m] \in Message
    BY <1>0, <1>p, <1>2, <1>3 DEF RoutingTypes
  <2>2. due' \in [Tasks -> SUBSET Replies]
    BY <1>0, <1>p, <1>3 DEF RoutingTypes
  <2>q. QED
    BY <1>0, <1>2, <1>4, <2>1, <2>2 DEF RoutingTypes
<1>6. /\ WorkersInOrder' /\ RefusedNeverSent' /\ HandedOver'
      /\ RoutesLeadToRoom'
  BY <1>0, <1>2 DEF RoutingInv, RoutingTypes, WorkersInOrder,
     RefusedNeverSent, HandedOver, RoutesLeadToRoom
<1>7. AnswersRecorded'
  <2>1. \A u \in Tasks : ch'[u] = Answer => Settled(u)'
    BY <1>2, <1>4 DEF RoutingInv, AnswersRecorded
  <2>2. ASSUME NEW m \in Nodes, responder'[m] = "route", msg'[m].kind = Answer
        PROVE  Settled(msg[m].task)'
    <3>1. CASE m = n
      BY <1>0, <1>p, <1>3, <1>4, <2>2, <3>1 DEF RoutingTypes, Settled
    <3>2. CASE m # n
      <4>1. responder[m] = "route" /\ msg'[m] = msg[m] /\ msg[m].task \in Tasks
        BY <1>0, <1>p, <1>2, <2>2, <3>2 DEF RoutingTypes, Message
      <4>2. Settled(msg[m].task)
        BY <2>2, <4>1 DEF RoutingInv, AnswersRecorded
      <4>q. QED
        BY <1>4, <4>1, <4>2 DEF Settled
    <3>q. QED
      BY <3>1, <3>2
  <2>q. QED
    BY <2>1, <2>2 DEF AnswersRecorded
<1>8. ReportedIsStored'
  BY <1>2, <1>4 DEF RoutingInv, ReportedIsStored, Settled
<1>q. QED
  BY <1>5, <1>6, <1>7, <1>8 DEF RoutingInv

\* A message that is routed fills an empty channel, and takes its route with it.
LEMMA RouteInv ==
    ASSUME RoutingInv, NEW n \in Nodes, Route(n)
    PROVE  RoutingInv'
<1> DEFINE t == msg[n].task
<1>0. /\ RoutingTypes /\ msg[n] \in Message /\ t \in Tasks /\ msg[n].kind \in Replies
      /\ responder[n] = "route"
  BY DEF RoutingInv, RoutingTypes, Route, Message
<1>1. /\ ch' = [ch EXCEPT ![t] = IF t \in routes /\ ch[t] = None THEN msg[n].kind
                                 ELSE ch[t]]
      /\ routes' = routes \ {t}
      /\ responder' = [responder EXCEPT ![n] = "recv"]
      /\ msg' = [msg EXCEPT ![n] = None]
      /\ UNCHANGED <<specs, pc, res, results, unrecorded, sent, due, link, sessions,
                     handler, adding, known, writer, dispatch>>
  BY <1>0 DEF Route, RoutingTypes, nodeVars, dispatcherVars, storeVars
<1>2. RoutingTypes'
  <2>1. ch' \in [Tasks -> Replies \cup {None}] /\ routes' \subseteq Tasks
    BY <1>0, <1>1 DEF RoutingTypes
  <2>2. /\ msg' \in [Nodes -> Message \cup {None}]
        /\ \A m \in Nodes : responder'[m] = "route" => msg'[m] \in Message
    BY <1>0, <1>1 DEF RoutingTypes
  <2>3. responder' \in [Nodes -> {"off", "recv", "route", "close", "closed"}]
    BY <1>0, <1>1 DEF RoutingTypes
  <2>q. QED
    BY <1>0, <1>1, <2>1, <2>2, <2>3 DEF RoutingTypes
<1>3. WorkersInOrder' /\ RefusedNeverSent' /\ HandedOver' /\ ReportedIsStored'
  BY <1>0, <1>1 DEF RoutingInv, RoutingTypes, WorkersInOrder,
     RefusedNeverSent, HandedOver, ReportedIsStored
<1>4. AnswersRecorded'
  <2>1. \A m \in Nodes : responder'[m] = "route" =>
            responder[m] = "route" /\ msg'[m] = msg[m]
    BY <1>0, <1>1 DEF RoutingTypes
  <2>2. \A u \in Tasks : ch'[u] = Answer => Settled(u)
    BY <1>0, <1>1 DEF RoutingInv, RoutingTypes, AnswersRecorded
  <2>q. QED
    BY <1>1, <2>1, <2>2 DEF RoutingInv, AnswersRecorded, Settled
<1>5. RoutesLeadToRoom'
  <2>1. \A m \in Nodes : handler[m] \in {"send", "add"} => adding[m] \in Tasks
    BY <1>0 DEF RoutingTypes
  <2>2. ASSUME NEW u \in Tasks
        PROVE  \/ ch'[u] = ch[u]
               \/ u = t /\ u \in routes /\ u \notin routes'
    BY <1>0, <1>1 DEF RoutingTypes
  <2>q. QED
    BY <1>0, <1>1, <2>1, <2>2 DEF RoutingInv, RoutesLeadToRoom, Idle
<1>q. QED
  BY <1>2, <1>3, <1>4, <1>5 DEF RoutingInv

\* The responder that stops, the goroutine that cleans a route up and the expiry of
\* results keep the invariant.
LEMMA OtherStepInv ==
    ASSUME RoutingInv,
           \/ \E n \in Nodes : StopReceiving(n) \/ Close(n)
           \/ \E t \in Tasks : CleanUpRoute(t)
           \/ Expire
    PROVE  RoutingInv'
<1>0. /\ RoutingTypes
      /\ \A m \in Nodes : handler[m] \in {"send", "add"} => adding[m] \in Tasks
      /\ \A m \in Nodes : responder[m] = "route" => msg[m].task \in Tasks
  BY DEF RoutingInv, RoutingTypes, Message
<1>1. ASSUME NEW n \in Nodes, StopReceiving(n) PROVE RoutingInv'
  BY <1>0, <1>1 DEF StopReceiving, RoutingInv, RoutingTypes, WorkersInOrder,
     RefusedNeverSent, HandedOver, ReportedIsStored, AnswersRecorded,
     Settled,
     RoutesLeadToRoom, workerVars, nodeVars, dispatcherVars, storeVars
<1>2. ASSUME NEW n \in Nodes, Close(n) PROVE RoutingInv'
  <2>1. known' = [known EXCEPT ![n] = FALSE]
    BY <1>2 DEF Close
  <2>2. DOMAIN known' \subseteq Nodes /\ known' \in [DOMAIN known' -> BOOLEAN]
    BY <1>0, <2>1 DEF RoutingTypes
  <2>3. RoutingTypes'
    BY <1>0, <1>2, <2>2 DEF Close, RoutingTypes, workerVars, nodeVars, storeVars
  <2>4. UNCHANGED <<pc, res, ch, results, unrecorded, sent, handler, adding, msg, routes>>
    BY <1>2 DEF Close, workerVars, nodeVars, storeVars
  <2>5. \A m \in Nodes : responder'[m] = "route" => responder[m] = "route"
    BY <1>0, <1>2 DEF Close, RoutingTypes
  <2>q. QED
    BY <2>3, <2>4, <2>5 DEF RoutingInv, WorkersInOrder, RefusedNeverSent,
       HandedOver, ReportedIsStored, AnswersRecorded, Settled, RoutesLeadToRoom
<1>3. ASSUME NEW t \in Tasks, CleanUpRoute(t) PROVE RoutingInv'
  BY <1>0, <1>3 DEF CleanUpRoute, RoutingInv, RoutingTypes,
     WorkersInOrder, RefusedNeverSent, HandedOver, ReportedIsStored, AnswersRecorded,
     Settled,
     RoutesLeadToRoom, workerVars, nodeVars, dispatcherVars, storeVars
<1>4. CASE Expire
  <2>1. /\ results' = [t \in Tasks |-> IF t = Head(order) THEN "gone" ELSE results[t]]
        /\ UNCHANGED unrecorded
    BY <1>4 DEF Expire, ExpireOldest
  <2>2. /\ results' \in [Tasks -> Replies \cup {None, "gone"}]
        /\ unrecorded' \subseteq Calls \cup Tasks
        /\ \A u \in Tasks : Settled(u) => Settled(u)'
    BY <1>0, <2>1, NoneAssumption DEF RoutingTypes, Settled
  <2>3. UNCHANGED <<specs, workerVars, nodeVars, streamVars, dispatcherVars>>
    BY <1>4 DEF Expire
  <2>q. QED
    BY <1>0, <2>2, <2>3 DEF RoutingInv, RoutingTypes,
       WorkersInOrder, RefusedNeverSent, HandedOver, ReportedIsStored, AnswersRecorded,
     Settled,
       RoutesLeadToRoom, workerVars, nodeVars, streamVars, dispatcherVars
<1>q. QED
  BY <1>1, <1>2, <1>3, <1>4

-----------------------------------------------------------------------------
(* The invariant and the properties of the runs *)

\* Nothing was asked and no stream is open at first.
LEMMA InitInv == ASSUME Init PROVE RoutingInv
<1>1. RoutingTypes
  BY NoneAssumption, BoundAssumption DEF Init, RoutingTypes, StoreInit, T!NoNodes
<1>2. /\ WorkersInOrder /\ RefusedNeverSent /\ HandedOver
      /\ AnswersRecorded /\ ReportedIsStored /\ RoutesLeadToRoom
  BY NoneAssumption DEF Init, StoreInit, WorkersInOrder,
     RefusedNeverSent, HandedOver, AnswersRecorded, ReportedIsStored, RoutesLeadToRoom,
     Answer, Replies, Idle
<1>q. QED
  BY <1>1, <1>2 DEF RoutingInv

\* Types, recorded answers, refused tasks and empty channels hold together in every
\* reachable state, whatever is asked of which nodes.
THEOREM RoutingInvariant == Spec => []RoutingInv
<1>1. Init => RoutingInv
  BY InitInv
<1>2. RoutingInv /\ [Next]_vars => RoutingInv'
  <2>0. SUFFICES ASSUME RoutingInv, [Next]_vars PROVE RoutingInv'
    OBVIOUS
  <2>1. CASE UNCHANGED vars
    BY <2>0, <2>1 DEF RoutingInv, RoutingTypes, WorkersInOrder,
       RefusedNeverSent, HandedOver, ReportedIsStored, AnswersRecorded, Settled,
       RoutesLeadToRoom, vars, storeVars, workerVars, nodeVars, streamVars, dispatcherVars
  <2>2. ASSUME NEW c \in Calls, ExecTask(c) PROVE RoutingInv'
    BY <2>0, <2>2, ExecTaskInv
  <2>3. CASE CollectNodesSpecs
    BY <2>0, <2>3, CollectorInv
  <2>4. ASSUME NEW t \in Tasks, WorkerStep(t) \/ TakeTask(t) PROVE RoutingInv'
    BY <2>0, <2>4, WorkerStepInv, TakeTaskInv
  <2>5. ASSUME NEW n \in Nodes,
               Open(n) \/ LinkBreaks(n) \/ Announce(n) \/ HandlerStep(n)
        PROVE  RoutingInv'
    BY <2>0, <2>5, HandlerStepInv, SendTaskInv
  <2>6. ASSUME NEW n \in Nodes, Receive(n) \/ Route(n) PROVE RoutingInv'
    BY <2>0, <2>6, ReceiveInv, RouteInv
  <2>7. CASE \/ \E n \in Nodes : StopReceiving(n) \/ Close(n)
             \/ \E t \in Tasks : CleanUpRoute(t)
             \/ Expire
    BY <2>0, <2>7, OtherStepInv
  <2>q. QED
    BY <2>0, <2>1, <2>2, <2>3, <2>4, <2>5, <2>6, <2>7 DEF Next, ResponderStep
<1>q. QED
  BY <1>1, <1>2, PTL DEF Spec

\* An answer that a caller was given was recorded before, or its loss was logged.
THEOREM AnswersAreStored == Spec => []ReportedIsStored
<1>1. RoutingInv => ReportedIsStored
  BY DEF RoutingInv
<1>q. QED
  BY <1>1, RoutingInvariant, PTL

\* A caller that is told that a node was disconnected, or disconnecting, may ask
\* again: the task was not sent.
THEOREM RefusedIsNotSent == Spec => []RefusedNeverSent
<1>1. RoutingInv => RefusedNeverSent
  BY DEF RoutingInv
<1>q. QED
  BY <1>1, RoutingInvariant, PTL

\* The responder finds room in the channel it routes a message to, so that one slow
\* caller never holds a node's stream.
THEOREM ResponderHasRoom == Spec => []ResponderNeverWaits
<1>1. RoutingInv => ResponderNeverWaits
  BY DEF RoutingInv, RoutingTypes, RoutesLeadToRoom, ResponderNeverWaits
<1>q. QED
  BY <1>1, RoutingInvariant, PTL

-----------------------------------------------------------------------------
(* What a filter selects                                                     *)

\* The node names a condition leaves, and whether one of the first i fails.
Matches(k, sp, cond) == DOMAIN T!Condition(k, sp, cond).nodes
SomeFails(k, sp, group, i) == \E j \in 1..i : T!Condition(k, sp, group[j]).err
Struck(k, sp, group, i) ==
    T!Found([n \in {m \in DOMAIN k : \A j \in 1..i : m \in Matches(k, sp, group[j])}
             |-> k[n]])

\* A query is a sequence of sequences, so that its lengths are numbers.
LEMMA QueryLengths ==
    ASSUME NEW query, T!IsQuery(query)
    PROVE  /\ Len(query) \in Nat /\ DOMAIN query = 1..Len(query)
           /\ \A i \in DOMAIN query :
                Len(query[i]) \in Nat /\ DOMAIN query[i] = 1..Len(query[i])
BY DEF T!IsQuery, T!IsSequence

\* A group of conditions fails when one of them does, and otherwise leaves the known
\* nodes that each of them matches, with their readiness.
LEMMA AndGroupSelects ==
    ASSUME NEW k, k \in [DOMAIN k -> BOOLEAN], NEW sp, NEW group, Len(group) \in Nat
    PROVE  T!AndGroup(k, sp, group) =
                IF SomeFails(k, sp, group, Len(group)) THEN T!Failed
                ELSE Struck(k, sp, group, Len(group))
<1> DEFINE C(i) == T!Condition(k, sp, group[i])
           F(l) == [i \in 0..Len(group) |->
                      IF i = 0 THEN T!Found(k)
                      ELSE IF l[i - 1].err \/ C(i).err THEN T!Failed
                      ELSE T!Found([n \in DOMAIN l[i - 1].nodes \cap DOMAIN C(i).nodes
                                    |-> l[i - 1].nodes[n]])]
           Closed(i) == IF SomeFails(k, sp, group, i) THEN T!Failed
                        ELSE Struck(k, sp, group, i)
           closed == [i \in 0..Len(group) |-> Closed(i)]
           left == CHOOSE l : l = F(l)
<1>1. T!AndGroup(k, sp, group) = left[Len(group)]
  BY DEF T!AndGroup
<1>2. Closed(0) = T!Found(k)
  <2>1. 1..0 = {}
    OBVIOUS
  <2>2. [n \in DOMAIN k |-> k[n]] = k
    OBVIOUS
  <2>q. QED
    BY <2>1, <2>2 DEF SomeFails, Struck
<1>3. ASSUME NEW i \in 1..Len(group)
      PROVE  Closed(i) = IF Closed(i - 1).err \/ C(i).err THEN T!Failed
                         ELSE T!Found([n \in DOMAIN Closed(i - 1).nodes
                                                \cap DOMAIN C(i).nodes
                                       |-> Closed(i - 1).nodes[n]])
  <2>1. 1..i = 1..(i - 1) \cup {i}
    OBVIOUS
  <2>2. SomeFails(k, sp, group, i) <=> SomeFails(k, sp, group, i - 1) \/ C(i).err
    BY <2>1 DEF SomeFails
  <2>3. Closed(i - 1).err <=> SomeFails(k, sp, group, i - 1)
    BY DEF T!Failed, T!Found, Struck
  <2>4. CASE Closed(i - 1).err \/ C(i).err
    BY <2>2, <2>3, <2>4
  <2>5. CASE ~ (Closed(i - 1).err \/ C(i).err)
    <3>1. Closed(i - 1) = Struck(k, sp, group, i - 1)
          /\ Closed(i) = Struck(k, sp, group, i)
      BY <2>2, <2>3, <2>5
    <3> DEFINE Rest(j) == {m \in DOMAIN k :
                              \A h \in 1..j : m \in Matches(k, sp, group[h])}
    <3>2. Rest(i) = Rest(i - 1) \cap DOMAIN C(i).nodes
      BY <2>1 DEF Matches
    <3>3. /\ DOMAIN Closed(i - 1).nodes = Rest(i - 1)
          /\ \A n \in Rest(i - 1) : Closed(i - 1).nodes[n] = k[n]
      BY <3>1 DEF Struck, T!Found
    <3>4. Closed(i) = T!Found([n \in Rest(i) |-> k[n]])
      BY <3>1 DEF Struck
    <3> HIDE DEF Rest, Closed, C
    <3>5. [n \in Rest(i) |-> k[n]] =
            [n \in DOMAIN Closed(i - 1).nodes \cap DOMAIN C(i).nodes
             |-> Closed(i - 1).nodes[n]]
      BY <3>2, <3>3
    <3>q. QED
      BY <2>5, <3>4, <3>5
  <2>q. QED
    BY <2>4, <2>5
<1> HIDE DEF Closed, C
<1>4. closed = F(closed)
  <2>1. ASSUME NEW i \in 0..Len(group), i # 0
        PROVE  i \in 1..Len(group) /\ closed[i - 1] = Closed(i - 1)
    BY <2>1
  <2>2. ASSUME NEW i \in 0..Len(group) PROVE closed[i] = F(closed)[i]
    <3>1. CASE i = 0
      BY <1>2, <3>1
    <3>2. CASE i # 0
      <4>1. /\ closed[i] = Closed(i)
            /\ closed[i - 1] = Closed(i - 1)
            /\ i \in 1..Len(group)
        BY <2>1, <3>2
      <4>q. QED
        BY <1>3, <3>2, <4>1
    <3>q. QED
      BY <3>1, <3>2
  <2> DEFINE G == F(closed)
  <2>3. DOMAIN G = 0..Len(group) /\ G = [i \in 0..Len(group) |-> G[i]]
    OBVIOUS
  <2>4. closed = [i \in 0..Len(group) |-> closed[i]]
    OBVIOUS
  <2> HIDE DEF G, closed
  <2>q. QED
    BY <2>2, <2>3, <2>4 DEF G
<1>5. left = F(left)
  <2> HIDE DEF F, closed
  <2>q. QED
    BY <1>4
<1> HIDE DEF left
<1>6. \A i \in 0..Len(group) : left[i] = Closed(i)
  <2> DEFINE Agrees == {i \in 0..Len(group) : left[i] = Closed(i)}
  <2>1. 0 \in Agrees
    BY <1>2, <1>5
  <2>2. ASSUME NEW i \in 1..Len(group), i - 1 \in Agrees PROVE i \in Agrees
    <3>1. /\ i \in 0..Len(group) /\ i # 0 /\ left[i - 1] = Closed(i - 1)
      BY <2>2
    <3>2. left[i] = IF left[i - 1].err \/ C(i).err THEN T!Failed
                    ELSE T!Found([n \in DOMAIN left[i - 1].nodes \cap DOMAIN C(i).nodes
                                  |-> left[i - 1].nodes[n]])
      BY <1>5, <3>1
    <3>q. QED
      BY <1>3, <3>1, <3>2
  <2> HIDE DEF Agrees
  <2>3. \A i \in 0..Len(group) : i \in Agrees
    BY <2>1, <2>2, SetInduction
  <2>q. QED
    BY <2>3 DEF Agrees
<1>q. QED
  BY <1>1, <1>6 DEF Closed

\* A condition that does not fail matches the known nodes it holds of.
LEMMA ConditionSelects ==
    ASSUME NEW k, NEW sp, NEW cond, ~ T!Condition(k, sp, cond).err
    PROVE  \A n \in DOMAIN k : n \in Matches(k, sp, cond) <=> T!Holds(sp, n, cond)
<1> DEFINE C == T!Condition(k, sp, cond)
<1>1. T!Failed.err /\ \A nodes : ~ T!Found(nodes).err /\ T!Found(nodes).nodes = nodes
  BY DEF T!Failed, T!Found
<1>2. cond.op \in {"==", "=~"}
  BY <1>1 DEF T!Condition
<1>3. CASE cond.field = "id"
  <2>1. C = T!IdCondition(k, cond)
    BY <1>2, <1>3 DEF T!Condition
  <2>2. CASE cond.op = "=="
    <3>1. C = T!FoundSome([n \in cond.value.matches |-> T!IsReady(k, n)])
      BY <2>1, <2>2 DEF T!IdCondition, T!ListMatching
    <3>2. DOMAIN C.nodes = cond.value.matches
      BY <1>1, <3>1 DEF T!FoundSome
    <3>q. QED
      BY <1>3, <3>2 DEF T!Holds, Matches
  <2>3. CASE cond.op = "=~"
    <3>1. C = T!PatternMatching(k, cond.value)
      BY <2>1, <2>3 DEF T!IdCondition
    <3>2. C = T!FoundSome([n \in DOMAIN k \cap cond.value.matches |-> k[n]])
      BY <1>1, <3>1 DEF T!PatternMatching
    <3>3. DOMAIN C.nodes = DOMAIN k \cap cond.value.matches
      BY <1>1, <3>2 DEF T!FoundSome
    <3>q. QED
      BY <1>3, <3>3 DEF T!Holds, Matches
  <2>q. QED
    BY <1>2, <2>2, <2>3
<1>4. CASE cond.field = "specs"
  <2> DEFINE holders == {n \in DOMAIN sp : T!HasLeaf(sp, n, cond.path)}
  <2>1. C = T!SpecsCondition(k, sp, cond)
    BY <1>2, <1>4 DEF T!Condition
  <2>2. C = T!Found([n \in {m \in holders : sp[m][cond.path] \in cond.value.matches}
                     |-> T!IsReady(k, n)])
    BY <1>1, <2>1 DEF T!SpecsCondition
  <2>3. DOMAIN C.nodes = {m \in holders : sp[m][cond.path] \in cond.value.matches}
    BY <1>1, <2>2
  <2>q. QED
    BY <1>4, <2>3 DEF T!Holds, Matches, T!HasLeaf
<1>5. CASE cond.field \notin {"id", "specs"}
  BY <1>1, <1>2, <1>5 DEF T!Condition
<1>q. QED
  BY <1>3, <1>4, <1>5

\* The nodes of the first i groups of a query, and whether one of the groups fails.
GroupFails(k, sp, query, i) == \E j \in 1..i : T!AndGroup(k, sp, query[j]).err
Merged(k, sp, query, i) ==
    T!Found([n \in UNION {DOMAIN T!AndGroup(k, sp, query[j]).nodes : j \in 1..i}
             |-> T!IsReady(k, n)])

\* A query fails when one of its groups does or when nothing is left, and otherwise
\* merges what the groups leave.
LEMMA QueryMerges ==
    ASSUME NEW k, NEW sp, NEW query, Len(query) \in Nat
    PROVE  T!QueryMatching(k, sp, query) =
                IF GroupFails(k, sp, query, Len(query)) THEN T!Failed
                ELSE T!FoundSome(Merged(k, sp, query, Len(query)).nodes)
<1> DEFINE A(i) == T!AndGroup(k, sp, query[i])
           F(l) == [i \in 0..Len(query) |->
                      IF i = 0 THEN T!Found(T!NoNodes)
                      ELSE IF l[i - 1].err \/ A(i).err THEN T!Failed
                      ELSE T!Found([n \in DOMAIN l[i - 1].nodes \cup DOMAIN A(i).nodes
                                    |-> T!IsReady(k, n)])]
           Closed(i) == IF GroupFails(k, sp, query, i) THEN T!Failed
                        ELSE Merged(k, sp, query, i)
           closed == [i \in 0..Len(query) |-> Closed(i)]
           merged == CHOOSE l : l = F(l)
<1>1. T!QueryMatching(k, sp, query) =
        IF merged[Len(query)].err THEN T!Failed
        ELSE T!FoundSome(merged[Len(query)].nodes)
  BY DEF T!QueryMatching
<1>2. Closed(0) = T!Found(T!NoNodes)
  <2>1. UNION {DOMAIN A(j).nodes : j \in 1..0} = {} /\ 1..0 = {}
    OBVIOUS
  <2>2. [n \in {} |-> T!IsReady(k, n)] = T!NoNodes
    BY DEF T!NoNodes
  <2>3. ~ GroupFails(k, sp, query, 0)
    BY <2>1 DEF GroupFails
  <2>4. Merged(k, sp, query, 0) = T!Found([n \in {} |-> T!IsReady(k, n)])
    BY <2>1 DEF Merged
  <2>q. QED
    BY <2>2, <2>3, <2>4
<1>3. ASSUME NEW i \in 1..Len(query)
      PROVE  Closed(i) = IF Closed(i - 1).err \/ A(i).err THEN T!Failed
                         ELSE T!Found([n \in DOMAIN Closed(i - 1).nodes
                                                \cup DOMAIN A(i).nodes
                                       |-> T!IsReady(k, n)])
  <2>1. 1..i = 1..(i - 1) \cup {i}
    OBVIOUS
  <2>2. GroupFails(k, sp, query, i) <=> GroupFails(k, sp, query, i - 1) \/ A(i).err
    BY <2>1 DEF GroupFails
  <2>3. Closed(i - 1).err <=> GroupFails(k, sp, query, i - 1)
    BY DEF T!Failed, T!Found, Merged
  <2>4. CASE Closed(i - 1).err \/ A(i).err
    BY <2>2, <2>3, <2>4
  <2>5. CASE ~ (Closed(i - 1).err \/ A(i).err)
    <3>1. Closed(i - 1) = Merged(k, sp, query, i - 1)
          /\ Closed(i) = Merged(k, sp, query, i)
      BY <2>2, <2>3, <2>5
    <3> DEFINE All(j) == UNION {DOMAIN A(h).nodes : h \in 1..j}
    <3>2. All(i) = All(i - 1) \cup DOMAIN A(i).nodes
      <4> HIDE DEF A
      <4>q. QED
        BY <2>1
    <3>3. DOMAIN Closed(i - 1).nodes = All(i - 1)
      BY <3>1 DEF Merged, T!Found
    <3>4. Closed(i) = T!Found([n \in All(i) |-> T!IsReady(k, n)])
      BY <3>1 DEF Merged
    <3> HIDE DEF All, Closed, A
    <3>q. QED
      BY <2>5, <3>2, <3>3, <3>4
  <2>q. QED
    BY <2>4, <2>5
<1> HIDE DEF Closed, A
<1>4. closed = F(closed)
  <2>1. ASSUME NEW i \in 0..Len(query) PROVE closed[i] = F(closed)[i]
    <3>1. CASE i = 0
      BY <1>2, <3>1
    <3>2. CASE i # 0
      <4>1. /\ closed[i] = Closed(i)
            /\ closed[i - 1] = Closed(i - 1)
            /\ i \in 1..Len(query)
        BY <3>2
      <4>q. QED
        BY <1>3, <3>2, <4>1
    <3>q. QED
      BY <3>1, <3>2
  <2> DEFINE G == F(closed)
  <2>3. DOMAIN G = 0..Len(query) /\ G = [i \in 0..Len(query) |-> G[i]]
    OBVIOUS
  <2>4. closed = [i \in 0..Len(query) |-> closed[i]]
    OBVIOUS
  <2> HIDE DEF G, closed
  <2>q. QED
    BY <2>1, <2>3, <2>4 DEF G
<1>5. merged = F(merged)
  <2> HIDE DEF F, closed
  <2>q. QED
    BY <1>4
<1> HIDE DEF merged
<1>6. \A i \in 0..Len(query) : merged[i] = Closed(i)
  <2> DEFINE Agrees == {i \in 0..Len(query) : merged[i] = Closed(i)}
  <2>1. 0 \in Agrees
    BY <1>2, <1>5
  <2>2. ASSUME NEW i \in 1..Len(query), i - 1 \in Agrees PROVE i \in Agrees
    <3>1. /\ i \in 0..Len(query) /\ i # 0 /\ merged[i - 1] = Closed(i - 1)
      BY <2>2
    <3>2. merged[i] = IF merged[i - 1].err \/ A(i).err THEN T!Failed
                      ELSE T!Found([n \in DOMAIN merged[i - 1].nodes
                                             \cup DOMAIN A(i).nodes
                                    |-> T!IsReady(k, n)])
      BY <1>5, <3>1
    <3>q. QED
      BY <1>3, <3>1, <3>2
  <2> HIDE DEF Agrees
  <2>3. \A i \in 0..Len(query) : i \in Agrees
    BY <2>1, <2>2, SetInduction
  <2>q. QED
    BY <2>3 DEF Agrees
<1>7. merged[Len(query)] = Closed(Len(query))
  BY <1>6
<1>8. T!Failed.err /\ ~ Merged(k, sp, query, Len(query)).err
  BY DEF T!Failed, T!Found, Merged
<1>9. CASE GroupFails(k, sp, query, Len(query))
  BY <1>1, <1>7, <1>8, <1>9 DEF Closed
<1>10. CASE ~ GroupFails(k, sp, query, Len(query))
  BY <1>1, <1>7, <1>8, <1>10 DEF Closed
<1>q. QED
  BY <1>9, <1>10

\* What a query finds is the known nodes that satisfy it, with their readiness.
LEMMA QuerySelects ==
    ASSUME NEW k, k \in [DOMAIN k -> BOOLEAN], NEW sp, NEW query, T!IsQuery(query),
           ~ T!TargetedNodes(k, sp, "QUERY", query).err
    PROVE  T!TargetedNodes(k, sp, "QUERY", query).nodes =
               [n \in {m \in DOMAIN k : T!Satisfies(sp, m, query)} |-> k[n]]
<1> DEFINE L == Len(query)
           found == T!TargetedNodes(k, sp, "QUERY", query)
           Rest(j) == {m \in DOMAIN k : \A i \in DOMAIN query[j] :
                                            T!Holds(sp, m, query[j][i])}
<1>1. L \in Nat /\ DOMAIN query = 1..L
  BY QueryLengths
<1>2. found = T!QueryMatching(k, sp, query)
  BY DEF T!TargetedNodes
<1>3. T!Failed.err /\ \A nodes : ~ T!Found(nodes).err /\ T!Found(nodes).nodes = nodes
  BY DEF T!Failed, T!Found
<1>4. ~ GroupFails(k, sp, query, L) /\ found.nodes = Merged(k, sp, query, L).nodes
  BY <1>1, <1>2, <1>3, QueryMerges DEF T!FoundSome
<1>5. ASSUME NEW j \in 1..L
      PROVE  DOMAIN T!AndGroup(k, sp, query[j]).nodes = Rest(j)
  <2>1. Len(query[j]) \in Nat /\ DOMAIN query[j] = 1..Len(query[j])
    BY <1>1, QueryLengths
  <2>2. ~ T!AndGroup(k, sp, query[j]).err
    BY <1>4 DEF GroupFails
  <2>3. T!AndGroup(k, sp, query[j]) = Struck(k, sp, query[j], Len(query[j]))
        /\ ~ SomeFails(k, sp, query[j], Len(query[j]))
    BY <1>3, <2>1, <2>2, AndGroupSelects
  <2>4. \A i \in DOMAIN query[j] : \A m \in DOMAIN k :
            m \in Matches(k, sp, query[j][i]) <=> T!Holds(sp, m, query[j][i])
    BY <2>1, <2>3, ConditionSelects DEF SomeFails
  <2>5. DOMAIN T!AndGroup(k, sp, query[j]).nodes =
            {m \in DOMAIN k : \A i \in 1..Len(query[j]) :
                                    m \in Matches(k, sp, query[j][i])}
    BY <1>3, <2>3 DEF Struck
  <2>q. QED
    BY <2>1, <2>4, <2>5
<1>6. UNION {DOMAIN T!AndGroup(k, sp, query[j]).nodes : j \in 1..L} =
        {m \in DOMAIN k : T!Satisfies(sp, m, query)}
  BY <1>1, <1>5 DEF T!Satisfies
<1>7. found.nodes = [n \in {m \in DOMAIN k : T!Satisfies(sp, m, query)}
                     |-> T!IsReady(k, n)]
  BY <1>3, <1>4, <1>6 DEF Merged
<1>8. \A n \in DOMAIN k : T!IsReady(k, n) = k[n]
  BY DEF T!IsReady
<1>q. QED
  BY <1>7, <1>8

\* The nodes of a call's targets are nodes, whatever the mode: names that are given
\* are in Nodes, and patterns and queries choose among the known.
LEMMA TargetsAreNodes ==
    ASSUME NEW k, DOMAIN k \subseteq Nodes, k \in [DOMAIN k -> BOOLEAN], NEW sp,
           NEW c \in Calls
    PROVE  DOMAIN T!TargetedNodes(k, sp, Request[c].mode, Request[c].target).nodes
                \subseteq Nodes
<1> DEFINE mode == Request[c].mode
           target == Request[c].target
           found == T!TargetedNodes(k, sp, mode, target)
<1>1. DOMAIN T!Failed.nodes = {}
  BY DEF T!Failed, T!NoNodes
<1>2. \A nodes : T!Found(nodes).nodes = nodes
  BY DEF T!Found
<1>3. \A nodes : DOMAIN nodes \subseteq Nodes =>
        DOMAIN T!FoundSome(nodes).nodes \subseteq Nodes
  BY <1>1, <1>2 DEF T!FoundSome
<1>4. CASE mode = "EXACT"
  BY <1>2, <1>4, RequestAssumption DEF T!TargetedNodes
<1>5. CASE mode = "LIST"
  BY <1>3, <1>5, RequestAssumption DEF T!TargetedNodes, T!ListMatching
<1>6. CASE mode \in {"GLOB", "REGEX"}
  BY <1>1, <1>3, <1>6 DEF T!TargetedNodes, T!PatternMatching
<1>7. CASE mode = "QUERY"
  <2>1. T!IsQuery(target)
    BY <1>7, RequestAssumption
  <2>2. CASE found.err
    <3>1. found = T!Failed
      BY <1>7, <2>1, <2>2, QueryLengths, QueryMerges
      DEF T!TargetedNodes, T!FoundSome, T!Found
    <3>q. QED
      BY <1>1, <3>1
  <2>3. CASE ~ found.err
    <3>1. found.nodes = [n \in {m \in DOMAIN k : T!Satisfies(sp, m, target)} |-> k[n]]
      BY <1>7, <2>1, <2>3, QuerySelects
    <3>q. QED
      BY <3>1
  <2>q. QED
    BY <2>2, <2>3
<1>8. CASE mode \notin {"EXACT", "LIST", "GLOB", "REGEX", "QUERY"}
  BY <1>1, <1>8 DEF T!TargetedNodes
<1>q. QED
  BY <1>4, <1>5, <1>6, <1>7, <1>8

\* A call that is not refused has targets.
LEMMA SomeTarget ==
    ASSUME NEW k, NEW sp, NEW mode, NEW target,
           ~ T!TargetedNodes(k, sp, mode, target).err
    PROVE  DOMAIN T!TargetedNodes(k, sp, mode, target).nodes # {}
<1> DEFINE found == T!TargetedNodes(k, sp, mode, target)
<1>1. T!Failed.err /\ \A nodes : T!Found(nodes).nodes = nodes
  BY DEF T!Failed, T!Found
<1>2. \A nodes : T!FoundSome(nodes).err \/ DOMAIN T!FoundSome(nodes).nodes # {}
  BY <1>1 DEF T!FoundSome
<1>3. \/ found = T!Found([n \in {target} |-> T!IsReady(k, n)])
      \/ found = T!Failed \/ \E nodes : found = T!FoundSome(nodes)
  <2>1. CASE mode = "QUERY"
    <3>1. found = T!QueryMatching(k, sp, target)
      BY <2>1 DEF T!TargetedNodes
    <3> DEFINE F(l) == [i \in 0..Len(target) |->
                    IF i = 0 THEN T!Found(T!NoNodes)
                    ELSE IF l[i - 1].err \/ T!AndGroup(k, sp, target[i]).err THEN T!Failed
                    ELSE T!Found([n \in DOMAIN l[i - 1].nodes
                                            \cup DOMAIN T!AndGroup(k, sp, target[i]).nodes
                                  |-> T!IsReady(k, n)])]
               merged == CHOOSE l : l = F(l)
    <3>2. T!QueryMatching(k, sp, target) =
            IF merged[Len(target)].err THEN T!Failed
            ELSE T!FoundSome(merged[Len(target)].nodes)
      BY DEF T!QueryMatching
    <3> HIDE DEF found, merged
    <3>q. QED
      BY <3>1, <3>2
  <2>2. CASE mode # "QUERY"
    BY <2>2 DEF T!TargetedNodes, T!ListMatching, T!PatternMatching
  <2>q. QED
    BY <2>1, <2>2
<1> HIDE DEF found
<1>4. target \in DOMAIN [n \in {target} |-> T!IsReady(k, n)]
  OBVIOUS
<1>q. QED
  BY <1>1, <1>2, <1>3, <1>4 DEF found

-----------------------------------------------------------------------------
(* The job database                                                          *)

StoreTypes ==
    /\ requests \in [Calls -> RequestEntries \cup {None}]
    /\ groups \in [Calls -> GroupEntries \cup {None}]
    /\ order \in Seq(Calls \cup Tasks)

\* A task that was not sent is not answered, and its answer is recorded, or lost, once.
AnsweredOnce ==
    \A t \in Tasks :
        /\ t \notin sent => due[t] = {} /\ ~ Settled(t)
        /\ Answer \in due[t] => ~ Settled(t)

\* A task that expires was recorded.
OrderHasResults ==
    \A i \in DOMAIN order : order[i] \in Tasks => results[order[i]] # None

\* The entry of a group names results of its call, each once, and expires with a
\* result only if it names no other.
NamesResults(c, group) ==
    /\ group.members # <<>>
    /\ \A i \in DOMAIN group.members :
            CallOf(group.members[i]) = c /\ results[group.members[i]] # None
    /\ \A i, j \in DOMAIN group.members :
            group.members[i] = group.members[j] => i = j
    /\ group.ttl # None => group.members = <<group.ttl>>
GroupsNameResults == \A c \in Calls : groups[c] # None => NamesResults(c, groups[c])

KeptIsMember ==
    \A t \in Tasks : Kept(t) /\ CallOf(t) \in Calls =>
        /\ groups[CallOf(t)] # None
        /\ \E i \in DOMAIN groups[CallOf(t)].members :
                groups[CallOf(t)].members[i] = t

\* The tasks of a call that set out are for nodes its request has as connected, if the
\* request is kept, and it is of a call that was made.
AskedIsRecorded ==
    /\ \A t \in Tasks :
            CallOf(t) \in Calls /\ requests[CallOf(t)] # None /\ SetOut(t) =>
                NodeOf(t) \in requests[CallOf(t)].connected
    /\ \A c \in Calls : requests[c] # None => Called(c)

\* A request that is kept will expire before the answers to it, so that none of them
\* has expired.
ExpiresFirst(c) ==
    \E i \in DOMAIN order :
        /\ order[i] = c
        /\ \A j \in 1..(i - 1) : order[j] \in Tasks => CallOf(order[j]) # c
RequestsExpireFirst ==
    \A c \in Calls : requests[c] # None =>
        /\ ExpiresFirst(c)
        /\ \A t \in Tasks : CallOf(t) = c => results[t] # "gone"

StoreInv ==
    /\ StoreTypes
    /\ AnsweredOnce
    /\ OrderHasResults
    /\ GroupsNameResults
    /\ KeptIsMember
    /\ AskedIsRecorded
    /\ RequestsExpireFirst

\* A task that was sent, or handed over, set out.
LEMMA SentSetOut ==
    ASSUME RoutingInv, NEW t \in Tasks, t \in sent
    PROVE  SetOut(t)
BY DEF RoutingInv, WorkersInOrder, RefusedNeverSent, Refusals, SetOut, Idle

\* The steps that leave the database alone keep the invariant if no worker sets out
\* and no answer becomes due.
LEMMA StoreUntouched ==
    ASSUME RoutingInv, StoreInv, UNCHANGED storeVars, UNCHANGED sent,
           \A t \in Tasks : due'[t] \subseteq due[t],
           \A t \in Tasks : CallOf(t) \in Calls /\ SetOut(t)' => SetOut(t),
           \A t \in Tasks : pc[t] # Idle => pc'[t] # Idle
    PROVE  StoreInv'
<1>0. UNCHANGED <<requests, results, groups, order, unrecorded>>
  BY DEF storeVars
<1>1. StoreTypes' /\ OrderHasResults' /\ GroupsNameResults' /\ KeptIsMember'
  BY <1>0 DEF StoreInv, StoreTypes, OrderHasResults, GroupsNameResults,
     NamesResults, KeptIsMember, Kept
<1>2. AnsweredOnce'
  BY <1>0 DEF StoreInv, AnsweredOnce, Settled
<1>3. AskedIsRecorded'
  <2>1. \A c \in Calls : Called(c) => Called(c)'
    BY DEF Called, Worker, Tasks
  <2>q. QED
    BY <1>0, <2>1 DEF StoreInv, AskedIsRecorded
<1>4. RequestsExpireFirst'
  BY <1>0 DEF StoreInv, RequestsExpireFirst, ExpiresFirst
<1>q. QED
  BY <1>1, <1>2, <1>3, <1>4 DEF StoreInv

\* A key that is appended comes after what was there.
LEMMA AppendedLast ==
    ASSUME StoreTypes, NEW key \in Calls \cup Tasks, order' = Append(order, key)
    PROVE  /\ order' \in Seq(Calls \cup Tasks)
           /\ Len(order) \in Nat /\ DOMAIN order = 1..Len(order)
           /\ DOMAIN order' = 1..(Len(order) + 1)
           /\ \A i \in 1..Len(order) : order'[i] = order[i]
           /\ order'[Len(order) + 1] = key
           /\ \A c \in Calls : ExpiresFirst(c) => ExpiresFirst(c)'
<1> DEFINE L == Len(order)
<1>1. /\ order' \in Seq(Calls \cup Tasks)
      /\ L \in Nat /\ DOMAIN order = 1..L
      /\ DOMAIN order' = 1..(L + 1)
      /\ \A i \in 1..L : order'[i] = order[i]
      /\ order'[L + 1] = key
  BY DEF StoreTypes
<1> HIDE DEF L
<1>2. ASSUME NEW c \in Calls, ExpiresFirst(c) PROVE ExpiresFirst(c)'
  <2>1. PICK i \in 1..L : /\ order[i] = c
                          /\ \A j \in 1..(i - 1) :
                                order[j] \in Tasks => CallOf(order[j]) # c
    BY <1>1, <1>2 DEF ExpiresFirst
  <2>2. i \in DOMAIN order' /\ \A j \in 1..(i - 1) : j \in 1..L
    BY <1>1
  <2>q. QED
    BY <1>1, <2>1, <2>2 DEF ExpiresFirst
<1>q. QED
  BY <1>1, <1>2 DEF L

\* A call records its request before its workers set out, if it can.
LEMMA ExecTaskStores ==
    ASSUME RoutingInv, StoreInv, NEW c \in Calls, ExecTask(c)
    PROVE  StoreInv'
<1> DEFINE found == T!TargetedNodes(known, specs, Request[c].mode, Request[c].target)
           targets == found.nodes
           entry == [connected |-> {n \in DOMAIN targets : targets[n]},
                     disconnected |-> {n \in DOMAIN targets : ~ targets[n]}]
<1>1. /\ StartWorkers(c, targets)
      /\ ~ Called(c)
      /\ UNCHANGED <<results, groups, sent, due>>
  BY DEF ExecTask, StoreRequest, WriteRequest, FailToWrite, nodeVars
<1>2. \/ /\ requests' = [requests EXCEPT ![c] = entry]
         /\ order' = Append(order, c) /\ unrecorded' = unrecorded
      \/ UNCHANGED <<requests, order>> /\ unrecorded' = unrecorded \cup {c}
  BY DEF ExecTask, StoreRequest, WriteRequest, FailToWrite
<1>3. DOMAIN targets \subseteq Nodes /\ DOMAIN targets # {}
  <2>1. DOMAIN targets \subseteq Nodes
    BY TargetsAreNodes DEF RoutingInv, RoutingTypes
  <2>2. ~ found.err
    BY DEF ExecTask
  <2>q. QED
    BY <2>1, <2>2, SomeTarget
<1>4. entry \in RequestEntries /\ entry # None
      /\ entry.connected = {n \in DOMAIN targets : targets[n]}
  <2> HIDE DEF found
  <2>q. QED
    BY <1>3, EntriesAssumption DEF RequestEntries
<1> HIDE DEF targets, entry
<1>5. /\ \A t \in Tasks : CallOf(t) = c =>
            pc[t] = Idle /\ t \notin sent /\ ~ Settled(t)
      /\ requests[c] = None /\ c \notin Tasks
  <2>1. \A t \in Tasks : CallOf(t) = c => pc[t] = Idle
    BY <1>1, NotCalled
  <2>q. QED
    BY <1>1, <2>1, KeysAssumption
    DEF RoutingInv, WorkersInOrder, StoreInv, AnsweredOnce, AskedIsRecorded, Idle
<1>6. StoreTypes'
  <2>1. order' \in Seq(Calls \cup Tasks)
    BY <1>2, AppendedLast DEF StoreInv, StoreTypes
  <2>q. QED
    BY <1>1, <1>2, <1>4, <2>1 DEF StoreInv, StoreTypes
<1>7. AnsweredOnce' /\ GroupsNameResults' /\ KeptIsMember'
  BY <1>1, <1>2, <1>5 DEF StoreInv, AnsweredOnce, Settled, GroupsNameResults,
     NamesResults, KeptIsMember, Kept
<1>8. AskedIsRecorded'
  <2>1. SUFFICES ASSUME NEW d \in Calls, requests'[d] # None
                 PROVE  /\ \A t \in Tasks : CallOf(t) = d /\ SetOut(t)' =>
                                NodeOf(t) \in requests'[d].connected
                        /\ Called(d)'
    BY DEF AskedIsRecorded
  <2>2. CASE d = c
    <3>1. requests'[c] = entry
      BY <1>2, <1>5, <2>1, <2>2 DEF StoreInv, StoreTypes
    <3>2. ASSUME NEW t \in Tasks, CallOf(t) = c, SetOut(t)'
          PROVE  NodeOf(t) \in DOMAIN targets /\ targets[NodeOf(t)]
      BY <1>1, <1>5, <3>2 DEF StartWorkers, SetOut, Idle
    <3>3. Called(c)'
      <4>1. PICK n \in Nodes : n \in DOMAIN targets
        BY <1>3
      <4>2. /\ Worker(c, n) \in Tasks /\ CallOf(Worker(c, n)) = c
            /\ NodeOf(Worker(c, n)) = n
        BY DEF Worker, Tasks, CallOf, NodeOf
      <4>3. pc'[Worker(c, n)] # Idle
        BY <1>1, <4>1, <4>2 DEF StartWorkers, Idle
      <4>q. QED
        BY <4>3 DEF Called, Worker
    <3>q. QED
      BY <1>4, <2>2, <3>1, <3>2, <3>3
  <2>3. CASE d # c
    <3>1. requests'[d] = requests[d]
      BY <1>2, <2>3 DEF StoreInv, StoreTypes
    <3>2. \A t \in Tasks : CallOf(t) = d => pc'[t] = pc[t] /\ res'[t] = res[t]
      BY <1>1, <2>3 DEF StartWorkers
    <3>3. \A t \in Tasks : CallOf(t) = d => (SetOut(t)' <=> SetOut(t))
      BY <3>2 DEF SetOut
    <3>4. Called(d)'
      <4>1. PICK n \in Nodes : pc[Worker(d, n)] # Idle
        BY <2>1, <3>1 DEF StoreInv, AskedIsRecorded, Called
      <4>2. Worker(d, n) \in Tasks /\ CallOf(Worker(d, n)) = d
        BY DEF Worker, Tasks, CallOf
      <4>q. QED
        BY <3>2, <4>1, <4>2 DEF Called, Worker
    <3>q. QED
      BY <2>1, <3>1, <3>3, <3>4 DEF StoreInv, AskedIsRecorded
  <2>q. QED
    BY <2>2, <2>3
<1>9. OrderHasResults' /\ RequestsExpireFirst'
  <2>1. CASE UNCHANGED <<requests, order>>
    BY <1>1, <2>1 DEF StoreInv, OrderHasResults, RequestsExpireFirst, ExpiresFirst
  <2>2. CASE requests' = [requests EXCEPT ![c] = entry] /\ order' = Append(order, c)
    <3>1. /\ Len(order) \in Nat /\ DOMAIN order = 1..Len(order)
          /\ DOMAIN order' = 1..(Len(order) + 1)
          /\ \A i \in 1..Len(order) : order'[i] = order[i]
          /\ order'[Len(order) + 1] = c
          /\ \A d \in Calls : ExpiresFirst(d) => ExpiresFirst(d)'
      BY <2>2, AppendedLast DEF StoreInv
    <3>2. \A i \in 1..Len(order) : order[i] \in Tasks =>
                results[order[i]] # None /\ CallOf(order[i]) # c
      BY <1>5, <3>1 DEF StoreInv, OrderHasResults, Settled
    <3>3. OrderHasResults'
      BY <1>1, <1>5, <3>1, <3>2 DEF OrderHasResults
    <3>4. ExpiresFirst(c)'
      BY <3>1, <3>2 DEF ExpiresFirst
    <3>5. ASSUME NEW d \in Calls, requests'[d] # None
          PROVE  /\ ExpiresFirst(d)'
                 /\ \A t \in Tasks : CallOf(t) = d => results'[t] # "gone"
      <4>1. CASE d = c
        BY <1>1, <1>5, <3>4, <4>1, NoneAssumption DEF Settled
      <4>2. CASE d # c
        <5>1. requests[d] # None
          BY <2>2, <3>5, <4>2 DEF StoreInv, StoreTypes
        <5>q. QED
          BY <1>1, <3>1, <5>1 DEF StoreInv, RequestsExpireFirst
      <4>q. QED
        BY <4>1, <4>2
    <3>q. QED
      BY <3>3, <3>5 DEF RequestsExpireFirst
  <2>q. QED
    BY <1>2, <2>1, <2>2
<1>q. QED
  BY <1>6, <1>7, <1>8, <1>9 DEF StoreInv

\* A task that is sent becomes due, and was not sent before.
LEMMA SendTaskStores ==
    ASSUME RoutingInv, StoreInv, NEW n \in Nodes, SendTask(n)
    PROVE  StoreInv'
<1> DEFINE t == adding[n]
<1>1. /\ handler[n] = "send" /\ t \in Tasks
      /\ UNCHANGED <<requests, results, groups, order, unrecorded, pc, res>>
  BY DEF SendTask, storeVars, workerVars, RoutingInv, RoutingTypes
<1>2. \/ UNCHANGED <<sent, due>>
      \/ sent' = sent \cup {t} /\ due' = [due EXCEPT ![t] = Replies]
  BY DEF SendTask
<1>3. t \notin sent /\ ~ Settled(t)
  BY <1>1 DEF RoutingInv, HandedOver, StoreInv, AnsweredOnce
<1> HIDE DEF t
<1>4. StoreTypes' /\ OrderHasResults' /\ GroupsNameResults' /\ KeptIsMember'
  BY <1>1 DEF StoreInv, StoreTypes, OrderHasResults, GroupsNameResults, NamesResults,
     KeptIsMember, Kept
<1>5. AnsweredOnce'
  BY <1>1, <1>2, <1>3 DEF StoreInv, AnsweredOnce, Settled, RoutingInv, RoutingTypes
<1>6. AskedIsRecorded' /\ RequestsExpireFirst'
  BY <1>1 DEF StoreInv, AskedIsRecorded, SetOut, Called, RequestsExpireFirst,
     ExpiresFirst
<1>q. QED
  BY <1>4, <1>5, <1>6 DEF StoreInv

\* An answer is recorded for the first time, in a group that does not name it yet.
LEMMA WriteResultStores ==
    ASSUME RoutingInv, StoreInv, NEW t \in Tasks, WriteResult(t, Answer),
           Answer \in due[t], due' = [due EXCEPT ![t] = @ \ {Answer}],
           UNCHANGED <<sent, pc, res>>
    PROVE  StoreInv'
<1> DEFINE c == CallOf(t)
<1>1. /\ results' = [results EXCEPT ![t] = Answer]
      /\ order' = Append(Without(order, t), t)
      /\ groups' = IF c \in Calls THEN [groups EXCEPT ![c] = GroupWith(groups[c], t)]
                   ELSE groups
      /\ requests' = requests /\ unrecorded' = unrecorded
  BY DEF WriteResult, StoreInv, StoreTypes
<1>2. /\ results[t] = None /\ t \notin unrecorded /\ t \in sent
      /\ results \in [Tasks -> Replies \cup {None, "gone"}]
      /\ due \in [Tasks -> SUBSET Replies]
  BY DEF StoreInv, AnsweredOnce, Settled, RoutingInv, RoutingTypes
<1>3. /\ results'[t] # None /\ results'[t] # "gone"
      /\ \A u \in Tasks : u # t => results'[u] = results[u]
  BY <1>1, <1>2, NoneAssumption DEF Answer, Replies
<1>4. order' \in Seq(Calls \cup Tasks) /\ OrderHasResults' /\ RequestsExpireFirst'
  <2>1. order' = Append(order, t)
    BY <1>1, <1>2 DEF StoreInv, OrderHasResults, Without
  <2>2. /\ order' \in Seq(Calls \cup Tasks)
        /\ Len(order) \in Nat /\ DOMAIN order = 1..Len(order)
        /\ DOMAIN order' = 1..(Len(order) + 1)
        /\ \A i \in 1..Len(order) : order'[i] = order[i]
        /\ order'[Len(order) + 1] = t
        /\ \A d \in Calls : ExpiresFirst(d) => ExpiresFirst(d)'
    BY <2>1, AppendedLast DEF StoreInv
  <2>3. OrderHasResults'
    BY <1>3, <2>2 DEF StoreInv, OrderHasResults
  <2>4. RequestsExpireFirst'
    BY <1>1, <1>3, <2>2 DEF StoreInv, RequestsExpireFirst
  <2>q. QED
    BY <2>2, <2>3, <2>4
<1>5. AnsweredOnce' /\ AskedIsRecorded'
  BY <1>1, <1>2, <1>3 DEF StoreInv, AnsweredOnce, Settled, AskedIsRecorded, SetOut,
     Called
<1>6. CASE c \notin Calls
  <2>1. groups' = groups
    BY <1>1, <1>6
  <2>2. StoreTypes'
    BY <1>1, <1>4, <2>1 DEF StoreInv, StoreTypes
  <2>3. GroupsNameResults' /\ KeptIsMember'
    <3>1. \A u \in Tasks : results[u] # None => results'[u] # None
      BY <1>3
    <3>2. \A d \in Calls : groups[d] # None =>
            \A i \in DOMAIN groups[d].members : groups[d].members[i] \in Tasks
      BY DEF StoreInv, StoreTypes, GroupEntries
    <3>q. QED
      BY <1>3, <1>6, <2>1, <3>1, <3>2 DEF StoreInv, GroupsNameResults, NamesResults,
         KeptIsMember, Kept
  <2>q. QED
    BY <1>4, <1>5, <2>2, <2>3 DEF StoreInv
<1>7. CASE c \in Calls
  <2> DEFINE new == GroupWith(groups[c], t)
             Names(g) ==
                /\ g.members # <<>>
                /\ \A i \in DOMAIN g.members :
                        CallOf(g.members[i]) = c /\ results'[g.members[i]] # None
                /\ \A i, j \in DOMAIN g.members : g.members[i] = g.members[j] => i = j
                /\ g.ttl # None => g.members = <<g.ttl>>
             Has(g, u) == \E i \in DOMAIN g.members : g.members[i] = u
  <2>1. /\ groups'[c] = new /\ \A d \in Calls : d # c => groups'[d] = groups[d]
        /\ groups' = [groups EXCEPT ![c] = new]
    BY <1>1, <1>7 DEF StoreInv, StoreTypes
  <2>2. \A d \in Calls : groups[d] # None =>
            /\ groups[d] \in GroupEntries
            /\ groups[d].members \in Seq(Tasks)
            /\ \A i \in DOMAIN groups[d].members : groups[d].members[i] \in Tasks
    BY DEF StoreInv, StoreTypes, GroupEntries
  <2>3. /\ new \in GroupEntries /\ Names(new) /\ Has(new, t)
        /\ \A u \in Tasks : CallOf(u) = c /\ Kept(u) => Has(new, u)
    <3>1. CASE groups[c] = None
      <4>1. new = [members |-> <<t>>, ttl |-> t]
        BY <3>1 DEF GroupWith
      <4>2. /\ <<t>> \in Seq(Tasks) /\ DOMAIN <<t>> = {1} /\ <<t>>[1] = t
            /\ <<t>> # <<>>
        OBVIOUS
      <4>3. \A u \in Tasks : CallOf(u) = c => ~ Kept(u)
        BY <1>7, <3>1 DEF StoreInv, KeptIsMember
      <4>q. QED
        BY <1>3, <4>1, <4>2, <4>3 DEF GroupEntries
    <3>2. CASE groups[c] # None
      <4> DEFINE old == groups[c].members
                 L == Len(old)
      <4>1. new = [members |-> Append(old, t), ttl |-> None] /\ old \in Seq(Tasks)
        BY <1>7, <2>2, <3>2 DEF GroupWith
      <4>2. /\ Append(old, t) \in Seq(Tasks) /\ Append(old, t) # <<>>
            /\ L \in Nat /\ DOMAIN old = 1..L /\ DOMAIN new.members = 1..(L + 1)
            /\ \A i \in 1..L : new.members[i] = old[i]
            /\ new.members[L + 1] = t
        BY <4>1
      <4>3. /\ \A i \in 1..L : CallOf(old[i]) = c /\ results[old[i]] # None
            /\ \A i, j \in 1..L : old[i] = old[j] => i = j
            /\ \A i \in 1..L : old[i] \in Tasks
        BY <1>7, <2>2, <3>2, <4>2 DEF StoreInv, GroupsNameResults, NamesResults
      <4>4. \A u \in Tasks : CallOf(u) = c /\ Kept(u) => \E i \in 1..L : old[i] = u
        BY <1>7, <4>2 DEF StoreInv, KeptIsMember
      <4> HIDE DEF old, L
      <4>5. \A i \in 1..L : old[i] # t /\ results'[old[i]] # None
        BY <1>2, <1>3, <4>3
      <4>6. new \in GroupEntries
        BY <4>1, <4>2 DEF GroupEntries
      <4>7. new.members # <<>> /\ new.ttl = None
        BY <4>1, <4>2
      <4> HIDE DEF new
      <4>8. \A i \in DOMAIN new.members : i \in 1..L \/ i = L + 1
        BY <4>2
      <4>9. Names(new)
        BY <1>3, <4>2, <4>3, <4>5, <4>7, <4>8
      <4>10. \A i \in 1..L : i \in DOMAIN new.members
        BY <4>2
      <4>11. L + 1 \in DOMAIN new.members
        BY <4>2
      <4>q. QED
        BY <4>2, <4>4, <4>6, <4>9, <4>10, <4>11
    <3>q. QED
      BY <3>1, <3>2
  <2> HIDE DEF new, c
  <2>4. new # None
    BY <2>3, EntriesAssumption
  <2>5. StoreTypes'
    BY <1>1, <1>4, <2>1, <2>3 DEF StoreInv, StoreTypes
  <2>6. GroupsNameResults'
    <3>1. ASSUME NEW d \in Calls, groups'[d] # None PROVE NamesResults(d, groups[d])'
      <4>1. CASE d = c
        BY <2>1, <2>3, <4>1 DEF NamesResults
      <4>2. CASE d # c
        <5>1. groups'[d] = groups[d] /\ NamesResults(d, groups[d])
          BY <2>1, <3>1, <4>2 DEF StoreInv, GroupsNameResults
        <5>q. QED
          BY <1>3, <2>2, <3>1, <5>1 DEF NamesResults
      <4>q. QED
        BY <4>1, <4>2
    <3>q. QED
      BY <3>1 DEF GroupsNameResults
  <2>7. KeptIsMember'
    <3>1. ASSUME NEW u \in Tasks, Kept(u)', CallOf(u) \in Calls
          PROVE  groups'[CallOf(u)] # None /\ Has(groups'[CallOf(u)], u)
      <4>1. CASE CallOf(u) = c
        <5>1. u = t \/ Kept(u)
          BY <1>3, <3>1 DEF Kept
        <5>q. QED
          BY <2>1, <2>3, <2>4, <3>1, <4>1, <5>1
      <4>2. CASE CallOf(u) # c
        <5>1. Kept(u)
          BY <1>3, <3>1, <4>2 DEF Kept, c
        <5>q. QED
          BY <2>1, <3>1, <4>2, <5>1 DEF StoreInv, KeptIsMember
      <4>q. QED
        BY <4>1, <4>2
    <3>q. QED
      BY <3>1 DEF KeptIsMember
  <2>q. QED
    BY <1>4, <1>5, <2>5, <2>6, <2>7 DEF StoreInv
<1>q. QED
  BY <1>6, <1>7

\* What is received is recorded if it is the answer, or lost.
LEMMA ReceiveStores ==
    ASSUME RoutingInv, StoreInv, NEW n \in Nodes, Receive(n)
    PROVE  StoreInv'
<1>0. PICK t \in OnStream(n) : \E kind \in due[t] :
        due' = [due EXCEPT ![t] = @ \ {kind}] /\ Record(t, kind)
  BY DEF Receive
<1>1. PICK kind \in due[t] : due' = [due EXCEPT ![t] = @ \ {kind}] /\ Record(t, kind)
  BY <1>0
<1>2. t \in Tasks /\ UNCHANGED <<sent, pc, res>> /\ due \in [Tasks -> SUBSET Replies]
  BY DEF Receive, workerVars, OnStream, RoutingInv, RoutingTypes
<1>3. CASE kind = Answer /\ WriteResult(t, Answer)
  BY <1>1, <1>2, <1>3, WriteResultStores
<1>4. CASE kind = Answer /\ FailToWrite(t)
  <2>1. /\ UNCHANGED <<requests, results, groups, order>>
        /\ unrecorded' = unrecorded \cup {t}
    BY <1>4 DEF FailToWrite
  <2>2. StoreTypes' /\ OrderHasResults' /\ GroupsNameResults' /\ KeptIsMember'
    BY <2>1 DEF StoreInv, StoreTypes, OrderHasResults, GroupsNameResults, NamesResults,
       KeptIsMember, Kept
  <2>3. AskedIsRecorded' /\ RequestsExpireFirst'
    BY <1>2, <2>1 DEF StoreInv, AskedIsRecorded, SetOut, Called, RequestsExpireFirst,
       ExpiresFirst
  <2>4. AnsweredOnce'
    BY <1>1, <1>2, <1>4, <2>1 DEF StoreInv, AnsweredOnce, Settled
  <2>q. QED
    BY <2>2, <2>3, <2>4 DEF StoreInv
<1>5. CASE kind # Answer
  <2>1. UNCHANGED storeVars /\ \A u \in Tasks : due'[u] \subseteq due[u]
    BY <1>1, <1>2, <1>5 DEF Record
  <2>2. \A u \in Tasks : SetOut(u)' <=> SetOut(u)
    BY <1>2 DEF SetOut
  <2>q. QED
    BY <1>2, <2>1, <2>2, StoreUntouched
<1>q. QED
  BY <1>1, <1>3, <1>4, <1>5 DEF Record, StoreResult

\* The oldest entry expires: a request before the answers to it, a group with the only
\* result it names, or not at all.
LEMMA ExpireStores ==
    ASSUME RoutingInv, StoreInv, Expire
    PROVE  StoreInv'
<1> DEFINE old == Head(order)
<1>1. /\ order # <<>> /\ order' = Tail(order)
      /\ requests' = [c \in Calls |-> IF c = old THEN None ELSE requests[c]]
      /\ results' = [t \in Tasks |-> IF t = old THEN "gone" ELSE results[t]]
      /\ groups' = [c \in Calls |->
            IF groups[c] # None /\ groups[c].ttl = old THEN None ELSE groups[c]]
      /\ UNCHANGED <<unrecorded, sent, due, pc, res>>
  BY DEF Expire, ExpireOldest, workerVars, nodeVars
<1>2. /\ Len(order) \in Nat \ {0} /\ DOMAIN order = 1..Len(order)
      /\ old = order[1] /\ old \in Calls \cup Tasks
      /\ order' \in Seq(Calls \cup Tasks)
      /\ DOMAIN order' = 1..(Len(order) - 1)
      /\ \A i \in 1..(Len(order) - 1) :
            order'[i] = order[i + 1] /\ order[i + 1] \in Calls \cup Tasks
  <2>1. order \in Seq(Calls \cup Tasks) /\ order # <<>>
    BY <1>1 DEF StoreInv, StoreTypes
  <2>2. /\ order' \in Seq(Calls \cup Tasks) /\ Len(order') = Len(order) - 1
        /\ \A i \in 1..Len(order') : order'[i] = order[i + 1]
    BY <1>1, <2>1, HeadTailProperties
  <2>3. Len(order) \in Nat \ {0} /\ old = order[1]
    BY <2>1
  <2> HIDE DEF old
  <2>q. QED
    BY <2>1, <2>2, <2>3
<1> HIDE DEF old
<1>3. /\ old \in Tasks => results[old] # None /\ results'[old] = "gone"
      /\ "gone" # None /\ old # None
      /\ \A t \in Tasks : t # old => results'[t] = results[t]
      /\ \A t \in Tasks : results[t] # None <=> results'[t] # None
  <2>1. old \in Tasks => results[old] # None
    BY <1>2 DEF StoreInv, OrderHasResults
  <2>q. QED
    BY <1>1, <1>2, <2>1, NoneAssumption
<1>4. StoreTypes'
  BY <1>1, <1>2 DEF StoreInv, StoreTypes
<1>5. AnsweredOnce' /\ AskedIsRecorded'
  BY <1>1, <1>3 DEF StoreInv, AnsweredOnce, Settled, AskedIsRecorded, SetOut, Called
<1>6. OrderHasResults'
  BY <1>2, <1>3 DEF StoreInv, OrderHasResults
<1>7. \A c \in Calls : groups'[c] # None =>
        /\ groups'[c] = groups[c] /\ groups[c] # None /\ groups[c].ttl # old
        /\ \A i \in DOMAIN groups[c].members : groups[c].members[i] \in Tasks
  BY <1>1 DEF StoreInv, StoreTypes, GroupEntries
<1>8. GroupsNameResults'
  BY <1>3, <1>7 DEF StoreInv, GroupsNameResults, NamesResults
<1>9. KeptIsMember'
  <2>1. SUFFICES ASSUME NEW t \in Tasks, Kept(t)', CallOf(t) \in Calls
                 PROVE  /\ groups'[CallOf(t)] # None
                        /\ \E i \in DOMAIN groups'[CallOf(t)].members :
                                groups'[CallOf(t)].members[i] = t
    BY DEF KeptIsMember
  <2>2. t # old /\ Kept(t)
    BY <1>3, <2>1 DEF Kept
  <2>3. PICK i \in DOMAIN groups[CallOf(t)].members :
            groups[CallOf(t)].members[i] = t
    BY <2>1, <2>2 DEF StoreInv, KeptIsMember
  <2>4. groups[CallOf(t)] # None
    BY <2>1, <2>2 DEF StoreInv, KeptIsMember
  <2>5. groups[CallOf(t)].ttl # old
    <3>1. SUFFICES ASSUME groups[CallOf(t)].ttl = old PROVE FALSE
      OBVIOUS
    <3>2. groups[CallOf(t)].members = <<old>>
      BY <1>3, <2>1, <2>4, <3>1 DEF StoreInv, GroupsNameResults, NamesResults
    <3>q. QED
      BY <2>2, <2>3, <3>2
  <2>q. QED
    BY <1>1, <2>1, <2>3, <2>4, <2>5
<1>10. RequestsExpireFirst'
  <2>1. SUFFICES ASSUME NEW c \in Calls, requests'[c] # None
                 PROVE  /\ ExpiresFirst(c)'
                        /\ \A t \in Tasks : CallOf(t) = c => results'[t] # "gone"
    BY DEF RequestsExpireFirst
  <2>2. c # old /\ requests[c] # None
    BY <1>1, <2>1
  <2>3. /\ \A t \in Tasks : CallOf(t) = c => results[t] # "gone"
        /\ ExpiresFirst(c)
    BY <2>2 DEF StoreInv, RequestsExpireFirst
  <2>4. PICK i \in 1..Len(order) :
            /\ order[i] = c
            /\ \A j \in 1..(i - 1) : order[j] \in Tasks => CallOf(order[j]) # c
    BY <1>2, <2>3 DEF ExpiresFirst
  <2>5. i # 1 /\ i - 1 \in 1..(Len(order) - 1) /\ 1 \in 1..(i - 1)
        /\ order[(i - 1) + 1] = c
    BY <1>2, <2>2, <2>4
  <2>6. old \in Tasks => CallOf(old) # c
    BY <1>2, <2>4, <2>5
  <2>7. \A t \in Tasks : CallOf(t) = c => results'[t] # "gone"
    BY <1>3, <2>3, <2>6
  <2>8. \A j \in 1..((i - 1) - 1) : order'[j] \in Tasks => CallOf(order'[j]) # c
    <3>1. SUFFICES ASSUME NEW j \in 1..((i - 1) - 1)
                   PROVE  order'[j] \in Tasks => CallOf(order'[j]) # c
      OBVIOUS
    <3>2. j + 1 \in 1..(i - 1) /\ j \in 1..(Len(order) - 1)
      BY <1>2, <2>5
    <3>q. QED
      BY <1>2, <2>4, <3>2
  <2>9. ExpiresFirst(c)'
    BY <1>2, <2>5, <2>8 DEF ExpiresFirst
  <2>q. QED
    BY <2>7, <2>9
<1>q. QED
  BY <1>4, <1>5, <1>6, <1>8, <1>9, <1>10 DEF StoreInv

\* Every other step leaves the database alone.
LEMMA OtherStepsStore ==
    ASSUME RoutingInv, StoreInv,
           \/ CollectNodesSpecs
           \/ \E t \in Tasks : WorkerStep(t) \/ TakeTask(t) \/ CleanUpRoute(t)
           \/ \E n \in Nodes : \/ Open(n) \/ LinkBreaks(n) \/ Announce(n)
                               \/ HandlerStep(n) /\ ~ SendTask(n)
                               \/ ResponderStep(n)
    PROVE  StoreInv'
<1>1. UNCHANGED storeVars /\ UNCHANGED sent
  BY DEF CollectNodesSpecs, WorkerStep, Send, SendTimeout, ReceiveResponse, WaitTimeout,
     TakeTask, CleanUpRoute, Open, LinkBreaks, Announce, HandlerStep, RegisterNode,
     GetTasksChannel, AddRoute, LeaveLoop, Join, UnregisterNode, ResponderStep,
     StopReceiving, Route, Close, nodeVars
<1>2. \A t \in Tasks : due'[t] \subseteq due[t]
  <2>1. \/ UNCHANGED due
        \/ \E n \in Nodes :
                due' = [t \in Tasks |-> IF t \in OnStream(n) THEN {} ELSE due[t]]
    BY DEF CollectNodesSpecs, WorkerStep, Send, SendTimeout, ReceiveResponse,
       WaitTimeout, TakeTask, CleanUpRoute, Open, LinkBreaks, Announce, HandlerStep,
       RegisterNode, GetTasksChannel, AddRoute, LeaveLoop, Join, UnregisterNode,
       ResponderStep, StopReceiving, Route, Close, nodeVars
  <2>q. QED
    BY <2>1
<1>3. /\ \A t \in Tasks : CallOf(t) \in Calls /\ SetOut(t)' => SetOut(t)
      /\ \A t \in Tasks : pc[t] # Idle => pc'[t] # Idle
  <2>0. pc \in [Tasks -> {Idle, "send", "offer", "wait", "done"}]
    BY DEF RoutingInv, RoutingTypes
  <2>1. CASE CollectNodesSpecs
    <3>1. /\ \A t \in Tasks : CallOf(t) \in Calls => pc'[t] = pc[t]
          /\ \A t \in Tasks : pc'[t] \in {pc[t], "send"}
          /\ res' = res
      BY <2>1, CollectorAssumption DEF CollectNodesSpecs
    <3>q. QED
      BY <3>1 DEF SetOut, Idle
  <2>2. CASE \E t \in Tasks : WorkerStep(t) \/ TakeTask(t)
    <3>1. PICK t \in Tasks : WorkerStep(t) \/ TakeTask(t)
      BY <2>2
    <3>2. /\ pc[t] \in {"send", "offer", "wait"}
          /\ \E label \in {"offer", "wait", "done"} : pc' = [pc EXCEPT ![t] = label]
          /\ res' = res \/ \E report : res' = [res EXCEPT ![t] = report]
      BY <3>1 DEF WorkerStep, Send, SendTimeout, ReceiveResponse, WaitTimeout, Finish,
         TakeTask
    <3>3. SetOut(t) /\ pc'[t] # Idle
      BY <2>0, <3>2, NoneAssumption DEF RoutingInv, WorkersInOrder, SetOut, Idle
    <3>4. \A u \in Tasks : u # t => pc'[u] = pc[u] /\ res'[u] = res[u]
      <4>1. \A u \in Tasks : u # t => pc'[u] = pc[u]
        BY <2>0, <3>2
      <4>2. DOMAIN res = Tasks
        BY DEF RoutingInv, RoutingTypes
      <4>3. \A u \in Tasks : u # t => res'[u] = res[u]
        BY <3>2, <4>2
      <4>q. QED
        BY <4>1, <4>3
    <3>q. QED
      BY <3>3, <3>4 DEF SetOut
  <2>3. CASE \/ \E t \in Tasks : CleanUpRoute(t)
             \/ \E n \in Nodes : \/ Open(n) \/ LinkBreaks(n) \/ Announce(n)
                                 \/ HandlerStep(n) /\ ~ SendTask(n)
                                 \/ ResponderStep(n)
    <3>1. UNCHANGED <<pc, res>>
      BY <2>3 DEF CleanUpRoute, Open, LinkBreaks, Announce, HandlerStep, RegisterNode,
         GetTasksChannel, AddRoute, LeaveLoop, Join, UnregisterNode, ResponderStep,
         StopReceiving, Route, Close, workerVars
    <3>q. QED
      BY <3>1 DEF SetOut
  <2>q. QED
    BY <2>1, <2>2, <2>3
<1>q. QED
  BY <1>1, <1>2, <1>3, StoreUntouched

\* The job database stays in order in every reachable state.
THEOREM StoreInvariant == Spec => []StoreInv
<1>1. Init => StoreInv
  BY NoneAssumption DEF Init, StoreInit, StoreInv, StoreTypes, AnsweredOnce, Settled,
     OrderHasResults, GroupsNameResults, KeptIsMember, Kept, AskedIsRecorded,
     RequestsExpireFirst
<1>2. RoutingInv /\ StoreInv /\ [Next]_vars => StoreInv'
  <2>0. SUFFICES ASSUME RoutingInv, StoreInv, [Next]_vars PROVE StoreInv'
    OBVIOUS
  <2>1. CASE UNCHANGED vars
    BY <2>0, <2>1, StoreUntouched DEF vars, workerVars, nodeVars, SetOut
  <2>2. ASSUME NEW c \in Calls, ExecTask(c) PROVE StoreInv'
    BY <2>0, <2>2, ExecTaskStores
  <2>3. CASE Expire
    BY <2>0, <2>3, ExpireStores
  <2>4. ASSUME NEW n \in Nodes, SendTask(n) PROVE StoreInv'
    BY <2>0, <2>4, SendTaskStores
  <2>5. ASSUME NEW n \in Nodes, Receive(n) PROVE StoreInv'
    BY <2>0, <2>5, ReceiveStores
  <2>6. CASE \/ CollectNodesSpecs
             \/ \E t \in Tasks : WorkerStep(t) \/ TakeTask(t) \/ CleanUpRoute(t)
             \/ \E n \in Nodes : \/ Open(n) \/ LinkBreaks(n) \/ Announce(n)
                                 \/ HandlerStep(n) /\ ~ SendTask(n)
                                 \/ ResponderStep(n)
    BY <2>0, <2>6, OtherStepsStore
  <2>7. \A n \in Nodes :
            HandlerStep(n) => SendTask(n) \/ (HandlerStep(n) /\ ~ SendTask(n))
    OBVIOUS
  <2>q. QED
    BY <2>0, <2>1, <2>2, <2>3, <2>4, <2>5, <2>6, <2>7 DEF Next
<1>q. QED
  BY <1>1, <1>2, RoutingInvariant, PTL DEF Spec

\* Every variable, those of the job database included, has its type.
THEOREM TypeCorrect == Spec => []TypeOK
<1>1. RoutingInv /\ StoreInv => TypeOK
  BY DEF RoutingInv, StoreInv, StoreTypes, TypeOK
<1>q. QED
  BY <1>1, RoutingInvariant, StoreInvariant, PTL

\* A result that is kept is found through its group, where it stands once.
THEOREM KeptIsListed == Spec => []KeptIsListedOnce
<1>1. RoutingInv /\ StoreInv => KeptIsListedOnce
  <2>1. SUFFICES ASSUME RoutingInv, StoreInv, NEW t \in Tasks, Kept(t),
                        CallOf(t) \in Calls
                 PROVE  /\ groups[CallOf(t)] # None
                        /\ Cardinality({i \in DOMAIN groups[CallOf(t)].members :
                                groups[CallOf(t)].members[i] = t}) = 1
    BY DEF KeptIsListedOnce
  <2> DEFINE members == groups[CallOf(t)].members
  <2>2. groups[CallOf(t)] # None /\ \E i \in DOMAIN members : members[i] = t
    BY <2>1 DEF StoreInv, KeptIsMember
  <2>3. \A i, j \in DOMAIN members : members[i] = members[j] => i = j
    BY <2>1, <2>2 DEF StoreInv, GroupsNameResults, NamesResults
  <2>4. PICK k \in DOMAIN members : members[k] = t
    BY <2>2
  <2>5. {i \in DOMAIN members : members[i] = t} = {k}
    BY <2>3, <2>4
  <2>6. Cardinality({k}) = 1
    BY FS_Singleton
  <2>q. QED
    BY <2>2, <2>5, <2>6
<1>q. QED
  BY <1>1, RoutingInvariant, StoreInvariant, PTL

\* A result or a group is shown with no other request than the one it answers, and with
\* that one, and answers of nodes that were connected when it was made, for as long as
\* it is kept.
THEOREM ResultsLeadToRequests == Spec => []ResultLeadsToRequest
<1>1. RoutingInv /\ StoreInv => ResultLeadsToRequest
  <2>0. SUFFICES ASSUME RoutingInv, StoreInv, NEW id \in IdOrders,
                        NEW key \in Calls \cup (Calls \X Nodes),
                        NEW c, c = IF key \in Calls THEN key ELSE CallOf(key),
                        Stored(key)
        PROVE  /\ ShownRequest(id, key) \subseteq {c}
               /\ requests[c] # None =>
                    /\ ShownRequest(id, key) = {c}
                    /\ Shown(key) # {}
                    /\ \A answers \in Shown(key) : \A i \in DOMAIN answers :
                            NodeOf(answers[i]) \in requests[c].connected
    BY DEF ResultLeadsToRequest
  <2>1. /\ c \in Calls
        /\ ShownRequest(id, key) = Recorded(id, id[c])
    <3>1. CASE key \in Calls
      BY <2>0, <3>1 DEF ShownRequest, RequestIDOf
    <3>2. CASE key \notin Calls
      <4>1. key \in Calls \X Nodes /\ CallOf(key) \in Calls
        BY <2>0, <3>2 DEF CallOf
      <4>q. QED
        BY <2>0, <3>2, <4>1 DEF ShownRequest, RequestIDOf
    <3>q. QED
      BY <3>1, <3>2
  <2>2. /\ Recorded(id, id[c]) \subseteq {c}
        /\ requests[c] # None => Recorded(id, id[c]) = {c}
    BY <2>1, IdAssumption DEF Recorded
  <2>3. ASSUME requests[c] # None, NEW t \in Tasks, CallOf(t) = c, results[t] # None
        PROVE  Kept(t) /\ NodeOf(t) \in requests[c].connected
    <3>1. t \in sent
      BY <2>0, <2>3 DEF StoreInv, AnsweredOnce, Settled
    <3>2. SetOut(t)
      BY <2>0, <3>1, SentSetOut
    <3>q. QED
      BY <2>0, <2>1, <2>3, <3>2 DEF StoreInv, AskedIsRecorded, RequestsExpireFirst, Kept
  <2>4. CASE key \in Calls
    <3>1. c = key /\ key \notin Tasks
      BY <2>0, <2>4, KeysAssumption
    <3>2. groups[key] # None /\ NamesResults(key, groups[key])
      BY <2>0, <2>4 DEF Stored, StoreInv, GroupsNameResults
    <3>3. \A i \in DOMAIN groups[key].members :
            /\ groups[key].members[i] \in Tasks
            /\ CallOf(groups[key].members[i]) = c
            /\ results[groups[key].members[i]] # None
      BY <2>0, <2>4, <3>1, <3>2 DEF StoreInv, StoreTypes, GroupEntries, NamesResults
    <3>4. Shown(key) = {g.members : g \in {h \in {groups[key]} \ {None} :
                            \A i \in DOMAIN h.members : Kept(h.members[i])}}
      BY <3>1 DEF Shown
    <3>5. requests[c] # None => Shown(key) = {groups[key].members}
      BY <2>3, <3>2, <3>3, <3>4
    <3>q. QED
      BY <2>1, <2>2, <2>3, <3>3, <3>5
  <2>5. CASE key \notin Calls
    <3>1. key \in Tasks /\ CallOf(key) = c
      BY <2>0, <2>5 DEF Tasks
    <3>2. Kept(key) /\ results[key] # None
      BY <2>0, <2>5 DEF Stored, Kept
    <3>3. Shown(key) = {<<key>>}
      BY <3>1, <3>2 DEF Shown
    <3>q. QED
      BY <2>1, <2>2, <2>3, <3>1, <3>2, <3>3
  <2>q. QED
    BY <2>4, <2>5
<1>q. QED
  BY <1>1, RoutingInvariant, StoreInvariant, PTL

\* A query that is answered selects exactly the known nodes that satisfy it.
THEOREM QueriesSelect == Spec => []QuerySelectsSatisfying
<1>1. RoutingInv => QuerySelectsSatisfying
  BY QuerySelects, QueriesAssumption DEF RoutingInv, RoutingTypes, QuerySelectsSatisfying
<1>q. QED
  BY <1>1, RoutingInvariant, PTL

-----------------------------------------------------------------------------
(* What a listing shows *)

\* How many of a set of entries are newer than one of them.
Newer(K, id, k) == {j \in K : id[j] > id[k]}
Place(K, id, k) == Cardinality(Newer(K, id, k))

\* Entries with distinct IDs have distinct places, the newer the lower.
LEMMA PlacesDiffer ==
    ASSUME NEW K, IsFiniteSet(K), NEW id, \A k \in K : id[k] \in Nat,
           \A j, k \in K : id[j] = id[k] => j = k
    PROVE  /\ \A k \in K : Place(K, id, k) \in 0..(Cardinality(K) - 1)
           /\ \A j, k \in K : id[k] < id[j] => Place(K, id, j) < Place(K, id, k)
           /\ \A j, k \in K : Place(K, id, j) = Place(K, id, k) => j = k
<1>1. ASSUME NEW S, NEW U \in SUBSET S, NEW x \in S, x \notin U, IsFiniteSet(S)
      PROVE  Cardinality(U) \in Nat /\ Cardinality(S) \in Nat
             /\ Cardinality(U) < Cardinality(S)
  <2>1. /\ IsFiniteSet(U) /\ Cardinality(U) <= Cardinality(S)
        /\ Cardinality(S) = Cardinality(U) => S = U
    BY <1>1, FS_Subset
  <2>2. Cardinality(U) \in Nat /\ Cardinality(S) \in Nat
    BY <1>1, <2>1, FS_CardinalityType
  <2>q. QED
    BY <1>1, <2>1, <2>2
<1>2. ASSUME NEW k \in K PROVE Place(K, id, k) \in 0..(Cardinality(K) - 1)
  <2>1. Newer(K, id, k) \in SUBSET K /\ k \notin Newer(K, id, k)
    BY <1>2 DEF Newer
  <2>2. /\ Cardinality(Newer(K, id, k)) \in Nat /\ Cardinality(K) \in Nat
        /\ Cardinality(Newer(K, id, k)) < Cardinality(K)
    BY <1>1, <1>2, <2>1
  <2>q. QED
    BY <2>2 DEF Place
<1>3. ASSUME NEW j \in K, NEW k \in K, id[k] < id[j]
      PROVE  Place(K, id, j) < Place(K, id, k)
  <2>1. /\ Newer(K, id, k) \in SUBSET K /\ Newer(K, id, j) \in SUBSET Newer(K, id, k)
        /\ j \in Newer(K, id, k) /\ j \notin Newer(K, id, j)
    BY <1>3 DEF Newer
  <2>2. IsFiniteSet(Newer(K, id, k))
    BY <2>1, FS_Subset
  <2>q. QED
    BY <1>1, <2>1, <2>2 DEF Place
<1>4. ASSUME NEW j \in K, NEW k \in K, j # k
      PROVE  Place(K, id, j) # Place(K, id, k)
  <2>1. id[j] < id[k] \/ id[k] < id[j]
    BY <1>4
  <2>2. Place(K, id, j) \in Nat /\ Place(K, id, k) \in Nat
    BY <1>2
  <2>q. QED
    BY <1>3, <2>1, <2>2
<1>q. QED
  BY <1>2, <1>3, <1>4

\* Every place below their number is taken.
LEMMA PlacesTaken ==
    ASSUME NEW K, IsFiniteSet(K), NEW id, \A k \in K : id[k] \in Nat,
           \A j, k \in K : id[j] = id[k] => j = k
    PROVE  \A p \in 0..(Cardinality(K) - 1) : \E k \in K : Place(K, id, k) = p
<1> DEFINE N == Cardinality(K)
           f == [k \in K |-> Place(K, id, k)]
<1>1. N \in Nat
  BY FS_CardinalityType
<1>2. IsFiniteSet(0..(N - 1)) /\ Cardinality(0..(N - 1)) = N
  <2>1. 0 \in Int /\ N - 1 \in Int
    BY <1>1
  <2>2. Cardinality(0..(N - 1)) = IF 0 > N - 1 THEN 0 ELSE (N - 1) - 0 + 1
    BY <2>1, FS_Interval
  <2>3. IsFiniteSet(0..(N - 1))
    BY <2>1, FS_Interval
  <2> HIDE DEF N
  <2>4. (IF 0 > N - 1 THEN 0 ELSE (N - 1) - 0 + 1) = N
    BY <1>1
  <2>q. QED
    BY <2>2, <2>3, <2>4
<1>3. f \in Injection(K, 0..(N - 1))
  BY PlacesDiffer DEF Injection, IsInjective
<1>4. f \in Surjection(K, 0..(N - 1))
  <2> HIDE DEF f
  <2>q. QED
    BY <1>2, <1>3, FS_Injection
<1>q. QED
  BY <1>4 DEF Surjection

\* What is stored under the results' prefix is listed by place.
StoredKeys == {k \in Tasks \cup Calls : Stored(k)}

LEMMA KeysByPlace ==
    ASSUME NEW id \in IdOrders
    PROVE  /\ IsFiniteSet(StoredKeys) /\ Cardinality(StoredKeys) \in Nat
           /\ \A k \in StoredKeys : id[k] \in Nat
           /\ \A j, k \in StoredKeys : id[j] = id[k] => j = k
           /\ DOMAIN ResultKeys(id) = 1..Cardinality(StoredKeys)
           /\ Len(ResultKeys(id)) = Cardinality(StoredKeys)
           /\ \A i \in 1..Cardinality(StoredKeys) :
                /\ ResultKeys(id)[i] \in StoredKeys
                /\ Place(StoredKeys, id, ResultKeys(id)[i]) = i - 1
<1> DEFINE N == Cardinality(StoredKeys)
           keys == ResultKeys(id)
<1>1. IsFiniteSet(StoredKeys)
  <2>1. IsFiniteSet(Calls \cup {Collector})
    BY FiniteAssumption, FS_AddElement
  <2>2. IsFiniteSet(Tasks)
    BY <2>1, FiniteAssumption, FS_Product DEF Tasks
  <2>3. IsFiniteSet(Tasks \cup Calls)
    BY <2>2, FiniteAssumption, FS_Union
  <2>q. QED
    BY <2>3, FS_Subset DEF StoredKeys
<1>2. N \in Nat
  BY <1>1, FS_CardinalityType
<1>3. /\ \A k \in StoredKeys : id[k] \in Nat
      /\ \A j, k \in StoredKeys : id[j] = id[k] => j = k
  BY IdAssumption DEF StoredKeys
<1>4. keys = [i \in 1..N |-> CHOOSE k \in StoredKeys : Place(StoredKeys, id, k) = i - 1]
  BY DEF ResultKeys, StoredKeys, Place, Newer
<1>5. \A p \in 0..(N - 1) : \E k \in StoredKeys : Place(StoredKeys, id, k) = p
  BY <1>1, <1>3, PlacesTaken
<1>6. ASSUME NEW i \in 1..N
      PROVE  keys[i] \in StoredKeys /\ Place(StoredKeys, id, keys[i]) = i - 1
  <2>1. i - 1 \in 0..(N - 1)
    BY <1>2, <1>6
  <2>2. \E k \in StoredKeys : Place(StoredKeys, id, k) = i - 1
    BY <1>5, <2>1
  <2>3. keys[i] = CHOOSE k \in StoredKeys : Place(StoredKeys, id, k) = i - 1
    BY <1>4, <1>6
  <2> HIDE DEF keys, N
  <2>q. QED
    BY <2>2, <2>3
<1>7. Len(keys) = N
  <2> HIDE DEF keys, N
  <2>q. QED
    BY <1>2, <1>4
<1>q. QED
  BY <1>1, <1>2, <1>3, <1>4, <1>6, <1>7

\* What a listing's filters let through, and its share among the first i keys.
LetThrough(id, req) ==
    {k \in StoredKeys : InDates(id, req, k) /\ OnTargets(req, k)}
Before(id, req, i) == {k \in LetThrough(id, req) : Place(StoredKeys, id, k) < i}

\* The share grows by the next key, when the filters let it through, and then it is
\* what is newer than that key.
LEMMA NextKey ==
    ASSUME NEW id \in IdOrders, NEW req
    PROVE  /\ IsFiniteSet(LetThrough(id, req))
           /\ Before(id, req, 0) = {}
           /\ Before(id, req, Cardinality(StoredKeys)) = LetThrough(id, req)
           /\ \A i \in 1..Cardinality(StoredKeys) :
                LET key == ResultKeys(id)[i]
                    before == Before(id, req, i - 1)
                IN  /\ IsFiniteSet(before)
                    /\ key \in LetThrough(id, req) <=>
                            InDates(id, req, key) /\ OnTargets(req, key)
                    /\ key \notin LetThrough(id, req) => Before(id, req, i) = before
                    /\ key \in LetThrough(id, req) =>
                            /\ key \notin before
                            /\ Before(id, req, i) = before \cup {key}
                            /\ Newer(LetThrough(id, req), id, key) = before
<1> DEFINE N == Cardinality(StoredKeys)
           L == LetThrough(id, req)
<1>1. /\ IsFiniteSet(StoredKeys) /\ N \in Nat
      /\ \A k \in StoredKeys : id[k] \in Nat
      /\ \A j, k \in StoredKeys : id[j] = id[k] => j = k
  BY KeysByPlace
<1>2. /\ \A k \in StoredKeys : Place(StoredKeys, id, k) \in 0..(N - 1)
      /\ \A j, k \in StoredKeys :
            id[k] < id[j] => Place(StoredKeys, id, j) < Place(StoredKeys, id, k)
      /\ \A j, k \in StoredKeys :
            Place(StoredKeys, id, j) = Place(StoredKeys, id, k) => j = k
  BY <1>1, PlacesDiffer
<1>3. L \in SUBSET StoredKeys
  BY DEF LetThrough
<1>4. IsFiniteSet(L)
  BY <1>1, <1>3, FS_Subset
<1>5. Before(id, req, 0) = {} /\ Before(id, req, N) = L
  <2> HIDE DEF N, L
  <2>1. \A k \in L : Place(StoredKeys, id, k) \in Nat /\ Place(StoredKeys, id, k) < N
    BY <1>1, <1>2, <1>3
  <2>q. QED
    BY <2>1 DEF Before, L
<1>6. ASSUME NEW i \in 1..N
      PROVE  LET key == ResultKeys(id)[i]
                 before == Before(id, req, i - 1)
             IN  /\ IsFiniteSet(before)
                 /\ key \in L <=> InDates(id, req, key) /\ OnTargets(req, key)
                 /\ key \notin L => Before(id, req, i) = before
                 /\ key \in L => /\ key \notin before
                                 /\ Before(id, req, i) = before \cup {key}
                                 /\ Newer(L, id, key) = before
  <2> DEFINE key == ResultKeys(id)[i]
             before == Before(id, req, i - 1)
             place(k) == Place(StoredKeys, id, k)
  <2>1. key \in StoredKeys /\ place(key) = i - 1
    BY <1>6, KeysByPlace
  <2>2. before \in SUBSET L
    BY DEF Before
  <2>3. IsFiniteSet(before)
    BY <1>4, <2>2, FS_Subset
  <2>4. key \in L <=> InDates(id, req, key) /\ OnTargets(req, key)
    BY <2>1 DEF LetThrough
  <2>5. \A k \in L : /\ k \in StoredKeys /\ place(k) \in Nat
                     /\ place(k) = i - 1 => k = key
    BY <1>1, <1>2, <1>3, <2>1
  <2>6. before = {k \in L : place(k) < i - 1} /\ Before(id, req, i) = {k \in L : place(k) < i}
    BY DEF Before
  <2>7. \A k \in L : id[k] > id[key] <=> place(k) < i - 1
    <3>1. SUFFICES ASSUME NEW k \in L PROVE id[k] > id[key] <=> place(k) < i - 1
      OBVIOUS
    <3>2. id[k] \in Nat /\ id[key] \in Nat /\ place(k) \in Nat /\ k \in StoredKeys
      BY <1>1, <2>1, <2>5
    <3>3. CASE id[k] > id[key]
      BY <1>2, <2>1, <3>2, <3>3
    <3>4. CASE ~ (id[k] > id[key])
      <4>1. id[k] = id[key] \/ id[k] < id[key]
        BY <3>2, <3>4
      <4>2. k = key \/ place(key) < place(k)
        BY <1>1, <1>2, <2>1, <3>2, <4>1
      <4> HIDE DEF place, key
      <4>q. QED
        BY <1>6, <2>1, <3>2, <3>4, <4>2
    <3>q. QED
      BY <3>3, <3>4
  <2> HIDE DEF key, before, place, L, N
  <2>8. key \notin L => Before(id, req, i) = before
    <3>1. ASSUME key \notin L, NEW k \in L PROVE place(k) < i <=> place(k) < i - 1
      BY <1>6, <2>5, <3>1
    <3>q. QED
      BY <2>6, <3>1
  <2>9. ASSUME key \in L
        PROVE  /\ key \notin before
               /\ Before(id, req, i) = before \cup {key}
               /\ Newer(L, id, key) = before
    <3>1. key \notin before
      BY <1>6, <2>1, <2>6
    <3>2. ASSUME NEW k \in L PROVE place(k) < i <=> place(k) < i - 1 \/ k = key
      BY <1>6, <2>1, <2>5
    <3>3. Before(id, req, i) = before \cup {key}
      BY <2>6, <2>9, <3>2
    <3>4. Newer(L, id, key) = before
      BY <2>6, <2>7 DEF Newer
    <3>q. QED
      BY <3>1, <3>3, <3>4
  <2>q. QED
    BY <2>3, <2>4, <2>8, <2>9 DEF key, before
<1>q. QED
  BY <1>4, <1>5, <1>6

\* How long a page is when c entries were let through.
PageLength(req, c) ==
    IF c <= req.offset THEN 0
    ELSE IF c - req.offset <= PageSize(req) THEN c - req.offset ELSE PageSize(req)

\* What ListResults holds when the filters let c entries through.
PageHolds(id, req, acc, c) ==
    /\ acc \in [page : Seq(StoredKeys), skipped : Nat]
    /\ acc.skipped = IF c < req.offset THEN c ELSE req.offset
    /\ Len(acc.page) = PageLength(req, c)
    /\ \A m \in 1..Len(acc.page) :
            /\ acc.page[m] \in LetThrough(id, req)
            /\ Place(LetThrough(id, req), id, acc.page[m]) = req.offset + m - 1

\* One more entry that was let through is skipped, or appended, or there is no room.
LEMMA VisitHolds ==
    ASSUME NEW id, NEW req, req.offset \in Nat, PageSize(req) \in Nat \ {0},
           NEW acc, NEW c \in Nat, PageHolds(id, req, acc, c),
           NEW key \in LetThrough(id, req), Place(LetThrough(id, req), id, key) = c
    PROVE  PageHolds(id, req,
                     IF Len(acc.page) >= PageSize(req) THEN acc
                     ELSE IF acc.skipped < req.offset
                     THEN [acc EXCEPT !.skipped = @ + 1]
                     ELSE [acc EXCEPT !.page = Append(@, key)],
                     c + 1)
<1> DEFINE L == LetThrough(id, req)
           Holds(p, h) == \A m \in 1..h : /\ p[m] \in L
                                          /\ Place(L, id, p[m]) = req.offset + m - 1
<1>1. /\ acc \in [page : Seq(StoredKeys), skipped : Nat]
      /\ acc.skipped = IF c < req.offset THEN c ELSE req.offset
      /\ Len(acc.page) = PageLength(req, c)
      /\ Holds(acc.page, Len(acc.page))
  BY DEF PageHolds
<1>2. acc.page \in Seq(StoredKeys) /\ acc.skipped \in Nat /\ Len(acc.page) \in Nat
  BY <1>1
<1>3. key \in StoredKeys /\ Place(L, id, key) = c
  BY DEF LetThrough
<1> HIDE DEF L, Holds
<1>4. CASE Len(acc.page) >= PageSize(req)
  <2>1. c - req.offset >= PageSize(req) /\ c > req.offset
    BY <1>1, <1>2, <1>4 DEF PageLength
  <2>2. PageLength(req, c + 1) = PageSize(req) /\ PageLength(req, c) = PageSize(req)
    BY <2>1 DEF PageLength
  <2>3. acc.skipped = IF c + 1 < req.offset THEN c + 1 ELSE req.offset
    BY <1>1, <2>1
  <2>4. PageHolds(id, req, acc, c + 1)
    BY <1>1, <2>2, <2>3 DEF PageHolds, L, Holds
  <2>q. QED
    BY <1>4, <2>4
<1>5. CASE ~ (Len(acc.page) >= PageSize(req)) /\ acc.skipped < req.offset
  <2> DEFINE next == [acc EXCEPT !.skipped = @ + 1]
  <2>1. c < req.offset /\ acc.skipped = c
    BY <1>1, <1>2, <1>5
  <2>2. PageLength(req, c + 1) = 0 /\ PageLength(req, c) = 0
    BY <2>1 DEF PageLength
  <2>3. /\ next \in [page : Seq(StoredKeys), skipped : Nat]
        /\ next.page = acc.page /\ next.skipped = acc.skipped + 1
    BY <1>1, <1>2
  <2> HIDE DEF next
  <2>4. next.skipped = IF c + 1 < req.offset THEN c + 1 ELSE req.offset
    BY <2>1, <2>3
  <2>5. PageHolds(id, req, next, c + 1)
    BY <1>1, <2>2, <2>3, <2>4 DEF PageHolds, L, Holds
  <2>q. QED
    BY <1>5, <2>5 DEF next
<1>6. CASE ~ (Len(acc.page) >= PageSize(req)) /\ ~ (acc.skipped < req.offset)
  <2> DEFINE page == Append(acc.page, key)
             next == [acc EXCEPT !.page = Append(@, key)]
  <2>1. c >= req.offset /\ acc.skipped = req.offset
    BY <1>1, <1>2, <1>6
  <2>2. Len(acc.page) = c - req.offset /\ PageLength(req, c + 1) = c - req.offset + 1
    BY <1>1, <1>2, <1>6, <2>1 DEF PageLength
  <2>3. /\ page \in Seq(StoredKeys) /\ Len(page) = Len(acc.page) + 1
        /\ page[Len(acc.page) + 1] = key
        /\ \A m \in 1..Len(acc.page) : page[m] = acc.page[m]
    BY <1>2, <1>3
  <2>4. /\ next \in [page : Seq(StoredKeys), skipped : Nat]
        /\ next.page = page /\ next.skipped = acc.skipped
    BY <1>1, <1>2, <1>3
  <2>5. Holds(page, Len(page))
    <3>1. SUFFICES ASSUME NEW m \in 1..Len(page)
                   PROVE  page[m] \in L /\ Place(L, id, page[m]) = req.offset + m - 1
      BY DEF Holds
    <3> HIDE DEF page
    <3>2. CASE m = Len(acc.page) + 1
      BY <1>3, <2>1, <2>2, <2>3, <3>2 DEF L
    <3>3. CASE m # Len(acc.page) + 1
      <4>1. m \in 1..Len(acc.page)
        BY <1>2, <2>3, <3>1, <3>3
      <4>q. QED
        BY <1>1, <2>3, <4>1 DEF Holds
    <3>q. QED
      BY <3>2, <3>3
  <2> HIDE DEF page, next
  <2>6. next.skipped = IF c + 1 < req.offset THEN c + 1 ELSE req.offset
    BY <2>1, <2>4
  <2>7. PageHolds(id, req, next, c + 1)
    BY <2>2, <2>3, <2>4, <2>5, <2>6 DEF PageHolds, L, Holds
  <2>q. QED
    BY <1>6, <2>7 DEF next
<1>q. QED
  BY <1>4, <1>5, <1>6

\* A listing holds what its filters let through.
LEMMA ListHolds ==
    ASSUME NEW id \in IdOrders, NEW req, req.offset \in Nat,
           PageSize(req) \in Nat \ {0}
    PROVE  /\ Cardinality(LetThrough(id, req)) \in Nat
           /\ \E acc : /\ ListResults(id, req) = acc.page
                       /\ PageHolds(id, req, acc, Cardinality(LetThrough(id, req)))
<1> DEFINE keys == ResultKeys(id)
           N == Cardinality(StoredKeys)
           L == LetThrough(id, req)
           Acc == [page : Seq(StoredKeys), skipped : Nat]
           start == [page |-> <<>>, skipped |-> 0]
           Step(acc, key) ==
                IF \/ Len(acc.page) >= PageSize(req)
                   \/ ~InDates(id, req, key)
                   \/ ~OnTargets(req, key)
                THEN acc
                ELSE IF acc.skipped < req.offset
                THEN [acc EXCEPT !.skipped = @ + 1]
                ELSE [acc EXCEPT !.page = Append(@, key)]
           F(v) == [i \in 0..Len(keys) |->
                        IF i = 0 THEN start ELSE Step(v[i - 1], keys[i])]
           visit == CHOOSE v : v = F(v)
<1>1. ListResults(id, req) = visit[Len(keys)].page
  BY DEF ListResults
<1>2. /\ N \in Nat /\ Len(keys) = N /\ \A i \in 1..N : keys[i] \in StoredKeys
  BY KeysByPlace
<1>3. start \in Acc
  OBVIOUS
<1>4. ASSUME NEW acc \in Acc, NEW key \in StoredKeys PROVE Step(acc, key) \in Acc
  <2>1. [acc EXCEPT !.skipped = @ + 1] \in Acc
    OBVIOUS
  <2>2. [acc EXCEPT !.page = Append(@, key)] \in Acc
    OBVIOUS
  <2> HIDE DEF Acc
  <2>q. QED
    BY <2>1, <2>2
<1> HIDE DEF keys, N, L, Acc, start, Step
<1>5. \E v : v = F(v)
  <2> DEFINE step == [x \in Acc \X (1..N) |-> Step(x[1], keys[x[2]])]
  <2>1. step \in [Acc \X (1..N) -> Acc]
    BY <1>2, <1>4
  <2> HIDE DEF step, F, visit
  <2>2. PICK f : Recursion(f, Acc, start, N, step)
    BY <1>2, <1>3, <2>1, RecursionExists
  <2> USE DEF Recursion
  <2>3. ASSUME NEW i \in 1..N PROVE f[i] = Step(f[i - 1], keys[i])
    <3>1. i - 1 \in 0..N
      BY <1>2, <2>3
    <3>2. f[i - 1] \in Acc
      BY <2>2, <3>1
    <3>q. QED
      BY <2>2, <3>2 DEF step
  <2>4. ASSUME NEW i \in 0..N PROVE f[i] = IF i = 0 THEN start ELSE Step(f[i - 1], keys[i])
    <3>1. i # 0 => i \in 1..N
      BY <1>2
    <3>q. QED
      BY <2>2, <2>3, <3>1
  <2>5. f = [i \in 0..N |-> f[i]]
    BY <2>2
  <2>6. F(f) = [i \in 0..N |-> F(f)[i]] /\ \A i \in 0..N : f[i] = F(f)[i]
    BY <1>2, <2>4 DEF F
  <2>7. f = F(f)
    <3> HIDE DEF F
    <3>q. QED
      BY <2>5, <2>6
  <2>q. QED
    BY <2>7
<1>6. visit = F(visit)
  <2> HIDE DEF F
  <2>q. QED
    BY <1>5
<1> HIDE DEF visit
<1>7. /\ visit[0] = start
      /\ \A i \in 1..N : visit[i] = Step(visit[i - 1], keys[i])
  <2>1. 0 \in 0..N /\ \A i \in 1..N : i \in 0..N /\ i # 0
    BY <1>2
  <2>q. QED
    BY <1>2, <1>6, <2>1
<1> DEFINE Count(i) == Cardinality(Before(id, req, i))
           Good == {i \in 0..N : Count(i) \in Nat /\ PageHolds(id, req, visit[i], Count(i))}
<1>8. 0 \in Good
  <2>1. Count(0) = 0
    BY NextKey, FS_EmptySet
  <2>2. PageLength(req, 0) = 0
    BY DEF PageLength
  <2>3. PageHolds(id, req, start, 0)
    BY <1>3, <2>2 DEF PageHolds, start, Acc
  <2>q. QED
    BY <1>2, <1>7, <2>1, <2>3
<1>9. ASSUME NEW i \in 1..N, i - 1 \in Good PROVE i \in Good
  <2> DEFINE before == Before(id, req, i - 1)
             c == Count(i - 1)
  <2>1. /\ IsFiniteSet(before)
        /\ keys[i] \in L <=> InDates(id, req, keys[i]) /\ OnTargets(req, keys[i])
        /\ keys[i] \notin L => Before(id, req, i) = before
        /\ keys[i] \in L => /\ keys[i] \notin before
                            /\ Before(id, req, i) = before \cup {keys[i]}
                            /\ Newer(L, id, keys[i]) = before
    BY <1>9, NextKey DEF keys, N, L
  <2>2. /\ c \in Nat /\ PageHolds(id, req, visit[i - 1], c)
        /\ visit[i] = Step(visit[i - 1], keys[i])
    BY <1>7, <1>9
  <2>3. CASE keys[i] \notin L
    BY <2>1, <2>2, <2>3 DEF Step
  <2>4. CASE keys[i] \in L
    <3>1. Count(i) = c + 1
      BY <2>1, <2>4, FS_AddElement
    <3>2. Place(L, id, keys[i]) = c
      BY <2>1, <2>4 DEF Place
    <3>3. visit[i] = IF Len(visit[i - 1].page) >= PageSize(req) THEN visit[i - 1]
                     ELSE IF visit[i - 1].skipped < req.offset
                     THEN [visit[i - 1] EXCEPT !.skipped = @ + 1]
                     ELSE [visit[i - 1] EXCEPT !.page = Append(@, keys[i])]
      BY <2>1, <2>2, <2>4 DEF Step
    <3>4. PageHolds(id, req, visit[i], c + 1)
      <4> DEFINE acc == visit[i - 1]
                 key == keys[i]
      <4>1. /\ c \in Nat /\ PageHolds(id, req, acc, c) /\ key \in LetThrough(id, req)
            /\ Place(LetThrough(id, req), id, key) = c
        BY <2>2, <2>4, <3>2 DEF L
      <4> HIDE DEF acc, key, c
      <4>2. PageHolds(id, req,
                      IF Len(acc.page) >= PageSize(req) THEN acc
                      ELSE IF acc.skipped < req.offset
                      THEN [acc EXCEPT !.skipped = @ + 1]
                      ELSE [acc EXCEPT !.page = Append(@, key)],
                      c + 1)
        BY <4>1, VisitHolds
      <4>q. QED
        BY <3>3, <4>2 DEF acc, key
    <3>5. i \in 0..N /\ c + 1 \in Nat
      BY <1>2, <1>9, <2>2
    <3>q. QED
      BY <3>1, <3>4, <3>5
  <2>q. QED
    BY <2>3, <2>4
<1>10. N \in Good
  <2> HIDE DEF Good
  <2>1. \A i \in 0..N : i \in Good
    BY <1>2, <1>8, <1>9, SetInduction
  <2>q. QED
    BY <1>2, <2>1
<1>11. Count(N) = Cardinality(LetThrough(id, req))
  BY NextKey DEF N
<1> HIDE DEF Count
<1>q. QED
  BY <1>1, <1>2, <1>10, <1>11

\* `results list` shows the page it was asked for, whatever the database holds:
\* nothing is shown twice, out of order or against the filters, and nothing is left
\* out between two pages.
THEOREM PagesCover == Spec => []PagesCoverListing
<1>1. PagesCoverListing
  <2>1. SUFFICES ASSUME NEW id \in IdOrders, NEW flags \in Listings
        PROVE  LET req == ListRequest(flags)
                   through == {k \in Tasks \cup Calls : /\ Stored(k)
                                                       /\ InDates(id, flags, k)
                                                       /\ OnTargets(flags, k)}
                   place(k) == Cardinality({j \in through : id[j] > id[k]})
                   page == ListResults(id, req)
               IN  /\ \A i \in DOMAIN page :
                        /\ page[i] \in through
                        /\ place(page[i]) = flags.offset + i - 1
                   /\ \A k \in through : \A i \in 1..PageSize(req) :
                        place(k) = flags.offset + i - 1 =>
                            i \in DOMAIN page /\ page[i] = k
    BY DEF PagesCoverListing
  <2> DEFINE req == ListRequest(flags)
             L == LetThrough(id, req)
             c == Cardinality(L)
  <2>2. flags \in [offset : Nat, limit : Nat, from : Nat, to : Nat,
                   targets : SUBSET Nodes]
    BY ListingsAssumption
  <2>3. /\ req.offset = flags.offset /\ req.from = flags.from /\ req.to = flags.to
        /\ req.targets = flags.targets /\ req.limit \in Nat
    BY <2>2, PageAssumption DEF ListRequest
  <2>4. PageSize(req) \in Nat \ {0}
    BY <2>3, PageAssumption DEF PageSize
  <2>5. L = {k \in Tasks \cup Calls : /\ Stored(k)
                                      /\ InDates(id, flags, k)
                                      /\ OnTargets(flags, k)}
    BY <2>3 DEF LetThrough, StoredKeys, InDates, OnTargets
  <2>6. \A k : Place(L, id, k) = Cardinality({j \in L : id[j] > id[k]})
    BY DEF Place, Newer
  <2>7. PICK acc : ListResults(id, req) = acc.page /\ PageHolds(id, req, acc, c)
    BY <2>2, <2>3, <2>4, ListHolds
  <2> DEFINE page == acc.page
  <2>8. /\ page \in Seq(StoredKeys) /\ Len(page) = PageLength(req, c)
        /\ \A m \in 1..Len(page) :
                page[m] \in L /\ Place(L, id, page[m]) = req.offset + m - 1
    BY <2>7 DEF PageHolds
  <2>9. /\ IsFiniteSet(L) /\ c \in Nat
        /\ \A k \in L : id[k] \in Nat
        /\ \A j, k \in L : id[j] = id[k] => j = k
    <3>1. IsFiniteSet(L) /\ L \in SUBSET StoredKeys
      BY NextKey DEF LetThrough
    <3>2. c \in Nat
      BY <3>1, FS_CardinalityType
    <3> HIDE DEF L, c
    <3>q. QED
      BY <3>1, <3>2, KeysByPlace
  <2>10. /\ \A k \in L : Place(L, id, k) \in 0..(c - 1)
         /\ \A j, k \in L : Place(L, id, j) = Place(L, id, k) => j = k
    BY <2>9, PlacesDiffer
  <2>11. ASSUME NEW k \in L, NEW i \in 1..PageSize(req),
                Place(L, id, k) = flags.offset + i - 1
         PROVE  i \in DOMAIN page /\ page[i] = k
    <3> HIDE DEF L, c, req, page
    <3>1. /\ flags.offset \in Nat /\ i \in Nat /\ i >= 1 /\ i <= PageSize(req)
          /\ flags.offset + i - 1 <= c - 1
      BY <2>2, <2>4, <2>10, <2>11
    <3>2. i <= PageLength(req, c)
      BY <2>3, <2>4, <2>9, <3>1 DEF PageLength
    <3>3. i \in 1..Len(page) /\ DOMAIN page = 1..Len(page)
      BY <2>8, <3>1, <3>2
    <3>4. page[i] \in L /\ Place(L, id, page[i]) = Place(L, id, k)
      BY <2>3, <2>8, <2>11, <3>3
    <3>q. QED
      BY <2>10, <3>3, <3>4
  <2>12. ASSUME NEW i \in DOMAIN page
         PROVE  page[i] \in L /\ Place(L, id, page[i]) = flags.offset + i - 1
    BY <2>3, <2>8
  <2>q. QED
    <3> HIDE DEF req, L, c
    <3>q. QED
      BY <2>5, <2>6, <2>7, <2>11, <2>12 DEF req, L
<1>q. QED
  BY <1>1, PTL

-----------------------------------------------------------------------------
(* TaskRouting implements TaskDelivery *)

\* Only a task that was sent has been spoken of by its node.
SentInv ==
    /\ \A t \in Tasks : t \notin sent => ch[t] = None /\ res[t] \notin Replies
    /\ \A n \in Nodes : responder[n] = "route" => msg[n].task \in sent

\* That holds after every step: messages come of what is due.
THEOREM SentInvariant == Spec => []SentInv
<1>1. Init => SentInv
  BY NoneAssumption DEF Init, SentInv
<1>2. RoutingInv /\ StoreInv /\ SentInv /\ [Next]_vars => SentInv'
  <2>0. SUFFICES ASSUME RoutingInv, StoreInv, SentInv, [Next]_vars PROVE SentInv'
    OBVIOUS
  <2>1. CASE UNCHANGED vars
    BY <2>0, <2>1 DEF SentInv, vars, workerVars, nodeVars, streamVars
  <2>2. ASSUME NEW c \in Calls, ExecTask(c) PROVE SentInv'
    BY <2>0, <2>2 DEF SentInv, ExecTask, StartWorkers, nodeVars, streamVars, Replies,
       Answer, Notice
  <2>3. CASE CollectNodesSpecs \/ Expire
    BY <2>0, <2>3 DEF SentInv, CollectNodesSpecs, Expire, workerVars, nodeVars,
       streamVars
  <2>4. ASSUME NEW t \in Tasks, WorkerStep(t) PROVE SentInv'
    <3>1. res \in [Tasks -> {None, "disconnected", "disconnecting", "timeout"} \cup Replies]
          /\ ch \in [Tasks -> Replies \cup {None}]
      BY <2>0 DEF RoutingInv, RoutingTypes
    <3>2. UNCHANGED <<sent, responder, msg>>
      BY <2>4 DEF WorkerStep, Send, SendTimeout, ReceiveResponse, WaitTimeout, nodeVars,
         streamVars
    <3>3. CASE ReceiveResponse(t)
      BY <2>0, <3>1, <3>2, <3>3 DEF SentInv, ReceiveResponse, Finish
    <3>4. CASE ~ ReceiveResponse(t)
      BY <2>0, <2>4, <3>1, <3>2, <3>4 DEF SentInv, WorkerStep, Send, SendTimeout,
         WaitTimeout, Finish, Replies, Answer, Notice
    <3>q. QED
      BY <3>3, <3>4
  <2>5. ASSUME NEW t \in Tasks, TakeTask(t) \/ CleanUpRoute(t) PROVE SentInv'
    BY <2>0, <2>5 DEF SentInv, TakeTask, CleanUpRoute, workerVars, nodeVars
  <2>6. ASSUME NEW n \in Nodes, Open(n) \/ LinkBreaks(n) \/ Announce(n) PROVE SentInv'
    BY <2>0, <2>6 DEF SentInv, Open, LinkBreaks, Announce, workerVars, nodeVars,
       streamVars
  <2>7. ASSUME NEW n \in Nodes, HandlerStep(n) PROVE SentInv'
    <3>1. sent \subseteq sent' /\ UNCHANGED <<res, ch, msg>>
      BY <2>7 DEF HandlerStep, RegisterNode, GetTasksChannel, SendTask, AddRoute,
         LeaveLoop, Join, UnregisterNode, workerVars, nodeVars
    <3>2. \A m \in Nodes : responder'[m] = "route" => responder[m] = "route"
      BY <2>0, <2>7 DEF HandlerStep, RegisterNode, GetTasksChannel, SendTask, AddRoute,
         LeaveLoop, Join, UnregisterNode, RoutingInv, RoutingTypes
    <3>q. QED
      BY <2>0, <3>1, <3>2 DEF SentInv
  <2>8. ASSUME NEW n \in Nodes, Receive(n) PROVE SentInv'
    <3>1. PICK t \in OnStream(n) : \E kind \in due[t] :
            msg' = [msg EXCEPT ![n] = [task |-> t, kind |-> kind]]
      BY <2>8 DEF Receive
    <3>2. t \in sent
      BY <2>0, <3>1 DEF StoreInv, AnsweredOnce, OnStream
    <3>3. responder' = [responder EXCEPT ![n] = "route"] /\ UNCHANGED <<res, ch, sent>>
      BY <2>8 DEF Receive, workerVars
    <3>4. msg'[n].task = t /\ \A m \in Nodes \ {n} :
            msg'[m] = msg[m] /\ responder'[m] = responder[m]
      BY <2>0, <3>1, <3>3 DEF RoutingInv, RoutingTypes
    <3>q. QED
      BY <2>0, <3>2, <3>3, <3>4 DEF SentInv
  <2>9. ASSUME NEW n \in Nodes, ResponderStep(n) PROVE SentInv'
    <3>1. CASE Route(n)
      <4>1. UNCHANGED <<res, sent>> /\ msg[n].task \in sent
        BY <2>0, <3>1 DEF Route, SentInv, nodeVars
      <4>2. \A t \in Tasks : t # msg[n].task => ch'[t] = ch[t]
        BY <2>0, <3>1 DEF Route, RoutingInv, RoutingTypes
      <4>3. \A m \in Nodes : responder'[m] = "route" =>
                responder[m] = "route" /\ msg'[m] = msg[m]
        BY <2>0, <3>1 DEF Route, RoutingInv, RoutingTypes
      <4>q. QED
        BY <2>0, <4>1, <4>2, <4>3 DEF SentInv
    <3>2. CASE StopReceiving(n) \/ Close(n)
      BY <2>0, <3>2 DEF StopReceiving, Close, SentInv, workerVars, nodeVars, RoutingInv,
         RoutingTypes
    <3>q. QED
      BY <2>9, <3>1, <3>2 DEF ResponderStep
  <2>q. QED
    BY <2>0, <2>1, <2>2, <2>3, <2>4, <2>5, <2>6, <2>7, <2>8, <2>9 DEF Next
<1>q. QED
  BY <1>1, <1>2, RoutingInvariant, StoreInvariant, PTL DEF Spec

deliveryVars == <<Asked, sent, Answered, Lost, res>>

\* What leaves the workers, what was sent and what was recorded alone is a stutter.
LEMMA DeliveryStutters ==
    ASSUME UNCHANGED <<pc, sent, results, unrecorded, res>>
    PROVE  UNCHANGED deliveryVars
BY DEF deliveryVars, Asked, Answered, Lost

\* A call asks for the tasks of its targets, a round of the collector for those of
\* the nodes that are ready.
LEMMA CallsAsk ==
    ASSUME RoutingInv, (\E c \in Calls : ExecTask(c)) \/ CollectNodesSpecs
    PROVE  Delivery!Next
<1> DEFINE new == {t \in Tasks : pc[t] = Idle /\ pc'[t] # Idle}
           refused == {t \in new : res'[t] # res[t]}
<1>1. /\ UNCHANGED <<sent, results>> /\ Lost' = Lost
      /\ \A t \in Tasks :
            /\ pc[t] # Idle => pc'[t] = pc[t]
            /\ res'[t] # res[t] => t \in new /\ res'[t] = "disconnected"
      /\ DOMAIN res' = Tasks
  <2>1. ASSUME NEW c \in Calls, ExecTask(c)
        PROVE  /\ UNCHANGED <<sent, results>> /\ Lost' = Lost
               /\ \A t \in Tasks :
                    /\ pc[t] # Idle => pc'[t] = pc[t]
                    /\ res'[t] # res[t] => t \in new /\ res'[t] = "disconnected"
               /\ DOMAIN res' = Tasks
    <3>1. PICK targets : StartWorkers(c, targets)
      BY <2>1 DEF ExecTask
    <3>2. UNCHANGED <<sent, results>> /\ Lost' = Lost
      BY <2>1, KeysAssumption DEF ExecTask, StoreRequest, WriteRequest, FailToWrite, Lost,
         nodeVars
    <3>3. \A t \in Tasks : CallOf(t) = c => pc[t] = Idle
      BY <2>1, NotCalled DEF ExecTask
    <3>4. \A t \in Tasks : pc[t] # Idle => pc'[t] = pc[t]
      BY <3>1, <3>3 DEF StartWorkers
    <3>5. \A t \in Tasks : res'[t] # res[t] => t \in new /\ res'[t] = "disconnected"
      BY <3>1, <3>3 DEF StartWorkers, Idle
    <3>6. DOMAIN res' = Tasks
      BY <3>1 DEF StartWorkers
    <3> HIDE DEF new
    <3>q. QED
      BY <3>2, <3>4, <3>5, <3>6
  <2>2. ASSUME CollectNodesSpecs
        PROVE  /\ UNCHANGED <<sent, results, res>> /\ Lost' = Lost
               /\ \A t \in Tasks : pc[t] # Idle => pc'[t] = pc[t]
    BY <2>2, NotCalled DEF CollectNodesSpecs, storeVars, nodeVars, Lost
  <2>3. DOMAIN res = Tasks
    BY DEF RoutingInv, RoutingTypes
  <2> HIDE DEF new
  <2>q. QED
    BY <2>1, <2>2, <2>3
<1>2. new \in SUBSET (Tasks \ Asked) /\ Asked' = Asked \cup new
  BY <1>1 DEF Asked
<1>3. res' = [t \in Tasks |-> IF t \in refused THEN "disconnected" ELSE res[t]]
  <2>1. res' = [t \in Tasks |-> res'[t]]
    <3>1. \E f : res' = f /\ DOMAIN f = Tasks /\ f = [t \in Tasks |-> f[t]]
      <4>1. CASE \E c \in Calls : ExecTask(c)
        <5>1. PICK c, targets : StartWorkers(c, targets)
          BY <4>1 DEF ExecTask
        <5>q. QED
          BY <5>1 DEF StartWorkers
      <4>2. CASE CollectNodesSpecs
        BY <4>2 DEF CollectNodesSpecs, RoutingInv, RoutingTypes
      <4>q. QED
        BY <4>1, <4>2
    <3>q. QED
      BY <3>1
  <2> HIDE DEF new
  <2>q. QED
    BY <1>1, <2>1
<1>4. Answered' = Answered
  BY <1>1 DEF Answered
<1>5. Delivery!Ask(new)
  <2>1. refused \in SUBSET new /\ "disconnected" \in Refusals
    BY DEF Refusals
  <2> HIDE DEF new, refused
  <2>q. QED
    BY <1>1, <1>2, <1>3, <1>4, <2>1 DEF Delivery!Ask
<1>q. QED
  <2> HIDE DEF new
  <2>q. QED
    BY <1>2, <1>5 DEF Delivery!Next

\* A worker that ends tells its caller what agrees with what was sent and recorded.
LEMMA WorkerTells ==
    ASSUME RoutingInv, SentInv, NEW t \in Tasks, WorkerStep(t)
    PROVE  Delivery!Next \/ UNCHANGED deliveryVars
<1>1. /\ pc \in [Tasks -> {Idle, "send", "offer", "wait", "done"}]
      /\ res \in [Tasks -> {None, "disconnected", "disconnecting", "timeout"} \cup Replies]
      /\ ch \in [Tasks -> Replies \cup {None}]
  BY DEF RoutingInv, RoutingTypes
<1>2. /\ UNCHANGED <<sent, results, unrecorded>>
      /\ pc[t] \in {"send", "offer", "wait"}
  BY DEF WorkerStep, Send, SendTimeout, ReceiveResponse, WaitTimeout, storeVars, nodeVars
<1>3. Answered' = Answered /\ Lost' = Lost
  BY <1>2 DEF Answered, Lost
<1>4. ASSUME NEW report \in Refusals \cup {"timeout", Notice, Answer},
             Finish(t, report), Delivery!Agrees(t, report)
      PROVE  Delivery!Next
  <2>1. Asked' = Asked /\ t \in Asked
    BY <1>1, <1>2, <1>4 DEF Asked, Finish, Idle
  <2>2. res[t] = None
    BY <1>2 DEF RoutingInv, WorkersInOrder
  <2>3. Delivery!Tell(t, report)
    BY <1>2, <1>3, <1>4, <2>1, <2>2 DEF Delivery!Tell, Finish
  <2>q. QED
    BY <1>4, <2>3 DEF Delivery!Next
<1>5. CASE Send(t) /\ dispatch[NodeOf(t)] = "open"
  <2>1. pc[t] = "send" /\ pc' = [pc EXCEPT ![t] = "offer"] /\ UNCHANGED res
    BY <1>5 DEF Send
  <2>2. Asked' = Asked
    BY <1>1, <2>1 DEF Asked, Idle
  <2>q. QED
    BY <1>2, <1>3, <2>1, <2>2 DEF deliveryVars
<1>6. CASE Send(t) /\ dispatch[NodeOf(t)] # "open"
  <2>1. Finish(t, "disconnecting") /\ t \notin sent
    BY <1>6 DEF Send, RoutingInv, WorkersInOrder
  <2>q. QED
    BY <1>4, <2>1 DEF Delivery!Agrees, Refusals
<1>7. CASE SendTimeout(t) \/ WaitTimeout(t)
  <2>1. Finish(t, "timeout")
    BY <1>7 DEF SendTimeout, WaitTimeout
  <2>q. QED
    BY <1>4, <2>1 DEF Delivery!Agrees
<1>8. CASE ReceiveResponse(t)
  <2>1. Finish(t, ch[t]) /\ ch[t] \in Replies
    BY <1>1, <1>8 DEF ReceiveResponse
  <2>2. t \in sent
    BY <1>8 DEF SentInv, ReceiveResponse
  <2>3. ch[t] = Answer => t \in Answered \cup Lost
    BY DEF RoutingInv, AnswersRecorded, Settled, Answered, Lost
  <2>q. QED
    BY <1>4, <2>1, <2>2, <2>3 DEF Delivery!Agrees, Replies
<1>q. QED
  BY <1>5, <1>6, <1>7, <1>8 DEF WorkerStep

\* A handler that sends a task delivers it, once, to a node that its worker was not
\* told to be gone: the worker waits for the answer, or has given up.
LEMMA HandlerDelivers ==
    ASSUME RoutingInv, SentInv, NEW n \in Nodes, SendTask(n)
    PROVE  Delivery!Next \/ UNCHANGED deliveryVars
<1> DEFINE t == adding[n]
<1>1. /\ handler[n] = "send" /\ t \in Tasks
      /\ UNCHANGED <<pc, res, results, unrecorded>>
      /\ sent' = sent \/ sent' = sent \cup {t}
  BY DEF SendTask, storeVars, workerVars, RoutingInv, RoutingTypes
<1>2. Asked' = Asked /\ Answered' = Answered /\ Lost' = Lost
  BY <1>1 DEF Asked, Answered, Lost
<1>3. t \in Asked /\ t \notin sent /\ res[t] \in {None, "timeout"}
  <2>1. pc[t] # Idle
    BY <1>1 DEF RoutingInv, RoutesLeadToRoom, Idle
  <2>2. t \notin sent /\ res[t] \notin Refusals
    BY <1>1 DEF RoutingInv, HandedOver
  <2>3. res[t] \in {None, "disconnected", "disconnecting", "timeout"} \cup Replies
    BY <1>1 DEF RoutingInv, RoutingTypes
  <2>q. QED
    BY <1>1, <2>1, <2>2, <2>3 DEF SentInv, Asked, Refusals
<1> HIDE DEF t
<1>4. CASE sent' = sent
  BY <1>1, <1>2, <1>4 DEF deliveryVars
<1>5. CASE sent' = sent \cup {t}
  <2>1. Delivery!Deliver(t)
    BY <1>1, <1>2, <1>3, <1>5 DEF Delivery!Deliver
  <2>q. QED
    BY <1>1, <2>1 DEF Delivery!Next
<1>q. QED
  BY <1>1, <1>4, <1>5

\* A responder that receives an answer records or loses it, once.
LEMMA ResponderRecords ==
    ASSUME RoutingInv, StoreInv, NEW n \in Nodes, Receive(n)
    PROVE  Delivery!Next \/ UNCHANGED deliveryVars
<1>1. PICK t \in OnStream(n) : \E kind \in due[t] : Record(t, kind)
  BY DEF Receive
<1>2. PICK kind \in due[t] : Record(t, kind)
  BY <1>1
<1>3. UNCHANGED <<pc, res, sent>>
  BY DEF Receive, workerVars
<1>4. CASE kind = Answer
  <2>1. t \in Tasks /\ t \in sent /\ results[t] = None /\ t \notin unrecorded
    BY <1>2, <1>4 DEF OnStream, StoreInv, AnsweredOnce, Settled
  <2>2. Delivery!Unrecorded(t) /\ Asked' = Asked
    BY <1>3, <2>1 DEF Delivery!Unrecorded, Answered, Lost, Asked
  <2>3. CASE WriteResult(t, Answer)
    <3>1. /\ results' = [results EXCEPT ![t] = Answer] /\ DOMAIN results = Tasks
          /\ unrecorded' = unrecorded
      BY <2>3 DEF WriteResult, RoutingInv, RoutingTypes
    <3>2. Answered' = Answered \cup {t} /\ Lost' = Lost
      BY <2>1, <3>1, NoneAssumption DEF Answered, Lost, Replies
    <3>3. Delivery!Record(t)
      BY <1>3, <2>2, <3>2 DEF Delivery!Record
    <3>q. QED
      BY <2>1, <3>3 DEF Delivery!Next
  <2>4. CASE FailToWrite(t)
    <3>1. Answered' = Answered /\ Lost' = Lost \cup {t}
      BY <2>1, <2>4 DEF FailToWrite, Answered, Lost
    <3>2. Delivery!Lose(t)
      BY <1>3, <2>2, <3>1 DEF Delivery!Lose
    <3>q. QED
      BY <2>1, <3>2 DEF Delivery!Next
  <2>q. QED
    BY <1>2, <1>4, <2>3, <2>4 DEF Record, StoreResult
<1>5. CASE kind # Answer
  BY <1>2, <1>3, <1>5, DeliveryStutters DEF Record, storeVars
<1>q. QED
  BY <1>4, <1>5

\* A result that expires stays one that was recorded.
LEMMA ExpiryStutters ==
    ASSUME RoutingInv, StoreInv, Expire
    PROVE  UNCHANGED deliveryVars
<1> DEFINE old == Head(order)
<1>1. /\ order # <<>>
      /\ results' = [t \in Tasks |-> IF t = old THEN "gone" ELSE results[t]]
      /\ UNCHANGED <<pc, res, sent, unrecorded>>
  BY DEF Expire, ExpireOldest, workerVars, nodeVars
<1>2. old = order[1] /\ 1 \in DOMAIN order
  BY <1>1 DEF StoreInv, StoreTypes
<1>3. old \in Tasks => results[old] # None
  BY <1>2 DEF StoreInv, OrderHasResults
<1> HIDE DEF old
<1>4. Answered' = Answered /\ Asked' = Asked /\ Lost' = Lost
  BY <1>1, <1>3, NoneAssumption DEF Answered, Asked, Lost
<1>q. QED
  BY <1>1, <1>4 DEF deliveryVars

\* The manager's goroutines implement TaskDelivery, for any calls, nodes, filters and
\* numbers of streams.
THEOREM DeliveryRefined == Spec => ImplementsDelivery
<1>1. Init => Delivery!Init
  BY DEF Init, StoreInit, Delivery!Init, Asked, Answered, Lost
<1>2. RoutingInv /\ StoreInv /\ SentInv /\ [Next]_vars => [Delivery!Next]_deliveryVars
  <2>0. SUFFICES ASSUME RoutingInv, StoreInv, SentInv, [Next]_vars
                 PROVE  Delivery!Next \/ UNCHANGED deliveryVars
    OBVIOUS
  <2>1. CASE UNCHANGED vars
    BY <2>1, DeliveryStutters DEF vars, storeVars, workerVars, nodeVars
  <2>2. CASE (\E c \in Calls : ExecTask(c)) \/ CollectNodesSpecs
    BY <2>0, <2>2, CallsAsk
  <2>3. CASE Expire
    BY <2>0, <2>3, ExpiryStutters
  <2>4. ASSUME NEW t \in Tasks, WorkerStep(t)
        PROVE  Delivery!Next \/ UNCHANGED deliveryVars
    BY <2>0, <2>4, WorkerTells
  <2>5. ASSUME NEW n \in Nodes, SendTask(n)
        PROVE  Delivery!Next \/ UNCHANGED deliveryVars
    BY <2>0, <2>5, HandlerDelivers
  <2>6. ASSUME NEW n \in Nodes, Receive(n)
        PROVE  Delivery!Next \/ UNCHANGED deliveryVars
    BY <2>0, <2>6, ResponderRecords
  <2>7. CASE \/ \E t \in Tasks : CleanUpRoute(t)
             \/ \E n \in Nodes : \/ Open(n) \/ LinkBreaks(n) \/ Announce(n)
                                 \/ HandlerStep(n) /\ ~ SendTask(n)
                                 \/ ResponderStep(n)
    <3>1. UNCHANGED <<pc, sent, results, unrecorded, res>>
      BY <2>7 DEF CleanUpRoute, Open, LinkBreaks, Announce, HandlerStep, RegisterNode,
         GetTasksChannel, AddRoute, LeaveLoop, Join, UnregisterNode, ResponderStep,
         StopReceiving, Route, Close, storeVars, workerVars, nodeVars
    <3>q. QED
      BY <3>1, DeliveryStutters
  <2>8. ASSUME NEW t \in Tasks, TakeTask(t)
        PROVE  UNCHANGED deliveryVars
    <3>1. /\ pc[t] = "offer" /\ pc' = [pc EXCEPT ![t] = "wait"]
          /\ UNCHANGED <<sent, results, unrecorded, res>>
      BY <2>8 DEF TakeTask, storeVars, nodeVars
    <3>2. Asked' = Asked
      BY <2>0, <3>1 DEF Asked, Idle, RoutingInv, RoutingTypes
    <3>q. QED
      BY <3>1, <3>2 DEF deliveryVars, Answered, Lost
  <2>9. \A n \in Nodes :
            HandlerStep(n) => SendTask(n) \/ (HandlerStep(n) /\ ~ SendTask(n))
    OBVIOUS
  <2>q. QED
    BY <2>0, <2>1, <2>2, <2>3, <2>4, <2>5, <2>6, <2>7, <2>8, <2>9 DEF Next
<1>q. QED
  BY <1>1, <1>2, RoutingInvariant, StoreInvariant, SentInvariant, PTL
     DEF Spec, ImplementsDelivery, Delivery!Spec, deliveryVars
=============================================================================
