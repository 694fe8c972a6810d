-------------------------- MODULE PluginTasks_proofs --------------------------
(***************************************************************************)
(* Proofs about PluginTasks, for every set of requests, plugins and        *)
(* versions.  The executor with its plugins behaves like the executor      *)
(* alone, so that what NodeExecutor_proofs shows of locks holds here; from *)
(* the exclusive lock of plugins:sync it follows that no plugin is taken   *)
(* away from a task that runs in it.  What a call of a task may return is  *)
(* shown for every plugin whose program registers and serves.              *)
(***************************************************************************)
EXTENDS PluginTasks, NodeExecutor_proofs, NatRecursion

\* The request asks for the synchronisation of plugins.
AsksForSync(q) ==
    /\ WellNamed(q.parts) /\ PluginOf(q.parts) = "plugins" /\ TaskOf(q.parts) = "sync"

TablesType ==
    /\ registry \in [PluginNames -> Versions \cup {None}]
    /\ asked \in [Requests -> Forwarded \cup {None}]
    /\ DOMAIN using = Requests /\ DOMAIN outcome = Requests

\* A plugin is in use by tasks that run and did not return; the builtin plugin by
\* those that asked for it, the others by those that asked for one with that name.
UseInRun ==
    \A r \in Requests : using[r] # None =>
        /\ At(r, "run") /\ outcome[r] = None
        /\ WellNamed(asked[r].parts)
        /\ using[r] = PluginMgmt => PluginOf(asked[r].parts) = "plugins"
        /\ using[r] \notin BuiltinPlugins => PluginOf(asked[r].parts) \in PluginNames

\* The synchronisation of plugins has the exclusive mode, whatever its request says.
SyncIsExclusive ==
    \A r \in Requests : ~At(r, "idle") /\ AsksForSync(asked[r]) =>
        mode[r] = "exclusive"

TasksInv ==
    /\ TablesType
    /\ UseInRun
    /\ SyncIsExclusive
    /\ TaskKeepsPlugin

-----------------------------------------------------------------------------
(* The executor's part *)

\* The builtin plugins have different tasks.
LEMMA BuiltinsDiffer ==
    /\ PluginMgmt \notin {CmdPlugin, HealthPlugin, SpecsPlugin}
    /\ DOMAIN Builtins = {"plugins", "cmd", "health", "specs"}
    /\ Builtins["plugins"] = PluginMgmt /\ Builtins["cmd"] = CmdPlugin
    /\ Builtins["health"] = HealthPlugin /\ Builtins["specs"] = SpecsPlugin
    /\ "sync" \in DOMAIN PluginMgmt /\ PluginMgmt["sync"].lock = "exclusive"
BY DEF PluginMgmt, CmdPlugin, HealthPlugin, SpecsPlugin, Builtins, Function

\* The mode that a request is read with is one of the three; that of plugins:sync is
\* exclusive.
LEMMA ModeOfRequest ==
    ASSUME NEW q, NEW lockMode \in EffectiveLockMode(q.parts, WireLockMode(q))
    PROVE  /\ ActingMode(lockMode) \in Mode
           /\ AsksForSync(q) => ActingMode(lockMode) = "exclusive"
<1>1. ActingMode(lockMode) \in Mode
  BY DEF ActingMode, Mode
<1>2. ASSUME AsksForSync(q)
      PROVE  lockMode = "exclusive"
  <2>1. /\ WellNamed(q.parts) /\ PluginOf(q.parts) = "plugins"
        /\ TaskOf(q.parts) = "sync"
    BY <1>2 DEF AsksForSync
  <2>2. LockModeOf(PluginMgmt, "sync") = "exclusive"
    BY BuiltinsDiffer DEF LockModeOf, ProtoLockMode
  <2>3. Get("plugins") = PluginMgmt /\ PluginMgmt # None
    BY BuiltinsDiffer, NamesAssumption DEF Get, BuiltinPlugins
  <2>q. QED
    BY <2>1, <2>2, <2>3, BuiltinsDiffer DEF EffectiveLockMode, WireLockMode
<1>q. QED
  BY <1>1, <1>2 DEF ActingMode

\* Every step is a step of the executor, or leaves it alone.
LEMMA ExecutorStep ==
    ASSUME TablesType, [TaskNext]_allVars
    PROVE  [Next]_vars
<1>1. CASE UNCHANGED allVars
  BY <1>1 DEF allVars
<1>2. ASSUME NEW r \in Requests, TaskStep(r) PROVE [Next]_vars
  <2>1. ASSUME NEW q \in Forwarded, Read(r, q) PROVE \E m \in Mode : Receive(r, m)
    BY <2>1, ModeOfRequest DEF Read
  <2>2. CASE LookUp(r) \/ Call(r)
    BY <2>2 DEF LookUp, Call
  <2>3. CASE FinishTask(r) \/ LeaveTask(r) \/ (Alone(r) /\ UNCHANGED pluginVars)
    BY <2>3 DEF FinishTask, LeaveTask, Alone, Next, RequestStep, Step
  <2>q. QED
    BY <1>2, <2>1, <2>2, <2>3 DEF TaskStep, Next, RequestStep
<1>3. ASSUME NEW n \in PluginNames, Replace(n) PROVE [Next]_vars
  BY <1>3 DEF Replace
<1>4. CASE QuitTasks \/ ((Connect \/ LoopStep) /\ UNCHANGED pluginVars)
  BY <1>4 DEF QuitTasks, Next
<1>q. QED
  BY <1>1, <1>2, <1>3, <1>4 DEF TaskNext

\* Nothing runs beside a task that is alone.
LEMMA Exclusion ==
    ASSUME ModesRespected, NEW s \in Requests, At(s, "run"), mode[s] = "exclusive"
    PROVE  \A r \in Requests : At(r, "run") => r = s
BY DEF ModesRespected, Running, Tasks!Compatible

-----------------------------------------------------------------------------
(* The plugins' part *)

\* Tasks that run go on, and no request gets under way, ends or changes its mode.
Quiet ==
    \A r \in Requests :
        /\ At(r, "run") => At(r, "run")'
        /\ ~At(r, "idle")' => ~At(r, "idle") /\ mode'[r] = mode[r]
        /\ ~At(r, "idle") => ~At(r, "idle")'

\* The goroutine of a request, its timer and its watcher, except for the end of its
\* task and of itself.
LEMMA AloneQuiet ==
    ASSUME TypeOK, NEW s \in Requests, Alone(s)
    PROVE  Quiet
<1>1. pc \in [Requests -> PC]
  BY DEF TypeOK
<1>2. UNCHANGED mode
  BY DEF Alone, TakeSlot, WaitTimeout, DropRequest, Lock, RLock, Start, Answer, Unlock,
     FreeSlot, TimerExpires, WatcherStep, WatcherFires, WatcherEnds, WatcherSends
<1>3. \/ UNCHANGED pc
      \/ /\ pc[s] \notin {"idle", "run"}
         /\ \E l \in PC \ {"idle"} : pc' = [pc EXCEPT ![s] = l]
  BY DEF Alone, TakeSlot, WaitTimeout, DropRequest, Dropped, Lock, RLock, Start, Answer,
     Unlock, FreeSlot, TimerExpires, WatcherStep, WatcherFires, WatcherEnds,
     WatcherSends, At, Goto, PC
<1>q. QED
  BY <1>1, <1>2, <1>3 DEF Quiet, At

\* Streams that are opened or lost, and the listening goroutine.
LEMMA LoopQuiet ==
    ASSUME Connect \/ LoopStep
    PROVE  Quiet
<1>1. UNCHANGED <<pc, mode>>
  BY DEF Connect, LoopStep, StreamBreaks, Shutdown, Refuse, InstantPing, ListenerStep,
     Reply, RecvFails, Drained, requestVars
<1>q. QED
  BY <1>1 DEF Quiet, At

\* These steps keep the invariant.
LEMMA QuietStep ==
    ASSUME TasksInv, UNCHANGED pluginVars, Quiet
    PROVE  TasksInv'
BY DEF TasksInv, pluginVars, TablesType, UseInRun, SyncIsExclusive, AsksForSync,
   TaskKeepsPlugin, Get, At, Quiet

\* A request that is read is recorded with the mode of its task.
LEMMA ReadStep ==
    ASSUME TypeOK, TasksInv, NEW s \in Requests, NEW q \in Forwarded, Read(s, q)
    PROVE  TasksInv'
<1>1. /\ pc \in [Requests -> PC] /\ mode \in [Requests -> Mode] /\ TablesType
  BY DEF TypeOK, TasksInv
<1>2. /\ pc[s] = "idle" /\ pc' = [pc EXCEPT ![s] = "slot"]
      /\ \E m \in EffectiveLockMode(q.parts, WireLockMode(q)) :
              mode' = [mode EXCEPT ![s] = ActingMode(m)]
      /\ asked' = [asked EXCEPT ![s] = q]
      /\ UNCHANGED <<registry, using, outcome>>
  BY DEF Read, Receive, Free, At, Goto
<1>3. TablesType'
  BY <1>1, <1>2 DEF TablesType
<1>4. UseInRun' /\ TaskKeepsPlugin'
  BY <1>1, <1>2 DEF TasksInv, TablesType, UseInRun, TaskKeepsPlugin, At
<1>5. SyncIsExclusive'
  BY <1>1, <1>2, ModeOfRequest DEF TasksInv, TablesType, SyncIsExclusive, AsksForSync,
     At
<1>q. QED
  BY <1>3, <1>4, <1>5 DEF TasksInv

\* A task that starts uses the plugin as it is registered.
LEMMA LookUpStep ==
    ASSUME TypeOK, TasksInv, NEW s \in Requests, LookUp(s)
    PROVE  TasksInv'
<1>1. TablesType /\ UNCHANGED <<pc, mode, registry, asked>>
  BY DEF TasksInv, LookUp, vars, requestVars
<1>2. CASE /\ WellNamed(asked[s].parts) /\ Get(PluginOf(asked[s].parts)) # None
           /\ using' = [using EXCEPT ![s] = Get(PluginOf(asked[s].parts))]
           /\ UNCHANGED outcome
  <2>1. /\ Get(PluginOf(asked[s].parts)) = PluginMgmt
            => PluginOf(asked[s].parts) = "plugins"
        /\ Get(PluginOf(asked[s].parts)) \notin BuiltinPlugins
            => /\ PluginOf(asked[s].parts) \in PluginNames
               /\ Get(PluginOf(asked[s].parts)) = registry[PluginOf(asked[s].parts)]
    BY <1>1, <1>2, BuiltinsDiffer, NamesAssumption
       DEF Get, TablesType, BuiltinPlugins
  <2>q. QED
    BY <1>1, <1>2, <2>1 DEF LookUp, Ready, TasksInv, TablesType, UseInRun,
       SyncIsExclusive, AsksForSync, TaskKeepsPlugin, At
<1>3. CASE outcome' = [outcome EXCEPT ![s] = Refused] /\ UNCHANGED using
  BY <1>1, <1>3 DEF LookUp, Ready, TasksInv, TablesType, UseInRun, SyncIsExclusive,
     AsksForSync, TaskKeepsPlugin, At
<1>q. QED
  BY <1>2, <1>3 DEF LookUp

\* A task that returns does not use its plugin any more.
LEMMA CallStep ==
    ASSUME TasksInv, NEW s \in Requests, Call(s)
    PROVE  TasksInv'
<1>1. /\ UNCHANGED <<pc, mode, registry, asked>>
      /\ using' = [using EXCEPT ![s] = None]
      /\ DOMAIN outcome' = DOMAIN outcome
      /\ \A r \in Requests \ {s} : outcome'[r] = outcome[r]
  BY DEF Call, vars, requestVars, TasksInv, TablesType
<1>q. QED
  BY <1>1 DEF TasksInv, TablesType, UseInRun, SyncIsExclusive, AsksForSync,
     TaskKeepsPlugin, At

\* While a synchronisation runs no other task does, so that the plugins it replaces
\* are used by none.
LEMMA ReplaceStep ==
    ASSUME TypeOK, ModesRespected, TasksInv, NEW name \in PluginNames, Replace(name)
    PROVE  TasksInv'
<1>1. PICK s \in Requests : Syncing(s)
  BY DEF Replace
<1>2. PICK v \in Versions \cup {None} : registry' = [registry EXCEPT ![name] = v]
  BY DEF Replace
<1>3. UNCHANGED <<pc, mode, asked, using, outcome>>
  BY DEF Replace, vars, requestVars
<1>4. At(s, "run") /\ mode[s] = "exclusive"
  <2>1. AsksForSync(asked[s])
    BY <1>1, NamesAssumption
       DEF Syncing, TasksInv, UseInRun, AsksForSync, BuiltinPlugins
  <2>q. QED
    BY <1>1, <2>1 DEF Syncing, TasksInv, SyncIsExclusive, At
<1>5. \A r \in Requests : At(r, "run") => r = s
  BY <1>4, Exclusion
<1>6. \A r \in Requests : using[r] # None => using[r] \in BuiltinPlugins
  BY <1>1, <1>5 DEF Syncing, TasksInv, UseInRun, BuiltinPlugins
<1>q. QED
  BY <1>2, <1>3, <1>6 DEF TasksInv, TablesType, UseInRun, SyncIsExclusive, AsksForSync,
     TaskKeepsPlugin, At

\* A task that is over, a request that leaves, and a process that exits.
LEMMA EndStep ==
    ASSUME TypeOK, TasksInv,
           QuitTasks \/ \E s \in Requests : FinishTask(s) \/ LeaveTask(s)
    PROVE  TasksInv'
<1>0. pc \in [Requests -> PC] /\ mode \in [Requests -> Mode]
  BY DEF TypeOK
<1>1. CASE QuitTasks
  BY <1>1 DEF QuitTasks, Quit, Nobody, TasksInv, TablesType, UseInRun, SyncIsExclusive,
     TaskKeepsPlugin, At
<1>2. ASSUME NEW s \in Requests, FinishTask(s) PROVE TasksInv'
  <2>1. /\ using[s] = None /\ pc' = [pc EXCEPT ![s] = "answer"] /\ pc[s] = "run"
        /\ UNCHANGED <<mode, registry, asked, using, outcome>>
    BY <1>2 DEF FinishTask, Finish, At, Goto, pluginVars, TasksInv, UseInRun
  <2>q. QED
    BY <1>0, <2>1 DEF TasksInv, TablesType, UseInRun, SyncIsExclusive, AsksForSync,
       TaskKeepsPlugin, At
<1>3. ASSUME NEW s \in Requests, LeaveTask(s) PROVE TasksInv'
  <2>1. /\ pc[s] = "leave" /\ pc' = [pc EXCEPT ![s] = "idle"]
        /\ mode' = [mode EXCEPT ![s] = "none"]
        /\ asked' = [asked EXCEPT ![s] = None]
        /\ outcome' = [outcome EXCEPT ![s] = None]
        /\ UNCHANGED <<registry, using>>
    BY <1>3 DEF LeaveTask, Leave, At, Goto
  <2>2. using[s] = None
    BY <2>1 DEF TasksInv, UseInRun, At
  <2>q. QED
    BY <1>0, <2>1, <2>2 DEF TasksInv, TablesType, UseInRun, SyncIsExclusive,
       AsksForSync, TaskKeepsPlugin, At
<1>q. QED
  BY <1>1, <1>2, <1>3

-----------------------------------------------------------------------------
(* Theorems *)

\* The plugins' tables keep their types whatever the executor does.
LEMMA TablesStep ==
    ASSUME TablesType, [TaskNext]_allVars
    PROVE  TablesType'
<1>1. CASE UNCHANGED allVars
  BY <1>1 DEF allVars, pluginVars, TablesType
<1>2. ASSUME NEW r \in Requests, TaskStep(r) PROVE TablesType'
  <2>1. ASSUME NEW q \in Forwarded, Read(r, q) PROVE TablesType'
    BY <2>1 DEF Read, Forwarded, TablesType
  <2>2. CASE LookUp(r) \/ Call(r)
    BY <2>2 DEF LookUp, Call, TablesType
  <2>3. CASE LeaveTask(r)
    BY <2>3 DEF LeaveTask, TablesType
  <2>4. CASE FinishTask(r) \/ (Alone(r) /\ UNCHANGED pluginVars)
    BY <2>4 DEF FinishTask, pluginVars, TablesType
  <2>q. QED
    BY <1>2, <2>1, <2>2, <2>3, <2>4 DEF TaskStep
<1>3. ASSUME NEW n \in PluginNames, Replace(n) PROVE TablesType'
  BY <1>3 DEF Replace, TablesType
<1>4. CASE QuitTasks
  BY <1>4 DEF QuitTasks, Nobody, TablesType
<1>5. CASE (Connect \/ LoopStep) /\ UNCHANGED pluginVars
  BY <1>5 DEF pluginVars, TablesType
<1>q. QED
  BY <1>1, <1>2, <1>3, <1>4, <1>5 DEF TaskNext

\* The executor with its plugins is the executor of NodeExecutor: looking up plugins,
\* calling and replacing them adds no behaviour to it.
THEOREM ExecutorRefined == TaskSpec => Spec
<1>1. TaskInit => Init /\ TablesType
  BY DEF TaskInit, TablesType, Nobody
<1>q. QED
  BY <1>1, TablesStep, ExecutorStep, PTL DEF TaskSpec, Spec

\* The modes of the tasks that run beside each other are compatible, with the modes
\* that effectiveLockMode finds in the registry.
THEOREM ModesHold == TaskSpec => []ModesRespected
BY ExecutorRefined, ModesAreRespected, PTL

\* The inductive invariant of the plugins' part, on top of the executor's.
THEOREM TasksInvariant == TaskSpec => []TasksInv
<1>1. TaskInit => TasksInv
  BY DEF TaskInit, Init, Nobody, TasksInv, TablesType, UseInRun, SyncIsExclusive,
     TaskKeepsPlugin, At
<1>2. TypeOK /\ ModesRespected /\ TasksInv /\ [TaskNext]_allVars => TasksInv'
  <2>0. SUFFICES ASSUME TypeOK, ModesRespected, TasksInv, [TaskNext]_allVars
                 PROVE  TasksInv'
    OBVIOUS
  <2>1. CASE UNCHANGED allVars
    <3>1. UNCHANGED <<pc, mode>> /\ UNCHANGED pluginVars
      BY <2>1 DEF allVars, vars, requestVars
    <3>q. QED
      BY <2>0, <3>1, QuietStep DEF Quiet, At
  <2>2. ASSUME NEW r \in Requests, TaskStep(r) PROVE TasksInv'
    BY <2>0, <2>2, ReadStep, LookUpStep, CallStep, EndStep, AloneQuiet,
       QuietStep DEF TaskStep
  <2>3. ASSUME NEW n \in PluginNames, Replace(n) PROVE TasksInv'
    BY <2>0, <2>3, ReplaceStep
  <2>4. CASE QuitTasks
    BY <2>0, <2>4, EndStep
  <2>5. CASE (Connect \/ LoopStep) /\ UNCHANGED pluginVars
    BY <2>0, <2>5, LoopQuiet, QuietStep
  <2>q. QED
    BY <2>0, <2>1, <2>2, <2>3, <2>4, <2>5 DEF TaskNext
<1>3. TaskSpec => []TypeOK
  BY ExecutorRefined, TypeCorrect, PTL
<1>q. QED
  BY <1>1, <1>2, <1>3, ModesHold, PTL DEF TaskSpec

\* No plugin is replaced or unloaded while a task runs in it: plugins:sync, which does
\* it, runs alone.
THEOREM PluginsAreKept == TaskSpec => []TaskKeepsPlugin
BY TasksInvariant, PTL DEF TasksInv

-----------------------------------------------------------------------------
(* Permissions *)

\* The endpoint of a route is its path without the version.
LEMMA EndpointOfRoute ==
    ASSUME NEW resource, NEW action
    PROVE  Api!Endpoint(<<"v1", resource, action>>) = <<resource, action>>
<1>1. Tail(<<"v1", resource, action>>) = <<resource, action>>
  OBVIOUS
<1>2. Len(<<"v1", resource, action>>) > 1 /\ <<"v1", resource, action>>[1] = "v1"
  OBVIOUS
<1>q. QED
  BY <1>1, <1>2, Zenon DEF Api!Endpoint

\* What a request to a route is judged for when it is forwarded.
LEMMA JudgedForRoute ==
    ASSUME NEW http, NEW task, NEW resource, NEW action,
           http.path = <<"v1", resource, action>>,
           Api!Handle(http.user, http.password, http.path, task) = "forwarded"
    PROVE  IF resource = "task" /\ action = "exec"
           THEN Len(task) >= 2 /\ Api!CanAccess(http.user, "tasks", task[1], task[2])
           ELSE Api!CanAccess(http.user, "endpoints", resource, action)
<1>1. Api!Endpoint(http.path) = <<resource, action>>
  BY EndpointOfRoute
<1>2. /\ ~(Len(<<resource, action>>) < 2)
      /\ <<resource, action>>[1] = resource /\ <<resource, action>>[2] = action
      /\ "unauthorized" # "forwarded" /\ "forbidden" # "forwarded"
      /\ "bad request" # "forwarded"
  OBVIOUS
<1>3. CASE resource = "task" /\ action = "exec"
  <2>1. Api!HandleTask(http.user, task) = "forwarded"
    BY <1>1, <1>2, <1>3, Zenon DEF Api!Handle
  <2>2. ~(Len(task) < 2) /\ Api!CanAccess(http.user, "tasks", task[1], task[2])
    BY <1>2, <2>1, Zenon DEF Api!HandleTask, Api!Verdict
  <2>q. QED
    BY <1>3, <2>2
<1>4. CASE ~(resource = "task" /\ action = "exec")
  <2>1. Api!HandleEndpoint(http.user, <<resource, action>>) = "forwarded"
    BY <1>1, <1>2, <1>4, Zenon DEF Api!Handle
  <2>q. QED
    BY <1>2, <1>4, <2>1, Zenon DEF Api!HandleEndpoint, Api!Verdict
<1>q. QED
  BY <1>3, <1>4

\* A request becomes a task only for a user who may run what the first two parts of
\* the task's name say.
LEMMA ExecIsPermitted ==
    ASSUME NEW http, NEW task, "ExecTask" \in Api!Proxied(http, task)
    PROVE  Len(task) >= 2 /\ Api!CanAccess(http.user, "tasks", task[1], task[2])
<1>1. Api!Handle(http.user, http.password, http.path, task) = "forwarded"
  BY Zenon DEF Api!Proxied
<1>2. PICK r \in Api!Matching(http.method, http.path) : r.rpc = "ExecTask"
  BY <1>1 DEF Api!Proxied
<1>3. r.path = <<"v1", "task", "exec">> /\ r.path = http.path
  BY <1>2 DEF Api!Matching, Api!ApiRoutes, Api!ForwarderRoutes, Api!Route
<1>q. QED
  BY <1>1, <1>3, JudgedForRoute

\* The calls of the management API are made for users who have the permission that
\* is named like the endpoint: no path leads to a call other than the one it was
\* judged for.
THEOREM CallsArePermitted ==
    ASSUME NEW http, NEW task, NEW r \in Api!ApiRoutes,
           r.rpc \in Api!Proxied(http, task)
    PROVE  Api!CanAccess(http.user, "endpoints", r.path[2], r.path[3])
<1>1. Api!Handle(http.user, http.password, http.path, task) = "forwarded"
  BY Zenon DEF Api!Proxied
<1>2. PICK s \in Api!Matching(http.method, http.path) : s.rpc = r.rpc
  BY <1>1 DEF Api!Proxied
<1>3. s = r
  BY <1>2 DEF Api!Matching, Api!ApiRoutes, Api!ForwarderRoutes, Api!Route
<1>4. http.path = r.path
  BY <1>2, <1>3 DEF Api!Matching
<1>5. \E resource \in {"nodes", "results"} :
          \E action : r.path = <<"v1", resource, action>>
  BY DEF Api!ApiRoutes, Api!Route
<1>6. PICK resource \in {"nodes", "results"} :
          \E action : r.path = <<"v1", resource, action>>
  BY <1>5
<1>7. PICK action : r.path = <<"v1", resource, action>>
  BY <1>6
<1>8. Api!CanAccess(http.user, "endpoints", resource, action)
  BY <1>1, <1>4, <1>7, JudgedForRoute
<1>q. QED
  BY <1>7, <1>8

\* A request under way is one that the HTTP API, if it came from there, forwarded.
UnderWayWasForwarded ==
    \A r \in Requests : ~At(r, "idle") => asked[r] \in Forwarded

\* What the HTTP API forwards, and doTask can run, its user may run: the part after
\* the plugin is judged, and a name with more parts is not run.
LEMMA ForwardedIsPermitted ==
    ASSUME NEW q \in Forwarded, q.from # None, WellNamed(q.parts)
    PROVE  Api!CanAccess(q.from.user, "tasks", PluginOf(q.parts), TaskOf(q.parts))
<1>1. q \in Posts /\ Admitted(q)
  BY DEF Forwarded, FromCommand
<1>2. Api!CanAccess(q.from.user, "tasks", q.parts[1], q.parts[2]) /\ Len(q.parts) >= 2
  BY <1>1, ExecIsPermitted DEF Admitted
<1>3. Len(q.parts) = 2
  BY <1>2 DEF WellNamed
<1>q. QED
  BY <1>2, <1>3 DEF PluginOf, TaskOf

\* A task that was asked for over HTTP runs only for a user who has the permission
\* for the plugin it runs in and the task it runs.
THEOREM PermittedOnly == TaskSpec => []OnlyPermittedRun
<1>1. TaskInit => UnderWayWasForwarded
  BY DEF TaskInit, Init, UnderWayWasForwarded, At
<1>2. TypeOK /\ TasksInv /\ UnderWayWasForwarded /\ [TaskNext]_allVars
        => UnderWayWasForwarded'
  <2>0. SUFFICES ASSUME TypeOK, TasksInv, UnderWayWasForwarded, [TaskNext]_allVars
                 PROVE  UnderWayWasForwarded'
    OBVIOUS
  <2>1. /\ pc \in [Requests -> PC]
        /\ DOMAIN asked = Requests
    BY <2>0 DEF TypeOK, TasksInv, TablesType
  <2>2. CASE UNCHANGED <<pc, asked>>
    BY <2>0, <2>2 DEF UnderWayWasForwarded, At
  <2>3. CASE Quiet /\ UNCHANGED pluginVars
    BY <2>0, <2>3 DEF UnderWayWasForwarded, Quiet, pluginVars, At
  <2>4. ASSUME NEW r \in Requests, NEW q \in Forwarded, Read(r, q)
        PROVE  UnderWayWasForwarded'
    BY <2>0, <2>1, <2>4 DEF Read, Receive, Goto, UnderWayWasForwarded, At
  <2>5. ASSUME NEW r \in Requests, FinishTask(r) \/ LeaveTask(r)
        PROVE  UnderWayWasForwarded'
    BY <2>0, <2>1, <2>5 DEF FinishTask, Finish, LeaveTask, Leave, pluginVars, Goto,
       UnderWayWasForwarded, At
  <2>6. CASE QuitTasks
    BY <2>6 DEF QuitTasks, Quit, UnderWayWasForwarded, At
  <2>7. ASSUME NEW r \in Requests, LookUp(r) \/ Call(r) PROVE UNCHANGED <<pc, asked>>
    BY <2>7 DEF LookUp, Call, vars, requestVars
  <2>8. ASSUME NEW n \in PluginNames, Replace(n) PROVE UNCHANGED <<pc, asked>>
    BY <2>8 DEF Replace, vars, requestVars
  <2>9. CASE UNCHANGED allVars
    BY <2>2, <2>9 DEF allVars, vars, requestVars, pluginVars
  <2>q. QED
    BY <2>0, <2>2, <2>3, <2>4, <2>5, <2>6, <2>7, <2>8, <2>9, AloneQuiet, LoopQuiet
       DEF TaskNext, TaskStep
<1>3. TasksInv /\ UnderWayWasForwarded => OnlyPermittedRun
  BY ForwardedIsPermitted
     DEF TasksInv, UseInRun, UnderWayWasForwarded, OnlyPermittedRun, At
<1>4. TaskSpec => []TypeOK
  BY ExecutorRefined, TypeCorrect, PTL
<1>q. QED
  BY <1>1, <1>2, <1>3, <1>4, TasksInvariant, PTL DEF TaskSpec

-----------------------------------------------------------------------------
(* Outcomes *)

Conversions == {"value", "error", "panic", "misfit"}

\* An argument that is converted is one of four outcomes, and a misfit only where
\* the parameter's type is defined.
LEMMA ArgumentOutcome ==
    ASSUME NEW v, NEW p
    PROVE  /\ Argument(v, p) \in Conversions
           /\ Argument(v, p) = "misfit" => p.defined
BY DEF Argument, StructpbValueToInput, Fitting, Conversions

\* Options that were handled are values, or end the call.
LEMMA OptionsOutcome ==
    ASSUME NEW options, NEW given
    PROVE  HandleOptions(options, given) \subseteq {"value", "error", "panic"}
<1>1. \A k : SetOption(options, given, k) \in {"value", "error", "panic"}
  BY DEF SetOption, StructpbValueToInput, Fitting
<1>q. QED
  BY <1>1 DEF HandleOptions

\* The first argument that ends the call is found, so that the arguments have one of
\* the outcomes, and are a misfit only where a parameter's type is defined.
LEMMA ArgumentsOutcome ==
    ASSUME NEW params, NEW args, IsList(params), IsList(args), Len(args) = Len(params)
    PROVE  /\ HandleArguments(params, args) \in Conversions
           /\ HandleArguments(params, args) = "misfit" =>
                    \E i \in DOMAIN params : params[i].defined
<1> DEFINE out == [i \in DOMAIN args |-> Argument(args[i], params[i])]
           ends == {i \in DOMAIN args : out[i] \in {"error", "panic"}}
           first == CHOOSE i \in ends : \A j \in ends : i <= j
<1>1. DOMAIN args = DOMAIN params /\ DOMAIN args \subseteq Nat
  BY DEF IsList
<1>2. \A i \in DOMAIN args : /\ out[i] \in Conversions
                             /\ out[i] = "misfit" => params[i].defined
  BY ArgumentOutcome
<1>3. ends # {} => first \in ends
  <2> HIDE DEF out
  <2>1. ends \in SUBSET Nat
    BY <1>1
  <2>2. ends # {} => \E i \in ends : \A j \in ends : i <= j
    <3> HIDE DEF ends
    <3>q. QED
      BY <2>1, LeastNat
  <2> HIDE DEF ends
  <2>q. QED
    BY <2>2
<1>4. HandleArguments(params, args) =
        IF ends # {} THEN out[first]
        ELSE IF \E i \in DOMAIN args : out[i] = "misfit" THEN "misfit" ELSE "value"
  BY DEF HandleArguments
<1> HIDE DEF out, first
<1>5. ends # {} => out[first] \in {"error", "panic"}
  BY <1>3
<1> HIDE DEF ends
<1>q. QED
  BY <1>1, <1>2, <1>4, <1>5 DEF Conversions

\* A call whose inputs are handled without a panic panics in reflection only where a
\* parameter's type is defined.
LEMMA InputsOutcome ==
    ASSUME NEW task, NEW input, IsTask(task), IsInput(input), input # None
    PROVE  /\ HandleInputs(task, input) \subseteq Conversions
           /\ "misfit" \in HandleInputs(task, input) =>
                    \E i \in DOMAIN task.params : task.params[i].defined
<1> DEFINE opts == HandleOptions(task.options, input.options)
<1>1. opts \subseteq {"value", "error", "panic"}
  BY OptionsOutcome
<1> HIDE DEF opts
<1>2. CASE input.args = None
  BY <1>2 DEF HandleInputs, Conversions
<1>3. CASE input.args # None
  <2>1. IsList(task.params) /\ IsList(input.args)
    BY <1>3 DEF IsTask, IsInput
  <2>2. /\ CountedArguments(task, input) \subseteq Conversions
        /\ "misfit" \in CountedArguments(task, input) =>
                \E i \in DOMAIN task.params : task.params[i].defined
    BY <2>1, ArgumentsOutcome DEF CountedArguments, Conversions
  <2>3. HandleInputs(task, input) =
            (opts \ {"value"})
            \cup (IF "value" \in opts THEN CountedArguments(task, input) ELSE {})
    BY <1>3 DEF HandleInputs, opts
  <2>q. QED
    BY <1>1, <2>2, <2>3 DEF Conversions
<1>q. QED
  BY <1>2, <1>3

\* The tasks of a plugin that can be loaded, or is built in.
IsPlugin(plugin) ==
    \A name \in DOMAIN plugin : IsTask(plugin[name]) /\ "other" \notin plugin[name].returns

\* A program that serves has the tasks it registered.
LEMMA VersionsArePlugins ==
    ASSUME NEW plugin \in Versions \cup BuiltinPlugins
    PROVE  IsPlugin(plugin)
<1>1. CASE plugin \in Versions
  <2>1. PICK program \in Programs : plugin = Served(program) /\ plugin # None
    BY <1>1 DEF Versions
  <2>2. /\ plugin = Registered(program) /\ IsList(program)
        /\ \A i \in DOMAIN program : IsTask(program[i].task)
        /\ \A i \in DOMAIN program : Registrable(program[i].task)
    BY <2>1, ProgramsAssumption DEF Served, IsProgram
  <2> DEFINE names == {program[i].name : i \in DOMAIN program}
             last(n) == CHOOSE i \in DOMAIN program :
                            /\ program[i].name = n
                            /\ \A j \in DOMAIN program : program[j].name = n => j <= i
  <2>3. Registered(program) = [n \in names |-> program[last(n)].task]
    BY DEF Registered
  <2>4. ASSUME NEW n \in names PROVE last(n) \in DOMAIN program
    <3> DEFINE J == {i \in DOMAIN program : program[i].name = n}
    <3>1. Len(program) \in Nat /\ DOMAIN program = 1..Len(program)
      BY <2>2 DEF IsList
    <3>2. J \in SUBSET (0..Len(program)) /\ J # {}
      BY <3>1
    <3>3. \E i \in J : \A j \in J : j <= i
      <4> HIDE DEF J
      <4>q. QED
        BY <3>1, <3>2, GreatestNat
    <3>4. \E i \in DOMAIN program :
                /\ program[i].name = n
                /\ \A j \in DOMAIN program : program[j].name = n => j <= i
      BY <3>3
    <3>q. QED
      BY <3>4
  <2> HIDE DEF last
  <2>q. QED
    BY <2>2, <2>3, <2>4 DEF IsPlugin, Registrable
<1>2. CASE plugin \in BuiltinPlugins
  <2>1. IsList(<<>>) /\ IsList(<<Text>>)
    BY DEF IsList
  <2>2. \A lock : \A params \in {<<>>, <<Text>>} :
            \A returns \in {{"value", "error"}, {"value"}, {"value", "error", "panic"}} :
                /\ IsTask(Function(params, returns, lock))
                /\ Function(params, returns, lock).params = params
                /\ Function(params, returns, lock).returns = returns
    BY <2>1 DEF IsTask, Function
  <2>3. CASE plugin = PluginMgmt
    BY <2>2, <2>3 DEF PluginMgmt, IsPlugin
  <2>4. CASE plugin = CmdPlugin
    BY <2>1, <2>4 DEF CmdPlugin, IsPlugin, IsTask, Function
  <2>5. CASE plugin = HealthPlugin
    BY <2>2, <2>5 DEF HealthPlugin, IsPlugin
  <2>6. CASE plugin = SpecsPlugin
    BY <2>2, <2>6 DEF SpecsPlugin, IsPlugin
  <2>q. QED
    BY <1>2, <2>3, <2>4, <2>5, <2>6 DEF BuiltinPlugins
<1>q. QED
  BY <1>1, <1>2

\* What Do returns without an error is of a function that returned, unless the call
\* may panic; what comes back over gRPC is no different.
LEMMA DoEnds ==
    ASSUME NEW plugin, IsPlugin(plugin), NEW name, NEW input, IsInput(input),
           name \in DOMAIN plugin => ~MayPanic(plugin[name], input),
           NEW result \in Do(plugin, name, input) \cup DoOverGRPC(plugin, name, input)
    PROVE  result.failed \/ result.ended
<1>1. ASSUME NEW done \in Do(plugin, name, input) PROVE done.failed \/ done.ended
  <2>1. CASE input = None \/ name \notin DOMAIN plugin
    BY <1>1, <2>1 DEF Do, Refused, Result
  <2>2. CASE ~ (input = None \/ name \notin DOMAIN plugin)
    <3> DEFINE task == plugin[name]
    <3>1. /\ HandleInputs(task, input) \subseteq {"value", "error"}
          /\ task.returns \subseteq {"value", "error", "unfit"}
      BY <2>2, InputsOutcome DEF IsPlugin, IsTask, MayPanic, Conversions
    <3>2. PICK out \in HandleInputs(task, input) :
            done \in CASE out = "error" -> {Refused}
                       [] out \in {"panic", "misfit"} -> {Recovered}
                       [] out = "value" -> {Returned(k) : k \in task.returns}
      BY <1>1, <2>2 DEF Do
    <3>3. CASE out = "error"
      BY <3>2, <3>3 DEF Refused, Result
    <3>4. CASE out = "value"
      BY <3>1, <3>2, <3>4 DEF Returned, Result
    <3>q. QED
      BY <3>1, <3>3, <3>4
  <2>q. QED
    BY <2>1, <2>2
<1>q. QED
  BY <1>1 DEF DoOverGRPC, Result, Refused

\* A request under way is one of those that were forwarded, a task runs in a plugin
\* that is there, and only a request under way has an outcome.
RunsForwarded ==
    /\ \A r \in Requests : ~At(r, "idle") => asked[r] \in Forwarded
    /\ \A r \in Requests : using[r] # None => using[r] \in Versions \cup BuiltinPlugins
    /\ \A r \in Requests : outcome[r] # None => ~At(r, "idle")

OutcomesInv == RunsForwarded /\ SuccessMeansEnded

\* The executor's steps leave what was asked and its outcome alone.
LEMMA QuietOutcomes ==
    ASSUME OutcomesInv, UNCHANGED pluginVars, Quiet
    PROVE  OutcomesInv'
BY DEF OutcomesInv, RunsForwarded, SuccessMeansEnded, pluginVars, Quiet

\* A task that could not start or that returned has an outcome: an error, or the end
\* of its function.
LEMMA RunOutcomes ==
    ASSUME TypeOK, TasksInv, OutcomesInv, NEW s \in Requests, LookUp(s) \/ Call(s)
    PROVE  OutcomesInv'
<1>1. TablesType /\ UNCHANGED <<pc, registry, asked>> /\ At(s, "run")
  BY DEF TasksInv, LookUp, Call, Ready, vars, requestVars
<1>2. asked[s] \in Forwarded /\ IsInput(asked[s].input)
  BY <1>1, InputsAssumption DEF OutcomesInv, RunsForwarded, At
<1>3. CASE LookUp(s)
  <2>1. \/ /\ Get(PluginOf(asked[s].parts)) # None
           /\ using' = [using EXCEPT ![s] = Get(PluginOf(asked[s].parts))]
           /\ UNCHANGED outcome
        \/ outcome' = [outcome EXCEPT ![s] = Refused] /\ UNCHANGED using
    BY <1>3 DEF LookUp
  <2>2. Get(PluginOf(asked[s].parts)) # None =>
            Get(PluginOf(asked[s].parts)) \in Versions \cup BuiltinPlugins
    BY <1>1, BuiltinsDiffer DEF Get, TablesType, BuiltinPlugins
  <2>3. RunsForwarded'
    BY <1>1, <2>1, <2>2 DEF OutcomesInv, RunsForwarded, TablesType, At
  <2>4. SuccessMeansEnded'
    BY <1>1, <2>1 DEF OutcomesInv, SuccessMeansEnded, TablesType, Refused, Result
  <2>q. QED
    BY <2>3, <2>4 DEF OutcomesInv
<1>4. CASE Call(s)
  <2> DEFINE name == TaskOf(asked[s].parts)
             input == asked[s].input
  <2>1. PICK result \in Do(using[s], name, input) \cup DoOverGRPC(using[s], name, input) :
            outcome' = [outcome EXCEPT ![s] = result]
    BY <1>4 DEF Call
  <2>2. using' = [using EXCEPT ![s] = None] /\ using[s] # None
    BY <1>4 DEF Call
  <2>3. using[s] \in Versions \cup BuiltinPlugins
    BY <2>2 DEF OutcomesInv, RunsForwarded
  <2>4. (\A v \in Versions \cup BuiltinPlugins :
            name \in DOMAIN v => ~MayPanic(v[name], input))
        => result.failed \/ result.ended
    <3>1. IsPlugin(using[s])
      BY <2>3, VersionsArePlugins
    <3>q. QED
      BY <1>2, <2>1, <2>3, <3>1, DoEnds
  <2>5. RunsForwarded'
    BY <1>1, <2>1, <2>2 DEF OutcomesInv, RunsForwarded, TablesType, At
  <2>6. SuccessMeansEnded'
    BY <1>1, <2>1, <2>4 DEF OutcomesInv, SuccessMeansEnded, TablesType
  <2>q. QED
    BY <2>5, <2>6 DEF OutcomesInv
<1>q. QED
  BY <1>3, <1>4

\* A response without an error is of a task that ended, whatever plugins are loaded
\* and whatever they are asked, except for the calls that may panic.
THEOREM SuccessIsAnEnd == TaskSpec => []SuccessMeansEnded
<1>1. TaskInit => OutcomesInv
  BY DEF TaskInit, Init, Nobody, OutcomesInv, RunsForwarded, SuccessMeansEnded, At
<1>2. TypeOK /\ TasksInv /\ OutcomesInv /\ [TaskNext]_allVars => OutcomesInv'
  <2>0. SUFFICES ASSUME TypeOK, TasksInv, OutcomesInv, [TaskNext]_allVars
                 PROVE  OutcomesInv'
    OBVIOUS
  <2>1. /\ pc \in [Requests -> PC] /\ DOMAIN asked = Requests
        /\ DOMAIN outcome = Requests
    BY <2>0 DEF TypeOK, TasksInv, TablesType
  <2>2. CASE UNCHANGED <<pc, asked, using, outcome>>
    BY <2>0, <2>2 DEF OutcomesInv, RunsForwarded, SuccessMeansEnded, At
  <2>3. CASE Quiet /\ UNCHANGED pluginVars
    BY <2>0, <2>3, QuietOutcomes
  <2>4. ASSUME NEW r \in Requests, NEW q \in Forwarded, Read(r, q) PROVE OutcomesInv'
    <3>1. /\ pc[r] = "idle" /\ pc' = [pc EXCEPT ![r] = "slot"]
          /\ asked' = [asked EXCEPT ![r] = q] /\ UNCHANGED <<using, outcome>>
      BY <2>4 DEF Read, Receive, Free, At, Goto
    <3>2. outcome[r] = None
      BY <2>0, <3>1 DEF OutcomesInv, RunsForwarded, At
    <3>q. QED
      BY <2>0, <2>1, <3>1, <3>2 DEF OutcomesInv, RunsForwarded, SuccessMeansEnded, At
  <2>5. ASSUME NEW r \in Requests, FinishTask(r) PROVE OutcomesInv'
    <3>1. /\ pc' = [pc EXCEPT ![r] = "answer"] /\ pc[r] = "run"
          /\ UNCHANGED <<asked, using, outcome>>
      BY <2>5 DEF FinishTask, Finish, At, Goto, pluginVars
    <3>q. QED
      BY <2>0, <2>1, <3>1 DEF OutcomesInv, RunsForwarded, SuccessMeansEnded, At
  <2>6. ASSUME NEW r \in Requests, LeaveTask(r) PROVE OutcomesInv'
    <3>1. /\ pc' = [pc EXCEPT ![r] = "idle"]
          /\ asked' = [asked EXCEPT ![r] = None]
          /\ outcome' = [outcome EXCEPT ![r] = None]
          /\ UNCHANGED using
      BY <2>6 DEF LeaveTask, Leave, Goto
    <3>q. QED
      BY <2>0, <2>1, <3>1 DEF OutcomesInv, RunsForwarded, SuccessMeansEnded, At
  <2>7. CASE QuitTasks
    BY <2>7 DEF QuitTasks, Quit, Nobody, OutcomesInv, RunsForwarded, SuccessMeansEnded,
       At
  <2>8. ASSUME NEW r \in Requests, LookUp(r) \/ Call(r) PROVE OutcomesInv'
    BY <2>0, <2>8, RunOutcomes
  <2>9. ASSUME NEW n \in PluginNames, Replace(n)
        PROVE  UNCHANGED <<pc, asked, using, outcome>>
    BY <2>9 DEF Replace, vars, requestVars
  <2>10. CASE UNCHANGED allVars
    BY <2>2, <2>10 DEF allVars, vars, requestVars, pluginVars
  <2>q. QED
    BY <2>0, <2>2, <2>3, <2>4, <2>5, <2>6, <2>7, <2>8, <2>9, <2>10, AloneQuiet,
       LoopQuiet DEF TaskNext, TaskStep
<1>3. TaskSpec => []TypeOK
  BY ExecutorRefined, TypeCorrect, PTL
<1>4. OutcomesInv => SuccessMeansEnded
  BY DEF OutcomesInv
<1>q. QED
  BY <1>1, <1>2, <1>3, <1>4, TasksInvariant, PTL DEF TaskSpec
=============================================================================
