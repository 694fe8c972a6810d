----------------------------- MODULE PluginTasks -----------------------------
(***************************************************************************)
(* The executor of NodeExecutor together with the plugins it runs.         *)
(*                                                                         *)
(* A request's lock mode is looked up in the registry when the request is  *)
(* read; its plugin is looked up again when its task starts.  The task     *)
(* plugins:sync is itself run by the executor, and while it runs the       *)
(* plugins of the registry are replaced (PluginSync has how; its property  *)
(* RegistryStable says that they are replaced at no other time).           *)
(*                                                                         *)
(* A request comes from the command line, as Command makes it, or from a    *)
(* user of the HTTP API if WebApi lets it through.                         *)
(***************************************************************************)
EXTENDS NodeExecutor, TaskCall

CONSTANTS
    PluginNames,    \* names of the plugins that can be installed
    Programs,       \* what they may be made of: sequences of [name, task]
    Commands,       \* command lines of `jack run`
    Posts,          \* requests over HTTP: [from, parts, input, lockMode], where
                    \* from is [user, password, method, path]
    Htpasswd, RolesOf, Permissions  \* of the HTTP API

Api == INSTANCE WebApi
Cmd == INSTANCE Command

\* The plugins that can be loaded: programs that serve.
Versions == {Served(p) : p \in Programs} \ {None}

\* The builtin plugins, which are in the node's own process and always registered.
Function(params, returns, lock) ==
    [context |-> FALSE, params |-> params, options |-> None, returns |-> returns,
     lock |-> lock]
Text == [kind |-> "basic", same |-> {"text", "json"}, defined |-> FALSE,
         takes |-> {"null", "bool", "number", "text", "json"}, pointer |-> FALSE]

PluginMgmt == [help |-> Function(<<Text>>, {"value", "error"}, "none"),
               version |-> Function(<<Text>>, {"value", "error"}, "none"),
               list |-> Function(<<>>, {"value"}, "none"),
               sync |-> Function(<<>>, {"value"}, "exclusive")]
\* A command that consists of a comment has no words, and makes run panic.
CmdPlugin == [run |-> [Function(<<Text>>, {"value", "error", "panic"}, "none")
                        EXCEPT !.context = TRUE]]
HealthPlugin ==
    [task \in {"ping", "instant-ping"} |-> Function(<<>>, {"value"}, "none")]
SpecsPlugin == [list |-> Function(<<>>, {"value"}, "none"),
                all |-> Function(<<>>, {"value"}, "none"),
                get |-> Function(<<Text>>, {"value", "error"}, "none")]

Builtins == [plugins |-> PluginMgmt, cmd |-> CmdPlugin, health |-> HealthPlugin,
             specs |-> SpecsPlugin]
BuiltinPlugins == {PluginMgmt, CmdPlugin, HealthPlugin, SpecsPlugin}

ASSUME NamesAssumption ==
    /\ PluginNames \cap DOMAIN Builtins = {}
    /\ BuiltinPlugins \cap (Versions \cup {None}) = {}

\* What the HTTP API passes on to the forwarder, and what the command line sends.
Admitted(q) == "ExecTask" \in Api!Proxied(q.from, q.parts)

FromCommand(command) ==
    LET request == Cmd!TaskRequest(command)
    IN  [from |-> None, parts |-> request.parts, input |-> request.input,
         lockMode |-> request.lockMode]

Forwarded ==
    {FromCommand(c) : c \in {d \in Commands : Cmd!Sends(d)}}
    \cup {q \in Posts : Admitted(q)}

ASSUME ProgramsAssumption == \A program \in Programs : IsProgram(program)
ASSUME InputsAssumption == \A q \in Forwarded : IsInput(q.input)

VARIABLES
    registry,   \* [PluginNames]: the version registered, or None
    asked,      \* [Requests]: what the request asks for
    using,      \* [Requests]: the plugin its task runs in, from Get to Do's return
    outcome     \* [Requests]: what Do returned

pluginVars == <<registry, asked, using, outcome>>
allVars == <<vars, pluginVars>>

Nobody == [r \in Requests |-> None]

TaskTypeOK ==
    /\ registry \in [PluginNames -> Versions \cup {None}]
    /\ asked \in [Requests -> Forwarded \cup {None}]
    /\ using \in [Requests -> Versions \cup BuiltinPlugins \cup {None}]
    /\ \A r \in Requests : using[r] # None => At(r, "run") /\ outcome[r] = None
    /\ \A r \in Requests : outcome[r] # None =>
            outcome[r] \in [failed : BOOLEAN, error : BOOLEAN, ended : BOOLEAN]

TaskInit ==
    /\ Init
    /\ registry \in [PluginNames -> Versions \cup {None}]
    /\ asked = Nobody /\ using = Nobody /\ outcome = Nobody

-----------------------------------------------------------------------------
\* Registry.Get
Get(name) == IF name \in DOMAIN Builtins THEN Builtins[name]
             ELSE IF name \in PluginNames THEN registry[name] ELSE None

\* The lock mode of a request on the wire: dispatchRequestsToNode makes the
\* request anew, without its lock mode.
WireLockMode(q) == "unspecified"

\* fault: the mode of the task itself is not looked up.
RequestedMode(parts, override) ==
    {IF override # "unspecified" THEN override ELSE "none"}

\* effectiveLockMode: that of the request, or that of the task as registered now.
EffectiveLockMode(parts, override) ==
    IF override # "unspecified" THEN {override}
    ELSE IF ~WellNamed(parts) \/ Get(PluginOf(parts)) = None THEN {"none"}
    ELSE IF PluginOf(parts) \in DOMAIN Builtins
    THEN {LockModeOf(Builtins[PluginOf(parts)], TaskOf(parts))}
    ELSE LockModesOverGRPC(Get(PluginOf(parts)), TaskOf(parts))

\* The slots and the lock a request takes: any mode but two is a write.
ActingMode(lockMode) ==
    IF lockMode \in {"none", "exclusive"} THEN lockMode ELSE "write"

\* A request is read, and its lock mode settled; InstantPing answers one whose whole
\* name is "health:instant-ping".  The builtin health.instant-ping is a task as others.
Read(r, q) ==
    /\ q.parts # <<"health:instant-ping">>
    /\ \E lockMode \in EffectiveLockMode(q.parts, WireLockMode(q)) :
            Receive(r, ActingMode(lockMode))
    /\ asked' = [asked EXCEPT ![r] = q]
    /\ UNCHANGED <<registry, using, outcome>>

Ready(r) == At(r, "run") /\ using[r] = None /\ outcome[r] = None

\* doTask: a name it cannot read, or a plugin that is not there, is refused.
LookUp(r) ==
    /\ Ready(r)
    /\ \/ /\ WellNamed(asked[r].parts) /\ Get(PluginOf(asked[r].parts)) # None
          /\ using' = [using EXCEPT ![r] = Get(PluginOf(asked[r].parts))]
          /\ UNCHANGED outcome
       \/ /\ ~WellNamed(asked[r].parts) \/ Get(PluginOf(asked[r].parts)) = None
          /\ outcome' = [outcome EXCEPT ![r] = Refused]
          /\ UNCHANGED using
    /\ UNCHANGED <<vars, registry, asked>>

\* The task ends, or the process of its plugin does.
Call(r) ==
    /\ At(r, "run") /\ using[r] # None
    /\ LET name == TaskOf(asked[r].parts)
           input == asked[r].input
       IN  \E result \in IF using[r] \in BuiltinPlugins THEN Do(using[r], name, input)
                         ELSE DoOverGRPC(using[r], name, input) :
                outcome' = [outcome EXCEPT ![r] = result]
    /\ using' = [using EXCEPT ![r] = None]
    /\ UNCHANGED <<vars, registry, asked>>

Syncing(r) ==
    /\ At(r, "run") /\ using[r] = PluginMgmt
    /\ TaskOf(asked[r].parts) = "sync"

\* KeepPluginsUpToDate, asked by the task, installs, replaces or unloads a plugin.
Replace(name) ==
    /\ \E r \in Requests : Syncing(r)
    /\ \E v \in Versions \cup {None} : registry' = [registry EXCEPT ![name] = v]
    /\ UNCHANGED <<vars, asked, using, outcome>>

\* The executor's other steps.  doTask returns what Do did.
FinishTask(r) ==
    /\ outcome[r] # None /\ Finish(r)
    /\ UNCHANGED pluginVars

LeaveTask(r) ==
    /\ Leave(r)
    /\ asked' = [asked EXCEPT ![r] = None]
    /\ outcome' = [outcome EXCEPT ![r] = None]
    /\ UNCHANGED <<registry, using>>

\* The next process loads what the plugin directory holds.
QuitTasks ==
    /\ Quit
    /\ asked' = Nobody /\ using' = Nobody /\ outcome' = Nobody
    /\ registry' \in [PluginNames -> Versions \cup {None}]

Alone(r) ==
    \/ TakeSlot(r) \/ WaitTimeout(r) \/ DropRequest(r) \/ Lock(r) \/ RLock(r)
    \/ Start(r) \/ Answer(r) \/ Unlock(r) \/ FreeSlot(r)
    \/ TimerExpires(r) \/ WatcherStep(r)

TaskStep(r) ==
    \/ \E q \in Forwarded : Read(r, q)
    \/ LookUp(r) \/ Call(r) \/ FinishTask(r) \/ LeaveTask(r)
    \/ Alone(r) /\ UNCHANGED pluginVars

TaskNext ==
    \/ \E r \in Requests : TaskStep(r)
    \/ \E n \in PluginNames : Replace(n)
    \/ QuitTasks
    \/ (Connect \/ LoopStep) /\ UNCHANGED pluginVars

TaskSpec == TaskInit /\ [][TaskNext]_allVars

-----------------------------------------------------------------------------
(* Properties *)

\* The plugin a task runs in stays registered, as it is, until the task returned:
\* no synchronisation stops it under the task.  It rests on the exclusive lock,
\* hence on what effectiveLockMode finds, on the slots, and on the second lookup
\* being made under the lock.
TaskKeepsPlugin ==
    \A r \in Requests : At(r, "run") /\ using[r] \notin BuiltinPlugins \cup {None} =>
        registry[PluginOf(asked[r].parts)] = using[r]

\* A response without any error tells of a task that ended, except for the calls
\* Do lets panic.
SuccessMeansEnded ==
    \A r \in Requests :
        LET a == asked[r]
        IN  /\ outcome[r] # None
            /\ \A v \in Versions \cup BuiltinPlugins : TaskOf(a.parts) \in DOMAIN v =>
                    ~MayPanic(v[TaskOf(a.parts)], a.input)
            => (outcome[r].failed \/ outcome[r].ended)

\* A task asked for over HTTP runs only for a user who may run that plugin's task:
\* what was judged is what doTask runs.
OnlyPermittedRun ==
    \A r \in Requests : using[r] # None /\ asked[r].from # None =>
        Api!CanAccess(asked[r].from.user, "tasks",
                      PluginOf(asked[r].parts), TaskOf(asked[r].parts))

\* "Precedence order: override from request, default mode set at task level."
\* (node.go:327): tasks that run side by side are compatible by the modes they
\* were asked for with, or else by those of their plugins.
MeantMode(r) ==
    IF asked[r].lockMode # "unspecified" THEN asked[r].lockMode
    ELSE ActingMode(LockModeOf(using[r], TaskOf(asked[r].parts)))
MeantModesRespected ==
    \A r, s \in Requests :
        r # s /\ using[r] # None /\ using[s] # None
        => Tasks!Compatible(MeantMode(r), MeantMode(s))
=============================================================================
