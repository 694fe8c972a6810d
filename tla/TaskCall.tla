------------------------------- MODULE TaskCall -------------------------------
(***************************************************************************)
(* What a plugin is to the node, and what one call of its task does.       *)
(*                                                                         *)
(* A plugin is a program that registers tasks and serves them.  When a     *)
(* task is called, sdk.Plugin.Do reads its signature by reflection,        *)
(* converts the arguments and options that came over the wire, calls the   *)
(* function and reads what it returned.  Anything that panics on the way   *)
(* is recovered, and Do then returns an empty response and no error.       *)
(*                                                                         *)
(* An argument is the kind of value it is:                                 *)
(*   "null", "bool", "number", "list", "map",                              *)
(*   "json" a string that holds JSON, "text" another string.               *)
(* A parameter is [kind, same, takes, defined, pointer]:                   *)
(*   kind     "basic", "composite" (struct, slice, array, map),            *)
(*            "interface", or "other", which cannot be converted to        *)
(*   same     the arguments that already have its very type                *)
(*   takes    those that convert to it                                     *)
(*   defined  it is a defined type (type Port int), and no longer what the *)
(*            conversion gives                                             *)
(*   pointer  it points to such a type                                     *)
(* A task is [context, params, options, returns, lock]: context tells      *)
(* whether it takes one; options is None or a function from option names   *)
(* to parameters; returns is a set of "value", "error", "panic", "unfit",  *)
(* what JSON cannot hold, and "other", not a value and an error; lock is   *)
(* the sdk's lock mode, "none", "write", "exclusive" or one it has not.    *)
(***************************************************************************)
EXTENDS Naturals, Sequences

CONSTANT None

IsList(s) == s \in Seq({s[i] : i \in DOMAIN s})
IsTask(task) == /\ IsList(task.params)
                /\ task.returns \subseteq {"value", "error", "panic", "unfit", "other"}
IsProgram(program) ==
    IsList(program) /\ \A i \in DOMAIN program : IsTask(program[i].task)
IsInput(input) == input = None \/ input.args = None \/ IsList(input.args)

-----------------------------------------------------------------------------
(* Names of tasks: plugin:task, or the name both have. *)

\* fault: what follows the last separator is the task.
NotEmpty(parts) == Len(parts) >= 1

WellNamed(parts) == Len(parts) \in {1, 2}
PluginOf(parts) == parts[1]
TaskOf(parts) == parts[Len(parts)]

-----------------------------------------------------------------------------
(* Plugins *)

\* The arguments start after the context and the options.
Offset(task) ==
    (IF task.context THEN 1 ELSE 0) + (IF task.options = None THEN 0 ELSE 1)

\* MustRegisterTask exits for any other function.  The first two parameters are
\* not looked at, whether they are context and options or arguments.
Registrable(task) ==
    /\ "other" \notin task.returns
    /\ \A i \in DOMAIN task.params :
            Offset(task) + i > 2 => task.params[i].kind # "other"

\* The last task registered under a name has it.
Registered(program) ==
    LET last(n) == CHOOSE i \in DOMAIN program :
                        /\ program[i].name = n
                        /\ \A j \in DOMAIN program : program[j].name = n => j <= i
    IN  [n \in {program[i].name : i \in DOMAIN program} |-> program[last(n)].task]

\* MustServe, after the registrations: None when the process exits instead.
Served(program) ==
    IF program # <<>> /\ \A i \in DOMAIN program : Registrable(program[i].task)
    THEN Registered(program) ELSE None

\* toProtoLockMode
ProtoLockMode(lock) ==
    IF lock \in {"none", "write", "exclusive"} THEN lock ELSE "unspecified"

-----------------------------------------------------------------------------
(* Conversions *)

\* What was converted fits where it goes, or makes reflection panic there.
Fitting(p) == IF p.defined THEN "misfit" ELSE "value"

\* StructpbValueToInput.  A composite is read from a string of JSON only; a null
\* has no type that could be assigned to an interface.
StructpbValueToInput(v, p) ==
    CASE p.kind = "interface" -> IF v = "null" THEN "panic" ELSE "value"
      [] p.kind = "composite" -> IF v = "json" /\ v \in p.takes THEN "value" ELSE "error"
      [] p.kind = "basic" /\ v \in p.takes ->
            IF p.pointer /\ p.defined THEN "panic" ELSE Fitting(p)
      [] OTHER -> "error"

Argument(v, p) == IF v \in p.same THEN "value" ELSE StructpbValueToInput(v, p)

\* handleOptions: the outcomes for the options given, in any order; each is set
\* as soon as it was converted.
SetOption(options, given, k) ==
    IF k \notin DOMAIN options THEN "error"
    ELSE LET out == StructpbValueToInput(given[k], options[k])
         IN  IF out = "misfit" THEN "panic" ELSE out

HandleOptions(options, given) ==
    IF options = None \/ given = None THEN {"value"}
    ELSE LET outcomes == {SetOption(options, given, k) : k \in DOMAIN given}
         IN  IF outcomes \subseteq {"value"} THEN {"value"} ELSE outcomes \ {"value"}

\* Arguments are converted in order, the first that cannot be ends the call.
HandleArguments(params, args) ==
    LET out == [i \in DOMAIN args |-> Argument(args[i], params[i])]
        ends == {i \in DOMAIN args : out[i] \in {"error", "panic"}}
    IN  IF ends # {} THEN out[CHOOSE i \in ends : \A j \in ends : i <= j]
        ELSE IF \E i \in DOMAIN args : out[i] = "misfit" THEN "misfit" ELSE "value"

\* fault: the numbers of arguments and of parameters are not compared.
AnyNumber(task, input) ==
    IF Len(input.args) # Len(task.params) THEN {"misfit"}
    ELSE {HandleArguments(task.params, input.args)}

CountedArguments(task, input) ==
    IF Len(input.args) # Len(task.params) THEN {"error"}
    ELSE {HandleArguments(task.params, input.args)}

HandleInputs(task, input) ==
    IF input.args = None THEN {"error"}
    ELSE LET opts == HandleOptions(task.options, input.options)
         IN  (opts \ {"value"})
             \cup (IF "value" \in opts THEN CountedArguments(task, input) ELSE {})

-----------------------------------------------------------------------------
(* The call *)

\* failed: Do returns an error; error: the task did; ended: the function returned.
Result(failed, error, ended) == [failed |-> failed, error |-> error, ended |-> ended]
Refused == Result(TRUE, FALSE, FALSE)
Recovered == Result(FALSE, FALSE, FALSE)

\* parseReturn
Returned(kind) ==
    CASE kind = "value" -> Result(FALSE, FALSE, TRUE)
      [] kind = "error" -> Result(FALSE, TRUE, TRUE)
      [] kind = "unfit" -> Result(TRUE, FALSE, TRUE)
      [] kind = "panic" -> Recovered

\* Plugin.Do: what it may return.
Do(plugin, name, input) ==
    IF input = None \/ name \notin DOMAIN plugin THEN {Refused}
    ELSE UNION {CASE out = "error" -> {Refused}
                  [] out \in {"panic", "misfit"} -> {Recovered}
                  [] out = "value" -> {Returned(k) : k \in plugin[name].returns}
                : out \in HandleInputs(plugin[name], input)}

\* The calls that Do lets panic: the task itself, a null for an interface, and
\* types that are defined rather than predeclared.
MayPanic(task, input) ==
    \/ "panic" \in task.returns
    \/ "panic" \in HandleInputs(task, input)
    \/ \E i \in DOMAIN task.params : task.params[i].defined

\* GetTaskLockMode of a plugin, "none" for a task it has not.
LockModeOf(plugin, name) ==
    IF name \in DOMAIN plugin THEN ProtoLockMode(plugin[name].lock) ELSE "none"

-----------------------------------------------------------------------------
(* The same over gRPC, from the plugin's process.  A call may fail whether or   *)
(* not it got there, and of an error only the error comes back.                 *)

DoOverGRPC(plugin, name, input) ==
    {IF result.failed THEN Result(TRUE, FALSE, result.ended) ELSE result
     : result \in Do(plugin, name, input)}
    \cup {Refused, Result(TRUE, FALSE, TRUE)}

LockModesOverGRPC(plugin, name) == {LockModeOf(plugin, name), "none"}
=============================================================================
