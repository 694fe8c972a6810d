----------------------------- MODULE NodeExecutor -----------------------------
(***************************************************************************)
(* The executor of task requests on a node.                                *)
(*                                                                         *)
(* Node.ListenTaskRequest reads requests from the manager's stream and     *)
(* starts a goroutine for each.  The goroutine waits for a place among the *)
(* running tasks, then for the exclusive lock, runs the task, answers, and *)
(* gives everything back; a timer, and once the task has started a watcher *)
(* goroutine, report what is late.  When the stream breaks the listener    *)
(* waits for all of them, and connects again with new channels and a new   *)
(* lock.  Go's buffered channels are counters here, their blocking sends   *)
(* guards; the RWMutex (its writer announces itself, which holds back new  *)
(* readers, and admits the waiting readers when it unlocks) is `writer`    *)
(* and `readers`.                                                          *)
(*                                                                         *)
(* A request is named by the slot of Requests it occupies, from Receive    *)
(* until its goroutine and its watcher are gone.                           *)
(***************************************************************************)
EXTENDS Naturals, FiniteSets

CONSTANTS
    Requests,           \* slots for requests under way
    MaxConcurrentTasks, \* capacity of runningTasks
    MaxWaitingRequests  \* capacity of requestsQueue

ASSUME RequestsAssumption == IsFiniteSet(Requests) /\ "nobody" \notin Requests
\* ListenTaskRequest replaces a limit that is not positive by its default.
ASSUME LimitsAssumption == /\ MaxConcurrentTasks \in Nat \ {0}
                           /\ MaxWaitingRequests \in Nat \ {0}

VARIABLES
    listener,  \* the goroutine of ListenTaskRequest
    link,      \* the gRPC stream
    ctx,       \* the process's context
    queue,     \* len(requestsQueue), and the count of wg
    tasks,     \* len(runningTasks)
    writeTasks,\* len(runningWriteTask)
    writer,    \* exclusiveLock: the goroutine that has, or waits for, Lock
    readers,   \* exclusiveLock: goroutines that were granted RLock
    pc,        \* [Requests]: where the request's goroutine is
    mode,      \* [Requests]: its effective lock mode
    timer,     \* [Requests]: its timer
    watcher,   \* [Requests]: the goroutine that reports STARTED_TIMEOUT
    told       \* requests whose sender got an answer of any kind

channelVars == <<queue, tasks, writeTasks>>
lockVars    == <<writer, readers>>
requestVars == <<pc, mode, timer, watcher, told>>
vars == <<listener, link, ctx, channelVars, lockVars, requestVars>>

\* The tasks that run, as TaskLocks sees them.
RunningModes == [r \in Requests |-> IF pc[r] = "run" THEN mode[r] ELSE "no"]
Tasks == INSTANCE TaskLocks WITH running <- RunningModes

-----------------------------------------------------------------------------
(* Types *)

\* An unspecified mode takes the write slot and the read lock, as "write" does.
Mode == {"none", "write", "exclusive"}
PC == {"idle", "slot", "lock", "locking", "run", "answer", "answerLate", "unlock",
       "freeSlot", "leave"}

TypeOK ==
    /\ listener \in {"offline", "recv", "reply", "drain"}
    /\ link \in {"up", "broken"}
    /\ ctx \in {"live", "cancelled"}
    /\ queue \in 0..MaxWaitingRequests
    /\ tasks \in 0..MaxConcurrentTasks
    /\ writeTasks \in 0..1
    /\ writer \in Requests \cup {"nobody"}
    /\ readers \subseteq Requests
    /\ pc \in [Requests -> PC]
    /\ mode \in [Requests -> Mode]
    /\ timer \in [Requests -> {"off", "armed", "expired"}]
    /\ watcher \in [Requests -> {"none", "watching", "sending"}]
    /\ told \subseteq Requests

Init ==
    /\ listener = "offline" /\ link = "broken" /\ ctx = "live"
    /\ queue = 0 /\ tasks = 0 /\ writeTasks = 0
    /\ writer = "nobody" /\ readers = {}
    /\ pc = [r \in Requests |-> "idle"]
    /\ mode = [r \in Requests |-> "none"]
    /\ timer = [r \in Requests |-> "off"]
    /\ watcher = [r \in Requests |-> "none"]
    /\ told = {}

At(r, label) == pc[r] = label
Goto(r, label) == pc' = [pc EXCEPT ![r] = label]

\* stream.Send: an answer on a broken stream is lost, and the error only logged.
Tell(r) == told' = IF link = "up" THEN told \cup {r} ELSE told

-----------------------------------------------------------------------------
(* The process, the connection and the receive loop *)

\* A handshake and ExecTask succeeded: ListenTaskRequest starts with new channels
\* and a new lock.  Watchers of the last stream that did not run yet can only end,
\* or fail to send.
Connect ==
    /\ listener = "offline" /\ ctx = "live"
    /\ listener' = "recv" /\ link' = "up"
    /\ queue' = 0 /\ tasks' = 0 /\ writeTasks' = 0
    /\ writer' = "nobody" /\ readers' = {}
    /\ watcher' = [r \in Requests |-> "none"]
    /\ UNCHANGED <<ctx, pc, mode, timer, told>>

\* The manager ends the call, or the connection is lost.
StreamBreaks ==
    /\ link = "up"
    /\ link' = "broken"
    /\ UNCHANGED <<listener, ctx, channelVars, lockVars, requestVars>>

\* A signal: run's deferred function cancels the context and closes the connection.
Shutdown ==
    /\ ctx = "live"
    /\ ctx' = "cancelled" /\ link' = "broken"
    /\ UNCHANGED <<listener, channelVars, lockVars, requestVars>>

\* The listener returned, or GracefulShutdownTimeout passed and the plugins were
\* killed: the process exits and is started again.
Quit ==
    /\ ctx = "cancelled"
    /\ listener' = "offline" /\ link' = "broken" /\ ctx' = "live"
    /\ queue' = 0 /\ tasks' = 0 /\ writeTasks' = 0
    /\ writer' = "nobody" /\ readers' = {}
    /\ pc' = [r \in Requests |-> "idle"]
    /\ mode' = [r \in Requests |-> "none"]
    /\ timer' = [r \in Requests |-> "off"]
    /\ watcher' = [r \in Requests |-> "none"]
    /\ told' = {}

\* A free slot: its goroutine is over, and its watcher saw the end of the task.
Free(r) == At(r, "idle") /\ watcher[r] = "none"

\* The request got a place in requestsQueue; wg.Add(1), and its goroutine starts.
\* Requests that had arrived before the stream broke are still read.
Receive(r, m) ==
    /\ listener = "recv" /\ Free(r)
    /\ queue < MaxWaitingRequests
    /\ queue' = queue + 1
    /\ Goto(r, "slot")
    /\ mode' = [mode EXCEPT ![r] = m]
    /\ timer' = [timer EXCEPT ![r] = "armed"]
    /\ told' = told \ {r}
    /\ UNCHANGED <<listener, link, ctx, tasks, writeTasks, lockVars, watcher>>

\* No place in the queue: the receive loop answers FULL_QUEUE itself.
Refuse ==
    /\ listener = "recv" /\ queue = MaxWaitingRequests
    /\ listener' = "reply"
    /\ UNCHANGED <<link, ctx, channelVars, lockVars, requestVars>>

\* The task "health:instant-ping" is answered by the receive loop too.
InstantPing ==
    /\ listener = "recv"
    /\ listener' = "reply"
    /\ UNCHANGED <<link, ctx, channelVars, lockVars, requestVars>>

\* stream.Send of that answer returned, with an error or without.
Reply ==
    /\ listener = "reply"
    /\ listener' = "recv"
    /\ UNCHANGED <<link, ctx, channelVars, lockVars, requestVars>>

\* Recv fails, or returns EOF: wg.Wait.
RecvFails ==
    /\ listener = "recv" /\ link = "broken"
    /\ listener' = "drain"
    /\ UNCHANGED <<link, ctx, channelVars, lockVars, requestVars>>

NothingAwaited == TRUE          \* fault: no wg.Wait before a new stream
AllDone == queue = 0

Drained ==
    /\ listener = "drain" /\ AllDone
    /\ listener' = "offline"
    /\ UNCHANGED <<link, ctx, channelVars, lockVars, requestVars>>

-----------------------------------------------------------------------------
(* The goroutine of a request *)

TaskSlot(r) == IF mode[r] = "none" THEN "tasks" ELSE "writeTasks"

RoomAmong(n) == n < MaxConcurrentTasks

\* taskSlot <- struct{}{}
TakeSlot(r) ==
    /\ At(r, "slot")
    /\ \/ /\ TaskSlot(r) = "tasks" /\ RoomAmong(tasks)
          /\ tasks' = tasks + 1 /\ UNCHANGED writeTasks
       \/ /\ TaskSlot(r) = "writeTasks" /\ writeTasks < 1
          /\ writeTasks' = writeTasks + 1 /\ UNCHANGED tasks
    /\ Goto(r, "lock")
    /\ UNCHANGED <<listener, link, ctx, queue, lockVars, mode, timer, watcher, told>>

\* <-t.C while it waits for a slot; the answer will be TIMEOUT.
WaitTimeout(r) ==
    /\ At(r, "slot") /\ timer[r] = "expired"
    /\ Goto(r, "answerLate")
    /\ timer' = [timer EXCEPT ![r] = "off"]
    /\ UNCHANGED <<listener, link, ctx, channelVars, lockVars, mode, watcher, told>>

DroppedAtOnce == "idle"             \* fault: the queue's place is not given back
Dropped == "leave"

\* <-ctx.Done(): the goroutine returns without an answer.
DropRequest(r) ==
    /\ At(r, "slot") /\ ctx = "cancelled"
    /\ pc' = [pc EXCEPT ![r] = Dropped]
    /\ UNCHANGED <<listener, link, ctx, channelVars, lockVars, mode, timer, watcher,
                   told>>

\* exclusiveLock.Lock announces the writer.
Lock(r) ==
    /\ At(r, "lock") /\ mode[r] = "exclusive" /\ writer = "nobody"
    /\ Goto(r, "locking")
    /\ writer' = r
    /\ UNCHANGED <<listener, link, ctx, channelVars, readers, mode, timer, watcher,
                   told>>

\* exclusiveLock.RLock is granted at once unless a writer is announced.
RLock(r) ==
    /\ At(r, "lock") /\ mode[r] # "exclusive"
    /\ Goto(r, "locking")
    /\ readers' = IF writer = "nobody" THEN readers \cup {r} ELSE readers
    /\ UNCHANGED <<listener, link, ctx, channelVars, writer, mode, timer, watcher,
                   told>>

HasEither(r) == writer = r \/ r \in readers   \* fault: Lock does not wait for readers
Granted(r) == (writer = r /\ readers = {}) \/ r \in readers

\* The lock is there: the watcher is started, and doTask runs the task.
Start(r) ==
    /\ At(r, "locking") /\ Granted(r)
    /\ Goto(r, "run")
    /\ watcher' = [watcher EXCEPT ![r] = "watching"]
    /\ UNCHANGED <<listener, link, ctx, channelVars, lockVars, mode, timer, told>>

\* doTask returns; t.Stop() and finished <- struct{}{}.
Finish(r) ==
    /\ At(r, "run")
    /\ Goto(r, "answer")
    /\ timer' = [timer EXCEPT ![r] = "off"]
    /\ UNCHANGED <<listener, link, ctx, channelVars, lockVars, mode, watcher, told>>

\* stream.Send(resp)
Answer(r) ==
    /\ \/ At(r, "answer") /\ Goto(r, "unlock")
       \/ At(r, "answerLate") /\ Goto(r, "leave")
    /\ Tell(r)
    /\ UNCHANGED <<listener, link, ctx, channelVars, lockVars, mode, timer, watcher>>

NoneAdmitted == readers         \* fault: the waiting readers are not woken
WaitingReaders ==
    {s \in Requests : At(s, "locking") /\ mode[s] # "exclusive"}

\* The deferred Unlock or RUnlock.
Unlock(r) ==
    /\ At(r, "unlock")
    /\ Goto(r, "freeSlot")
    /\ \/ mode[r] = "exclusive" /\ writer' = "nobody" /\ readers' = WaitingReaders
       \/ mode[r] # "exclusive" /\ readers' = readers \ {r} /\ UNCHANGED writer
    /\ UNCHANGED <<listener, link, ctx, channelVars, mode, timer, watcher, told>>

\* The deferred <-taskSlot.
FreeSlot(r) ==
    /\ At(r, "freeSlot")
    /\ \/ /\ TaskSlot(r) = "tasks" /\ tasks > 0
          /\ tasks' = tasks - 1 /\ UNCHANGED writeTasks
       \/ /\ TaskSlot(r) = "writeTasks" /\ writeTasks > 0
          /\ writeTasks' = writeTasks - 1 /\ UNCHANGED tasks
    /\ Goto(r, "leave")
    /\ UNCHANGED <<listener, link, ctx, queue, lockVars, mode, timer, watcher, told>>

\* The first deferred function: <-requestsQueue and wg.Done().
Leave(r) ==
    /\ At(r, "leave") /\ queue > 0
    /\ queue' = queue - 1
    /\ Goto(r, "idle")
    /\ mode' = [mode EXCEPT ![r] = "none"]
    /\ timer' = [timer EXCEPT ![r] = "off"]
    /\ UNCHANGED <<listener, link, ctx, tasks, writeTasks, lockVars, watcher, told>>

-----------------------------------------------------------------------------
(* The timer and the watcher of a request *)

TimerExpires(r) ==
    /\ timer[r] = "armed"
    /\ timer' = [timer EXCEPT ![r] = "expired"]
    /\ UNCHANGED <<listener, link, ctx, channelVars, lockVars, pc, mode, watcher, told>>

\* The watcher's select: <-t.C, before Stop made it too late, ...
WatcherFires(r) ==
    /\ watcher[r] = "watching" /\ timer[r] = "expired"
    /\ watcher' = [watcher EXCEPT ![r] = "sending"]
    /\ timer' = [timer EXCEPT ![r] = "off"]
    /\ UNCHANGED <<listener, link, ctx, channelVars, lockVars, pc, mode, told>>

\* ... or <-finished.
WatcherEnds(r) ==
    /\ watcher[r] = "watching" /\ ~ At(r, "run")
    /\ watcher' = [watcher EXCEPT ![r] = "none"]
    /\ UNCHANGED <<listener, link, ctx, channelVars, lockVars, pc, mode, timer, told>>

\* STARTED_TIMEOUT; the task's own answer may have been sent before.
WatcherSends(r) ==
    /\ watcher[r] = "sending"
    /\ watcher' = [watcher EXCEPT ![r] = "none"]
    /\ Tell(r)
    /\ UNCHANGED <<listener, link, ctx, channelVars, lockVars, pc, mode, timer>>

-----------------------------------------------------------------------------
ListenerStep == Reply \/ RecvFails \/ Drained

\* What a request's goroutine does by itself; only Finish depends on the task.
Step(r) ==
    \/ TakeSlot(r) \/ WaitTimeout(r) \/ DropRequest(r) \/ Lock(r) \/ RLock(r)
    \/ Start(r) \/ Answer(r) \/ Unlock(r) \/ FreeSlot(r) \/ Leave(r)

WatcherStep(r) == WatcherFires(r) \/ WatcherEnds(r) \/ WatcherSends(r)

\* What concerns one request, and what concerns the connection alone.
RequestStep(r) ==
    \/ \E m \in Mode : Receive(r, m)
    \/ Step(r) \/ Finish(r) \/ TimerExpires(r) \/ WatcherStep(r)
LoopStep == StreamBreaks \/ Shutdown \/ Refuse \/ InstantPing \/ ListenerStep

Next ==
    \/ Connect \/ Quit \/ LoopStep
    \/ \E r \in Requests : RequestStep(r)

Spec == Init /\ [][Next]_vars

(***************************************************************************)
(* Fairness.  Goroutines that can go on do, and time passes.  Nothing is   *)
(* assumed of requests, of connections, or of the operator stopping the    *)
(* node.  That tasks end is an assumption of its own: the code has nothing *)
(* that makes them.                                                        *)
(***************************************************************************)
TasksEnd == \A r \in Requests : WF_vars(Finish(r))

FairSpec ==
    /\ Spec
    /\ WF_vars(ListenerStep)
    /\ \A r \in Requests :
          WF_vars(Step(r)) /\ WF_vars(TimerExpires(r)) /\ WF_vars(WatcherStep(r))
    /\ TasksEnd

-----------------------------------------------------------------------------
(* Safety *)

Running == {r \in Requests : At(r, "run")}

\* "ExclusiveLock ensures only one task runs at a time, blocking all others", and
\* one write task at a time: the lock is taken after a slot of one of two
\* channels, both are made anew for every stream, and tasks outlive their stream.
ModesRespected ==
    \A r, s \in Running : r # s => Tasks!Compatible(mode[r], mode[s])

Holding(r) == pc[r] \in {"lock", "locking", "run", "answer", "unlock", "freeSlot"}
Holders(slot) == {r \in Requests : Holding(r) /\ TaskSlot(r) = slot}
UnderWay == {r \in Requests : ~ At(r, "idle")}

\* Every place taken in one of the three channels belongs to a request that will
\* give it back, on each way a goroutine can end: nothing leaks over any number of
\* requests, timeouts, lost streams and shutdowns.
PlacesAccounted ==
    /\ queue = Cardinality(UnderWay)
    /\ tasks = Cardinality(Holders("tasks"))
    /\ writeTasks = Cardinality(Holders("writeTasks"))

\* However often the stream is lost while tasks run, the node never runs more than
\* MaxConcurrentTasks tasks and one writer.
LoadBounded == Cardinality(Running) <= MaxConcurrentTasks + 1

\* The executor is an implementation of the lock modes' promise.
ImplementsTaskLocks == Tasks!Spec

-----------------------------------------------------------------------------
(* Liveness *)

\* A request that was accepted gets an answer, whatever the others do, unless
\* its stream is lost: a late one, that of the task, or both.
EveryRequestAnswered ==
    \A r \in Requests :
        At(r, "slot") /\ link = "up" ~> r \in told \/ link = "broken"

\* A node that lost its stream ends up able to connect again: no goroutine keeps
\* wg.Wait waiting.
ListenerReturns == listener = "drain" ~> listener = "offline"
=============================================================================
