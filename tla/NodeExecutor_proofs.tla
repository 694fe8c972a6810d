------------------------- MODULE NodeExecutor_proofs -------------------------
(***************************************************************************)
(* Proofs about NodeExecutor, for every set of request slots and every     *)
(* limit.  TypeOK comes first, then the inductive invariant ExecutorInv,   *)
(* which ties the counters of places and the lock to where the requests'   *)
(* goroutines are; the safety properties of the runs and the refinement of *)
(* TaskLocks follow from it.                                               *)
(***************************************************************************)
EXTENDS NodeExecutor, FiniteSetTheorems, TLAPS

-----------------------------------------------------------------------------
(* Type correctness *)

\* A step of a request's goroutine, timer or watcher keeps the types: the guards
\* are the capacities of the channels.
LEMMA RequestStepType ==
    ASSUME TypeOK, NEW r \in Requests, RequestStep(r)
    PROVE  TypeOK'
<1>0. USE LimitsAssumption DEF TypeOK, PC, Mode, At, Goto, Tell, lockVars, channelVars
<1>1. CASE \E m \in Mode : Receive(r, m)
  BY <1>1 DEF Receive, Free
<1>2. CASE TakeSlot(r)
  BY <1>2 DEF TakeSlot, RoomAmong
<1>3. CASE FreeSlot(r)
  BY <1>3 DEF FreeSlot
<1>4. CASE Leave(r)
  BY <1>4 DEF Leave
<1>5. CASE WaitTimeout(r) \/ DropRequest(r) \/ Lock(r) \/ RLock(r)
  BY <1>5 DEF WaitTimeout, DropRequest, Dropped, Lock, RLock
<1>6. CASE Start(r) \/ Finish(r) \/ Answer(r)
  BY <1>6 DEF Start, Finish, Answer
<1>7. CASE Unlock(r)
  BY <1>7 DEF Unlock, WaitingReaders
<1>8. CASE TimerExpires(r) \/ WatcherStep(r)
  BY <1>8 DEF TimerExpires, WatcherStep, WatcherFires, WatcherEnds, WatcherSends
<1>q. QED
  BY <1>1, <1>2, <1>3, <1>4, <1>5, <1>6, <1>7, <1>8 DEF RequestStep, Step

\* All variables stay in their types; in particular no channel holds more than
\* its capacity.
THEOREM TypeCorrect == Spec => []TypeOK
<1>1. Init => TypeOK
  BY LimitsAssumption DEF Init, TypeOK, PC, Mode
<1>2. TypeOK /\ [Next]_vars => TypeOK'
  <2>0. SUFFICES ASSUME TypeOK, [Next]_vars PROVE TypeOK'
    OBVIOUS
  <2>1. CASE UNCHANGED vars
    BY <2>0, <2>1 DEF TypeOK, vars, channelVars, lockVars, requestVars
  <2>2. CASE Connect
    BY <2>0, <2>2, LimitsAssumption DEF TypeOK, Connect
  <2>3. CASE Quit
    BY <2>3, LimitsAssumption DEF TypeOK, Quit, PC, Mode
  <2>4. CASE LoopStep
    BY <2>0, <2>4 DEF TypeOK, LoopStep, StreamBreaks, Shutdown, Refuse, InstantPing,
       ListenerStep, Reply, RecvFails, Drained, channelVars, lockVars, requestVars
  <2>5. CASE \E r \in Requests : RequestStep(r)
    BY <2>0, <2>5, RequestStepType
  <2>q. QED
    BY <2>0, <2>1, <2>2, <2>3, <2>4, <2>5 DEF Next
<1>q. QED
  BY <1>1, <1>2, PTL DEF Spec

-----------------------------------------------------------------------------
(* The inductive invariant *)

\* The goroutine called Lock or RLock and did not unlock yet.
AtLock(r) == pc[r] \in {"locking", "run", "answer", "unlock"}

\* The announced writer, and the readers, are requests at the lock.
LockOwners ==
    /\ \A r \in Requests : writer = r <=> AtLock(r) /\ mode[r] = "exclusive"
    /\ \A r \in readers : AtLock(r) /\ mode[r] # "exclusive"

\* Past the lock, a request has it.
LockHeld ==
    \A r \in Requests : pc[r] \in {"run", "answer", "unlock"} => Granted(r)

\* Between two streams nothing is under way: the listener waited for it.
NothingWhileOffline == listener = "offline" => UnderWay = {}

ExecutorInv ==
    /\ TypeOK
    /\ PlacesAccounted
    /\ LockOwners
    /\ LockHeld
    /\ NothingWhileOffline

-----------------------------------------------------------------------------
(* Counting places *)

\* Sets of requests are finite; one request more or less counts for one.
LEMMA Counting ==
    ASSUME NEW S \in SUBSET Requests, NEW r \in Requests
    PROVE  /\ Cardinality(S) \in Nat
           /\ r \notin S => Cardinality(S \cup {r}) = Cardinality(S) + 1
           /\ r \in S => Cardinality(S \ {r}) = Cardinality(S) - 1
<1>1. IsFiniteSet(S)
  BY RequestsAssumption, FS_Subset
<1>q. QED
  BY <1>1, FS_CardinalityType, FS_AddElement, FS_RemoveElement

\* A step of a request that neither enters nor leaves, and neither takes nor gives
\* back a slot, changes no count.
LEMMA PlacesKept ==
    ASSUME PlacesAccounted, UNCHANGED channelVars,
           UNCHANGED <<UnderWay, Holders("tasks"), Holders("writeTasks")>>
    PROVE  PlacesAccounted'
BY DEF PlacesAccounted, channelVars

\* Every place that is taken or given back is counted, by each step of a request.
LEMMA RequestStepPlaces ==
    ASSUME TypeOK, PlacesAccounted, NEW r \in Requests, RequestStep(r)
    PROVE  PlacesAccounted'
<1>s. /\ UnderWay \in SUBSET Requests
      /\ Holders("tasks") \in SUBSET Requests
      /\ Holders("writeTasks") \in SUBSET Requests
  BY DEF UnderWay, Holders
<1>1. CASE \E m \in Mode : Receive(r, m)
  <2>1. /\ UnderWay' = UnderWay \cup {r} /\ r \notin UnderWay
        /\ UNCHANGED <<Holders("tasks"), Holders("writeTasks")>>
    BY <1>1 DEF Receive, Free,
       TypeOK, UnderWay, Holders, Holding, TaskSlot, At, Goto
  <2>2. queue' = queue + 1 /\ UNCHANGED <<tasks, writeTasks>>
    BY <1>1 DEF Receive
  <2>q. QED
    BY <2>1, <2>2, <1>s, Counting DEF PlacesAccounted
<1>2. CASE TakeSlot(r) /\ TaskSlot(r) = "tasks"
  <2>1. /\ Holders("tasks")' = Holders("tasks") \cup {r} /\ r \notin Holders("tasks")
        /\ UNCHANGED <<UnderWay, Holders("writeTasks")>>
    BY <1>2 DEF TakeSlot,
       TypeOK, UnderWay, Holders, Holding, TaskSlot, At, Goto
  <2>2. tasks' = tasks + 1 /\ UNCHANGED <<queue, writeTasks>>
    BY <1>2 DEF TakeSlot, At
  <2>q. QED
    BY <2>1, <2>2, <1>s, Counting DEF PlacesAccounted
<1>3. CASE TakeSlot(r) /\ TaskSlot(r) = "writeTasks"
  <2>1. /\ Holders("writeTasks")' = Holders("writeTasks") \cup {r}
        /\ r \notin Holders("writeTasks")
        /\ UNCHANGED <<UnderWay, Holders("tasks")>>
    BY <1>3 DEF TakeSlot,
       TypeOK, UnderWay, Holders, Holding, TaskSlot, At, Goto
  <2>2. writeTasks' = writeTasks + 1 /\ UNCHANGED <<queue, tasks>>
    BY <1>3 DEF TakeSlot, At
  <2>q. QED
    BY <2>1, <2>2, <1>s, Counting DEF PlacesAccounted
<1>4. CASE FreeSlot(r) /\ TaskSlot(r) = "tasks"
  <2>1. /\ Holders("tasks")' = Holders("tasks") \ {r} /\ r \in Holders("tasks")
        /\ UNCHANGED <<UnderWay, Holders("writeTasks")>>
    BY <1>4 DEF FreeSlot,
       TypeOK, UnderWay, Holders, Holding, TaskSlot, At, Goto
  <2>2. tasks' = tasks - 1 /\ UNCHANGED <<queue, writeTasks>>
    BY <1>4 DEF FreeSlot, At
  <2>q. QED
    BY <2>1, <2>2, <1>s, Counting DEF PlacesAccounted
<1>5. CASE FreeSlot(r) /\ TaskSlot(r) = "writeTasks"
  <2>1. /\ Holders("writeTasks")' = Holders("writeTasks") \ {r}
        /\ r \in Holders("writeTasks")
        /\ UNCHANGED <<UnderWay, Holders("tasks")>>
    BY <1>5 DEF FreeSlot,
       TypeOK, UnderWay, Holders, Holding, TaskSlot, At, Goto
  <2>2. writeTasks' = writeTasks - 1 /\ UNCHANGED <<queue, tasks>>
    BY <1>5 DEF FreeSlot, At
  <2>q. QED
    BY <2>1, <2>2, <1>s, Counting DEF PlacesAccounted
<1>6. CASE Leave(r)
  <2>1. /\ UnderWay' = UnderWay \ {r} /\ r \in UnderWay
        /\ UNCHANGED <<Holders("tasks"), Holders("writeTasks")>>
    BY <1>6 DEF Leave,
       TypeOK, UnderWay, Holders, Holding, TaskSlot, At, Goto
  <2>2. queue' = queue - 1 /\ UNCHANGED <<tasks, writeTasks>>
    BY <1>6 DEF Leave
  <2>q. QED
    BY <2>1, <2>2, <1>s, Counting DEF PlacesAccounted
<1>7. CASE WaitTimeout(r) \/ DropRequest(r)
  BY <1>7, PlacesKept DEF WaitTimeout, DropRequest, Dropped, TypeOK, UnderWay,
     Holders, Holding, TaskSlot, At, Goto
<1>8. CASE Lock(r) \/ RLock(r) \/ Start(r) \/ Unlock(r)
  BY <1>8, PlacesKept DEF Lock, RLock, Start, Unlock, TypeOK, UnderWay,
     Holders, Holding, TaskSlot, At, Goto
<1>9. CASE Finish(r) \/ Answer(r)
  BY <1>9, PlacesKept DEF Finish, Answer, TypeOK, UnderWay,
     Holders, Holding, TaskSlot, At, Goto
<1>10. CASE TimerExpires(r) \/ WatcherStep(r)
  BY <1>10, PlacesKept DEF TimerExpires, WatcherStep, WatcherFires, WatcherEnds,
     WatcherSends, TypeOK, UnderWay, Holders, Holding, TaskSlot, At, Goto
<1>11. TaskSlot(r) \in {"tasks", "writeTasks"}
  BY DEF TaskSlot
<1>q. QED
  BY <1>1, <1>2, <1>3, <1>4, <1>5, <1>6, <1>7, <1>8, <1>9, <1>10, <1>11
     DEF RequestStep, Step

-----------------------------------------------------------------------------
(* The lock *)

\* Lock and RLock are granted as an RWMutex grants them, and are held until the
\* deferred Unlock.
LEMMA RequestStepLock ==
    ASSUME TypeOK, LockOwners, LockHeld, NEW r \in Requests, RequestStep(r)
    PROVE  LockOwners' /\ LockHeld'
<1>0. USE RequestsAssumption
      DEF TypeOK, LockOwners, LockHeld, AtLock, Granted, At, Goto
<1>1. CASE \E m \in Mode : Receive(r, m)
  BY <1>1 DEF Receive, Free, lockVars
<1>2. CASE Leave(r)
  BY <1>2 DEF Leave, lockVars
<1>3. CASE TakeSlot(r) \/ FreeSlot(r)
  BY <1>3 DEF TakeSlot, FreeSlot, lockVars
<1>4. CASE WaitTimeout(r) \/ DropRequest(r)
  BY <1>4 DEF WaitTimeout, DropRequest, Dropped, lockVars
<1>5. CASE Lock(r)
  BY <1>5 DEF Lock
<1>6. CASE RLock(r)
  BY <1>6 DEF RLock
<1>7. CASE Start(r) \/ Finish(r) \/ Answer(r)
  BY <1>7 DEF Start, Finish, Answer, lockVars
<1>8. CASE Unlock(r)
  BY <1>8 DEF Unlock, WaitingReaders
<1>9. CASE TimerExpires(r) \/ WatcherStep(r)
  BY <1>9 DEF TimerExpires, WatcherStep, WatcherFires, WatcherEnds, WatcherSends,
     lockVars
<1>q. QED
  BY <1>1, <1>2, <1>3, <1>4, <1>5, <1>6, <1>7, <1>8, <1>9 DEF RequestStep, Step

-----------------------------------------------------------------------------
(* The invariant and the safety properties *)

\* Nothing is under way before the first stream, nor after a restart.
LEMMA NothingUnderWay ==
    ASSUME queue = 0, tasks = 0, writeTasks = 0, writer = "nobody", readers = {},
           pc = [r \in Requests |-> "idle"]
    PROVE  PlacesAccounted /\ LockOwners /\ LockHeld /\ NothingWhileOffline
<1>1. UnderWay = {} /\ Holders("tasks") = {} /\ Holders("writeTasks") = {}
  BY DEF UnderWay, Holders, Holding, At
<1>2. PlacesAccounted /\ NothingWhileOffline
  BY <1>1, FS_EmptySet DEF PlacesAccounted, NothingWhileOffline
<1>q. QED
  BY <1>2, RequestsAssumption DEF LockOwners, LockHeld, AtLock

\* wg.Wait keeps the listener until nothing is under way, so that Connect's new
\* channels and new lock lose nothing.
LEMMA LoopStepInv ==
    ASSUME ExecutorInv, Connect \/ LoopStep
    PROVE  PlacesAccounted' /\ LockOwners' /\ LockHeld' /\ NothingWhileOffline'
<1>0. TypeOK /\ PlacesAccounted /\ LockOwners /\ LockHeld /\ NothingWhileOffline
  BY DEF ExecutorInv
<1>1. CASE Connect
  <2>1. UnderWay = {} /\ UNCHANGED <<pc, mode, UnderWay>>
    BY <1>0, <1>1 DEF Connect, NothingWhileOffline, UnderWay, At
  <2>2. Holders("tasks")' = {} /\ Holders("writeTasks")' = {}
    BY <2>1 DEF Holders, Holding, UnderWay, At
  <2>3. PlacesAccounted' /\ NothingWhileOffline'
    BY <1>1, <2>1, <2>2, FS_EmptySet DEF Connect, PlacesAccounted, NothingWhileOffline
  <2>4. LockOwners' /\ LockHeld'
    BY <1>1, <2>1, RequestsAssumption
       DEF Connect, LockOwners, LockHeld, AtLock, UnderWay, At
  <2>q. QED
    BY <2>3, <2>4
<1>2. CASE LoopStep
  <2>1. UNCHANGED <<channelVars, lockVars, requestVars>>
    BY <1>2 DEF LoopStep, StreamBreaks, Shutdown, Refuse, InstantPing, ListenerStep,
       Reply, RecvFails, Drained
  <2>2. UNCHANGED <<UnderWay, Holders("tasks"), Holders("writeTasks")>>
    BY <2>1 DEF requestVars, UnderWay, Holders, Holding, TaskSlot, At
  <2>3. LockOwners' /\ LockHeld'
    BY <2>1, <1>0 DEF LockOwners, LockHeld, AtLock, Granted, lockVars, requestVars
  <2>4. ASSUME listener' = "offline" PROVE UnderWay = {}
    <3>1. listener = "offline" \/ queue = 0
      BY <1>2, <2>4 DEF LoopStep, StreamBreaks, Shutdown, Refuse, InstantPing,
         ListenerStep, Reply, RecvFails, Drained, AllDone
    <3>2. UnderWay \in SUBSET Requests
      BY DEF UnderWay
    <3>q. QED
      BY <1>0, <3>1, <3>2, RequestsAssumption, FS_Subset, FS_EmptySet
         DEF PlacesAccounted, NothingWhileOffline
  <2>5. NothingWhileOffline'
    BY <2>2, <2>4 DEF NothingWhileOffline
  <2>q. QED
    BY <1>0, <2>1, <2>2, <2>3, <2>5, PlacesKept
<1>q. QED
  BY <1>1, <1>2

\* A request's step happens only while the listener is there, and leaves it alone.
LEMMA RequestStepListener ==
    ASSUME TypeOK, NothingWhileOffline, NEW r \in Requests, RequestStep(r)
    PROVE  NothingWhileOffline'
<1>0. USE DEF TypeOK, NothingWhileOffline, UnderWay, At, Goto
<1>1. CASE (\E m \in Mode : Receive(r, m)) \/ Leave(r)
  BY <1>1 DEF Receive, Leave
<1>2. CASE TakeSlot(r) \/ FreeSlot(r)
  BY <1>2 DEF TakeSlot, FreeSlot
<1>3. CASE WaitTimeout(r) \/ DropRequest(r)
  BY <1>3 DEF WaitTimeout, DropRequest
<1>4. CASE Lock(r) \/ RLock(r) \/ Start(r) \/ Unlock(r)
  BY <1>4 DEF Lock, RLock, Start, Unlock
<1>5. CASE Finish(r) \/ Answer(r)
  BY <1>5 DEF Finish, Answer
<1>6. CASE TimerExpires(r) \/ WatcherStep(r)
  BY <1>6 DEF TimerExpires, WatcherStep, WatcherFires, WatcherEnds, WatcherSends
<1>q. QED
  BY <1>1, <1>2, <1>3, <1>4, <1>5, <1>6 DEF RequestStep, Step

\* The counters and the lock agree with where the goroutines are, in every
\* reachable state.
THEOREM ExecutorInvariant == Spec => []ExecutorInv
<1>1. Init => ExecutorInv
  <2>1. Init => TypeOK
    BY LimitsAssumption DEF Init, TypeOK, PC, Mode
  <2>q. QED
    BY <2>1, NothingUnderWay DEF Init, ExecutorInv
<1>2. TypeOK' /\ ExecutorInv /\ [Next]_vars => ExecutorInv'
  <2>0. SUFFICES ASSUME TypeOK', ExecutorInv, [Next]_vars PROVE ExecutorInv'
    OBVIOUS
  <2>1. CASE UNCHANGED vars
    BY <2>0, <2>1 DEF vars, channelVars, lockVars, requestVars, ExecutorInv,
       PlacesAccounted, LockOwners, LockHeld, NothingWhileOffline, AtLock, Granted,
       UnderWay, Holders, Holding, TaskSlot, At
  <2>2. CASE Connect \/ LoopStep
    BY <2>0, <2>2, LoopStepInv DEF ExecutorInv
  <2>3. CASE Quit
    <3>1. /\ UnderWay' = {} /\ Holders("tasks")' = {} /\ Holders("writeTasks")' = {}
          /\ queue' = 0 /\ tasks' = 0 /\ writeTasks' = 0
      BY <2>3 DEF Quit, UnderWay, Holders, Holding, At
    <3>2. PlacesAccounted' /\ NothingWhileOffline'
      BY <3>1, FS_EmptySet DEF PlacesAccounted, NothingWhileOffline
    <3>3. LockOwners' /\ LockHeld'
      BY <2>3, RequestsAssumption DEF Quit, LockOwners, LockHeld, AtLock
    <3>q. QED
      BY <2>0, <3>2, <3>3 DEF ExecutorInv
  <2>4. CASE \E r \in Requests : RequestStep(r)
    BY <2>0, <2>4, RequestStepPlaces, RequestStepLock, RequestStepListener
       DEF ExecutorInv
  <2>q. QED
    BY <2>0, <2>1, <2>2, <2>3, <2>4 DEF Next
<1>q. QED
  BY <1>1, <1>2, TypeCorrect, PTL DEF Spec

\* Nothing leaks: every place taken in a channel is some request's to give back.
THEOREM NothingLeaks == Spec => []PlacesAccounted
<1>1. ExecutorInv => PlacesAccounted
  BY DEF ExecutorInv
<1>q. QED
  BY <1>1, ExecutorInvariant, PTL

\* At most one request has the write slot.
LEMMA OneWriteSlot ==
    ASSUME ExecutorInv, NEW r \in Holders("writeTasks"), NEW s \in Holders("writeTasks")
    PROVE  r = s
<1>1. IsFiniteSet(Holders("writeTasks"))
  BY RequestsAssumption, FS_Subset DEF Holders
<1>2. Cardinality(Holders("writeTasks")) \in {0, 1}
  BY DEF ExecutorInv, TypeOK, PlacesAccounted
<1>q. QED
  BY <1>1, <1>2, FS_EmptySet, FS_Singleton

\* The counters and the lock keep incompatible tasks apart.
LEMMA InvModes ==
    ASSUME ExecutorInv PROVE ModesRespected
<1>1. SUFFICES ASSUME NEW r \in Running, NEW s \in Running, r # s
               PROVE  Tasks!Compatible(mode[r], mode[s])
  BY DEF ModesRespected
<1>2. /\ r \in Requests /\ s \in Requests /\ pc[r] = "run" /\ pc[s] = "run"
      /\ Granted(r) /\ Granted(s) /\ mode[r] \in Mode /\ mode[s] \in Mode
  BY DEF Running, At, ExecutorInv, TypeOK, LockHeld
<1>3. mode[r] # "exclusive" /\ mode[s] # "exclusive"
  BY <1>1, <1>2 DEF ExecutorInv, LockOwners, AtLock, Granted
<1>4. mode[r] = "none" \/ mode[s] = "none"
  <2>1. SUFFICES ASSUME mode[r] # "none", mode[s] # "none" PROVE FALSE
    OBVIOUS
  <2>2. r \in Holders("writeTasks") /\ s \in Holders("writeTasks")
    BY <1>2, <2>1 DEF Holders, Holding, TaskSlot
  <2>q. QED
    BY <1>1, <2>2, OneWriteSlot
<1>q. QED
  BY <1>2, <1>3, <1>4 DEF Tasks!Compatible, Mode

\* Exclusive tasks run alone and write tasks one at a time, over any number of
\* lost streams and restarts.
THEOREM ModesAreRespected == Spec => []ModesRespected
<1>1. ExecutorInv => ModesRespected
  BY InvModes
<1>q. QED
  BY <1>1, ExecutorInvariant, PTL

\* The node runs at most MaxConcurrentTasks ordinary tasks and one writer.
THEOREM LoadIsBounded == Spec => []LoadBounded
<1>1. ASSUME ExecutorInv PROVE LoadBounded
  <2>1. /\ IsFiniteSet(Holders("tasks")) /\ IsFiniteSet(Holders("writeTasks"))
    BY RequestsAssumption, FS_Subset DEF Holders
  <2>2. /\ Cardinality(Holders("tasks")) \in 0..MaxConcurrentTasks
        /\ Cardinality(Holders("writeTasks")) \in 0..1
    BY <1>1 DEF ExecutorInv, TypeOK, PlacesAccounted
  <2>3. Running \subseteq Holders("tasks") \cup Holders("writeTasks")
    BY DEF Running, Holders, Holding, TaskSlot, At
  <2>4. /\ IsFiniteSet(Holders("tasks") \cup Holders("writeTasks"))
        /\ Cardinality(Holders("tasks") \cup Holders("writeTasks"))
             = Cardinality(Holders("tasks")) + Cardinality(Holders("writeTasks"))
                 - Cardinality(Holders("tasks") \cap Holders("writeTasks"))
    BY <2>1, FS_Union
  <2>5. Cardinality(Holders("tasks") \cap Holders("writeTasks")) \in Nat
    BY <2>1, FS_Intersection, FS_CardinalityType
  <2>6. Cardinality(Running) <= Cardinality(Holders("tasks") \cup Holders("writeTasks"))
    BY <2>3, <2>4, FS_Subset
  <2>7. Cardinality(Running) \in Nat
    BY <2>3, <2>4, FS_Subset, FS_CardinalityType
  <2>q. QED
    BY <2>2, <2>4, <2>5, <2>6, <2>7, LimitsAssumption DEF LoadBounded
<1>q. QED
  BY <1>1, ExecutorInvariant, PTL

-----------------------------------------------------------------------------
(* The refinement of TaskLocks *)

\* A request's step starts its task, ends it, or is not seen by TaskLocks.
LEMMA RequestStepTasks ==
    ASSUME ExecutorInv, ModesRespected', NEW r \in Requests, RequestStep(r)
    PROVE  Tasks!Next \/ UNCHANGED RunningModes
<1>0. TypeOK
  BY DEF ExecutorInv
<1>1. CASE Start(r)
  <2>1. /\ pc[r] = "locking" /\ pc' = [pc EXCEPT ![r] = "run"] /\ mode' = mode
        /\ mode[r] \in Mode /\ mode[r] # "no"
    BY <1>0, <1>1 DEF Start, TypeOK, At, Goto, Mode
  <2>2. RunningModes' = [RunningModes EXCEPT ![r] = mode[r]]
    BY <1>0, <2>1 DEF RunningModes, TypeOK
  <2>3. RunningModes[r] = "no"
    BY <2>1 DEF RunningModes
  <2>4. ASSUME NEW s \in Requests, RunningModes[s] # "no"
        PROVE  Tasks!Compatible(mode[r], RunningModes[s])
    <3>1. pc[s] = "run" /\ s # r /\ RunningModes[s] = mode[s]
      BY <2>3, <2>4 DEF RunningModes
    <3>2. r \in Running' /\ s \in Running'
      BY <1>0, <2>1, <3>1 DEF Running, At, TypeOK
    <3>q. QED
      BY <2>1, <3>1, <3>2 DEF ModesRespected, Tasks!Compatible
  <2>5. mode[r] \in Tasks!Mode
    BY <2>1 DEF Mode, Tasks!Mode
  <2>q. QED
    BY <2>2, <2>3, <2>4, <2>5 DEF Tasks!Next, Tasks!Start
<1>2. CASE Finish(r)
  <2>1. pc[r] = "run" /\ pc' = [pc EXCEPT ![r] = "answer"] /\ mode' = mode
    BY <1>2 DEF Finish, At, Goto
  <2>2. RunningModes' = [RunningModes EXCEPT ![r] = "no"] /\ RunningModes[r] # "no"
    BY <1>0, <2>1 DEF RunningModes, TypeOK, Mode
  <2>q. QED
    BY <2>2 DEF Tasks!Next, Tasks!End
<1>3. CASE (\E m \in Mode : Receive(r, m)) \/ Leave(r)
  BY <1>0, <1>3 DEF Receive, Free, Leave, TypeOK, At, Goto, RunningModes
<1>4. CASE TakeSlot(r) \/ FreeSlot(r)
  BY <1>0, <1>4 DEF TakeSlot, FreeSlot, TypeOK, At, Goto, RunningModes
<1>5. CASE WaitTimeout(r) \/ DropRequest(r)
  BY <1>0, <1>5 DEF WaitTimeout, DropRequest, Dropped, TypeOK, At, Goto, RunningModes
<1>6. CASE Lock(r) \/ RLock(r) \/ Unlock(r)
  BY <1>0, <1>6 DEF Lock, RLock, Unlock, TypeOK, At, Goto, RunningModes
<1>7. CASE Answer(r)
  BY <1>0, <1>7 DEF Answer, TypeOK, At, Goto, RunningModes
<1>8. CASE TimerExpires(r) \/ WatcherStep(r)
  BY <1>8 DEF TimerExpires, WatcherStep, WatcherFires, WatcherEnds, WatcherSends,
     RunningModes
<1>q. QED
  BY <1>1, <1>2, <1>3, <1>4, <1>5, <1>6, <1>7, <1>8 DEF RequestStep, Step

\* The executor implements the promise of the lock modes: a task starts only beside
\* compatible ones, whatever happened to the streams before.
THEOREM Refinement == Spec => ImplementsTaskLocks
<1>1. Init => Tasks!Init
  BY DEF Init, Tasks!Init, RunningModes
<1>2. ExecutorInv /\ ModesRespected' /\ [Next]_vars => [Tasks!Next]_RunningModes
  <2>0. SUFFICES ASSUME ExecutorInv, ModesRespected', [Next]_vars
                 PROVE  Tasks!Next \/ UNCHANGED RunningModes
    OBVIOUS
  <2>1. CASE UNCHANGED vars
    BY <2>1 DEF vars, requestVars, RunningModes
  <2>2. CASE Connect \/ LoopStep
    BY <2>2 DEF Connect, LoopStep, StreamBreaks, Shutdown, Refuse, InstantPing,
       ListenerStep, Reply, RecvFails, Drained, requestVars, RunningModes
  <2>3. CASE Quit
    <3>1. RunningModes' = [r \in Requests |-> "no"]
      BY <2>3 DEF Quit, RunningModes
    <3>q. QED
      BY <3>1 DEF Tasks!Next, Tasks!Stop
  <2>4. CASE \E r \in Requests : RequestStep(r)
    BY <2>0, <2>4, RequestStepTasks
  <2>q. QED
    BY <2>0, <2>1, <2>2, <2>3, <2>4 DEF Next
<1>q. QED
  BY <1>1, <1>2, ExecutorInvariant, ModesAreRespected, PTL
     DEF Spec, ImplementsTaskLocks, Tasks!Spec
=============================================================================
