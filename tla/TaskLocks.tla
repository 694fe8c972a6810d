------------------------------ MODULE TaskLocks ------------------------------
(***************************************************************************)
(* What the lock modes of a task promise (src/sdk/task.go, LockMode): a    *)
(* "none" task runs without restriction, one "write" task runs at a time   *)
(* beside any number of "none" tasks, and an "exclusive" task runs alone.  *)
(* The node's executor, NodeExecutor, implements this over reconnections   *)
(* and restarts.                                                           *)
(***************************************************************************)
CONSTANT Requests

VARIABLE running    \* [Requests]: lock mode of the task under way, or "no"

Mode == {"none", "write", "exclusive"}

Init == running = [r \in Requests |-> "no"]

\* Tasks of modes m and k may run side by side.
Compatible(m, k) == "exclusive" \notin {m, k} /\ "none" \in {m, k}

Start(r, m) ==
    /\ running[r] = "no"
    /\ \A s \in Requests : running[s] # "no" => Compatible(m, running[s])
    /\ running' = [running EXCEPT ![r] = m]

End(r) ==
    /\ running[r] # "no"
    /\ running' = [running EXCEPT ![r] = "no"]

\* The process ends, and every task with it.
Stop == running' = [r \in Requests |-> "no"]

Next ==
    \/ \E r \in Requests : End(r) \/ \E m \in Mode : Start(r, m)
    \/ Stop

Spec == Init /\ [][Next]_running
=============================================================================
