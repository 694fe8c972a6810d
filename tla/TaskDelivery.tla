----------------------------- MODULE TaskDelivery -----------------------------
(***************************************************************************)
(* What the manager promises of the tasks its callers hand over, whatever  *)
(* streams, timers, failed writes and expiry do: a task is delivered at    *)
(* most once, its answer is recorded or lost, once and only after          *)
(* delivery, and its caller is told one thing, once, that agrees with both.*)
(***************************************************************************)
CONSTANTS
    Tasks,
    Refusals,   \* what is told of a task that was not, and will not be, delivered
    Timeout,    \* what is told when nothing came in time
    Notice,     \* the node's word that the task has not ended in time
    Answer,     \* the node's answer
    None

VARIABLES
    asked,      \* tasks of the calls made
    delivered,  \* tasks that were sent to their node
    recorded,   \* tasks whose answer was recorded, expired ones included
    lost,       \* tasks whose answer could not be recorded
    told        \* [Tasks]: what the caller was told, or None

Init ==
    /\ asked = {} /\ delivered = {} /\ recorded = {} /\ lost = {}
    /\ told = [t \in Tasks |-> None]

\* A call asks for several tasks, some of which are refused at once.
Ask(new) ==
    /\ asked' = asked \cup new
    /\ \E refused \in SUBSET new : \E why \in Refusals :
            told' = [t \in Tasks |-> IF t \in refused THEN why ELSE told[t]]
    /\ UNCHANGED <<delivered, recorded, lost>>

\* Only a caller that was told that nothing came in time may have its task delivered
\* after that.
Deliver(t) ==
    /\ t \in asked \ delivered /\ told[t] \in {None, Timeout}
    /\ delivered' = delivered \cup {t}
    /\ UNCHANGED <<asked, recorded, lost, told>>

Unrecorded(t) == t \in delivered \ (recorded \cup lost)

\* An answer may be recorded after its caller gave up.
Record(t) ==
    /\ Unrecorded(t)
    /\ recorded' = recorded \cup {t}
    /\ UNCHANGED <<asked, delivered, lost, told>>

Lose(t) ==
    /\ Unrecorded(t)
    /\ lost' = lost \cup {t}
    /\ UNCHANGED <<asked, delivered, recorded, told>>

Agrees(t, report) ==
    \/ report \in Refusals /\ t \notin delivered
    \/ report = Timeout
    \/ report = Notice /\ t \in delivered
    \/ report = Answer /\ t \in recorded \cup lost

Tell(t, report) ==
    /\ t \in asked /\ told[t] = None /\ Agrees(t, report)
    /\ told' = [told EXCEPT ![t] = report]
    /\ UNCHANGED <<asked, delivered, recorded, lost>>

Next ==
    \/ \E new \in SUBSET (Tasks \ asked) : Ask(new)
    \/ \E t \in Tasks :
            \/ Deliver(t) \/ Record(t) \/ Lose(t)
            \/ \E report \in Refusals \cup {Timeout, Notice, Answer} : Tell(t, report)

Spec == Init /\ [][Next]_<<asked, delivered, recorded, lost, told>>
=============================================================================
