------------------------------ MODULE JobStore ------------------------------
(***************************************************************************)
(* The manager's job database: the requests the forwarder records, the     *)
(* results the ExecTask handlers record, the groups that tie the results   *)
(* of one request together, their expiry, and the listing of results.      *)
(* Requests and results have the same TTL, and a write may fail, which is  *)
(* only logged.                                                            *)
(*                                                                         *)
(* A request of call c is recorded under c's group ID; the result of task  *)
(* t = <<c, n>>, what node n answers to call c, under t's ID.  The IDs are  *)
(* UnixNano readings; IdOrders are the orders in which they may be drawn.  *)
(***************************************************************************)
EXTENDS Naturals, FiniteSets, SequencesExt

CONSTANTS
    Calls,      \* calls to the forwarder, each with a group
    Collector,  \* the specs collector, which asks without a group
    Nodes,
    IdOrders,   \* set of [Calls \cup Tasks -> Nat]: what the IDs may be
    None,       \* no entry, no TTL
    PageLimit,  \* ResultsPageLimit, also the default limit
    MaxFailures \* bound on the writes that fail

Tasks == (Calls \cup {Collector}) \X Nodes
CallOf(t) == t[1]
NodeOf(t) == t[2]

\* IDs are distinct, and a group's ID is drawn before those of its tasks.
ASSUME CollectorAssumption == Collector \notin Calls
ASSUME KeysAssumption == Calls \cap Tasks = {}
ASSUME IdAssumption == \A id \in IdOrders :
    /\ id \in [Calls \cup Tasks -> Nat \ {0}]
    /\ \A i, j \in Calls \cup Tasks : id[i] = id[j] => i = j
    /\ \A t \in Tasks : CallOf(t) \in Calls => id[CallOf(t)] < id[t]
ASSUME PageAssumption == PageLimit \in Nat \ {0}
ASSUME FailuresAssumption == MaxFailures \in Nat
ASSUME FiniteAssumption == IsFiniteSet(Calls) /\ IsFiniteSet(Nodes)

VARIABLES
    requests,   \* [Calls]: None, or the targets recorded with the request
    results,    \* [Tasks]: None, "gone", or the kind of the recorded answer
    groups,     \* [Calls]: None, or the members and the TTL of the entry
    order,      \* the keys of what is kept, requests and results, oldest first
    unrecorded  \* the keys of what could not be written, which is only logged

storeVars == <<requests, results, groups, order, unrecorded>>

GroupEntries == [members : Seq(Tasks), ttl : Tasks \cup {None}]
RequestEntries == [connected : SUBSET Nodes, disconnected : SUBSET Nodes]

ASSUME EntriesAssumption == None \notin GroupEntries /\ None \notin RequestEntries

StoreInit ==
    /\ requests = [c \in Calls |-> None]
    /\ results = [t \in Tasks |-> None]
    /\ groups = [c \in Calls |-> None]
    /\ order = <<>> /\ unrecorded = {}

-----------------------------------------------------------------------------
(* Writing.                                                                  *)

\* A transaction fails, and nothing of it is written.
FailToWrite(key) ==
    /\ Cardinality(unrecorded) < MaxFailures
    /\ unrecorded' = unrecorded \cup {key}
    /\ UNCHANGED <<requests, results, groups, order>>

WriteRequest(c, targets) ==
    /\ requests' = [requests EXCEPT ![c] =
            [connected |-> {n \in DOMAIN targets : targets[n]},
             disconnected |-> {n \in DOMAIN targets : ~targets[n]}]]
    /\ order' = Append(order, c)
    /\ UNCHANGED <<results, groups, unrecorded>>

\* storeRequest: the targets, split by whether they are connected, under the ID that
\* the call has just drawn.  Its caller does not learn whether it failed.
StoreRequest(c, targets) == WriteRequest(c, targets) \/ FailToWrite(c)

\* fault: the group's entry keeps the TTL of its first result.
GroupKeepsTTL(old, t) ==
    IF old = None
    THEN [members |-> <<t>>, ttl |-> t]
    ELSE [old EXCEPT !.members = Append(@, t)]

\* The group's entry is created with a TTL and updated without one.
GroupWith(old, t) ==
    IF old = None
    THEN [members |-> <<t>>, ttl |-> t]
    ELSE [members |-> Append(old.members, t), ttl |-> None]

\* The key of a result leaves its place before it is written anew.
Without(keys, key) ==
    IF \E i \in DOMAIN keys : keys[i] = key
    THEN RemoveAt(keys, CHOOSE i \in DOMAIN keys : keys[i] = key)
    ELSE keys

\* The result, and the group it belongs to, in one transaction.  A result that is
\* there already is replaced, and its TTL starts anew.
WriteResult(t, kind) ==
    /\ results' = [results EXCEPT ![t] = kind]
    /\ order' = Append(Without(order, t), t)
    /\ groups' = IF CallOf(t) \in Calls
                 THEN [groups EXCEPT ![CallOf(t)] = GroupWith(@, t)]
                 ELSE groups
    /\ UNCHANGED <<requests, unrecorded>>

\* storeResult, one at a time under dbMutex; the responder does not learn whether it
\* failed.
StoreResult(t, kind) == WriteResult(t, kind) \/ FailToWrite(t)

\* The TTL of the oldest request or result ends, and that of a group created with it.
ExpireOldest ==
    LET key == Head(order)
    IN  /\ order # <<>>
        /\ requests' = [c \in Calls |-> IF c = key THEN None ELSE requests[c]]
        /\ results' = [t \in Tasks |-> IF t = key THEN "gone" ELSE results[t]]
        /\ groups' = [c \in Calls |->
                IF groups[c] # None /\ groups[c].ttl = key THEN None ELSE groups[c]]
        /\ order' = Tail(order)
        /\ UNCHANGED unrecorded

-----------------------------------------------------------------------------
(* Reading.  A listing is a sequence of keys, a task's or a group's.         *)

Kept(t) == results[t] \notin {None, "gone"}

\* GetResults: whether there is an entry under the key.
Stored(key) == IF key \in Calls THEN groups[key] # None ELSE Kept(key)

\* GetRequest: the calls recorded under the ID.
Recorded(id, requestID) == {c \in Calls : requests[c] # None /\ id[c] = requestID}

\* `jack results get` of a key: a group is followed to its members, and one that is
\* gone ends the command.
Shown(key) ==
    IF key \in Tasks THEN {<<t>> : t \in {u \in {key} : Kept(u)}}
    ELSE {g.members : g \in {h \in {groups[key]} \ {None} :
                                \A i \in DOMAIN h.members : Kept(h.members[i])}}

\* fault: the result's own ID comes first.
OwnRequestID(id, key) == id[key]

\* The ID a result's request would be recorded under: its group's, or its own.
RequestIDOf(id, key) ==
    IF key \in Calls THEN id[key]
    ELSE IF CallOf(key) \in Calls THEN id[CallOf(key)] ELSE id[key]

\* What it shows as the request of the key: nothing when it has expired, or was never
\* written.
ShownRequest(id, key) ==
    IF Stored(key) THEN Recorded(id, RequestIDOf(id, key)) ELSE {}

\* The keys of the results' prefix, newest first.
ResultKeys(id) ==
    LET keys == {k \in Tasks \cup Calls : Stored(k)}
        Newer(k) == {j \in keys : id[j] > id[k]}
    IN  [i \in 1..Cardinality(keys) |->
            CHOOSE k \in keys : Cardinality(Newer(k)) = i - 1]

\* req: the date bounds and the limit are 0 when absent; no targets, no filter.
InDates(id, req, key) ==
    /\ req.to = 0 \/ id[key] <= req.to
    /\ req.from = 0 \/ id[key] >= req.from

OnTargets(req, key) ==
    req.targets # {} => key \in Tasks /\ NodeOf(key) \in req.targets

PageSize(req) ==
    IF req.limit = 0 THEN PageLimit
    ELSE IF req.limit < PageLimit THEN req.limit ELSE PageLimit

\* fault: the offset also counts the results of other nodes.
PageSkipsAll(id, req) ==
    LET keys == ResultKeys(id)
        visit[i \in 0..Len(keys)] ==
            IF i = 0 THEN [page |-> <<>>, skipped |-> 0]
            ELSE LET acc == visit[i - 1]
                     key == keys[i]
                 IN  IF Len(acc.page) >= PageSize(req) \/ ~InDates(id, req, key)
                     THEN acc
                     ELSE IF acc.skipped < req.offset
                     THEN [acc EXCEPT !.skipped = @ + 1]
                     ELSE IF ~OnTargets(req, key) THEN acc
                     ELSE [acc EXCEPT !.page = Append(@, key)]
    IN  visit[Len(keys)].page

\* ListResults visits the keys newest first: filter, skip the offset, stop at the
\* limit.
ListResults(id, req) ==
    LET keys == ResultKeys(id)
        visit[i \in 0..Len(keys)] ==
            IF i = 0 THEN [page |-> <<>>, skipped |-> 0]
            ELSE LET acc == visit[i - 1]
                     key == keys[i]
                 IN  IF \/ Len(acc.page) >= PageSize(req)
                        \/ ~InDates(id, req, key)
                        \/ ~OnTargets(req, key)
                     THEN acc
                     ELSE IF acc.skipped < req.offset
                     THEN [acc EXCEPT !.skipped = @ + 1]
                     ELSE [acc EXCEPT !.page = Append(@, key)]
    IN  visit[Len(keys)].page

\* `jack results list` asks for no more than a page, and does not ask when its dates
\* are the wrong way round.
AsksForList(flags) == flags.from = 0 \/ flags.to = 0 \/ flags.from <= flags.to
ListRequest(flags) ==
    [flags EXCEPT !.limit = IF @ > PageLimit THEN PageLimit ELSE @]
=============================================================================
