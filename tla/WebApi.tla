-------------------------------- MODULE WebApi --------------------------------
(***************************************************************************)
(* What the HTTP API lets through, and which call it becomes: basic        *)
(* authentication against the htpasswd file, then the roles and            *)
(* permissions of authorization.yaml, then the routes of the gateway to    *)
(* the manager's gRPC services.                                            *)
(*                                                                         *)
(* A line, a path, a task's name and a permission are sequences of their   *)
(* parts, as the code splits them: at ':' at most once, at '/', at the     *)
(* plugin separator, and at '.' at most once.                              *)
(***************************************************************************)
EXTENDS Naturals, Sequences

CONSTANTS
    Htpasswd,       \* the lines of the htpasswd file
    RolesOf,        \* the roles of each user that is configured
    Permissions     \* [endpoints, tasks] of each role that is configured

-----------------------------------------------------------------------------
(* Authentication *)

\* Lines without a separator are skipped.
WellFormed(lines) == {i \in DOMAIN lines : Len(lines[i]) = 2}

\* The last line of a user counts.
Creds ==
    LET users == {Htpasswd[i][1] : i \in WellFormed(Htpasswd)}
        lineOf(u) == CHOOSE i \in WellFormed(Htpasswd) :
                        /\ Htpasswd[i][1] = u
                        /\ \A j \in WellFormed(Htpasswd) :
                                Htpasswd[j][1] = u => j <= i
    IN  [u \in users |-> Htpasswd[lineOf(u)][2]]

\* basicAuthMiddleware; an empty password lets nobody in.
Authenticated(user, password) ==
    user \in DOMAIN Creds /\ Creds[user] # "" /\ Creds[user] = password

-----------------------------------------------------------------------------
(* Authorisation *)

Match(p, resource, action) ==
    p[1] \in {resource, "*"} /\ p[2] \in {action, "*"}

\* Roles that are not configured grant nothing, and permissions that are not of
\* the form resource.action are left out when the file is loaded.
GrantedTo(user, kind) ==
    UNION {{p \in Permissions[role][kind] : Len(p) = 2}
           : role \in RolesOf[user] \cap DOMAIN Permissions}

\* canAccessEndpoint and canAccessTask
CanAccess(user, kind, resource, action) ==
    /\ user \in DOMAIN RolesOf
    /\ \E p \in GrantedTo(user, kind) : Match(p, resource, action)

Verdict(allowed) == IF allowed THEN "forwarded" ELSE "forbidden"

\* A task is judged by the first two parts of its name.
HandleTask(user, task) ==
    IF Len(task) < 2 THEN "bad request"
    ELSE Verdict(CanAccess(user, "tasks", task[1], task[2]))

HandleEndpoint(user, endpoint) ==
    Verdict(CanAccess(user, "endpoints", endpoint[1], endpoint[2]))

\* What the authoriser judges: the path after "/v1/", or all of a path that does
\* not start so, with nothing before its first slash.
Endpoint(path) ==
    IF Len(path) > 1 /\ path[1] = "v1" THEN Tail(path) ELSE <<"">> \o path

\* The two handlers in front of the gateway.
Handle(user, password, path, task) ==
    LET endpoint == Endpoint(path)
    IN  IF ~Authenticated(user, password) \/ user = "" THEN "unauthorized"
        ELSE IF Len(endpoint) < 2 THEN "bad request"
        ELSE IF endpoint[1] = "task" /\ endpoint[2] = "exec"
        THEN HandleTask(user, task)
        ELSE HandleEndpoint(user, endpoint)

-----------------------------------------------------------------------------
(* The gateway *)

Route(method, resource, action, rpc) ==
    [method |-> method, path |-> <<"v1", resource, action>>, rpc |-> rpc]

ApiRoutes ==
    {Route("GET", "nodes", "list", "ListNodes"),
     Route("POST", "nodes", "accept", "AcceptNode"),
     Route("DELETE", "nodes", "remove", "RemoveNode"),
     Route("POST", "nodes", "reject", "RejectNode"),
     Route("GET", "results", "result", "GetResults"),
     Route("GET", "results", "list", "ListResults"),
     Route("GET", "results", "request", "GetRequest")}

ForwarderRoutes == {Route("POST", "task", "exec", "ExecTask")}

\* A path and a method are those of at most one route.
Matching(method, path) ==
    {r \in ApiRoutes \cup ForwarderRoutes : r.method = method /\ r.path = path}

\* The calls a request makes: one, or none when it is refused or leads nowhere.
\* http is [user, password, method, path].
Proxied(http, task) ==
    IF Handle(http.user, http.password, http.path, task) = "forwarded"
    THEN {r.rpc : r \in Matching(http.method, http.path)}
    ELSE {}
=============================================================================
