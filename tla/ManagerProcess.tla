--------------------------- MODULE ManagerProcess ---------------------------
(***************************************************************************)
(* The manager's process: how run starts its servers one after the other,  *)
(* waits for a signal or for one of them to stop, and goes down through    *)
(* its deferred calls; and what a supervisor that starts it again on       *)
(* failure makes of it.                                                    *)
(*                                                                         *)
(*   cluster   the gRPC server of the nodes                                *)
(*   plugin    the HTTP server of plugin files                             *)
(*   relay     the gRPC server behind the command line's socket            *)
(*   api       the HTTP proxy in front of the relay                        *)
(*                                                                         *)
(* The socket file outlives a process that does not close it.  run's err   *)
(* is shared with the goroutines of two servers, which write it when their *)
(* server stops.                                                           *)
(***************************************************************************)
EXTENDS Naturals

CONSTANTS
    ApiEnabled,     \* api.enabled of the configuration
    MaxFailures     \* bound on the failures of the environment

ASSUME ConfigAssumption == ApiEnabled \in BOOLEAN /\ MaxFailures \in Nat

VARIABLES
    at,         \* where run is
    code,       \* how the process ends, or ended
    server,     \* [Servers]: "off", "serving", or "failed" when it stopped by itself
    db,         \* the database is open
    ctx,        \* the context is live
    socket,     \* the socket file: "none", "ours", "left" by a process that could not
                \* close it, or "stray": left by one that could
    err,        \* run's variable err holds an error
    closeCh,    \* notices in closeCh
    signalled,  \* a signal is in sigCh
    download,   \* a node downloads a plugin
    failures    \* failures so far

vars == <<at, code, server, db, ctx, socket, err, closeCh, signalled, download,
          failures>>
resources == <<db, ctx, socket>>

Servers == {"cluster", "plugin", "relay", "api"}

Starting == {"openDb", "listen", "servePlugins", "listenCli", "checkCli", "serve"}
Stopping == {"shutdown", "drain", "closeCli", "stopRelay", "closeCluster", "cancel",
             "closeDb", "exit"}

TypeOK ==
    /\ at \in {"down", "wait"} \cup Starting \cup Stopping
    /\ code \in {"none", "ok", "error", "killed"}
    /\ server \in [Servers -> {"off", "serving", "failed"}]
    /\ db \in BOOLEAN /\ ctx \in BOOLEAN /\ err \in BOOLEAN
    /\ socket \in {"none", "ours", "left", "stray"}
    /\ closeCh \in Nat
    /\ signalled \in BOOLEAN /\ download \in BOOLEAN
    /\ failures \in 0..MaxFailures

AllOff == [s \in Servers |-> "off"]

Init ==
    /\ at = "down" /\ code = "none" /\ server = AllOff
    /\ db = FALSE /\ ctx = FALSE /\ socket = "none" /\ err = FALSE
    /\ closeCh = 0 /\ signalled = FALSE /\ download = FALSE /\ failures = 0

-----------------------------------------------------------------------------
(* Starting *)

\* main, started by an operator or by the service manager.
Launch ==
    /\ at = "down"
    /\ at' = "openDb" /\ code' = "none"
    /\ UNCHANGED <<server, resources, err, closeCh, signalled, download, failures>>

\* Restart=on-failure: not after a process that returned without an error.
Supervise == code \in {"error", "killed"} /\ Launch

\* Something outside fails: a file, a port, a certificate.
Fails == failures < MaxFailures /\ failures' = failures + 1

\* run returns an error, through the deferred calls it has by then.
ReturnsError(deferred) == at' = deferred /\ code' = "error"

\* badger.Open, the context, LoadRegistry, the dispatcher.
OpenDb ==
    /\ at = "openDb"
    /\ \/ /\ at' = "listen" /\ db' = TRUE /\ ctx' = TRUE
          /\ UNCHANGED <<code, failures>>
       \/ Fails /\ ReturnsError("exit") /\ UNCHANGED <<db, ctx>>
    /\ UNCHANGED <<server, socket, err, closeCh, signalled, download>>

\* newManager listens and reads the certificates; Serve and the specs collector run
\* in goroutines.
Listen ==
    /\ at = "listen"
    /\ \/ /\ at' = "servePlugins" /\ server' = [server EXCEPT !["cluster"] = "serving"]
          /\ UNCHANGED <<code, failures>>
       \/ Fails /\ ReturnsError("cancel") /\ UNCHANGED server
    /\ UNCHANGED <<resources, err, closeCh, signalled, download>>

\* The file server's goroutine.
ServePlugins ==
    /\ at = "servePlugins" /\ at' = "listenCli"
    /\ server' = [server EXCEPT !["plugin"] = "serving"]
    /\ UNCHANGED <<code, resources, err, closeCh, signalled, download, failures>>

\* fault: the listener that could not be secured stays open
Unsecured == "stray"
\* closeFunc() before the error: "to avoid users forgetting to do so".
Closed == "none"

\* NewCLIListener: a socket file that is there already cannot be listened on; one
\* that cannot be made, or not be secured, is not there afterwards.
ListenCli ==
    /\ at = "listenCli" /\ at' = "checkCli"
    /\ \/ socket # "none" /\ err' = TRUE /\ UNCHANGED <<socket, failures>>
       \/ socket = "none" /\ socket' = "ours" /\ err' = FALSE /\ UNCHANGED failures
       \/ socket = "none" /\ Fails /\ socket' = Closed /\ err' = TRUE
    /\ UNCHANGED <<code, server, db, ctx, closeCh, signalled, download>>

\* if err != nil: also when it is the file server's error by now.  The listener is
\* then not closed, and its file left.
CheckCli ==
    /\ at = "checkCli"
    /\ \/ /\ err
          /\ ReturnsError("stopRelay")
          /\ socket' = IF socket = "ours" THEN "left" ELSE socket
       \/ ~err /\ at' = "serve" /\ UNCHANGED <<code, socket>>
    /\ UNCHANGED <<server, db, ctx, err, closeCh, signalled, download, failures>>

\* The goroutines of the relay and, if enabled, of the HTTP proxy.
Serve ==
    /\ at = "serve" /\ at' = "wait"
    /\ server' = [s \in Servers |->
                    IF s = "relay" \/ (s = "api" /\ ApiEnabled) THEN "serving"
                    ELSE server[s]]
    /\ UNCHANGED <<code, resources, err, closeCh, signalled, download, failures>>

-----------------------------------------------------------------------------
(* While it runs *)

\* Each goroutine sends a notice when its server stops; closeCh has room for all.
\* (Those of the servers run stops itself come after its select: nobody reads them.)
\* fault: one server stops without a notice
Quiet(s) == s = "plugin"
Unnoticed(s) == FALSE
Notice(s) == closeCh' = IF Unnoticed(s) THEN closeCh ELSE closeCh + 1

\* A server cannot listen or serve, or the proxy cannot read its configuration.
ServerFails(s) ==
    /\ at # "down" /\ server[s] = "serving" /\ Fails
    /\ server' = [server EXCEPT ![s] = "failed"]
    /\ Notice(s)
    /\ err' = (err \/ s \in {"plugin", "relay"})
    /\ UNCHANGED <<at, code, resources, signalled, download>>

\* sigCh holds one signal.
Signal ==
    /\ at # "down" /\ ~signalled
    /\ signalled' = TRUE
    /\ UNCHANGED <<at, code, server, resources, err, closeCh, download, failures>>

DownloadStarts ==
    /\ server["plugin"] = "serving" /\ ~download
    /\ download' = TRUE
    /\ UNCHANGED <<at, code, server, resources, err, closeCh, signalled, failures>>

DownloadEnds ==
    /\ download
    /\ download' = FALSE
    /\ UNCHANGED <<at, code, server, resources, err, closeCh, signalled, failures>>

\* Nothing but the socket file is left of a process.
Dies ==
    /\ at' = "down" /\ server' = AllOff
    /\ db' = FALSE /\ ctx' = FALSE /\ err' = FALSE
    /\ closeCh' = 0 /\ signalled' = FALSE /\ download' = FALSE

\* SIGKILL, or a panic, at any point.
Kill ==
    /\ at # "down" /\ Fails
    /\ code' = "killed"
    /\ socket' = IF socket = "ours" THEN "left" ELSE socket
    /\ Dies

\* A reboot, or an operator, clears /run.
ClearRun ==
    /\ at = "down" /\ socket # "none"
    /\ socket' = "none"
    /\ UNCHANGED <<at, code, server, db, ctx, err, closeCh, signalled, download,
                   failures>>

-----------------------------------------------------------------------------
(* Stopping *)

\* The last select of run.
Wait ==
    /\ at = "wait" /\ at' = "shutdown"
    /\ \/ closeCh > 0 /\ closeCh' = closeCh - 1 /\ UNCHANGED signalled
       \/ signalled /\ signalled' = FALSE /\ UNCHANGED closeCh
    /\ UNCHANGED <<code, server, resources, err, download, failures>>

\* httpServer.Shutdown: no new connection, ...
Shutdown ==
    /\ at = "shutdown" /\ at' = "drain"
    /\ server' = [server EXCEPT !["plugin"] = "off"]
    /\ UNCHANGED <<code, resources, err, closeCh, signalled, download, failures>>

\* ... and it waits for those there are, with no limit.  Then run returns nil.
Drain ==
    /\ at = "drain" /\ ~download
    /\ at' = "closeCli" /\ code' = "ok"
    /\ UNCHANGED <<server, resources, err, closeCh, signalled, download, failures>>

\* fault: the database is closed before the servers
DatabaseFirst ==
    [closeCli |-> "closeDb", closeDb |-> "stopRelay", stopRelay |-> "closeCluster",
     closeCluster |-> "cancel", cancel |-> "exit"]
\* The deferred calls, last one first.
Deferred ==
    [closeCli |-> "stopRelay", stopRelay |-> "closeCluster", closeCluster |-> "cancel",
     cancel |-> "closeDb", closeDb |-> "exit"]

Runs(step) == at = step /\ at' = Deferred[step]
Stops(s) == server' = [server EXCEPT ![s] = "off"]

CloseCli ==
    /\ Runs("closeCli")
    /\ socket' = Closed
    /\ UNCHANGED <<code, server, db, ctx, err, closeCh, signalled, download, failures>>

StopRelay ==
    /\ Runs("stopRelay") /\ Stops("relay")
    /\ UNCHANGED <<code, resources, err, closeCh, signalled, download, failures>>

CloseCluster ==
    /\ Runs("closeCluster") /\ Stops("cluster")
    /\ UNCHANGED <<code, resources, err, closeCh, signalled, download, failures>>

\* cancel: dbGC and the specs collector end, and the proxy's goroutine shuts it down.
Cancel ==
    /\ Runs("cancel")
    /\ ctx' = FALSE
    /\ UNCHANGED <<code, server, db, socket, err, closeCh, signalled, download,
                   failures>>

ApiStops ==
    /\ ~ctx /\ server["api"] = "serving" /\ Stops("api")
    /\ UNCHANGED <<at, code, resources, err, closeCh, signalled, download, failures>>

CloseDb ==
    /\ Runs("closeDb")
    /\ db' = FALSE
    /\ UNCHANGED <<code, server, ctx, socket, err, closeCh, signalled, download,
                   failures>>

\* os.Exit(1), or main returns.
Exit ==
    /\ at = "exit" /\ Dies
    /\ UNCHANGED <<code, socket, failures>>

-----------------------------------------------------------------------------
RunStep ==
    \/ OpenDb \/ Listen \/ ServePlugins \/ ListenCli \/ CheckCli \/ Serve
    \/ Wait \/ Shutdown \/ Drain
    \/ CloseCli \/ StopRelay \/ CloseCluster \/ Cancel \/ CloseDb \/ Exit

Next ==
    \/ Launch \/ RunStep \/ ApiStops
    \/ \E s \in Servers : ServerFails(s)
    \/ Signal \/ DownloadStarts \/ DownloadEnds \/ Kill \/ ClearRun

Spec == Init /\ [][Next]_vars

\* run goes on, the service manager starts what failed, and downloads end: the code
\* has no limit of its own for them.
FairSpec ==
    /\ Spec
    /\ WF_vars(RunStep) /\ WF_vars(ApiStops)
    /\ WF_vars(Supervise)
    /\ WF_vars(DownloadEnds)

-----------------------------------------------------------------------------
(* Properties *)

\* The servers whose handlers read and write the database never take a request
\* without it: on none of the ways out of run is it closed before them.
DatabaseOutlivesServers ==
    server["cluster"] = "serving" \/ server["relay"] = "serving" => db

\* A manager does not go on with a part of its servers: when one stops, or a signal
\* comes, at whatever moment of the start, the whole process ends.
OneStopsAll ==
    (\E s \in Servers : server[s] = "failed") \/ signalled ~> at = "down"

\* "Restart=on-failure" (jackadi-manager.service:13): a manager that failed serves
\* again, unless a socket file was left behind, by a process that was killed or by
\* run taking another goroutine's error for that of its listener.
ComesBack ==
    at = "down" /\ code \in {"error", "killed"} /\ socket # "left"
        ~> at = "wait" \/ socket = "left"
=============================================================================
