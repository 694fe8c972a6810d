----------------------- MODULE ManagerProcess_proofs -----------------------
(***************************************************************************)
(* Proofs about ManagerProcess: type correctness, and that the database is *)
(* open for as long as a server is that uses it, whatever fails on the way *)
(* up and in whatever order.  The invariant they rest on says where run is *)
(* while each of the two servers serves.                                   *)
(***************************************************************************)
EXTENDS ManagerProcess, TLAPS

\* run keeps the database from its first step to the last of its deferred calls.
OpenWhileRunning == at \notin {"down", "openDb", "exit"} => db

\* The two servers are stopped on every way that leads to the database's end.
ClusterSpan ==
    server["cluster"] = "serving" =>
        at \in {"servePlugins", "listenCli", "checkCli", "serve", "wait", "shutdown",
                "drain", "closeCli", "stopRelay", "closeCluster"}
RelaySpan ==
    server["relay"] = "serving" =>
        at \in {"wait", "shutdown", "drain", "closeCli", "stopRelay"}

ProcessInv == TypeOK /\ OpenWhileRunning /\ ClusterSpan /\ RelaySpan

\* TypeOK in two: what is true or false, and what is counted or named.
FlagsOK ==
    db \in BOOLEAN /\ ctx \in BOOLEAN /\ err \in BOOLEAN
    /\ signalled \in BOOLEAN /\ download \in BOOLEAN
RestOK ==
    /\ at \in {"down", "wait"} \cup Starting \cup Stopping
    /\ code \in {"none", "ok", "error", "killed"}
    /\ server \in [Servers -> {"off", "serving", "failed"}]
    /\ socket \in {"none", "ours", "left", "stray"}
    /\ closeCh \in Nat
    /\ failures \in 0..MaxFailures

\* The two parts are the whole.
LEMMA TypeParts == TypeOK <=> FlagsOK /\ RestOK
BY Zenon DEF TypeOK, FlagsOK, RestOK

\* At first nothing runs.
LEMMA InitHolds == Init => ProcessInv
<1> SUFFICES ASSUME Init PROVE ProcessInv
  OBVIOUS
<1>1. FlagsOK
  BY Zenon DEF Init, FlagsOK
<1>2. RestOK
  BY ConfigAssumption DEF Init, RestOK, AllOff, Servers, Starting, Stopping
<1>3. OpenWhileRunning /\ ClusterSpan /\ RelaySpan
  BY DEF Init, OpenWhileRunning, ClusterSpan, RelaySpan, AllOff, Servers
<1> QED
  BY <1>1, <1>2, <1>3, TypeParts DEF ProcessInv

\* What is true or false stays so.
LEMMA FlagsStep == ASSUME FlagsOK, [Next]_vars PROVE FlagsOK'
<1> USE DEF FlagsOK
<1>1. CASE Launch
  BY <1>1, Zenon DEF Launch, resources
<1>2. CASE RunStep
  <2>1. CASE OpenDb
    BY <2>1, Zenon DEF OpenDb, Fails, ReturnsError
  <2>2. CASE Listen
    BY <2>2, Zenon DEF Listen, Fails, ReturnsError, resources
  <2>3. CASE ServePlugins
    BY <2>3, Zenon DEF ServePlugins, resources
  <2>4. CASE ListenCli
    BY <2>4, Zenon DEF ListenCli, Fails, Closed
  <2>5. CASE CheckCli
    BY <2>5, Zenon DEF CheckCli, ReturnsError
  <2>6. CASE Serve
    BY <2>6, Zenon DEF Serve, resources
  <2>7. CASE Wait
    BY <2>7, Zenon DEF Wait, resources
  <2>8. CASE Shutdown
    BY <2>8, Zenon DEF Shutdown, resources
  <2>9. CASE Drain
    BY <2>9, Zenon DEF Drain, resources
  <2>10. CASE CloseCli
    BY <2>10, Zenon DEF CloseCli, Runs, Deferred, Closed
  <2>11. CASE StopRelay
    BY <2>11, Zenon DEF StopRelay, Runs, Deferred, Stops, resources
  <2>12. CASE CloseCluster
    BY <2>12, Zenon DEF CloseCluster, Runs, Deferred, Stops, resources
  <2>13. CASE Cancel
    BY <2>13, Zenon DEF Cancel, Runs, Deferred
  <2>14. CASE CloseDb
    BY <2>14, Zenon DEF CloseDb, Runs, Deferred
  <2>15. CASE Exit
    BY <2>15, Zenon DEF Exit, Dies, AllOff
  <2> QED
    BY <1>2, <2>1, <2>2, <2>3, <2>4, <2>5, <2>6, <2>7, <2>8, <2>9, <2>10, <2>11,
       <2>12, <2>13, <2>14, <2>15 DEF RunStep
<1>3. CASE ApiStops
  BY <1>3, Zenon DEF ApiStops, Stops, resources
<1>4. ASSUME NEW s \in Servers, ServerFails(s)
      PROVE  FlagsOK'
  BY <1>4, Zenon DEF ServerFails, Fails, Notice, Unnoticed, resources
<1>5. CASE Signal
  BY <1>5, Zenon DEF Signal, resources
<1>6. CASE DownloadStarts \/ DownloadEnds
  BY <1>6, Zenon DEF DownloadStarts, DownloadEnds, resources
<1>7. CASE Kill
  BY <1>7, Zenon DEF Kill, Fails, Dies, AllOff
<1>8. CASE ClearRun
  BY <1>8, Zenon DEF ClearRun
<1>9. CASE UNCHANGED vars
  BY <1>9, Zenon DEF vars, resources
<1> QED
  BY <1>1, <1>2, <1>3, <1>4, <1>5, <1>6, <1>7, <1>8, <1>9 DEF Next

\* What is counted or named stays within its set.
LEMMA RestStep == ASSUME RestOK, [Next]_vars PROVE RestOK'
<1> USE ConfigAssumption DEF RestOK, Starting, Stopping, Servers
<1>1. CASE Launch
  BY <1>1 DEF Launch, resources
<1>2. CASE RunStep
  <2>1. CASE OpenDb
    BY <2>1 DEF OpenDb, Fails, ReturnsError
  <2>2. CASE Listen
    BY <2>2 DEF Listen, Fails, ReturnsError, resources
  <2>3. CASE ServePlugins
    BY <2>3 DEF ServePlugins, resources
  <2>4. CASE ListenCli
    BY <2>4 DEF ListenCli, Fails, Closed
  <2>5. CASE CheckCli
    BY <2>5 DEF CheckCli, ReturnsError
  <2>6. CASE Serve
    BY <2>6 DEF Serve, resources
  <2>7. CASE Wait
    BY <2>7 DEF Wait, resources
  <2>8. CASE Shutdown
    BY <2>8 DEF Shutdown, resources
  <2>9. CASE Drain
    BY <2>9 DEF Drain, resources
  <2>10. CASE CloseCli
    BY <2>10 DEF CloseCli, Runs, Deferred, Closed
  <2>11. CASE StopRelay
    BY <2>11 DEF StopRelay, Runs, Deferred, Stops, resources
  <2>12. CASE CloseCluster
    BY <2>12 DEF CloseCluster, Runs, Deferred, Stops, resources
  <2>13. CASE Cancel
    BY <2>13 DEF Cancel, Runs, Deferred
  <2>14. CASE CloseDb
    BY <2>14 DEF CloseDb, Runs, Deferred
  <2>15. CASE Exit
    BY <2>15 DEF Exit, Dies, AllOff
  <2> QED
    BY <1>2, <2>1, <2>2, <2>3, <2>4, <2>5, <2>6, <2>7, <2>8, <2>9, <2>10, <2>11,
       <2>12, <2>13, <2>14, <2>15 DEF RunStep
<1>3. CASE ApiStops
  BY <1>3 DEF ApiStops, Stops, resources
<1>4. ASSUME NEW s \in Servers, ServerFails(s)
      PROVE  RestOK'
  BY <1>4 DEF ServerFails, Fails, Notice, Unnoticed, resources
<1>5. CASE Signal
  BY <1>5 DEF Signal, resources
<1>6. CASE DownloadStarts \/ DownloadEnds
  BY <1>6 DEF DownloadStarts, DownloadEnds, resources
<1>7. CASE Kill
  BY <1>7 DEF Kill, Fails, Dies, AllOff
<1>8. CASE ClearRun
  BY <1>8 DEF ClearRun
<1>9. CASE UNCHANGED vars
  BY <1>9 DEF vars, resources
<1> QED
  BY <1>1, <1>2, <1>3, <1>4, <1>5, <1>6, <1>7, <1>8, <1>9 DEF Next

\* The steps that move run, or start or stop a server, keep them in their spans; the
\* others leave run, both servers and the database alone, or end everything.
LEMMA SpanStep ==
    ASSUME ProcessInv, [Next]_vars
    PROVE  (OpenWhileRunning /\ ClusterSpan /\ RelaySpan)'
<1> USE DEF ProcessInv, TypeOK, OpenWhileRunning, ClusterSpan, RelaySpan, Servers
<1>1. CASE Launch
  BY <1>1 DEF Launch, resources
<1>2. CASE OpenDb \/ Listen
  BY <1>2 DEF OpenDb, Listen, Fails, ReturnsError, resources
<1>3. CASE ServePlugins \/ ListenCli \/ CheckCli \/ Serve
  BY <1>3 DEF ServePlugins, ListenCli, CheckCli, Serve, ReturnsError, resources
<1>4. CASE Wait \/ Shutdown \/ Drain
  BY <1>4 DEF Wait, Shutdown, Drain, resources
<1>5. CASE CloseCli \/ StopRelay \/ CloseCluster
  BY <1>5 DEF CloseCli, StopRelay, CloseCluster, Runs, Deferred, Stops, resources
<1>6. CASE Cancel \/ CloseDb
  BY <1>6 DEF Cancel, CloseDb, Runs, Deferred
<1>7. CASE Exit \/ Kill
  BY <1>7 DEF Exit, Kill, Dies, AllOff
<1>8. ASSUME NEW s \in Servers, ServerFails(s) \/ (ApiStops /\ s = "api")
      PROVE  (OpenWhileRunning /\ ClusterSpan /\ RelaySpan)'
  BY <1>8 DEF ServerFails, ApiStops, Stops, resources
<1>9. CASE Signal \/ DownloadStarts \/ DownloadEnds \/ ClearRun \/ UNCHANGED vars
  BY <1>9 DEF Signal, DownloadStarts, DownloadEnds, ClearRun, vars, resources
<1> QED
  BY <1>1, <1>2, <1>3, <1>4, <1>5, <1>6, <1>7, <1>8, <1>9 DEF Next, RunStep

\* Where run is while the database is open and the servers serve, always.
THEOREM ProcessInvariant == Spec => []ProcessInv
<1>1. ASSUME ProcessInv, [Next]_vars
      PROVE  ProcessInv'
  <2>1. TypeOK'
    <3>1. FlagsOK' /\ RestOK'
      BY <1>1, FlagsStep, RestStep, TypeParts DEF ProcessInv
    <3> QED
      BY <3>1, Zenon DEF TypeOK, FlagsOK, RestOK
  <2> QED
    BY <1>1, <2>1, SpanStep DEF ProcessInv
<1> QED
  BY <1>1, InitHolds, PTL DEF Spec

\* Every variable keeps its type, for any bound on the failures.
THEOREM TypeCorrect == Spec => []TypeOK
<1>1. ProcessInv => TypeOK
  BY DEF ProcessInv
<1> QED
  BY <1>1, ProcessInvariant, PTL

\* The servers whose handlers use the database never serve without it (main.go:101,
\* 117 and 154: the deferred calls), whichever step of the start fails.
THEOREM DatabaseIsLast == Spec => []DatabaseOutlivesServers
<1>1. ProcessInv => DatabaseOutlivesServers
  BY DEF ProcessInv, OpenWhileRunning, ClusterSpan, RelaySpan, DatabaseOutlivesServers
<1> QED
  BY <1>1, ProcessInvariant, PTL
=============================================================================
