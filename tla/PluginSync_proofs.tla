-------------------------- MODULE PluginSync_proofs --------------------------
(***************************************************************************)
(* Proofs about PluginSync, for every set of plugin files and of versions. *)
(* The inductive invariant SyncInv adds to the types where the keeper is   *)
(* in its work: it works for a task that waits, and the plugin it replaces *)
(* is stopped, and out of the registry before it is reloaded.  That the    *)
(* registry serves the plugins that run, and none that was stopped but     *)
(* between Kill and Unregister, and that these run what is on the disk,    *)
(* are inductive beside it.                                                *)
(***************************************************************************)
EXTENDS PluginSync, TLAPS

\* What a plugin's entry may be; an entry is never None.
Plugins == [version : Contents, alive : BOOLEAN]

\* The keeper works for a task plugins:sync that waits for its answer.
WorksForCaller ==
    pc \in {"list", "download", "install", "unregister", "reload", "remove", "respond"}
        => caller = "waiting"

\* The plugin being replaced was stopped; before it is reloaded it is unregistered,
\* as RegistryServesLive has it.
ReloadsStopped ==
    pc \in {"unregister", "reload"} =>
        /\ current \in Files
        /\ loaded[current] # None /\ ~loaded[current].alive

SyncInv ==
    /\ TypeOK
    /\ WorksForCaller
    /\ ReloadsStopped
    /\ RegistryServesLive
    /\ AliveRunsDiskVersion

-----------------------------------------------------------------------------
(* Type correctness *)

\* A file that is replaced, or that could not be, leaves directory, registry and
\* plugins well-formed.
LEMMA ReplaceType ==
    ASSUME TypeOK, NEW f \in Files, Replace(f)
    PROVE  /\ disk' \in [Files -> Contents \cup {None}]
           /\ loaded' \in [Files -> Plugins \cup {None}]
           /\ registry' \subseteq Files
           /\ tmp' \in [Files -> Contents \cup {None}]
           /\ fresh' \subseteq Files
           /\ changed' \in BOOLEAN
<1>0. /\ disk \in [Files -> Contents \cup {None}]
      /\ loaded \in [Files -> Plugins \cup {None}]
      /\ tmp \in [Files -> Contents \cup {None}]
      /\ registry \subseteq Files /\ fresh \subseteq Files /\ changed \in BOOLEAN
  BY DEF TypeOK, Plugins
<1>1. CASE UNCHANGED <<pluginVars, tmp, fresh, changed>>
  BY <1>0, <1>1 DEF pluginVars
<1>2. CASE /\ disk' = [disk EXCEPT ![f] = tmp[f]]
           /\ tmp' = [tmp EXCEPT ![f] = None]
           /\ UNCHANGED <<loaded, registry, fresh, changed>>
  BY <1>0, <1>2
<1>3. CASE /\ disk' = [disk EXCEPT ![f] = tmp[f]]
           /\ tmp' = [tmp EXCEPT ![f] = None]
           /\ Loads(f, tmp[f])
           /\ fresh' = fresh \cup {f} /\ changed' = TRUE
  <2>1. [version |-> tmp[f], alive |-> TRUE] \in Plugins
    BY <1>3 DEF Loads, Runs, Plugins, Contents
  <2>q. QED
    BY <1>0, <1>3, <2>1 DEF Loads
<1>q. QED
  BY <1>1, <1>2, <1>3 DEF Replace

\* The end of the process empties what is in memory.
LEMMA DiesType == ASSUME TypeOK, Dies PROVE TypeOK'
<1>1. /\ Nothing \in [Files -> Versions \cup {None}]
      /\ Nothing \in [Files -> Contents \cup {None}]
      /\ Nothing \in [Files -> Plugins \cup {None}]
  BY DEF Nothing
<1>2. (current' # None) = (pc' \in {"unregister", "reload"})
  BY DEF Dies, NoSync
<1>q. QED
  BY <1>1, <1>2 DEF TypeOK, Plugins, Dies, NoSync, managerVars

\* The manager and the administrator keep what they serve well-formed.
LEMMA ManagerType ==
    ASSUME TypeOK, Administrate \/ ListPlugins
    PROVE  TypeOK'
<1>1. CASE Administrate
  BY <1>1, ChangesAssumption DEF TypeOK, Administrate, pluginVars, collectorVars,
     syncVars
<1>2. CASE ListPlugins /\ pc' = "download"
  <2>1. PICK answer \in [Files -> Versions \cup {None}] :
            /\ LoadPluginsPolicies(answer)
            /\ wanted' = answer
            /\ todo' = {f \in Files : answer[f] # None}
    BY <1>2 DEF ListPlugins
  <2>2. cache' \in [Files -> Versions \cup {None}] \cup {None}
    BY <2>1 DEF LoadPluginsPolicies, TypeOK
  <2>q. QED
    BY <1>2, <2>1, <2>2 DEF TypeOK, ListPlugins, Syncing, pluginVars, collectorVars
<1>3. CASE ListPlugins /\ pc' = "respond"
  <2>1. UNCHANGED <<cache, wanted, todo>>
    BY <1>3 DEF ListPlugins
  <2>q. QED
    BY <1>3, <2>1 DEF TypeOK, ListPlugins, Syncing, pluginVars, collectorVars
<1>q. QED
  BY <1>1, <1>2, <1>3 DEF ListPlugins

\* Downloads, installations and reloads keep the types.
LEMMA SyncType ==
    ASSUME TypeOK, SyncStep
    PROVE  TypeOK'
<1>1. CASE ListPlugins
  BY <1>1, ManagerType
<1>2. CASE Discover \/ Installed \/ Removed
  BY <1>2 DEF TypeOK, Discover, Installed, Removed, Syncing, managerVars, pluginVars,
     collectorVars, syncVars
<1>3. CASE Reload
  <2>1. current \in Files
    BY <1>3 DEF Reload, Syncing, TypeOK
  <2>q. QED
    BY <1>3, <2>1, ReplaceType DEF TypeOK, Plugins, Reload, Syncing, managerVars,
       collectorVars
<1>4. ASSUME NEW f \in Files, Download(f) PROVE TypeOK'
  <2>1. tmp' \in [Files -> Contents \cup {None}] /\ failed' \subseteq Files
        /\ upToDate' \subseteq Files /\ todo' \subseteq Files
    BY <1>4 DEF Download, TypeOK, Contents
  <2>q. QED
    BY <1>4, <2>1 DEF TypeOK, Download, managerVars, pluginVars, collectorVars
<1>5. ASSUME NEW f \in Files, InstallNew(f) PROVE TypeOK'
  BY <1>5, ReplaceType DEF TypeOK, Plugins, InstallNew, managerVars, collectorVars
<1>6. ASSUME NEW f \in Files, Kill(f) PROVE TypeOK'
  <2>0. loaded \in [Files -> Plugins \cup {None}] /\ loaded[f] # None
    BY <1>6 DEF Kill, TypeOK, Plugins
  <2>1. loaded' \in [Files -> Plugins \cup {None}]
    <3>1. loaded[f] \in Plugins
      BY <2>0
    <3>2. [loaded[f] EXCEPT !.alive = FALSE] \in Plugins
      BY <3>1 DEF Plugins
    <3>3. loaded' = [loaded EXCEPT ![f] = [loaded[f] EXCEPT !.alive = FALSE]]
      BY <1>6, <2>0 DEF Kill
    <3>q. QED
      BY <2>0, <3>2, <3>3
  <2>q. QED
    BY <1>6, <2>1, ContentsAssumption DEF TypeOK, Plugins, Kill, managerVars,
       collectorVars
<1>7. ASSUME NEW f \in Files, Keep(f) PROVE TypeOK'
  BY <1>7 DEF TypeOK, Keep, Syncing, managerVars, pluginVars, collectorVars
<1>8. ASSUME NEW f \in Files, Remove(f) PROVE TypeOK'
  BY <1>8, DiesType DEF Remove
<1>9. CASE Unregister
  BY <1>9 DEF TypeOK, Unregister, Syncing, managerVars, collectorVars, syncVars
<1>q. QED
  BY <1>1, <1>2, <1>3, <1>4, <1>5, <1>6, <1>7, <1>8, <1>9 DEF SyncStep

\* The keeper's other steps, and those of the task that asks it, keep the types.
LEMMA KeeperType ==
    ASSUME TypeOK, Start \/ Ask \/ TakeRequest \/ Respond \/ Notify \/ EndKeeper
    PROVE  TypeOK'
<1>1. CASE Start
  <2>1. loaded' \in [Files -> Plugins \cup {None}] /\ registry' \subseteq Files
    BY <1>1 DEF Start, Runs, Plugins, Contents
  <2>q. QED
    BY <1>1, <2>1 DEF TypeOK, Plugins, Start, managerVars, collectorVars, syncVars
<1>2. CASE Ask \/ TakeRequest \/ EndKeeper
  BY <1>2 DEF TypeOK, Ask, TakeRequest, EndKeeper, managerVars, pluginVars,
     collectorVars, syncVars
<1>3. CASE Respond
  <2>1. /\ Nothing \in [Files -> Versions \cup {None}]
        /\ Nothing \in [Files -> Contents \cup {None}]
    BY DEF Nothing
  <2>2. (current' # None) = (pc' \in {"unregister", "reload"})
    BY <1>3 DEF Respond, NoSync
  <2>q. QED
    BY <1>3, <2>1, <2>2 DEF TypeOK, Respond, NoSync, managerVars, pluginVars,
       collectorVars
<1>4. CASE Notify
  BY <1>4 DEF TypeOK, Notify, managerVars, pluginVars, syncVars
<1>q. QED
  BY <1>1, <1>2, <1>3, <1>4

\* The collector's steps keep the types.
LEMMA CollectorType ==
    ASSUME TypeOK, CollectorStep \/ EndCollector
    PROVE  TypeOK'
<1>1. CASE Names \/ Collected \/ Tick \/ EndCollector
  BY <1>1 DEF TypeOK, Names, Collected, Tick, EndCollector, Collecting, managerVars,
     pluginVars, syncVars
<1>2. ASSUME NEW f \in Files, CollectSpecs(f) PROVE TypeOK'
  BY <1>2 DEF TypeOK, CollectSpecs, Collecting, managerVars, pluginVars, syncVars
<1>q. QED
  BY <1>1, <1>2 DEF CollectorStep

\* The first state is well-formed.
LEMMA InitType == ASSUME Init PROVE TypeOK
<1>1. /\ Published \in [Files -> Versions \cup {None}]
      /\ Nothing \in [Files -> Versions \cup {None}]
      /\ Nothing \in [Files -> Contents \cup {None}]
      /\ Nothing \in [Files -> Plugins \cup {None}]
  BY PublishedAssumption DEF Nothing
<1>2. (current # None) = (pc \in {"unregister", "reload"})
  BY DEF Init
<1>3. /\ loaded \in [Files -> Plugins \cup {None}] /\ changes \in 0..MaxChanges
      /\ ctx \in {"live"} /\ caller \in {"none"} /\ pc \in {"start"}
      /\ collector \in {"names"}
  BY <1>1, ChangesAssumption DEF Init
<1>q. QED
  BY <1>1, <1>2, <1>3 DEF Init, TypeOK, Plugins

\* Every step keeps the types.
LEMMA NextType == ASSUME TypeOK, [Next]_vars PROVE TypeOK'
<1>1. CASE UNCHANGED vars
  BY <1>1 DEF TypeOK, vars, managerVars, pluginVars, collectorVars, syncVars
<1>2. CASE Administrate
  BY <1>2, ManagerType
<1>3. CASE SyncStep
  BY <1>3, SyncType
<1>4. CASE Start \/ Ask \/ TakeRequest \/ Respond \/ Notify \/ EndKeeper
  BY <1>4, KeeperType
<1>5. CASE CollectorStep \/ EndCollector
  BY <1>5, CollectorType
<1>6. CASE Exit \/ Crash
  BY <1>6, DiesType DEF Exit, Crash
<1>7. CASE Stop \/ Restart
  BY <1>7 DEF TypeOK, Stop, Restart, managerVars, pluginVars, collectorVars,
     syncVars
<1>q. QED
  BY <1>1, <1>2, <1>3, <1>4, <1>5, <1>6, <1>7 DEF Next, KeeperStep

\* Directory, plugins, registry and specs, and the files a synchronisation works
\* on, are well-formed; a plugin is under reload exactly in that step.
THEOREM TypeCorrect == Spec => []TypeOK
<1>1. Init => TypeOK
  BY InitType
<1>2. TypeOK /\ [Next]_vars => TypeOK'
  BY NextType
<1>q. QED
  BY <1>1, <1>2, PTL DEF Spec

-----------------------------------------------------------------------------
(* The inductive invariant *)

\* The end of the process leaves nothing that runs.
LEMMA DiesInv == ASSUME SyncInv, Dies PROVE SyncInv'
<1>1. TypeOK'
  BY DiesType DEF SyncInv
<1>2. \A f \in Files : loaded'[f] = None
  BY DEF Dies, Nothing
<1>3. RegistryServesLive' /\ AliveRunsDiskVersion'
  BY <1>2 DEF Dies, RegistryServesLive, Live, AliveRunsDiskVersion
<1>4. WorksForCaller' /\ ReloadsStopped'
  BY DEF Dies, WorksForCaller, ReloadsStopped
<1>q. QED
  BY <1>1, <1>3, <1>4 DEF SyncInv

\* The entry of a plugin that runs is not that of a file without a plugin.
LEMMA EntryIsSome ==
    ASSUME NEW v \in Versions
    PROVE  [version |-> v, alive |-> TRUE] # None
<1>1. [version |-> v, alive |-> TRUE] \in [version : Versions \cup {Partial},
                                          alive : BOOLEAN]
  OBVIOUS
<1>q. QED
  BY <1>1, ContentsAssumption

\* Loading what the directory holds runs it; nothing else in the registry changes.
LEMMA LoadsInv ==
    ASSUME TypeOK, registry = Live, NEW f \in Files, NEW content,
           Loads(f, content)
    PROVE  /\ registry' = Live'
           /\ loaded'[f] = [version |-> content, alive |-> TRUE]
           /\ \A g \in Files \ {f} : loaded'[g] = loaded[g]
<1>1. loaded \in [Files -> Plugins \cup {None}]
  BY DEF TypeOK, Plugins
<1>2. /\ loaded'[f] = [version |-> content, alive |-> TRUE]
      /\ \A g \in Files \ {f} : loaded'[g] = loaded[g]
  BY <1>1 DEF Loads
<1>3. loaded'[f] # None /\ loaded'[f].alive
  BY <1>2, EntryIsSome DEF Loads, Runs
<1>q. QED
  BY <1>2, <1>3 DEF Live, Loads

\* Replacing the file of a plugin that does not run, whatever part of it fails,
\* keeps the registry and the directory in step with the plugins that run.
LEMMA ReplaceInv ==
    ASSUME SyncInv, pc # "unregister", NEW f \in Files, Replace(f),
           loaded[f] = None \/ ~loaded[f].alive
    PROVE  RegistryServesLive' /\ AliveRunsDiskVersion'
<1>0. /\ TypeOK /\ registry = Live /\ AliveRunsDiskVersion
      /\ disk \in [Files -> Contents \cup {None}]
  BY DEF SyncInv, TypeOK, RegistryServesLive
<1>1. CASE UNCHANGED <<pluginVars, tmp, fresh, changed>>
  BY <1>0, <1>1 DEF pluginVars, RegistryServesLive, Live, AliveRunsDiskVersion
<1>2. CASE /\ disk' = [disk EXCEPT ![f] = tmp[f]]
           /\ UNCHANGED <<loaded, registry, fresh, changed>>
  BY <1>0, <1>2 DEF RegistryServesLive, Live, AliveRunsDiskVersion
<1>3. CASE disk' = [disk EXCEPT ![f] = tmp[f]] /\ Loads(f, tmp[f])
  <2>1. /\ registry' = Live'
        /\ loaded'[f] = [version |-> tmp[f], alive |-> TRUE]
        /\ \A g \in Files \ {f} : loaded'[g] = loaded[g]
    BY <1>0, <1>3, LoadsInv
  <2>2. AliveRunsDiskVersion'
    BY <1>0, <1>3, <2>1 DEF AliveRunsDiskVersion
  <2>3. RegistryServesLive'
    BY <2>1 DEF RegistryServesLive
  <2>q. QED
    BY <2>2, <2>3
<1>q. QED
  BY <1>1, <1>2, <1>3 DEF Replace

\* A step of a synchronisation keeps the invariant.
LEMMA SyncStepInv ==
    ASSUME SyncInv, SyncStep
    PROVE  SyncInv'
<1>0. TypeOK /\ TypeOK'
  BY SyncType DEF SyncInv
<1>1. CASE ListPlugins \/ Discover \/ Installed \/ Removed
  BY <1>0, <1>1 DEF SyncInv, ListPlugins, Discover, Installed, Removed, Syncing,
     WorksForCaller, ReloadsStopped, RegistryServesLive, Live, AliveRunsDiskVersion,
     pluginVars, syncVars
<1>2. CASE Reload
  <2>1. RegistryServesLive' /\ AliveRunsDiskVersion'
    BY <1>2, ReplaceInv DEF SyncInv, Reload, Syncing, ReloadsStopped
  <2>2. WorksForCaller' /\ ReloadsStopped'
    BY <1>2 DEF SyncInv, Reload, Syncing, WorksForCaller, ReloadsStopped
  <2>q. QED
    BY <1>0, <2>1, <2>2 DEF SyncInv
<1>3. ASSUME NEW f \in Files, Download(f) \/ Keep(f) PROVE SyncInv'
  BY <1>0, <1>3 DEF SyncInv, Download, Keep, Syncing, WorksForCaller,
     ReloadsStopped, RegistryServesLive, Live, AliveRunsDiskVersion, pluginVars
<1>4. ASSUME NEW f \in Files, InstallNew(f) PROVE SyncInv'
  <2>1. RegistryServesLive' /\ AliveRunsDiskVersion'
    BY <1>4, ReplaceInv DEF InstallNew, Syncing
  <2>2. WorksForCaller' /\ ReloadsStopped'
    BY <1>4 DEF SyncInv, InstallNew, Syncing, WorksForCaller, ReloadsStopped
  <2>q. QED
    BY <1>0, <2>1, <2>2 DEF SyncInv
<1>5. ASSUME NEW f \in Files, Kill(f) PROVE SyncInv'
  <2>1. /\ loaded \in [Files -> Plugins \cup {None}] /\ loaded[f] \in Plugins
        /\ loaded' = [loaded EXCEPT ![f] = [loaded[f] EXCEPT !.alive = FALSE]]
    BY <1>0, <1>5 DEF Kill, TypeOK, Plugins
  <2>2. /\ loaded'[f] # None /\ ~loaded'[f].alive
        /\ \A g \in Files \ {f} : loaded'[g] = loaded[g]
    BY <2>1, ContentsAssumption DEF Plugins, Contents
  <2>3. registry = Live /\ caller = "waiting"
    BY <1>5 DEF SyncInv, Kill, Syncing, RegistryServesLive, WorksForCaller
  <2>4. Live' = Live \ {f}
    BY <2>2 DEF Live
  <2>5. RegistryServesLive' /\ AliveRunsDiskVersion'
    BY <1>5, <2>2, <2>3, <2>4 DEF SyncInv, RegistryServesLive, AliveRunsDiskVersion,
       Kill
  <2>6. WorksForCaller' /\ ReloadsStopped'
    BY <1>5, <2>2 DEF SyncInv, Kill, Syncing, WorksForCaller, ReloadsStopped
  <2>q. QED
    BY <1>0, <2>5, <2>6 DEF SyncInv
<1>6. ASSUME NEW f \in Files, Remove(f) PROVE SyncInv'
  BY <1>6, DiesInv DEF Remove
<1>7. CASE Unregister
  <2>1. Live' = Live /\ current \notin Live
    BY <1>7 DEF SyncInv, Unregister, Syncing, ReloadsStopped, Live
  <2>2. RegistryServesLive'
    BY <1>7, <2>1 DEF SyncInv, Unregister, RegistryServesLive
  <2>3. WorksForCaller' /\ ReloadsStopped' /\ AliveRunsDiskVersion'
    BY <1>7 DEF SyncInv, Unregister, Syncing, WorksForCaller, ReloadsStopped,
       AliveRunsDiskVersion, syncVars
  <2>q. QED
    BY <1>0, <2>2, <2>3 DEF SyncInv
<1>q. QED
  BY <1>1, <1>2, <1>3, <1>4, <1>5, <1>6, <1>7 DEF SyncStep

\* So does every other step.
LEMMA OtherStepInv ==
    ASSUME SyncInv,
           \/ Administrate \/ Ask \/ Start \/ TakeRequest \/ Respond \/ Notify
           \/ EndKeeper \/ CollectorStep \/ EndCollector \/ Stop \/ Restart
    PROVE  /\ WorksForCaller' /\ ReloadsStopped'
           /\ RegistryServesLive' /\ AliveRunsDiskVersion'
<1>0. USE DEF SyncInv, WorksForCaller, ReloadsStopped, RegistryServesLive, Live,
              AliveRunsDiskVersion, pluginVars
<1>1. CASE Start
  <2>1. PICK good \in SUBSET {f \in Files : Runs(disk[f])} :
            /\ loaded' = [f \in Files |->
                            IF f \in good THEN [version |-> disk[f], alive |-> TRUE]
                            ELSE None]
            /\ registry' = good
    BY <1>1 DEF Start
  <2>2. \A f \in good : [version |-> disk[f], alive |-> TRUE] # None
    BY EntryIsSome DEF Runs
  <2>3. RegistryServesLive' /\ AliveRunsDiskVersion'
    BY <1>1, <2>1, <2>2 DEF Start
  <2>q. QED
    BY <1>1, <2>3 DEF Start
<1>2. CASE Administrate \/ Ask \/ TakeRequest \/ Notify \/ EndKeeper
  BY <1>2 DEF Administrate, Ask, TakeRequest, Notify, EndKeeper, syncVars
<1>3. CASE Respond
  BY <1>3 DEF Respond
<1>4. CASE EndCollector \/ Stop \/ Restart \/ Names \/ Collected \/ Tick
  BY <1>4 DEF EndCollector, Stop, Restart, Names, Collected, Tick, syncVars
<1>5. ASSUME NEW f \in Files, CollectSpecs(f)
      PROVE  /\ WorksForCaller' /\ ReloadsStopped'
             /\ RegistryServesLive' /\ AliveRunsDiskVersion'
  BY <1>5 DEF CollectSpecs, syncVars
<1>q. QED
  BY <1>1, <1>2, <1>3, <1>4, <1>5 DEF CollectorStep

\* The invariant that ties the registry, the plugins that run and the directory to
\* the place where a synchronisation is holds in every reachable state.
THEOREM SyncInvariant == Spec => []SyncInv
<1>1. Init => SyncInv
  <2>1. ASSUME Init
        PROVE  /\ WorksForCaller /\ ReloadsStopped
               /\ RegistryServesLive /\ AliveRunsDiskVersion
    BY <2>1 DEF Init, Nothing, WorksForCaller, ReloadsStopped, RegistryServesLive,
       Live, AliveRunsDiskVersion
  <2>q. QED
    BY <2>1, InitType DEF SyncInv
<1>2. SyncInv /\ [Next]_vars => SyncInv'
  <2>0. SUFFICES ASSUME SyncInv, [Next]_vars PROVE SyncInv'
    OBVIOUS
  <2>t. TypeOK'
    BY <2>0, NextType DEF SyncInv
  <2>1. CASE UNCHANGED vars
    BY <2>0, <2>1, <2>t DEF SyncInv, WorksForCaller, ReloadsStopped,
       RegistryServesLive, Live, AliveRunsDiskVersion, vars, pluginVars, syncVars
  <2>2. CASE SyncStep
    BY <2>0, <2>2, SyncStepInv
  <2>3. CASE Exit \/ Crash
    BY <2>0, <2>3, DiesInv DEF Exit, Crash
  <2>4. CASE \/ Administrate \/ Ask \/ Start \/ TakeRequest \/ Respond \/ Notify
             \/ EndKeeper \/ CollectorStep \/ EndCollector \/ Stop \/ Restart
    BY <2>0, <2>4, <2>t, OtherStepInv DEF SyncInv
  <2>q. QED
    BY <2>0, <2>1, <2>2, <2>3, <2>4 DEF Next, KeeperStep
<1>q. QED
  BY <1>1, <1>2, PTL DEF Spec

-----------------------------------------------------------------------------
(* The properties of the runs *)

\* Every plugin that runs can be asked, whatever step of a replacement failed; one
\* that was stopped can be asked only until it is unregistered, while the task
\* plugins:sync waits and keeps the other tasks away.
THEOREM RegistryIsRight == Spec => []RegistryServesLive
<1>1. SyncInv => RegistryServesLive
  BY DEF SyncInv
<1>q. QED
  BY <1>1, SyncInvariant, PTL

\* What runs is what its file holds, so that a plugin's version, which decides
\* whether it is up to date, is that of its file.
THEOREM VersionIsRight == Spec => []AliveRunsDiskVersion
<1>1. SyncInv => AliveRunsDiskVersion
  BY DEF SyncInv
<1>q. QED
  BY <1>1, SyncInvariant, PTL

\* Once the process has started, the registry only changes while a task
\* plugins:sync waits.
THEOREM RegistryOnlyUnderSync == Spec => RegistryStable
<1>1. ASSUME SyncInv, [Next]_vars
      PROVE  [caller # "waiting" /\ pc # "start" /\ ctx' # "dead"
                => UNCHANGED registry]_vars
  <2>1. CASE UNCHANGED vars
    BY <2>1 DEF vars, pluginVars
  <2>2. CASE SyncStep
    BY <1>1, <2>2 DEF SyncInv, WorksForCaller, SyncStep, Syncing, ListPlugins,
       Discover, Unregister, Reload, Installed, Removed, Download, InstallNew, Kill,
       Keep, Remove
  <2>3. CASE Exit \/ Crash
    BY <2>3 DEF Exit, Crash, Dies
  <2>4. CASE Start
    BY <2>4 DEF Start
  <2>5. CASE \/ Administrate \/ Ask \/ TakeRequest \/ Respond \/ Notify
             \/ EndKeeper \/ EndCollector \/ Stop \/ Restart
    BY <2>5 DEF Administrate, Ask, TakeRequest, Respond, Notify, EndKeeper,
       EndCollector, Stop, Restart, pluginVars
  <2>6. CASE CollectorStep
    BY <2>6 DEF CollectorStep, Names, CollectSpecs, Collected, Tick, pluginVars
  <2>q. QED
    BY <1>1, <2>1, <2>2, <2>3, <2>4, <2>5, <2>6 DEF Next, KeeperStep
<1>q. QED
  BY <1>1, SyncInvariant, PTL DEF Spec, RegistryStable
=============================================================================
