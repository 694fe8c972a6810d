------------------------------ MODULE PluginSync ------------------------------
(***************************************************************************)
(* The plugins of a node and how they follow the manager's.                *)
(*                                                                         *)
(* The task plugins:sync asks the goroutine KeepPluginsUpToDate over an    *)
(* unbuffered channel and waits for its answer.  The goroutine asks the    *)
(* manager which files the node should have, with their checksums, takes   *)
(* what it has not from the manager's file server, and lets Loader.Update  *)
(* install, reload and remove plugins; then it answers, and wakes up the   *)
(* specs collector when something changed.  The process may be stopped or  *)
(* may crash at any point, and loads the plugin directory when it starts.  *)
(*                                                                         *)
(* A plugin's name and file are one here: the files have distinct plugin   *)
(* names, which updates keep and no builtin has.  The directory is not the *)
(* working directory, so that a path differs from a name.                  *)
(***************************************************************************)
EXTENDS Naturals, FiniteSets

CONSTANTS
    Files,      \* plugin files
    Versions,   \* complete contents, a version is its own checksum
    Gathering,  \* those whose plugin may have specs (see SpecCollection)
    Partial,    \* what an interrupted download leaves
    None,
    Published,  \* [Files -> Versions]: what the file server serves at first
    MaxChanges  \* bound on the administrator's changes

ASSUME ContentsAssumption ==
    /\ Partial \notin Versions
    /\ None \notin Versions \cup {Partial} \cup Files
    /\ None \notin [version : Versions \cup {Partial}, alive : BOOLEAN]
ASSUME PublishedAssumption == Published \in [Files -> Versions]
ASSUME ChangesAssumption == MaxChanges \in Nat

VARIABLES
    \* the manager
    policy,     \* files that plugins.yaml gives to the node
    store,      \* [Files]: what the file server serves
    cache,      \* pluginPolicies: None, or [Files]: the checksums computed last
    changes,    \* changes made so far
    \* the node's directory and its memory
    disk,       \* [Files]: the plugin directory
    loaded,     \* [Files]: Loader.plugins, None or [version, alive]
    registry,   \* files whose plugin is in the registry
    specs,      \* files whose plugin has specs in the specs manager
    \* its goroutines
    ctx,        \* the process and its context
    caller,     \* the task plugins:sync
    pc,         \* KeepPluginsUpToDate
    collector,  \* StartSpecCollector
    visit,      \* files whose plugin the collector has still to ask
    newSpecs,   \* files whose plugin has answered it
    \* one synchronisation
    wanted,     \* [Files]: the checksums the manager gave
    todo,       \* files that the loop under way has still to look at
    upToDate,   \* files that were not downloaded
    failed,     \* files whose download failed
    tmp,        \* [Files]: the temporary directory
    fresh,      \* newPluginNameList
    current,    \* the plugin being replaced
    changed

managerVars == <<policy, store, cache, changes>>
pluginVars == <<disk, loaded, registry>>
syncVars == <<wanted, todo, upToDate, failed, tmp, fresh, current, changed>>
collectorVars == <<specs, collector, visit, newSpecs>>
vars == <<managerVars, pluginVars, ctx, caller, pc, collectorVars, syncVars>>

Contents == Versions \cup {Partial}
Nothing == [f \in Files |-> None]

TypeOK ==
    /\ policy \subseteq Files
    /\ store \in [Files -> Versions \cup {None}]
    /\ cache \in [Files -> Versions \cup {None}] \cup {None}
    /\ changes \in 0..MaxChanges
    /\ disk \in [Files -> Contents \cup {None}]
    /\ loaded \in [Files -> [version : Contents, alive : BOOLEAN] \cup {None}]
    /\ registry \subseteq Files /\ specs \subseteq Files
    /\ ctx \in {"live", "cancelled", "dead"}
    /\ caller \in {"none", "asking", "waiting"}
    /\ pc \in {"start", "idle", "list", "download", "install", "unregister",
               "reload", "remove", "respond", "notify", "ended"}
    /\ collector \in {"names", "visit", "wait", "ended"}
    /\ visit \subseteq Files /\ newSpecs \subseteq Files
    /\ wanted \in [Files -> Versions \cup {None}]
    /\ todo \subseteq Files /\ upToDate \subseteq Files /\ failed \subseteq Files
    /\ tmp \in [Files -> Contents \cup {None}]
    /\ fresh \subseteq Files
    /\ current \in Files \cup {None}
    /\ (current # None) = (pc \in {"unregister", "reload"})
    /\ changed \in BOOLEAN

NoSync ==
    /\ wanted' = Nothing /\ todo' = {} /\ upToDate' = {} /\ failed' = {}
    /\ tmp' = Nothing /\ fresh' = {} /\ current' = None /\ changed' = FALSE

Init ==
    /\ policy = Files /\ store = Published
    /\ cache = None /\ changes = 0
    /\ disk = Nothing /\ loaded = Nothing /\ registry = {} /\ specs = {}
    /\ ctx = "live" /\ caller = "none" /\ pc = "start"
    /\ collector = "names" /\ visit = {} /\ newSpecs = {}
    /\ wanted = Nothing /\ todo = {} /\ upToDate = {} /\ failed = {}
    /\ tmp = Nothing /\ fresh = {} /\ current = None /\ changed = FALSE

-----------------------------------------------------------------------------
(* The manager *)

\* The administrator publishes a file, withdraws it, or edits plugins.yaml.
Administrate ==
    /\ changes < MaxChanges
    /\ changes' = changes + 1
    /\ \/ /\ \E f \in Files, v \in Versions \cup {None} :
                store' = [store EXCEPT ![f] = v]
          /\ UNCHANGED policy
       \/ policy' \in SUBSET Files /\ UNCHANGED store
    /\ UNCHANGED <<cache, pluginVars, ctx, caller, pc, collectorVars, syncVars>>

\* A file whose checksum cannot be computed is left out.
Policies == [f \in Files |-> IF f \in policy THEN store[f] ELSE None]

\* loadPluginsPolicies: computed again when the cache is older than ten seconds.
LoadPluginsPolicies(answer) ==
    \/ cache # None /\ answer = cache /\ UNCHANGED cache
    \/ answer = Policies /\ cache' = answer

-----------------------------------------------------------------------------
(* Loading *)

\* Loader.load of what is in the directory: it registers the plugin and records
\* its checksum, or fails and leaves both as they are.
Runs(content) == content \in Versions

\* fault: the version is the one the manager listed.
LoadsWanted(f, content) ==
    /\ Runs(content) /\ f \notin registry
    /\ loaded' = [loaded EXCEPT ![f] = [version |-> wanted[f], alive |-> TRUE]]
    /\ registry' = registry \cup {f}

Loads(f, content) ==
    /\ Runs(content) /\ f \notin registry
    /\ loaded' = [loaded EXCEPT ![f] = [version |-> content, alive |-> TRUE]]
    /\ registry' = registry \cup {f}

\* The process starts: every file of the directory is loaded, those that cannot
\* be are skipped, then the builtins are registered.
Start ==
    /\ ctx # "dead" /\ pc = "start"
    /\ \E good \in SUBSET {f \in Files : Runs(disk[f])} :
        /\ loaded' = [f \in Files |->
                        IF f \in good THEN [version |-> disk[f], alive |-> TRUE]
                        ELSE None]
        /\ registry' = good
    /\ pc' = "idle"
    /\ UNCHANGED <<managerVars, disk, ctx, caller, collectorVars, syncVars>>

-----------------------------------------------------------------------------
(* The task plugins:sync *)

\* It can be asked for once the builtins are registered.
Ask ==
    /\ ctx # "dead" /\ caller = "none" /\ pc # "start"
    /\ caller' = "asking"
    /\ UNCHANGED <<managerVars, pluginVars, ctx, pc, collectorVars, syncVars>>

\* fault: the task does not wait for the changes.
TakeAndRelease ==
    /\ ctx # "dead" /\ pc = "idle" /\ caller = "asking"
    /\ caller' = "none" /\ pc' = "list"
    /\ UNCHANGED <<managerVars, pluginVars, ctx, collectorVars, syncVars>>

\* s.req <- struct{}{}
TakeRequest ==
    /\ ctx # "dead" /\ pc = "idle" /\ caller = "asking"
    /\ caller' = "waiting" /\ pc' = "list"
    /\ UNCHANGED <<managerVars, pluginVars, ctx, collectorVars, syncVars>>

\* fault: nothing is answered when nothing changed.
RespondOnChange ==
    /\ ctx # "dead" /\ pc = "respond"
    /\ caller' = IF changed THEN "none" ELSE caller
    /\ pc' = IF changed THEN "notify" ELSE "idle"
    /\ NoSync
    /\ UNCHANGED <<managerVars, pluginVars, ctx, collectorVars>>

\* resp <- ret; the task is there to take it.
Respond ==
    /\ ctx # "dead" /\ pc = "respond" /\ caller = "waiting"
    /\ caller' = "none"
    /\ pc' = IF changed THEN "notify" ELSE "idle"
    /\ NoSync
    /\ UNCHANGED <<managerVars, pluginVars, ctx, collectorVars>>

\* fault: the collector is woken up without looking at the context.
NotifyOnly ==
    /\ ctx # "dead" /\ pc = "notify" /\ collector = "wait"
    /\ collector' = "names" /\ pc' = "idle"
    /\ UNCHANGED <<managerVars, pluginVars, ctx, caller, specs, visit, newSpecs,
                   syncVars>>

\* specsSync <- struct{}{}, unless the context ends.
Notify ==
    /\ ctx # "dead" /\ pc = "notify"
    /\ \/ collector = "wait" /\ collector' = "names"
       \/ ctx = "cancelled" /\ UNCHANGED collector
    /\ pc' = "idle"
    /\ UNCHANGED <<managerVars, pluginVars, ctx, caller, specs, visit, newSpecs,
                   syncVars>>

EndKeeper ==
    /\ ctx = "cancelled" /\ pc = "idle"
    /\ pc' = "ended"
    /\ UNCHANGED <<managerVars, pluginVars, ctx, caller, collectorVars, syncVars>>

-----------------------------------------------------------------------------
(* One synchronisation: updatePlugins *)

Syncing(label) == ctx # "dead" /\ pc = label

\* ListNodePlugins answers, or the query fails.
ListPlugins ==
    /\ Syncing("list")
    /\ \/ /\ \E answer \in [Files -> Versions \cup {None}] :
                /\ LoadPluginsPolicies(answer)
                /\ wanted' = answer
                /\ todo' = {f \in Files : answer[f] # None}
          /\ pc' = "download"
       \/ pc' = "respond" /\ UNCHANGED <<cache, wanted, todo>>
    /\ UNCHANGED <<policy, store, changes, pluginVars, ctx, caller, collectorVars,
                   upToDate, failed, tmp, fresh, current, changed>>

IsUpToDate(f) == loaded[f] # None /\ loaded[f].version = wanted[f]

\* Loader.DownloadPlugins looks at one file.  What the server has now may not be
\* what was listed; a download that breaks leaves what it had written.
Download(f) ==
    /\ Syncing("download") /\ f \in todo
    /\ todo' = todo \ {f}
    /\ \/ /\ IsUpToDate(f)
          /\ upToDate' = upToDate \cup {f} /\ UNCHANGED <<failed, tmp>>
       \/ /\ ~IsUpToDate(f) /\ store[f] # None
          /\ tmp' = [tmp EXCEPT ![f] = store[f]] /\ UNCHANGED <<upToDate, failed>>
       \/ /\ ~IsUpToDate(f)
          /\ failed' = failed \cup {f}
          /\ \/ UNCHANGED tmp
             \/ store[f] # None /\ tmp' = [tmp EXCEPT ![f] = Partial]
          /\ UNCHANGED upToDate
    /\ UNCHANGED <<managerVars, pluginVars, ctx, caller, pc, collectorVars, wanted,
                   fresh, current, changed>>

\* Loader.Update discovers what is in the temporary directory.
Discover ==
    /\ Syncing("download") /\ todo = {}
    /\ todo' = {f \in Files : tmp[f] # None}
    /\ pc' = "install"
    /\ UNCHANGED <<managerVars, pluginVars, ctx, caller, collectorVars, wanted,
                   upToDate, failed, tmp, fresh, current, changed>>

\* os.Rename and load, each of which may fail.
Replace(f) ==
    \/ UNCHANGED <<pluginVars, tmp, fresh, changed>>
    \/ /\ disk' = [disk EXCEPT ![f] = tmp[f]]
       /\ tmp' = [tmp EXCEPT ![f] = None]
       /\ \/ UNCHANGED <<loaded, registry, fresh, changed>>
          \/ /\ Loads(f, tmp[f])
             /\ fresh' = fresh \cup {f} /\ changed' = TRUE

InstallNew(f) ==
    /\ Syncing("install") /\ f \in todo /\ loaded[f] = None
    /\ Replace(f)
    /\ todo' = todo \ {f}
    /\ UNCHANGED <<managerVars, ctx, caller, pc, collectorVars, wanted, upToDate,
                   failed, current>>

\* An outdated plugin is stopped before it is unregistered, and its file replaced
\* after that.
Kill(f) ==
    /\ Syncing("install") /\ f \in todo /\ loaded[f] # None
    /\ loaded' = [loaded EXCEPT ![f].alive = FALSE]
    /\ todo' = todo \ {f} /\ current' = f /\ pc' = "unregister"
    /\ UNCHANGED <<managerVars, disk, registry, ctx, caller, collectorVars, wanted,
                   upToDate, failed, tmp, fresh, changed>>

\* fault: the plugin that was stopped stays in the registry.
UnregisterForgets ==
    /\ Syncing("unregister")
    /\ pc' = "reload"
    /\ UNCHANGED <<managerVars, pluginVars, ctx, caller, collectorVars, syncVars>>

\* Registry.Unregister, whose error for a plugin that is not there is only kept.
Unregister ==
    /\ Syncing("unregister")
    /\ registry' = registry \ {current}
    /\ pc' = "reload"
    /\ UNCHANGED <<managerVars, disk, loaded, ctx, caller, collectorVars, syncVars>>

Reload ==
    /\ Syncing("reload")
    /\ Replace(current)
    /\ current' = None /\ pc' = "install"
    /\ UNCHANGED <<managerVars, ctx, caller, collectorVars, wanted, todo, upToDate,
                   failed>>

Installed ==
    /\ Syncing("install") /\ todo = {}
    /\ todo' = {f \in Files : loaded[f] # None}
    /\ pc' = "remove"
    /\ UNCHANGED <<managerVars, pluginVars, ctx, caller, collectorVars, wanted,
                   upToDate, failed, tmp, fresh, current, changed>>

\* Up to date plugins and those just loaded stay; one that is not registered
\* cannot be unregistered, and stays too.
Stays(f) == f \in upToDate \/ f \in fresh \/ f \notin registry

Keep(f) ==
    /\ Syncing("remove") /\ f \in todo /\ Stays(f)
    /\ todo' = todo \ {f}
    /\ fresh' = IF f \in upToDate THEN fresh \cup {f} ELSE fresh
    /\ UNCHANGED <<managerVars, pluginVars, ctx, caller, pc, collectorVars, wanted,
                   upToDate, failed, tmp, current, changed>>

Removed ==
    /\ Syncing("remove") /\ todo = {}
    /\ pc' = "respond"
    /\ UNCHANGED <<managerVars, pluginVars, ctx, caller, collectorVars, syncVars>>

-----------------------------------------------------------------------------
(* The end of the process *)

\* Memory is lost; the directory stays, and the manager does not notice.
Dies ==
    /\ ctx' = "dead"
    /\ loaded' = Nothing /\ registry' = {} /\ specs' = {}
    /\ caller' = "none" /\ pc' = "start" /\ collector' = "names" /\ visit' = {}
    /\ newSpecs' = {}
    /\ NoSync
    /\ UNCHANGED <<managerVars, disk>>

\* The removal of a plugin: unregistered, its file not found in the working
\* directory, and l.plugins[p.name], which is keyed by path, has no client:
\* the process panics.
Remove(f) ==
    /\ Syncing("remove") /\ f \in todo /\ ~Stays(f)
    /\ Dies

Crash == ctx # "dead" /\ Dies

\* run's deferred function: it waits for the goroutines, or kills the plugins
\* after a while, which has to wait for the synchronisation under way.
Exit ==
    /\ ctx = "cancelled"
    /\ pc \notin {"list", "download", "install", "unregister", "reload", "remove"}
    /\ Dies

Stop ==
    /\ ctx = "live"
    /\ ctx' = "cancelled"
    /\ UNCHANGED <<managerVars, pluginVars, caller, pc, collectorVars, syncVars>>

Restart ==
    /\ ctx = "dead"
    /\ ctx' = "live"
    /\ UNCHANGED <<managerVars, pluginVars, caller, pc, collectorVars, syncVars>>

-----------------------------------------------------------------------------
(* The specs collector *)

Collecting(label) == ctx # "dead" /\ collector = label

\* Registry.Names
Names ==
    /\ Collecting("names")
    /\ collector' = "visit" /\ visit' = registry /\ newSpecs' = {}
    /\ UNCHANGED <<managerVars, pluginVars, specs, ctx, caller, pc, syncVars>>

HasSpecs(f) ==
    f \in registry /\ loaded[f].alive /\ loaded[f].version \in Gathering

\* Registry.Get and CollectSpecs: a plugin that is gone or stopped, or that fails,
\* has none.
CollectSpecs(f) ==
    /\ Collecting("visit") /\ f \in visit
    /\ visit' = visit \ {f}
    /\ \/ HasSpecs(f) /\ newSpecs' = newSpecs \cup {f}
       \/ UNCHANGED newSpecs
    /\ UNCHANGED <<managerVars, pluginVars, specs, ctx, caller, pc, collector,
                   syncVars>>

\* fault: the new specs are added to the old ones.
Merged ==
    /\ Collecting("visit") /\ visit = {}
    /\ specs' = specs \cup newSpecs /\ newSpecs' = {}
    /\ collector' = "wait"
    /\ UNCHANGED <<managerVars, pluginVars, ctx, caller, pc, visit, syncVars>>

\* The new map replaces the old one.
Collected ==
    /\ Collecting("visit") /\ visit = {}
    /\ specs' = newSpecs /\ newSpecs' = {}
    /\ collector' = "wait"
    /\ UNCHANGED <<managerVars, pluginVars, ctx, caller, pc, visit, syncVars>>

Tick ==
    /\ Collecting("wait")
    /\ collector' = "names"
    /\ UNCHANGED <<managerVars, pluginVars, specs, ctx, caller, pc, visit, newSpecs,
                   syncVars>>

EndCollector ==
    /\ ctx = "cancelled" /\ collector = "wait"
    /\ collector' = "ended"
    /\ UNCHANGED <<managerVars, pluginVars, specs, ctx, caller, pc, visit, newSpecs,
                   syncVars>>

-----------------------------------------------------------------------------
SyncStep ==
    \/ ListPlugins \/ Discover \/ Unregister \/ Reload \/ Installed \/ Removed
    \/ \E f \in Files : \/ Download(f) \/ InstallNew(f) \/ Kill(f)
                         \/ Keep(f) \/ Remove(f)

KeeperStep == Start \/ TakeRequest \/ SyncStep \/ Respond \/ Notify

CollectorStep ==
    Names \/ (\E f \in Files : CollectSpecs(f)) \/ Collected \/ Tick

Next ==
    \/ Administrate \/ Ask
    \/ KeeperStep \/ EndKeeper
    \/ CollectorStep \/ EndCollector
    \/ Stop \/ Exit \/ Crash \/ Restart

Spec == Init /\ [][Next]_vars

\* Goroutines run, and a select with two ready cases takes each of them in the
\* end.  Nothing is assumed of administrators, callers, stops and crashes.
FairSpec ==
    /\ Spec
    /\ WF_vars(KeeperStep) /\ SF_vars(EndKeeper)
    /\ WF_vars(CollectorStep) /\ SF_vars(EndCollector)

-----------------------------------------------------------------------------
(* Properties *)

\* The registry has the plugins that run, although Update may fail between the
\* steps of a replacement.  A plugin that was stopped is in it only from Kill to
\* Unregister, under a task plugins:sync that still waits, and so keeps every other
\* task from being sent to it: the collector and effectiveLockMode can meet it there.
Live == {f \in Files : loaded[f] # None /\ loaded[f].alive}
RegistryServesLive ==
    /\ Live \subseteq registry
    /\ \A f \in registry \ Live :
            f = current /\ pc = "unregister" /\ caller = "waiting"

\* A plugin that runs was started from what its file holds: what it reports as
\* its version, hence what the next synchronisation finds up to date, is what
\* is there, whatever the manager listed and served in between.
AliveRunsDiskVersion ==
    \A f \in Files : loaded[f] # None /\ loaded[f].alive =>
        disk[f] = loaded[f].version

\* While the process runs and has started, plugins come and go only under a task
\* plugins:sync that waits for it: what keeps other tasks away from that task
\* keeps them away from a replacement.
RegistryStable ==
    [][caller # "waiting" /\ pc # "start" /\ ctx' # "dead" => UNCHANGED registry]_vars

\* A synchronisation that the keeper took up is answered while the process lasts,
\* whatever the manager and the plugins do.
SyncAnswered == (caller = "waiting") ~> (caller = "none")

\* Once the context is cancelled both goroutines end: neither the keeper, waiting
\* to wake up the collector, nor a collector that has gone holds the other.
GoroutinesEnd ==
    (ctx = "cancelled") ~> (ctx = "dead" \/ (pc = "ended" /\ collector = "ended"))

\* The specs of a plugin that went away, or came in a version that has none, do not
\* stay: they are gone after the next rounds of the collector, unless the plugin is
\* back as it was or the node stops.
StaleSpecsLeave ==
    \A f \in Files :
        (f \in specs /\ ~HasSpecs(f)) ~> (f \notin specs \/ HasSpecs(f) \/ ctx # "live")

\* plugin_mgmt.go: "It adds, updates and removes the plugins following the manager
\* configuration.": removing a plugin leaves the node running.
RemovalSurvives == [][\A f \in Files : Remove(f) => ctx' # "dead"]_vars
=============================================================================
