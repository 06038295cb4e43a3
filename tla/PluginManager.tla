---------------------------- MODULE PluginManager ----------------------------
(***************************************************************************)
(* PluginManager of the plugin framework.  Every public operation takes    *)
(* mutex_ once and runs the plugin's hooks under it, so it is one step; an *)
(* operation that takes the lock several times (unloadPlugin, the batch    *)
(* operations, the start request of the debug server) is a sequence of     *)
(* such steps, between which other threads run.                            *)
(*                                                                         *)
(* A plugin object lives from create_plugin to destroy_plugin; `object`    *)
(* records which hooks it has seen.                                        *)
(***************************************************************************)
EXTENDS DependencyResolver, Functions

CONSTANTS
    Threads,       \* threads that call the manager
    Owner,         \* the thread that destroys it at the end
    Names,         \* plugin names
    Directories,   \* contents the plugin directory may have: the metadata
                   \* files by stem and the names whose library loads
    Menu,          \* Menu[t]: the operations a thread may call
    MaxCalls,      \* bound: calls of each thread
    MaxObjects,    \* bound: objects created
    HooksMayFail   \* whether a plugin's hooks may return false

\* what the manager does for one plugin, and what for all
NamedOps == {"load", "initialize", "start", "stop", "unload", "request"}
Operations == NamedOps \cup {"scan", "loadAll", "startAll", "stopAll", "unloadAll"}

\* Names are ordered and finitely many; what is on disk goes by such names.
ManagerAssumption ==
    /\ Owner \in Threads
    /\ Names \subseteq Nat /\ IsFiniteSet(Names)
    /\ \A d \in Directories :
          /\ d.libs \subseteq Names /\ DOMAIN d.files \subseteq Names
          /\ \A f \in DOMAIN d.files : d.files[f].name \in Names
    /\ \A t \in Threads : Menu[t] \subseteq Operations

VARIABLES
    dir,               \* what is on disk
    metadata_cache_,   \* name -> dependencies
    loaded_plugins_,   \* name -> [state, instance]
    object,            \* the life of each plugin object
    call,              \* the call each thread is in
    calls,             \* calls each thread has made
    dying              \* the destructor has begun

vars == <<dir, metadata_cache_, loaded_plugins_, object, call, calls, dying>>

NoObject == 0
States == {"Loaded", "Initialized", "Running", "Stopped", "Error"}

Idle == [op |-> "none", at |-> "idle", name |-> 0, todo |-> <<>>, ok |-> TRUE,
         held |-> {}, alone |-> TRUE, raced |-> FALSE]

Loaded == DOMAIN loaded_plugins_
InState(s) == {n \in Loaded : loaded_plugins_[n].state = s}
SetState(n, s) == loaded_plugins_' = [loaded_plugins_ EXCEPT ![n].state = s]
Without(f, n) == Restrict(f, DOMAIN f \ {n})
With(f, n, v) == [m \in DOMAIN f \cup {n} |-> IF m = n THEN v ELSE f[m]]

Init ==
    /\ dir \in Directories
    /\ metadata_cache_ = <<>>
    /\ loaded_plugins_ = <<>>
    /\ object = <<>>
    /\ call = [t \in Threads |-> Idle]
    /\ calls = [t \in Threads |-> 0]
    /\ dying = FALSE

-----------------------------------------------------------------------------
(* One critical section each.  `ok` is what the operation returns.          *)

\* files that do not parse are as good as absent; a later file of the same
\* declared name replaces an earlier one
scanAvailablePlugins ==
    /\ metadata_cache_' =
           [n \in {dir.files[f].name : f \in DOMAIN dir.files} |->
               dir.files[CHOOSE f \in DOMAIN dir.files : dir.files[f].name = n].dependencies]
    /\ UNCHANGED <<loaded_plugins_, object>>

\* the metadata found on disk is cached even if the plugin is then refused
CacheFor(n) ==
    IF n \notin DOMAIN metadata_cache_ /\ n \in DOMAIN dir.files
    THEN With(metadata_cache_, n, dir.files[n].dependencies)
    ELSE metadata_cache_

loadPlugin(n, ok) ==
    /\ UNCHANGED object
    /\ \/ /\ n \in Loaded
          /\ ok
          /\ UNCHANGED <<metadata_cache_, loaded_plugins_>>
       \/ /\ n \notin Loaded
          /\ metadata_cache_' = CacheFor(n)
          /\ ok = (checkDependencies(n, CacheFor(n)) /\ n \in dir.libs)
          /\ loaded_plugins_' =
                 IF ok THEN With(loaded_plugins_, n, [state |-> "Loaded", instance |-> NoObject])
                 ELSE loaded_plugins_

\* create_plugin may return null, initialize() may refuse
initializePlugin(n, ok) ==
    /\ UNCHANGED metadata_cache_
    /\ \/ /\ n \notin InState("Loaded")
          /\ ~ok
          /\ UNCHANGED <<loaded_plugins_, object>>
       \/ /\ n \in InState("Loaded")
          /\ Len(object) < MaxObjects
          /\ ok \/ HooksMayFail
          /\ object' = Append(object, IF ok THEN "initialized" ELSE "failed")
          /\ loaded_plugins_' =
                 [loaded_plugins_ EXCEPT ![n] =
                     [state |-> IF ok THEN "Initialized" ELSE "Error", instance |-> Len(object) + 1]]
       \/ /\ n \in InState("Loaded")
          /\ ~ok /\ HooksMayFail
          /\ SetState(n, "Error")
          /\ UNCHANGED object

\* start() and stop(): from one state to the next, or to Error
RunHook(n, ok, from, to, after) ==
    /\ UNCHANGED metadata_cache_
    /\ \/ /\ n \notin InState(from)
          /\ ~ok
          /\ UNCHANGED <<loaded_plugins_, object>>
       \/ /\ n \in InState(from)
          /\ ok \/ HooksMayFail
          /\ SetState(n, IF ok THEN to ELSE "Error")
          /\ object' = [object EXCEPT ![loaded_plugins_[n].instance] =
                            IF ok THEN after ELSE "failed"]

startPlugin(n, ok) == RunHook(n, ok, "Initialized", "Running", "running")

stopPlugin(n, ok) == RunHook(n, ok, "Running", "Stopped", "stopped")

-----------------------------------------------------------------------------
(* The calls                                                                *)

At(t, op, at) == call[t].op = op /\ call[t].at = at
Goto(t, c) == call' = [call EXCEPT ![t] = c]
Return(t, ok) == Goto(t, [call[t] EXCEPT !.at = "returned", !.ok = ok])

\* `alone`: no other thread was in a call at any time during this one
Begin(t, op, n) ==
    /\ call[t].at = "idle" /\ ~dying
    /\ calls[t] < MaxCalls
    /\ calls' = [calls EXCEPT ![t] = @ + 1]
    /\ call' = [u \in Threads |->
           IF u = t THEN [Idle EXCEPT !.op = op, !.at = "begin", !.name = n,
                             !.alone = \A v \in Threads \ {t} : call[v].at = "idle"]
           ELSE [call[u] EXCEPT !.alone = call[u].at = "idle"]]
    /\ UNCHANGED <<dir, metadata_cache_, loaded_plugins_, object, dying>>

Finish(t) ==
    /\ call[t].at = "returned"
    /\ Goto(t, Idle)
    /\ UNCHANGED <<dir, metadata_cache_, loaded_plugins_, object, calls, dying>>

\* the destructor, when nobody uses the manager any more
Destroy ==
    /\ ~dying
    /\ \A t \in Threads : call[t].at = "idle"
    /\ dying' = TRUE
    /\ Goto(Owner, [Idle EXCEPT !.op = "unloadAll", !.at = "begin"])
    /\ UNCHANGED <<dir, metadata_cache_, loaded_plugins_, object, calls>>

\* operations that are one critical section
Single(t) ==
    /\ call[t].at = "begin"
    /\ LET n == call[t].name IN
       \E ok \in BOOLEAN :
          /\ \/ call[t].op = "scan" /\ ok /\ scanAvailablePlugins
             \/ call[t].op = "load" /\ loadPlugin(n, ok)
             \/ call[t].op = "initialize" /\ initializePlugin(n, ok)
             \/ call[t].op = "start" /\ startPlugin(n, ok)
             \/ call[t].op = "stop" /\ stopPlugin(n, ok)
          /\ call' = [u \in Threads |->
                 IF u = t THEN [call[t] EXCEPT !.at = "returned", !.ok = ok]
                 ELSE [call[u] EXCEPT !.raced = @ \/ (call[t].op = "start" /\ ok)]]
    /\ UNCHANGED <<dir, calls, dying>>

\* unloadPlugin: look, stop if running, take the record out, then destroy
\* the object without the lock
UnloadLook(t) ==
    /\ At(t, "unload", "begin")
    /\ LET n == call[t].name IN
       \/ n \notin Loaded /\ Return(t, FALSE)
       \/ n \in InState("Running") /\ Goto(t, [call[t] EXCEPT !.at = "stop", !.raced = FALSE])
       \/ n \in Loaded \ InState("Running")
          /\ Goto(t, [call[t] EXCEPT !.at = "take", !.raced = FALSE])
    /\ UNCHANGED <<dir, metadata_cache_, loaded_plugins_, object, calls, dying>>

UnloadStop(t) ==
    /\ At(t, "unload", "stop")
    /\ \E ok \in BOOLEAN : stopPlugin(call[t].name, ok)
    /\ Goto(t, [call[t] EXCEPT !.at = "take"])
    /\ UNCHANGED <<dir, calls, dying>>

\* A wrong UnloadTake, that leaves the record in the map.
UnloadTakeKeeps(t) ==
    /\ At(t, "unload", "take")
    /\ LET n == call[t].name IN
       IF n \notin Loaded
       THEN Return(t, FALSE) /\ UNCHANGED loaded_plugins_
       ELSE /\ Goto(t, [call[t] EXCEPT !.at = "destroy",
                                       !.held = {loaded_plugins_[n].instance} \ {NoObject}])
            /\ UNCHANGED loaded_plugins_
    /\ UNCHANGED <<dir, metadata_cache_, object, calls, dying>>

UnloadTake(t) ==
    /\ At(t, "unload", "take")
    /\ LET n == call[t].name IN
       IF n \notin Loaded
       THEN Return(t, FALSE) /\ UNCHANGED loaded_plugins_
       ELSE /\ Goto(t, [call[t] EXCEPT !.at = "destroy",
                                       !.held = {loaded_plugins_[n].instance} \ {NoObject}])
            /\ loaded_plugins_' = Without(loaded_plugins_, n)
    /\ UNCHANGED <<dir, metadata_cache_, object, calls, dying>>

\* unload() and destroy_plugin of everything taken out
DestroyHeld(t) ==
    /\ call[t].at = "destroy"
    /\ \/ \E i \in call[t].held :
             /\ \A j \in call[t].held : i <= j
             /\ object' = [object EXCEPT ![i] = "destroyed"]
             /\ Goto(t, [call[t] EXCEPT !.held = @ \ {i}])
       \/ call[t].held = {} /\ Return(t, TRUE) /\ UNCHANGED object
    /\ UNCHANGED <<dir, metadata_cache_, loaded_plugins_, calls, dying>>

-----------------------------------------------------------------------------
(* Batch operations: collect names under the lock, then work through them   *)

Collect(t, op, at, S, next) ==
    /\ At(t, op, at)
    /\ Goto(t, [call[t] EXCEPT !.at = next, !.todo = MapOrder(S), !.raced = FALSE])
    /\ UNCHANGED <<dir, metadata_cache_, loaded_plugins_, object, calls, dying>>

StartAllCollects(t) ==
    \/ Collect(t, "startAll", "begin", InState("Loaded"), "initialize")
    \/ Collect(t, "startAll", "initialized", InState("Initialized"), "start")
StopAllCollects(t) ==
    \/ Collect(t, "stopAll", "begin", InState("Running"), "stop")
    \/ Collect(t, "unloadAll", "begin", InState("Running"), "stop")

\* loadAll scans, and then reads metadata_cache_ without the lock: while
\* another thread writes it, what is read may be any part of it
LoadAllScans(t) ==
    /\ At(t, "loadAll", "begin")
    /\ scanAvailablePlugins
    /\ Goto(t, [call[t] EXCEPT !.at = "order"])
    /\ UNCHANGED <<dir, calls, dying>>

CacheMayChange(t) ==
    \E u \in Threads \ {t} : call[u].op \in {"scan", "load", "loadAll"} /\ call[u].at \in {"begin", "load"}

LoadAllOrders(t) ==
    /\ At(t, "loadAll", "order")
    /\ \E seen \in IF CacheMayChange(t) THEN SUBSET DOMAIN metadata_cache_
                   ELSE {DOMAIN metadata_cache_} :
         LET plugins == Restrict(metadata_cache_, seen) IN
         IF ResolveThrows(plugins) THEN Return(t, FALSE)
         ELSE Goto(t, [call[t] EXCEPT !.at = "load", !.todo = resolveLoadOrder(plugins)])
    /\ UNCHANGED <<dir, metadata_cache_, loaded_plugins_, object, calls, dying>>

\* One element of the list.  startAll gives up at the first failure, the
\* others go on and remember it.
BatchStep(t) ==
    /\ call[t].op \in {"loadAll", "startAll", "stopAll", "unloadAll"}
    /\ call[t].at \in {"load", "initialize", "start", "stop"}
    /\ call[t].todo # <<>>
    /\ \E ok \in BOOLEAN :
         LET n == Head(call[t].todo)
             rest == [call[t] EXCEPT !.todo = Tail(@), !.ok = @ /\ ok]
         IN /\ \/ call[t].at = "load" /\ loadPlugin(n, ok)
               \/ call[t].at = "initialize" /\ initializePlugin(n, ok)
               \/ call[t].at = "start" /\ startPlugin(n, ok)
               \/ call[t].at = "stop" /\ stopPlugin(n, ok)
            /\ call' = [u \in Threads |->
                   IF u = t
                   THEN IF call[t].op = "startAll" /\ ~ok THEN [rest EXCEPT !.at = "returned"] ELSE rest
                   ELSE [call[u] EXCEPT !.raced = @ \/ (call[t].at = "start" /\ ok)]]
    /\ UNCHANGED <<dir, calls, dying>>

BatchEnd(t) ==
    /\ call[t].op \in {"loadAll", "startAll", "stopAll", "unloadAll"}
    /\ call[t].at \in {"load", "initialize", "start", "stop"}
    /\ call[t].todo = <<>>
    /\ \/ call[t].op = "startAll" /\ call[t].at = "initialize"
          /\ Goto(t, [call[t] EXCEPT !.at = "initialized"])
       \/ call[t].op = "unloadAll" /\ Goto(t, [call[t] EXCEPT !.at = "take"])
       \/ call[t].op # "unloadAll" /\ call[t].at # "initialize" /\ Return(t, call[t].ok)
    /\ UNCHANGED <<dir, metadata_cache_, loaded_plugins_, object, calls, dying>>

\* unloadAll takes whatever is there, running or not
UnloadAllTakes(t) ==
    /\ At(t, "unloadAll", "take")
    /\ loaded_plugins_' = <<>>
    /\ Goto(t, [call[t] EXCEPT !.at = "destroy",
                    !.held = {loaded_plugins_[n].instance : n \in Loaded} \ {NoObject}])
    /\ UNCHANGED <<dir, metadata_cache_, object, calls, dying>>

-----------------------------------------------------------------------------
(* handleStartPlugin of the debug server: what it does depends on a state    *)
(* it read before                                                           *)

RequestLooks(t) ==
    /\ At(t, "request", "begin")
    /\ LET n == call[t].name IN
       \/ n \in InState("Running") /\ Return(t, TRUE)
       \/ n \in InState("Loaded") /\ Goto(t, [call[t] EXCEPT !.at = "initialize"])
       \/ n \in InState("Initialized") /\ Goto(t, [call[t] EXCEPT !.at = "start"])
       \/ /\ n \notin InState("Running") \cup InState("Loaded") \cup InState("Initialized")
          /\ Goto(t, [call[t] EXCEPT !.at = "load"])
    /\ UNCHANGED <<dir, metadata_cache_, loaded_plugins_, object, calls, dying>>

RequestStep(t) ==
    /\ call[t].op = "request"
    /\ \E ok \in BOOLEAN :
         LET n == call[t].name
             Next(at) == [call[t] EXCEPT !.at = IF ok THEN at ELSE "returned", !.ok = ok]
         IN \/ call[t].at = "load" /\ loadPlugin(n, ok) /\ Goto(t, Next("initialize"))
            \/ call[t].at = "initialize" /\ initializePlugin(n, ok) /\ Goto(t, Next("start"))
            \/ /\ call[t].at = "start" /\ startPlugin(n, ok)
               /\ call' = [u \in Threads |-> IF u = t THEN Next("returned")
                              ELSE [call[u] EXCEPT !.raced = @ \/ ok]]
    /\ UNCHANGED <<dir, calls, dying>>

-----------------------------------------------------------------------------
Step(t) ==
    \/ Finish(t) \/ Single(t)
    \/ UnloadLook(t) \/ UnloadStop(t) \/ UnloadTake(t) \/ DestroyHeld(t)
    \/ StartAllCollects(t) \/ StopAllCollects(t)
    \/ LoadAllScans(t) \/ LoadAllOrders(t)
    \/ BatchStep(t) \/ BatchEnd(t) \/ UnloadAllTakes(t)
    \/ RequestLooks(t) \/ RequestStep(t)

Calls(t) ==
    \/ \E op \in Menu[t] \cap NamedOps, n \in Names : Begin(t, op, n)
    \/ \E op \in Menu[t] \ NamedOps : Begin(t, op, 0)

Gone == dying /\ call[Owner].at = "idle"

Next ==
    \/ \E t \in Threads : Calls(t) \/ Step(t)
    \/ Destroy
    \/ Gone /\ UNCHANGED vars

Spec == Init /\ [][Next]_vars

-----------------------------------------------------------------------------
(* What makes the manager correct *)

TypeOK ==
    /\ dir \in Directories
    /\ DOMAIN metadata_cache_ \subseteq Names
    /\ Loaded \subseteq Names
    /\ \A n \in Loaded : /\ loaded_plugins_[n].state \in States
                         /\ loaded_plugins_[n].instance \in 0..Len(object)
    /\ Range(object) \subseteq {"initialized", "running", "stopped", "failed", "destroyed"}
    /\ \A t \in Threads : call[t].held \subseteq 1..Len(object)
    /\ dying \in BOOLEAN

\* A plugin object that is alive belongs to exactly one record, or to exactly
\* one thread that took the record out to destroy it: whatever unloadPlugin,
\* unloadAll and initializePlugin do to each other, none is lost and none is
\* destroyed twice.
OneOwner ==
    \A i \in DOMAIN object :
        LET records == {n \in Loaded : loaded_plugins_[n].instance = i}
            holders == {t \in Threads : i \in call[t].held}
        IN Cardinality(records) + Cardinality(holders)
               = IF object[i] = "destroyed" THEN 0 ELSE 1

\* A plugin is stopped before it is unloaded, as unloadPlugin (line 183) and
\* unloadAll (line 377) mean to; the exception is a start by another thread
\* after they looked.
StopPrecedesUnload ==
    [][\A t \in Threads : \A i \in call[t].held :
           object[i] = "running" /\ object'[i] = "destroyed" => call[t].raced]_vars

\* A claim that the code does not keep, in no run: what
\* unloadPlugin and unloadAll say without that exception.
NeverUnloadedRunning ==
    [][\A i \in DOMAIN object : object[i] = "running" => object'[i] # "destroyed"]_vars

\* loadAll tries every plugin after the plugins it requires.
LoadsInOrder ==
    \A t \in Threads :
        At(t, "loadAll", "load") /\ call[t].alone =>
            \A i, j \in DOMAIN call[t].todo :
                Requires(metadata_cache_)[call[t].todo[i], call[t].todo[j]] => j < i

\* A batch operation that returns true, with no other call at the same time,
\* has done what its name says to every plugin: nothing is left behind
\* between its two looks at the map.
BatchesComplete ==
    \A t \in Threads :
        call[t].at = "returned" /\ call[t].ok /\ call[t].alone =>
            /\ call[t].op = "loadAll" => DOMAIN metadata_cache_ \subseteq Loaded
            /\ call[t].op = "startAll" => InState("Loaded") \cup InState("Initialized") = {}
            /\ call[t].op = "stopAll" => InState("Running") = {}
            /\ call[t].op = "unloadAll" => Loaded = {}

\* When the destructor has ended, no plugin object is alive.
NothingOutlivesManager == Gone => Range(object) \subseteq {"destroyed"}
=============================================================================
