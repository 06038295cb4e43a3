----------------------------- MODULE DebugServer -----------------------------
(***************************************************************************)
(* The robot debug server (robot_plugin_framework/examples): the requests  *)
(* of DebugAPI run on the HTTP server's pool threads and share, with the   *)
(* trajectory thread and the simulation thread of the hardware plugin, two *)
(* std::thread members, a plain bool and a few atomics, none of them under *)
(* a lock.  Main loads the plugin, starts the server, and shuts down.      *)
(*                                                                         *)
(* Assigning to or destroying a joinable std::thread ends the process;     *)
(* joining one that another thread has joined, or using a destroyed        *)
(* plugin, is undefined: each is recorded in `crashed`, and nothing        *)
(* happens after it.                                                       *)
(***************************************************************************)
EXTENDS Naturals, FiniteSets

CONSTANTS
    Handlers,      \* pool threads that serve requests
    Main, Motion,  \* the main thread, the trajectory thread
    Requests,      \* thread -> what clients may ask of it
    MaxRequests,   \* bound: requests in all
    Steps,         \* bound: steps of a trajectory
    BindMayFail,   \* whether the port may be taken
    MayThrow       \* whether memory or threads may run out

\* The actors are different threads; a request is a GET or a POST.
ServerAssumption ==
    /\ Main \notin Handlers /\ Motion \notin Handlers /\ Main # Motion
    /\ \A h \in Handlers : \A r \in Requests[h] : r.method \in {"GET", "POST"}
    /\ MaxRequests \in Nat /\ Steps \in Nat

VARIABLES
    plugin,      \* the manager's record of the hardware plugin, or what became of it
    simulating_, simulation_thread_,
    motion_executing_, motion_stop_requested_, motion_thread_, step,
    running_, server_thread_, listening,
    pc, back,    \* where each actor is; where it goes on after a call
    req, served, \* the request each handler serves; requests so far
    crashed,     \* what ended the process
    overlapped,  \* two actors were inside operations on one thread object
    meddled      \* a request touched the simulation during this trajectory

sim == <<simulating_, simulation_thread_>>
motion == <<motion_executing_, motion_stop_requested_, motion_thread_, step>>
server == <<running_, server_thread_, listening>>
control == <<pc, back>>
requests == <<req, served>>
ghost == <<overlapped, meddled>>
vars == <<plugin, sim, motion, server, control, requests, crashed, ghost>>

Actors == Handlers \cup {Main, Motion}

\* "taken": out of the map, not yet destroyed
HasInstance == plugin \in {"Initialized", "Running", "Stopped"}
Destroyed == plugin = "absent"
Joinable(thread) == thread # "none"

Go(a, label) == pc' = [pc EXCEPT ![a] = label] /\ UNCHANGED back
Call(a, label, after) ==
    pc' = [pc EXCEPT ![a] = label] /\ back' = [back EXCEPT ![a] = after]
Crash(why) == crashed' = why /\ UNCHANGED control
NoCrash == UNCHANGED crashed

Init ==
    /\ plugin = "absent"
    /\ simulating_ = FALSE /\ simulation_thread_ = "none"
    /\ motion_executing_ = FALSE /\ motion_stop_requested_ = FALSE
    /\ motion_thread_ = "none" /\ step = 0
    /\ running_ = FALSE /\ server_thread_ = "none" /\ listening = FALSE
    /\ pc = [a \in Actors |-> IF a = Main THEN "load" ELSE IF a = Motion THEN "off" ELSE "idle"]
    /\ back = [a \in Actors |-> "none"]
    /\ req = [h \in Handlers |-> "none"]
    /\ served = 0
    /\ crashed = "no" /\ overlapped = FALSE /\ meddled = FALSE

-----------------------------------------------------------------------------
(* MujocoHardwarePlugin: startSimulation, stopSimulation, the thread         *)

InSimulation(a) == pc[a] \in {"start2", "start3", "stop2", "stop3", "stop4"}

startSimulation(a) ==
    /\ \/ /\ pc[a] = "start1"
          /\ Go(a, IF simulating_ THEN back[a] ELSE "start2")
          /\ NoCrash /\ UNCHANGED sim
       \/ /\ pc[a] = "start2"
          /\ simulating_' = TRUE /\ Go(a, "start3")
          /\ NoCrash /\ UNCHANGED simulation_thread_
       \/ /\ pc[a] = "start3"
          /\ IF Joinable(simulation_thread_)
             THEN Crash("assigned a joinable thread") /\ UNCHANGED sim
             ELSE /\ simulation_thread_' = "running" /\ Go(a, back[a])
                  /\ NoCrash /\ UNCHANGED simulating_
       \/ /\ pc[a] = "start3" /\ MayThrow    \* no thread, and simulating_ stays true
          /\ CASE a = Main -> Crash("an exception left main")
               [] a = Motion -> Go(a, "caught") /\ NoCrash
               [] OTHER -> Go(a, back[a]) /\ NoCrash
          /\ UNCHANGED sim
    /\ UNCHANGED <<plugin, motion, server, requests>>

stopSimulation(a) ==
    /\ \/ /\ pc[a] = "stop1"
          /\ Go(a, IF simulating_ THEN "stop2" ELSE back[a])
          /\ NoCrash /\ UNCHANGED sim
       \/ /\ pc[a] = "stop2"
          /\ simulating_' = FALSE /\ Go(a, "stop3")
          /\ NoCrash /\ UNCHANGED simulation_thread_
       \/ /\ pc[a] = "stop3"
          /\ Go(a, IF Joinable(simulation_thread_) THEN "stop4" ELSE back[a])
          /\ NoCrash /\ UNCHANGED sim
       \/ /\ pc[a] = "stop4"
          /\ \/ /\ simulation_thread_ = "finished"
                /\ simulation_thread_' = "none" /\ Go(a, back[a])
                /\ NoCrash /\ UNCHANGED simulating_
             \/ /\ simulation_thread_ = "none"
                /\ Crash("joined twice") /\ UNCHANGED sim
    /\ UNCHANGED <<plugin, motion, server, requests>>

\* the simulation thread: a step uses the plugin, its end is the loop's test
SimulationThread ==
    /\ simulation_thread_ = "running"
    /\ IF Destroyed THEN Crash("used a destroyed plugin") /\ UNCHANGED sim
       ELSE /\ ~simulating_
            /\ simulation_thread_' = "finished"
            /\ NoCrash /\ UNCHANGED <<control, simulating_>>
    /\ UNCHANGED <<plugin, motion, server, requests>>

\* getState, the setters, getSensorData, stepSimulation and reset are each
\* one critical section of the plugin's mutex_
UsesPlugin(a, after) ==
    IF Destroyed THEN Crash("used a destroyed plugin") ELSE Go(a, after) /\ NoCrash

-----------------------------------------------------------------------------
(* The trajectory thread                                                    *)

MotionEnds(a) ==
    /\ motion_thread_' = "finished"
    /\ Go(a, "off")

executeTrajectory ==
    /\ LET a == Motion IN
       \/ /\ pc[a] = "fetch"     \* getHardware
          /\ IF HasInstance
             THEN Go(a, "enter") /\ UNCHANGED motion
             ELSE /\ motion_executing_' = FALSE /\ MotionEnds(a)
                  /\ UNCHANGED <<motion_stop_requested_, step>>
          /\ NoCrash
       \/ /\ pc[a] = "enter"
          /\ motion_executing_' = TRUE /\ Go(a, "forget")
          /\ NoCrash /\ UNCHANGED <<motion_stop_requested_, motion_thread_, step>>
       \/ /\ pc[a] = "forget"
          /\ motion_stop_requested_' = FALSE /\ step' = 0
          /\ Call(a, "stop1", "move")
          /\ NoCrash /\ UNCHANGED <<motion_executing_, motion_thread_>>
       \/ /\ pc[a] = "move"      \* setJointPositions and stepSimulation, or leave the loop
          /\ IF motion_stop_requested_ \/ step = Steps
             THEN Go(a, "settle") /\ NoCrash /\ UNCHANGED step
             ELSE UsesPlugin(a, "move") /\ step' = step + 1
          /\ UNCHANGED <<motion_executing_, motion_stop_requested_, motion_thread_>>
       \/ /\ pc[a] = "settle"    \* sixty more steps, unless stopped
          /\ IF motion_stop_requested_ THEN Go(a, "finish") /\ NoCrash ELSE UsesPlugin(a, "finish")
          /\ UNCHANGED motion
       \/ /\ pc[a] = "finish"
          /\ motion_executing_' = FALSE /\ Call(a, "start1", "exit")
          /\ NoCrash /\ UNCHANGED <<motion_stop_requested_, motion_thread_, step>>
       \/ /\ pc[a] \in {"fetch", "move"} /\ MayThrow
          /\ Go(a, "caught")
          /\ NoCrash /\ UNCHANGED motion
       \/ /\ pc[a] = "caught"    \* the catch blocks: startSimulation is not called
          /\ motion_executing_' = FALSE /\ MotionEnds(a)
          /\ NoCrash /\ UNCHANGED <<motion_stop_requested_, step>>
       \/ /\ pc[a] = "exit"
          /\ MotionEnds(a)
          /\ NoCrash /\ UNCHANGED <<motion_executing_, motion_stop_requested_, step>>
    /\ UNCHANGED <<plugin, sim, server, requests>>

-----------------------------------------------------------------------------
(* Requests.  setupRoutes gives each its method; a handler runs on the pool  *)
(* thread that received the request.                                        *)

setupRoutes ==
    [GET |-> {"scan", "metadata", "state", "loaded", "robot", "joint", "joints", "sensors",
              "services", "plan", "presets", "status"},
     POST |-> {"load", "unload", "start", "stop", "startSimulation", "stopSimulation",
               "reset", "step", "publish", "stopMotion", "preset"}]

Receive(h) ==
    /\ listening /\ pc[h] = "idle" /\ served < MaxRequests
    /\ \E r \in Requests[h] :
          /\ r.path \in setupRoutes[r.method]   \* any other is answered 404 by the server
          /\ req' = [req EXCEPT ![h] = r.path]
    /\ served' = served + 1
    /\ Call(h, "begin", "none")
    /\ NoCrash /\ UNCHANGED <<plugin, sim, motion, server>>

Serves(h, r, label) == req[h] = r /\ pc[h] = label
Answer(h) == pc' = [pc EXCEPT ![h] = "idle"] /\ UNCHANGED back

Answered == req' = [h \in Handlers |-> IF pc'[h] = "idle" THEN "none" ELSE req[h]] /\ UNCHANGED served

\* the manager's mutex_ is held while stopPlugin runs the hook
ManagerFree == \A h \in Handlers : back[h] = "hooked" => pc[h] \in {"idle", "take"}

\* the pointer is used after the manager's lock is gone
getHardware(h) ==
    /\ ManagerFree
    /\ IF HasInstance THEN Go(h, "use") ELSE Answer(h)

Unchanged(h) == Answered /\ UNCHANGED <<plugin, server>>

\* requests that only read the manager
handleScanPlugins(h) == Serves(h, "scan", "begin") /\ ManagerFree /\ Answer(h)
handleGetPluginMetadata(h) == Serves(h, "metadata", "begin") /\ ManagerFree /\ Answer(h)
handleGetPluginState(h) == Serves(h, "state", "begin") /\ ManagerFree /\ Answer(h)
handleGetLoadedPlugins(h) == Serves(h, "loaded", "begin") /\ ManagerFree /\ Answer(h)

\* requests that read or write the hardware once; a value that does not
\* parse is answered without a use of it
handleGetRobotState(h) ==
    \/ Serves(h, "robot", "begin") /\ getHardware(h) /\ NoCrash
    \/ Serves(h, "robot", "use") /\ UsesPlugin(h, "idle")
handleSetJointPosition(h) ==
    \/ Serves(h, "joint", "begin") /\ getHardware(h) /\ NoCrash
    \/ Serves(h, "joint", "use") /\ Answer(h) /\ NoCrash
    \/ Serves(h, "joint", "use") /\ UsesPlugin(h, "idle")
handleSetJointPositions(h) ==
    \/ Serves(h, "joints", "begin") /\ getHardware(h) /\ NoCrash
    \/ Serves(h, "joints", "use") /\ Answer(h) /\ NoCrash
    \/ Serves(h, "joints", "use") /\ UsesPlugin(h, "idle")
handleGetSensorData(h) ==
    \/ Serves(h, "sensors", "begin") /\ getHardware(h) /\ NoCrash
    \/ Serves(h, "sensors", "use") /\ UsesPlugin(h, "idle")
handleResetSimulation(h) ==
    \/ Serves(h, "reset", "begin") /\ getHardware(h) /\ NoCrash
    \/ Serves(h, "reset", "use") /\ UsesPlugin(h, "idle")
handleStepSimulation(h) ==
    \/ Serves(h, "step", "begin") /\ getHardware(h) /\ NoCrash
    \/ Serves(h, "step", "use") /\ Answer(h) /\ NoCrash
    \/ Serves(h, "step", "use") /\ UsesPlugin(h, "idle")

\* requests that touch no plugin: the handlers of the registry and the bus
\* are in modules of their own
handleGetServices(h) == Serves(h, "services", "begin") /\ Answer(h)
handlePublishEvent(h) == Serves(h, "publish", "begin") /\ Answer(h)
handleGetPresets(h) == Serves(h, "presets", "begin") /\ Answer(h)
handleGetMotionStatus(h) == Serves(h, "status", "begin") /\ Answer(h)

ManagerReads(h) ==
    /\ \/ handleScanPlugins(h) \/ handleGetPluginMetadata(h)
       \/ handleGetPluginState(h) \/ handleGetLoadedPlugins(h)
       \/ handleGetServices(h) \/ handlePublishEvent(h)
       \/ handleGetPresets(h) \/ handleGetMotionStatus(h)
    /\ NoCrash /\ Unchanged(h) /\ UNCHANGED <<sim, motion>>

HardwareUses(h) ==
    /\ \/ handleGetRobotState(h) \/ handleSetJointPosition(h) \/ handleSetJointPositions(h)
       \/ handleGetSensorData(h) \/ handleResetSimulation(h) \/ handleStepSimulation(h)
    /\ Unchanged(h) /\ UNCHANGED <<sim, motion>>

\* start and stop the simulation thread from a request
handleStartSimulation(h) ==
    \/ Serves(h, "startSimulation", "begin") /\ getHardware(h) /\ NoCrash
    \/ /\ Serves(h, "startSimulation", "use")
       /\ IF Destroyed THEN Crash("used a destroyed plugin") ELSE Call(h, "start1", "answer") /\ NoCrash
    \/ Serves(h, "startSimulation", "answer") /\ Answer(h) /\ NoCrash
handleStopSimulation(h) ==
    \/ Serves(h, "stopSimulation", "begin") /\ getHardware(h) /\ NoCrash
    \/ /\ Serves(h, "stopSimulation", "use")
       /\ IF Destroyed THEN Crash("used a destroyed plugin") ELSE Call(h, "stop1", "answer") /\ NoCrash
    \/ Serves(h, "stopSimulation", "answer") /\ Answer(h) /\ NoCrash

SimulationRequests(h) ==
    /\ handleStartSimulation(h) \/ handleStopSimulation(h)
    /\ Unchanged(h) /\ UNCHANGED <<sim, motion>>

-----------------------------------------------------------------------------
(* Requests that change the manager: each step is one critical section of it *)

\* A bound of the model, which has one object: a load succeeds only when an object
\* destroyed earlier is out of everybody's hands (who still uses it has overlapped).
Unused ==
    \A a \in Actors \ {Main} :
        pc[a] \in {"idle", "begin", "loadPlugin", "initializePlugin", "startPlugin", "off", "fetch"}

\* loadPlugin is true for one that is loaded; no library can be loaded, or one can
Loads(h, succeeds) ==
    \/ /\ plugin \notin {"absent", "taken"}
       /\ succeeds /\ UNCHANGED plugin
    \/ /\ plugin = "absent" /\ Unused
       /\ plugin' = "Loaded" /\ succeeds
    \/ /\ plugin \in {"absent", "taken"}
       /\ Answer(h) /\ UNCHANGED plugin

handleLoadPlugin(h) ==
    /\ Serves(h, "load", "begin") /\ ManagerFree
    /\ Loads(h, Answer(h))

\* getPluginState, and the steps that are left, each under the manager's mutex_ and
\* each refused when the state is not the one it starts from
handleStartPlugin(h) ==
    /\ req[h] = "start" /\ ManagerFree
    /\ \/ /\ pc[h] = "begin"
          /\ CASE plugin = "Running" -> Answer(h)
               [] plugin = "Loaded" -> Go(h, "initializePlugin")
               [] plugin = "Initialized" -> Go(h, "startPlugin")
               [] OTHER -> Go(h, "loadPlugin")
          /\ UNCHANGED plugin
       \/ /\ pc[h] = "loadPlugin"
          /\ Loads(h, Go(h, "initializePlugin"))
       \/ /\ pc[h] = "initializePlugin"
          /\ IF plugin = "Loaded" THEN plugin' = "Initialized" /\ Go(h, "startPlugin")
             ELSE Answer(h) /\ UNCHANGED plugin
       \/ /\ pc[h] = "startPlugin"
          /\ plugin' = IF plugin = "Initialized" THEN "Running" ELSE plugin
          /\ Answer(h)

handleStopPlugin(h) ==
    \/ /\ Serves(h, "stop", "begin") /\ ManagerFree
       /\ IF plugin = "Running" THEN Call(h, "stop1", "hooked") ELSE Answer(h)
       /\ UNCHANGED plugin
    \/ /\ Serves(h, "stop", "hooked")
       /\ plugin' = "Stopped" /\ Answer(h)

\* A wrong handleUnloadPlugin, that destroys the plugin without stopping it.
handleUnloadPluginRuns(h) ==
    \/ /\ Serves(h, "unload", "begin") /\ ManagerFree
       /\ CASE plugin \in {"absent", "taken"} -> Answer(h)
            [] plugin = "Running" -> Go(h, "take")
            [] OTHER -> Go(h, "take")
       /\ NoCrash /\ UNCHANGED plugin
    \/ /\ Serves(h, "unload", "hooked")
       /\ plugin' = "Stopped" /\ Go(h, "take")
       /\ NoCrash
    \/ /\ Serves(h, "unload", "take") /\ ManagerFree
       /\ IF plugin \in {"absent", "taken"} THEN Answer(h) /\ UNCHANGED plugin
          ELSE IF plugin = "Loaded" THEN plugin' = "absent" /\ Answer(h)
          ELSE plugin' = "taken" /\ Call(h, "destroy", "none")
       /\ NoCrash
    \/ /\ Serves(h, "unload", "destroy")
       /\ plugin' = "absent"
       /\ IF Joinable(simulation_thread_) THEN Crash("destroyed a joinable thread")
          ELSE Answer(h) /\ NoCrash

\* stop it if it runs, take it out of the map, unload and destroy it
handleUnloadPlugin(h) ==
    \/ /\ Serves(h, "unload", "begin") /\ ManagerFree
       /\ CASE plugin \in {"absent", "taken"} -> Answer(h)
            [] plugin = "Running" -> Call(h, "stop1", "hooked")
            [] OTHER -> Go(h, "take")
       /\ NoCrash /\ UNCHANGED plugin
    \/ /\ Serves(h, "unload", "hooked")
       /\ plugin' = "Stopped" /\ Go(h, "take")
       /\ NoCrash
    \/ /\ Serves(h, "unload", "take") /\ ManagerFree
       /\ IF plugin \in {"absent", "taken"} THEN Answer(h) /\ UNCHANGED plugin
          ELSE IF plugin = "Loaded" THEN plugin' = "absent" /\ Answer(h)
          ELSE plugin' = "taken" /\ Call(h, "stop1", "destroy")
       /\ NoCrash
    \/ /\ Serves(h, "unload", "destroy")
       /\ plugin' = "absent"
       /\ IF Joinable(simulation_thread_) THEN Crash("destroyed a joinable thread")
          ELSE Answer(h) /\ NoCrash

PluginRequests(h) ==
    /\ \/ (handleLoadPlugin(h) \/ handleStartPlugin(h) \/ handleStopPlugin(h)) /\ NoCrash
       \/ handleUnloadPlugin(h)
    /\ Answered /\ UNCHANGED <<server, sim, motion>>

-----------------------------------------------------------------------------
(* Motion requests                                                          *)

JoinMotion(h) ==
    \/ /\ pc[h] = "join"
       /\ Go(h, IF Joinable(motion_thread_) THEN "joining" ELSE "joined")
       /\ NoCrash /\ UNCHANGED motion
    \/ /\ pc[h] = "joining"
       /\ \/ /\ motion_thread_ = "finished"
             /\ motion_thread_' = "none" /\ Go(h, "joined")
             /\ NoCrash /\ UNCHANGED <<motion_executing_, motion_stop_requested_, step>>
          \/ motion_thread_ = "none" /\ Crash("joined twice") /\ UNCHANGED motion

\* the new thread begins to run, or there is none and the answer is 500
Launch(h) ==
    \/ /\ Joinable(motion_thread_)
       /\ Crash("assigned a joinable thread") /\ UNCHANGED motion
    \/ /\ ~Joinable(motion_thread_)
       /\ motion_thread_' = "running"
       /\ pc' = [pc EXCEPT ![Motion] = "fetch", ![h] = "idle"]
       /\ NoCrash /\ UNCHANGED <<back, motion_executing_, motion_stop_requested_, step>>
    \/ MayThrow /\ Answer(h) /\ NoCrash /\ UNCHANGED motion

\* answered 409 while a motion executes, 400 or 404 for a bad target or name
Plan(h, r) ==
    \/ Serves(h, r, "begin") /\ getHardware(h) /\ NoCrash /\ UNCHANGED motion
    \/ /\ Serves(h, r, "use")
       /\ \/ Answer(h)
          \/ ~motion_executing_ /\ Go(h, "plan")
       /\ NoCrash /\ UNCHANGED motion
    \/ Serves(h, r, "plan") /\ UsesPlugin(h, "join") /\ UNCHANGED motion
    \/ Serves(h, r, "joined") /\ Launch(h)

handlePlanAndExecute(h) == Plan(h, "plan")
handleExecutePreset(h) == Plan(h, "preset")

handleStopMotion(h) ==
    \/ /\ Serves(h, "stopMotion", "begin")
       /\ IF motion_executing_ THEN Go(h, "request") ELSE Answer(h)
       /\ NoCrash /\ UNCHANGED motion
    \/ /\ Serves(h, "stopMotion", "request")
       /\ motion_stop_requested_' = TRUE /\ Go(h, "join")
       /\ NoCrash /\ UNCHANGED <<motion_executing_, motion_thread_, step>>
    \/ /\ Serves(h, "stopMotion", "joined")
       /\ Answer(h) /\ NoCrash /\ UNCHANGED motion

MotionRequests(h) ==
    /\ \/ handlePlanAndExecute(h) \/ handleExecutePreset(h) \/ handleStopMotion(h) \/ JoinMotion(h)
    /\ Unchanged(h) /\ UNCHANGED sim

-----------------------------------------------------------------------------
(* Main, the server thread, the end                                         *)

\* main loads and starts the plugins it finds and starts the simulation
LoadPlugins ==
    /\ pc[Main] = "load"
    /\ \/ /\ plugin' = "Running" /\ Call(Main, "start1", "begin")
       \/ Go(Main, "begin") /\ UNCHANGED plugin
    /\ NoCrash /\ UNCHANGED <<sim, motion, server, requests>>

\* DebugAPI::start: the thread, a sleep long enough for it to begin (the one
\* assumption on time), and then whatever running_ is
start ==
    /\ \/ /\ pc[Main] = "begin"
          /\ server_thread_' = "created" /\ Go(Main, "sleep")
          /\ NoCrash /\ UNCHANGED <<running_, listening>>
       \/ /\ pc[Main] = "begin" /\ MayThrow
          /\ Crash("an exception left main") /\ UNCHANGED server
       \/ /\ pc[Main] = "sleep" /\ server_thread_ # "created"
          /\ Go(Main, IF running_ THEN "poll" ELSE "leave")
          /\ NoCrash /\ UNCHANGED server
    /\ UNCHANGED <<plugin, sim, motion, requests>>

ServerThread ==
    /\ \/ /\ server_thread_ = "created"
          /\ server_thread_' = "listen" /\ running_' = TRUE
          /\ UNCHANGED listening
       \/ /\ server_thread_ = "listen"
          /\ server_thread_' = "serving" /\ listening' = TRUE
          /\ UNCHANGED running_
       \/ /\ server_thread_ = "listen" /\ BindMayFail
          /\ server_thread_' = "finished" /\ running_' = FALSE
          /\ UNCHANGED listening
       \/ /\ server_thread_ = "serving" /\ ~listening
          /\ \A h \in Handlers : pc[h] = "idle"
          /\ server_thread_' = "finished"
          /\ UNCHANGED <<running_, listening>>
    /\ NoCrash /\ UNCHANGED <<plugin, sim, motion, control, requests>>

\* A wrong stop, that waits for the server without stopping it.
stopOnlyWaits ==
    /\ \/ /\ pc[Main] = "stop"
          /\ IF running_ THEN UNCHANGED listening /\ Go(Main, "joinServer")
             ELSE Go(Main, back[Main]) /\ UNCHANGED listening
          /\ UNCHANGED <<running_, server_thread_>>
       \/ /\ pc[Main] = "joinServer"
          /\ server_thread_ = "finished"
          /\ server_thread_' = "none" /\ running_' = FALSE /\ Go(Main, back[Main])
          /\ UNCHANGED listening
    /\ NoCrash /\ UNCHANGED <<plugin, sim, motion, requests>>

\* DebugAPI::stop on behalf of Main; a stop before listen has bound is lost
stop ==
    /\ \/ /\ pc[Main] = "stop"
          /\ IF running_ THEN listening' = FALSE /\ Go(Main, "joinServer")
             ELSE Go(Main, back[Main]) /\ UNCHANGED listening
          /\ UNCHANGED <<running_, server_thread_>>
       \/ /\ pc[Main] = "joinServer"
          /\ server_thread_ = "finished"
          /\ server_thread_' = "none" /\ running_' = FALSE /\ Go(Main, back[Main])
          /\ UNCHANGED listening
    /\ NoCrash /\ UNCHANGED <<plugin, sim, motion, requests>>

\* the handler runs in main, between its steps, and exits; before there is a
\* DebugAPI that is all it does
signalHandler ==
    /\ \/ /\ pc[Main] = "load"
          /\ Go(Main, "exited")
       \/ /\ pc[Main] \in {"begin", "sleep", "poll", "leave"}
          /\ Call(Main, "stop", "destructor")
    /\ NoCrash /\ UNCHANGED <<plugin, sim, motion, server, requests>>

\* main returns when the server is not running; its plugin manager goes first
main ==
    /\ \/ /\ pc[Main] = "poll" /\ ~running_
          /\ Go(Main, "leave")
          /\ NoCrash /\ UNCHANGED plugin
       \/ /\ pc[Main] = "leave"
          /\ IF HasInstance THEN Call(Main, "stop1", "drop") ELSE Go(Main, "destructor")
          /\ NoCrash /\ UNCHANGED plugin
       \/ /\ pc[Main] = "drop"
          /\ plugin' = "absent"
          /\ IF Joinable(simulation_thread_) THEN Crash("destroyed a joinable thread")
             ELSE Go(Main, "destructor") /\ NoCrash
    /\ UNCHANGED <<sim, motion, server, requests>>

\* ~DebugAPI, from the destruction of the globals: the motion is stopped
\* first, then the server
destructor ==
    /\ \/ /\ pc[Main] = "destructor"
          /\ motion_stop_requested_' = TRUE
          /\ Go(Main, IF Joinable(motion_thread_) THEN "joinMotion" ELSE "destructor2")
          /\ NoCrash /\ UNCHANGED <<motion_executing_, motion_thread_, step>>
       \/ /\ pc[Main] = "joinMotion" /\ motion_thread_ = "finished"
          /\ motion_thread_' = "none" /\ Go(Main, "destructor2")
          /\ NoCrash /\ UNCHANGED <<motion_executing_, motion_stop_requested_, step>>
       \/ /\ pc[Main] = "destructor2"
          /\ Call(Main, "stop", "destructor3")
          /\ NoCrash /\ UNCHANGED motion
       \/ /\ pc[Main] = "destructor3"
          /\ IF Joinable(motion_thread_) \/ Joinable(server_thread_)
             THEN Crash("destroyed a joinable thread of DebugAPI")
             ELSE Go(Main, "exited") /\ NoCrash
          /\ UNCHANGED motion
    /\ UNCHANGED <<plugin, sim, server, requests>>

-----------------------------------------------------------------------------
Process ==
    \/ SimulationThread \/ executeTrajectory \/ ServerThread
    \/ \E a \in Actors : startSimulation(a) \/ stopSimulation(a)
    \/ \E h \in Handlers : \/ ManagerReads(h) \/ HardwareUses(h) \/ SimulationRequests(h)
                           \/ PluginRequests(h) \/ MotionRequests(h)
    \/ LoadPlugins \/ start \/ stop \/ main \/ destructor

Uses(a) == \/ pc[a] \in {"use", "plan", "start1", "stop1"} \/ InSimulation(a)
           \/ a = Motion /\ pc[a] \notin {"off", "fetch", "caught", "exit"}
Unloads(a) == back[a] \in {"destroy", "drop"}
HandlesMotion(a) == pc[a] \in {"join", "joining", "joined", "joinMotion"}

\* What the code has no lock against
Overlap ==
    \/ \E a, b \in Actors : a # b /\ InSimulation(a) /\ InSimulation(b)
    \/ \E a, b \in Actors : a # b /\ HandlesMotion(a) /\ HandlesMotion(b)
    \/ plugin \in {"taken", "absent"} /\ \E a \in Actors : Uses(a) /\ ~Unloads(a)

Ghosts ==
    /\ overlapped' = (overlapped \/ Overlap')
    /\ meddled' = /\ pc'[Motion] # "off"
                  /\ \/ meddled
                     \/ \E a \in Actors \ {Motion} : Uses(a)' /\ pc'[a] \notin {"use", "plan"}

Halted == crashed # "no" \/ pc[Main] = "exited"

\* server_->stop() came before listen: the join waits for ever
StopLost == pc[Main] = "joinServer" /\ listening

Next ==
    \/ ~Halted /\ (Process \/ signalHandler \/ \E h \in Handlers : Receive(h)) /\ Ghosts
    \/ (Halted \/ StopLost \/ overlapped) /\ UNCHANGED vars

Spec == Init /\ [][Next]_vars

InHardware(a) == startSimulation(a) \/ stopSimulation(a)

\* every thread runs until it waits; clients and signals need not come
Fairness ==
    /\ WF_vars(~Halted /\ SimulationThread /\ Ghosts)
    /\ WF_vars(~Halted /\ (executeTrajectory \/ InHardware(Motion)) /\ Ghosts)
    /\ WF_vars(~Halted /\ ServerThread /\ Ghosts)
    /\ \A h \in Handlers :
          WF_vars(~Halted /\ (ManagerReads(h) \/ HardwareUses(h) \/ SimulationRequests(h)
                                 \/ PluginRequests(h) \/ MotionRequests(h) \/ InHardware(h)) /\ Ghosts)
    /\ WF_vars(~Halted /\ (LoadPlugins \/ start \/ stop \/ main \/ destructor \/ InHardware(Main))
                           /\ Ghosts)
FairSpec == Spec /\ Fairness

-----------------------------------------------------------------------------
(* What makes the debug server correct                                      *)

Threads == {"none", "created", "listen", "serving", "running", "finished"}

TypeOK ==
    /\ plugin \in {"absent", "Loaded", "Initialized", "Running", "Stopped", "taken"}
    /\ {simulating_, motion_executing_, motion_stop_requested_, running_, listening} \subseteq BOOLEAN
    /\ {simulation_thread_, motion_thread_, server_thread_} \subseteq Threads
    /\ step \in 0..Steps
    /\ served \in 0..MaxRequests
    /\ \A h \in Handlers : (pc[h] = "idle") = (req[h] = "none")

\* Whatever order requests, trajectory and shutdown come in, the process does
\* not die of a thread object or of a plugin that is gone, unless two of them
\* were inside startSimulation/stopSimulation, inside the replacement of the
\* trajectory thread, or used the plugin while it was unloaded.  (Other matters are
\* a server thread that did not bind, see StartFailureIsReported, a trajectory
\* launched after ~DebugAPI has joined the last one and before it stops the server,
\* and a thread that main itself could not start.)
CrashNeedsOverlap ==
    \/ crashed \in {"no", "destroyed a joinable thread of DebugAPI", "an exception left main"}
    \/ overlapped

\* executeTrajectory "uses manual stepping" (debug_api.cpp:505): between its
\* stopSimulation and its startSimulation no simulation thread runs, unless a
\* request meddled with the simulation meanwhile, or two overlapped before (a
\* stop between another's start2 and start3 leaves a thread behind that
\* simulating_ knows nothing of, and stopSimulation then does nothing).
ManualStepping ==
    pc[Motion] \in {"move", "settle", "finish"} /\ ~meddled /\ ~overlapped =>
        simulation_thread_ = "none" /\ ~simulating_

\* However a trajectory ends, motion_executing_ is false, so that the next one is
\* not refused; and the simulation runs again (line 554), stopped early or not,
\* unless there was no hardware (it was not stopped then) or an exception ended the
\* trajectory: the catch blocks leave the simulation as it is.
SimulationComesBack ==
    [][motion_thread_ = "running" /\ motion_thread_' = "finished" =>
           /\ ~motion_executing_'
           /\ pc[Motion] \notin {"fetch", "caught"} /\ ~meddled /\ ~overlapped =>
                  simulating_ /\ simulation_thread_ = "running"]_vars

\* At the end of the process neither the server nor a trajectory still runs:
\* ~DebugAPI has joined both.
NothingRunsAtExit ==
    pc[Main] = "exited" => /\ motion_thread_ = "none" /\ pc[Motion] = "off"
                           /\ \A h \in Handlers : pc[h] = "idle"

\* The four together: at any moment, whatever runs beside what.
DebugServerSound == TypeOK /\ CrashNeedsOverlap /\ ManualStepping /\ NothingRunsAtExit

\* A signal ends the process once the server listens: the requests in
\* progress, a trajectory among them, all end, unless two overlapped as above
\* (then one may wait for a simulation thread that another keeps running).
SignalEnds == listening /\ pc[Main] = "stop" ~> Halted \/ overlapped

\* A claim that the code does not keep, in no run: the answer
\* "No motion in progress" (debug_api.cpp:641) is true, no
\* trajectory that was accepted before has its motion still ahead.
NoMotionIsTrue ==
    [][\A h \in Handlers :
          req[h] = "stopMotion" /\ pc[h] = "begin" /\ pc'[h] = "idle" =>
              pc[Motion] \in {"off", "exit", "start1", "start2", "start3"}]_vars

\* A claim that the code does not keep, in no run: a start()
\* that fails is reported, and the process returns (main.cpp:105).
StartFailureIsReported == crashed # "destroyed a joinable thread of DebugAPI"
=============================================================================
