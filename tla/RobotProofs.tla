----------------------------- MODULE RobotProofs -----------------------------
(***************************************************************************)
(* The robot framework's safety for any number of threads, plugins, calls  *)
(* and requests.                                                           *)
(*                                                                         *)
(* The debug server: DebugServerSound, and that the simulation runs again  *)
(* after a trajectory.  CrashNeedsOverlap is the heart of it and not       *)
(* inductive.  What protects the thread objects as long as nothing         *)
(* overlaps is where everybody is: the simulation thread is what the one   *)
(* actor inside start- or stopSimulation has made of it so far, and in     *)
(* step with simulating_ when nobody is (SimulationPlace); a plugin that   *)
(* is out of the map belongs to one handler (PluginPlace); Main starts and *)
(* destroys the simulation only while nobody serves (ServerPlace).         *)
(*                                                                         *)
(* The plugin manager: PluginsSound, and StopPrecedesUnload.  OneOwner     *)
(* counts; what is inductive is who has which object (RecordsOwn,          *)
(* HeldOnce, NoneLost) and what a thread knows of the records it looked at *)
(* while others run (LookedAt, AloneInBatch).                              *)
(*                                                                         *)
(* The event bus and the registry: ServicesSound.  While anybody publishes *)
(* nobody writes, so what a publish has called is how its list begins; and *)
(* a number that was given up is in no list and never comes back.          *)
(***************************************************************************)
EXTENDS Robot, QueueLemmas, FiniteSetTheorems, WellFoundedInduction, TLAPS

Starts == {"start1", "start2", "start3"}
Stops == {"stop1", "stop2", "stop3", "stop4"}

-----------------------------------------------------------------------------
(* Where each actor may be, and where it goes on after a call               *)

HandlerLabels ==
    {"idle", "begin", "use", "answer", "hooked", "take", "destroy", "plan",
     "join", "joining", "joined", "request",
     "loadPlugin", "initializePlugin", "startPlugin"} \cup Starts \cup Stops
MotionLabels ==
    {"off", "fetch", "enter", "forget", "move", "settle", "finish", "caught", "exit"}
        \cup Starts \cup Stops
MainLabels ==
    {"load", "begin", "sleep", "poll", "leave", "drop", "stop", "joinServer",
     "destructor", "joinMotion", "destructor2", "destructor3", "exited"}
        \cup Starts \cup Stops

HandlerAt(h) ==
    /\ pc[h] \in HandlerLabels
    /\ back[h] \in {"none", "answer", "hooked", "destroy"}
    /\ pc[h] \in Starts \cup {"answer"} => back[h] = "answer"
    /\ pc[h] \in Stops => back[h] # "none"
    /\ pc[h] \in {"hooked", "destroy"} => back[h] = pc[h]
    /\ pc[h] = "take" => back[h] \in {"none", "hooked"}
    /\ pc[h] \in {"begin", "use", "plan", "join", "joining", "joined", "request",
                   "loadPlugin", "initializePlugin", "startPlugin"} => back[h] = "none"

HandlerPlace == \A h \in Handlers : HandlerAt(h)

MotionPlace ==
    /\ pc[Motion] \in MotionLabels
    /\ back[Motion] \in {"none", "move", "exit"}
    /\ pc[Motion] \in Starts => back[Motion] = "exit"
    /\ pc[Motion] \in Stops => back[Motion] = "move"
    /\ motion_thread_ \in {"none", "running", "finished"}
    /\ pc[Motion] = "off" <=> motion_thread_ # "running"

MainPlace ==
    /\ pc[Main] \in MainLabels
    /\ back[Main] \in {"none", "begin", "drop", "destructor", "destructor3"}
    /\ pc[Main] \in Starts => back[Main] = "begin"
    /\ pc[Main] \in Stops \cup {"drop"} => back[Main] = "drop"
    /\ pc[Main] \in {"stop", "joinServer"} => back[Main] \in {"destructor", "destructor3"}

\* Until it leaves for the destructor, Main has not stopped the server.
Before == {"load", "begin", "sleep", "poll", "leave", "drop"} \cup Starts \cup Stops

\* Requests are served only while the server serves; as long as it has not
\* begun to, or could not, there is no trajectory either.
ServerPlace ==
    /\ server_thread_ \in {"none", "created", "listen", "serving", "finished"}
    /\ server_thread_ # "serving" => ~listening /\ \A h \in Handlers : pc[h] = "idle"
    /\ server_thread_ \in {"listen", "serving"} => running_
    /\ server_thread_ = "created" => ~running_
    /\ pc[Main] \in {"load", "begin"} \cup Starts => server_thread_ = "none" /\ ~running_
    /\ pc[Main] \in {"poll", "leave", "drop"} \cup Stops => server_thread_ # "created"
    /\ pc[Main] \in {"leave", "drop"} \cup Stops => ~running_
    /\ pc[Main] \in Before /\ (~running_ \/ server_thread_ = "listen") => motion_thread_ = "none"

Places ==
    /\ pc = [a \in Actors |-> pc[a]] /\ back = [a \in Actors |-> back[a]]
    /\ HandlerPlace /\ MotionPlace /\ MainPlace /\ ServerPlace /\ NothingRunsAtExit

Types ==
    /\ TypeOK /\ Places
    /\ req = [h \in Handlers |-> req[h]]
    /\ overlapped \in BOOLEAN /\ meddled \in BOOLEAN

-----------------------------------------------------------------------------
(* The plugin, as long as the process lives                                 *)

Lives ==
    crashed \in {"no", "destroyed a joinable thread of DebugAPI", "an exception left main"}

\* inside stopPlugin, under the manager's lock; the one that destroys it
Hooking(h) == back[h] = "hooked" /\ pc[h] \notin {"idle", "take"}
Destroying(h) == back[h] = "destroy" /\ pc[h] # "idle"

PluginPlace ==
    /\ \A h \in Handlers :
          /\ Hooking(h) => plugin = "Running"
          /\ Destroying(h) => plugin = "taken"
    /\ \A g, h \in Handlers : /\ Hooking(g) /\ Hooking(h) => g = h
                              /\ Destroying(g) /\ Destroying(h) => g = h
    /\ pc[Main] \in Starts => plugin = "Running"
    /\ pc[Main] \in Stops \cup {"drop"} => HasInstance

-----------------------------------------------------------------------------
(* The threads, as long as nothing overlaps                                 *)

Off == simulation_thread_ = "none" /\ ~simulating_
On == simulation_thread_ = "running" /\ simulating_

SimulationAt(a) ==
    /\ pc[a] = "start2" => Off
    /\ pc[a] = "start3" => simulation_thread_ = "none" /\ simulating_
    /\ pc[a] = "stop2" => simulation_thread_ \in {"none", "running"} /\ simulating_
    /\ pc[a] = "stop3" => simulation_thread_ \in {"none", "running", "finished"} /\ ~simulating_
    /\ pc[a] = "stop4" => simulation_thread_ \in {"running", "finished"} /\ ~simulating_

\* without a thread simulating_ may still be true: the thread could not be started
Resting == (\A a \in Actors : ~InSimulation(a)) => On \/ simulation_thread_ = "none"

SimulationPlace ==
    /\ \A a \in Actors : SimulationAt(a)
    /\ Resting
    /\ plugin \in {"absent", "Loaded"} => Off /\ \A a \in Actors : ~Uses(a)
    /\ \A h \in Handlers : pc[h] = "destroy" => Off
    /\ pc[Main] = "drop" => Off

\* what each step of the replacement of the trajectory's thread found, and
\* what executeTrajectory finds and leaves
TrajectoryPlace ==
    /\ \A h \in Handlers : /\ pc[h] = "joining" => motion_thread_ # "none"
                           /\ pc[h] = "joined" => motion_thread_ = "none"
    /\ pc[Motion] \in {"move", "settle", "finish", "start1"} /\ ~meddled => Off
    /\ pc[Motion] = "exit" /\ ~meddled => On

Calm == Lives /\ ~Overlap /\ SimulationPlace /\ TrajectoryPlace

\* who touches the simulation beside a trajectory meddles with it
Meddling ==
    pc[Motion] # "off" /\ ~meddled =>
        \A a \in Actors \ {Motion} : pc[a] \notin Starts \cup Stops

ServerInv ==
    /\ Types
    /\ Lives => PluginPlace
    /\ Meddling
    /\ ~overlapped => Calm

-----------------------------------------------------------------------------
(* What every step needs                                                    *)

\* The state before a step of a living process.
Ready == ServerAssumption /\ ServerInv /\ ~Halted /\ Ghosts

\* While Main is in the plugin, or about to destroy it, nobody else runs.
LEMMA MainAlone ==
    ASSUME Places, pc[Main] \in {"load", "begin", "leave", "drop"} \cup Starts \cup Stops
    PROVE  /\ server_thread_ # "serving" /\ ~listening
           /\ \A h \in Handlers : pc[h] = "idle"
           /\ motion_thread_ = "none" /\ pc[Motion] = "off"
<1>1. server_thread_ # "serving"
  <2>1. CASE pc[Main] \in {"load", "begin"} \cup Starts
    BY <2>1 DEF Places, ServerPlace
  <2>2. CASE pc[Main] \in {"leave", "drop"} \cup Stops
    BY <2>2 DEF Places, ServerPlace
  <2> QED
    BY <2>1, <2>2
<1>2. ~running_ \/ server_thread_ = "listen"
  <2>1. CASE pc[Main] \in {"load", "begin"} \cup Starts
    BY <2>1 DEF Places, ServerPlace
  <2>2. CASE pc[Main] \in {"leave", "drop"} \cup Stops
    BY <2>2 DEF Places, ServerPlace
  <2> QED
    BY <2>1, <2>2
<1>3. motion_thread_ = "none"
  BY <1>2 DEF Places, ServerPlace, Before
<1> QED
  BY <1>1, <1>3 DEF Places, ServerPlace, MotionPlace

\* Whoever touches the simulation beside a trajectory has been seen.
LEMMA Meddles == ASSUME Ghosts PROVE Meddling'
BY DEF Ghosts, Meddling, Uses, InSimulation, Starts, Stops

\* A step after which nothing has overlapped began where nothing had.
LEMMA StillCalm ==
    ASSUME ServerInv, Ghosts, ~overlapped'
    PROVE  ~overlapped /\ ~Overlap' /\ Calm
BY DEF ServerInv, Ghosts

\* The initial states.
LEMMA InitServer == ASSUME ServerAssumption, Init PROVE ServerInv
<1> USE DEF Actors
<1>1. Types
  <2>1. /\ step \in 0..Steps /\ served \in 0..MaxRequests
        /\ \A h \in Handlers : pc[h] = "idle" /\ req[h] = "none"
    BY DEF ServerAssumption, Init
  <2>4. TypeOK
    BY <2>1 DEF Init, TypeOK, Threads
  <2>3. NothingRunsAtExit
    BY DEF Init, NothingRunsAtExit
  <2>2. HandlerPlace /\ MotionPlace /\ MainPlace /\ ServerPlace
    BY DEF ServerAssumption, Init, HandlerPlace, MotionPlace, MainPlace,
       ServerPlace, HandlerAt, HandlerLabels, MotionLabels, MainLabels, Starts,
       Stops, Before
  <2> QED
    BY <2>2, <2>3, <2>4 DEF Types, Places, Init
<1>2. PluginPlace /\ Meddling
  BY DEF Init, PluginPlace, Hooking, Destroying, Meddling, Starts, Stops
<1>3. ~Overlap
  BY DEF ServerAssumption, Init, Overlap, InSimulation, HandlesMotion, Uses
<1>4. SimulationPlace /\ TrajectoryPlace
  BY DEF ServerAssumption, Init, SimulationPlace, SimulationAt, Resting,
     TrajectoryPlace, InSimulation, Uses, On, Off
<1> QED
  BY <1>1, <1>2, <1>3, <1>4 DEF ServerInv, Calm, Lives, Init
-----------------------------------------------------------------------------
(* Steps of one actor, that leave the others where they are                 *)

\* A handler that serves a request goes on.
LEMMA HandlerMoves ==
    ASSUME ServerAssumption, Places, NEW h \in Handlers, pc[h] # "idle",
           pc' = [pc EXCEPT ![h] = pc'[h]], back' = [back EXCEPT ![h] = back'[h]],
           HandlerAt(h)', UNCHANGED server,
           motion_thread_' = motion_thread_ \/ (motion_thread_ = "finished" /\ motion_thread_' = "none")
    PROVE  Places'
<1>1. /\ \A a \in Actors : a # h => pc'[a] = pc[a] /\ back'[a] = back[a]
      /\ h # Main /\ h # Motion /\ \A g \in Handlers : g \in Actors
      /\ Main \in Actors /\ Motion \in Actors
  BY DEF ServerAssumption, Places, Actors
<1>2. pc' = [a \in Actors |-> pc'[a]] /\ back' = [a \in Actors |-> back'[a]]
  BY DEF Places
<1>3. HandlerPlace'
  BY <1>1 DEF Places, HandlerPlace, HandlerAt
<1>4. MotionPlace'
  BY <1>1 DEF Places, MotionPlace
<1>5. MainPlace'
  BY <1>1 DEF Places, MainPlace
<1>6. ServerPlace' /\ NothingRunsAtExit'
  <2>1. server_thread_ = "serving" /\ running_
    BY DEF Places, ServerPlace
  <2>2. pc[Main] # "exited" /\ pc'[Main] = pc[Main]
    BY <1>1 DEF Places, NothingRunsAtExit
  <2> QED
    BY <2>1, <2>2 DEF server, Places, ServerPlace, NothingRunsAtExit
<1> QED
  BY <1>2, <1>3, <1>4, <1>5, <1>6 DEF Places

\* The trajectory goes on, or ends.
LEMMA MotionMoves ==
    ASSUME ServerAssumption, Places, pc[Motion] # "off",
           pc' = [pc EXCEPT ![Motion] = pc'[Motion]], back' = [back EXCEPT ![Motion] = back'[Motion]],
           MotionPlace', UNCHANGED server, motion_thread_' \in {"running", "finished"}
    PROVE  Places'
<1>1. /\ \A a \in Actors : a # Motion => pc'[a] = pc[a] /\ back'[a] = back[a]
      /\ Main # Motion /\ \A g \in Handlers : g \in Actors /\ g # Motion
      /\ Main \in Actors /\ Motion \in Actors
  BY DEF ServerAssumption, Places, Actors
<1>2. pc' = [a \in Actors |-> pc'[a]] /\ back' = [a \in Actors |-> back'[a]]
  BY DEF Places
<1>3. HandlerPlace'
  BY <1>1 DEF Places, HandlerPlace, HandlerAt
<1>4. MainPlace'
  BY <1>1 DEF Places, MainPlace
<1>5. ServerPlace'
  <2>1. motion_thread_ # "none"
    BY DEF Places, MotionPlace
  <2> QED
    BY <1>1, <2>1 DEF server, Places, ServerPlace
<1>6. NothingRunsAtExit'
  BY <1>1 DEF Places, NothingRunsAtExit
<1> QED
  BY <1>2, <1>3, <1>4, <1>5, <1>6 DEF Places

\* Main goes on; what it does to the server is seen at each of its steps.
LEMMA MainMoves ==
    ASSUME ServerAssumption, Places,
           pc' = [pc EXCEPT ![Main] = pc'[Main]], back' = [back EXCEPT ![Main] = back'[Main]],
           MainPlace', ServerPlace', NothingRunsAtExit',
           motion_thread_' = motion_thread_ \/ (motion_thread_ = "finished" /\ motion_thread_' = "none")
    PROVE  Places'
<1>1. /\ \A a \in Actors : a # Main => pc'[a] = pc[a] /\ back'[a] = back[a]
      /\ Main # Motion /\ \A g \in Handlers : g \in Actors /\ g # Main
      /\ Main \in Actors /\ Motion \in Actors
  BY DEF ServerAssumption, Places, Actors
<1>2. pc' = [a \in Actors |-> pc'[a]] /\ back' = [a \in Actors |-> back'[a]]
  BY DEF Places
<1>3. HandlerPlace'
  BY <1>1 DEF Places, HandlerPlace, HandlerAt
<1>4. MotionPlace'
  BY <1>1 DEF Places, MotionPlace
<1> QED
  BY <1>2, <1>3, <1>4 DEF Places

\* The record stays, and nobody begins to stop or to destroy it.
LEMMA PluginStays ==
    ASSUME PluginPlace, plugin' = plugin,
           \A h \in Handlers : (Hooking(h)' => Hooking(h)) /\ (Destroying(h)' => Destroying(h)),
           pc'[Main] \in Starts => pc[Main] \in Starts,
           pc'[Main] \in Stops \cup {"drop"} => pc[Main] \in Stops \cup {"drop"}
    PROVE  PluginPlace'
<1>1. HasInstance' <=> HasInstance
  BY DEF HasInstance
<1>2. \A g, h \in Handlers : /\ Hooking(g)' /\ Hooking(h)' => g = h
                             /\ Destroying(g)' /\ Destroying(h)' => g = h
  BY DEF PluginPlace
<1>3. \A h \in Handlers : (Hooking(h)' => plugin = "Running") /\ (Destroying(h)' => plugin = "taken")
  BY DEF PluginPlace
<1> QED
  BY <1>1, <1>2, <1>3 DEF PluginPlace

\* Nobody else changes a trajectory's simulation without being seen.
LEMMA Unmeddled ==
    ASSUME Meddling, Ghosts, ~meddled', pc'[Motion] # "off", pc[Motion] # "off"
    PROVE  /\ ~meddled
           /\ \A a \in Actors \ {Motion} : pc[a] \notin Starts \cup Stops
BY DEF Meddling, Ghosts

-----------------------------------------------------------------------------
(* MujocoHardwarePlugin *)

\* What an actor inside startSimulation relies on: nobody is about to destroy
\* the plugin.
LEMMA NoneDestroys ==
    ASSUME Types, PluginPlace, SimulationPlace, ~Overlap,
           NEW a \in Actors, pc[a] \in Starts \cup Stops, back[a] \notin {"destroy", "drop"}
    PROVE  /\ plugin \notin {"absent", "Loaded", "taken"}
           /\ \A h \in Handlers : pc[h] # "destroy"
           /\ pc[Main] # "drop"
<1>1. Uses(a) /\ ~Unloads(a)
  BY DEF Uses, InSimulation, Starts, Stops, Unloads
<1>2. plugin \notin {"absent", "Loaded", "taken"}
  BY <1>1 DEF Overlap, SimulationPlace
<1>3. \A h \in Handlers : pc[h] # "destroy"
  BY <1>2 DEF PluginPlace, Destroying, Types, Places, HandlerPlace, HandlerAt
<1>4. CASE pc[Main] = "drop"
  <2>1. (\A h \in Handlers : pc[h] = "idle") /\ pc[Motion] = "off"
    BY <1>4, MainAlone DEF Types
  <2> QED
    BY <1>4, <2>1 DEF Actors, Starts, Stops
<1> QED
  BY <1>2, <1>3, <1>4

\* Who is on its way to destroy the plugin is alone with it.
LEMMA DestroysAlone ==
    ASSUME ServerAssumption, Types, PluginPlace, ~Overlap,
           NEW a \in Actors, back[a] \in {"destroy", "drop"}, pc[a] \in Stops \cup {"destroy", "drop"}
    PROVE  \A b \in Actors : b # a => ~Uses(b) /\ pc[b] \notin {"destroy", "drop"}
<1>1. CASE a = Main
  <2>1. pc[Main] \in Stops \cup {"drop"}
    BY <1>1 DEF Types, Places, MainPlace, MainLabels, Starts, Stops
  <2>2. (\A h \in Handlers : pc[h] = "idle") /\ pc[Motion] = "off"
    BY <2>1, MainAlone DEF Types
  <2> QED
    BY <1>1, <2>2 DEF Actors, Uses, InSimulation
<1>2. CASE a # Main
  <2>1. a \in Handlers /\ Destroying(a) /\ plugin = "taken"
    <3>1. a \in Handlers
      BY <1>2 DEF Actors, Types, Places, MotionPlace
    <3>2. back[a] = "destroy" /\ pc[a] # "idle"
      BY <3>1 DEF Types, Places, HandlerPlace, HandlerAt, Stops
    <3> QED
      BY <3>1, <3>2 DEF Destroying, PluginPlace
  <2>2. pc[Main] \notin {"destroy", "drop"} \cup Starts \cup Stops
    <3>1. pc[Main] # "destroy"
      BY DEF Types, Places, MainPlace, MainLabels, Starts, Stops
    <3>2. ~\A h \in Handlers : pc[h] = "idle"
      BY <2>1 DEF Destroying
    <3> QED
      BY <3>1, <3>2, MainAlone DEF Types
  <2>3. ~Uses(Main)
    BY <2>2
    DEF Uses, InSimulation, Starts, Stops, Types, Places, MainPlace, MainLabels,
       ServerAssumption
  <2>4. ASSUME NEW b \in Handlers, b # a PROVE ~Uses(b) /\ pc[b] \notin {"destroy", "drop"}
    <3>1. ~Destroying(b)
      BY <2>1, <2>4 DEF PluginPlace
    <3>2. pc[b] \notin {"destroy", "drop"}
      BY <3>1
      DEF Destroying, Types, Places, HandlerPlace, HandlerAt, HandlerLabels,
         Starts, Stops
    <3>3. Uses(b) => pc[b] # "idle"
      BY DEF Uses, InSimulation, ServerAssumption
    <3>4. ~Uses(b)
      BY <2>1, <3>1, <3>3
      DEF Overlap, Unloads, Destroying, Actors, Types, Places, HandlerPlace,
         HandlerAt
    <3> QED
      BY <3>2, <3>4
  <2>5. ~Uses(Motion) /\ pc[Motion] \notin {"destroy", "drop"}
    BY <2>1
    DEF Overlap, Unloads, Actors, Types, Places, MotionPlace, MotionLabels,
       Starts, Stops
  <2> QED
    BY <2>2, <2>3, <2>4, <2>5 DEF Actors
<1> QED
  BY <1>1, <1>2

\* The simulation, seen by the actor that moves and by the others.
LEMMA SimulationMoves ==
    ASSUME SimulationPlace, plugin' = plugin,
           NEW a \in Actors, \A b \in Actors : b # a => pc'[b] = pc[b],
           plugin \in {"absent", "Loaded"} => UNCHANGED sim /\ ~Uses(a)',
           UNCHANGED sim \/ \A b \in Actors : b # a => ~InSimulation(b),
           SimulationAt(a)', Resting',
           \A h \in Handlers : pc'[h] = "destroy" => Off',
           pc'[Main] = "drop" => Off'
    PROVE  SimulationPlace'
<1>1. ASSUME NEW b \in Actors, b # a PROVE SimulationAt(b)'
  <2>1. CASE UNCHANGED sim
    BY <1>1, <2>1 DEF SimulationPlace, SimulationAt, On, Off, sim
  <2>2. CASE ~InSimulation(b)
    BY <1>1, <2>2 DEF SimulationAt, InSimulation
  <2> QED
    BY <1>1, <2>1, <2>2
<1>2. ASSUME plugin \in {"absent", "Loaded"} PROVE Off' /\ \A b \in Actors : ~Uses(b)'
  <2>1. \A b \in Actors : b # a => (Uses(b)' <=> Uses(b))
    BY DEF Uses, InSimulation
  <2> QED
    BY <1>2, <2>1 DEF SimulationPlace, Off, sim
<1> QED
  BY <1>1, <1>2 DEF SimulationPlace

\* An actor that is outside the simulation before and after.
LEMMA OutsideMoves ==
    ASSUME SimulationPlace, plugin' = plugin, UNCHANGED sim,
           NEW a \in Actors, \A b \in Actors : b # a => pc'[b] = pc[b],
           ~InSimulation(a), ~InSimulation(a)', pc'[a] \notin {"destroy", "drop"},
           plugin \in {"absent", "Loaded"} => ~Uses(a)'
    PROVE  SimulationPlace'
<1>1. SimulationAt(a)'
  BY DEF SimulationAt, InSimulation
<1>2. Resting'
  <2>1. \A b \in Actors : InSimulation(b)' <=> InSimulation(b)
    BY DEF InSimulation
  <2> QED
    BY <2>1 DEF SimulationPlace, Resting, On, Off, sim
<1>3. /\ \A h \in Handlers : pc'[h] = "destroy" => Off'
      /\ pc'[Main] = "drop" => Off'
  BY DEF SimulationPlace, Off, sim, Actors
<1> QED
  BY <1>1, <1>2, <1>3, SimulationMoves

\* A step of another thread, unless it is one of the trajectory's replacement.
LEMMA TrajectoryStays ==
    ASSUME TrajectoryPlace, Meddling, Ghosts, UNCHANGED <<sim, motion>>,
           NEW a \in Actors, a # Motion, \A b \in Actors : b # a => pc'[b] = pc[b],
           a \in Handlers => pc'[a] \notin {"joining", "joined"} \/ pc'[a] = pc[a]
    PROVE  TrajectoryPlace'
<1>1. pc'[Motion] = pc[Motion]
  BY DEF Actors
<1>2. pc[Motion] # "off" /\ ~meddled' => ~meddled
  BY <1>1, Unmeddled
<1>3. \A h \in Handlers : pc'[h] \in {"joining", "joined"} => pc'[h] = pc[h]
  BY DEF Actors
<1> QED
  BY <1>1, <1>2, <1>3 DEF TrajectoryPlace, On, Off, sim, motion

\* Nobody moves, and the server and the trajectory's thread stay.
LEMMA PlacesStay ==
    ASSUME Places, UNCHANGED <<pc, back, motion_thread_, server>>
    PROVE  Places'
BY DEF Places, HandlerPlace, HandlerAt, MotionPlace, MainPlace, ServerPlace,
   NothingRunsAtExit, server

\* startSimulation.
LEMMA StartKeeps ==
    ASSUME Ready, NEW a \in Actors, startSimulation(a)
    PROVE  ServerInv'
<1>1. /\ pc[a] \in Starts
      /\ pc' = [pc EXCEPT ![a] = pc'[a]] /\ back' = back
      /\ pc'[a] \in {pc[a], back[a], "start2", "start3"} \/ (a = Motion /\ pc'[a] = "caught")
      /\ UNCHANGED <<plugin, motion, server, requests>>
  <2>1. pc[a] \in Starts
    BY DEF startSimulation, Starts
  <2> QED
    BY <2>1 DEF Ready, ServerInv, Types, Places, startSimulation, Go, Crash, control
<1>2. ServerAssumption /\ Types /\ PluginPlace /\ Meddling /\ Ghosts
  BY DEF Ready, ServerInv, Halted, Lives
<1>3. Places' /\ back[a] \in {"answer", "exit", "begin"}
  <2>0. back' = [back EXCEPT ![a] = back'[a]]
    BY <1>1, <1>2 DEF Types, Places
  <2>1. CASE a \in Handlers
    <3>1. pc[a] # "idle" /\ HandlerAt(a)' /\ back[a] = "answer"
      BY <1>1, <1>2, <2>1
      DEF Types, Places, HandlerPlace, HandlerAt, HandlerLabels, Starts, Stops,
         ServerAssumption
    <3> QED
      BY <1>1, <1>2, <2>0, <2>1, <3>1, HandlerMoves DEF Types, motion
  <2>2. CASE a = Motion
    <3>1. pc[Motion] # "off" /\ MotionPlace' /\ back[a] = "exit" /\ motion_thread_' = "running"
      BY <1>1, <1>2, <2>2
      DEF Types, Places, MotionPlace, MotionLabels, Starts, Stops, motion
    <3> QED
      BY <1>1, <1>2, <2>0, <2>2, <3>1, MotionMoves DEF Types
  <2>3. CASE a = Main
    <3>1. MainPlace' /\ back[a] = "begin" /\ pc'[Main] \in Starts \cup {"begin"}
      BY <1>1, <1>2, <2>3
      DEF Types, Places, MainPlace, MainLabels, Starts, Stops, ServerAssumption
    <3>2. ServerPlace' /\ NothingRunsAtExit'
      <4>1. /\ server_thread_ = "none" /\ ~running_ /\ ~listening /\ motion_thread_ = "none"
            /\ \A h \in Handlers : pc[h] = "idle" /\ h # Main /\ h \in Actors
        BY <1>1, <1>2, <2>3, MainAlone
        DEF Types, Places, ServerPlace, ServerAssumption, Actors
      <4>2. \A h \in Handlers : pc'[h] = "idle"
        BY <1>1, <1>2, <2>3, <4>1 DEF Types, Places
      <4> QED
        BY <1>1, <3>1, <4>1, <4>2
        DEF ServerPlace, NothingRunsAtExit, Starts, Stops, server, motion
    <3> QED
      BY <1>1, <1>2, <2>0, <2>3, <3>1, <3>2, MainMoves DEF Types, motion
  <2> QED
    BY <2>1, <2>2, <2>3 DEF Actors
<1>4. Types'
  <2>1. pc'[a] # "idle" /\ pc[a] # "idle"
    BY <1>1, <1>3 DEF Starts
  <2>2. \A h \in Handlers : (pc'[h] = "idle") = (req'[h] = "none")
    BY <1>1, <1>2, <2>1 DEF Types, TypeOK, Places, requests, Actors
  <2>3. {simulating_'} \subseteq BOOLEAN /\ simulation_thread_' \in Threads
    BY <1>2 DEF startSimulation, sim, Threads, Types, TypeOK
  <2> QED
    BY <1>1, <1>2, <1>3, <2>2, <2>3
    DEF Types, TypeOK, Threads, motion, server, requests, Ghosts
<1>5. PluginPlace'
  <2>1. \A h \in Handlers : (Hooking(h)' => Hooking(h)) /\ (Destroying(h)' => Destroying(h))
    BY <1>1, <1>2, <1>3 DEF Hooking, Destroying, Types, Places, Starts, Actors
  <2>2. /\ pc'[Main] \in Starts => pc[Main] \in Starts
        /\ pc'[Main] \in Stops \cup {"drop"} => pc[Main] \in Stops \cup {"drop"}
    BY <1>1, <1>2, <1>3 DEF Places, Starts, Stops, Actors
  <2> QED
    BY <1>1, <1>2, <2>1, <2>2, PluginStays
<1>6. ASSUME ~overlapped' PROVE Calm'
  <2>1. ~overlapped /\ ~Overlap' /\ Calm
    BY <1>6, StillCalm DEF Ready
  <2>2. /\ plugin \notin {"absent", "Loaded", "taken"}
        /\ \A h \in Handlers : pc[h] # "destroy"
        /\ pc[Main] # "drop"
    BY <1>1, <1>2, <1>3, <2>1, NoneDestroys DEF Calm
  <2>3. \A b \in Actors : b # a => pc'[b] = pc[b]
    BY <1>1, <1>2 DEF Types, Places
  <2>4. pc[a] \in {"start2", "start3"} \/ pc'[a] \in {"start2", "start3"} =>
            \A b \in Actors : b # a => ~InSimulation(b)
    BY <2>1, <2>3 DEF Overlap, Calm, InSimulation
  <2>5. \A b \in Actors : b # a => (InSimulation(b)' <=> InSimulation(b))
    BY <2>3 DEF InSimulation
  <2>6. (\A h \in Handlers : pc'[h] # "destroy") /\ pc'[Main] # "drop"
    BY <1>1, <1>3, <2>2, <2>3 DEF Actors, Starts
  <2>7. Lives' /\ SimulationPlace'
    <3>1. CASE pc[a] = "start1" /\ pc'[a] = "start2"
      <4>1. UNCHANGED <<sim, crashed>> /\ ~simulating_
        BY <1>2, <1>3, <3>1 DEF startSimulation, NoCrash, Go, sim, Types, Places
      <4>2. \A b \in Actors : ~InSimulation(b)
        BY <2>4, <3>1 DEF InSimulation
      <4>3. Off
        BY <2>1, <4>1, <4>2 DEF Calm, SimulationPlace, Resting, On, Off
      <4>4. SimulationAt(a)' /\ Resting'
        BY <3>1, <4>1, <4>3 DEF SimulationAt, Resting, InSimulation, Off, sim
      <4> QED
        BY <1>1, <2>1, <2>2, <2>3, <2>6, <4>1, <4>4, SimulationMoves
        DEF Calm, Lives
    <3>2. CASE pc[a] = "start1" /\ pc'[a] # "start2"
      <4>1. UNCHANGED <<sim, crashed>> /\ pc'[a] = back[a]
        BY <1>2, <3>2 DEF startSimulation, NoCrash, Go, sim, Types, Places
      <4>2. ~InSimulation(a) /\ ~InSimulation(a)'
        BY <1>3, <3>2, <4>1 DEF InSimulation
      <4>3. SimulationAt(a)'
        BY <1>3, <4>1 DEF SimulationAt
      <4>4. Resting'
        BY <2>1, <2>5, <4>1, <4>2
        DEF Calm, SimulationPlace, Resting, On, Off, sim
      <4> QED
        BY <1>1, <2>1, <2>2, <2>3, <2>6, <4>1, <4>3, <4>4, SimulationMoves
        DEF Calm, Lives
    <3>3. CASE pc[a] = "start2"
      <4>1. simulating_' /\ pc'[a] = "start3" /\ UNCHANGED <<simulation_thread_, crashed>> /\ Off
        BY <1>2, <2>1, <3>3
        DEF startSimulation, NoCrash, Go, sim, Types, Places, Calm,
           SimulationPlace, SimulationAt
      <4>2. SimulationAt(a)' /\ Resting'
        BY <4>1 DEF SimulationAt, Resting, InSimulation, Off
      <4> QED
        BY <1>1, <2>1, <2>2, <2>3, <2>4, <2>6, <3>3, <4>1, <4>2, SimulationMoves
        DEF Calm, Lives
    <3>4. CASE pc[a] = "start3"
      <4>0. simulation_thread_ = "none" /\ simulating_ /\ Lives
        BY <2>1, <3>4 DEF Calm, SimulationPlace, SimulationAt
      <4>1. /\ On' \/ (simulation_thread_' = "none" /\ simulating_')
            /\ pc'[a] \in {"start3", "caught", back[a]} /\ Lives'
            /\ pc'[a] = "start3" => simulation_thread_' = "none" /\ simulating_'
        BY <1>2, <1>3, <3>4, <4>0
        DEF startSimulation, Crash, NoCrash, Go, control, sim, Types, Places,
           Joinable, On, Lives
      <4>2. SimulationAt(a)' /\ Resting'
        BY <1>3, <4>1 DEF SimulationAt, Resting
      <4> QED
        BY <1>1, <2>1, <2>2, <2>3, <2>4, <2>6, <3>4, <4>1, <4>2, SimulationMoves
        DEF Calm, Lives
    <3> QED
      BY <1>1, <3>1, <3>2, <3>3, <3>4 DEF Starts
  <2>8. TrajectoryPlace'
    <3>1. \A h \in Handlers : pc'[h] \in {"joining", "joined"} => pc'[h] = pc[h]
      BY <1>1, <1>2, <1>3, <2>3 DEF Places, Actors, Starts
    <3>2. ASSUME pc'[Motion] # "off", ~meddled' PROVE a = Motion /\ ~meddled
      <4>1. pc[Motion] # "off"
        BY <1>1, <1>2, <1>3, <2>3, <3>2 DEF Actors, Starts
      <4> QED
        BY <1>1, <1>2, <3>2, <4>1, Unmeddled DEF Places
    <3>3. ASSUME pc'[Motion] \in {"move", "settle", "finish", "start1"}, ~meddled' PROVE Off'
      BY <1>1, <1>2, <1>3, <2>1, <3>2, <3>3
      DEF startSimulation, Go, Crash, NoCrash, sim, control, Types, Places, Off,
         Calm, TrajectoryPlace
    <3>4. ASSUME pc'[Motion] = "exit", ~meddled' PROVE On'
      <4>1. a = Motion /\ ~meddled /\ pc[Motion] \in Starts
        BY <1>1, <3>2, <3>4
      <4>2. CASE pc[Motion] = "start1"
        BY <1>2, <2>1, <3>4, <4>1, <4>2
        DEF startSimulation, Go, Types, Places, Off, Calm, TrajectoryPlace
      <4>3. CASE pc[Motion] = "start2"
        BY <1>2, <3>4, <4>1, <4>3 DEF startSimulation, Go, Types, Places
      <4>4. CASE pc[Motion] = "start3"
        BY <1>2, <2>1, <3>4, <4>1, <4>4
        DEF startSimulation, Go, Crash, control, Types, Places, Calm,
           SimulationPlace, SimulationAt, On
      <4> QED
        BY <4>1, <4>2, <4>3, <4>4 DEF Starts
    <3> QED
      BY <1>1, <2>1, <3>1, <3>3, <3>4 DEF Calm, TrajectoryPlace, motion
  <2> QED
    BY <1>6, <2>1, <2>7, <2>8 DEF Calm
<1> QED
  BY <1>4, <1>5, <1>6, <1>2, Meddles DEF ServerInv

\* stopSimulation.
LEMMA StopKeeps ==
    ASSUME Ready, NEW a \in Actors, stopSimulation(a)
    PROVE  ServerInv'
<1>1. /\ pc[a] \in Stops
      /\ pc' = [pc EXCEPT ![a] = pc'[a]] /\ back' = back
      /\ pc'[a] \in {back[a]} \cup Stops
      /\ UNCHANGED <<plugin, motion, server, requests>>
  <2>1. pc[a] \in Stops
    BY DEF stopSimulation, Stops
  <2> QED
    BY <2>1
    DEF Ready, ServerInv, Types, Places, stopSimulation, Go, Crash, control, Stops
<1>2. ServerAssumption /\ Types /\ PluginPlace /\ Meddling /\ Ghosts
  BY DEF Ready, ServerInv, Halted, Lives
<1>3. Places' /\ back[a] \in {"answer", "hooked", "destroy", "move", "drop"}
  <2>0. back' = [back EXCEPT ![a] = back'[a]]
    BY <1>1, <1>2 DEF Types, Places
  <2>1. CASE a \in Handlers
    <3>1. pc[a] # "idle" /\ HandlerAt(a)' /\ back[a] \in {"answer", "hooked", "destroy"}
      BY <1>1, <1>2, <2>1
      DEF Types, Places, HandlerPlace, HandlerAt, HandlerLabels, Starts, Stops
    <3> QED
      BY <1>1, <1>2, <2>0, <2>1, <3>1, HandlerMoves DEF Types, motion
  <2>2. CASE a = Motion
    <3>1. pc[Motion] # "off" /\ MotionPlace' /\ back[a] = "move" /\ motion_thread_' = "running"
      BY <1>1, <1>2, <2>2
      DEF Types, Places, MotionPlace, MotionLabels, Starts, Stops, motion
    <3> QED
      BY <1>1, <1>2, <2>0, <2>2, <3>1, MotionMoves DEF Types
  <2>3. CASE a = Main
    <3>1. MainPlace' /\ back[a] = "drop" /\ pc'[Main] \in Stops \cup {"drop"}
      BY <1>1, <1>2, <2>3
      DEF Types, Places, MainPlace, MainLabels, Starts, Stops
    <3>2. ServerPlace' /\ NothingRunsAtExit'
      <4>1. /\ server_thread_ \in {"none", "finished"} /\ ~running_ /\ ~listening /\ motion_thread_ = "none"
            /\ \A h \in Handlers : pc[h] = "idle" /\ h # Main /\ h \in Actors
        BY <1>1, <1>2, <2>3, MainAlone
        DEF Types, Places, ServerPlace, ServerAssumption, Actors
      <4>2. \A h \in Handlers : pc'[h] = "idle"
        BY <1>1, <1>2, <2>3, <4>1 DEF Types, Places
      <4> QED
        BY <1>1, <3>1, <4>1, <4>2
        DEF ServerPlace, NothingRunsAtExit, Starts, Stops, server, motion
    <3> QED
      BY <1>1, <1>2, <2>0, <2>3, <3>1, <3>2, MainMoves DEF Types, motion
  <2> QED
    BY <2>1, <2>2, <2>3 DEF Actors
<1>4. Types'
  <2>1. pc'[a] # "idle" /\ pc[a] # "idle"
    BY <1>1, <1>3 DEF Stops
  <2>2. \A h \in Handlers : (pc'[h] = "idle") = (req'[h] = "none")
    BY <1>1, <1>2, <2>1 DEF Types, TypeOK, Places, requests, Actors
  <2>3. {simulating_'} \subseteq BOOLEAN /\ simulation_thread_' \in Threads
    BY <1>2 DEF stopSimulation, sim, Threads, Types, TypeOK
  <2> QED
    BY <1>1, <1>2, <1>3, <2>2, <2>3
    DEF Types, TypeOK, Threads, motion, server, requests, Ghosts
<1>5. PluginPlace'
  <2>1. \A h \in Handlers : (Hooking(h)' => Hooking(h)) /\ (Destroying(h)' => Destroying(h))
    BY <1>1, <1>2, <1>3 DEF Hooking, Destroying, Types, Places, Stops, Actors
  <2>2. /\ pc'[Main] \in Starts => pc[Main] \in Starts
        /\ pc'[Main] \in Stops \cup {"drop"} => pc[Main] \in Stops \cup {"drop"}
    BY <1>1, <1>2, <1>3 DEF Places, Starts, Stops, Actors
  <2> QED
    BY <1>1, <1>2, <2>1, <2>2, PluginStays
<1>6. ASSUME ~overlapped' PROVE Calm'
  <2>1. ~overlapped /\ ~Overlap' /\ ~Overlap /\ Calm
    BY <1>6, StillCalm DEF Ready, Calm
  <2>2. plugin \notin {"absent", "Loaded"}
    BY <1>1, <2>1 DEF Calm, SimulationPlace, Uses, InSimulation, Stops
  <2>3. \A b \in Actors : b # a => pc'[b] = pc[b]
    BY <1>1, <1>2 DEF Types, Places
  <2>4. InSimulation(a) \/ InSimulation(a)' =>
            \A b \in Actors : b # a => ~InSimulation(b)
    BY <2>1, <2>3 DEF Overlap, InSimulation
  <2>5. back[a] \in {"destroy", "drop"} => \A b \in Actors : b # a => ~Uses(b)
    BY <1>1, <1>2, <2>1, DestroysAlone
  <2>6. (\A h \in Handlers : h # a => pc'[h] # "destroy") /\ (a # Main => pc'[Main] # "drop")
    <3>1. CASE back[a] \in {"destroy", "drop"}
      BY <1>1, <1>2, <2>1, <2>3, <3>1, DestroysAlone DEF Actors
    <3>2. CASE back[a] \notin {"destroy", "drop"}
      BY <1>1, <1>2, <2>1, <2>3, <3>2, NoneDestroys DEF Actors, Calm
    <3> QED
      BY <3>1, <3>2
  <2>7. Lives' /\ SimulationPlace' /\ (pc'[a] \in {"destroy", "drop"} => Off')
    <3>1. CASE pc[a] = "stop1" /\ simulating_
      <4>1. UNCHANGED <<sim, crashed>> /\ pc'[a] = "stop2"
        BY <1>2, <3>1 DEF stopSimulation, NoCrash, Go, sim, Types, Places
      <4>2. simulating_ /\ simulation_thread_ \in {"none", "running"}
        BY <2>1, <2>4, <3>1, <4>1
        DEF InSimulation, Calm, SimulationPlace, Resting, On
      <4>3. SimulationAt(a)' /\ Resting'
        BY <4>1, <4>2 DEF SimulationAt, Resting, InSimulation, sim
      <4> QED
        BY <1>1, <2>1, <2>2, <2>3, <2>6, <4>1, <4>3, SimulationMoves
        DEF Calm, Lives
    <3>2. CASE pc[a] = "stop1" /\ ~simulating_
      <4>1. UNCHANGED <<sim, crashed>> /\ pc'[a] = back[a]
        BY <1>2, <3>2 DEF stopSimulation, NoCrash, Go, sim, Types, Places
      <4>2. ~InSimulation(a) /\ ~InSimulation(a)'
        BY <1>3, <3>2, <4>1 DEF InSimulation
      <4>3. SimulationAt(a)' /\ Resting'
        <5>1. \A b \in Actors : b # a => (InSimulation(b)' <=> InSimulation(b))
          BY <2>3 DEF InSimulation
        <5> QED
          BY <1>3, <2>1, <4>1, <4>2, <5>1
          DEF Calm, SimulationPlace, SimulationAt, Resting, On, Off, sim
      <4>4. pc'[a] \in {"destroy", "drop"} => Off'
        BY <2>1, <2>5, <3>2, <4>1, <4>2
        DEF Uses, Calm, SimulationPlace, Resting, On, Off, sim
      <4> QED
        BY <1>1, <2>1, <2>2, <2>3, <2>6, <4>1, <4>3, <4>4, SimulationMoves
        DEF Calm, Lives
    <3>3. CASE pc[a] = "stop2"
      <4>1. /\ ~simulating_' /\ pc'[a] = "stop3" /\ UNCHANGED <<simulation_thread_, crashed>>
            /\ simulation_thread_ \in {"none", "running"}
        BY <1>2, <2>1, <3>3
        DEF stopSimulation, NoCrash, Go, Types, Places, Calm, SimulationPlace,
           SimulationAt
      <4>2. SimulationAt(a)' /\ Resting'
        BY <4>1 DEF SimulationAt, Resting, InSimulation
      <4> QED
        BY <1>1, <2>1, <2>2, <2>3, <2>4, <2>6, <3>3, <4>1, <4>2, SimulationMoves
        DEF Calm, Lives, InSimulation
    <3>4. CASE pc[a] = "stop3"
      <4>1. /\ UNCHANGED <<sim, crashed>> /\ ~simulating_
            /\ \/ pc'[a] = "stop4" /\ simulation_thread_ \in {"running", "finished"}
               \/ pc'[a] = back[a] /\ simulation_thread_ = "none"
        BY <1>2, <2>1, <3>4
        DEF stopSimulation, NoCrash, Go, sim, Types, Places, Calm,
           SimulationPlace, SimulationAt, Joinable
      <4>2. SimulationAt(a)' /\ Resting'
        BY <1>3, <4>1 DEF SimulationAt, Resting, InSimulation, sim
      <4>3. pc'[a] \in {"destroy", "drop"} => Off'
        BY <4>1 DEF Off, sim
      <4> QED
        BY <1>1, <2>1, <2>2, <2>3, <2>6, <4>1, <4>2, <4>3, SimulationMoves
        DEF Calm, Lives
    <3>5. CASE pc[a] = "stop4"
      <4>0. simulation_thread_ # "none" /\ ~simulating_
        BY <2>1, <3>5 DEF Calm, SimulationPlace, SimulationAt
      <4>3. /\ simulation_thread_' = "none" /\ simulating_' = simulating_
            /\ pc' = [pc EXCEPT ![a] = back[a]] /\ UNCHANGED crashed
        BY <3>5, <4>0 DEF stopSimulation, NoCrash, Go
      <4>1. Off' /\ UNCHANGED crashed /\ pc'[a] = back[a]
        BY <1>2, <4>0, <4>3 DEF Types, Places, Off
      <4>2. SimulationAt(a)' /\ Resting'
        BY <1>3, <4>1 DEF SimulationAt, Resting, Off
      <4> QED
        BY <1>1, <2>1, <2>2, <2>3, <2>4, <2>6, <3>5, <4>1, <4>2, SimulationMoves
        DEF Calm, Lives, InSimulation
    <3> QED
      BY <1>1, <3>1, <3>2, <3>3, <3>4, <3>5 DEF Stops
  <2>8. TrajectoryPlace'
    <3>1. \A h \in Handlers : pc'[h] \in {"joining", "joined"} => pc'[h] = pc[h]
      BY <1>1, <1>3, <2>3 DEF Actors, Stops
    <3>2. ASSUME pc'[Motion] # "off", ~meddled' PROVE a = Motion /\ ~meddled
      <4>1. pc[Motion] # "off"
        BY <1>1, <2>3, <3>2 DEF Actors, Stops
      <4> QED
        BY <1>1, <1>2, <3>2, <4>1, Unmeddled
    <3>3. ASSUME pc'[Motion] \in {"move", "settle", "finish", "start1"}, ~meddled' PROVE Off'
      <4>1. a = Motion /\ ~meddled /\ pc[Motion] # "off"
        BY <1>1, <3>2, <3>3 DEF Stops
      <4>2. pc'[Motion] = back[Motion]
        BY <1>1, <3>3, <4>1 DEF Stops
      <4>3. \A b \in Actors : b # a => ~InSimulation(b)
        BY <1>2, <3>3, <4>1, Unmeddled DEF InSimulation, Starts, Stops
      <4>4. CASE pc[Motion] = "stop1"
        BY <1>2, <1>3, <2>1, <4>1, <4>2, <4>3, <4>4
        DEF stopSimulation, Go, sim, Types, Places, On, Off, Calm,
           SimulationPlace, Resting, InSimulation
      <4>5. CASE pc[Motion] = "stop4"
        <5>1. simulation_thread_ # "none" /\ ~simulating_
          BY <1>1, <2>1, <4>1, <4>5 DEF Calm, SimulationPlace, SimulationAt
        <5>2. simulation_thread_' = "none" /\ simulating_' = simulating_
          BY <4>1, <4>5, <5>1 DEF stopSimulation
        <5> QED
          BY <5>1, <5>2 DEF Off
      <4>6. CASE pc[Motion] = "stop2"
        BY <1>2, <1>3, <4>1, <4>2, <4>6 DEF stopSimulation, Go, Types, Places
      <4>7. CASE pc[Motion] = "stop3"
        <5>1. pc'[Motion] # "stop4" /\ ~simulating_
          BY <1>3, <2>1, <4>1, <4>2, <4>7 DEF Calm, SimulationPlace, SimulationAt
        <5>2. ~Joinable(simulation_thread_) /\ UNCHANGED sim
          BY <1>2, <4>1, <4>7, <5>1 DEF stopSimulation, Go, Types, Places
        <5> QED
          BY <5>1, <5>2 DEF Off, Joinable, sim
      <4> QED
        BY <1>1, <4>1, <4>4, <4>5, <4>6, <4>7 DEF Stops
    <3>4. pc'[Motion] = "exit" /\ ~meddled' => a = Motion
      BY <3>2
    <3>5. pc'[a] # "exit"
      BY <1>1, <1>3 DEF Stops
    <3> QED
      BY <1>1, <2>1, <3>1, <3>3, <3>4, <3>5 DEF Calm, TrajectoryPlace, motion
  <2> QED
    BY <1>6, <2>1, <2>7, <2>8 DEF Calm
<1> QED
  BY <1>4, <1>5, <1>6, <1>2, Meddles DEF ServerInv

\* The simulation thread ends when its flag is off; a destroyed plugin has none.
LEMMA ThreadKeeps ==
    ASSUME Ready, SimulationThread
    PROVE  ServerInv'
<1>1. /\ UNCHANGED <<pc, back, plugin, simulating_, motion, server, requests>>
      /\ simulation_thread_ = "running"
      /\ simulation_thread_' \in {"running", "finished"}
  BY DEF SimulationThread, Crash, control, sim
<1>2. ServerAssumption /\ Types /\ PluginPlace /\ Meddling /\ Ghosts
  BY DEF Ready, ServerInv, Halted, Lives
<1>3. Types'
  <2>1. Places'
    BY <1>1, <1>2, PlacesStay DEF Types, motion
  <2> QED
    BY <1>1, <1>2, <2>1
    DEF Types, TypeOK, Threads, motion, server, requests, Ghosts
<1>4. PluginPlace'
  BY <1>1, <1>2 DEF PluginPlace, Hooking, Destroying, HasInstance
<1>5. ASSUME ~overlapped' PROVE Calm'
  <2>1. ~overlapped /\ ~Overlap' /\ ~Overlap /\ Calm
    BY <1>5, StillCalm DEF Ready, Calm
  <2>2. ~Destroyed /\ ~Off
    BY <1>1, <2>1 DEF Calm, SimulationPlace, Destroyed, Off
  <2>3. /\ ~simulating_ /\ simulation_thread_' = "finished" /\ UNCHANGED crashed
    BY <2>2 DEF SimulationThread, NoCrash
  <2>4. SimulationPlace'
    <3>1. \A a \in Actors : SimulationAt(a)'
      BY <1>1, <2>1, <2>2, <2>3 DEF Calm, SimulationPlace, SimulationAt, On
    <3>2. Resting'
      BY <1>1, <2>1, <2>2, <2>3
      DEF Calm, SimulationPlace, Resting, InSimulation, On
    <3>3. /\ plugin' \notin {"absent", "Loaded"} /\ \A h \in Handlers : pc'[h] # "destroy"
          /\ pc'[Main] # "drop"
      BY <1>1, <2>1, <2>2 DEF Calm, SimulationPlace
    <3> QED
      BY <3>1, <3>2, <3>3 DEF SimulationPlace
  <2>5. TrajectoryPlace'
    <3>1. pc[Motion] # "off" /\ ~meddled' => ~meddled
      BY <1>1, <1>2, Unmeddled
    <3> QED
      BY <1>1, <2>1, <2>2, <2>3, <3>1 DEF Calm, TrajectoryPlace, On, motion
  <2> QED
    BY <1>5, <2>1, <2>3, <2>4, <2>5 DEF Calm, Lives
<1> QED
  BY <1>3, <1>4, <1>5, <1>2, Meddles DEF ServerInv

-----------------------------------------------------------------------------
(* The trajectory                                                           *)

\* executeTrajectory: between its two calls only it runs the simulation.
LEMMA TrajectoryKeeps ==
    ASSUME Ready, executeTrajectory
    PROVE  ServerInv'
<1>1. ServerAssumption /\ Types /\ PluginPlace /\ Meddling /\ Ghosts
  BY DEF Ready, ServerInv, Halted, Lives
<1>2. /\ pc[Motion] \in MotionLabels \ ({"off"} \cup Starts \cup Stops)
      /\ pc' = [pc EXCEPT ![Motion] = pc'[Motion]]
      /\ back' = [back EXCEPT ![Motion] = back'[Motion]]
      /\ UNCHANGED <<plugin, sim, server, requests>>
      /\ motion_thread_ = "running" /\ step' \in 0..Steps
      /\ motion_executing_' \in BOOLEAN /\ motion_stop_requested_' \in BOOLEAN
  <2>1. pc[Motion] \in MotionLabels \ ({"off"} \cup Starts \cup Stops)
    BY DEF executeTrajectory, MotionLabels, Starts, Stops
  <2>2. motion_thread_ = "running"
    BY <1>1, <2>1 DEF Types, Places, MotionPlace
  <2>3. /\ pc' = [pc EXCEPT ![Motion] = pc'[Motion]]
        /\ back' = [back EXCEPT ![Motion] = back'[Motion]]
    BY <1>1
    DEF executeTrajectory, MotionEnds, UsesPlugin, Go, Call, Crash, control,
       Types, Places
  <2>4. /\ step \in 0..Steps /\ motion_executing_ \in BOOLEAN /\ motion_stop_requested_ \in BOOLEAN
        /\ Steps \in Nat
    BY <1>1 DEF Types, TypeOK, ServerAssumption
  <2>5. step' \in 0..Steps /\ motion_executing_' \in BOOLEAN /\ motion_stop_requested_' \in BOOLEAN
    <3>1. step' \in {step, 0} \/ (step # Steps /\ step' = step + 1)
      BY DEF executeTrajectory, MotionEnds, motion
    <3>2. /\ motion_executing_' \in {TRUE, FALSE, motion_executing_}
          /\ motion_stop_requested_' \in {FALSE, motion_stop_requested_}
      BY DEF executeTrajectory, MotionEnds, motion
    <3>3. step' \in 0..Steps
      BY <2>4, <3>1
    <3> QED
      BY <2>4, <3>2, <3>3
  <2> QED
    BY <2>1, <2>2, <2>3, <2>5 DEF executeTrajectory
<1>3. /\ \A b \in Actors : b # Motion => pc'[b] = pc[b]
      /\ Motion \in Actors /\ \A h \in Handlers : h \in Actors /\ h # Motion
      /\ Main \in Actors /\ Main # Motion
  BY <1>1, <1>2 DEF Types, Places, Actors, ServerAssumption
<1>4. \/ /\ pc'[Motion] = "off" /\ motion_thread_' = "finished" /\ back'[Motion] = back[Motion]
         /\ pc[Motion] \in {"fetch", "caught", "exit"}
      \/ /\ motion_thread_' = "running"
         /\ \/ pc'[Motion] = "enter" /\ HasInstance
            \/ pc'[Motion] = "forget" /\ pc[Motion] = "enter"
            \/ pc'[Motion] = "stop1" /\ back'[Motion] = "move" /\ pc[Motion] = "forget"
            \/ pc'[Motion] \in {"move", "settle"} /\ pc[Motion] = "move"
            \/ pc'[Motion] \in {"settle", "finish"} /\ pc[Motion] = "settle"
            \/ pc'[Motion] = "start1" /\ back'[Motion] = "exit" /\ pc[Motion] = "finish"
            \/ pc'[Motion] = "caught"
         /\ pc'[Motion] \notin Starts \cup Stops => back'[Motion] = back[Motion]
  BY <1>1, <1>2
  DEF executeTrajectory, MotionEnds, UsesPlugin, Go, Call, Crash, control,
     Types, Places, motion, Starts, Stops, Actors
<1>5. Places'
  <2>1. MotionPlace' /\ motion_thread_' \in {"running", "finished"}
    BY <1>1, <1>4 DEF Types, Places, MotionPlace, MotionLabels, Starts, Stops
  <2>2. pc[Motion] # "off"
    BY <1>2
  <2> QED
    BY <1>1, <1>2, <2>1, <2>2, MotionMoves DEF Types
<1>6. Types'
  BY <1>1, <1>2, <1>3, <1>4, <1>5
  DEF Types, TypeOK, Threads, sim, server, requests, Ghosts
<1>7. PluginPlace'
  <2>1. \A h \in Handlers : (Hooking(h)' => Hooking(h)) /\ (Destroying(h)' => Destroying(h))
    BY <1>1, <1>2, <1>3 DEF Hooking, Destroying, Types, Places
  <2> QED
    BY <1>1, <1>2, <1>3, <2>1, PluginStays
<1>8. ASSUME ~overlapped' PROVE Calm'
  <2>1. ~overlapped /\ ~Overlap' /\ ~Overlap /\ Calm
    BY <1>8, StillCalm DEF Ready, Calm
  <2>2. pc[Motion] \notin {"fetch", "caught", "exit"} => ~Destroyed
    BY <1>2, <1>3, <2>1 DEF Calm, SimulationPlace, Uses, Destroyed
  <2>3. UNCHANGED crashed
    BY <2>2 DEF executeTrajectory, UsesPlugin, NoCrash
  <2>4. SimulationPlace'
    <3>1. ~InSimulation(Motion) /\ ~InSimulation(Motion)'
      BY <1>2, <1>4 DEF InSimulation, Starts, Stops
    <3>2. plugin \in {"absent", "Loaded"} => ~Uses(Motion)'
      <4>1. CASE pc'[Motion] \in {"off", "caught"}
        BY <4>1 DEF Uses, InSimulation
      <4>2. CASE pc'[Motion] = "enter" /\ HasInstance
        BY <4>2 DEF HasInstance
      <4>3. CASE pc[Motion] \in {"enter", "forget", "move", "settle", "finish"}
        BY <1>3, <2>1, <4>3 DEF Calm, SimulationPlace, Uses
      <4> QED
        BY <1>4, <4>1, <4>2, <4>3
    <3>3. pc'[Motion] \notin {"destroy", "drop"}
      BY <1>4
    <3> QED
      BY <1>2, <1>3, <2>1, <3>1, <3>2, <3>3, OutsideMoves DEF Calm
  <2>5. TrajectoryPlace'
    <3>1. \A h \in Handlers : pc'[h] # "joined" /\ motion_thread_' # "none"
      BY <1>2, <1>3, <1>4, <2>1 DEF Calm, TrajectoryPlace
    <3>2. pc'[Motion] # "off" /\ ~meddled' => ~meddled
      BY <1>1, <1>2, Unmeddled
    <3>3. pc'[Motion] # "exit"
      BY <1>4
    <3>4. ASSUME pc'[Motion] \in {"move", "settle", "finish", "start1"}, ~meddled' PROVE Off'
      <4>1. pc[Motion] \in {"move", "settle", "finish"} /\ ~meddled
        BY <1>4, <3>2, <3>4
      <4> QED
        BY <1>2, <2>1, <4>1 DEF Calm, TrajectoryPlace, Off, sim
    <3> QED
      BY <3>1, <3>3, <3>4 DEF TrajectoryPlace
  <2> QED
    BY <1>8, <2>1, <2>3, <2>4, <2>5 DEF Calm, Lives
<1> QED
  BY <1>6, <1>7, <1>8, <1>1, Meddles DEF ServerInv

-----------------------------------------------------------------------------
(* Requests                                                                 *)

\* Types and places after a handler's step.
LEMMA HandlerTypes ==
    ASSUME ServerAssumption, Types, Ghosts, NEW h \in Handlers, pc[h] # "idle",
           pc' = [pc EXCEPT ![h] = pc'[h]], back' = [back EXCEPT ![h] = back'[h]],
           HandlerAt(h)', Answered, UNCHANGED <<sim, server>>,
           plugin' \in {"absent", "Loaded", "Initialized", "Running", "Stopped", "taken"},
           motion_thread_' = motion_thread_ \/ (motion_thread_ = "finished" /\ motion_thread_' = "none"),
           motion_executing_' = motion_executing_, motion_stop_requested_' \in {motion_stop_requested_, TRUE},
           step' = step
    PROVE  Types'
<1>1. Places'
  BY HandlerMoves DEF Types
<1>2. \A b \in Actors : b # h => pc'[b] = pc[b]
  BY DEF Types, Places
<1>3. ASSUME NEW g \in Handlers PROVE (pc'[g] = "idle") = (req'[g] = "none")
  <2>1. req'[g] = IF pc'[g] = "idle" THEN "none" ELSE req[g]
    BY DEF Answered
  <2>2. pc'[g] # "idle" => pc[g] # "idle"
    BY <1>2 DEF Actors
  <2> QED
    BY <2>1, <2>2 DEF Types, TypeOK
<1>4. /\ {simulating_', motion_executing_', motion_stop_requested_', running_', listening'} \subseteq BOOLEAN
      /\ {simulation_thread_', motion_thread_', server_thread_'} \subseteq Threads
  BY DEF Types, TypeOK, Threads, sim, server
<1> QED
  BY <1>1, <1>3, <1>4 DEF Types, TypeOK, Answered, Ghosts

\* A handler's step that leaves the manager, the server and both threads
\* alone, stays outside the simulation and ends no process.
LEMMA HandlerSteps ==
    ASSUME Ready, NEW h \in Handlers, pc[h] \notin {"idle"} \cup Starts \cup Stops,
           pc' = [pc EXCEPT ![h] = pc'[h]], back' = [back EXCEPT ![h] = back'[h]],
           HandlerAt(h)', pc'[h] # "destroy", Answered,
           UNCHANGED <<plugin, sim, motion, server>>,
           Hooking(h)' => Hooking(h), Destroying(h)' => Destroying(h),
           ~overlapped => pc'[h] \notin {"joining", "joined", "start2", "start3", "stop2", "stop3", "stop4"},
           ~overlapped => Lives',
           plugin \in {"absent", "Loaded"} => ~Uses(h)' \/ Uses(h)
    PROVE  ServerInv'
<1>1. ServerAssumption /\ Types /\ PluginPlace /\ Meddling /\ Ghosts
  BY DEF Ready, ServerInv, Halted, Lives
<1>2. /\ \A b \in Actors : b # h => pc'[b] = pc[b] /\ back'[b] = back[b]
      /\ h \in Actors /\ h # Motion /\ h # Main /\ Main \in Actors
      /\ \A g \in Handlers : g \in Actors
  BY <1>1 DEF Types, Places, Actors, ServerAssumption
<1>3. Types'
  BY <1>1, HandlerTypes DEF Types, TypeOK, motion
<1>4. PluginPlace'
  <2>1. \A g \in Handlers : (Hooking(g)' => Hooking(g)) /\ (Destroying(g)' => Destroying(g))
    BY <1>2 DEF Hooking, Destroying
  <2> QED
    BY <1>1, <1>2, <2>1, PluginStays
<1>5. ASSUME ~overlapped' PROVE Calm'
  <2>1. ~overlapped /\ ~Overlap' /\ ~Overlap /\ Calm
    BY <1>5, StillCalm DEF Ready, Calm
  <2>2. SimulationPlace'
    <3>1. ~InSimulation(h) /\ ~InSimulation(h)' /\ pc'[h] \notin {"destroy", "drop"}
      BY <2>1 DEF InSimulation, Starts, Stops, HandlerAt, HandlerLabels
    <3>2. plugin \in {"absent", "Loaded"} => ~Uses(h)'
      BY <1>2, <2>1 DEF Calm, SimulationPlace
    <3> QED
      BY <1>2, <2>1, <3>1, <3>2, OutsideMoves DEF Calm
  <2>3. TrajectoryPlace'
    BY <1>1, <1>2, <2>1, TrajectoryStays DEF Calm
  <2> QED
    BY <1>5, <2>1, <2>2, <2>3 DEF Calm
<1> QED
  BY <1>3, <1>4, <1>5, <1>1, Meddles DEF ServerInv

\* Requests that only read the manager, or not even that.
LEMMA ReadsKeep ==
    ASSUME Ready, NEW h \in Handlers, ManagerReads(h)
    PROVE  ServerInv'
<1>1. /\ pc[h] = "begin" /\ pc' = [pc EXCEPT ![h] = "idle"] /\ UNCHANGED <<back, crashed>>
      /\ Answered /\ UNCHANGED <<plugin, sim, motion, server>>
  BY DEF ManagerReads, handleScanPlugins, handleGetPluginMetadata,
     handleGetPluginState, handleGetLoadedPlugins, handleGetServices,
     handlePublishEvent, handleGetPresets, handleGetMotionStatus, Serves,
     Answer, Unchanged, NoCrash
<1>2. ServerAssumption /\ Types
  BY DEF Ready, ServerInv
<1>3. /\ pc'[h] = "idle" /\ back' = [back EXCEPT ![h] = back'[h]]
      /\ HandlerAt(h)'
  BY <1>1, <1>2
  DEF Types, Places, HandlerPlace, HandlerAt, HandlerLabels, Actors, Starts,
     Stops
<1>4. ~Uses(h)' /\ ~Hooking(h)' /\ ~Destroying(h)'
  BY <1>2, <1>3 DEF Uses, InSimulation, Hooking, Destroying, ServerAssumption
<1>5. ~overlapped => Lives'
  BY <1>1 DEF Ready, Halted, Lives
<1> QED
  BY <1>1, <1>3, <1>4, <1>5, HandlerSteps DEF Starts, Stops

\* Requests that use the hardware once.
LEMMA UsesKeep ==
    ASSUME Ready, NEW h \in Handlers, HardwareUses(h)
    PROVE  ServerInv'
<1>1. /\ \/ /\ pc[h] = "begin" /\ pc'[h] \in {"use", "idle"} /\ UNCHANGED crashed
            /\ pc'[h] = "use" => HasInstance
         \/ pc[h] = "use" /\ pc'[h] = "idle" /\ UNCHANGED crashed
         \/ pc[h] = "use" /\ Destroyed /\ pc' = pc
      /\ pc' = [pc EXCEPT ![h] = pc'[h]] /\ UNCHANGED back
      /\ Answered /\ UNCHANGED <<plugin, sim, motion, server>>
  BY DEF Ready, ServerInv, Types, Places, Actors, HardwareUses, handleGetRobotState,
     handleSetJointPosition, handleSetJointPositions, handleGetSensorData,
     handleResetSimulation, handleStepSimulation, getHardware, UsesPlugin,
     Serves, Answer, Go, Crash, control, Unchanged, NoCrash
<1>2. ServerAssumption /\ Types
  BY DEF Ready, ServerInv
<1>3. /\ back' = [back EXCEPT ![h] = back'[h]]
      /\ HandlerAt(h)'
  BY <1>1, <1>2
  DEF Types, Places, HandlerPlace, HandlerAt, HandlerLabels, Actors, Starts,
     Stops
<1>4. ~Hooking(h)' /\ ~Destroying(h)'
  BY <1>1, <1>2 DEF Hooking, Destroying, Types, Places, HandlerPlace, HandlerAt
<1>5. plugin \in {"absent", "Loaded"} => ~Uses(h)' \/ Uses(h)
  BY <1>1, <1>2 DEF Uses, InSimulation, HasInstance, ServerAssumption
<1>6. ~overlapped => Lives'
  BY <1>1
  DEF Ready, ServerInv, Calm, SimulationPlace, Uses, Destroyed, Actors, Halted, Lives
<1> QED
  BY <1>1, <1>3, <1>4, <1>5, <1>6, HandlerSteps DEF Starts, Stops

\* startSimulation and stopSimulation from a request.
LEMMA SimulationRequestsKeep ==
    ASSUME Ready, NEW h \in Handlers, SimulationRequests(h)
    PROVE  ServerInv'
<1>1. /\ \/ /\ pc[h] = "begin" /\ pc'[h] \in {"use", "idle"} /\ UNCHANGED <<back, crashed>>
            /\ pc'[h] = "use" => HasInstance
         \/ /\ pc[h] = "use" /\ pc'[h] \in {"start1", "stop1"} /\ UNCHANGED crashed
            /\ back' = [back EXCEPT ![h] = "answer"]
         \/ pc[h] = "use" /\ Destroyed /\ UNCHANGED <<pc, back>>
         \/ pc[h] = "answer" /\ pc'[h] = "idle" /\ UNCHANGED <<back, crashed>>
      /\ pc' = [pc EXCEPT ![h] = pc'[h]]
      /\ Answered /\ UNCHANGED <<plugin, sim, motion, server>>
  BY DEF Ready, ServerInv, Types, Places, Actors, SimulationRequests,
     handleStartSimulation, handleStopSimulation, getHardware, Serves, Answer,
     Go, Call, Crash, control, Unchanged, NoCrash
<1>2. ServerAssumption /\ Types
  BY DEF Ready, ServerInv
<1>3. /\ back' = [back EXCEPT ![h] = back'[h]]
      /\ HandlerAt(h)'
  BY <1>1, <1>2
  DEF Types, Places, HandlerPlace, HandlerAt, HandlerLabels, Actors, Starts,
     Stops
<1>4. ~Hooking(h)' /\ ~Destroying(h)'
  BY <1>1, <1>2
  DEF Hooking, Destroying, Types, Places, HandlerPlace, HandlerAt, Actors
<1>5. plugin \in {"absent", "Loaded"} => ~Uses(h)' \/ Uses(h)
  BY <1>1, <1>2 DEF Uses, InSimulation, HasInstance, ServerAssumption
<1>6. ~overlapped => Lives'
  BY <1>1
  DEF Ready, ServerInv, Calm, SimulationPlace, Uses, Destroyed, Actors, Halted, Lives
<1> QED
  BY <1>1, <1>3, <1>4, <1>5, <1>6, HandlerSteps DEF Starts, Stops

\* The manager's own requests: the record changes only when nobody is inside
\* stopPlugin, and one handler takes the plugin to destroy it.
LEMMA PluginRequestsKeep ==
    ASSUME Ready, NEW h \in Handlers, PluginRequests(h)
    PROVE  ServerInv'
<1>1. ServerAssumption /\ Types /\ PluginPlace /\ Meddling /\ Ghosts /\ crashed = "no"
  BY DEF Ready, ServerInv, Halted, Lives
<1> DEFINE load == /\ pc[h] \in {"begin", "loadPlugin", "initializePlugin", "startPlugin"}
                   /\ pc'[h] \in {"idle", "loadPlugin", "initializePlugin", "startPlugin"}
                   /\ back'[h] = back[h]
                   /\ plugin' # plugin => /\ plugin \in {"absent", "Loaded", "Initialized"}
                                          /\ plugin' \in {"Loaded", "Initialized", "Running"}
                                          /\ plugin' = "Loaded" => plugin = "absent"
                                          /\ \A g \in Handlers : ~Hooking(g)
           hook == /\ pc[h] = "begin" /\ pc'[h] = "stop1" /\ back'[h] = "hooked"
                   /\ plugin = "Running" /\ plugin' = plugin
                   /\ \A g \in Handlers : ~Hooking(g)
           look == /\ pc[h] = "begin" /\ pc'[h] \in {"idle", "take"} /\ back'[h] = back[h]
                   /\ plugin' = plugin
           hooked == /\ pc[h] = "hooked" /\ pc'[h] \in {"idle", "take"} /\ back'[h] = back[h]
                     /\ plugin' = "Stopped"
           nothing == /\ pc[h] = "take" /\ pc'[h] = "idle" /\ back'[h] = back[h]
                      /\ \/ plugin' = plugin
                         \/ plugin = "Loaded" /\ plugin' = "absent"
                      /\ \A g \in Handlers : ~Hooking(g)
           take == /\ pc[h] = "take" /\ pc'[h] = "stop1" /\ back'[h] = "destroy"
                   /\ plugin \notin {"absent", "taken"} /\ plugin' = "taken"
                   /\ \A g \in Handlers : ~Hooking(g)
           destroy == /\ pc[h] = "destroy" /\ plugin' = "absent" /\ back'[h] = back[h]
                      /\ IF Joinable(simulation_thread_) THEN ~Lives' /\ pc'[h] = pc[h] ELSE pc'[h] = "idle"
<1>2. /\ pc' = [pc EXCEPT ![h] = pc'[h]] /\ back' = [back EXCEPT ![h] = back'[h]]
      /\ load \/ hook \/ look \/ hooked \/ nothing \/ take \/ destroy
      /\ ~destroy \/ ~Joinable(simulation_thread_) => UNCHANGED crashed
      /\ Answered /\ UNCHANGED <<server, sim, motion>>
  <2>1. /\ ManagerFree => \A g \in Handlers : ~Hooking(g)
        /\ h \in Actors /\ h \in DOMAIN pc /\ h \in DOMAIN back
        /\ back = [back EXCEPT ![h] = back[h]] /\ pc = [pc EXCEPT ![h] = pc[h]]
    BY <1>1 DEF ManagerFree, Hooking, Types, Places, Actors
  <2>2. CASE handleLoadPlugin(h) /\ NoCrash
    <3>1. load
      BY <2>1, <2>2 DEF handleLoadPlugin, Loads, Serves, Answer
    <3> QED
      BY <2>1, <2>2, <3>1 DEF PluginRequests, handleLoadPlugin, Loads, Answer, NoCrash
  <2>3. CASE handleStartPlugin(h) /\ NoCrash
    <3>1. load
      BY <2>1, <2>3 DEF handleStartPlugin, Loads, Answer, Go
    <3> QED
      BY <2>1, <2>3, <3>1 DEF PluginRequests, handleStartPlugin, Loads, Answer, Go, NoCrash
  <2>4. CASE handleStopPlugin(h) /\ NoCrash
    <3>1. hook \/ look \/ hooked
      BY <2>1, <2>4 DEF handleStopPlugin, Serves, Answer, Call
    <3>2. /\ pc' = [pc EXCEPT ![h] = pc'[h]] /\ back' = [back EXCEPT ![h] = back'[h]]
      BY <2>1, <2>4 DEF handleStopPlugin, Answer, Call
    <3> QED
      BY <2>4, <3>1, <3>2 DEF PluginRequests, NoCrash
  <2>5. CASE handleUnloadPlugin(h)
    <3>1. /\ hook \/ look \/ hooked \/ nothing \/ take \/ destroy
          /\ ~destroy \/ ~Joinable(simulation_thread_) => UNCHANGED crashed
      BY <1>1, <2>1, <2>5
      DEF handleUnloadPlugin, Serves, Answer, Call, Go, Crash, NoCrash, control,
         Lives
    <3>2. /\ pc' = [pc EXCEPT ![h] = pc'[h]] /\ back' = [back EXCEPT ![h] = back'[h]]
      BY <2>1, <2>5 DEF handleUnloadPlugin, Answer, Call, Go, Crash, control
    <3> QED
      BY <2>5, <3>1, <3>2 DEF PluginRequests
  <2> QED
    BY <2>2, <2>3, <2>4, <2>5 DEF PluginRequests
<1>3. /\ \A b \in Actors : b # h => pc'[b] = pc[b] /\ back'[b] = back[b]
      /\ h \in Actors /\ h # Motion /\ h # Main /\ Main \in Actors /\ Motion \in Actors
      /\ \A g \in Handlers : g \in Actors /\ g # Main
      /\ pc[h] # "idle" /\ pc[h] \notin Starts \cup Stops
  <2>1. pc[h] # "idle" /\ pc[h] \notin Starts \cup Stops
    BY <1>2 DEF Starts, Stops
  <2> QED
    BY <1>1, <1>2, <2>1 DEF Types, Places, Actors, ServerAssumption
<1> HIDE DEF load, hook, look, hooked, nothing, take, destroy
<1>4. Types'
  <2>1. HandlerAt(h) /\ plugin \in {"absent", "Loaded", "Initialized", "Running", "Stopped", "taken"}
    BY <1>1 DEF Types, TypeOK, Places, HandlerPlace
  <2>2. HandlerAt(h)'
    BY <1>2, <2>1
    DEF load, hook, look, hooked, nothing, take, destroy, HandlerAt,
       HandlerLabels, Starts, Stops
  <2>3. plugin' \in {"absent", "Loaded", "Initialized", "Running", "Stopped", "taken"}
    BY <1>2, <2>1 DEF load, hook, look, hooked, nothing, take, destroy
  <2> QED
    BY <1>1, <1>2, <1>3, <2>2, <2>3, HandlerTypes DEF motion
<1>5. ASSUME Lives' PROVE PluginPlace'
  <2> DEFINE H(g) == back'[g] = "hooked" /\ pc'[g] \notin {"idle", "take"}
             D(g) == back'[g] = "destroy" /\ pc'[g] # "idle"
  <2>1. \A g \in Handlers : g # h => (H(g) <=> Hooking(g)) /\ (D(g) <=> Destroying(g))
    BY <1>3 DEF Hooking, Destroying
  <2>2. /\ pc[Main] \notin Starts \cup Stops \cup {"drop"}
        /\ pc'[Main] = pc[Main]
    BY <1>1, <1>3, MainAlone DEF Types
  <2>3. HandlerAt(h)
    BY <1>1 DEF Types, Places, HandlerPlace
  <2>4. \A g \in Handlers : (Hooking(g) => plugin = "Running") /\ (Destroying(g) => plugin = "taken")
    BY <1>1 DEF PluginPlace
  <2>5. /\ H(h) => hook
        /\ D(h) => take
    BY <1>2, <1>5, <2>3
    DEF load, hook, look, hooked, nothing, take, destroy, HandlerAt, Lives
  <2>6. (hooked => Hooking(h)) /\ (destroy => Destroying(h))
    BY <2>3 DEF hooked, destroy, Hooking, Destroying, HandlerAt
  <2>7. \A f, g \in Handlers : /\ Hooking(f) /\ Hooking(g) => f = g
                               /\ Destroying(f) /\ Destroying(g) => f = g
    BY <1>1 DEF PluginPlace
  <2> HIDE DEF H, D
  <2>8. ASSUME NEW g \in Handlers
        PROVE  (H(g) => plugin' = "Running") /\ (D(g) => plugin' = "taken")
    <3>1. CASE g = h
      BY <2>5, <3>1 DEF hook, take
    <3>2. CASE g # h
      <4>1. CASE Hooking(g)
        <5>1. plugin = "Running" /\ ~hooked /\ ~nothing /\ ~take /\ ~destroy
          BY <2>4, <2>6, <2>7, <3>2, <4>1 DEF nothing, take, destroy
        <5>2. plugin' = "Running"
          BY <1>2, <5>1 DEF load, hook, look
        <5> QED
          BY <2>1, <2>4, <3>2, <5>1, <5>2
      <4>2. CASE Destroying(g)
        <5>1. plugin = "taken" /\ ~hook /\ ~destroy /\ ~take /\ ~hooked
          BY <2>4, <2>6, <2>7, <3>2, <4>2 DEF hook, take
        <5>2. plugin' = "taken"
          BY <1>2, <5>1 DEF load, look, nothing
        <5> QED
          BY <2>1, <2>4, <3>2, <5>1, <5>2
      <4> QED
        BY <2>1, <3>2, <4>1, <4>2
    <3> QED
      BY <3>1, <3>2
  <2>9. ASSUME NEW g \in Handlers, g # h
        PROVE  ~(H(g) /\ H(h)) /\ ~(D(g) /\ D(h))
    BY <2>1, <2>4, <2>5, <2>9 DEF hook, take
  <2>10. \A f, g \in Handlers : (H(f) /\ H(g) => f = g) /\ (D(f) /\ D(g) => f = g)
    BY <2>1, <2>7, <2>9
  <2>11. pc'[Main] \notin Starts \cup Stops \cup {"drop"}
    BY <2>2
  <2> QED
    BY <2>8, <2>10, <2>11
    DEF PluginPlace, Hooking, Destroying, Starts, Stops, H, D
<1>6. ASSUME ~overlapped' PROVE Calm'
  <2>1. ~overlapped /\ ~Overlap' /\ ~Overlap /\ Calm
    BY <1>6, StillCalm DEF Ready, Calm
  <2>2. destroy => Off /\ \A b \in Actors : b # h => ~Uses(b)
    <3>1. ASSUME destroy PROVE Off /\ back[h] = "destroy" /\ pc[h] = "destroy"
      BY <1>1, <2>1, <3>1
      DEF destroy, Calm, SimulationPlace, Types, Places, HandlerPlace, HandlerAt
    <3> QED
      BY <1>1, <1>3, <2>1, <3>1, DestroysAlone
  <2>3. /\ UNCHANGED crashed
        /\ pc'[h] \in {"idle", "stop1", "take", "loadPlugin", "initializePlugin", "startPlugin"}
    BY <1>2, <2>2
    DEF load, hook, look, hooked, nothing, take, destroy, Off, Joinable
  <2>4. SimulationPlace'
    <3>1. \A b \in Actors : SimulationAt(b)' /\ (InSimulation(b)' <=> InSimulation(b))
      BY <1>2, <1>3, <2>1, <2>3
      DEF Calm, SimulationPlace, SimulationAt, InSimulation, On, Off, sim,
         Starts, Stops
    <3>2. Resting'
      BY <1>2, <2>1, <3>1 DEF Calm, SimulationPlace, Resting, On, Off, sim
    <3>3. /\ \A g \in Handlers : pc'[g] = "destroy" => Off'
          /\ pc'[Main] = "drop" => Off'
      BY <1>2, <1>3, <2>1, <2>3 DEF Calm, SimulationPlace, Off, sim
    <3>4. ASSUME plugin' \in {"absent", "Loaded"} PROVE Off' /\ \A b \in Actors : ~Uses(b)'
      <4>1. pc'[h] \in {"idle", "take", "loadPlugin", "initializePlugin", "startPlugin"}
        BY <1>2, <2>3, <3>4 DEF load, hook, look, hooked, nothing, take, destroy
      <4>2. ~Uses(h)'
        BY <1>3, <4>1 DEF Uses, InSimulation
      <4>3. \A b \in Actors : b # h => (Uses(b)' <=> Uses(b))
        BY <1>3 DEF Uses, InSimulation
      <4>4. plugin \in {"absent", "Loaded"} \/ destroy
        BY <1>2, <3>4 DEF load, hook, look, hooked, nothing, take
      <4> QED
        BY <1>2, <2>1, <2>2, <4>2, <4>3, <4>4
        DEF Calm, SimulationPlace, Off, sim
    <3> QED
      BY <3>1, <3>2, <3>3, <3>4 DEF SimulationPlace
  <2>5. TrajectoryPlace'
    BY <1>1, <1>2, <1>3, <2>1, <2>3, TrajectoryStays DEF Calm
  <2> QED
    BY <1>6, <2>1, <2>3, <2>4, <2>5 DEF Calm, Lives
<1> QED
  BY <1>1, <1>4, <1>5, <1>6, Meddles DEF ServerInv

\* A handler waits for the last trajectory, or asks it to stop: nobody else
\* handles the thread as long as nothing overlaps.
LEMMA MotionHandled ==
    ASSUME Ready, NEW h \in Handlers, pc[h] \in {"request", "join", "joining"},
           pc' = [pc EXCEPT ![h] = pc'[h]], back' = back,
           pc'[h] \in {"join", "joining", "joined"}, Answered,
           UNCHANGED <<plugin, sim, server, motion_executing_, step>>,
           motion_stop_requested_' \in {motion_stop_requested_, TRUE},
           motion_thread_' = motion_thread_ \/ (motion_thread_ = "finished" /\ motion_thread_' = "none"),
           ~overlapped => /\ pc'[h] = "joining" => motion_thread_' # "none"
                          /\ pc'[h] = "joined" => motion_thread_' = "none"
                          /\ Lives'
    PROVE  ServerInv'
<1>1. ServerAssumption /\ Types /\ PluginPlace /\ Meddling /\ Ghosts
  BY DEF Ready, ServerInv, Halted, Lives
<1>2. /\ \A b \in Actors : b # h => pc'[b] = pc[b]
      /\ h \in Actors /\ h # Motion /\ h # Main /\ Main \in Actors
      /\ \A g \in Handlers : g \in Actors
      /\ back' = [back EXCEPT ![h] = back'[h]]
  BY <1>1 DEF Types, Places, Actors, ServerAssumption
<1>3. Types'
  <2>1. HandlerAt(h)'
    BY <1>1
    DEF Types, Places, HandlerPlace, HandlerAt, HandlerLabels, Starts, Stops
  <2> QED
    BY <1>1, <1>2, <2>1, HandlerTypes DEF Types, TypeOK
<1>4. PluginPlace'
  <2>1. ~Destroying(h) /\ ~Hooking(h)
    BY <1>1 DEF Hooking, Destroying, Types, Places, HandlerPlace, HandlerAt
  <2>2. \A g \in Handlers : (Hooking(g)' => Hooking(g)) /\ (Destroying(g)' => Destroying(g))
    BY <1>2, <2>1 DEF Hooking, Destroying
  <2> QED
    BY <1>1, <1>2, <2>2, PluginStays
<1>5. ASSUME ~overlapped' PROVE Calm'
  <2>1. ~overlapped /\ ~Overlap' /\ ~Overlap /\ Calm
    BY <1>5, StillCalm DEF Ready, Calm
  <2>2. SimulationPlace'
    <3>1. ~InSimulation(h) /\ ~InSimulation(h)' /\ ~Uses(h)' /\ pc'[h] \notin {"destroy", "drop"}
      BY <1>2 DEF InSimulation, Uses
    <3> QED
      BY <1>2, <2>1, <3>1, OutsideMoves DEF Calm
  <2>3. TrajectoryPlace'
    <3>1. \A g \in Handlers : g # h => pc'[g] \notin {"joining", "joined"}
      BY <1>2, <2>1 DEF Overlap, HandlesMotion
    <3>2. pc[Motion] # "off" /\ ~meddled' => ~meddled
      BY <1>1, <1>2, Unmeddled DEF Actors
    <3>3. pc'[Motion] = pc[Motion]
      BY <1>2 DEF Actors
    <3> QED
      BY <2>1, <3>1, <3>2, <3>3 DEF Calm, TrajectoryPlace, On, Off, sim
  <2> QED
    BY <1>5, <2>1, <2>2, <2>3 DEF Calm
<1> QED
  BY <1>1, <1>3, <1>4, <1>5, Meddles DEF ServerInv

\* The new trajectory's thread begins to run.
LEMMA LaunchKeeps ==
    ASSUME Ready, NEW h \in Handlers, pc[h] = "joined", ~Joinable(motion_thread_), Launch(h),
           motion_thread_' = "running", Answered, UNCHANGED <<plugin, sim, server>>
    PROVE  ServerInv'
<1>1. ServerAssumption /\ Types /\ PluginPlace /\ Meddling /\ Ghosts
  BY DEF Ready, ServerInv, Halted, Lives
<1>2. /\ motion_thread_ = "none" /\ motion_thread_' = "running"
      /\ pc' = [pc EXCEPT ![Motion] = "fetch", ![h] = "idle"]
      /\ UNCHANGED <<crashed, back, motion_executing_, motion_stop_requested_, step>>
  BY DEF Launch, Joinable, NoCrash, motion
<1>3. /\ \A b \in Actors : b \notin {h, Motion} => pc'[b] = pc[b]
      /\ h \in Actors /\ h # Motion /\ h # Main /\ Main \in Actors /\ Main # Motion
      /\ \A g \in Handlers : g \in Actors /\ g # Motion
      /\ pc'[h] = "idle" /\ pc'[Motion] = "fetch" /\ pc[Motion] = "off"
      /\ pc' = [a \in Actors |-> pc'[a]]
  BY <1>1, <1>2 DEF Types, Places, Actors, ServerAssumption, MotionPlace
<1>4. Places'
  <2>1. HandlerPlace'
    <3>1. HandlerAt(h)' /\ \A g \in Handlers : g # h => HandlerAt(g)'
      BY <1>1, <1>2, <1>3
      DEF Types, Places, HandlerPlace, HandlerAt, HandlerLabels, Starts, Stops
    <3> QED
      BY <3>1 DEF HandlerPlace
  <2>2. MotionPlace'
    BY <1>1, <1>2, <1>3
    DEF Types, Places, MotionPlace, MotionLabels, Starts, Stops
  <2>3. MainPlace'
    BY <1>1, <1>2, <1>3 DEF Types, Places, MainPlace
  <2>4. server_thread_ = "serving" /\ running_ /\ pc[Main] # "exited"
    BY <1>1 DEF Types, Places, ServerPlace, NothingRunsAtExit
  <2>5. ServerPlace' /\ NothingRunsAtExit'
    BY <1>1, <1>3, <2>4
    DEF Types, Places, ServerPlace, NothingRunsAtExit, server
  <2> QED
    BY <1>1, <1>2, <1>3, <2>1, <2>2, <2>3, <2>5 DEF Types, Places
<1>5. Types'
  <2>1. ASSUME NEW g \in Handlers PROVE (pc'[g] = "idle") = (req'[g] = "none")
    BY <1>1, <1>3 DEF Answered, Types, TypeOK
  <2>2. /\ {simulating_', motion_executing_', motion_stop_requested_', running_', listening'} \subseteq BOOLEAN
        /\ {simulation_thread_', motion_thread_', server_thread_'} \subseteq Threads
    BY <1>1, <1>2 DEF Types, TypeOK, Threads, sim, server
  <2> QED
    BY <1>1, <1>2, <1>4, <2>1, <2>2 DEF Types, TypeOK, Answered, Ghosts
<1>6. PluginPlace'
  <2>1. \A g \in Handlers : (Hooking(g)' => Hooking(g)) /\ (Destroying(g)' => Destroying(g))
    BY <1>2, <1>3 DEF Hooking, Destroying
  <2> QED
    BY <1>1, <1>3, <2>1, PluginStays
<1>7. ASSUME ~overlapped' PROVE Calm'
  <2>1. ~overlapped /\ ~Overlap' /\ ~Overlap /\ Calm
    BY <1>7, StillCalm DEF Ready, Calm
  <2>2. SimulationPlace'
    <3>1. \A b \in Actors : /\ InSimulation(b)' <=> InSimulation(b)
                            /\ Uses(b)' => Uses(b)
      BY <1>3 DEF InSimulation, Uses
    <3>2. \A b \in Actors : SimulationAt(b)'
      BY <1>3, <2>1 DEF Calm, SimulationPlace, SimulationAt, On, Off, sim
    <3>3. Resting'
      BY <2>1, <3>1 DEF Calm, SimulationPlace, Resting, On, Off, sim
    <3> QED
      BY <1>3, <2>1, <3>1, <3>2, <3>3 DEF Calm, SimulationPlace, Off, sim
  <2>3. TrajectoryPlace'
    <3>1. \A g \in Handlers : g # h => pc'[g] # "joined"
      BY <1>3, <2>1 DEF Overlap, HandlesMotion
    <3> QED
      BY <1>2, <1>3, <3>1 DEF TrajectoryPlace
  <2> QED
    BY <1>2, <1>7, <2>1, <2>2, <2>3 DEF Calm, Lives
<1> QED
  BY <1>1, <1>5, <1>6, <1>7, Meddles DEF ServerInv

\* Plans, presets and requests to stop.
LEMMA MotionRequestsKeep ==
    ASSUME Ready, NEW h \in Handlers, MotionRequests(h)
    PROVE  ServerInv'
<1>1. /\ ServerAssumption /\ Types /\ HandlerAt(h) /\ crashed = "no"
      /\ h \in Actors /\ h \in DOMAIN pc /\ h # Motion
      /\ pc = [pc EXCEPT ![h] = pc[h]] /\ back = [back EXCEPT ![h] = back[h]]
  BY DEF Ready, ServerInv, Halted, Types, Places, HandlerPlace, Actors,
     ServerAssumption
<1>2. Answered /\ UNCHANGED <<plugin, server, sim>>
  BY DEF MotionRequests, Unchanged
<1> DEFINE plain == /\ pc[h] \in {"begin", "use", "plan", "joined"}
                    /\ \/ pc[h] = "begin" /\ pc'[h] = "use" /\ HasInstance
                       \/ pc[h] = "use" /\ pc'[h] = "plan"
                       \/ pc'[h] \in {"idle", "request", "join"}
                       \/ pc'[h] = pc[h] /\ pc[h] = "plan" /\ Destroyed
                       \/ pc'[h] = pc[h] /\ pc[h] = "joined" /\ Joinable(motion_thread_)
                    /\ UNCHANGED <<motion>>
                    /\ UNCHANGED crashed \/ pc'[h] = pc[h]
           handled == /\ pc[h] \in {"request", "join", "joining"}
                      /\ pc'[h] \in {"join", "joining", "joined"}
                      /\ UNCHANGED <<motion_executing_, step>>
                      /\ motion_stop_requested_' \in {motion_stop_requested_, TRUE}
                      /\ \/ motion_thread_' = motion_thread_
                         \/ motion_thread_ = "finished" /\ motion_thread_' = "none"
                      /\ \/ /\ pc'[h] = "joining" => motion_thread_' # "none"
                            /\ pc'[h] = "joined" => motion_thread_' = "none"
                            /\ UNCHANGED crashed
                         \/ pc[h] = "joining" /\ motion_thread_ = "none"
           launch == /\ pc[h] = "joined" /\ ~Joinable(motion_thread_) /\ Launch(h)
                     /\ motion_thread_' = "running"
           moves == pc' = [pc EXCEPT ![h] = pc'[h]] /\ back' = back
<1>3. (plain /\ moves) \/ (handled /\ moves) \/ launch
  <2>1. ASSUME NEW r, Plan(h, r) PROVE (plain /\ moves) \/ launch
    <3>1. CASE Serves(h, r, "begin") /\ getHardware(h) /\ NoCrash /\ UNCHANGED motion
      BY <1>1, <3>1 DEF Serves, getHardware, NoCrash, Go, Answer
    <3>2. CASE /\ Serves(h, r, "use")
               /\ Answer(h) \/ (~motion_executing_ /\ Go(h, "plan"))
               /\ NoCrash /\ UNCHANGED motion
      BY <1>1, <3>2 DEF Serves, Answer, Go, NoCrash
    <3>3. CASE Serves(h, r, "plan") /\ UsesPlugin(h, "join") /\ UNCHANGED motion
      BY <1>1, <3>3 DEF Serves, UsesPlugin, Go, Crash, control, NoCrash
    <3>4. CASE Serves(h, r, "joined") /\ Launch(h)
      BY <1>1, <3>4 DEF Serves, Launch, Answer, Crash, NoCrash, control
    <3> QED
      BY <2>1, <3>1, <3>2, <3>3, <3>4 DEF Plan
  <2>2. CASE handleStopMotion(h)
    BY <1>1, <2>2 DEF handleStopMotion, Serves, Go, Answer, NoCrash, motion
  <2>3. CASE JoinMotion(h)
    BY <1>1, <2>3 DEF JoinMotion, Go, Crash, control, NoCrash, motion, Joinable
  <2> QED
    BY <2>1, <2>2, <2>3
    DEF MotionRequests, handlePlanAndExecute, handleExecutePreset
<1>4. CASE plain /\ moves
  <2>1. /\ HandlerAt(h)' /\ back' = [back EXCEPT ![h] = back'[h]] /\ pc'[h] # "destroy"
    BY <1>1, <1>4 DEF HandlerAt, HandlerLabels, Starts, Stops
  <2>2. ~Hooking(h)' /\ ~Destroying(h)'
    BY <1>1, <1>4 DEF Hooking, Destroying, HandlerAt
  <2>3. plugin \in {"absent", "Loaded"} => ~Uses(h)' \/ Uses(h)
    BY <1>1, <1>4 DEF Uses, InSimulation, HasInstance
  <2>4. ~overlapped => /\ Lives'
                       /\ pc'[h] \notin {"joining", "joined", "start2", "start3", "stop2", "stop3", "stop4"}
    <3>1. SUFFICES ASSUME ~overlapped, Calm PROVE ~Destroyed \/ pc[h] # "plan"
      BY <1>1, <1>4 DEF Ready, ServerInv, Calm, TrajectoryPlace, Joinable, Lives
    <3> QED
      BY <1>1, <3>1 DEF Calm, SimulationPlace, Uses, Destroyed
  <2> QED
    BY <1>2, <1>4, <2>1, <2>2, <2>3, <2>4, HandlerSteps DEF Starts, Stops
<1>5. CASE handled /\ moves
  <2>1. ~overlapped /\ pc[h] = "joining" => motion_thread_ # "none"
    BY DEF Ready, ServerInv, Calm, TrajectoryPlace
  <2> QED
    BY <1>1, <1>2, <1>5, <2>1, MotionHandled DEF Lives
<1>6. CASE launch
  BY <1>2, <1>6, LaunchKeeps
<1> QED
  BY <1>3, <1>4, <1>5, <1>6

-----------------------------------------------------------------------------
(* Main and the server                                                      *)

\* A step of Main outside the plugin, but for the call that enters it and the
\* end that destroys it.
LEMMA MainSteps ==
    ASSUME Ready, pc[Main] \notin Starts \cup Stops,
           pc' = [pc EXCEPT ![Main] = pc'[Main]], back' = [back EXCEPT ![Main] = back'[Main]],
           MainPlace', ServerPlace', NothingRunsAtExit',
           UNCHANGED <<sim, requests, motion_executing_, step>>,
           motion_stop_requested_' \in {motion_stop_requested_, TRUE},
           \/ motion_thread_' = motion_thread_
           \/ pc[Main] = "joinMotion" /\ motion_thread_ = "finished" /\ motion_thread_' = "none",
           {running_', listening'} \subseteq BOOLEAN,
           ~InSimulation(Main)', ~overlapped => Lives',
           \/ plugin' = plugin /\ pc'[Main] \notin Starts \cup {"drop"} /\ (pc'[Main] \in Stops => HasInstance)
           \/ plugin' = "Running" /\ pc[Main] = "load" /\ pc'[Main] \in Starts
           \/ plugin' = "absent" /\ pc[Main] = "drop" /\ (pc'[Main] = "destructor" \/ ~Lives')
    PROVE  ServerInv'
<1>1. ServerAssumption /\ Types /\ PluginPlace /\ Meddling /\ Ghosts
  BY DEF Ready, ServerInv, Halted, Lives
<1>2. /\ \A b \in Actors : b # Main => pc'[b] = pc[b] /\ back'[b] = back[b]
      /\ Main \in Actors /\ Motion \in Actors /\ Main # Motion
      /\ \A g \in Handlers : g \in Actors /\ g # Main
  BY <1>1 DEF Types, Places, Actors, ServerAssumption
<1>3. Types'
  <2>1. Places'
    BY <1>1, MainMoves DEF Types
  <2>2. ASSUME NEW g \in Handlers PROVE (pc'[g] = "idle") = (req'[g] = "none")
    BY <1>1, <1>2 DEF requests, Types, TypeOK
  <2>3. plugin' \in {"absent", "Loaded", "Initialized", "Running", "Stopped", "taken"}
    BY <1>1 DEF Types, TypeOK
  <2>4. /\ {simulating_', motion_executing_', motion_stop_requested_', running_', listening'} \subseteq BOOLEAN
        /\ {simulation_thread_', motion_thread_', server_thread_'} \subseteq Threads
    BY <1>1 DEF Types, TypeOK, Threads, sim, ServerPlace
  <2> QED
    BY <1>1, <2>1, <2>2, <2>3, <2>4 DEF Types, TypeOK, requests, Ghosts
<1>4. ASSUME Lives' PROVE PluginPlace'
  <2>1. CASE plugin' = plugin /\ pc'[Main] \notin Starts \cup {"drop"} /\ (pc'[Main] \in Stops => HasInstance)
    <3>1. /\ \A g \in Handlers : (Hooking(g)' => Hooking(g)) /\ (Destroying(g)' => Destroying(g))
          /\ HasInstance' <=> HasInstance
      BY <1>2, <2>1 DEF Hooking, Destroying, HasInstance
    <3>2. \A g, h \in Handlers : /\ Hooking(g)' /\ Hooking(h)' => g = h
                                 /\ Destroying(g)' /\ Destroying(h)' => g = h
      BY <1>1, <3>1 DEF PluginPlace
    <3>3. \A h \in Handlers : (Hooking(h)' => plugin = "Running") /\ (Destroying(h)' => plugin = "taken")
      BY <1>1, <3>1 DEF PluginPlace
    <3> QED
      BY <2>1, <3>1, <3>2, <3>3 DEF PluginPlace
  <2>2. CASE pc[Main] \in {"load", "drop"}
    <3>1. \A h \in Handlers : pc'[h] = "idle"
      BY <1>1, <1>2, <2>2, MainAlone DEF Types
    <3>2. \A g \in Handlers : ~Hooking(g)' /\ ~Destroying(g)'
      BY <3>1 DEF Hooking, Destroying
    <3>3. /\ pc'[Main] \in Starts => plugin' = "Running"
          /\ pc'[Main] \in Stops \cup {"drop"} => HasInstance'
      BY <1>4, <2>2 DEF Starts, Stops, HasInstance
    <3> QED
      BY <3>2, <3>3 DEF PluginPlace
  <2> QED
    BY <2>1, <2>2
<1>5. ASSUME ~overlapped' PROVE Calm'
  <2>1. ~overlapped /\ ~Overlap' /\ ~Overlap /\ Calm /\ Lives'
    BY <1>5, StillCalm DEF Ready, Calm
  <2>2. SimulationPlace'
    <3>1. ~InSimulation(Main)
      BY DEF InSimulation, Starts, Stops
    <3>2. CASE plugin' = plugin /\ pc'[Main] \notin Starts \cup {"drop"} /\ (pc'[Main] \in Stops => HasInstance)
      <4>1. plugin \in {"absent", "Loaded"} => ~Uses(Main)'
        BY <1>2, <3>2
        DEF HasInstance, Uses, MainPlace, MainLabels, Starts, Stops,
           InSimulation
      <4>2. pc'[Main] \notin {"destroy", "drop"}
        BY <3>2 DEF MainPlace, MainLabels, Starts, Stops
      <4> QED
        BY <1>2, <2>1, <3>1, <3>2, <4>1, <4>2, OutsideMoves DEF Calm
    <3>3. CASE \/ plugin' = "Running" /\ pc[Main] = "load" /\ pc'[Main] \in Starts
               \/ plugin' = "absent" /\ pc[Main] = "drop" /\ pc'[Main] = "destructor"
      <4>1. \A b \in Actors : SimulationAt(b)' /\ (InSimulation(b)' <=> InSimulation(b))
        BY <1>2, <2>1, <3>1
        DEF Calm, SimulationPlace, SimulationAt, InSimulation, On, Off, sim
      <4>2. Resting'
        BY <2>1, <4>1 DEF Calm, SimulationPlace, Resting, On, Off, sim
      <4>3. (\A h \in Handlers : pc'[h] # "destroy") /\ pc'[Main] # "drop"
        BY <1>1, <1>2, <3>3, MainAlone DEF Types, Starts
      <4>4. ASSUME plugin' \in {"absent", "Loaded"} PROVE Off' /\ \A b \in Actors : ~Uses(b)'
        <5>1. pc[Main] = "drop" /\ pc'[Main] = "destructor"
          BY <3>3, <4>4
        <5>2. Off'
          BY <2>1, <5>1 DEF Calm, SimulationPlace, Off, sim
        <5>3. pc'[Motion] = "off" /\ \A h \in Handlers : pc'[h] = "idle"
          BY <1>1, <1>2, <5>1, MainAlone DEF Types
        <5> QED
          BY <1>2, <5>1, <5>2, <5>3 DEF Uses, InSimulation, Actors
      <4> QED
        BY <4>1, <4>2, <4>3, <4>4 DEF SimulationPlace
    <3> QED
      BY <2>1, <3>2, <3>3
  <2>3. TrajectoryPlace'
    <3>1. pc'[Motion] = pc[Motion] /\ \A g \in Handlers : pc'[g] = pc[g]
      BY <1>2
    <3>2. pc[Motion] # "off" /\ ~meddled' => ~meddled
      BY <1>1, <3>1, Unmeddled
    <3>3. \A g \in Handlers : pc[g] = "joining" => motion_thread_' # "none"
      BY <1>2, <2>1 DEF Calm, TrajectoryPlace, Overlap, HandlesMotion
    <3> QED
      BY <2>1, <3>1, <3>2, <3>3 DEF Calm, TrajectoryPlace, On, Off, sim
  <2> QED
    BY <1>5, <2>1, <2>2, <2>3 DEF Calm
<1> QED
  BY <1>1, <1>3, <1>4, <1>5, Meddles DEF ServerInv

\* Main loads, starts the server, and stops it again.
LEMMA MainKeeps ==
    ASSUME Ready, LoadPlugins \/ start \/ stop \/ signalHandler
    PROVE  ServerInv'
<1>1. /\ ServerAssumption /\ Types /\ Main \in DOMAIN pc /\ Main \in DOMAIN back
      /\ pc = [pc EXCEPT ![Main] = pc[Main]] /\ back = [back EXCEPT ![Main] = back[Main]]
      /\ MainPlace /\ ServerPlace /\ NothingRunsAtExit
      /\ \A g \in Handlers : g # Main /\ g \in DOMAIN pc
      /\ Main # Motion /\ crashed = "no"
      /\ {running_, listening} \subseteq BOOLEAN
  BY DEF Ready, ServerInv, Halted, Types, TypeOK, Places, Actors, ServerAssumption
<1>2. /\ pc' = [pc EXCEPT ![Main] = pc'[Main]] /\ back' = [back EXCEPT ![Main] = back'[Main]]
      /\ UNCHANGED <<sim, requests, motion>>
      /\ crashed' \in {"no", "an exception left main"}
      /\ pc[Main] \notin Starts \cup Stops
      /\ \A g \in Handlers : pc'[g] = pc[g]
  BY <1>1
  DEF LoadPlugins, start, stop, signalHandler, Go, Call, Crash, NoCrash, control,
     Starts, Stops
<1>3. MainPlace' /\ (pc'[Main] = "exited" => pc[Main] = "load" /\ pc'[Motion] = pc[Motion])
  <2>1. CASE LoadPlugins
    BY <1>1, <2>1 DEF LoadPlugins, Go, Call, MainPlace, MainLabels, Starts, Stops
  <2>2. CASE start
    BY <1>1, <2>2 DEF start, Go, Crash, control, MainPlace, MainLabels, Starts, Stops
  <2>3. CASE stop
    BY <1>1, <2>3 DEF stop, Go, MainPlace, MainLabels, Starts, Stops
  <2>4. CASE signalHandler
    <3>1. pc'[Motion] = pc[Motion]
      BY <1>1, <2>4 DEF signalHandler, Go, Call, Types, Places, Actors
    <3> QED
      BY <1>1, <2>4, <3>1 DEF signalHandler, Go, Call, MainPlace, MainLabels, Starts, Stops
  <2> QED
    BY <2>1, <2>2, <2>3, <2>4
<1>4. ServerPlace' /\ {running_', listening'} \subseteq BOOLEAN
  <2>1. CASE LoadPlugins
    BY <1>1, <1>2, <2>1
    DEF LoadPlugins, Go, Call, server, motion, ServerPlace, Before, Starts,
       Stops
  <2>2. CASE start
    <3>1. CASE pc' = pc /\ UNCHANGED server
      BY <1>1, <1>2, <3>1 DEF ServerPlace, server, motion
    <3>2. CASE /\ pc[Main] = "begin" /\ pc'[Main] = "sleep"
               /\ server_thread_' = "created" /\ UNCHANGED <<running_, listening>>
      BY <1>1, <1>2, <3>2 DEF motion, ServerPlace, Before, Starts, Stops
    <3>3. CASE /\ pc[Main] = "sleep" /\ server_thread_ # "created"
               /\ pc'[Main] = IF running_ THEN "poll" ELSE "leave"
               /\ UNCHANGED <<running_, listening, server_thread_>>
      BY <1>1, <1>2, <3>3 DEF motion, ServerPlace, Before, Starts, Stops
    <3>4. \/ pc' = pc /\ UNCHANGED server
          \/ /\ pc[Main] = "begin" /\ pc'[Main] = "sleep"
             /\ server_thread_' = "created" /\ UNCHANGED <<running_, listening>>
          \/ /\ pc[Main] = "sleep" /\ server_thread_ # "created"
             /\ pc'[Main] = IF running_ THEN "poll" ELSE "leave"
             /\ UNCHANGED <<running_, listening, server_thread_>>
      BY <1>1, <2>2 DEF start, Go, Crash, control, server
    <3> QED
      BY <3>1, <3>2, <3>3, <3>4
  <2>3. CASE stop
    <3>1. pc'[Main] \notin Before \cup {"begin", "load"}
      BY <1>1, <2>3 DEF stop, Go, MainPlace, Before, Starts, Stops
    <3>2. /\ listening' => listening
          /\ \/ server_thread_' = server_thread_ /\ (running_' <=> running_)
             \/ server_thread_ = "finished" /\ server_thread_' = "none" /\ ~running_'
      BY <2>3 DEF stop
    <3>3. /\ pc'[Main] \notin Before /\ pc'[Main] \notin {"load", "begin"} \cup Starts
          /\ pc'[Main] \notin {"poll", "leave", "drop"} \cup Stops
          /\ pc'[Main] \notin {"leave", "drop"} \cup Stops
      BY <3>1 DEF Before
    <3>4. /\ server_thread_' \in {"none", "created", "listen", "serving", "finished"}
          /\ server_thread_' # "serving" => ~listening' /\ \A h \in Handlers : pc'[h] = "idle"
          /\ server_thread_' \in {"listen", "serving"} => running_'
          /\ server_thread_' = "created" => ~running_'
      BY <1>1, <1>2, <3>2 DEF ServerPlace
    <3>5. {running_', listening'} \subseteq BOOLEAN
      BY <1>1, <2>3 DEF stop
    <3> QED
      BY <3>3, <3>4, <3>5 DEF ServerPlace
  <2>4. CASE signalHandler
    BY <1>1, <1>2, <2>4
    DEF signalHandler, Go, Call, server, motion, ServerPlace, Before, Starts, Stops
  <2> QED
    BY <2>1, <2>2, <2>3, <2>4
<1>5. NothingRunsAtExit'
  BY <1>1, <1>2, <1>3, MainAlone DEF NothingRunsAtExit, Types, motion
<1>6. /\ ~InSimulation(Main)'
      /\ \/ plugin' = plugin /\ pc'[Main] \notin Starts \cup Stops \cup {"drop"}
         \/ plugin' = "Running" /\ pc[Main] = "load" /\ pc'[Main] \in Starts
  BY <1>1
  DEF LoadPlugins, start, stop, signalHandler, Go, Call, Crash, control, MainPlace,
     InSimulation, Starts, Stops
<1>7. Lives'
  BY <1>1, <1>2 DEF Lives
<1> QED
  BY <1>2, <1>3, <1>4, <1>5, <1>6, <1>7, MainSteps DEF motion

\* The end: main returns, and ~DebugAPI.
LEMMA EndKeeps ==
    ASSUME Ready, main \/ destructor
    PROVE  ServerInv'
<1>1. /\ ServerAssumption /\ Types /\ Main \in DOMAIN pc /\ Main \in DOMAIN back
      /\ pc = [pc EXCEPT ![Main] = pc[Main]] /\ back = [back EXCEPT ![Main] = back[Main]]
      /\ MainPlace /\ MotionPlace /\ ServerPlace /\ NothingRunsAtExit
      /\ \A g \in Handlers : g # Main /\ g \in DOMAIN pc
      /\ Main # Motion /\ Motion \in DOMAIN pc /\ crashed = "no"
      /\ {running_, listening} \subseteq BOOLEAN
  BY DEF Ready, ServerInv, Halted, Types, TypeOK, Places, Actors, ServerAssumption
<1>2. /\ pc' = [pc EXCEPT ![Main] = pc'[Main]] /\ back' = [back EXCEPT ![Main] = back'[Main]]
      /\ UNCHANGED <<sim, requests, server, motion_executing_, step>>
      /\ pc[Main] \notin Starts \cup Stops
      /\ motion_stop_requested_' \in {motion_stop_requested_, TRUE}
      /\ \/ motion_thread_' = motion_thread_
         \/ pc[Main] = "joinMotion" /\ motion_thread_ = "finished" /\ motion_thread_' = "none"
  BY <1>1
  DEF main, destructor, Go, Call, Crash, NoCrash, control, motion, Starts, Stops
<1>3. \A a \in DOMAIN pc : a # Main => pc'[a] = pc[a]
  BY <1>1, <1>2
<1>4. MainPlace'
  BY <1>1
  DEF main, destructor, Go, Call, Crash, control, MainPlace, MainLabels, Starts,
     Stops
<1>5. ServerPlace' /\ {running_', listening'} \subseteq BOOLEAN
  <2>1. CASE main
    <3>1. /\ motion_thread_' = motion_thread_ /\ UNCHANGED <<running_, listening, server_thread_>>
          /\ \A g \in Handlers : pc'[g] = pc[g]
      BY <1>1, <1>2, <1>3, <2>1 DEF main, server
    <3>2. /\ pc'[Main] \in {"leave", "stop1", "destructor", "drop"}
          /\ pc'[Main] # "destructor" => pc[Main] \in {"poll", "leave", "drop"} /\ ~running_
      BY <1>1, <2>1 DEF main, Go, Call, Crash, control, ServerPlace
    <3> QED
      BY <1>1, <3>1, <3>2 DEF ServerPlace, Before, Starts, Stops
  <2>2. CASE destructor
    <3>1. pc'[Main] \notin Before \cup {"begin", "load"}
      BY <1>1, <2>2
      DEF destructor, Go, Call, Crash, control, Before, Starts, Stops
    <3> QED
      BY <1>1, <1>2, <1>3, <3>1 DEF server, ServerPlace, Before
  <2> QED
    BY <2>1, <2>2
<1>6. NothingRunsAtExit'
  <2>1. pc'[Main] = "exited" =>
            motion_thread_ = "none" /\ motion_thread_' = "none" /\ server_thread_ = "none"
    BY <1>1
    DEF main, destructor, Go, Call, Crash, control, motion, Joinable, Ready,
       Halted
  <2> QED
    BY <1>1, <1>3, <2>1 DEF NothingRunsAtExit, MotionPlace, ServerPlace
<1>7. ~InSimulation(Main)'
  BY <1>1 DEF main, destructor, Go, Call, Crash, control, InSimulation
<1>8. ~overlapped => Lives'
  <2>1. CASE pc[Main] = "drop"
    BY <1>1, <2>1
    DEF main, destructor, Crash, NoCrash, Ready, ServerInv, Calm, SimulationPlace,
       Off, Joinable, Lives
  <2>2. CASE pc[Main] # "drop"
    BY <1>1, <2>2 DEF main, destructor, Crash, NoCrash, Lives
  <2> QED
    BY <2>1, <2>2
<1>9. \/ plugin' = plugin /\ pc'[Main] \notin Starts \cup {"drop"} /\ (pc'[Main] \in Stops => HasInstance)
      \/ plugin' = "absent" /\ pc[Main] = "drop" /\ (pc'[Main] = "destructor" \/ ~Lives')
  BY <1>1 DEF main, destructor, Go, Call, Crash, control, Starts, Stops, Lives
<1> QED
  BY <1>2, <1>4, <1>5, <1>6, <1>7, <1>8, <1>9, MainSteps

\* The server's thread: it says that it runs before it has bound.
LEMMA ServerThreadKeeps ==
    ASSUME Ready, ServerThread
    PROVE  ServerInv'
<1>1. ServerAssumption /\ Types /\ PluginPlace /\ Meddling /\ Ghosts /\ UNCHANGED crashed
  BY DEF Ready, ServerInv, Halted, Lives, ServerThread, NoCrash
<1>2. UNCHANGED <<plugin, sim, motion, control, requests>> /\ UNCHANGED <<pc, back>>
  BY DEF ServerThread, control
<1>3. Types'
  <2>1. ServerPlace'
    BY <1>1, <1>2
    DEF ServerThread, motion, Types, Places, ServerPlace, Starts, Stops, Before
  <2>2. Places'
    BY <1>1, <1>2, <2>1
    DEF Types, Places, HandlerPlace, HandlerAt, MotionPlace, MainPlace,
       NothingRunsAtExit, motion
  <2>3. {running_', listening'} \subseteq BOOLEAN /\ server_thread_' \in Threads
    BY <1>1 DEF ServerThread, Types, TypeOK, Threads
  <2> QED
    BY <1>1, <1>2, <2>2, <2>3 DEF Types, TypeOK, motion, sim, requests, Ghosts
<1>4. PluginPlace'
  BY <1>1, <1>2 DEF PluginPlace, Hooking, Destroying, HasInstance
<1>5. ASSUME ~overlapped' PROVE Calm'
  <2>1. ~overlapped /\ ~Overlap' /\ Calm
    BY <1>5, StillCalm DEF Ready
  <2>2. pc[Motion] # "off" /\ ~meddled' => ~meddled
    BY <1>1, <1>2, Unmeddled
  <2>3. SimulationPlace' /\ TrajectoryPlace'
    BY <1>2, <2>1, <2>2
    DEF Calm, SimulationPlace, SimulationAt, Resting, TrajectoryPlace,
       InSimulation, Uses, On, Off, sim, motion
  <2> QED
    BY <1>1, <1>5, <2>1, <2>3 DEF Calm, Lives
<1> QED
  BY <1>1, <1>3, <1>4, <1>5, Meddles DEF ServerInv

\* A request arrives while the server listens.
LEMMA ReceiveKeeps ==
    ASSUME Ready, NEW h \in Handlers, Receive(h)
    PROVE  ServerInv'
<1>1. ServerAssumption /\ Types /\ PluginPlace /\ Meddling /\ Ghosts /\ UNCHANGED crashed
  BY DEF Ready, ServerInv, Halted, Lives, Receive, NoCrash
<1>2. /\ UNCHANGED <<plugin, sim, motion, server>> /\ listening
      /\ pc' = [pc EXCEPT ![h] = "begin"] /\ back' = [back EXCEPT ![h] = "none"]
      /\ served' = served + 1 /\ served < MaxRequests
  BY DEF Receive, Call
<1>3. /\ \A b \in Actors : b # h => pc'[b] = pc[b] /\ back'[b] = back[b]
      /\ pc'[h] = "begin" /\ back'[h] = "none" /\ pc[h] = "idle"
      /\ h \in Actors /\ h # Motion /\ h # Main /\ Main \in Actors /\ Motion \in Actors
      /\ \A g \in Handlers : g \in Actors
      /\ pc' = [a \in Actors |-> pc'[a]] /\ back' = [a \in Actors |-> back'[a]]
  BY <1>1, <1>2 DEF Types, Places, Actors, ServerAssumption, Receive
<1>4. Types'
  <2>1. HandlerPlace'
    <3>1. HandlerAt(h)' /\ \A g \in Handlers : g # h => HandlerAt(g)'
      BY <1>1, <1>3
      DEF Types, Places, HandlerPlace, HandlerAt, HandlerLabels, Starts, Stops
    <3> QED
      BY <3>1 DEF HandlerPlace
  <2>2. MotionPlace' /\ MainPlace'
    BY <1>1, <1>2, <1>3 DEF Types, Places, MotionPlace, MainPlace, motion
  <2>3. server_thread_ = "serving" /\ pc[Main] # "exited"
    BY <1>1, <1>2 DEF Types, Places, ServerPlace, Ready, Halted
  <2>4. ServerPlace' /\ NothingRunsAtExit'
    BY <1>1, <1>2, <1>3, <2>3
    DEF Types, Places, ServerPlace, NothingRunsAtExit, server, motion
  <2>5. served' \in 0..MaxRequests
    BY <1>1, <1>2 DEF Types, TypeOK, ServerAssumption
  <2>6. /\ req' = [g \in Handlers |-> req'[g]]
        /\ \A g \in Handlers : (pc'[g] = "idle") = (req'[g] = "none")
    <3>1. PICK r \in Requests[h] : /\ r.path \in setupRoutes[r.method]
                                   /\ req' = [req EXCEPT ![h] = r.path]
      BY DEF Receive
    <3>2. r.method \in {"GET", "POST"}
      BY <1>1 DEF ServerAssumption
    <3>3. r.path # "none"
      BY <3>1, <3>2 DEF setupRoutes
    <3> QED
      BY <1>1, <1>3, <3>1, <3>3 DEF Types, TypeOK
  <2>7. /\ {simulating_', motion_executing_', motion_stop_requested_', running_', listening'} \subseteq BOOLEAN
        /\ {simulation_thread_', motion_thread_', server_thread_'} \subseteq Threads
        /\ plugin' \in {"absent", "Loaded", "Initialized", "Running", "Stopped", "taken"}
        /\ step' \in 0..Steps
    BY <1>1, <1>2 DEF Types, TypeOK, sim, motion, server
  <2> QED
    BY <1>1, <1>3, <2>1, <2>2, <2>4, <2>5, <2>6, <2>7
    DEF Types, TypeOK, Places, Ghosts
<1>5. PluginPlace'
  <2>1. \A g \in Handlers : (Hooking(g)' => Hooking(g)) /\ (Destroying(g)' => Destroying(g))
    BY <1>3 DEF Hooking, Destroying
  <2> QED
    BY <1>1, <1>2, <1>3, <2>1, PluginStays
<1>6. ASSUME ~overlapped' PROVE Calm'
  <2>1. ~overlapped /\ ~Overlap' /\ ~Overlap /\ Calm
    BY <1>6, StillCalm DEF Ready, Calm
  <2>2. ~InSimulation(h) /\ ~InSimulation(h)' /\ ~Uses(h)'
    BY <1>3 DEF InSimulation, Uses
  <2>3. SimulationPlace'
    BY <1>2, <1>3, <2>1, <2>2, OutsideMoves DEF Calm
  <2>4. TrajectoryPlace'
    BY <1>1, <1>2, <1>3, <2>1, TrajectoryStays DEF Calm
  <2> QED
    BY <1>1, <1>6, <2>1, <2>3, <2>4 DEF Calm, Lives
<1> QED
  BY <1>1, <1>4, <1>5, <1>6, Meddles DEF ServerInv

-----------------------------------------------------------------------------
(* What holds at any moment                                                 *)

\* A state that stays.
LEMMA StutterKeeps ==
    ASSUME ServerInv, UNCHANGED vars
    PROVE  ServerInv'
<1>1. /\ UNCHANGED <<plugin, simulating_, simulation_thread_, motion_executing_>>
      /\ UNCHANGED <<motion_stop_requested_, motion_thread_, step, running_, server_thread_>>
      /\ UNCHANGED <<listening, pc, back, req, served, crashed, overlapped, meddled>>
  BY DEF vars, sim, motion, server, control, requests, ghost
<1>2. Places'
  BY <1>1, PlacesStay DEF ServerInv, Types, server
<1>3. Types' /\ Meddling'
  BY <1>1, <1>2 DEF ServerInv, Types, TypeOK, Meddling
<1>4. Lives' => PluginPlace'
  BY <1>1 DEF ServerInv, Lives, PluginPlace, Hooking, Destroying, HasInstance
<1>5. ASSUME ~overlapped' PROVE Calm'
  <2>1. Lives' /\ ~Overlap'
    BY <1>1, <1>5
    DEF ServerInv, Calm, Lives, Overlap, InSimulation, HandlesMotion, Uses, Unloads
  <2>2. SimulationPlace' /\ TrajectoryPlace'
    BY <1>1, <1>5
    DEF ServerInv, Calm, SimulationPlace, SimulationAt, Resting, TrajectoryPlace,
       InSimulation, Uses, On, Off
  <2> QED
    BY <2>1, <2>2 DEF Calm
<1> QED
  BY <1>3, <1>4, <1>5 DEF ServerInv

\* Every step keeps the invariant.
LEMMA NextServer ==
    ASSUME ServerAssumption, ServerInv, [Next]_vars
    PROVE  ServerInv'
<1>1. CASE UNCHANGED vars
  BY <1>1, StutterKeeps
<1>2. ASSUME ~Halted, Ghosts, Process \/ signalHandler \/ \E h \in Handlers : Receive(h)
      PROVE  ServerInv'
  <2>1. Ready
    BY <1>2 DEF Ready
  <2>2. CASE SimulationThread
    BY <2>1, <2>2, ThreadKeeps
  <2>3. CASE executeTrajectory
    BY <2>1, <2>3, TrajectoryKeeps
  <2>4. CASE ServerThread
    BY <2>1, <2>4, ServerThreadKeeps
  <2>5. ASSUME NEW a \in Actors, startSimulation(a) \/ stopSimulation(a) PROVE ServerInv'
    BY <2>1, <2>5, StartKeeps, StopKeeps
  <2>6. ASSUME NEW h \in Handlers, ManagerReads(h) \/ HardwareUses(h) \/ SimulationRequests(h)
        PROVE  ServerInv'
    BY <2>1, <2>6, ReadsKeep, UsesKeep, SimulationRequestsKeep
  <2>7. ASSUME NEW h \in Handlers, PluginRequests(h) \/ MotionRequests(h) PROVE ServerInv'
    BY <2>1, <2>7, PluginRequestsKeep, MotionRequestsKeep
  <2>8. CASE LoadPlugins \/ start \/ stop \/ signalHandler
    BY <2>1, <2>8, MainKeeps
  <2>9. CASE main \/ destructor
    BY <2>1, <2>9, EndKeeps
  <2>10. ASSUME NEW h \in Handlers, Receive(h) PROVE ServerInv'
    BY <2>1, <2>10, ReceiveKeeps
  <2> QED
    BY <1>2, <2>2, <2>3, <2>4, <2>5, <2>6, <2>7, <2>8, <2>9, <2>10 DEF Process
<1> QED
  BY <1>1, <1>2 DEF Next

\* What the invariant says of the state: the four properties.
LEMMA Sound == ASSUME ServerInv PROVE DebugServerSound
<1>1. CrashNeedsOverlap
  BY DEF ServerInv, Calm, Lives, CrashNeedsOverlap
<1>2. ManualStepping
  BY DEF ServerInv, Calm, TrajectoryPlace, Off, ManualStepping
<1> QED
  BY <1>1, <1>2 DEF ServerInv, Types, Places, DebugServerSound

\* A server that is over satisfies the invariant.
LEMMA NoServerInv == ASSUME ServerAssumption, NoServer PROVE ServerInv
<1> USE DEF Actors
<1>1. Types
  <2>1. /\ step \in 0..Steps /\ served \in 0..MaxRequests
        /\ \A h \in Handlers : pc[h] = "idle" /\ req[h] = "none"
    BY DEF ServerAssumption, NoServer
  <2>2. TypeOK
    BY <2>1 DEF NoServer, TypeOK, Threads
  <2>3. NothingRunsAtExit
    BY <2>1 DEF ServerAssumption, NoServer, NothingRunsAtExit
  <2>4. HandlerPlace /\ MotionPlace /\ MainPlace /\ ServerPlace
    BY DEF ServerAssumption, NoServer, HandlerPlace, MotionPlace, MainPlace,
       ServerPlace, HandlerAt, HandlerLabels, MotionLabels, MainLabels, Starts,
       Stops, Before
  <2> QED
    BY <2>2, <2>3, <2>4 DEF Types, Places, NoServer
<1>2. PluginPlace /\ Meddling
  BY DEF NoServer, PluginPlace, Hooking, Destroying, Meddling, Starts, Stops
<1>3. ~Overlap
  BY DEF ServerAssumption, NoServer, Overlap, InSimulation, HandlesMotion, Uses
<1>4. SimulationPlace /\ TrajectoryPlace
  BY DEF ServerAssumption, NoServer, SimulationPlace, SimulationAt, Resting,
     TrajectoryPlace, InSimulation, Uses, On, Off
<1> QED
  BY <1>1, <1>2, <1>3, <1>4 DEF ServerInv, Calm, Lives, NoServer

\* Every reachable state satisfies the invariant, also of a behaviour that is
\* about another part.
THEOREM DebugServerInvariant == RobotSpec => []ServerInv
<1> USE RobotAssumption
<1>1. RobotInit => ServerInv
  BY InitServer, NoServerInv DEF RobotInit
<1>2. ServerInv /\ [RobotNext]_robotVars => ServerInv'
  BY NextServer, StutterKeeps DEF RobotNext, robotVars
<1> QED
  BY <1>1, <1>2, PTL DEF RobotSpec

\* The debug server's requests, its trajectories and its end, in any order:
\* no thread object and no plugin is used against its rules unless two actors
\* overlapped in one, a trajectory steps the simulation alone, and nothing
\* runs when the process has ended.
THEOREM DebugServerIsSound == RobotSpec => []DebugServerSound
<1>1. ServerInv => DebugServerSound
  BY Sound
<1> QED
  BY <1>1, DebugServerInvariant, PTL

\* A motion that is over, or has only to restart the simulation, executes no more.
Executing == pc[Motion] \in {"off", "exit"} \cup Starts => ~motion_executing_

\* Only the trajectory's thread sets the flag, and it does so before it moves.
LEMMA ExecutingKept ==
    ASSUME ServerAssumption, Types, Executing, [Next]_vars
    PROVE  /\ Executing'
           /\ motion_thread_ = "running" /\ motion_thread_' = "finished" =>
                  pc[Motion] \in {"fetch", "caught", "exit"} /\ ~motion_executing_'
<1>1. /\ Motion \in DOMAIN pc /\ Main \in DOMAIN pc /\ Main # Motion /\ Motion \notin Handlers
      /\ \A h \in Handlers : h \in DOMAIN pc
      /\ pc[Motion] = "off" <=> motion_thread_ # "running"
      /\ pc[Motion] \in Stops => back[Motion] = "move"
  BY DEF Types, Places, MotionPlace, Actors, ServerAssumption
<1> DEFINE others == /\ pc'[Motion] = pc[Motion] /\ motion_executing_' = motion_executing_
                     /\ motion_thread_' = motion_thread_ \/ motion_thread_' = "none"
<1>2. CASE UNCHANGED vars
  BY <1>2 DEF vars, control, motion, Executing
<1>3. CASE executeTrajectory
  <2>1. \/ pc'[Motion] \in {"enter", "forget", "stop1", "move", "settle", "finish", "caught"}
        \/ /\ ~motion_executing_'
           /\ \/ pc[Motion] \in {"fetch", "caught", "exit"} /\ pc'[Motion] = "off"
              \/ pc[Motion] = "finish" /\ pc'[Motion] = "start1"
    <3>1. pc[Motion] = "exit" => ~motion_executing_
      BY DEF Executing
    <3> QED
      BY <1>1, <1>3, <3>1
      DEF executeTrajectory, MotionEnds, UsesPlugin, Go, Call, Crash, control, motion
  <2>2. motion_thread_' = "finished" => pc[Motion] \in {"fetch", "caught", "exit"} \/ motion_thread_ = "finished"
    BY <1>3 DEF executeTrajectory, MotionEnds, motion
  <2>3. pc[Motion] \in {"fetch", "caught", "exit"} /\ motion_thread_' = "finished" => ~motion_executing_'
    BY <1>1, <1>3, <2>1
    DEF executeTrajectory, MotionEnds, Executing, motion
  <2> QED
    BY <2>1, <2>2, <2>3 DEF Executing, Starts
<1>4. ASSUME NEW a \in Actors, startSimulation(a) \/ stopSimulation(a)
      PROVE  /\ Executing' /\ UNCHANGED motion
  <2>1. /\ UNCHANGED motion
        /\ a # Motion => pc'[Motion] = pc[Motion]
    BY <1>1, <1>4 DEF startSimulation, stopSimulation, Go, Crash, control
  <2>2. ASSUME a = Motion
        PROVE  pc[Motion] \in Starts \/ pc'[Motion] \in Stops \cup {"move"}
    BY <1>1, <1>4, <2>2
    DEF startSimulation, stopSimulation, Go, Crash, control, Starts, Stops
  <2> QED
    BY <2>1, <2>2 DEF Executing, motion, Starts, Stops
<1>5. CASE SimulationThread \/ ServerThread
  <2>1. UNCHANGED <<pc, motion>>
    BY <1>5 DEF SimulationThread, ServerThread, Crash, control
  <2> QED
    BY <2>1 DEF Executing, motion
<1>6. ASSUME NEW h \in Handlers,
             \/ ManagerReads(h) \/ HardwareUses(h) \/ SimulationRequests(h)
             \/ PluginRequests(h) \/ Receive(h)
      PROVE  others
  <2>1. CASE ManagerReads(h)
    BY <1>1, <2>1
    DEF ManagerReads, handleScanPlugins, handleGetPluginMetadata,
       handleGetPluginState, handleGetLoadedPlugins, handleGetServices,
       handlePublishEvent, handleGetPresets, handleGetMotionStatus, Answer, motion
  <2>2. CASE HardwareUses(h)
    BY <1>1, <2>2
    DEF HardwareUses, handleGetRobotState, handleSetJointPosition,
       handleSetJointPositions, handleGetSensorData, handleResetSimulation,
       handleStepSimulation, getHardware, UsesPlugin, Answer, Go, Crash, control, motion
  <2>3. CASE SimulationRequests(h)
    BY <1>1, <2>3
    DEF SimulationRequests, handleStartSimulation, handleStopSimulation, getHardware,
       Answer, Go, Call, Crash, control, motion
  <2>4. CASE PluginRequests(h)
    <3>1. CASE handleUnloadPlugin(h)
      BY <1>1, <2>4, <3>1
      DEF PluginRequests, handleUnloadPlugin, Answer, Go, Call, Crash, control, motion
    <3>2. CASE handleLoadPlugin(h) \/ handleStartPlugin(h) \/ handleStopPlugin(h)
      BY <1>1, <2>4, <3>2
      DEF PluginRequests, handleLoadPlugin, handleStartPlugin, handleStopPlugin,
         Loads, Answer, Go, Call, motion
    <3> QED
      BY <2>4, <3>1, <3>2 DEF PluginRequests
  <2>5. CASE Receive(h)
    BY <1>1, <2>5 DEF Receive, Call, motion
  <2> QED
    BY <1>6, <2>1, <2>2, <2>3, <2>4, <2>5
<1>7. ASSUME NEW h \in Handlers, MotionRequests(h)
      PROVE  /\ others \/ (pc'[Motion] = "fetch" /\ motion_thread_ # "running")
             /\ motion_executing_' = motion_executing_
  BY <1>1, <1>7
  DEF MotionRequests, handlePlanAndExecute, handleExecutePreset, handleStopMotion,
     JoinMotion, Plan, Launch, getHardware, UsesPlugin, Joinable, Answer, Go, Crash,
     control, motion
<1>8. CASE LoadPlugins \/ start \/ stop \/ main \/ destructor \/ signalHandler
  <2>1. others
    BY <1>1, <1>8
    DEF LoadPlugins, start, stop, main, destructor, signalHandler, Go, Call, Crash,
       control, motion
  <2> QED
    BY <2>1 DEF Executing
<1> QED
  BY <1>2, <1>3, <1>4, <1>5, <1>6, <1>7, <1>8 DEF Next, Process, Executing, motion, Starts

\* However a trajectory ends, the next one is not refused; and it leaves the
\* simulation running again, stopped early or not, unless it had no hardware, an
\* exception ended it, or a request meddled with it.
THEOREM SimulationReturns == RobotSpec => SimulationComesBack
<1> USE RobotAssumption
<1>1. RobotInit => Executing
  BY DEF RobotInit, Init, NoServer, Executing
<1>2. ServerInv /\ Executing /\ [RobotNext]_robotVars => [Next]_vars
  BY DEF RobotNext, robotVars
<1>3. ServerInv /\ Executing /\ [RobotNext]_robotVars => Executing'
  BY <1>2, ExecutingKept DEF RobotAssumption, ServerInv
<1>4. ASSUME ServerInv, pc[Motion] = "exit", ~meddled, ~overlapped
      PROVE  simulating_ /\ simulation_thread_ = "running"
  BY <1>4 DEF ServerInv, Calm, TrajectoryPlace, On
<1>5. ServerInv /\ Executing /\ [RobotNext]_robotVars =>
          (motion_thread_ = "running" /\ motion_thread_' = "finished" =>
               /\ ~motion_executing_'
               /\ pc[Motion] \notin {"fetch", "caught"} /\ ~meddled /\ ~overlapped =>
                      simulating_ /\ simulation_thread_ = "running")
  BY <1>2, <1>4, ExecutingKept DEF RobotAssumption, ServerInv
<1> QED
  BY <1>1, <1>3, <1>5, DebugServerInvariant, PTL DEF RobotSpec, SimulationComesBack

-----------------------------------------------------------------------------
(* The plugin manager.  Its invariant says who has an object between two     *)
(* critical sections: a record of the map, until a thread takes the record   *)
(* out and destroys what it holds (RecordsOwn, HeldOnce, NoneLost); what     *)
(* unloadPlugin and unloadAll know of the records they looked at, as long as *)
(* nobody starts a plugin meanwhile (LookedAt); what the others know of      *)
(* theirs, as long as they are alone (AloneInBatch); and that the            *)
(* destructor's unloadAll is the last call (LastCall).                       *)

ObjectStates == {"initialized", "running", "stopped", "failed", "destroyed"}

\* The thread's call as a record of its fields, and where an operation may be.
IsCall(c) ==
    c = [f \in {"op", "at", "name", "todo", "ok", "held", "alone", "raced"} |-> c[f]]

CallAt(c) ==
    /\ c.op \in P!Operations \cup {"none"}
    /\ c.op = "none" <=> c.at = "idle"
    /\ c.op \in {"scan", "load", "initialize", "start", "stop"} => c.at \in {"begin", "returned"}
    /\ c.op \in {"unload", "unloadAll"} => c.at \in {"begin", "stop", "take", "destroy", "returned"}
    /\ c.op = "loadAll" => c.at \in {"begin", "order", "load", "returned"}
    /\ c.op = "startAll" => c.at \in {"begin", "initialize", "initialized", "start", "returned"}
    /\ c.op = "stopAll" => c.at \in {"begin", "stop", "returned"}
    /\ c.op = "request" => c.at \in {"begin", "load", "initialize", "start", "returned"}
    /\ c.ok \in BOOLEAN /\ c.alone \in BOOLEAN /\ c.raced \in BOOLEAN
    /\ c.held # {} => c.at = "destroy"
    /\ c.op \in {"startAll", "stopAll", "unloadAll"} => c.todo \in Seq(Plugins)

StoreTypes ==
    /\ dir \in Directories
    /\ DOMAIN metadata_cache_ \subseteq Plugins
    /\ P!Loaded \subseteq Plugins
    /\ loaded_plugins_ \in [P!Loaded -> [state : P!States, instance : Nat]]
    /\ object \in Seq(ObjectStates)

CallTypes ==
    /\ dying \in BOOLEAN
    /\ call = [t \in Users |-> call[t]]
    /\ \A t \in Users : IsCall(call[t]) /\ CallAt(call[t])

Objects == 1 .. Len(object)
Instance(n) == loaded_plugins_[n].instance

\* A record's object fits its state, and is no other record's.
RecordAt(n) ==
    /\ Instance(n) \in {P!NoObject} \cup Objects
    /\ n \in P!InState("Loaded") => Instance(n) = P!NoObject
    /\ loaded_plugins_[n].state \in {"Initialized", "Running", "Stopped"} => Instance(n) # P!NoObject
    /\ Instance(n) # P!NoObject => object[Instance(n)] # "destroyed"
    /\ Instance(n) # P!NoObject /\ object[Instance(n)] = "running" => n \in P!InState("Running")

RecordsOwn ==
    /\ \A n \in P!Loaded : RecordAt(n)
    /\ \A m, n \in P!Loaded : Instance(m) = Instance(n) /\ Instance(m) # P!NoObject => m = n

HeldOnce ==
    \A t \in Users : \A i \in call[t].held :
        /\ i \in Objects /\ object[i] # "destroyed"
        /\ \A n \in P!Loaded : Instance(n) # i
        /\ \A u \in Users : i \in call[u].held => t = u

NoneLost ==
    \A i \in Objects : object[i] # "destroyed" =>
        (\E n \in P!Loaded : Instance(n) = i) \/ \E t \in Users : i \in call[t].held

\* To unload, and nobody has started a plugin since the thread looked.
Looked(c) ==
    /\ c.op = "unload" /\ c.at = "take" => c.name \notin P!InState("Running")
    /\ c.op = "unloadAll" /\ c.at = "stop" => P!InState("Running") \subseteq Elements(c.todo)
    /\ c.op = "unloadAll" /\ c.at = "take" => P!InState("Running") = {}
    /\ \A i \in c.held : object[i] # "running"
LookedAt == \A t \in Users : ~call[t].raced => Looked(call[t])

LastCall ==
    dying =>
        /\ \A t \in Users \ {Owner} : call[t].at = "idle"
        /\ call[Owner].op \in {"none", "unloadAll"}
        /\ call[Owner].at \in {"idle", "destroy", "returned"} => P!Loaded = {}

\* Alone, and no plugin has failed: what is left to do.
Remains(c) ==
    /\ c.op = "startAll" /\ c.at = "initialize" => P!InState("Loaded") \subseteq Elements(c.todo)
    /\ c.op = "startAll" /\ c.at = "initialized" => P!InState("Loaded") = {}
    /\ c.op = "startAll" /\ c.at = "start" =>
           P!InState("Loaded") = {} /\ P!InState("Initialized") \subseteq Elements(c.todo)
    /\ c.op = "startAll" /\ c.at = "returned" =>
           P!InState("Loaded") = {} /\ P!InState("Initialized") = {}
    /\ c.op = "stopAll" /\ c.at = "stop" => P!InState("Running") \subseteq Elements(c.todo)
    /\ c.op = "stopAll" /\ c.at = "returned" => P!InState("Running") = {}
Batch(c) ==
    /\ c.ok => Remains(c)
    /\ c.op = "unloadAll" /\ c.at \in {"destroy", "returned"} => P!Loaded = {}
AloneInBatch ==
    \A t \in Users : call[t].alone /\ call[t].at # "idle" =>
        (\A u \in Users \ {t} : call[u].at = "idle") /\ Batch(call[t])

StoreInv == StoreTypes /\ RecordsOwn /\ HeldOnce /\ NoneLost
ManagerInv == StoreInv /\ CallTypes /\ LookedAt /\ LastCall /\ AloneInBatch

-----------------------------------------------------------------------------
(* The order of a std::map.  That a finite set of numbers has one is proved   *)
(* from the least set of names without: take its first name away.            *)

LEMMA SameFinite == \A T : P!IsFiniteSet(T) <=> IsFiniteSet(T)
BY DEF P!IsFiniteSet, IsFiniteSet

LEMMA SameCardinality == \A T : P!Cardinality(T) = Cardinality(T)
BY DEF P!Cardinality, Cardinality

Ordered(s, T) ==
    /\ s \in [1 .. Cardinality(T) -> T]
    /\ \A n \in T : \E i \in 1 .. Cardinality(T) : s[i] = n
    /\ \A i, j \in 1 .. Cardinality(T) : i < j => s[i] < s[j]

\* One name before the others.
LEMMA OneMore ==
    ASSUME NEW T, T \subseteq Nat, IsFiniteSet(T), NEW m \in T, \A n \in T : m <= n,
           NEW s, Ordered(s, T \ {m})
    PROVE  \E r : Ordered(r, T)
<1> DEFINE k == Cardinality(T)
           r == [i \in 1 .. k |-> IF i = 1 THEN m ELSE s[i - 1]]
<1>1. k \in Nat \ {0} /\ Cardinality(T \ {m}) = k - 1
  BY FS_RemoveElement, FS_CardinalityType, FS_EmptySet
<1>2. /\ s \in [1 .. k - 1 -> T \ {m}]
      /\ \A n \in T \ {m} : \E i \in 1 .. k - 1 : s[i] = n
      /\ \A i, j \in 1 .. k - 1 : i < j => s[i] < s[j]
  BY <1>1 DEF Ordered
<1> HIDE DEF k
<1>3. \A i \in 1 .. k : i # 1 => i - 1 \in 1 .. k - 1 /\ s[i - 1] \in T \ {m}
  BY <1>1, <1>2
<1>4. r \in [1 .. k -> T]
  BY <1>3
<1>5. \A n \in T : \E i \in 1 .. k : r[i] = n
  <2>1. r[1] = m /\ 1 \in 1 .. k
    BY <1>1
  <2>2. ASSUME NEW n \in T \ {m} PROVE \E i \in 1 .. k : r[i] = n
    <3>1. PICK i \in 1 .. k - 1 : s[i] = n
      BY <1>2
    <3>2. i + 1 \in 1 .. k /\ i + 1 # 1 /\ (i + 1) - 1 = i
      BY <1>1, <3>1
    <3> QED
      BY <3>1, <3>2
  <2>3. \E i \in 1 .. k : r[i] = m
    BY <2>1
  <2> HIDE DEF r
  <2> QED
    BY <2>2, <2>3
<1>6. \A i, j \in 1 .. k : i < j => r[i] < r[j]
  <2> SUFFICES ASSUME NEW i \in 1 .. k, NEW j \in 1 .. k, i < j PROVE r[i] < r[j]
    OBVIOUS
  <2>1. j # 1 /\ r[j] = s[j - 1] /\ j - 1 \in 1 .. k - 1 /\ r[j] \in T \ {m}
    BY <1>1, <1>3
  <2>2. CASE i = 1
    <3>1. r[i] = m /\ m \in Nat /\ r[j] \in Nat /\ m <= r[j] /\ r[j] # m
      BY <2>1, <2>2
    <3> HIDE DEF r
    <3> QED
      BY <3>1
  <2>3. CASE i # 1
    <3>1. r[i] = s[i - 1] /\ i - 1 \in 1 .. k - 1 /\ i - 1 < j - 1
      BY <1>1, <1>3, <2>1, <2>3
    <3> QED
      BY <1>2, <2>1, <3>1
  <2> QED
    BY <2>2, <2>3
<1> QED
  BY <1>4, <1>5, <1>6 DEF Ordered, k

\* Every finite set of numbers has an order.
LEMMA OrderExists ==
    ASSUME NEW T, T \subseteq Nat, IsFiniteSet(T)
    PROVE  \E s : Ordered(s, T)
<1> DEFINE Without == {U \in SUBSET T : ~\E s : Ordered(s, U)}
           Sizes == {Cardinality(U) : U \in Without}
<1>1. \A U \in SUBSET T : IsFiniteSet(U) /\ Cardinality(U) \in Nat
  BY FS_Subset, FS_CardinalityType
<1>2. SUFFICES ASSUME Without # {} PROVE FALSE
  BY <1>2
<1>3. PICK U \in Without : \A V \in Without : Cardinality(U) <= Cardinality(V)
  <2>1. Sizes \subseteq Nat /\ Sizes # {}
    BY <1>1, <1>2
  <2>2. PICK m \in Sizes : \A n \in Sizes : m <= n
    BY <2>1, Least
  <2> QED
    BY <2>2
<1>4. U # {}
  <2>1. ASSUME U = {} PROVE Ordered([i \in 1 .. Cardinality(U) |-> 0], U)
    <3>1. Cardinality(U) = 0
      BY <2>1, FS_EmptySet
    <3>2. 1 .. Cardinality(U) = {}
      BY <3>1
    <3> QED
      BY <2>1, <3>2 DEF Ordered
  <2> QED
    BY <2>1
<1>5. PICK m \in U : \A n \in U : m <= n
  BY <1>4, Least
<1>6. Cardinality(U \ {m}) = Cardinality(U) - 1 /\ U \ {m} \in SUBSET T
  BY <1>1, FS_RemoveElement
<1>7. U \ {m} \notin Without
  BY <1>1, <1>3, <1>6
<1> QED
  BY <1>1, <1>5, <1>6, <1>7, OneMore

\* What a walk over a std::map visits.
LEMMA MapOrderElements ==
    ASSUME NEW T, T \subseteq Nat, IsFiniteSet(T)
    PROVE  P!MapOrder(T) \in Seq(T) /\ Elements(P!MapOrder(T)) = T
<1> DEFINE k == Cardinality(T)
           Order(s) == /\ s \in [1 .. k -> T] /\ P!Range(s) = T
                       /\ \A i, j \in DOMAIN s : i < j => s[i] < s[j]
<1>1. k \in Nat
  BY FS_CardinalityType
<1>2. \E s \in [1 .. k -> T] : Order(s)
  <2>1. PICK s : Ordered(s, T)
    BY OrderExists
  <2>2. s \in [1 .. k -> T] /\ DOMAIN s = 1 .. k
    BY <2>1 DEF Ordered
  <2>3. P!Range(s) = T
    BY <2>1, <2>2 DEF Ordered, P!Range
  <2>4. \A i, j \in DOMAIN s : i < j => s[i] < s[j]
    BY <2>1, <2>2 DEF Ordered
  <2> QED
    BY <2>2, <2>3, <2>4
<1>3. P!MapOrder(T) = CHOOSE s \in [1 .. k -> T] : P!Range(s) = T /\ \A i, j \in DOMAIN s : i < j => s[i] < s[j]
  BY SameCardinality DEF P!MapOrder
<1> DEFINE s == P!MapOrder(T)
<1>4. Order(s)
  BY <1>2, <1>3
<1> HIDE DEF s
<1>5. s \in Seq(T) /\ DOMAIN s = 1 .. k
  BY <1>1, <1>4
<1> QED
  BY <1>4, <1>5 DEF P!Range, Elements, s

\* A function of no name is the empty map.
LEMMA EmptyFunction == \A f : <<>> = [m \in {} |-> f[m]]
<1>1. <<>> \in Seq({}) /\ DOMAIN <<>> = {}
  BY NoElement
<1>2. PICK n \in Nat : <<>> \in [1 .. n -> {}]
  BY <1>1, SeqDef
<1>3. <<>> \in [{} -> {}]
  BY <1>1, <1>2
<1> QED
  BY <1>3

-----------------------------------------------------------------------------
(* The critical sections: what each does to the records and the objects.     *)
(* None touches an object that a thread has taken out.                       *)

SameHeld ==
    /\ \A t \in Users : call'[t].held = call[t].held
    /\ UNCHANGED dir

HeldStays == \A t \in Users : \A i \in call[t].held : object'[i] = object[i]

\* scanAvailablePlugins changes the cache.
LEMMA ScanKeeps ==
    ASSUME P!ManagerAssumption, StoreInv, SameHeld, P!scanAvailablePlugins
    PROVE  StoreInv' /\ HeldStays /\ UNCHANGED <<loaded_plugins_, object>>
<1>1. UNCHANGED <<loaded_plugins_, object, dir>>
  BY DEF P!scanAvailablePlugins, SameHeld
<1>2. DOMAIN metadata_cache_' \subseteq Plugins
  <2>1. DOMAIN metadata_cache_' = {dir.files[f].name : f \in DOMAIN dir.files}
    BY DEF P!scanAvailablePlugins
  <2> QED
    BY <2>1 DEF P!ManagerAssumption, StoreInv, StoreTypes
<1>3. StoreTypes'
  BY <1>1, <1>2 DEF StoreInv, StoreTypes, P!Loaded
<1>4. RecordsOwn' /\ HeldOnce' /\ NoneLost'
  BY <1>1
  DEF StoreInv, SameHeld, RecordsOwn, RecordAt, HeldOnce, NoneLost, Objects, Instance, P!Loaded,
      P!InState
<1> QED
  BY <1>1, <1>3, <1>4 DEF StoreInv, HeldStays

\* loadPlugin adds a record without an object, or none.
LEMMA LoadKeeps ==
    ASSUME P!ManagerAssumption, StoreInv, SameHeld, NEW n, NEW ok \in BOOLEAN, P!loadPlugin(n, ok)
    PROVE  StoreInv' /\ HeldStays /\ P!InState("Running")' = P!InState("Running")
<1>1. UNCHANGED <<object, dir>>
  BY DEF P!loadPlugin, SameHeld
<1>2. dir.libs \subseteq Plugins /\ DOMAIN dir.files \subseteq Plugins
  BY DEF P!ManagerAssumption, StoreInv, StoreTypes
<1>3. DOMAIN metadata_cache_' \subseteq Plugins
  <2>1. metadata_cache_' \in {metadata_cache_, P!CacheFor(n)}
    BY DEF P!loadPlugin
  <2>2. DOMAIN P!CacheFor(n) \subseteq Plugins
    BY <1>2 DEF P!CacheFor, P!With, StoreInv, StoreTypes
  <2> QED
    BY <2>1, <2>2 DEF StoreInv, StoreTypes
<1>4. CASE UNCHANGED loaded_plugins_
  <2>1. StoreTypes'
    BY <1>1, <1>3, <1>4 DEF StoreInv, StoreTypes, P!Loaded
  <2>2. RecordsOwn' /\ HeldOnce' /\ NoneLost'
    BY <1>1, <1>4
    DEF StoreInv, SameHeld, RecordsOwn, RecordAt, HeldOnce, NoneLost, Objects, Instance, P!Loaded,
        P!InState
  <2> QED
    BY <1>1, <1>4, <2>1, <2>2 DEF StoreInv, HeldStays, P!InState, P!Loaded
<1>5. CASE ~UNCHANGED loaded_plugins_
  <2>1. /\ n \notin P!Loaded /\ n \in Plugins
        /\ loaded_plugins_' =
               [m \in P!Loaded \cup {n} |-> IF m = n THEN [state |-> "Loaded", instance |-> P!NoObject]
                                           ELSE loaded_plugins_[m]]
    BY <1>2, <1>5 DEF P!loadPlugin, P!With, P!Loaded
  <2>2. /\ P!Loaded' = P!Loaded \cup {n}
        /\ loaded_plugins_'[n] = [state |-> "Loaded", instance |-> 0]
        /\ \A m \in P!Loaded : m # n /\ loaded_plugins_'[m] = loaded_plugins_[m]
    BY <2>1 DEF P!Loaded, P!NoObject
  <2>3. StoreTypes'
    BY <1>1, <1>3, <2>1, <2>2 DEF StoreInv, StoreTypes, P!States
  <2>4. RecordsOwn'
    BY <1>1, <2>2 DEF StoreInv, RecordsOwn, RecordAt, Objects, Instance, P!InState, P!NoObject
  <2>5. HeldOnce'
    BY <1>1, <2>2 DEF StoreInv, SameHeld, HeldOnce, Objects, Instance
  <2>6. NoneLost'
    BY <1>1, <2>2 DEF StoreInv, SameHeld, NoneLost, Objects, Instance
  <2>7. P!InState("Running")' = P!InState("Running")
    BY <2>2 DEF P!InState
  <2> QED
    BY <1>1, <2>3, <2>4, <2>5, <2>6, <2>7 DEF StoreInv, HeldStays
<1> QED
  BY <1>4, <1>5

\* Another state of one record and its object, which is its own or new.
LEMMA OneRecord ==
    ASSUME StoreInv, SameHeld, NEW n \in P!Loaded,
           NEW s \in P!States, NEW k \in Nat,
           loaded_plugins_' = [loaded_plugins_ EXCEPT ![n] = [state |-> s, instance |-> k]],
           UNCHANGED metadata_cache_,
           object' \in Seq(ObjectStates), Objects \subseteq Objects', Objects' \subseteq Objects \cup {k},
           \A i \in Objects : i # k => object'[i] = object[i],
           Instance(n) = k \/ (Instance(n) = P!NoObject /\ k \notin Objects),
           RecordAt(n)'
    PROVE  /\ StoreInv' /\ HeldStays
           /\ P!Loaded' = P!Loaded
           /\ \A x : P!InState(x)' = {m \in P!Loaded : IF m = n THEN x = s ELSE m \in P!InState(x)}
<1>1. /\ P!Loaded' = P!Loaded
      /\ Instance(n)' = k /\ loaded_plugins_'[n].state = s
      /\ loaded_plugins_'[n] \in [state : P!States, instance : Nat]
      /\ \A m \in P!Loaded : m # n => loaded_plugins_'[m] = loaded_plugins_[m]
  BY DEF StoreInv, StoreTypes, P!Loaded, Instance
<1>2. /\ \A m \in P!Loaded : m # n => Instance(m)' = Instance(m) /\ (Instance(m) = P!NoObject \/ Instance(m) # k)
      /\ \A m \in P!Loaded : Instance(m) \in {P!NoObject} \cup Objects
      /\ UNCHANGED dir
  BY <1>1 DEF StoreInv, RecordsOwn, RecordAt, Instance, SameHeld
<1>3. StoreTypes'
  BY <1>1, <1>2 DEF StoreInv, StoreTypes, P!Loaded
<1>4. RecordsOwn'
  <2>1. ASSUME NEW m \in P!Loaded, m # n PROVE RecordAt(m)'
    <3>1. RecordAt(m) /\ (Instance(m) = P!NoObject \/ object'[Instance(m)] = object[Instance(m)])
      BY <1>2, <2>1 DEF StoreInv, RecordsOwn
    <3> QED
      BY <1>1, <1>2, <2>1, <3>1 DEF RecordAt, P!InState
  <2>2. ASSUME NEW l \in P!Loaded, NEW m \in P!Loaded, Instance(l)' = Instance(m)',
               Instance(l)' # P!NoObject
        PROVE  l = m
    BY <1>1, <1>2, <2>2 DEF StoreInv, RecordsOwn
  <2> QED
    BY <1>1, <2>1, <2>2 DEF RecordsOwn
<1>5. \A t \in Users : \A i \in call[t].held : i \in Objects /\ i # k /\ object'[i] = object[i]
  BY DEF StoreInv, HeldOnce
<1>6. HeldOnce'
  BY <1>1, <1>2, <1>5 DEF StoreInv, SameHeld, HeldOnce
<1>7. NoneLost'
  <2> SUFFICES ASSUME NEW i \in Objects', object'[i] # "destroyed"
               PROVE  (\E m \in P!Loaded : Instance(m)' = i) \/ \E t \in Users : i \in call'[t].held
    BY <1>1 DEF NoneLost
  <2>1. CASE i = k
    BY <1>1, <2>1
  <2>2. CASE i # k
    <3>1. i \in Objects /\ object[i] # "destroyed"
      BY <2>2
    <3>2. CASE \E t \in Users : i \in call[t].held
      BY <3>2 DEF SameHeld
    <3>3. ASSUME NEW m \in P!Loaded, Instance(m) = i PROVE m # n
      BY <2>2, <3>1, <3>3 DEF Objects, P!NoObject
    <3> QED
      BY <1>2, <3>1, <3>2, <3>3 DEF StoreInv, NoneLost
  <2> QED
    BY <2>1, <2>2
<1>8. \A x : P!InState(x)' = {m \in P!Loaded : IF m = n THEN x = s ELSE m \in P!InState(x)}
  BY <1>1 DEF P!InState
<1> QED
  BY <1>1, <1>3, <1>4, <1>5, <1>6, <1>7, <1>8 DEF StoreInv, HeldStays

\* A section that finds the record in another state does nothing.
LEMMA SameStore ==
    ASSUME StoreInv, SameHeld, UNCHANGED <<metadata_cache_, loaded_plugins_, object>>
    PROVE  /\ StoreInv' /\ HeldStays
           /\ P!Loaded' = P!Loaded /\ \A x : P!InState(x)' = P!InState(x)
<1>1. UNCHANGED dir
  BY DEF SameHeld
<1>2. StoreTypes'
  BY <1>1 DEF StoreInv, StoreTypes, P!Loaded
<1>3. RecordsOwn' /\ HeldOnce' /\ NoneLost'
  BY DEF StoreInv, SameHeld, RecordsOwn, RecordAt, HeldOnce, NoneLost, Objects, Instance, P!Loaded,
     P!InState
<1> QED
  BY <1>2, <1>3 DEF StoreInv, HeldStays, P!InState, P!Loaded

\* A record that changes its state keeps its object.
LEMMA StateIsSet ==
    ASSUME StoreInv, NEW n \in P!Loaded, NEW s, P!SetState(n, s)
    PROVE  loaded_plugins_' = [loaded_plugins_ EXCEPT ![n] = [state |-> s, instance |-> Instance(n)]]
<1> DEFINE r == loaded_plugins_[n]
<1>1. r \in [state : P!States, instance : Nat]
  BY DEF StoreInv, StoreTypes
<1>2. [r EXCEPT !.state = s] = [state |-> s, instance |-> r.instance]
  BY <1>1
<1>3. loaded_plugins_' = [loaded_plugins_ EXCEPT ![n] = [r EXCEPT !.state = s]]
  BY Zenon DEF P!SetState
<1> HIDE DEF r
<1>4. loaded_plugins_' = [loaded_plugins_ EXCEPT ![n] = [state |-> s, instance |-> r.instance]]
  BY <1>2, <1>3
<1> QED
  BY <1>4, Zenon DEF r, Instance

\* initializePlugin makes an object and gives it to the record, or none.
LEMMA InitializeKeeps ==
    ASSUME StoreInv, SameHeld, NEW n, NEW ok \in BOOLEAN, P!initializePlugin(n, ok)
    PROVE  /\ StoreInv' /\ HeldStays /\ P!InState("Running")' = P!InState("Running")
           /\ ok => P!InState("Loaded")' = P!InState("Loaded") \ {n}
<1>1. CASE n \notin P!InState("Loaded")
  BY <1>1, SameStore DEF P!initializePlugin
<1>2. ASSUME n \in P!InState("Loaded"), UNCHANGED object,
             ~ok, P!SetState(n, "Error")
      PROVE  StoreInv' /\ HeldStays /\ P!InState("Running")' = P!InState("Running")
  <2> DEFINE k == Instance(n)
             s == "Error"
  <2>1. n \in P!Loaded /\ loaded_plugins_[n].state = "Loaded" /\ k = P!NoObject /\ k \in Nat
    BY <1>2 DEF StoreInv, RecordsOwn, RecordAt, P!InState, P!NoObject
  <2>2. s \in P!States /\ s = "Error" /\ UNCHANGED metadata_cache_
    BY DEF P!States, P!initializePlugin
  <2>3. /\ object' \in Seq(ObjectStates) /\ Objects' = Objects
        /\ \A i \in Objects : object'[i] = object[i]
    BY <1>2 DEF StoreInv, StoreTypes, Objects
  <2>4. loaded_plugins_' = [loaded_plugins_ EXCEPT ![n] = [state |-> s, instance |-> k]]
    BY <1>2, <2>1, StateIsSet
  <2> HIDE DEF k, s
  <2>5. RecordAt(n)'
    BY <2>1, <2>2, <2>4 DEF StoreInv, StoreTypes, P!Loaded, RecordAt, Instance, P!InState
  <2>6. Instance(n) = k
    BY DEF k
  <2>7. /\ StoreInv' /\ HeldStays
        /\ \A x : P!InState(x)' = {m \in P!Loaded : IF m = n THEN x = s ELSE m \in P!InState(x)}
    BY <2>1, <2>2, <2>3, <2>4, <2>5, <2>6, OneRecord
  <2> QED
    BY <2>1, <2>2, <2>7 DEF P!InState
<1>3. ASSUME n \in P!InState("Loaded"), NEW x \in {"initialized", "failed"},
             NEW s \in {"Initialized", "Error"}, object' = Append(object, x),
             s = "Initialized" <=> ok,
             loaded_plugins_' = [loaded_plugins_ EXCEPT ![n] = [state |-> s, instance |-> Len(object) + 1]]
      PROVE  /\ StoreInv' /\ HeldStays /\ P!InState("Running")' = P!InState("Running")
             /\ ok => P!InState("Loaded")' = P!InState("Loaded") \ {n}
  <2> DEFINE k == Len(object) + 1
  <2>1. /\ n \in P!Loaded /\ loaded_plugins_[n].state = "Loaded"
        /\ Instance(n) = 0
    BY <1>3 DEF RecordsOwn, StoreInv, RecordAt, Instance, P!InState, P!NoObject
  <2>2. /\ object' \in Seq(ObjectStates) /\ object'[k] = x
        /\ \A i \in Objects : object'[i] = object[i]
        /\ Objects' = Objects \cup {k} /\ k \notin Objects /\ k \in Nat \ {0}
    <3>1. x \in ObjectStates /\ object \in Seq(ObjectStates)
      BY DEF StoreInv, StoreTypes, ObjectStates
    <3>2. /\ object' \in Seq(ObjectStates) /\ Len(object) \in Nat /\ Len(object') = Len(object) + 1
          /\ object'[k] = x /\ \A i \in 1 .. Len(object) : object'[i] = object[i]
      BY <1>3, <3>1, AddLast
    <3> QED
      BY <3>2 DEF Objects
  <2>3. loaded_plugins_' = [loaded_plugins_ EXCEPT ![n] = [state |-> s, instance |-> k]]
    BY <1>3
  <2> HIDE DEF k
  <2>4. RecordAt(n)'
    BY <2>1, <2>2, <2>3 DEF StoreInv, StoreTypes, P!Loaded, RecordAt, Instance, P!InState, P!NoObject
  <2>5. UNCHANGED metadata_cache_ /\ s \in P!States
    BY DEF P!initializePlugin, P!States
  <2>6. /\ StoreInv' /\ HeldStays
        /\ \A y : P!InState(y)' = {m \in P!Loaded : IF m = n THEN y = s ELSE m \in P!InState(y)}
    BY <2>1, <2>2, <2>3, <2>4, <2>5, OneRecord DEF P!NoObject
  <2> QED
    BY <1>3, <2>1, <2>6 DEF P!InState
<1> QED
  BY <1>1, <1>2, <1>3 DEF P!initializePlugin

\* start() or stop() of a plugin in the state they are for.
LEMMA HookKeeps ==
    ASSUME StoreInv, SameHeld, NEW n, NEW ok \in BOOLEAN,
           NEW from \in {"Initialized", "Running"}, NEW to \in {"Running", "Stopped"},
           NEW after \in {"running", "stopped"}, after = "running" <=> to = "Running",
           P!RunHook(n, ok, from, to, after)
    PROVE  /\ StoreInv' /\ HeldStays /\ P!Loaded' = P!Loaded
           /\ n \notin P!InState(from) => ~ok /\ \A x : P!InState(x)' = P!InState(x)
           /\ n \in P!InState(from) =>
                 \A x : P!InState(x)' = {m \in P!Loaded : IF m = n THEN x = IF ok THEN to ELSE "Error"
                                                          ELSE m \in P!InState(x)}
<1>1. CASE n \notin P!InState(from)
  BY <1>1, SameStore DEF P!RunHook
<1>2. CASE n \in P!InState(from)
  <2> DEFINE k == Instance(n)
             s == IF ok THEN to ELSE "Error"
             a == IF ok THEN after ELSE "failed"
  <2>1. n \in P!Loaded /\ loaded_plugins_[n].state = from
    BY <1>2 DEF P!InState
  <2>2. k \in Objects /\ k # P!NoObject /\ k \in Nat
    BY <2>1 DEF StoreInv, RecordsOwn, RecordAt, Instance, Objects
  <2>3. UNCHANGED metadata_cache_ /\ P!SetState(n, s) /\ object' = [object EXCEPT ![k] = a]
    BY <1>2 DEF P!RunHook, Instance
  <2>4. s \in P!States /\ a \in ObjectStates /\ a # "destroyed" /\ (a = "running" => s = "Running")
    BY DEF P!States, ObjectStates
  <2> HIDE DEF k, s, a
  <2>5. loaded_plugins_' = [loaded_plugins_ EXCEPT ![n] = [state |-> s, instance |-> k]]
    BY <2>1, <2>3, StateIsSet DEF k
  <2>6. /\ object' \in Seq(ObjectStates) /\ Objects' = Objects /\ object'[k] = a
        /\ \A i \in Objects : i # k => object'[i] = object[i]
    BY <2>2, <2>3, <2>4 DEF StoreInv, StoreTypes, Objects
  <2>7. /\ loaded_plugins_'[n] = [state |-> s, instance |-> k]
        /\ P!Loaded' = P!Loaded
    BY <2>1, <2>5 DEF StoreInv, StoreTypes, P!Loaded
  <2>8. RecordAt(n)'
    <3>1. s # "Loaded"
      BY DEF s
    <3> QED
      BY <2>1, <2>2, <2>4, <2>6, <2>7, <3>1 DEF RecordAt, Instance, P!InState
  <2>9. /\ StoreInv' /\ HeldStays /\ P!Loaded' = P!Loaded
        /\ \A x : P!InState(x)' = {m \in P!Loaded : IF m = n THEN x = s ELSE m \in P!InState(x)}
    BY <2>1, <2>2, <2>3, <2>4, <2>5, <2>6, <2>8, OneRecord DEF k
  <2> QED
    BY <1>2, <2>9 DEF s
<1> QED
  BY <1>1, <1>2

\* startPlugin that fails leaves no plugin running that did not run.
LEMMA StartKeepsStore ==
    ASSUME StoreInv, SameHeld, NEW n, NEW ok \in BOOLEAN, P!startPlugin(n, ok)
    PROVE  /\ StoreInv' /\ HeldStays /\ P!InState("Loaded")' = P!InState("Loaded")
           /\ ~ok => P!InState("Running")' = P!InState("Running")
           /\ ok => P!InState("Initialized")' = P!InState("Initialized") \ {n}
<1>1. /\ StoreInv' /\ HeldStays /\ P!Loaded' = P!Loaded
      /\ n \notin P!InState("Initialized") => ~ok /\ \A x : P!InState(x)' = P!InState(x)
      /\ n \in P!InState("Initialized") =>
            \A x : P!InState(x)' = {m \in P!Loaded : IF m = n THEN x = IF ok THEN "Running" ELSE "Error"
                                                     ELSE m \in P!InState(x)}
  BY HookKeeps DEF P!startPlugin
<1> QED
  BY <1>1 DEF P!InState

\* stopPlugin leaves the plugin not running, whatever stop() returns.
LEMMA StopKeepsStore ==
    ASSUME StoreInv, SameHeld, NEW n, NEW ok \in BOOLEAN, P!stopPlugin(n, ok)
    PROVE  /\ StoreInv' /\ HeldStays
           /\ P!InState("Running")' = P!InState("Running") \ {n}
<1>1. /\ StoreInv' /\ HeldStays /\ P!Loaded' = P!Loaded
      /\ n \notin P!InState("Running") => ~ok /\ \A x : P!InState(x)' = P!InState(x)
      /\ n \in P!InState("Running") =>
            \A x : P!InState(x)' = {m \in P!Loaded : IF m = n THEN x = IF ok THEN "Stopped" ELSE "Error"
                                                     ELSE m \in P!InState(x)}
  BY HookKeeps DEF P!stopPlugin
<1> QED
  BY <1>1 DEF P!InState

-----------------------------------------------------------------------------
(* The calls                                                                *)

\* What the step of a thread leaves of the others' calls; a start marks them.
OthersStay(t, b) ==
    \A u \in Users \ {t} :
        /\ IsCall(call'[u])
        /\ call'[u].op = call[u].op /\ call'[u].at = call[u].at
        /\ call'[u].name = call[u].name /\ call'[u].todo = call[u].todo
        /\ call'[u].held = call[u].held
        /\ call'[u].ok = call[u].ok /\ call'[u].alone = call[u].alone
        /\ call'[u].raced \in BOOLEAN /\ (call'[u].raced <=> call[u].raced \/ b)

Goes(t, b) ==
    /\ call' = [u \in Users |-> call'[u]] /\ OthersStay(t, b)
    /\ IsCall(call'[t]) /\ CallAt(call'[t])

\* A step after which its thread holds what it held.
LEMMA HeldTheSame ==
    ASSUME NEW t \in Users, NEW b \in BOOLEAN, Goes(t, b), call'[t].held = call[t].held,
           UNCHANGED dir
    PROVE  SameHeld
BY DEF Goes, OthersStay, SameHeld

\* A step that changes one call.
LEMMA OneCall ==
    ASSUME CallTypes, NEW t \in Users, NEW d, IsCall(d), CallAt(d), P!Goto(t, d)
    PROVE  Goes(t, FALSE) /\ call'[t] = d
<1>1. call'[t] = d /\ \A u \in Users \ {t} : call'[u] = call[u]
  BY DEF CallTypes, P!Goto
<1>2. \A u \in Users : call[u].raced \in BOOLEAN
  BY DEF CallTypes, CallAt
<1>3. call' = [u \in Users |-> call'[u]]
  BY DEF CallTypes, P!Goto
<1> QED
  BY <1>1, <1>2, <1>3 DEF CallTypes, Goes, OthersStay

Moves(t, d, b) ==
    call' = [u \in Users |-> IF u = t THEN d ELSE [call[u] EXCEPT !.raced = @ \/ b]]

\* A step that changes one call and may have started a plugin.
LEMMA OneCallAndStart ==
    ASSUME CallTypes, NEW t \in Users, NEW d, IsCall(d), CallAt(d), NEW b \in BOOLEAN,
           Moves(t, d, b)
    PROVE  Goes(t, b) /\ call'[t] = d
<1>1. call'[t] = d /\ call' = [u \in Users |-> call'[u]]
  BY DEF Moves
<1>2. ASSUME NEW u \in Users \ {t}
      PROVE  /\ IsCall(call'[u])
             /\ call'[u].op = call[u].op /\ call'[u].at = call[u].at
             /\ call'[u].name = call[u].name /\ call'[u].todo = call[u].todo
             /\ call'[u].held = call[u].held
             /\ call'[u].ok = call[u].ok /\ call'[u].alone = call[u].alone
             /\ call'[u].raced \in BOOLEAN /\ (call'[u].raced <=> call[u].raced \/ b)
  <2> DEFINE c == call[u]
             e == call'[u]
  <2>1. IsCall(c) /\ c.raced \in BOOLEAN
    BY DEF CallTypes, CallAt
  <2>2. e = [c EXCEPT !.raced = @ \/ b]
    BY <1>2 DEF Moves
  <2> HIDE DEF c, e
  <2>3. /\ IsCall(e) /\ e.op = c.op /\ e.at = c.at /\ e.name = c.name /\ e.todo = c.todo
        /\ e.held = c.held /\ e.ok = c.ok /\ e.alone = c.alone
        /\ e.raced = (c.raced \/ b)
    BY <2>1, <2>2 DEF IsCall
  <2> QED
    BY <2>1, <2>3 DEF c, e
<1> QED
  BY <1>1, <1>2 DEF Goes, OthersStay

\* What is left to show of a thread's step.
LEMMA MoveKeeps ==
    ASSUME ManagerInv, StoreInv', dying' = dying,
           NEW t \in Users, \A u \in Users \ {t} : \A i \in call[u].held : object'[i] = object[i],
           NEW b \in BOOLEAN, Goes(t, b), call[t].at # "idle",
           b \/ P!InState("Running")' \subseteq P!InState("Running"),
           call'[t].raced \/ Looked(call[t])',
           call'[t].at # "idle" => (call'[t].alone => call[t].alone),
           call'[t].at # "idle" /\ call'[t].alone => Batch(call[t])',
           dying => /\ call'[t].op \in {"none", "unloadAll"}
                    /\ call'[t].at \in {"idle", "destroy", "returned"} => P!Loaded' = {}
    PROVE  ManagerInv'
<1>1. CallTypes'
  <2>1. ASSUME NEW u \in Users \ {t} PROVE CallAt(call'[u])
    <3>1. CallAt(call[u])
      BY DEF ManagerInv, CallTypes
    <3> QED
      BY <3>1 DEF Goes, OthersStay, CallAt
  <2>2. dying' \in BOOLEAN
    BY DEF ManagerInv, CallTypes
  <2> QED
    BY <2>1, <2>2 DEF Goes, OthersStay, CallTypes
<1>2. LookedAt'
  <2> SUFFICES ASSUME NEW u \in Users \ {t}, ~call'[u].raced PROVE Looked(call[u])'
    BY DEF LookedAt
  <2>1. Looked(call[u]) /\ ~b
    BY DEF ManagerInv, LookedAt, Goes, OthersStay
  <2>2. \A i \in call[u].held : object'[i] = object[i]
    OBVIOUS
  <2> QED
    BY <2>1, <2>2 DEF Goes, OthersStay, Looked
<1>3. LastCall'
  <2> SUFFICES ASSUME dying PROVE LastCall'
    BY DEF LastCall
  <2>1. t = Owner
    BY DEF ManagerInv, LastCall
  <2> QED
    BY <2>1 DEF ManagerInv, LastCall, Goes, OthersStay
<1>4. AloneInBatch'
  <2>1. ASSUME NEW u \in Users \ {t} PROVE ~(call'[u].alone /\ call'[u].at # "idle")
    BY DEF ManagerInv, AloneInBatch, Goes, OthersStay
  <2>2. ASSUME call'[t].alone, call'[t].at # "idle"
        PROVE  \A u \in Users \ {t} : call'[u].at = "idle"
    BY <2>2 DEF ManagerInv, AloneInBatch, Goes, OthersStay
  <2> QED
    BY <2>1, <2>2 DEF AloneInBatch
<1> QED
  BY <1>1, <1>2, <1>3, <1>4 DEF ManagerInv

\* The same, for a step that leaves the objects that threads hold.
LEMMA StepKeeps ==
    ASSUME ManagerInv, StoreInv', HeldStays, dying' = dying,
           NEW t \in Users, NEW b \in BOOLEAN, Goes(t, b), call[t].at # "idle",
           b \/ P!InState("Running")' \subseteq P!InState("Running"),
           call'[t].raced \/ Looked(call[t])',
           call'[t].at # "idle" => (call'[t].alone => call[t].alone),
           call'[t].at # "idle" /\ call'[t].alone => Batch(call[t])',
           dying => /\ call'[t].op \in {"none", "unloadAll"}
                    /\ call'[t].at \in {"idle", "destroy", "returned"} => P!Loaded' = {}
    PROVE  ManagerInv'
<1>1. \A u \in Users \ {t} : \A i \in call[u].held : object'[i] = object[i]
  BY DEF HeldStays
<1> QED
  BY <1>1, MoveKeeps

\* A step that only moves its thread's call.
LEMMA QuietKeeps ==
    ASSUME ManagerInv, NEW t \in Users, NEW d, IsCall(d), CallAt(d), P!Goto(t, d),
           UNCHANGED <<dir, metadata_cache_, loaded_plugins_, object, dying>>,
           d.held = call[t].held, call[t].at # "idle",
           d.raced \/ Looked(d),
           d.at # "idle" => (d.alone => call[t].alone),
           d.at # "idle" /\ d.alone => Batch(d),
           dying => /\ d.op \in {"none", "unloadAll"}
                    /\ d.at \in {"idle", "destroy", "returned"} => P!Loaded = {}
    PROVE  ManagerInv'
<1>1. Goes(t, FALSE) /\ call'[t] = d
  BY OneCall DEF ManagerInv
<1>2. SameHeld
  BY <1>1 DEF Goes, OthersStay, SameHeld
<1>3. StoreInv' /\ HeldStays /\ P!Loaded' = P!Loaded /\ \A x : P!InState(x)' = P!InState(x)
  BY <1>2, SameStore DEF ManagerInv
<1>4. call'[t].raced \/ Looked(call[t])'
  BY <1>1, <1>3 DEF Looked
<1>5. call'[t].at # "idle" /\ call'[t].alone => Batch(call[t])'
  BY <1>1, <1>3 DEF Batch, Remains
<1> QED
  BY <1>1, <1>3, <1>4, <1>5, StepKeeps

\* The facts that most steps begin with.
LEMMA CallOf ==
    ASSUME ManagerInv, NEW t \in Users
    PROVE  /\ IsCall(call[t]) /\ CallAt(call[t])
           /\ call[t].raced \/ Looked(call[t])
           /\ call[t].alone /\ call[t].at # "idle" => Batch(call[t])
           /\ dying /\ call[t].at # "idle" =>
                 /\ call[t].op = "unloadAll"
                 /\ call[t].at \in {"destroy", "returned"} => P!Loaded = {}
<1>1. IsCall(call[t]) /\ CallAt(call[t]) /\ (call[t].raced \/ Looked(call[t]))
  BY DEF ManagerInv, CallTypes, LookedAt
<1>2. call[t].alone /\ call[t].at # "idle" => Batch(call[t])
  BY DEF ManagerInv, AloneInBatch
<1>3. dying /\ call[t].at # "idle" => t = Owner
  BY DEF ManagerInv, LastCall
<1> QED
  BY <1>1, <1>2, <1>3 DEF ManagerInv, LastCall, CallAt

\* A call returns to its caller, who is idle again.
LEMMA FinishKeeps == ASSUME ManagerInv, NEW t \in Users, P!Finish(t) PROVE ManagerInv'
<1> DEFINE c == call[t]
           d == P!Idle
<1>1. /\ c.at = "returned" /\ P!Goto(t, d)
      /\ UNCHANGED <<dir, metadata_cache_, loaded_plugins_, object, dying>>
  BY DEF P!Finish
<1>2. /\ CallAt(c)
      /\ dying => c.op = "unloadAll" /\ P!Loaded = {}
  BY <1>1, CallOf
<1>3. c.held = {}
  BY <1>1, <1>2 DEF CallAt
<1>4. IsCall(d) /\ d.op = "none" /\ d.at = "idle" /\ d.held = {}
  BY DEF P!Idle, IsCall
<1>5. CallAt(d)
  BY DEF P!Idle, CallAt
<1> HIDE DEF c, d
<1>6. Looked(d)
  BY <1>4 DEF Looked
<1>7. d.held = call[t].held /\ call[t].at # "idle"
  BY <1>1, <1>3, <1>4 DEF c
<1> QED
  BY <1>1, <1>2, <1>4, <1>5, <1>6, <1>7, QuietKeeps

\* unloadPlugin looks at the state.
LEMMA UnloadLookKeeps == ASSUME ManagerInv, NEW t \in Users, P!UnloadLook(t) PROVE ManagerInv'
<1> DEFINE c == call[t]
<1>1. /\ c.op = "unload" /\ c.at = "begin"
      /\ UNCHANGED <<dir, metadata_cache_, loaded_plugins_, object, dying>>
  BY DEF P!UnloadLook, P!At
<1>2. IsCall(c) /\ CallAt(c) /\ ~dying
  BY <1>1, CallOf
<1>3. PICK d : /\ P!Goto(t, d)
               /\ \/ d = [c EXCEPT !.at = "returned", !.ok = FALSE]
                  \/ d = [c EXCEPT !.at = "stop", !.raced = FALSE]
                  \/ /\ d = [c EXCEPT !.at = "take", !.raced = FALSE]
                     /\ c.name \notin P!InState("Running")
  BY DEF P!UnloadLook, P!Return
<1> HIDE DEF c
<1>4. /\ IsCall(d) /\ d.op = c.op /\ d.name = c.name /\ d.held = c.held
      /\ d.alone = c.alone /\ d.at \in {"returned", "stop", "take"}
      /\ d.ok \in BOOLEAN /\ d.raced \in BOOLEAN
      /\ d.at = "take" => c.name \notin P!InState("Running")
  BY <1>2, <1>3 DEF IsCall, CallAt
<1>5. c.held = {}
  BY <1>1, <1>2 DEF CallAt
<1>6. CallAt(d)
  BY <1>1, <1>2, <1>4, <1>5 DEF CallAt
<1>7. Looked(d) /\ Batch(d)
  BY <1>1, <1>4, <1>5 DEF Looked, Batch, Remains
<1>8. d.held = call[t].held /\ call[t].at # "idle" /\ (d.alone => call[t].alone)
  BY <1>1, <1>4 DEF c
<1> QED
  BY <1>1, <1>2, <1>3, <1>4, <1>6, <1>7, <1>8, QuietKeeps

\* handleStartPlugin looks at the state.
LEMMA RequestLooksKeeps == ASSUME ManagerInv, NEW t \in Users, P!RequestLooks(t) PROVE ManagerInv'
<1> DEFINE c == call[t]
<1>1. /\ c.op = "request" /\ c.at = "begin"
      /\ UNCHANGED <<dir, metadata_cache_, loaded_plugins_, object, dying>>
  BY DEF P!RequestLooks, P!At
<1>2. IsCall(c) /\ CallAt(c) /\ ~dying
  BY <1>1, CallOf
<1>3. PICK d : /\ P!Goto(t, d)
               /\ \/ d = [c EXCEPT !.at = "returned", !.ok = TRUE]
                  \/ d = [c EXCEPT !.at = "initialize"]
                  \/ d = [c EXCEPT !.at = "start"]
                  \/ d = [c EXCEPT !.at = "load"]
  BY DEF P!RequestLooks, P!Return
<1> HIDE DEF c
<1>4. /\ IsCall(d) /\ d.op = c.op /\ d.held = c.held /\ d.alone = c.alone
      /\ d.at \in {"returned", "initialize", "start", "load"}
      /\ d.ok \in BOOLEAN /\ d.raced \in BOOLEAN
  BY <1>2, <1>3 DEF IsCall, CallAt
<1>5. c.held = {} /\ d.alone \in BOOLEAN
  BY <1>1, <1>2, <1>4 DEF CallAt
<1>6. CallAt(d)
  BY <1>1, <1>4, <1>5 DEF CallAt, P!Operations, P!NamedOps
<1>7. Looked(d) /\ Batch(d)
  BY <1>1, <1>4, <1>5 DEF Looked, Batch, Remains
<1>8. d.held = call[t].held /\ call[t].at # "idle" /\ (d.alone => call[t].alone)
  BY <1>1, <1>4 DEF c
<1> QED
  BY <1>1, <1>2, <1>3, <1>4, <1>6, <1>7, <1>8, QuietKeeps

\* loadAll has the order, or gives up.
LEMMA LoadAllOrdersKeeps == ASSUME ManagerInv, NEW t \in Users, P!LoadAllOrders(t) PROVE ManagerInv'
<1> DEFINE c == call[t]
<1>1. /\ c.op = "loadAll" /\ c.at = "order"
      /\ UNCHANGED <<dir, metadata_cache_, loaded_plugins_, object, dying>>
  BY DEF P!LoadAllOrders, P!At
<1>2. IsCall(c) /\ CallAt(c) /\ ~dying
  BY <1>1, CallOf
<1>3. PICK d : /\ P!Goto(t, d)
               /\ \/ d = [c EXCEPT !.at = "returned", !.ok = FALSE]
                  \/ \E order : d = [c EXCEPT !.at = "load", !.todo = order]
  BY DEF P!LoadAllOrders, P!Return
<1> HIDE DEF c
<1>4. /\ IsCall(d) /\ d.op = c.op /\ d.held = c.held /\ d.alone = c.alone
      /\ d.at \in {"returned", "load"} /\ d.ok \in BOOLEAN /\ d.raced = c.raced
  BY <1>2, <1>3 DEF IsCall, CallAt
<1>5. c.held = {} /\ d.alone \in BOOLEAN /\ d.raced \in BOOLEAN
  BY <1>1, <1>2, <1>4 DEF CallAt
<1>6. CallAt(d)
  BY <1>1, <1>4, <1>5 DEF CallAt, P!Operations, P!NamedOps
<1>7. Looked(d) /\ Batch(d)
  BY <1>1, <1>4, <1>5 DEF Looked, Batch, Remains
<1>8. d.held = call[t].held /\ call[t].at # "idle" /\ (d.alone => call[t].alone)
  BY <1>1, <1>4 DEF c
<1> QED
  BY <1>1, <1>2, <1>3, <1>4, <1>6, <1>7, <1>8, QuietKeeps

\* What a batch operation collects: the names that are in a state.
LEMMA Collected ==
    ASSUME P!ManagerAssumption, StoreInv, NEW x
    PROVE  /\ P!MapOrder(P!InState(x)) \in Seq(Plugins)
           /\ Elements(P!MapOrder(P!InState(x))) = P!InState(x)
<1> DEFINE T == P!InState(x)
<1>1. T \subseteq Plugins /\ Plugins \subseteq Nat /\ P!IsFiniteSet(Plugins)
  BY DEF P!ManagerAssumption, StoreInv, StoreTypes, P!InState
<1> HIDE DEF T
<1>2. T \subseteq Nat /\ IsFiniteSet(T)
  BY <1>1, SameFinite, FS_Subset
<1>3. P!MapOrder(T) \in Seq(T) /\ Elements(P!MapOrder(T)) = T
  BY <1>2, MapOrderElements
<1>4. P!MapOrder(T) \in Seq(Plugins)
  BY <1>1, <1>3, SeqMonotonic
<1> QED
  BY <1>3, <1>4 DEF T

\* startAll collects the loaded plugins, and then the initialized ones.
LEMMA StartAllCollectsKeeps ==
    ASSUME P!ManagerAssumption, ManagerInv, NEW t \in Users, P!StartAllCollects(t)
    PROVE  ManagerInv'
<1> DEFINE c == call[t]
<1>1. /\ c.op = "startAll" /\ c.at \in {"begin", "initialized"}
      /\ UNCHANGED <<dir, metadata_cache_, loaded_plugins_, object, dying>>
  BY DEF P!StartAllCollects, P!Collect, P!At
<1>2. IsCall(c) /\ CallAt(c) /\ ~dying /\ (c.alone => Batch(c))
  BY <1>1, CallOf
<1>3. PICK d : /\ P!Goto(t, d)
               /\ \/ /\ c.at = "begin"
                     /\ d = [c EXCEPT !.at = "initialize", !.todo = P!MapOrder(P!InState("Loaded")),
                                      !.raced = FALSE]
                  \/ /\ c.at = "initialized"
                     /\ d = [c EXCEPT !.at = "start", !.todo = P!MapOrder(P!InState("Initialized")),
                                      !.raced = FALSE]
  BY DEF P!StartAllCollects, P!Collect, P!At
<1> HIDE DEF c
<1>4. /\ IsCall(d) /\ d.op = c.op /\ d.held = c.held /\ d.alone = c.alone /\ d.ok = c.ok
      /\ d.raced = FALSE
      /\ \/ c.at = "begin" /\ d.at = "initialize" /\ d.todo = P!MapOrder(P!InState("Loaded"))
         \/ c.at = "initialized" /\ d.at = "start" /\ d.todo = P!MapOrder(P!InState("Initialized"))
  BY <1>2, <1>3 DEF IsCall
<1>5. c.held = {} /\ d.alone \in BOOLEAN /\ d.ok \in BOOLEAN /\ d.raced \in BOOLEAN
  BY <1>1, <1>2, <1>4 DEF CallAt
<1>6. /\ d.todo \in Seq(Plugins)
      /\ d.at = "initialize" => Elements(d.todo) = P!InState("Loaded")
      /\ d.at = "start" => Elements(d.todo) = P!InState("Initialized")
  BY <1>4, Collected DEF ManagerInv
<1>7. CallAt(d)
  BY <1>1, <1>4, <1>5, <1>6 DEF CallAt, P!Operations, P!NamedOps
<1>8. Looked(d)
  BY <1>1, <1>4, <1>5 DEF Looked
<1>9. d.alone => Batch(d)
  BY <1>1, <1>2, <1>4, <1>6 DEF Batch, Remains
<1>10. d.held = call[t].held /\ call[t].at # "idle" /\ (d.alone => call[t].alone)
  BY <1>1, <1>4 DEF c
<1> QED
  BY <1>1, <1>2, <1>3, <1>4, <1>7, <1>8, <1>9, <1>10, QuietKeeps

\* stopAll and unloadAll collect the running plugins.
LEMMA StopAllCollectsKeeps ==
    ASSUME P!ManagerAssumption, ManagerInv, NEW t \in Users, P!StopAllCollects(t)
    PROVE  ManagerInv'
<1> DEFINE c == call[t]
<1>1. /\ c.op \in {"stopAll", "unloadAll"} /\ c.at = "begin"
      /\ P!Goto(t, [c EXCEPT !.at = "stop", !.todo = P!MapOrder(P!InState("Running")), !.raced = FALSE])
      /\ UNCHANGED <<dir, metadata_cache_, loaded_plugins_, object, dying>>
  BY DEF P!StopAllCollects, P!Collect, P!At
<1>2. IsCall(c) /\ CallAt(c) /\ (dying => c.op = "unloadAll")
  BY <1>1, CallOf
<1>3. PICK d : /\ P!Goto(t, d)
               /\ d = [c EXCEPT !.at = "stop", !.todo = P!MapOrder(P!InState("Running")), !.raced = FALSE]
  BY <1>1
<1> HIDE DEF c
<1>4. /\ IsCall(d) /\ d.op = c.op /\ d.held = c.held /\ d.alone = c.alone /\ d.ok = c.ok
      /\ d.raced = FALSE /\ d.at = "stop" /\ d.todo = P!MapOrder(P!InState("Running"))
  BY <1>2, <1>3 DEF IsCall
<1>5. c.held = {} /\ d.alone \in BOOLEAN /\ d.ok \in BOOLEAN /\ d.raced \in BOOLEAN
  BY <1>1, <1>2, <1>4 DEF CallAt
<1>6. d.todo \in Seq(Plugins) /\ Elements(d.todo) = P!InState("Running")
  BY <1>4, Collected DEF ManagerInv
<1>7. CallAt(d)
  BY <1>1, <1>4, <1>5, <1>6 DEF CallAt, P!Operations, P!NamedOps
<1>8. Looked(d) /\ Batch(d)
  BY <1>1, <1>4, <1>5, <1>6 DEF Looked, Batch, Remains
<1>9. d.held = call[t].held /\ call[t].at # "idle" /\ (d.alone => call[t].alone)
  BY <1>1, <1>4 DEF c
<1> QED
  BY <1>1, <1>2, <1>3, <1>4, <1>7, <1>8, <1>9, QuietKeeps

\* The end of a list: the next phase, or the operation's answer.
LEMMA BatchEndKeeps == ASSUME ManagerInv, NEW t \in Users, P!BatchEnd(t) PROVE ManagerInv'
<1> DEFINE c == call[t]
<1>1. /\ c.op \in {"loadAll", "startAll", "stopAll", "unloadAll"}
      /\ c.at \in {"load", "initialize", "start", "stop"} /\ c.todo = <<>>
      /\ UNCHANGED <<dir, metadata_cache_, loaded_plugins_, object, dying>>
  BY DEF P!BatchEnd
<1>2. /\ IsCall(c) /\ CallAt(c) /\ (dying => c.op = "unloadAll")
      /\ c.alone => Batch(c)
      /\ c.raced \/ Looked(c)
  BY <1>1, CallOf
<1>3. PICK d : /\ P!Goto(t, d)
               /\ \/ /\ c.op = "startAll" /\ c.at = "initialize"
                     /\ d = [c EXCEPT !.at = "initialized"]
                  \/ c.op = "unloadAll" /\ d = [c EXCEPT !.at = "take"]
                  \/ /\ c.op # "unloadAll" /\ c.at # "initialize"
                     /\ d = [c EXCEPT !.at = "returned", !.ok = c.ok]
  BY DEF P!BatchEnd, P!Return
<1> HIDE DEF c
<1>4. /\ IsCall(d) /\ d.op = c.op /\ d.held = c.held /\ d.alone = c.alone /\ d.ok = c.ok
      /\ d.raced = c.raced /\ d.todo = c.todo
      /\ \/ c.op = "startAll" /\ c.at = "initialize" /\ d.at = "initialized"
         \/ c.op = "unloadAll" /\ d.at = "take"
         \/ c.op # "unloadAll" /\ c.at # "initialize" /\ d.at = "returned"
  BY <1>2, <1>3 DEF IsCall
<1>5. c.held = {} /\ Elements(c.todo) = {}
  BY <1>1, <1>2, ElementsEmpty DEF CallAt
<1>6. CallAt(d)
  BY <1>1, <1>2, <1>4, <1>5 DEF CallAt
<1>7. c.op = "unloadAll" => c.at = "stop"
  BY <1>1, <1>2 DEF CallAt
<1>8. d.raced \/ Looked(d)
  BY <1>1, <1>2, <1>4, <1>5, <1>7 DEF Looked
<1>9. d.alone => Batch(d)
  BY <1>1, <1>2, <1>4, <1>5, <1>7 DEF Batch, Remains, CallAt
<1>10. d.held = call[t].held /\ call[t].at # "idle" /\ (d.alone => call[t].alone)
  BY <1>1, <1>4 DEF c
<1> QED
  BY <1>1, <1>2, <1>3, <1>4, <1>6, <1>8, <1>9, <1>10, QuietKeeps

\* Operations that are one critical section.
LEMMA SingleKeeps ==
    ASSUME P!ManagerAssumption, ManagerInv, NEW t \in Users, P!Single(t)
    PROVE  ManagerInv'
<1> DEFINE c == call[t]
<1>1. PICK ok \in BOOLEAN :
          /\ \/ c.op = "scan" /\ ok /\ P!scanAvailablePlugins
             \/ c.op = "load" /\ P!loadPlugin(c.name, ok)
             \/ c.op = "initialize" /\ P!initializePlugin(c.name, ok)
             \/ c.op = "start" /\ P!startPlugin(c.name, ok)
             \/ c.op = "stop" /\ P!stopPlugin(c.name, ok)
          /\ call' = [u \in Users |->
                 IF u = t THEN [c EXCEPT !.at = "returned", !.ok = ok]
                 ELSE [call[u] EXCEPT !.raced = @ \/ (c.op = "start" /\ ok)]]
  BY DEF P!Single
<1>2. c.at = "begin" /\ UNCHANGED <<dir, dying>>
  BY DEF P!Single
<1>3. IsCall(c) /\ CallAt(c) /\ ~dying
  BY <1>1, <1>2, CallOf
<1>4. PICK b \in BOOLEAN : b = (c.op = "start" /\ ok)
  OBVIOUS
<1>5. PICK d : Moves(t, d, b) /\ d = [c EXCEPT !.at = "returned", !.ok = ok] /\ c = call[t]
  BY <1>1, <1>4, Zenon DEF Moves
<1> HIDE DEF c
<1>6. /\ IsCall(d) /\ d.op = c.op /\ d.held = c.held /\ d.alone = c.alone
      /\ d.raced = c.raced /\ d.at = "returned" /\ d.ok = ok
  BY <1>3, <1>5 DEF IsCall
<1>7. /\ c.op \in {"scan", "load", "initialize", "start", "stop"}
      /\ c.held = {} /\ d.alone \in BOOLEAN /\ d.raced \in BOOLEAN
  BY <1>1, <1>2, <1>3, <1>6 DEF CallAt
<1>8. CallAt(d)
  BY <1>6, <1>7 DEF CallAt, P!Operations, P!NamedOps
<1>9. Goes(t, b) /\ call'[t] = d
  BY <1>5, <1>6, <1>8, OneCallAndStart DEF ManagerInv
<1>10. SameHeld
  BY <1>2, <1>5, <1>6, <1>9, HeldTheSame
<1>11. /\ StoreInv' /\ HeldStays
       /\ b \/ P!InState("Running")' \subseteq P!InState("Running")
  BY <1>1, <1>4, <1>10, ScanKeeps, LoadKeeps, InitializeKeeps, StartKeepsStore, StopKeepsStore
  DEF ManagerInv, P!InState, P!Loaded
<1>12. Looked(call[t])' /\ Batch(call[t])'
  BY <1>6, <1>7, <1>9 DEF Looked, Batch, Remains
<1>13. call[t].at # "idle" /\ (call'[t].alone => call[t].alone)
  BY <1>2, <1>5, <1>6, <1>9
<1> QED
  BY <1>2, <1>3, <1>5, <1>9, <1>11, <1>12, <1>13, StepKeeps

\* unloadPlugin stops the plugin, or finds it stopped by another.
LEMMA UnloadStopKeeps == ASSUME ManagerInv, NEW t \in Users, P!UnloadStop(t) PROVE ManagerInv'
<1> DEFINE c == call[t]
           d == [c EXCEPT !.at = "take"]
<1>1. /\ c.op = "unload" /\ c.at = "stop" /\ P!Goto(t, d)
      /\ UNCHANGED <<dir, dying>>
      /\ c = call[t] /\ d = [c EXCEPT !.at = "take"]
  BY DEF P!UnloadStop, P!At
<1>2. PICK ok \in BOOLEAN : P!stopPlugin(c.name, ok)
  BY DEF P!UnloadStop
<1> HIDE DEF c, d
<1>3. IsCall(c) /\ CallAt(c) /\ ~dying
  BY <1>1, CallOf
<1>4. /\ IsCall(d) /\ d.op = c.op /\ d.held = c.held /\ d.alone = c.alone /\ d.ok = c.ok
      /\ d.raced = c.raced /\ d.at = "take" /\ d.name = c.name
  BY <1>1, <1>3 DEF IsCall
<1>5. c.held = {}
  BY <1>1, <1>3 DEF CallAt
<1>6. CallAt(d)
  BY <1>1, <1>3, <1>4, <1>5 DEF CallAt
<1>7. Goes(t, FALSE) /\ call'[t] = d
  BY <1>1, <1>4, <1>6, OneCall DEF ManagerInv
<1>8. SameHeld
  BY <1>1, <1>4, <1>7, HeldTheSame
<1>9. /\ StoreInv' /\ HeldStays
      /\ P!InState("Running")' = P!InState("Running") \ {c.name}
  BY <1>2, <1>8, StopKeepsStore DEF ManagerInv
<1>10. Looked(call[t])' /\ Batch(call[t])'
  BY <1>1, <1>4, <1>5, <1>7, <1>9 DEF Looked, Batch, Remains
<1>11. call[t].at # "idle" /\ (call'[t].alone => call[t].alone)
  BY <1>1, <1>4, <1>7
<1> QED
  BY <1>1, <1>3, <1>7, <1>9, <1>10, <1>11, StepKeeps

\* loadAll scans.
LEMMA LoadAllScansKeeps ==
    ASSUME P!ManagerAssumption, ManagerInv, NEW t \in Users, P!LoadAllScans(t)
    PROVE  ManagerInv'
<1> DEFINE c == call[t]
           d == [c EXCEPT !.at = "order"]
<1>1. /\ c.op = "loadAll" /\ c.at = "begin" /\ P!Goto(t, d)
      /\ P!scanAvailablePlugins /\ UNCHANGED <<dir, dying>>
      /\ c = call[t] /\ d = [c EXCEPT !.at = "order"]
  BY DEF P!LoadAllScans, P!At
<1> HIDE DEF c, d
<1>2. IsCall(c) /\ CallAt(c) /\ ~dying
  BY <1>1, CallOf
<1>3. /\ IsCall(d) /\ d.op = c.op /\ d.held = c.held /\ d.alone = c.alone /\ d.ok = c.ok
      /\ d.raced = c.raced /\ d.at = "order"
  BY <1>1, <1>2 DEF IsCall
<1>4. c.held = {}
  BY <1>1, <1>2 DEF CallAt
<1>5. CallAt(d)
  BY <1>1, <1>2, <1>3, <1>4 DEF CallAt
<1>6. Goes(t, FALSE) /\ call'[t] = d
  BY <1>1, <1>3, <1>5, OneCall DEF ManagerInv
<1>7. SameHeld
  BY <1>1, <1>3, <1>6, HeldTheSame
<1>8. StoreInv' /\ HeldStays /\ P!InState("Running")' = P!InState("Running")
  BY <1>1, <1>7, ScanKeeps DEF ManagerInv, P!InState, P!Loaded
<1>9. Looked(call[t])' /\ Batch(call[t])'
  BY <1>1, <1>3, <1>4, <1>6 DEF Looked, Batch, Remains
<1>10. call[t].at # "idle" /\ (call'[t].alone => call[t].alone)
  BY <1>1, <1>3, <1>6
<1> QED
  BY <1>1, <1>2, <1>6, <1>8, <1>9, <1>10, StepKeeps

\* handleStartPlugin does what the state it saw calls for.
LEMMA RequestStepKeeps ==
    ASSUME P!ManagerAssumption, ManagerInv, NEW t \in Users, P!RequestStep(t)
    PROVE  ManagerInv'
<1> DEFINE c == call[t]
           Then(at, ok) == [c EXCEPT !.at = IF ok THEN at ELSE "returned", !.ok = ok]
<1>1. PICK ok \in BOOLEAN :
          \/ c.at = "load" /\ P!loadPlugin(c.name, ok) /\ P!Goto(t, Then("initialize", ok))
          \/ c.at = "initialize" /\ P!initializePlugin(c.name, ok) /\ P!Goto(t, Then("start", ok))
          \/ /\ c.at = "start" /\ P!startPlugin(c.name, ok)
             /\ call' = [u \in Users |-> IF u = t THEN Then("returned", ok)
                            ELSE [call[u] EXCEPT !.raced = @ \/ ok]]
  BY DEF P!RequestStep
<1>2. c.op = "request" /\ UNCHANGED <<dir, dying>> /\ c = call[t] /\ c.at # "idle"
  BY <1>1 DEF P!RequestStep
<1>3. IsCall(c) /\ CallAt(c) /\ ~dying
  BY <1>2, CallOf
<1>4. c.held = {} /\ c.raced \in BOOLEAN /\ c.alone \in BOOLEAN
  BY <1>2, <1>3 DEF CallAt
<1>5. ASSUME NEW at \in {"initialize", "start", "returned"}
      PROVE  /\ IsCall(Then(at, ok)) /\ CallAt(Then(at, ok))
             /\ Then(at, ok).op = "request" /\ Then(at, ok).held = {}
             /\ Then(at, ok).alone = c.alone
  <2> DEFINE d == Then(at, ok)
  <2>1. PICK x \in {"initialize", "start", "returned"} : x = IF ok THEN at ELSE "returned"
    BY <1>5
  <2>2. d = [c EXCEPT !.at = x, !.ok = ok]
    BY <2>1
  <2> HIDE DEF c, d
  <2>3. /\ IsCall(d) /\ d.op = c.op /\ d.held = c.held /\ d.alone = c.alone
        /\ d.raced = c.raced /\ d.at = x /\ d.ok = ok
    BY <1>3, <2>2 DEF IsCall
  <2>4. CallAt(d)
    BY <1>2, <1>4, <2>1, <2>3 DEF CallAt, P!Operations, P!NamedOps
  <2> QED
    BY <1>2, <1>4, <2>3, <2>4 DEF d
<1> HIDE DEF c, Then
<1>6. \E d : \E b \in BOOLEAN :
          /\ Goes(t, b) /\ call'[t] = d
          /\ d.op = "request" /\ d.held = {} /\ d.alone = c.alone
          /\ b <=> c.at = "start" /\ ok
  <2>1. CallTypes
    BY DEF ManagerInv
  <2>2. CASE c.at = "load"
    <3>1. Goes(t, FALSE) /\ call'[t] = Then("initialize", ok)
      BY <1>1, <1>5, <2>1, <2>2, OneCall
    <3> QED
      BY <1>5, <2>2, <3>1
  <2>3. CASE c.at = "initialize"
    <3>1. Goes(t, FALSE) /\ call'[t] = Then("start", ok)
      BY <1>1, <1>5, <2>1, <2>3, OneCall
    <3> QED
      BY <1>5, <2>3, <3>1
  <2>4. CASE c.at = "start"
    <3>1. Moves(t, Then("returned", ok), ok)
      BY <1>1, <2>4 DEF Moves
    <3>2. Goes(t, ok) /\ call'[t] = Then("returned", ok)
      BY <1>5, <2>1, <3>1, OneCallAndStart
    <3> QED
      BY <1>5, <2>4, <3>2
  <2> QED
    BY <1>1, <2>2, <2>3, <2>4
<1>7. PICK b \in BOOLEAN :
          /\ Goes(t, b)
          /\ call'[t].op = "request" /\ call'[t].held = {} /\ call'[t].alone = c.alone
          /\ b <=> c.at = "start" /\ ok
  BY <1>6
<1>8. SameHeld
  BY <1>2, <1>4, <1>7, HeldTheSame
<1>9. /\ StoreInv' /\ HeldStays
      /\ b \/ P!InState("Running")' \subseteq P!InState("Running")
  BY <1>1, <1>7, <1>8, LoadKeeps, InitializeKeeps, StartKeepsStore DEF ManagerInv
<1>10. Looked(call[t])' /\ Batch(call[t])'
  BY <1>7 DEF Looked, Batch, Remains
<1> QED
  BY <1>2, <1>3, <1>7, <1>9, <1>10, StepKeeps

\* One element of a list.
LEMMA BatchStepKeeps ==
    ASSUME P!ManagerAssumption, ManagerInv, NEW t \in Users, P!BatchStep(t)
    PROVE  ManagerInv'
<1> DEFINE c == call[t]
           n == Head(c.todo)
           Rest(ok) == [c EXCEPT !.todo = Tail(@), !.ok = @ /\ ok]
<1>1. PICK ok \in BOOLEAN :
          /\ \/ c.at = "load" /\ P!loadPlugin(n, ok)
             \/ c.at = "initialize" /\ P!initializePlugin(n, ok)
             \/ c.at = "start" /\ P!startPlugin(n, ok)
             \/ c.at = "stop" /\ P!stopPlugin(n, ok)
          /\ call' = [u \in Users |->
                 IF u = t
                 THEN IF c.op = "startAll" /\ ~ok THEN [Rest(ok) EXCEPT !.at = "returned"] ELSE Rest(ok)
                 ELSE [call[u] EXCEPT !.raced = @ \/ (c.at = "start" /\ ok)]]
  BY DEF P!BatchStep
<1>2. /\ c.op \in {"loadAll", "startAll", "stopAll", "unloadAll"}
      /\ c.at \in {"load", "initialize", "start", "stop"} /\ c.todo # <<>>
      /\ UNCHANGED <<dir, dying>> /\ c = call[t]
  BY DEF P!BatchStep
<1>3. /\ IsCall(c) /\ CallAt(c) /\ (dying => c.op = "unloadAll")
      /\ c.alone => Batch(c)
      /\ c.raced \/ Looked(c)
  BY <1>2, CallOf
<1>4. PICK b \in BOOLEAN : b = (c.at = "start" /\ ok)
  OBVIOUS
<1>5. PICK k \in BOOLEAN : k = (c.ok /\ ok)
  OBVIOUS
<1>6. PICK x : x = IF c.op = "startAll" /\ ~ok THEN "returned" ELSE c.at
  OBVIOUS
<1>7. PICK d : Moves(t, d, b) /\ d = [c EXCEPT !.todo = Tail(@), !.ok = k, !.at = x]
  <2> DEFINE e == IF c.op = "startAll" /\ ~ok THEN [Rest(ok) EXCEPT !.at = "returned"] ELSE Rest(ok)
  <2>1. Moves(t, e, b)
    BY <1>1, <1>4, Zenon DEF Moves
  <2>2. Rest(ok) = [c EXCEPT !.todo = Tail(@), !.ok = k]
    BY <1>5, Zenon
  <2>3. e = [c EXCEPT !.todo = Tail(@), !.ok = k, !.at = x]
    <3> HIDE DEF c
    <3> QED
      BY <1>3, <1>6, <2>2 DEF IsCall
  <2> HIDE DEF e
  <2> QED
    BY <2>1, <2>3
<1> HIDE DEF c, n
<1>8. /\ IsCall(d) /\ d.op = c.op /\ d.held = c.held /\ d.alone = c.alone
      /\ d.raced = c.raced /\ d.at = x /\ d.ok = k /\ d.todo = Tail(c.todo)
  BY <1>3, <1>7 DEF IsCall
<1>9. /\ c.held = {} /\ d.alone \in BOOLEAN /\ d.raced \in BOOLEAN /\ d.ok \in BOOLEAN
      /\ c.op # "loadAll" => c.todo \in Seq(Plugins)
      /\ c.op \in {"stopAll", "unloadAll"} <=> c.at = "stop"
      /\ c.op = "startAll" => c.at \in {"initialize", "start"}
      /\ c.op = "loadAll" => c.at = "load"
  BY <1>2, <1>3, <1>8 DEF CallAt
<1>10. c.op # "loadAll" => /\ d.todo \in Seq(Plugins)
                           /\ Elements(c.todo) = Elements(d.todo) \cup {n}
  BY <1>2, <1>8, <1>9, TailElements DEF n
<1>11. CallAt(d)
  BY <1>2, <1>6, <1>8, <1>9, <1>10 DEF CallAt, P!Operations, P!NamedOps
<1>12. Goes(t, b) /\ call'[t] = d
  BY <1>7, <1>8, <1>11, OneCallAndStart DEF ManagerInv
<1>13. SameHeld
  BY <1>2, <1>8, <1>12, HeldTheSame
<1>14. StoreInv /\ StoreInv' /\ HeldStays
  BY <1>1, <1>13, LoadKeeps, InitializeKeeps, StartKeepsStore, StopKeepsStore DEF ManagerInv
<1>15. /\ c.at = "initialize" =>
              /\ P!InState("Running")' = P!InState("Running")
              /\ ok => P!InState("Loaded")' = P!InState("Loaded") \ {n}
       /\ c.at = "start" =>
              /\ P!InState("Loaded")' = P!InState("Loaded")
              /\ ~ok => P!InState("Running")' = P!InState("Running")
              /\ ok => P!InState("Initialized")' = P!InState("Initialized") \ {n}
       /\ c.at = "stop" => P!InState("Running")' = P!InState("Running") \ {n}
       /\ c.at = "load" => P!InState("Running")' = P!InState("Running")
  BY <1>1, <1>13, <1>14, LoadKeeps, InitializeKeeps, StartKeepsStore, StopKeepsStore
<1>16. b \/ P!InState("Running")' \subseteq P!InState("Running")
  BY <1>2, <1>4, <1>15
<1>17. d.raced \/ Looked(d)'
  <2>1. CASE c.op = "unloadAll"
    <3>1. d.op = "unloadAll" /\ d.at = "stop" /\ d.held = {} /\ c.at = "stop"
      BY <1>6, <1>8, <1>9, <2>1
    <3>2. c.raced \/ P!InState("Running") \subseteq Elements(c.todo)
      BY <1>3, <2>1, <3>1 DEF Looked
    <3>3. d.raced \/ P!InState("Running")' \subseteq Elements(d.todo)
      BY <1>8, <1>10, <1>15, <2>1, <3>1, <3>2
    <3> QED
      BY <3>1, <3>3 DEF Looked
  <2>2. CASE c.op # "unloadAll"
    BY <1>2, <1>8, <1>9, <2>2 DEF Looked
  <2> QED
    BY <2>1, <2>2
<1>18. d.alone => Batch(d)'
  BY <1>3, <1>5, <1>6, <1>8, <1>9, <1>10, <1>15 DEF Batch, Remains
<1>19. (call'[t].raced \/ Looked(call[t])') /\ (call'[t].alone => Batch(call[t])')
  BY <1>12, <1>17, <1>18 DEF Looked, Batch, Remains
<1>20. call[t].at # "idle" /\ (call'[t].alone => call[t].alone)
  BY <1>2, <1>8, <1>12
<1>21. dying => call'[t].op \in {"none", "unloadAll"} /\ call'[t].at = "stop"
  BY <1>3, <1>6, <1>8, <1>9, <1>12
<1> QED
  BY <1>2, <1>12, <1>14, <1>16, <1>19, <1>20, <1>21, StepKeeps

\* Records taken out of the map: their objects are the thread's to destroy.
LEMMA TakeKeeps ==
    ASSUME StoreInv, NEW t \in Users, NEW T \in SUBSET P!Loaded,
           UNCHANGED <<dir, metadata_cache_, object>>,
           P!Loaded' = P!Loaded \ T,
           loaded_plugins_' = [n \in P!Loaded \ T |-> loaded_plugins_[n]],
           \A u \in Users \ {t} : call'[u].held = call[u].held,
           call[t].held = {},
           call'[t].held = {Instance(n) : n \in T} \ {P!NoObject}
    PROVE  /\ StoreInv'
           /\ \A x : P!InState(x)' = P!InState(x) \ T
<1>1. \A n \in P!Loaded \ T : loaded_plugins_'[n] = loaded_plugins_[n] /\ Instance(n)' = Instance(n)
  BY DEF Instance
<1>2. StoreTypes'
  BY DEF StoreInv, StoreTypes, P!Loaded
<1>3. \A x : P!InState(x)' = P!InState(x) \ T
  BY <1>1 DEF P!InState
<1>4. RecordsOwn'
  <2>1. \A n \in P!Loaded \ T : RecordAt(n)'
    BY <1>1 DEF StoreInv, RecordsOwn, RecordAt, Objects, P!InState
  <2> QED
    BY <1>1, <2>1 DEF StoreInv, RecordsOwn
<1>5. \A i \in call'[t].held :
          /\ i \in Objects /\ object[i] # "destroyed"
          /\ \E n \in T : Instance(n) = i
          /\ \A n \in P!Loaded \ T : Instance(n) # i
  BY DEF StoreInv, RecordsOwn, RecordAt
<1>6. HeldOnce'
  <2> SUFFICES ASSUME NEW u \in Users, NEW i \in call'[u].held
               PROVE  /\ i \in Objects /\ object[i] # "destroyed"
                      /\ \A n \in P!Loaded \ T : Instance(n) # i
                      /\ \A v \in Users : i \in call'[v].held => u = v
    BY <1>1 DEF HeldOnce, Objects
  <2>1. \A v \in Users \ {t} : \A j \in call'[v].held :
            /\ j \in Objects /\ object[j] # "destroyed" /\ (\A n \in P!Loaded : Instance(n) # j)
            /\ \A w \in Users \ {t} : j \in call'[w].held => v = w
    BY DEF StoreInv, HeldOnce
  <2> QED
    BY <1>5, <2>1
<1>7. NoneLost'
  <2> SUFFICES ASSUME NEW i \in Objects, object[i] # "destroyed"
               PROVE  \/ \E n \in P!Loaded \ T : Instance(n) = i
                      \/ \E u \in Users : i \in call'[u].held
    BY <1>1 DEF NoneLost, Objects
  <2>1. CASE \E n \in T : Instance(n) = i
    BY <2>1 DEF Objects, P!NoObject
  <2>2. CASE \E u \in Users : i \in call[u].held
    BY <2>2
  <2> QED
    BY <2>1, <2>2 DEF StoreInv, NoneLost
<1> QED
  BY <1>2, <1>3, <1>4, <1>6, <1>7 DEF StoreInv

\* unloadPlugin takes its record out, if nobody else has.
LEMMA UnloadTakeKeepsIt == ASSUME ManagerInv, NEW t \in Users, P!UnloadTake(t) PROVE ManagerInv'
<1> DEFINE c == call[t]
           n == c.name
<1>1. /\ c.op = "unload" /\ c.at = "take" /\ c = call[t] /\ n = c.name
      /\ UNCHANGED <<dir, metadata_cache_, object, dying>>
  BY DEF P!UnloadTake, P!At
<1>2. /\ IsCall(c) /\ CallAt(c) /\ ~dying
      /\ c.raced \/ Looked(c)
  BY <1>1, CallOf
<1>3. CASE n \notin P!Loaded
  <2>1. P!Goto(t, [c EXCEPT !.at = "returned", !.ok = FALSE]) /\ UNCHANGED loaded_plugins_
    BY <1>3 DEF P!UnloadTake, P!Return
  <2> HIDE DEF c, n
  <2>2. PICK d : P!Goto(t, d) /\ d = [c EXCEPT !.at = "returned", !.ok = FALSE]
    BY <2>1
  <2>3. /\ IsCall(d) /\ d.op = c.op /\ d.held = c.held /\ d.alone = c.alone
        /\ d.raced = c.raced /\ d.at = "returned" /\ d.ok = FALSE
    BY <1>2, <2>2 DEF IsCall
  <2>4. c.held = {} /\ CallAt(d)
    BY <1>1, <1>2, <2>3 DEF CallAt
  <2>5. Looked(d) /\ Batch(d)
    BY <1>1, <2>3, <2>4 DEF Looked, Batch, Remains
  <2>6. d.held = call[t].held /\ call[t].at # "idle" /\ (d.alone => call[t].alone)
    BY <1>1, <2>3
  <2> QED
    BY <1>1, <1>2, <2>1, <2>2, <2>3, <2>4, <2>5, <2>6, QuietKeeps
<1>4. CASE n \in P!Loaded
  <2> DEFINE h == {Instance(n)} \ {P!NoObject}
  <2>1. /\ P!Goto(t, [c EXCEPT !.at = "destroy", !.held = h])
        /\ loaded_plugins_' = P!Without(loaded_plugins_, n)
    BY <1>4 DEF P!UnloadTake, Instance
  <2>2. h = {Instance(m) : m \in {n}} \ {P!NoObject}
    OBVIOUS
  <2> HIDE DEF c, n, h
  <2>3. PICK d : P!Goto(t, d) /\ d = [c EXCEPT !.at = "destroy", !.held = h]
    BY <2>1
  <2>4. /\ IsCall(d) /\ d.op = c.op /\ d.held = h /\ d.alone = c.alone
        /\ d.raced = c.raced /\ d.at = "destroy" /\ d.ok = c.ok
    BY <1>2, <2>3 DEF IsCall
  <2>5. c.held = {} /\ CallAt(d)
    BY <1>1, <1>2, <2>4 DEF CallAt
  <2>6. Goes(t, FALSE) /\ call'[t] = d
    BY <2>3, <2>4, <2>5, OneCall DEF ManagerInv
  <2>7. /\ loaded_plugins_' = [m \in P!Loaded \ {n} |-> loaded_plugins_[m]]
        /\ P!Loaded' = P!Loaded \ {n}
    BY <2>1 DEF P!Without, P!Restrict, P!Loaded
  <2>8. \A u \in Users \ {t} : call'[u].held = call[u].held
    BY <2>6 DEF Goes, OthersStay
  <2>9. StoreInv' /\ \A x : P!InState(x)' = P!InState(x) \ {n}
    BY <1>1, <1>4, <2>2, <2>4, <2>5, <2>6, <2>7, <2>8, TakeKeeps DEF ManagerInv
  <2>10. d.raced \/ Looked(d)'
    <3>1. ASSUME ~d.raced, NEW i \in d.held PROVE object[i] # "running"
      <4>1. i = Instance(n) /\ i # P!NoObject /\ n \notin P!InState("Running")
        BY <1>1, <1>2, <2>4, <3>1 DEF Looked, h
      <4> QED
        BY <1>4, <4>1 DEF ManagerInv, StoreInv, RecordsOwn, RecordAt
    <3> QED
      BY <1>1, <2>4, <3>1 DEF Looked
  <2>11. (call'[t].raced \/ Looked(call[t])') /\ Batch(call[t])'
    BY <1>1, <2>4, <2>6, <2>10 DEF Looked, Batch, Remains
  <2>12. call[t].at # "idle" /\ (call'[t].alone => call[t].alone)
    BY <1>1, <2>4, <2>6
  <2>13. HeldStays
    BY <1>1 DEF HeldStays
  <2>14. P!InState("Running")' \subseteq P!InState("Running")
    BY <2>9
  <2> QED
    BY <1>1, <1>2, <2>6, <2>9, <2>11, <2>12, <2>13, <2>14, StepKeeps
<1> QED
  BY <1>3, <1>4

\* unloadAll takes every record.
LEMMA UnloadAllTakesKeeps == ASSUME ManagerInv, NEW t \in Users, P!UnloadAllTakes(t) PROVE ManagerInv'
<1> DEFINE c == call[t]
           h == {Instance(n) : n \in P!Loaded} \ {P!NoObject}
<1>1. /\ c.op = "unloadAll" /\ c.at = "take" /\ c = call[t]
      /\ UNCHANGED <<dir, metadata_cache_, object, dying>>
      /\ loaded_plugins_' = <<>>
      /\ P!Goto(t, [c EXCEPT !.at = "destroy", !.held = h])
  BY DEF P!UnloadAllTakes, P!At, Instance
<1>2. /\ IsCall(c) /\ CallAt(c)
      /\ c.raced \/ Looked(c)
  BY <1>1, CallOf
<1>3. h = {Instance(n) : n \in P!Loaded} \ {P!NoObject}
  OBVIOUS
<1> HIDE DEF c, h
<1>4. PICK d : P!Goto(t, d) /\ d = [c EXCEPT !.at = "destroy", !.held = h]
  BY <1>1
<1>5. /\ IsCall(d) /\ d.op = c.op /\ d.held = h /\ d.alone = c.alone
      /\ d.raced = c.raced /\ d.at = "destroy" /\ d.ok = c.ok /\ d.todo = c.todo
  BY <1>2, <1>4 DEF IsCall
<1>6. c.held = {} /\ CallAt(d)
  BY <1>1, <1>2, <1>5 DEF CallAt
<1>7. Goes(t, FALSE) /\ call'[t] = d
  BY <1>4, <1>5, <1>6, OneCall DEF ManagerInv
<1>8. /\ P!Loaded' = P!Loaded \ P!Loaded /\ P!Loaded' = {}
      /\ loaded_plugins_' = [m \in P!Loaded \ P!Loaded |-> loaded_plugins_[m]]
  <2>1. DOMAIN loaded_plugins_' = {}
    BY <1>1, NoElement
  <2>2. \A f : <<>> = [m \in {} |-> f[m]]
    BY EmptyFunction
  <2>3. P!Loaded \ P!Loaded = {}
    OBVIOUS
  <2> QED
    BY <1>1, <2>1, <2>2, <2>3 DEF P!Loaded
<1>9. \A u \in Users \ {t} : call'[u].held = call[u].held
  BY <1>7 DEF Goes, OthersStay
<1>10. StoreInv' /\ \A x : P!InState(x)' = P!InState(x) \ P!Loaded
  BY <1>1, <1>3, <1>5, <1>6, <1>7, <1>8, <1>9, TakeKeeps DEF ManagerInv
<1>11. d.raced \/ Looked(d)'
  <2>1. ASSUME ~d.raced, NEW i \in d.held PROVE object[i] # "running"
    <3>1. PICK n \in P!Loaded : i = Instance(n)
      BY <1>3, <1>5, <2>1
    <3>2. i # P!NoObject /\ n \notin P!InState("Running")
      BY <1>1, <1>2, <1>3, <1>5, <2>1 DEF Looked
    <3> QED
      BY <3>1, <3>2 DEF ManagerInv, StoreInv, RecordsOwn, RecordAt
  <2> QED
    BY <1>1, <1>5, <2>1 DEF Looked
<1>12. (call'[t].raced \/ Looked(call[t])') /\ Batch(call[t])'
  BY <1>1, <1>5, <1>7, <1>8, <1>11 DEF Looked, Batch, Remains
<1>13. call[t].at # "idle" /\ (call'[t].alone => call[t].alone)
  BY <1>1, <1>5, <1>7
<1>14. HeldStays
  BY <1>1 DEF HeldStays
<1>15. P!InState("Running")' \subseteq P!InState("Running")
  BY <1>10
<1>16. dying => call'[t].op \in {"none", "unloadAll"} /\ P!Loaded' = {}
  BY <1>1, <1>5, <1>7, <1>8
<1> QED
  BY <1>1, <1>7, <1>10, <1>12, <1>13, <1>14, <1>15, <1>16, StepKeeps

\* The objects taken out are destroyed, one after the other.
LEMMA DestroyHeldKeeps == ASSUME ManagerInv, NEW t \in Users, P!DestroyHeld(t) PROVE ManagerInv'
<1> DEFINE c == call[t]
<1>1. /\ c.at = "destroy" /\ c = call[t]
      /\ UNCHANGED <<dir, metadata_cache_, loaded_plugins_, dying>>
  BY DEF P!DestroyHeld
<1>2. /\ IsCall(c) /\ CallAt(c)
      /\ c.raced \/ Looked(c)
      /\ c.alone => Batch(c)
      /\ dying => c.op = "unloadAll" /\ P!Loaded = {}
  BY <1>1, CallOf
<1>3. ASSUME c.held = {}, P!Return(t, TRUE), UNCHANGED object PROVE ManagerInv'
  <2>1. PICK d : P!Goto(t, d) /\ d = [c EXCEPT !.at = "returned", !.ok = TRUE]
    BY <1>3 DEF P!Return
  <2> HIDE DEF c
  <2>2. /\ IsCall(d) /\ d.op = c.op /\ d.held = c.held /\ d.alone = c.alone
        /\ d.raced = c.raced /\ d.at = "returned" /\ d.ok = TRUE /\ d.todo = c.todo
    BY <1>2, <2>1 DEF IsCall
  <2>3. CallAt(d) /\ c.op \in {"unload", "unloadAll"}
    BY <1>1, <1>2, <1>3, <2>2 DEF CallAt, P!Operations, P!NamedOps
  <2>4. Looked(d)
    BY <1>3, <2>2, <2>3 DEF Looked
  <2>5. d.alone => Batch(d)
    BY <1>1, <1>2, <2>2, <2>3 DEF Batch, Remains
  <2>6. d.held = call[t].held /\ call[t].at # "idle" /\ (d.alone => call[t].alone)
    BY <1>1, <2>2
  <2>7. dying => d.op \in {"none", "unloadAll"} /\ P!Loaded = {}
    BY <1>2, <2>2
  <2> QED
    BY <1>1, <1>3, <2>1, <2>2, <2>3, <2>4, <2>5, <2>6, <2>7, QuietKeeps
<1>4. ASSUME NEW i \in c.held, object' = [object EXCEPT ![i] = "destroyed"],
             P!Goto(t, [c EXCEPT !.held = @ \ {i}])
      PROVE  ManagerInv'
  <2>1. PICK d : P!Goto(t, d) /\ d = [c EXCEPT !.held = @ \ {i}]
    BY <1>4
  <2> HIDE DEF c
  <2>2. /\ IsCall(d) /\ d.op = c.op /\ d.held = c.held \ {i} /\ d.alone = c.alone
        /\ d.raced = c.raced /\ d.at = "destroy" /\ d.ok = c.ok /\ d.todo = c.todo
    BY <1>1, <1>2, <2>1 DEF IsCall
  <2>3. CallAt(d)
    BY <1>1, <1>2, <2>2 DEF CallAt
  <2>4. Goes(t, FALSE) /\ call'[t] = d
    BY <2>1, <2>2, <2>3, OneCall DEF ManagerInv
  <2>5. \A u \in Users \ {t} : call'[u].held = call[u].held
    BY <2>4 DEF Goes, OthersStay
  <2>6. /\ i \in Objects /\ object[i] # "destroyed"
        /\ \A n \in P!Loaded : Instance(n) # i
        /\ \A u \in Users \ {t} : i \notin call[u].held
    BY <1>1, <1>4 DEF ManagerInv, StoreInv, HeldOnce
  <2>7. /\ object' \in Seq(ObjectStates) /\ Objects' = Objects /\ object'[i] = "destroyed"
        /\ \A j \in Objects : j # i => object'[j] = object[j]
    BY <1>4, <2>6 DEF ManagerInv, StoreInv, StoreTypes, Objects, ObjectStates
  <2>8. P!Loaded' = P!Loaded /\ (\A x : P!InState(x)' = P!InState(x)) /\ \A n : Instance(n)' = Instance(n)
    BY <1>1 DEF P!Loaded, P!InState, Instance
  <2>9. StoreInv'
    <3>1. StoreTypes'
      BY <1>1, <2>7 DEF ManagerInv, StoreInv, StoreTypes, P!Loaded
    <3>2. RecordsOwn'
      <4>1. ASSUME NEW n \in P!Loaded PROVE RecordAt(n)'
        <5>1. RecordAt(n) /\ (Instance(n) = P!NoObject \/ object'[Instance(n)] = object[Instance(n)])
          BY <2>6, <2>7 DEF ManagerInv, StoreInv, RecordsOwn, RecordAt
        <5> QED
          BY <1>1, <2>7, <2>8, <5>1 DEF RecordAt
      <4> QED
        BY <2>8, <4>1 DEF ManagerInv, StoreInv, RecordsOwn
    <3>3. HeldOnce'
      <4> SUFFICES ASSUME NEW u \in Users, NEW j \in call'[u].held
                   PROVE  /\ j \in Objects /\ object'[j] # "destroyed"
                          /\ \A n \in P!Loaded : Instance(n) # j
                          /\ \A v \in Users : j \in call'[v].held => u = v
        BY <2>7, <2>8 DEF HeldOnce
      <4>1. j # i /\ j \in call[u].held
        BY <1>1, <2>2, <2>4, <2>5, <2>6
      <4>2. \A v \in Users : j \in call'[v].held => j \in call[v].held
        BY <1>1, <2>2, <2>4, <2>5
      <4> QED
        BY <2>7, <4>1, <4>2 DEF ManagerInv, StoreInv, HeldOnce
    <3>4. NoneLost'
      <4> SUFFICES ASSUME NEW j \in Objects, object'[j] # "destroyed"
                   PROVE  (\E n \in P!Loaded : Instance(n) = j) \/ \E u \in Users : j \in call'[u].held
        BY <2>7, <2>8 DEF NoneLost
      <4>1. j # i /\ object[j] # "destroyed"
        BY <2>7
      <4>2. \A u \in Users : j \in call[u].held => j \in call'[u].held
        BY <1>1, <2>2, <2>4, <2>5, <4>1
      <4> QED
        BY <4>1, <4>2 DEF ManagerInv, StoreInv, NoneLost
    <3> QED
      BY <3>1, <3>2, <3>3, <3>4 DEF StoreInv
  <2>10. \A u \in Users \ {t} : \A j \in call[u].held : object'[j] = object[j]
    BY <2>6, <2>7 DEF ManagerInv, StoreInv, HeldOnce
  <2>11. \A j \in c.held : j \in Objects
    BY <1>1 DEF ManagerInv, StoreInv, HeldOnce
  <2>12. d.raced \/ Looked(d)'
    BY <1>2, <2>2, <2>7, <2>11 DEF Looked
  <2>13. d.alone => Batch(d)'
    BY <1>1, <1>2, <2>2, <2>8 DEF Batch, Remains
  <2>14. (call'[t].raced \/ Looked(call[t])') /\ (call'[t].alone => Batch(call[t])')
    BY <2>4, <2>12, <2>13 DEF Looked, Batch, Remains
  <2>15. call[t].at # "idle" /\ (call'[t].alone => call[t].alone)
    BY <1>1, <2>2, <2>4
  <2>16. dying => call'[t].op \in {"none", "unloadAll"} /\ P!Loaded' = {}
    BY <1>2, <2>2, <2>4, <2>8
  <2>17. P!InState("Running")' \subseteq P!InState("Running")
    BY <2>8
  <2> QED
    BY <1>1, <2>4, <2>9, <2>10, <2>14, <2>15, <2>16, <2>17, MoveKeeps
<1> QED
  BY <1>3, <1>4 DEF P!DestroyHeld

\* A thread calls the manager: nobody else who is in a call is alone now.
LEMMA BeginKeeps ==
    ASSUME ManagerInv, NEW t \in Users, NEW op \in P!Operations, NEW n, P!Begin(t, op, n)
    PROVE  ManagerInv'
<1> DEFINE a == \A v \in Users \ {t} : call[v].at = "idle"
           d == call'[t]
<1>1. /\ call[t].at = "idle" /\ ~dying
      /\ UNCHANGED <<dir, metadata_cache_, loaded_plugins_, object, dying>>
      /\ call' = [u \in Users |-> call'[u]]
      /\ d = [P!Idle EXCEPT !.op = op, !.at = "begin", !.name = n, !.alone = a]
      /\ \A u \in Users \ {t} : call'[u] = [call[u] EXCEPT !.alone = call[u].at = "idle"]
  BY DEF P!Begin
<1>2. CallTypes
  BY DEF ManagerInv
<1>3. /\ IsCall(d) /\ d.op = op /\ d.at = "begin" /\ d.held = {} /\ d.todo = <<>>
      /\ d.ok = TRUE /\ d.raced = FALSE
      /\ d.alone \in BOOLEAN /\ (d.alone <=> \A v \in Users \ {t} : call[v].at = "idle")
  BY <1>1 DEF P!Idle, IsCall
<1> HIDE DEF d
<1>4. ASSUME NEW u \in Users \ {t}
      PROVE  /\ IsCall(call'[u])
             /\ call'[u].op = call[u].op /\ call'[u].at = call[u].at
             /\ call'[u].name = call[u].name /\ call'[u].todo = call[u].todo
             /\ call'[u].held = call[u].held /\ call'[u].ok = call[u].ok
             /\ call'[u].raced = call[u].raced
             /\ call'[u].alone \in BOOLEAN /\ (call'[u].alone <=> call[u].at = "idle")
  <2> DEFINE c == call[u]
             e == call'[u]
  <2>1. IsCall(c) /\ e = [c EXCEPT !.alone = c.at = "idle"]
    BY <1>1, <1>2 DEF CallTypes
  <2> HIDE DEF c, e
  <2>2. /\ IsCall(e) /\ e.op = c.op /\ e.at = c.at /\ e.name = c.name /\ e.todo = c.todo
        /\ e.held = c.held /\ e.ok = c.ok /\ e.raced = c.raced
        /\ e.alone = (c.at = "idle")
    BY <2>1 DEF IsCall
  <2> QED
    BY <2>2 DEF c, e
<1>5. d.todo \in Seq(Plugins)
  BY <1>3, NoElement
<1>6. CallAt(d)
  BY <1>3, <1>5 DEF CallAt, P!Operations, P!NamedOps
<1>7. ASSUME NEW u \in Users \ {t} PROVE CallAt(call'[u])
  <2>1. CallAt(call[u])
    BY <1>2 DEF CallTypes
  <2> QED
    BY <1>4, <2>1 DEF CallAt
<1>8. CallTypes'
  BY <1>1, <1>2, <1>3, <1>4, <1>6, <1>7 DEF CallTypes, d
<1>9. SameHeld
  <2>1. call[t].held = {}
    BY <1>1, <1>2 DEF CallTypes, CallAt
  <2>2. call'[t].held = {}
    BY <1>3 DEF d
  <2> QED
    BY <1>1, <1>4, <2>1, <2>2 DEF SameHeld
<1>10. StoreInv' /\ P!Loaded' = P!Loaded /\ \A x : P!InState(x)' = P!InState(x)
  BY <1>1, <1>9, SameStore DEF ManagerInv
<1>11. LookedAt'
  <2> SUFFICES ASSUME NEW u \in Users, ~call'[u].raced PROVE Looked(call[u])'
    BY DEF LookedAt
  <2>1. CASE u = t
    BY <1>3, <2>1 DEF Looked, d
  <2>2. CASE u # t
    <3>1. Looked(call[u])
      BY <1>4, <2>2 DEF ManagerInv, LookedAt
    <3> QED
      BY <1>1, <1>4, <1>10, <2>2, <3>1 DEF Looked
  <2> QED
    BY <2>1, <2>2
<1>12. LastCall'
  BY <1>1 DEF LastCall
<1>13. AloneInBatch'
  <2>1. Batch(call[t])'
    BY <1>3 DEF Batch, Remains, d
  <2>2. call'[t].alone => \A u \in Users \ {t} : call'[u].at = "idle"
    BY <1>3, <1>4 DEF d
  <2>3. \A u \in Users \ {t} : ~(call'[u].alone /\ call'[u].at # "idle")
    BY <1>4
  <2> QED
    BY <2>1, <2>2, <2>3 DEF AloneInBatch
<1> QED
  BY <1>8, <1>10, <1>11, <1>12, <1>13 DEF ManagerInv

\* The destructor begins when nobody is in a call.
LEMMA DestroyKeeps == ASSUME P!ManagerAssumption, ManagerInv, P!Destroy PROVE ManagerInv'
<1> DEFINE d == [P!Idle EXCEPT !.op = "unloadAll", !.at = "begin"]
<1>1. /\ \A t \in Users : call[t].at = "idle"
      /\ dying' = TRUE /\ P!Goto(Owner, d)
      /\ UNCHANGED <<dir, metadata_cache_, loaded_plugins_, object>>
      /\ Owner \in Users
  BY DEF P!Destroy, P!ManagerAssumption
<1>2. /\ IsCall(d) /\ d.op = "unloadAll" /\ d.at = "begin" /\ d.held = {} /\ d.todo = <<>>
      /\ d.ok = TRUE /\ d.raced = FALSE /\ d.alone = TRUE
  BY DEF P!Idle, IsCall
<1> HIDE DEF d
<1>3. CallAt(d)
  BY <1>2, NoElement DEF CallAt, P!Operations, P!NamedOps
<1>4. Goes(Owner, FALSE) /\ call'[Owner] = d
  BY <1>1, <1>2, <1>3, OneCall DEF ManagerInv
<1>5. \A u \in Users \ {Owner} :
          /\ IsCall(call'[u]) /\ call'[u].at = call[u].at /\ call'[u].held = call[u].held
          /\ call'[u] = call[u]
  BY <1>1, <1>4 DEF Goes, OthersStay, P!Goto, ManagerInv, CallTypes
<1>6. CallTypes'
  BY <1>1, <1>3, <1>4, <1>5 DEF ManagerInv, CallTypes, Goes
<1>7. SameHeld
  <2>1. call[Owner].held = {}
    BY <1>1 DEF ManagerInv, CallTypes, CallAt
  <2> QED
    BY <1>1, <1>2, <1>4, <1>5, <2>1 DEF SameHeld
<1>8. StoreInv' /\ P!Loaded' = P!Loaded /\ \A x : P!InState(x)' = P!InState(x)
  BY <1>1, <1>7, SameStore DEF ManagerInv
<1>9. LookedAt'
  <2> SUFFICES ASSUME NEW u \in Users, ~call'[u].raced PROVE Looked(call[u])'
    BY DEF LookedAt
  <2>1. CASE u = Owner
    BY <1>2, <1>4, <2>1 DEF Looked
  <2>2. CASE u # Owner
    <3>1. Looked(call[u])
      BY <1>5, <2>2 DEF ManagerInv, LookedAt
    <3> QED
      BY <1>1, <1>5, <1>8, <2>2, <3>1 DEF Looked
  <2> QED
    BY <2>1, <2>2
<1>10. LastCall'
  BY <1>1, <1>2, <1>4, <1>5 DEF LastCall
<1>11. AloneInBatch'
  <2>1. Batch(call[Owner])'
    BY <1>2, <1>4 DEF Batch, Remains
  <2> QED
    BY <1>1, <1>5, <2>1 DEF AloneInBatch
<1> QED
  BY <1>6, <1>8, <1>9, <1>10, <1>11 DEF ManagerInv

\* The other parts of the program, and a step that changes nothing.
LEMMA UnchangedKeeps == ASSUME ManagerInv, UNCHANGED managerVars PROVE ManagerInv'
<1>1. UNCHANGED <<dir, metadata_cache_, loaded_plugins_, object, call, calls, dying>>
  BY DEF managerVars
<1>2. SameHeld
  BY <1>1 DEF SameHeld
<1>3. StoreInv' /\ P!Loaded' = P!Loaded /\ \A x : P!InState(x)' = P!InState(x)
  BY <1>1, <1>2, SameStore DEF ManagerInv
<1>4. CallTypes'
  BY <1>1 DEF ManagerInv, CallTypes
<1>5. LookedAt'
  BY <1>1, <1>3 DEF ManagerInv, LookedAt, Looked
<1>6. LastCall' /\ AloneInBatch'
  BY <1>1, <1>3 DEF ManagerInv, LastCall, AloneInBatch, Batch, Remains
<1> QED
  BY <1>3, <1>4, <1>5, <1>6 DEF ManagerInv

LEMMA InitManager == ASSUME P!Init PROVE ManagerInv
<1>1. /\ DOMAIN loaded_plugins_ = {} /\ DOMAIN metadata_cache_ = {} /\ object \in Seq(ObjectStates)
      /\ DOMAIN object = {} /\ loaded_plugins_ = [m \in {} |-> P!Idle[m]]
  BY NoElement, EmptyFunction DEF P!Init
<1>2. Objects = {}
  <2>1. DOMAIN object = 1 .. Len(object)
    BY <1>1, LenProperties
  <2> QED
    BY <1>1, <2>1 DEF Objects
<1>3. /\ dir \in Directories /\ dying = FALSE /\ P!Loaded = {}
      /\ call = [t \in Users |-> P!Idle]
  BY <1>1 DEF P!Init, P!Loaded
<1>4. StoreInv
  BY <1>1, <1>2, <1>3
  DEF StoreInv, StoreTypes, RecordsOwn, HeldOnce, NoneLost, P!Loaded, P!Idle
<1>5. IsCall(P!Idle) /\ P!Idle.op = "none" /\ P!Idle.at = "idle" /\ P!Idle.held = {}
  BY DEF P!Idle, IsCall
<1>6. CallAt(P!Idle)
  BY DEF P!Idle, CallAt
<1>7. CallTypes
  BY <1>3, <1>5, <1>6 DEF CallTypes
<1>8. LookedAt /\ LastCall /\ AloneInBatch
  BY <1>3, <1>5 DEF LookedAt, Looked, LastCall, AloneInBatch
<1> QED
  BY <1>4, <1>7, <1>8 DEF ManagerInv

\* Every step of the manager keeps the invariant.
LEMMA NextManager == ASSUME P!ManagerAssumption, ManagerInv, P!Next PROVE ManagerInv'
<1>1. ASSUME NEW t \in Users, P!Calls(t) PROVE ManagerInv'
  <2>1. Menu[t] \subseteq P!Operations
    BY DEF P!ManagerAssumption
  <2> QED
    BY <1>1, <2>1, BeginKeeps DEF P!Calls
<1>2. ASSUME NEW t \in Users, P!Step(t) PROVE ManagerInv'
  BY <1>2, FinishKeeps, SingleKeeps, UnloadLookKeeps, UnloadStopKeeps, UnloadTakeKeepsIt,
     DestroyHeldKeeps, StartAllCollectsKeeps, StopAllCollectsKeeps, LoadAllScansKeeps,
     LoadAllOrdersKeeps, BatchStepKeeps, BatchEndKeeps, UnloadAllTakesKeeps, RequestLooksKeeps,
     RequestStepKeeps DEF P!Step
<1>3. ASSUME UNCHANGED P!vars PROVE ManagerInv'
  BY <1>3, UnchangedKeeps DEF P!vars, managerVars
<1> QED
  BY <1>1, <1>2, <1>3, DestroyKeeps DEF P!Next

\* The plugin manager's invariant, whatever the threads call in whatever order.
THEOREM ManagerInvariant == RobotSpec => []ManagerInv
<1> USE RobotAssumption DEF RobotAssumption
<1>1. RobotInit => ManagerInv
  BY InitManager DEF RobotInit
<1>2. ManagerInv /\ [RobotNext]_robotVars => ManagerInv'
  BY NextManager, UnchangedKeeps DEF RobotNext, robotVars
<1> QED
  BY <1>1, <1>2, PTL DEF RobotSpec

LEMMA OneOwnerHolds == ASSUME ManagerInv PROVE P!OneOwner
<1> DEFINE records(i) == {n \in P!Loaded : loaded_plugins_[n].instance = i}
           holders(i) == {t \in Users : i \in call[t].held}
<1> SUFFICES ASSUME NEW i \in DOMAIN object
             PROVE  P!Cardinality(records(i)) + P!Cardinality(holders(i))
                        = IF object[i] = "destroyed" THEN 0 ELSE 1
  BY DEF P!OneOwner
<1>1. i \in Objects /\ i # P!NoObject
  BY DEF ManagerInv, StoreInv, StoreTypes, Objects, P!NoObject
<1>2. CASE object[i] = "destroyed"
  <2>1. records(i) = {} /\ holders(i) = {}
    BY <1>1, <1>2 DEF ManagerInv, StoreInv, RecordsOwn, RecordAt, Instance, HeldOnce
  <2> HIDE DEF records, holders
  <2> QED
    BY <1>2, <2>1, SameCardinality, FS_EmptySet
<1>3. CASE object[i] # "destroyed"
  <2>1. ASSUME NEW n \in P!Loaded, Instance(n) = i PROVE records(i) = {n} /\ holders(i) = {}
    BY <1>1, <2>1 DEF ManagerInv, StoreInv, RecordsOwn, Instance, HeldOnce
  <2>2. ASSUME NEW t \in Users, i \in call[t].held PROVE holders(i) = {t} /\ records(i) = {}
    BY <1>1, <2>2 DEF ManagerInv, StoreInv, Instance, HeldOnce
  <2> HIDE DEF records, holders
  <2>3. \/ \E n : records(i) = {n} /\ holders(i) = {}
        \/ \E t : holders(i) = {t} /\ records(i) = {}
    BY <1>1, <1>3, <2>1, <2>2 DEF ManagerInv, StoreInv, NoneLost
  <2>4. P!Cardinality({}) = 0 /\ \A x : P!Cardinality({x}) = 1
    BY SameCardinality, FS_EmptySet, FS_Singleton
  <2>5. \/ P!Cardinality(records(i)) = 1 /\ P!Cardinality(holders(i)) = 0
        \/ P!Cardinality(records(i)) = 0 /\ P!Cardinality(holders(i)) = 1
    BY <2>3, <2>4, Zenon
  <2> QED
    BY <1>3, <2>5
<1> QED
  BY <1>2, <1>3

\* PluginsSound: a plugin object that is alive belongs to one record or to one
\* thread that destroys it, whatever loads, unloads and batch operations do to
\* each other; and the destructor leaves none.
THEOREM PluginsAreSound == RobotSpec => []PluginsSound
<1>1. ASSUME ManagerInv PROVE P!TypeOK
  <2>1. \A n \in P!Loaded : loaded_plugins_[n].instance \in 0 .. Len(object)
    BY <1>1 DEF ManagerInv, StoreInv, StoreTypes, RecordsOwn, RecordAt, Instance, Objects, P!NoObject
  <2>2. P!Range(object) \subseteq ObjectStates
    BY <1>1 DEF ManagerInv, StoreInv, StoreTypes, P!Range
  <2>3. \A t \in Users : call[t].held \subseteq 1 .. Len(object)
    BY <1>1 DEF ManagerInv, StoreInv, HeldOnce, Objects
  <2>4. /\ dir \in Directories /\ DOMAIN metadata_cache_ \subseteq Plugins /\ P!Loaded \subseteq Plugins
        /\ \A n \in P!Loaded : loaded_plugins_[n].state \in P!States
        /\ dying \in BOOLEAN
    BY <1>1 DEF ManagerInv, StoreInv, StoreTypes, CallTypes
  <2> QED
    BY <2>1, <2>2, <2>3, <2>4 DEF P!TypeOK, ObjectStates
<1>2. ASSUME ManagerInv, P!Gone PROVE P!Range(object) \subseteq {"destroyed"}
  <2>1. P!Loaded = {} /\ \A t \in Users : call[t].held = {}
    BY <1>2 DEF P!Gone, ManagerInv, LastCall, CallTypes, CallAt
  <2>2. \A i \in Objects : object[i] = "destroyed"
    BY <1>2, <2>1 DEF ManagerInv, StoreInv, NoneLost
  <2> QED
    BY <1>2, <2>2 DEF P!Range, Objects, ManagerInv, StoreInv, StoreTypes
<1>3. ManagerInv => PluginsSound
  BY <1>1, <1>2, OneOwnerHolds DEF PluginsSound, P!NothingOutlivesManager
<1> QED
  BY <1>3, ManagerInvariant, PTL

\* A running plugin is stopped before it is destroyed, unless another thread
\* started it after unloadPlugin or unloadAll had looked.
THEOREM StopsBeforeUnload == RobotSpec => P!StopPrecedesUnload
<1>1. ManagerInv => (\A t \in Users : \A i \in call[t].held :
                        object[i] = "running" /\ object'[i] = "destroyed" => call[t].raced)
  BY DEF ManagerInv, LookedAt, Looked
<1> QED
  BY <1>1, ManagerInvariant, PTL DEF P!StopPrecedesUnload

-----------------------------------------------------------------------------
(* The event bus.  Every subscription has a number of its own, below the      *)
(* next; no number that was given up comes back.  While anybody publishes     *)
(* nobody writes, so what a publish has called is where its event's list      *)
(* begins.                                                                     *)

HandlerKinds == Kinds \cup {"plain"}
Subscription == [id : Nat, kind : HandlerKinds]
Frame == [event : Events, called : Seq(Nat)]

\* A list of handlers: their numbers were given out and not given up.
Live(s, next, gone) ==
    /\ s \in Seq(Subscription)
    /\ \A i \in DOMAIN s : s[i].id < next /\ s[i].id \notin gone

WriteOK(w) ==
    /\ w.op = "subscribe" => w.event \in Events /\ w.kind \in HandlerKinds
    /\ w.op = "unsubscribe" => w.id \in Nat /\ w.id < next_id_

\* A publish that is under way has called the first of its event's handlers.
Calling(f) ==
    LET s == S!Subscribers(f.event)
    IN /\ f \in Frame
       /\ Len(f.called) <= Len(s)
       /\ \A i \in 1 .. Len(f.called) : f.called[i] = s[i].id

HandlersLive ==
    /\ next_id_ \in Nat
    /\ DOMAIN handlers_ \subseteq Events
    /\ \A e \in DOMAIN handlers_ : Live(handlers_[e], next_id_, removed)
    /\ \A i \in removed : i \in Nat /\ i < next_id_

WritesOK ==
    /\ writer = [t \in Users |-> writer[t]]
    /\ \A t \in Users : WriteOK(writer[t])

Publishes(q) == q \in Seq(Frame) /\ \A k \in DOMAIN q : Calling(q[k])

AllPublish(fs) ==
    /\ fs = [t \in Users |-> fs[t]]
    /\ \A t \in Users : Publishes(fs[t])

BusInv == HandlersLive /\ WritesOK /\ AllPublish(frames)

\* The registry: the two maps agree.
RegistryInv ==
    /\ DOMAIN services_ = DOMAIN type_ids_
    /\ DOMAIN services_ \subseteq ServiceNames
    /\ \A n \in DOMAIN services_ : services_[n] \in ServiceTypes /\ services_[n] = type_ids_[n]
    /\ S!TypedPointers
    /\ ops \in 0 .. MaxOps

ServicesInv == BusInv /\ RegistryInv

-----------------------------------------------------------------------------
(* What remove_if leaves.  The function it is written with exists: for a      *)
(* list cut off at every length, else there were a shortest one without it.   *)

Kept(g, s, id, m) ==
    g = [n \in 0 .. m |->
            IF n = 0 THEN <<>>
            ELSE IF s[n].id = id THEN g[n - 1] ELSE Append(g[n - 1], s[n])]

LEMMA KeptExists ==
    ASSUME NEW s, NEW id, NEW m \in Nat
    PROVE  \E g : Kept(g, s, id, m)
<1> DEFINE Without(n) == ~\E g : Kept(g, s, id, n)
           T == {n \in Nat : Without(n)}
<1> SUFFICES ASSUME T # {} PROVE FALSE
  OBVIOUS
<1> HIDE DEF Without
<1>1. PICK n \in T : \A k \in T : n <= k
  BY Least
<1> USE DEF Without
<1>2. n # 0
  <2>1. Kept([k \in 0 .. 0 |-> <<>>], s, id, 0)
    BY DEF Kept
  <2> QED
    BY <2>1
<1>3. n - 1 \in Nat /\ n - 1 \notin T
  BY <1>1, <1>2
<1>4. PICK g : Kept(g, s, id, n - 1)
  BY <1>3
<1> DEFINE next(k, f) == IF s[k].id = id THEN f[k - 1] ELSE Append(f[k - 1], s[k])
           h == [k \in 0 .. n |-> IF k = n THEN next(n, g) ELSE g[k]]
<1>5. \A k \in 0 .. n - 1 : h[k] = g[k]
  BY <1>3
<1>6. g = [k \in 0 .. n - 1 |-> IF k = 0 THEN <<>> ELSE next(k, g)]
  BY <1>4 DEF Kept
<1>7. ASSUME NEW k \in 0 .. n, k # 0 PROVE next(k, g) = next(k, h)
  BY <1>5, <1>7
<1>8. h = [k \in 0 .. n |-> IF k = 0 THEN <<>> ELSE next(k, g)]
  <2>1. \A k \in 0 .. n - 1 : g[k] = IF k = 0 THEN <<>> ELSE next(k, g)
    BY <1>6, Zenon
  <2> HIDE DEF next
  <2>2. \A k \in 0 .. n : k = n \/ k \in 0 .. n - 1
    OBVIOUS
  <2> QED
    BY <1>2, <2>1, <2>2
<1>9. h = [k \in 0 .. n |-> IF k = 0 THEN <<>> ELSE next(k, h)]
  <2> HIDE DEF h, next
  <2> QED
    BY <1>7, <1>8
<1>10. Kept(h, s, id, n)
  BY <1>9, Zenon DEF Kept
<1> QED
  BY <1>10

\* unsubscribe leaves handlers of the list, and none with that number.
LEMMA WithoutKeeps ==
    ASSUME NEW X, NEW s \in Seq(X), NEW id
    PROVE  LET r == S!Without(s, id)
           IN /\ r \in Seq(X)
              /\ \A i \in DOMAIN r : r[i].id # id /\ \E j \in DOMAIN s : r[i] = s[j]
<1> DEFINE f == CHOOSE g : Kept(g, s, id, Len(s))
           Y == {x \in X : x.id # id /\ \E j \in DOMAIN s : x = s[j]}
<1>1. Len(s) \in Nat /\ DOMAIN s = 1 .. Len(s) /\ \A i \in DOMAIN s : s[i] \in X
  BY LenProperties, ElementOfSeq
<1>2. S!Without(s, id) = f[Len(s)]
  BY DEF S!Without, Kept
<1>3. Kept(f, s, id, Len(s))
  BY <1>1, KeptExists
<1> HIDE DEF f
<1>4. /\ f[0] = <<>>
      /\ \A n \in 1 .. Len(s) :
            /\ s[n].id = id => f[n] = f[n - 1]
            /\ s[n].id # id => f[n] = Append(f[n - 1], s[n])
  <2> DEFINE next(n) == IF s[n].id = id THEN f[n - 1] ELSE Append(f[n - 1], s[n])
  <2>1. \A n \in 0 .. Len(s) : f[n] = IF n = 0 THEN <<>> ELSE next(n)
    BY <1>3, Zenon DEF Kept
  <2> HIDE DEF next
  <2>2. f[0] = <<>> /\ \A n \in 1 .. Len(s) : f[n] = next(n)
    BY <1>1, <2>1
  <2> QED
    BY <2>2 DEF next
<1> DEFINE T == {n \in 0 .. Len(s) : f[n] \notin Seq(Y)}
<1>5. ASSUME NEW n \in T, \A k \in T : n <= k PROVE FALSE
  <2>1. n # 0
    BY <1>4, NoElement
  <2>2. n \in 1 .. Len(s) /\ n - 1 \in 0 .. Len(s) /\ n - 1 \notin T
    BY <1>1, <1>5, <2>1
  <2>3. f[n - 1] \in Seq(Y)
    BY <2>2
  <2>4. CASE s[n].id = id
    BY <1>4, <2>2, <2>3, <2>4
  <2>5. CASE s[n].id # id
    <3>1. s[n] \in Y
      BY <1>1, <2>2, <2>5
    <3> HIDE DEF Y
    <3>2. Append(f[n - 1], s[n]) \in Seq(Y)
      BY <2>3, <3>1, AddLast
    <3> QED
      BY <1>4, <2>2, <2>5, <3>2
  <2> QED
    BY <2>4, <2>5
<1>6. T = {}
  <2>1. T \subseteq Nat
    BY <1>1
  <2> HIDE DEF T
  <2> QED
    BY <1>5, <2>1, Least
<1>7. f[Len(s)] \in Seq(Y)
  BY <1>1, <1>6
<1> DEFINE r == f[Len(s)]
<1>8. \A i \in DOMAIN r : r[i] \in Y
  <2> HIDE DEF Y
  <2> QED
    BY <1>7, ElementOfSeq
<1>9. r \in Seq(X)
  BY <1>7, SeqMonotonic
<1> QED
  BY <1>2, <1>8, <1>9

-----------------------------------------------------------------------------
(* The publishes a thread is in                                               *)

\* The handlers of an event, if any.
LEMMA SubscribersLive ==
    ASSUME HandlersLive, NEW e
    PROVE  /\ Live(S!Subscribers(e), next_id_, removed)
           /\ Len(S!Subscribers(e)) \in Nat
           /\ DOMAIN S!Subscribers(e) = 1 .. Len(S!Subscribers(e))
<1>1. Live(<<>>, next_id_, removed)
  BY NoElement DEF Live
<1>2. Live(S!Subscribers(e), next_id_, removed)
  BY <1>1 DEF S!Subscribers, HandlersLive
<1> QED
  BY <1>2, LenProperties DEF Live

\* Only one thread's stack is another one.
LEMMA StackKeeps ==
    ASSUME NEW fs, AllPublish(fs), NEW t \in Users, NEW q, Publishes(q)
    PROVE  /\ AllPublish([fs EXCEPT ![t] = q])
           /\ [fs EXCEPT ![t] = q][t] = q
           /\ \A u \in Users \ {t} : [fs EXCEPT ![t] = q][u] = fs[u]
BY DEF AllPublish

\* A stack grows by a publish that has called nobody yet.
LEMMA EnterKeeps ==
    ASSUME HandlersLive, NEW q, Publishes(q), NEW e \in Events
    PROVE  LET f == [event |-> e, called |-> <<>>]
           IN /\ Publishes(Append(q, f))
              /\ Len(Append(q, f)) = Len(q) + 1
              /\ \A k \in 1 .. Len(q) : Append(q, f)[k] = q[k]
<1> DEFINE f == [event |-> e, called |-> <<>>]
<1>1. f \in Frame /\ Len(f.called) = 0
  BY NoElement DEF Frame
<1>2. Calling(f)
  BY <1>1, SubscribersLive DEF Calling
<1> HIDE DEF f
<1>3. q \in Seq(Frame) /\ DOMAIN q = 1 .. Len(q) /\ Len(q) \in Nat
  BY LenProperties DEF Publishes
<1>4. /\ Append(q, f) \in Seq(Frame) /\ DOMAIN Append(q, f) = 1 .. Len(q) + 1
      /\ Append(q, f)[Len(q) + 1] = f /\ \A k \in 1 .. Len(q) : Append(q, f)[k] = q[k]
      /\ Len(Append(q, f)) = Len(q) + 1
  BY <1>1, <1>3, AddLast
<1>5. \A k \in 1 .. Len(q) + 1 : k = Len(q) + 1 \/ k \in 1 .. Len(q)
  BY <1>3
<1>6. Publishes(Append(q, f))
  BY <1>2, <1>3, <1>4, <1>5 DEF Publishes
<1> QED
  BY <1>4, <1>6 DEF f

\* The innermost publish calls the next handler.
Calls(q, x) == [q EXCEPT ![Len(q)].called = Append(@, x)]

LEMMA CallKeeps ==
    ASSUME HandlersLive, NEW q, Publishes(q), q # <<>>,
           Len(q[Len(q)].called) < Len(S!Subscribers(q[Len(q)].event))
    PROVE  LET f == q[Len(q)]
               s == S!Subscribers(f.event)
               x == s[Len(f.called) + 1].id
               r == Calls(q, x)
           IN /\ f.event \in Events /\ x \notin removed
              /\ s[Len(f.called) + 1].kind \in HandlerKinds
              /\ Publishes(r) /\ Len(r) = Len(q) /\ Len(q) \in Nat \ {0}
              /\ r[Len(q)].called = Append(f.called, x)
              /\ Len(f.called) \in Nat
              /\ Len(r[Len(q)].called) = Len(f.called) + 1
              /\ r[Len(q)].called[Len(f.called) + 1] = x
<1> DEFINE n == Len(q)
           f == q[n]
           s == S!Subscribers(f.event)
           m == Len(f.called)
           x == s[m + 1].id
           g == [f EXCEPT !.called = Append(@, x)]
           r == Calls(q, x)
<1>1. q \in Seq(Frame) /\ DOMAIN q = 1 .. n /\ n \in Nat /\ n # 0
  BY LenProperties, EmptySeq DEF Publishes
<1>2. f \in Frame /\ Calling(f)
  BY <1>1, ElementOfSeq DEF Publishes
<1>3. f.called \in Seq(Nat) /\ m \in Nat /\ f.event \in Events
  BY <1>2, LenProperties DEF Frame
<1>4. Live(s, next_id_, removed) /\ DOMAIN s = 1 .. Len(s) /\ Len(s) \in Nat
  BY SubscribersLive
<1>5. m < Len(s)
  OBVIOUS
<1> HIDE DEF s
<1>6. m + 1 \in DOMAIN s
  BY <1>3, <1>4, <1>5
<1>7. s[m + 1] \in Subscription
  BY <1>4, <1>6, ElementOfSeq DEF Live
<1>8. x \in Nat /\ x \notin removed /\ s[m + 1].kind \in HandlerKinds
  BY <1>4, <1>6, <1>7 DEF Live, Subscription
<1> HIDE DEF x
<1>9. g.called = Append(f.called, x) /\ g.event = f.event
  BY <1>2 DEF Frame
<1>10. /\ Append(f.called, x) \in Seq(Nat) /\ Len(Append(f.called, x)) = m + 1
       /\ Append(f.called, x)[m + 1] = x
       /\ \A i \in 1 .. m : Append(f.called, x)[i] = f.called[i]
  BY <1>3, <1>8, AddLast
<1>11. g \in Frame
  BY <1>2, <1>9, <1>10 DEF Frame
<1>12. Calling(g)
  <2>1. \A i \in 1 .. m : f.called[i] = s[i].id
    BY <1>2 DEF Calling, s
  <2>2. \A i \in 1 .. m + 1 : i = m + 1 \/ i \in 1 .. m
    BY <1>3
  <2>3. \A i \in 1 .. m + 1 : g.called[i] = s[i].id
    BY <1>9, <1>10, <2>1, <2>2 DEF x
  <2>4. m + 1 <= Len(s)
    BY <1>3, <1>4, <1>5
  <2> QED
    BY <1>9, <1>10, <1>11, <2>3, <2>4 DEF Calling, s
<1>13. r = [q EXCEPT ![n] = g]
  BY <1>1 DEF Calls
<1> HIDE DEF f, g, r
<1>14. r \in Seq(Frame) /\ Len(r) = n /\ r[n] = g /\ \A k \in 1 .. n : k # n => r[k] = q[k]
  BY <1>1, <1>11, <1>13, ExceptSeq
<1>15. DOMAIN r = 1 .. n
  BY <1>14, LenProperties
<1>16. Publishes(r)
  BY <1>1, <1>12, <1>14, <1>15 DEF Publishes
<1> QED
  BY <1>1, <1>3, <1>8, <1>9, <1>10, <1>14, <1>16 DEF f, r, x, s

\* The innermost publish ends: it has called every handler.
LEMMA LeaveKeeps ==
    ASSUME HandlersLive, NEW q, Publishes(q), q # <<>>,
           Len(q[Len(q)].called) = Len(S!Subscribers(q[Len(q)].event))
    PROVE  LET f == q[Len(q)]
               s == S!Subscribers(f.event)
               r == SubSeq(q, 1, Len(q) - 1)
           IN /\ Publishes(r)
              /\ Len(q) \in Nat /\ Len(r) = Len(q) - 1
              /\ f.called = [i \in DOMAIN s |-> s[i].id]
<1> DEFINE n == Len(q)
           f == q[n]
           s == S!Subscribers(f.event)
           r == SubSeq(q, 1, n - 1)
<1>1. q \in Seq(Frame) /\ DOMAIN q = 1 .. n /\ n \in Nat /\ n # 0 /\ \A k \in 1 .. n : q[k] \in Frame
  BY LenProperties, EmptySeq, ElementOfSeq DEF Publishes
<1>2. f \in Frame /\ Calling(f)
  BY <1>1 DEF Publishes
<1>3. f.called \in Seq(Nat) /\ DOMAIN f.called = 1 .. Len(f.called)
      /\ f.called = [i \in 1 .. Len(f.called) |-> f.called[i]]
  <2>1. f.called \in Seq(Nat)
    BY <1>2 DEF Frame
  <2> HIDE DEF f
  <2> QED
    BY <2>1, LenProperties
<1>4. DOMAIN s = 1 .. Len(s)
  BY SubscribersLive
<1>5. f.called = [i \in DOMAIN s |-> s[i].id]
  BY <1>2, <1>3, <1>4 DEF Calling
<1> HIDE DEF f, s
<1>6. /\ r \in Seq(Frame) /\ Len(r) = n - 1 /\ DOMAIN r = 1 .. n - 1
      /\ \A k \in 1 .. n - 1 : r[k] = q[k]
  <2> HIDE DEF n
  <2>1. \A k \in 1 .. n - 1 : q[k] \in Frame
    BY <1>1
  <2>2. /\ SubSeq(q, 1, n - 1) \in Seq(Frame)
        /\ Len(SubSeq(q, 1, n - 1)) = IF 1 <= n - 1 THEN n - 1 - 1 + 1 ELSE 0
        /\ \A k \in 1 .. n - 1 - 1 + 1 : SubSeq(q, 1, n - 1)[k] = q[1 + k - 1]
    BY <1>1, <2>1, SubSeqProperties
  <2>3. Len(r) = n - 1 /\ \A k \in 1 .. n - 1 : r[k] = q[k]
    BY <1>1, <2>2
  <2> QED
    BY <2>2, <2>3, LenProperties
<1>7. Publishes(r)
  BY <1>1, <1>6 DEF Publishes
<1> QED
  BY <1>1, <1>5, <1>6, <1>7 DEF f, s

-----------------------------------------------------------------------------
(* The steps of the bus                                                       *)

LEMMA BusStays ==
    ASSUME BusInv, UNCHANGED <<handlers_, next_id_, frames, writer, removed>>
    PROVE  BusInv'
BY DEF BusInv, HandlersLive, Live, WritesOK, WriteOK, AllPublish, Publishes, Calling, S!Subscribers

\* A thread waits to write.
LEMMA AskKeeps ==
    ASSUME BusInv, NEW t \in Users, NEW w, WriteOK(w),
           writer' = [writer EXCEPT ![t] = w],
           UNCHANGED <<handlers_, next_id_, removed>>, AllPublish(frames)'
    PROVE  BusInv'
<1>1. HandlersLive'
  BY DEF BusInv, HandlersLive, Live
<1>2. WritesOK'
  BY DEF BusInv, WritesOK, WriteOK
<1> QED
  BY <1>1, <1>2 DEF BusInv

LEMMA WritesAsk == ASSUME NEW w \in S!Writes PROVE WriteOK(w)
BY DEF S!Writes, WriteOK, HandlerKinds

\* A thread writes while nobody publishes.
LEMMA WroteKeeps ==
    ASSUME BusInv, NEW t \in Users, S!NoReader, S!Wrote(t), HandlersLive',
           next_id_' >= next_id_, next_id_ \in Nat, next_id_' \in Nat
    PROVE  BusInv'
<1>1. writer' = [writer EXCEPT ![t] = S!NoWrite] /\ frames' = frames
  BY DEF S!Wrote
<1>2. WriteOK(S!NoWrite)'
  BY DEF WriteOK, S!NoWrite
<1>3. ASSUME NEW w, WriteOK(w) PROVE WriteOK(w)'
  BY <1>3 DEF WriteOK
<1>4. WritesOK'
  BY <1>1, <1>2, <1>3 DEF BusInv, WritesOK
<1>5. AllPublish(frames)'
  BY <1>1, NoElement DEF BusInv, AllPublish, Publishes, S!NoReader
<1> QED
  BY <1>4, <1>5 DEF BusInv

LEMMA SubscribeKeeps == ASSUME BusInv, NEW t \in Users, S!subscribe(t) PROVE BusInv'
<1> DEFINE e == writer[t].event
           x == [id |-> next_id_, kind |-> writer[t].kind]
           s == S!Subscribers(e)
<1>1. /\ e \in Events /\ writer[t].kind \in HandlerKinds /\ next_id_ \in Nat
  BY DEF S!subscribe, BusInv, WritesOK, WriteOK, HandlersLive
<1>2. /\ S!NoReader /\ S!Wrote(t) /\ removed' = removed /\ next_id_' = next_id_ + 1
      /\ handlers_' = S!Put(handlers_, e, Append(s, x))
  BY DEF S!subscribe
<1>3. x \in Subscription /\ x.id = next_id_ /\ next_id_ \notin removed
  BY <1>1 DEF Subscription, BusInv, HandlersLive
<1>4. Live(s, next_id_, removed)
  BY SubscribersLive DEF BusInv
<1> HIDE DEF s, x, e
<1>5. ASSUME NEW l, Live(l, next_id_, removed) PROVE Live(l, next_id_', removed')
  <2>1. \A i \in DOMAIN l : l[i] \in Subscription
    BY <1>5, LenProperties, ElementOfSeq DEF Live
  <2>2. \A i \in DOMAIN l : l[i].id \in Nat
    BY <2>1 DEF Subscription
  <2> QED
    BY <1>1, <1>2, <1>5, <2>2 DEF Live
<1>6. Live(Append(s, x), next_id_', removed')
  <2>1. s \in Seq(Subscription)
    BY <1>4 DEF Live
  <2>2. /\ Append(s, x) \in Seq(Subscription) /\ DOMAIN Append(s, x) = 1 .. Len(s) + 1
        /\ Append(s, x)[Len(s) + 1] = x /\ \A i \in 1 .. Len(s) : Append(s, x)[i] = s[i]
        /\ DOMAIN s = 1 .. Len(s) /\ Len(s) \in Nat
    BY <1>3, <2>1, AddLast
  <2>3. \A i \in 1 .. Len(s) + 1 : i = Len(s) + 1 \/ i \in 1 .. Len(s)
    BY <2>2
  <2>4. Live(s, next_id_', removed')
    BY <1>4, <1>5
  <2> QED
    BY <1>1, <1>2, <1>3, <2>2, <2>3, <2>4 DEF Live
<1>7. HandlersLive'
  <2>1. /\ DOMAIN handlers_' = DOMAIN handlers_ \cup {e}
        /\ handlers_'[e] = Append(s, x)
        /\ \A d \in DOMAIN handlers_ : d # e => handlers_'[d] = handlers_[d]
    BY <1>2 DEF S!Put
  <2>2. \A d \in DOMAIN handlers_' : Live(handlers_'[d], next_id_', removed')
    BY <1>5, <1>6, <2>1 DEF BusInv, HandlersLive
  <2>3. \A i \in removed' : i \in Nat /\ i < next_id_'
    BY <1>1, <1>2 DEF BusInv, HandlersLive
  <2> QED
    BY <1>1, <1>2, <2>1, <2>2, <2>3 DEF BusInv, HandlersLive
<1> QED
  BY <1>1, <1>2, <1>7, WroteKeeps

LEMMA UnsubscribeKeeps == ASSUME BusInv, NEW t \in Users, S!unsubscribe(t) PROVE BusInv'
<1> DEFINE x == writer[t].id
<1>1. x \in Nat /\ x < next_id_ /\ next_id_ \in Nat
  BY DEF S!unsubscribe, BusInv, WritesOK, WriteOK, HandlersLive
<1>2. /\ S!NoReader /\ S!Wrote(t) /\ removed' = removed \cup {x} /\ next_id_' = next_id_
      /\ handlers_' = [e \in DOMAIN handlers_ |-> S!Without(handlers_[e], x)]
  BY DEF S!unsubscribe
<1> HIDE DEF x
<1>3. ASSUME NEW e \in DOMAIN handlers_ PROVE Live(handlers_'[e], next_id_', removed')
  <2> DEFINE s == handlers_[e]
             r == S!Without(s, x)
  <2>1. Live(s, next_id_, removed)
    BY DEF BusInv, HandlersLive
  <2>2. s \in Seq(Subscription)
    BY <2>1 DEF Live
  <2>3. /\ r \in Seq(Subscription)
        /\ \A i \in DOMAIN r : r[i].id # x /\ \E j \in DOMAIN s : r[i] = s[j]
    BY <2>2, WithoutKeeps
  <2>4. handlers_'[e] = r
    BY <1>2
  <2> HIDE DEF s, r
  <2> QED
    BY <1>2, <2>1, <2>3, <2>4 DEF Live
<1>4. HandlersLive'
  BY <1>1, <1>2, <1>3 DEF BusInv, HandlersLive
<1> QED
  BY <1>1, <1>2, <1>4, WroteKeeps

LEMMA ClearKeeps == ASSUME BusInv, NEW t \in Users, S!clear(t) PROVE BusInv'
<1>1. /\ S!NoReader /\ S!Wrote(t) /\ removed' = removed \cup S!Subscribed /\ next_id_' = next_id_
      /\ DOMAIN handlers_' = {}
  BY NoElement DEF S!clear
<1>2. \A i \in S!Subscribed : i \in Nat /\ i < next_id_
  <2> SUFFICES ASSUME NEW e \in Events, NEW i \in DOMAIN S!Subscribers(e)
               PROVE  S!Subscribers(e)[i].id \in Nat /\ S!Subscribers(e)[i].id < next_id_
    BY DEF S!Subscribed
  <2> DEFINE s == S!Subscribers(e)
  <2>1. Live(s, next_id_, removed) /\ DOMAIN s = 1 .. Len(s)
    BY SubscribersLive DEF BusInv
  <2> HIDE DEF s
  <2>2. \A k \in DOMAIN s : s[k] \in Subscription /\ s[k].id < next_id_
    BY <2>1, ElementOfSeq DEF Live
  <2> QED
    BY <2>2 DEF Subscription, s
<1>3. HandlersLive'
  BY <1>1, <1>2 DEF BusInv, HandlersLive
<1> QED
  BY <1>1, <1>3, WroteKeeps DEF BusInv, HandlersLive

\* What a step of publish does to its thread's stack q: begin, call, end.
Begins(q, r) == \E e \in Events : r = Append(q, [event |-> e, called |-> <<>>])

CallsNext(q, r) ==
    LET f == q[Len(q)]
        h == S!Subscribers(f.event)[Len(f.called) + 1]
    IN /\ q # <<>> /\ Len(f.called) < Len(S!Subscribers(f.event))
       /\ IF h.kind = "publishes"
          THEN r = Append(Calls(q, h.id), [event |-> Republished[f.event], called |-> <<>>])
          ELSE r = Calls(q, h.id)

Ends(q, r) ==
    LET f == q[Len(q)]
    IN /\ q # <<>> /\ Len(f.called) = Len(S!Subscribers(f.event))
       /\ r = SubSeq(q, 1, Len(q) - 1)

LEMMA PublishIs ==
    ASSUME BusInv, NEW t \in Users, S!publish(t)
    PROVE  \E r : /\ frames' = [frames EXCEPT ![t] = r]
                  /\ \/ frames[t] = <<>> /\ Begins(frames[t], r) /\ writer' = writer
                     \/ CallsNext(frames[t], r)
                        /\ \/ writer' = writer
                           \/ writer' = [writer EXCEPT ![t] =
                                  [op |-> "subscribe", event |-> frames[t][Len(frames[t])].event,
                                   kind |-> "plain"]]
                     \/ Ends(frames[t], r) /\ writer' = writer
<1> DEFINE q == frames[t]
<1>0. frames = [u \in Users |-> frames[u]]
  BY DEF BusInv, AllPublish
<1>1. CASE S!Free(t) /\ (\E e \in Events : S!Enter(t, e)) /\ UNCHANGED writer
  <2>1. PICK e \in Events : S!Enter(t, e)
    BY <1>1
  <2> DEFINE r == Append(q, [event |-> e, called |-> <<>>])
  <2>2. frames' = [frames EXCEPT ![t] = r]
    BY <2>1 DEF S!Enter
  <2>3. Begins(q, r)
    BY DEF Begins
  <2> HIDE DEF r
  <2> QED
    BY <1>1, <2>2, <2>3 DEF S!Free
<1> DEFINE f == q[Len(q)]
           h == S!Subscribers(f.event)[Len(f.called) + 1]
           calling == [frames EXCEPT ![t][Len(frames[t])].called = Append(@, h.id)]
           deeper == [event |-> Republished[f.event], called |-> <<>>]
<1>2. CASE /\ q # <<>>
           /\ Len(f.called) < Len(S!Subscribers(f.event))
           /\ frames' = IF h.kind = "publishes"
                        THEN [calling EXCEPT ![t] = Append(@, deeper)] ELSE calling
           /\ writer' = IF h.kind # "subscribes" THEN writer
                        ELSE [writer EXCEPT ![t] = [op |-> "subscribe", event |-> f.event,
                                                    kind |-> "plain"]]
  <2> DEFINE c == Calls(q, h.id)
             r == IF h.kind = "publishes" THEN Append(c, deeper) ELSE c
  <2>1. calling = [frames EXCEPT ![t] = c]
    BY DEF Calls
  <2>2. CallsNext(q, r)
    BY <1>2 DEF CallsNext
  <2>3. \/ writer' = writer
        \/ writer' = [writer EXCEPT ![t] = [op |-> "subscribe", event |-> f.event, kind |-> "plain"]]
    BY <1>2
  <2>4. frames' = [frames EXCEPT ![t] = r]
    <3> HIDE DEF calling, c, h, deeper
    <3>1. [calling EXCEPT ![t] = Append(@, deeper)] = [frames EXCEPT ![t] = Append(c, deeper)]
      BY <1>0, <2>1
    <3> QED
      BY <1>2, <2>1, <3>1
  <2> HIDE DEF r
  <2> QED
    BY <2>2, <2>3, <2>4
<1>3. CASE /\ q # <<>> /\ Len(f.called) = Len(S!Subscribers(f.event))
           /\ frames' = [frames EXCEPT ![t] = SubSeq(@, 1, Len(@) - 1)]
           /\ UNCHANGED writer
  <2> DEFINE r == SubSeq(q, 1, Len(q) - 1)
  <2>1. frames' = [frames EXCEPT ![t] = r]
    BY <1>3
  <2>2. Ends(q, r)
    BY <1>3 DEF Ends
  <2> HIDE DEF r
  <2> QED
    BY <1>3, <2>1, <2>2
<1> QED
  BY <1>1, <1>2, <1>3 DEF S!publish, S!Top, S!Due

\* A stack's step keeps what is true of it, ends a publish only when everybody
\* was called, and calls none that was given up.
LEMMA StackStep ==
    ASSUME HandlersLive, S!ServicesAssumption, NEW q, Publishes(q), NEW r,
           (q = <<>> /\ Begins(q, r)) \/ CallsNext(q, r) \/ Ends(q, r)
    PROVE  LET f == q[Len(q)]
               s == S!Subscribers(f.event)
               now == r[Len(q)].called
           IN /\ Publishes(r)
              /\ Len(r) < Len(q) => f.called = [i \in DOMAIN s |-> s[i].id]
              /\ q # <<>> /\ Len(r) >= Len(q) /\ Len(now) > Len(f.called) =>
                    now[Len(now)] \notin removed
<1>0. Len(q) \in Nat
  BY LenProperties DEF Publishes
<1>1. CASE q = <<>> /\ Begins(q, r)
  <2>1. PICK e \in Events : r = Append(q, [event |-> e, called |-> <<>>])
    BY <1>1 DEF Begins
  <2>2. Publishes(r) /\ Len(r) = Len(q) + 1
    BY <2>1, EnterKeeps
  <2> QED
    BY <1>0, <1>1, <2>2
<1>2. CASE CallsNext(q, r)
  <2> DEFINE n == Len(q)
             f == q[n]
             h == S!Subscribers(f.event)[Len(f.called) + 1]
             c == Calls(q, h.id)
  <2>1. q # <<>> /\ Len(f.called) < Len(S!Subscribers(f.event))
    BY <1>2 DEF CallsNext
  <2>2. /\ f.event \in Events /\ h.id \notin removed
        /\ Publishes(c) /\ Len(c) = n /\ n \in Nat \ {0}
        /\ Len(f.called) \in Nat
        /\ Len(c[n].called) = Len(f.called) + 1
        /\ c[n].called[Len(f.called) + 1] = h.id
    BY <2>1, CallKeeps
  <2>3. r = c \/ r = Append(c, [event |-> Republished[f.event], called |-> <<>>])
    BY <1>2 DEF CallsNext
  <2>4. Republished[f.event] \in Events
    BY <2>2 DEF S!ServicesAssumption
  <2> HIDE DEF c, h, f
  <2>5. Publishes(r) /\ Len(r) >= n /\ r[n] = c[n]
    <3>1. CASE r = c
      BY <2>2, <3>1
    <3>2. CASE r = Append(c, [event |-> Republished[f.event], called |-> <<>>])
      <4>1. /\ Publishes(r) /\ Len(r) = Len(c) + 1 /\ \A k \in 1 .. Len(c) : r[k] = c[k]
        BY <2>2, <2>4, <3>2, EnterKeeps
      <4> QED
        BY <2>2, <4>1
    <3> QED
      BY <2>3, <3>1, <3>2
  <2> QED
    BY <2>2, <2>5 DEF f
<1>3. CASE Ends(q, r)
  <2>1. /\ q # <<>> /\ Len(q[Len(q)].called) = Len(S!Subscribers(q[Len(q)].event))
        /\ r = SubSeq(q, 1, Len(q) - 1)
    BY <1>3 DEF Ends
  <2>2. LET f == q[Len(q)]
            s == S!Subscribers(f.event)
        IN /\ Publishes(r) /\ Len(r) = Len(q) - 1
           /\ f.called = [i \in DOMAIN s |-> s[i].id]
    BY <2>1, LeaveKeeps
  <2> QED
    BY <1>0, <2>2
<1> QED
  BY <1>1, <1>2, <1>3

\* What the two action properties of the bus say of a step.
Delivers == \A t \in Users :
    Len(frames'[t]) < Len(frames[t]) =>
        S!Top(t).called = [i \in DOMAIN S!Subscribers(S!Top(t).event) |->
                              S!Subscribers(S!Top(t).event)[i].id]

Spares == \A t \in Users :
    frames[t] # <<>> /\ Len(frames'[t]) >= Len(frames[t]) =>
        LET now == frames'[t][Len(frames[t])].called IN
        Len(now) > Len(S!Top(t).called) => now[Len(now)] \notin removed

LEMMA FramesStay == ASSUME BusInv, frames' = frames PROVE Delivers /\ Spares
<1> SUFFICES ASSUME NEW t \in Users
             PROVE  /\ ~(Len(frames[t]) < Len(frames[t]))
                    /\ frames[t] # <<>> =>
                          ~(Len(frames[t][Len(frames[t])].called) > Len(S!Top(t).called))
  BY DEF Delivers, Spares
<1>1. Publishes(frames[t])
  BY DEF BusInv, AllPublish
<1>2. Len(frames[t]) \in Nat /\ (frames[t] # <<>> => Len(frames[t]) \in 1 .. Len(frames[t]))
  BY <1>1, LenProperties, EmptySeq DEF Publishes
<1>3. frames[t] # <<>> => frames[t][Len(frames[t])] \in Frame
  BY <1>1, <1>2, ElementOfSeq DEF Publishes
<1>4. frames[t] # <<>> => Len(S!Top(t).called) \in Nat
  <2>1. \A f \in Frame : Len(f.called) \in Nat
    BY LenProperties DEF Frame
  <2> QED
    BY <1>3, <2>1 DEF S!Top
<1> QED
  BY <1>2, <1>4 DEF S!Top

LEMMA PublishKeeps ==
    ASSUME S!ServicesAssumption, BusInv, NEW t \in Users, S!publish(t)
    PROVE  BusInv' /\ Delivers /\ Spares
<1>1. PICK r :
        /\ frames' = [frames EXCEPT ![t] = r]
        /\ \/ frames[t] = <<>> /\ Begins(frames[t], r) /\ writer' = writer
           \/ CallsNext(frames[t], r)
              /\ \/ writer' = writer
                 \/ writer' = [writer EXCEPT ![t] =
                        [op |-> "subscribe", event |-> frames[t][Len(frames[t])].event,
                         kind |-> "plain"]]
           \/ Ends(frames[t], r) /\ writer' = writer
  BY PublishIs
<1>2. UNCHANGED <<handlers_, next_id_, removed>>
  BY DEF S!publish
<1>3. HandlersLive /\ AllPublish(frames) /\ Publishes(frames[t])
  BY DEF BusInv, AllPublish
<1> DEFINE q == frames[t]
<1>4. /\ Publishes(r)
      /\ Len(r) < Len(q) => q[Len(q)].called = [i \in DOMAIN S!Subscribers(q[Len(q)].event) |->
                                                  S!Subscribers(q[Len(q)].event)[i].id]
      /\ q # <<>> /\ Len(r) >= Len(q) /\ Len(r[Len(q)].called) > Len(q[Len(q)].called) =>
            r[Len(q)].called[Len(r[Len(q)].called)] \notin removed
  BY <1>1, <1>3, StackStep
<1>5. /\ AllPublish([frames EXCEPT ![t] = r])
      /\ frames'[t] = r /\ \A u \in Users \ {t} : frames'[u] = frames[u]
  <2>1. /\ AllPublish([frames EXCEPT ![t] = r])
        /\ [frames EXCEPT ![t] = r][t] = r
        /\ \A u \in Users \ {t} : [frames EXCEPT ![t] = r][u] = frames[u]
    BY <1>3, <1>4, StackKeeps
  <2> QED
    BY <1>1, <2>1
<1>6. AllPublish(frames)'
  BY <1>1, <1>2, <1>5 DEF AllPublish, Publishes, Calling, S!Subscribers
<1>7. HandlersLive'
  BY <1>2, <1>3 DEF HandlersLive
<1>8. WritesOK'
  <2>1. \A w : WriteOK(w) => WriteOK(w)'
    BY <1>2 DEF WriteOK
  <2>2. WritesOK
    BY DEF BusInv
  <2>3. CASE writer' = writer
    BY <1>2, <2>2, <2>3 DEF WritesOK, WriteOK
  <2>4. CASE /\ CallsNext(q, r)
             /\ writer' = [writer EXCEPT ![t] =
                             [op |-> "subscribe", event |-> q[Len(q)].event, kind |-> "plain"]]
    <3> DEFINE w == [op |-> "subscribe", event |-> q[Len(q)].event, kind |-> "plain"]
    <3>1. q[Len(q)].event \in Events
      BY <1>3, <2>4, CallKeeps DEF CallsNext
    <3>2. WriteOK(w)
      BY <3>1 DEF WriteOK, HandlerKinds
    <3> HIDE DEF w
    <3>3. writer' = [writer EXCEPT ![t] = w]
      BY <2>4 DEF w
    <3> QED
      BY <1>2, <2>1, <2>2, <3>2, <3>3 DEF WritesOK, WriteOK
  <2> QED
    BY <1>1, <2>3, <2>4
<1>9. ASSUME NEW u \in Users \ {t}
      PROVE  frames'[u] = frames[u]
  BY <1>5
<1>10. Delivers
  <2> SUFFICES ASSUME NEW u \in Users, Len(frames'[u]) < Len(frames[u])
               PROVE  S!Top(u).called = [i \in DOMAIN S!Subscribers(S!Top(u).event) |->
                                           S!Subscribers(S!Top(u).event)[i].id]
    BY DEF Delivers
  <2>1. Len(frames[u]) \in Nat
    BY LenProperties DEF BusInv, AllPublish, Publishes
  <2>2. u = t
    BY <1>9, <2>1
  <2> QED
    BY <1>4, <1>5, <2>2 DEF S!Top
<1>11. Spares
  <2> SUFFICES ASSUME NEW u \in Users, frames[u] # <<>>, Len(frames'[u]) >= Len(frames[u]),
                      Len(frames'[u][Len(frames[u])].called) > Len(S!Top(u).called)
               PROVE  frames'[u][Len(frames[u])].called[Len(frames'[u][Len(frames[u])].called)] \notin removed
    BY DEF Spares
  <2>1. CASE u = t
    BY <1>4, <1>5, <2>1 DEF S!Top
  <2>2. CASE u # t
    <3>1. Publishes(frames[u]) /\ frames'[u] = frames[u]
      BY <1>9, <2>2 DEF BusInv, AllPublish
    <3>2. frames[u][Len(frames[u])] \in Frame
      <4>1. Len(frames[u]) \in 1 .. Len(frames[u])
        BY <3>1, EmptySeq DEF Publishes
      <4> QED
        BY <3>1, <4>1, ElementOfSeq DEF Publishes
    <3>3. Len(frames[u][Len(frames[u])].called) \in Nat
      <4>1. \A f \in Frame : Len(f.called) \in Nat
        BY LenProperties DEF Frame
      <4> QED
        BY <3>2, <4>1
    <3> QED
      BY <3>1, <3>3 DEF S!Top
  <2> QED
    BY <2>1, <2>2
<1> QED
  BY <1>6, <1>7, <1>8, <1>10, <1>11 DEF BusInv

\* A step of the bus, by anybody.
LEMMA BusStep ==
    ASSUME S!ServicesAssumption, ServicesInv, NEW t \in Users,
           \/ \E w \in S!Writes : S!Ask(t, w)
           \/ S!subscribe(t) \/ S!unsubscribe(t) \/ S!clear(t) \/ S!publish(t)
    PROVE  ServicesInv' /\ Delivers /\ Spares
<1>1. UNCHANGED <<services_, type_ids_, got>> /\ (ops' = ops \/ S!Op)
  BY DEF S!Ask, S!subscribe, S!unsubscribe, S!clear, S!publish, S!Wrote, S!registry
<1>2. RegistryInv'
  BY <1>1 DEF ServicesInv, RegistryInv, S!TypedPointers, S!Op, S!ServicesAssumption
<1>3. ASSUME NEW w \in S!Writes, S!Ask(t, w) PROVE BusInv' /\ frames' = frames
  <2>1. /\ writer' = [writer EXCEPT ![t] = w]
        /\ UNCHANGED <<handlers_, next_id_, frames, removed>>
    BY <1>3 DEF S!Ask
  <2>2. AllPublish(frames)'
    BY <2>1 DEF ServicesInv, BusInv, AllPublish, Publishes, Calling, S!Subscribers
  <2> QED
    BY <2>1, <2>2, WritesAsk, AskKeeps DEF ServicesInv
<1>4. ASSUME S!subscribe(t) \/ S!unsubscribe(t) \/ S!clear(t) PROVE BusInv' /\ frames' = frames
  BY <1>4, SubscribeKeeps, UnsubscribeKeeps, ClearKeeps
  DEF ServicesInv, S!subscribe, S!unsubscribe, S!clear, S!Wrote
<1>5. ASSUME S!publish(t) PROVE BusInv' /\ Delivers /\ Spares
  BY <1>5, PublishKeeps DEF ServicesInv
<1>6. BusInv' /\ Delivers /\ Spares
  BY <1>3, <1>4, <1>5, FramesStay DEF ServicesInv
<1> QED
  BY <1>2, <1>6 DEF ServicesInv

\* A step of the registry.
LEMMA RegistryStep ==
    ASSUME S!ServicesAssumption, ServicesInv, S!Registry
    PROVE  ServicesInv' /\ frames' = frames
<1>1. UNCHANGED <<handlers_, next_id_, frames, writer, removed>> /\ S!Op
  BY DEF S!Registry, S!bus
<1>2. BusInv'
  BY <1>1, BusStays DEF ServicesInv
<1>3. ops' \in 0 .. MaxOps
  BY <1>1 DEF ServicesInv, RegistryInv, S!Op, S!ServicesAssumption
<1> DEFINE Maps == /\ DOMAIN services_ = DOMAIN type_ids_
                   /\ DOMAIN services_ \subseteq ServiceNames
                   /\ \A n \in DOMAIN services_ :
                         services_[n] \in ServiceTypes /\ services_[n] = type_ids_[n]
<1>4. Maps /\ S!TypedPointers
  BY DEF ServicesInv, RegistryInv
<1>5. ASSUME NEW name \in ServiceNames, NEW type \in ServiceTypes, S!registerService(name, type)
      PROVE  Maps' /\ S!TypedPointers'
  BY <1>4, <1>5 DEF S!registerService, S!Put, S!TypedPointers
<1>6. ASSUME NEW name \in ServiceNames, NEW type \in ServiceTypes, S!getService(name, type)
      PROVE  Maps' /\ S!TypedPointers'
  BY <1>4, <1>6 DEF S!getService, S!TypedPointers
<1>7. ASSUME NEW name, S!unregisterService(name) PROVE Maps' /\ S!TypedPointers'
  BY <1>4, <1>7 DEF S!unregisterService, S!Restrict, S!TypedPointers
<1>8. ASSUME S!clearServices PROVE Maps' /\ S!TypedPointers'
  BY <1>4, <1>8, NoElement DEF S!clearServices, S!TypedPointers
<1>9. Maps' /\ S!TypedPointers'
  BY <1>5, <1>6, <1>7, <1>8 DEF S!Registry
<1> QED
  BY <1>1, <1>2, <1>3, <1>9 DEF ServicesInv, RegistryInv

LEMMA InitServices == ASSUME S!ServicesAssumption, S!Init PROVE ServicesInv
<1>1. /\ DOMAIN handlers_ = {} /\ next_id_ = 0 /\ removed = {} /\ ops = 0
      /\ DOMAIN services_ = {} /\ DOMAIN type_ids_ = {} /\ got = <<>>
      /\ frames = [t \in Users |-> <<>>] /\ writer = [t \in Users |-> S!NoWrite]
  BY NoElement DEF S!Init
<1>2. Publishes(<<>>)
  BY NoElement DEF Publishes
<1>3. BusInv
  BY <1>1, <1>2
  DEF BusInv, HandlersLive, WritesOK, WriteOK, S!NoWrite, AllPublish
<1>4. RegistryInv
  BY <1>1 DEF RegistryInv, S!TypedPointers, S!ServicesAssumption
<1> QED
  BY <1>3, <1>4 DEF ServicesInv

\* The other parts of the program, and a step that changes nothing.
LEMMA ServicesStay ==
    ASSUME ServicesInv, UNCHANGED serviceVars
    PROVE  ServicesInv' /\ frames' = frames
<1>1. /\ UNCHANGED <<handlers_, next_id_, frames, writer, removed>>
      /\ UNCHANGED <<services_, type_ids_, got, ops>>
  BY DEF serviceVars
<1>2. BusInv'
  BY <1>1, BusStays DEF ServicesInv
<1>3. RegistryInv'
  BY <1>1 DEF ServicesInv, RegistryInv, S!TypedPointers
<1> QED
  BY <1>1, <1>2, <1>3 DEF ServicesInv

LEMMA NextServices ==
    ASSUME RobotAssumption, ServicesInv, [RobotNext]_robotVars
    PROVE  ServicesInv' /\ Delivers /\ Spares
<1>1. S!ServicesAssumption
  BY DEF RobotAssumption
<1>2. ASSUME S!Next PROVE \/ \E t \in Users : \/ \E w \in S!Writes : S!Ask(t, w)
                                              \/ S!subscribe(t) \/ S!unsubscribe(t)
                                              \/ S!clear(t) \/ S!publish(t)
                          \/ S!Registry
                          \/ UNCHANGED serviceVars
  BY <1>2 DEF S!Next, S!vars, S!bus, S!registry, serviceVars
<1>3. S!Next \/ UNCHANGED serviceVars
  BY DEF RobotNext, robotVars
<1>4. ASSUME ServicesInv', frames' = frames PROVE Delivers /\ Spares
  BY <1>4, FramesStay DEF ServicesInv
<1> QED
  BY <1>1, <1>2, <1>3, <1>4, BusStep, RegistryStep, ServicesStay

\* The invariant of bus and registry, whatever the threads and the handlers do.
THEOREM ServicesInvariant == RobotSpec => []ServicesInv
<1>1. RobotInit => ServicesInv
  BY RobotAssumption, InitServices DEF RobotInit, RobotAssumption
<1>2. ServicesInv /\ [RobotNext]_robotVars => ServicesInv'
  BY RobotAssumption, NextServices
<1> QED
  BY <1>1, <1>2, PTL DEF RobotSpec

\* ServicesSound: publish calls every handler of its event in order, none after
\* its unsubscribe returned, and the registry gives a service out only as what
\* it was registered as.
THEOREM ServicesAreSound == RobotSpec => ServicesSound
<1>1. ServicesInv => S!TypeOK /\ S!TypedPointers
  <2> SUFFICES ASSUME ServicesInv PROVE S!TypeOK /\ S!TypedPointers
    OBVIOUS
  <2>1. \A i \in S!Subscribed : i < next_id_
    <3> SUFFICES ASSUME NEW e \in Events, NEW i \in DOMAIN S!Subscribers(e)
                 PROVE  S!Subscribers(e)[i].id < next_id_
      BY DEF S!Subscribed
    <3> QED
      BY SubscribersLive DEF ServicesInv, BusInv, Live
  <2>2. S!Range(services_) \cup S!Range(type_ids_) \subseteq ServiceTypes
    BY DEF ServicesInv, RegistryInv, S!Range
  <2> QED
    BY <2>1, <2>2 DEF ServicesInv, BusInv, HandlersLive, RegistryInv, S!TypeOK
<1>2. ServicesInv /\ [RobotNext]_robotVars => Delivers /\ Spares
  BY RobotAssumption, NextServices
<1>3. RobotSpec => [](part = "services" => S!TypeOK /\ S!TypedPointers)
  BY <1>1, ServicesInvariant, PTL
<1>4. ServicesInv /\ [RobotNext]_robotVars =>
          (\A t \in Users :
              Len(frames'[t]) < Len(frames[t]) =>
                  S!Top(t).called = [i \in DOMAIN S!Subscribers(S!Top(t).event) |->
                                        S!Subscribers(S!Top(t).event)[i].id])
  BY <1>2 DEF Delivers
<1>5. ServicesInv /\ [RobotNext]_robotVars =>
          (\A t \in Users :
              frames[t] # <<>> /\ Len(frames'[t]) >= Len(frames[t]) =>
                  LET now == frames'[t][Len(frames[t])].called IN
                  Len(now) > Len(S!Top(t).called) => now[Len(now)] \notin removed)
  BY <1>2 DEF Spares
<1>6. RobotSpec => S!DeliversToAll
  BY <1>4, ServicesInvariant, PTL DEF RobotSpec, S!DeliversToAll
<1>7. RobotSpec => S!NothingAfterUnsubscribe
  BY <1>5, ServicesInvariant, PTL DEF RobotSpec, S!NothingAfterUnsubscribe
<1> QED
  BY <1>3, <1>6, <1>7, PTL DEF ServicesSound
=============================================================================
