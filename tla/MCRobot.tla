------------------------------- MODULE MCRobot -------------------------------
(* Instances of Robot's parts, small and with all their cases.              *)
EXTENDS Robot, TLC

CONSTANTS t1, t2, h1, h2

-----------------------------------------------------------------------------
(* Plugin manager: two plugins of which the first requires the second, with  *)
(* all libraries or without the second's, and a metadata file whose stem is  *)
(* not the plugin's name.  One thread loads, starts and stops; the other     *)
(* unloads and works in batches.                                             *)

Need(n) == [name |-> n, required |-> TRUE]
File(n, deps) == [name |-> n, dependencies |-> deps]
Chain == 1 :> File(1, <<Need(2)>>) @@ 2 :> File(2, <<>>)
Misnamed == 1 :> File(2, <<>>)
ChainOrMisnamed ==
    {[files |-> Chain, libs |-> {1, 2}],
     [files |-> Chain, libs |-> {1}],
     [files |-> Misnamed, libs |-> {1, 2}]}
TwoUsers == (t1 :> {"load", "request", "stop", "startAll", "unload"})
     @@ (t2 :> {"scan", "unload", "unloadAll", "initialize", "start", "loadAll", "stopAll"})

(* Event bus: a handler of the first event may publish the second           *)
TheSecond == [e \in {1, 2} |-> 2]

(* Debug server: one request thread gets any request, the other those that   *)
(* change what both use; the threads of the pool are interchangeable.        *)
Post(paths) == [method : {"POST"}, path : paths]
Changes ==
    Post({"load", "unload", "start", "stop", "startSimulation", "stopSimulation", "step",
          "stopMotion", "preset"})
AnyOrChange ==
    (h1 :> Changes \cup Post({"reset", "publish"})
           \cup [method : {"GET"},
                 path : {"scan", "metadata", "state", "loaded", "robot", "joint", "joints",
                         "sensors", "services", "plan", "presets", "status"}])
    @@ (h2 :> Changes)

-----------------------------------------------------------------------------
\* The steps of manager, bus and registry are sound, and every call on the bus
\* returns (the threads are interchangeable).
FrameworkSteps == BatchesSound /\ ServicesSound /\ S!CallReturns(t1)

\* DebugServer: after a trajectory the simulation runs again, and a signal ends
\* the process once the server listens.
SimulationAndSignal == SimulationComesBack /\ SignalEnds
=============================================================================
