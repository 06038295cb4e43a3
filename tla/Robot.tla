-------------------------------- MODULE Robot --------------------------------
(***************************************************************************)
(* The robot framework: the debug server, the plugin manager with its      *)
(* dependency resolver, the event bus with the service registry.  The      *)
(* debug server's model has its own, smaller picture of the manager; the   *)
(* three share no variable, so `part` says which one a behaviour is about. *)
(* The others stay as they begin, the debug server as it ends.             *)
(***************************************************************************)
EXTENDS DebugServer, Naturals, Sequences

CONSTANTS
    Users,                              \* threads that use the manager or the bus
    Owner, Plugins, Directories, Menu, MaxCalls, MaxObjects, HooksMayFail,
    Events, Kinds, Republished, ServiceNames, ServiceTypes, MaxOps

VARIABLES
    part,
    dir, metadata_cache_, loaded_plugins_, object, call, calls, dying,
    handlers_, next_id_, frames, writer, removed, services_, type_ids_, got, ops

P == INSTANCE PluginManager WITH Names <- Plugins, Threads <- Users
S == INSTANCE Services WITH
         Services <- ServiceNames, Types <- ServiceTypes, Threads <- Users

ASSUME RobotAssumption ==
    ServerAssumption /\ P!ManagerAssumption /\ S!ServicesAssumption

managerVars == <<dir, metadata_cache_, loaded_plugins_, object, call, calls, dying>>
serviceVars == <<handlers_, next_id_, frames, writer, removed, services_, type_ids_, got, ops>>
robotVars == <<part, vars, managerVars, serviceVars>>

NoServer ==
    /\ plugin = "absent" /\ simulating_ = FALSE /\ simulation_thread_ = "none"
    /\ motion_executing_ = FALSE /\ motion_stop_requested_ = FALSE /\ motion_thread_ = "none"
    /\ step = 0 /\ running_ = FALSE /\ server_thread_ = "none" /\ listening = FALSE
    /\ pc = [a \in Actors |-> IF a = Main THEN "exited" ELSE IF a = Motion THEN "off" ELSE "idle"]
    /\ back = [a \in Actors |-> "none"]
    /\ req = [h \in Handlers |-> "none"] /\ served = 0
    /\ crashed = "no" /\ overlapped = FALSE /\ meddled = FALSE

RobotInit ==
    /\ part \in {"manager", "services", "server"}
    /\ P!Init /\ (part # "manager" => dir = CHOOSE d \in Directories : TRUE)
    /\ S!Init
    /\ IF part = "server" THEN Init ELSE NoServer

RobotNext ==
    \/ part = "manager" /\ P!Next /\ UNCHANGED <<part, vars, serviceVars>>
    \/ part = "services" /\ S!Next /\ UNCHANGED <<part, vars, managerVars>>
    \/ part = "server" /\ Next /\ UNCHANGED <<part, managerVars, serviceVars>>

\* what is over is not enabled, so the fairness of the others asks nothing of it
RobotSpec == RobotInit /\ [][RobotNext]_robotVars /\ S!Fairness /\ Fairness

-----------------------------------------------------------------------------
(* The properties of the parts; the debug server's hold of one that is over  *)

\* PluginManager: an object that is alive has exactly one owner, and after the
\* destructor nothing is alive.
PluginsSound == P!TypeOK /\ P!OneOwner /\ P!NothingOutlivesManager

\* PluginManager with DependencyResolver: a running object is stopped before it
\* is destroyed, loadAll tries every plugin after those it requires, and a batch
\* that returns true left nothing behind.
BatchesSound ==
    P!StopPrecedesUnload /\ [](part = "manager" => P!LoadsInOrder /\ P!BatchesComplete)

\* Services: publish calls every handler in order, whatever they throw, none
\* after its unsubscribe returned; a service is given out only as what it is.
ServicesSound ==
    /\ [](part = "services" => S!TypeOK /\ S!TypedPointers)
    /\ S!DeliversToAll /\ S!NothingAfterUnsubscribe
=============================================================================
