SPECIFICATION RobotSpec
CONSTANTS
    t1 = t1
    t2 = t2
    Users = {t1, t2}
    Owner = t1
    Plugins = {1, 2}
    Directories <- ChainOrMisnamed
    Menu <- TwoUsers
    MaxCalls = 2
    MaxObjects = 2
    HooksMayFail = TRUE
    Events = {1, 2}
    Kinds = {"plain", "throws", "publishes"}
    Republished <- TheSecond
    ServiceNames = {"a", "b"}
    ServiceTypes = {"Hardware", "Simulator"}
    MaxOps = 4
    h1 = h1
    h2 = h2
    Main = Main
    Motion = Motion
    Handlers = {h1, h2}
    Requests <- AnyOrChange
    MaxRequests = 2
    Steps = 1
    BindMayFail = TRUE
    MayThrow = TRUE
INVARIANTS
    PluginsSound
    DebugServerSound
PROPERTIES
    FrameworkSteps
    SimulationAndSignal
