\* Users who act at every moment but inside a password prompt, and crashes.
SPECIFICATION Spec
CONSTANTS
    home = home
    work = work
    NoName = NoName
    Names = {home, work}
    Ports = {1}
    MaxBackends = 1
    AuthModes = {"agent", "password"}
    FirstTunnels <- OneAgent
    UserModes = {"none"}
    MaxProcs = 2
    Ticks = 1
    Ops = {"add", "edit", "respell", "delete", "toggle", "quit"}
    Windows = {"unnoticed", "connecting", "edit_active"}
    Faults = {"popen", "crash"}
INVARIANTS
    Exclusive
    ConnectingOwned
PROPERTIES
    ConnectResolves
    RulesGoneAfterExit
