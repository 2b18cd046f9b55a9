\* The user renames the active tunnel, then the rules vanish.
SPECIFICATION Spec
CONSTANTS
    home = home
    work = work
    NoName = NoName
    Names = {home, work}
    Ports = {1}
    MaxBackends = 1
    AuthModes = {"agent"}
    FirstTunnels <- OneAgent
    UserModes = {"none"}
    MaxProcs = 2
    Ticks = 2
    Ops = {"toggle", "edit"}
    Windows = {"edit_active"}
    Faults = {"rules_removed"}
PROPERTIES
    RulesLossNoticed
