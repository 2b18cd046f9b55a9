\* ssh dies and the user quits before the next poll.
SPECIFICATION Spec
CONSTANTS
    home = home
    work = work
    NoName = NoName
    Names = {home, work}
    Ports = {1, 2}
    MaxBackends = 1
    AuthModes = {"agent"}
    FirstTunnels <- TwoAgents
    UserModes = {"none"}
    MaxProcs = 2
    Ticks = 2
    Ops = {"quit"}
    Windows = {"unnoticed"}
    Faults = {}
INVARIANTS
    NoStaleProxyAfterQuit
