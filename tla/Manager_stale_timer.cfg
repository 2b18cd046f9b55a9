\* The user starts another tunnel while one is connecting.
SPECIFICATION Spec
CONSTANTS
    home = home
    work = work
    NoName = NoName
    Names = {home, work}
    Ports = {1, 2}
    MaxBackends = 1
    AuthModes = {"agent"}
    FirstTunnels <- TwoAgents
    UserModes = {"none"}
    MaxProcs = 2
    Ticks = 2
    Ops = {}
    Windows = {"connecting"}
    Faults = {}
PROPERTIES
    PollSparesConnecting
