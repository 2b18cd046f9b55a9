\* The user starts another tunnel while a password prompt is open.
SPECIFICATION Spec
CONSTANTS
    home = home
    work = work
    NoName = NoName
    Names = {home, work}
    Ports = {1, 2}
    MaxBackends = 1
    AuthModes = {"agent", "password"}
    FirstTunnels <- OneEach
    UserModes = {"none"}
    MaxProcs = 2
    Ticks = 2
    Ops = {}
    Windows = {"prompting"}
    Faults = {}
INVARIANTS
    Exclusive
