\* Users who do not act while a change is half-finished.  Everything but a crash
\* of the tray can happen around them.
SPECIFICATION Spec
CONSTANTS
    home = home
    work = work
    NoName = NoName
    Names = {home, work}
    Ports = {1, 2}
    MaxBackends = 2
    AuthModes = {"agent", "password"}
    FirstTunnels <- OneEach
    UserModes = {"none", "manual", "auto"}
    MaxProcs = 2
    Ticks = 2
    Ops = {"toggle", "dns", "delete", "quit"}
    Windows = {}
    Faults = {"popen", "helper_lost", "rules_removed", "slow_check", "foreign"}
INVARIANTS
    TypeOK
    DeliveryOwned
    UpIsDelivered
    ModeRestored
    NoStaleProxyAfterQuit
    NoSshAfterQuit
    HelperOwned
PROPERTIES
    PollSparesConnecting
    DeadPortReverted
    RulesLossNoticed
    KillSwitchReleased
    ImplementsService
