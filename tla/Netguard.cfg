\* The tray's helper and a tunly --repair run over each other, and one thing goes
\* wrong: a lock not had, a bus call without an answer, a SIGTERM or a SIGKILL.
SPECIFICATION Spec
CONSTANTS
    g1 = g1
    r1 = r1
    web = web
    server = server
    lan = lan
    web6 = web6
    lan6 = lan6
    V4 = {web, server, lan}
    PrivateV4 = {lan}
    V6 = {web6, lan6}
    LocalV6 = {lan6}
    SshIp = server
    SshPort = 22
    PortNumbers = {22, 53, 443}
    NoProc = NoProc
    Former = Former
    Stacked = {2}
    Helpers = {g1}
    Repairs = {r1}
    MaxUnhook = 2
    Attempts = 2
    MaxFaults = 1
    Faults = {"lock", "bus", "term", "kill"}
INVARIANTS
    TypeOK
    NoEscape
    UpIsIntact
    UpDelivers
    OlderStopped
    RefusedIsClean
    ReleasedAtExit
    TeardownHonest
PROPERTIES
    FailsClosed
\* Processes come to their end.
CHECK_DEADLOCK FALSE
