\* Two commands of one teardown do not get the xtables lock.
SPECIFICATION Spec
CONSTANTS
    g1 = g1
    r1 = r1
    web = web
    server = server
    lan = lan
    web6 = web6
    lan6 = lan6
    V4 = {web, server, lan}
    PrivateV4 = {lan}
    V6 = {web6, lan6}
    LocalV6 = {lan6}
    SshIp = server
    SshPort = 22
    PortNumbers = {22, 53, 443}
    NoProc = NoProc
    Former = Former
    Stacked = {}
    Helpers = {g1}
    Repairs = {}
    MaxUnhook = 2
    Attempts = 2
    MaxFaults = 2
    Faults = {"lock"}
INVARIANTS
    TeardownHonest
\* Processes come to their end.
CHECK_DEADLOCK FALSE
