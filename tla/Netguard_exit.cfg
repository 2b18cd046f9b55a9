\* One helper from start to end, with up to three lost locks or a SIGKILL.
SPECIFICATION Spec
CONSTANTS
    g1 = g1
    r1 = r1
    web = web
    server = server
    lan = lan
    web6 = web6
    lan6 = lan6
    V4 = {web, server, lan}
    PrivateV4 = {lan}
    V6 = {web6, lan6}
    LocalV6 = {lan6}
    SshIp = server
    SshPort = 22
    PortNumbers = {22, 53, 443}
    NoProc = NoProc
    Former = Former
    Stacked = {2}
    Helpers = {g1}
    Repairs = {}
    MaxUnhook = 2
    Attempts = 2
    MaxFaults = 3
    Faults = {"lock", "kill"}
INVARIANTS
    CheckRestored
PROPERTIES
    EofEndsHelper
\* Processes come to their end.
CHECK_DEADLOCK FALSE
