------------------------------ MODULE Manager ------------------------------
(***************************************************************************)
(* The tray process: the Manager object of tunly/__init__.py, the GLib     *)
(* sources it arms, the ssh processes it launches and the configuration    *)
(* its handlers edit.                                                      *)
(*                                                                         *)
(* Everything runs on one GLib main loop, so a handler is one action.  The *)
(* exceptions are the modal dialogs: Gtk's dialog.run() turns a nested     *)
(* loop, in which timers, polls, signals and tray clicks are dispatched.   *)
(* Only the password prompt has state read before it and used after it, so *)
(* it alone splits its handler (start) in two actions.                     *)
(***************************************************************************)
EXTENDS Delivery, Sequences, FiniteSets

CONSTANTS Names,        \* tunnel names
          NoName,       \* the Python None of active_name
          AuthModes,    \* authentication methods the tunnels may use
          FirstTunnels, \* the tunnels in the configuration file at startup
          UserModes,    \* the proxy modes the user may have chosen before
          MaxProcs,     \* bound: ssh processes and pending timers at one time
          Ticks,        \* 400 ms rounds until the connect deadline
          Ops,          \* the optional user operations this instance performs
          Windows,      \* the delicate moments at which users may act
          Faults        \* what the environment may do

Procs   == 1..MaxProcs
NoProc  == 0
Tunnels == [name : Names, port : Ports, auth : AuthModes]

ASSUME ManagerAssumption ==
    /\ NoName \notin Names
    /\ AuthModes \subseteq {"agent", "key", "password"}
    /\ FirstTunnels \subseteq Tunnels
    /\ \A t, u \in FirstTunnels : t # u => t.name # u.name /\ t.port # u.port
    /\ UserModes \subseteq Modes
    /\ MaxProcs \in Nat
    /\ Ticks \in Nat \ {0}
    /\ Ops \subseteq {"add", "edit", "respell", "delete", "toggle", "dns", "quit"}
    /\ Windows \subseteq {"unnoticed", "connecting", "prompting", "edit_active"}
    /\ Faults \subseteq {"crash", "popen", "helper_lost", "rules_removed",
                         "slow_check", "foreign"}

VARIABLES
    tunnels,      \* cfg["tunnels"], a list of dicts found by name
    transparent,  \* cfg["transparent"]
    dns,          \* cfg["dns_server"] is not blank
    mgr,          \* the attributes proc, active_name and connecting
    net,          \* the delivery state (module Delivery)
    timers,       \* pending _await_listener sources
    prompts,      \* starts waiting in a password prompt, innermost last
    ssh,          \* live ssh processes
    foreign,      \* ports another program listens on
    app,          \* "running", "quitting", "exited" or "crashed"
    userMode      \* the proxy mode the user had chosen (never changes)

cfgVars == <<tunnels, transparent, dns>>
vars == <<tunnels, transparent, dns, mgr, net, timers, prompts, ssh, foreign,
          app, userMode>>

Timers    == [attempt : Procs, name : Names, left : 1..Ticks]
SshStates == [pid : Procs, port : Ports, up : BOOLEAN, child : BOOLEAN]
Idle      == [proc |-> NoProc, active |-> NoName, connecting |-> FALSE]

-----------------------------------------------------------------------------
(* Lookups *)

\* by_name(n) is not None, and the dict it returns.
Configured(n) == \E t \in tunnels : t.name = n
ByName(n)     == CHOOSE t \in tunnels : t.name = n

\* proc is not None and proc.poll() is None.
Alive(table, p) == \E x \in table : x.pid = p

PortOpen(table, port) ==
    \/ port \in foreign
    \/ \E x \in table : x.up /\ x.port = port

IsActive(n) == mgr.active = n /\ Alive(ssh, mgr.proc)

\* Mutant: SIGTERM only, which an ssh still in its handshake survives.
TerminatedOnly(table, p) == {x \in table : x.pid # p \/ ~x.up}

\* kill_proc: terminate, wait, kill.
Killed(table, p) == {x \in table : x.pid # p}

FreePids ==
    {p \in Procs : /\ p # mgr.proc
                   /\ \A x \in ssh : x.pid # p
                   /\ \A tm \in timers : tm.attempt # p}

NextPid == CHOOSE p \in FreePids : TRUE

-----------------------------------------------------------------------------
(* The moments at which what a user does meets a half-finished change.  An *)
(* instance lists in Windows the ones its users may hit.                   *)

\* ssh has died, or its port has closed, and no poll has run since.
Unnoticed ==
    /\ mgr.active # NoName
    /\ ~mgr.connecting
    /\ \/ ~Alive(ssh, mgr.proc)
       \/ Configured(mgr.active) /\ ~PortOpen(ssh, ByName(mgr.active).port)

\* A connect attempt is under way, or its timer is still armed.
Pending == mgr.connecting \/ timers # {}

Prompting == prompts # <<>>

Within(moment, window) == moment => window \in Windows

-----------------------------------------------------------------------------
(* start *)

\* The half of start() that follows _build: launch ssh and arm the listener
\* timer.  table and m are the processes and attributes at that moment.
Launch(t, table, m) ==
    \/ /\ FreePids # {}
       /\ ssh' = table \cup {[pid |-> NextPid, port |-> t.port,
                              up |-> FALSE, child |-> TRUE]}
       /\ mgr' = [proc |-> NextPid, active |-> t.name, connecting |-> TRUE]
       /\ timers' = timers \cup {[attempt |-> NextPid, name |-> t.name,
                                  left |-> Ticks]}
    \/ \* Popen raises OSError: proc keeps its old value
       /\ "popen" \in Faults
       /\ ssh' = table
       /\ mgr' = [m EXCEPT !.active = NoName, !.connecting = FALSE]
       /\ timers' = timers

\* start(name): drop the current tunnel, refuse a busy port, then launch at
\* once or ask for the password first.  A password can come from the keyring.
Start(t) ==
    LET exclusive == Alive(ssh, mgr.proc)
        table == IF exclusive THEN Killed(ssh, mgr.proc) ELSE ssh
        m == IF exclusive THEN Idle ELSE mgr
    IN  /\ ~IsActive(t.name)
        /\ Within(Unnoticed, "unnoticed")
        /\ Within(Pending, "connecting")
        /\ Within(Prompting, "prompting")
        /\ IF exclusive THEN net' \in RevertProxy(net) ELSE UNCHANGED net
        /\ \/ /\ PortOpen(table, t.port)
              /\ ssh' = table
              /\ mgr' = m
              /\ UNCHANGED <<timers, prompts>>
           \/ /\ ~PortOpen(table, t.port)
              /\ Launch(t, table, m)
              /\ UNCHANGED prompts
           \/ /\ ~PortOpen(table, t.port)
              /\ t.auth = "password"
              /\ Len(prompts) < 2      \* bound: nested prompts
              /\ prompts' = Append(prompts, t)
              /\ ssh' = table
              /\ mgr' = m
              /\ UNCHANGED timers
        /\ UNCHANGED <<cfgVars, foreign, app, userMode>>

-----------------------------------------------------------------------------
(* stop, and the end of the process *)

\* stop(): kill ssh, revert the delivery, forget the tunnel.
Stop(t) ==
    /\ IsActive(t.name)
    /\ ssh' = Killed(ssh, mgr.proc)
    /\ net' \in RevertProxy(net)
    /\ mgr' = Idle
    /\ UNCHANGED <<cfgVars, timers, prompts, foreign, app, userMode>>

\* _on_tray_toggle and _on_row_toggle.
Click == app \in {"running", "quitting"} /\ \E t \in tunnels : Start(t) \/ Stop(t)

Orphaned(table) ==
    {[pid |-> x.pid, port |-> x.port, up |-> x.up, child |-> FALSE] : x \in table}

\* The interpreter ends with the given process table and delivery.  Its ssh
\* processes run in sessions of their own and survive it.
Ended(how, table, final) ==
    /\ app' = how
    /\ net' = ProcessGone(final)
    /\ ssh' = Orphaned(table)
    /\ mgr' = Idle
    /\ timers' = {}
    /\ prompts' = <<>>

\* on_quit, from the menu or SIGINT/SIGTERM: stop only if ssh is alive, then
\* leave the main loop.  A dialog still open keeps its nested loop turning.
Quit ==
    LET live == Alive(ssh, mgr.proc)
        table == IF live THEN Killed(ssh, mgr.proc) ELSE ssh
    IN  /\ "quit" \in Ops
        /\ app \in {"running", "quitting"}
        /\ Within(Unnoticed, "unnoticed")
        /\ Within(Prompting, "prompting")
        /\ \E final \in IF live THEN RevertProxy(net) ELSE {net} :
              IF Prompting
              THEN /\ app' = "quitting"
                   /\ net' = final
                   /\ ssh' = table
                   /\ mgr' = IF live THEN Idle ELSE mgr
                   /\ UNCHANGED <<timers, prompts>>
              ELSE Ended("exited", table, final)
        /\ UNCHANGED <<cfgVars, foreign, userMode>>

\* The innermost password prompt closes: cancelled, or answered and start()
\* goes on with the tunnel and the attributes as they are now.  If it was the
\* last nested loop of a process that is quitting, the process ends with it.
AnswerPrompt ==
    LET t == prompts[Len(prompts)]
        outer == SubSeq(prompts, 1, Len(prompts) - 1)
    IN  /\ Prompting
        /\ IF app = "quitting" /\ outer = <<>>
           THEN /\ \E child \in BOOLEAN :
                      LET table == IF child /\ FreePids # {}
                                   THEN ssh \cup {[pid |-> NextPid, port |-> t.port,
                                                   up |-> FALSE, child |-> TRUE]}
                                   ELSE ssh
                      IN  Ended("exited", table, net)
           ELSE /\ prompts' = outer
                /\ \/ UNCHANGED <<ssh, mgr, timers>>
                   \/ Launch(t, ssh, mgr)
                /\ UNCHANGED <<net, app>>
        /\ UNCHANGED <<cfgVars, foreign, userMode>>

\* SIGKILL or a power cut in the session: no handler runs.
Crash ==
    /\ "crash" \in Faults
    /\ app \in {"running", "quitting"}
    /\ Ended("crashed", ssh, net)
    /\ UNCHANGED <<cfgVars, foreign, userMode>>

\* A new Manager.  Every edit was saved, so the configuration is unchanged.
Relaunch ==
    /\ app \in {"exited", "crashed"}
    /\ app' = "running"
    /\ UNCHANGED <<cfgVars, mgr, net, timers, prompts, ssh, foreign, userMode>>

-----------------------------------------------------------------------------
(* _await_listener *)

Current(tm) == Configured(tm.name) /\ mgr.active = tm.name

\* The tunnel was deleted, renamed or replaced since the timer was armed.
StaleTick(tm) ==
    /\ ~Current(tm)
    /\ mgr' = [mgr EXCEPT !.connecting = FALSE]
    /\ timers' = timers \ {tm}
    /\ UNCHANGED <<net, ssh>>

SshExitedTick(tm) ==
    /\ Current(tm)
    /\ ~Alive(ssh, mgr.proc)
    /\ mgr' = Idle
    /\ timers' = timers \ {tm}
    /\ UNCHANGED <<net, ssh>>

ListenerUpTick(tm) ==
    /\ Current(tm)
    /\ Alive(ssh, mgr.proc)
    /\ PortOpen(ssh, ByName(tm.name).port)
    /\ net' \in ApplyProxy(net, ByName(tm.name).port, transparent)
    /\ mgr' = [mgr EXCEPT !.connecting = FALSE]
    /\ timers' = timers \ {tm}
    /\ UNCHANGED ssh

\* Mutant: the last round still waits.
WaitingOneMoreTick(tm) ==
    /\ Current(tm)
    /\ Alive(ssh, mgr.proc)
    /\ timers' = (timers \ {tm}) \cup {[tm EXCEPT !.left = @ - 1]}
    /\ UNCHANGED <<ssh, mgr, net>>

\* Mutant: the timeout forgets to leave the connecting phase.
WaitingStuckTick(tm) ==
    /\ Current(tm)
    /\ Alive(ssh, mgr.proc)
    /\ ~PortOpen(ssh, ByName(tm.name).port)
    /\ IF tm.left = 1
       THEN /\ ssh' = Killed(ssh, mgr.proc)
            /\ mgr' = [mgr EXCEPT !.proc = NoProc, !.active = NoName]
            /\ timers' = timers \ {tm}
       ELSE /\ timers' = (timers \ {tm}) \cup {[tm EXCEPT !.left = @ - 1]}
            /\ UNCHANGED <<ssh, mgr>>
    /\ UNCHANGED net

WaitingTick(tm) ==
    /\ Current(tm)
    /\ Alive(ssh, mgr.proc)
    /\ ~PortOpen(ssh, ByName(tm.name).port)
    /\ IF tm.left = 1
       THEN /\ ssh' = Killed(ssh, mgr.proc)
            /\ mgr' = Idle
            /\ timers' = timers \ {tm}
       ELSE /\ timers' = (timers \ {tm}) \cup {[tm EXCEPT !.left = @ - 1]}
            /\ UNCHANGED <<ssh, mgr>>
    /\ UNCHANGED net

AwaitListener(p) ==
    /\ \E tm \in timers :
          /\ tm.attempt = p
          /\ \/ StaleTick(tm)
             \/ SshExitedTick(tm)
             \/ ListenerUpTick(tm)
             \/ WaitingTick(tm)
    /\ UNCHANGED <<cfgVars, prompts, foreign, app, userMode>>

-----------------------------------------------------------------------------
(* _poll_once: does nothing while connecting, and raises (caught by _poll) *)
(* when ssh is alive but its tunnel is no longer in the configuration.     *)

\* Mutant: the poll looks at a connecting tunnel too.
WatchingAlways == app \in {"running", "quitting"} /\ mgr.active # NoName

Watching == app \in {"running", "quitting"} /\ ~mgr.connecting /\ mgr.active # NoName

TunnelUp ==
    /\ Alive(ssh, mgr.proc)
    /\ Configured(mgr.active)
    /\ PortOpen(ssh, ByName(mgr.active).port)

\* Mutant: the drop forgets the tunnel but not what was delivered for it.
DroppedOnlySsh ==
    /\ ssh' = Killed(ssh, mgr.proc)
    /\ mgr' = [mgr EXCEPT !.proc = NoProc, !.active = NoName]
    /\ UNCHANGED <<cfgVars, net, timers, prompts, foreign, app, userMode>>

Dropped ==
    /\ ssh' = Killed(ssh, mgr.proc)
    /\ net' \in RevertProxy(net)
    /\ mgr' = [mgr EXCEPT !.proc = NoProc, !.active = NoName]
    /\ UNCHANGED <<cfgVars, timers, prompts, foreign, app, userMode>>

PollDrop ==
    /\ Watching
    /\ ~TunnelUp
    /\ Alive(ssh, mgr.proc) => Configured(mgr.active)
    /\ Dropped

PollRulesLost ==
    /\ Watching
    /\ TunnelUp
    /\ net.routing.name = "transparent"
    /\ ~Healthy(net)
    /\ Dropped

\* The check is answered too late, or a probe lost the xtables lock.
PollCheckFailed ==
    /\ "slow_check" \in Faults
    /\ Watching
    /\ TunnelUp
    /\ net.routing.name = "transparent"
    /\ Healthy(net)
    /\ Dropped

-----------------------------------------------------------------------------
(* Configuration handlers *)

\* _on_transparent_toggled: refused without a DNS server; hot-swaps the
\* delivery of an active tunnel.  The lookup of a tunnel that was renamed
\* raises after revert_proxy and before apply_proxy.
Toggle ==
    LET want == ~transparent
    IN  /\ "toggle" \in Ops
        /\ app \in {"running", "quitting"}
        /\ want => dns
        /\ Within(Unnoticed, "unnoticed")
        /\ Within(Pending, "connecting")
        /\ transparent' = want
        /\ IF mgr.active # NoName /\ IsActive(mgr.active)
           THEN IF Configured(mgr.active)
                THEN \E reverted \in RevertProxy(net) :
                        net' \in ApplyProxy(reverted, ByName(mgr.active).port, want)
                ELSE net' \in RevertProxy(net)
           ELSE UNCHANGED net
        /\ UNCHANGED <<tunnels, dns, mgr, timers, prompts, ssh, foreign, app,
                       userMode>>

\* The manager window's controls, which an open dialog blocks.
WindowFree == app = "running" /\ ~Prompting

\* _on_dns_changed
SetDns ==
    /\ "dns" \in Ops
    /\ WindowFree
    /\ dns' = ~dns
    /\ UNCHANGED <<tunnels, transparent, mgr, net, timers, prompts, ssh,
                   foreign, app, userMode>>

\* _validate: no other tunnel has the name or the SOCKS port.  Ports are compared
\* as text, so one that is not spelled the way str() spells it ("01080") passes.
Valid(rec, spelled, others) ==
    \A t \in others : t.name # rec.name /\ (spelled => t.port # rec.port)

Spellings == IF "respell" \in Ops THEN BOOLEAN ELSE {TRUE}

\* _edit_dialog, Save on a new tunnel.
AddTunnel ==
    /\ "add" \in Ops
    /\ WindowFree
    /\ \E rec \in Tunnels, spelled \in Spellings :
          /\ Valid(rec, spelled, tunnels)
          /\ tunnels' = tunnels \cup {rec}
    /\ UNCHANGED <<transparent, dns, mgr, net, timers, prompts, ssh, foreign,
                   app, userMode>>

\* _edit_dialog, Save on an existing one: the record is replaced in the list,
\* whatever tunnel is active.
EditTunnel ==
    /\ "edit" \in Ops
    /\ WindowFree
    /\ \E t \in tunnels, rec \in Tunnels, spelled \in Spellings :
          /\ Valid(rec, spelled, tunnels \ {t})
          /\ Within(t.name = mgr.active /\ (rec.name # t.name \/ rec.port # t.port),
                    "edit_active")
          /\ tunnels' = (tunnels \ {t}) \cup {rec}
    /\ UNCHANGED <<transparent, dns, mgr, net, timers, prompts, ssh, foreign,
                   app, userMode>>

\* _delete: stops the tunnel first if it is active.
DeleteTunnel ==
    /\ "delete" \in Ops
    /\ WindowFree
    /\ \E t \in tunnels :
          /\ tunnels' = tunnels \ {t}
          /\ IF IsActive(t.name)
             THEN /\ ssh' = Killed(ssh, mgr.proc)
                  /\ net' \in RevertProxy(net)
                  /\ mgr' = Idle
             ELSE UNCHANGED <<ssh, net, mgr>>
    /\ UNCHANGED <<transparent, dns, timers, prompts, foreign, app, userMode>>

-----------------------------------------------------------------------------
(* The environment: ssh, netguard, other programs *)

\* ssh has authenticated and bound its SOCKS port.
SshListens ==
    /\ \E x \in ssh :
          /\ ~x.up
          /\ ~PortOpen(ssh, x.port)
          /\ ssh' = (ssh \ {x}) \cup {[x EXCEPT !.up = TRUE]}
    /\ UNCHANGED <<cfgVars, mgr, net, timers, prompts, foreign, app, userMode>>

SshDies ==
    /\ \E x \in ssh : ssh' = ssh \ {x}
    /\ UNCHANGED <<cfgVars, mgr, net, timers, prompts, foreign, app, userMode>>

HelperExit(b) ==
    /\ net.helper[b] = "closing"
    /\ net' = HelperExits(net, b)
    /\ UNCHANGED <<cfgVars, mgr, timers, prompts, ssh, foreign, app, userMode>>

HelperKilled(b) ==
    /\ "helper_lost" \in Faults
    /\ net.helper[b] # "absent"
    /\ net' = HelperLost(net, b)
    /\ UNCHANGED <<cfgVars, mgr, timers, prompts, ssh, foreign, app, userMode>>

RulesVanish ==
    /\ "rules_removed" \in Faults
    /\ net.rules # NoBackend
    /\ net' = RulesRemoved(net)
    /\ UNCHANGED <<cfgVars, mgr, timers, prompts, ssh, foreign, app, userMode>>

ForeignListener ==
    /\ "foreign" \in Faults
    /\ \E port \in Ports :
          \/ /\ ~PortOpen(ssh, port)
             /\ foreign' = foreign \cup {port}
          \/ /\ port \in foreign
             /\ foreign' = foreign \ {port}
    /\ UNCHANGED <<cfgVars, mgr, net, timers, prompts, ssh, app, userMode>>

-----------------------------------------------------------------------------
Init ==
    /\ userMode \in UserModes
    /\ tunnels = FirstTunnels
    /\ transparent \in IF "toggle" \in Ops THEN BOOLEAN ELSE {FALSE}
    /\ dns = TRUE
    /\ mgr = Idle
    /\ net = DeliveryInit(userMode)
    /\ timers = {}
    /\ prompts = <<>>
    /\ ssh = {}
    /\ foreign = {}
    /\ app = "running"

UserStep == Click \/ Quit \/ AnswerPrompt \/ Toggle \/ SetDns \/ AddTunnel
            \/ EditTunnel \/ DeleteTunnel \/ Relaunch

LoopStep == (\E p \in Procs : AwaitListener(p)) \/ PollDrop \/ PollRulesLost
            \/ PollCheckFailed

EnvStep == SshListens \/ SshDies \/ RulesVanish \/ ForeignListener \/ Crash
           \/ \E b \in Backends : HelperExit(b) \/ HelperKilled(b)

Next == UserStep \/ LoopStep \/ EnvStep

\* GLib dispatches every armed timeout and the repeating poll source, which
\* _poll keeps alive by never raising; a helper that read EOF runs to its end.
Fairness ==
    /\ \A p \in Procs : WF_vars(AwaitListener(p))
    /\ WF_vars(PollDrop \/ PollRulesLost)
    /\ \A b \in Backends : WF_vars(HelperExit(b))

Spec == Init /\ [][Next]_vars /\ Fairness

-----------------------------------------------------------------------------
(* Types *)

\* Every variable keeps the shape its Python counterpart has.
TypeOK ==
    /\ tunnels \subseteq Tunnels
    /\ transparent \in BOOLEAN
    /\ dns \in BOOLEAN
    /\ mgr \in [proc : Procs \cup {NoProc}, active : Names \cup {NoName},
               connecting : BOOLEAN]
    /\ net \in DeliveryStates
    /\ timers \subseteq Timers
    /\ prompts \in Seq(Tunnels)
    /\ ssh \subseteq SshStates
    /\ foreign \subseteq Ports
    /\ app \in {"running", "quitting", "exited", "crashed"}
    /\ userMode \in Modes

-----------------------------------------------------------------------------
(* Safety *)

\* While connecting is set, _poll watches nothing, so some armed timer must be
\* the one that will clear it, and it must find a process to look at.  Holds
\* whatever users do, in every window: monitoring is never switched off for good.
ConnectingOwned ==
    mgr.connecting =>
        /\ mgr.proc # NoProc
        /\ \E tm \in timers : tm.name = mgr.active

\* The exclusive model: every ssh this process launched and that still runs is
\* the one in Manager.proc, which stop, drop and quit can kill.
Exclusive == \A x \in ssh : x.child => x.pid = mgr.proc

\* A delivery in place belongs to the tunnel the Manager is watching.
\* Otherwise no poll, stop or quit would ever take it down.
DeliveryOwned == net.routing # NoRouting => mgr.active # NoName

\* And a tunnel that the tray shows as up is delivered, through failed backends,
\* fallbacks and hot-swaps there and back, and is in the configuration, without which
\* _poll_once and the hot-swap raise halfway.
UpIsDelivered ==
    Watching /\ Alive(ssh, mgr.proc) =>
        Configured(mgr.active) /\ net.routing # NoRouting

\* With no tunnel delivered, the desktop is back in the mode the user had,
\* however many starts, drops, hot-swaps and fallbacks came before.  (In the servers
\* the user had entered it is not: ProxyUp clears those for HTTP, ProxyDown SOCKS.)
ModeRestored ==
    app = "running" /\ net.routing = NoRouting =>
        net.mode = userMode /\ net.socks = NoPort

\* on_quit leaves the user's proxy mode and no SOCKS port behind.
NoStaleProxyAfterQuit ==
    app = "exited" => net.mode = userMode /\ net.socks = NoPort

\* on_quit leaves no ssh process behind.
NoSshAfterQuit == app = "exited" => ssh = {}

\* A serving root helper is the one the Manager can ask to tear down: a second
\* one would hold rules or a stdin nobody closes.
HelperOwned ==
    \A b \in Backends : net.helper[b] = "up" => net.routing = Transparent(b)

-----------------------------------------------------------------------------
(* Action properties *)

\* The poll never kills an ssh that is still inside its connect phase, which
\* _await_listener owns.
PollSparesConnecting ==
    [][PollDrop /\ Alive(ssh, mgr.proc) =>
          \A tm \in timers : tm.attempt # mgr.proc]_vars

-----------------------------------------------------------------------------
(* Liveness *)

\* The desktop does not stay pointed at a port nobody listens on.
DeadPortReverted ==
    \A port \in Ports :
        (net.socks = port /\ ~PortOpen(ssh, port))
            ~> (net.socks # port \/ PortOpen(ssh, port))

\* Every connect attempt ends: up, failed, timed out or abandoned.
ConnectResolves == mgr.connecting ~> ~mgr.connecting

\* When the process is gone, by quit or by SIGKILL, the helpers remove the
\* rules without it.
RulesGoneAfterExit ==
    (app \in {"exited", "crashed"}) ~> (net.rules = NoBackend \/ app = "running")

Broken == /\ net.routing.name = "transparent"
          /\ net.rules = NoBackend \/ net.helper[net.routing.id] # "up"

\* Rules or a helper that vanish under a transparent tunnel are noticed: the
\* tunnel stops rather than pretend.
RulesLossNoticed == (Broken /\ ~mgr.connecting) ~> ~Broken

\* Rules are installed, and the helper that can remove them is there.
Removable == net.rules # NoBackend /\ net.helper[net.rules] # "absent"

\* Installed rules without a live tunnel behind them are taken down: the kill
\* switch does not outlive the tunnel, unless the helper itself was killed.
KillSwitchReleased ==
    (Removable /\ ~Alive(ssh, mgr.proc)) ~> (~Removable \/ Alive(ssh, mgr.proc))

-----------------------------------------------------------------------------
(* Refinement *)

Phase == IF mgr.connecting THEN "connecting"
         ELSE IF net.routing # NoRouting THEN "on" ELSE "off"

Service == INSTANCE TunnelService WITH phase <- Phase, delivery <- net.routing.name

\* With users who do not act in a delicate moment, the tray implements the
\* abstract tunnel: every delivery belongs to a tunnel that came through its
\* connect phase and leaves with it, and every connect phase ends.
ImplementsService == Service!Spec
=============================================================================
