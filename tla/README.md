# Tunly in TLA+

Models, checks and proofs about [Tunly](https://github.com/thelinuxer/tunly), a
GNOME tray applet that runs one `ssh -D` tunnel at a time and delivers its SOCKS
port to applications, either through the desktop's proxy setting or, with a root
helper and iptables, to everything on the machine.

What can go wrong in this program is seldom a computation. It is an order: a
timer of an attempt that is over, a click inside a modal dialog, ssh gone two
seconds before the next poll, a quit in between, an iptables command that lost the
xtables lock in the middle of a teardown. The models keep that control and
abstract the rest.

## The system

| Component | Source | State | Operations | Talks to |
|---|---|---|---|---|
| Manager | `src/tunly/__init__.py` | `proc`, `active_name`, `connecting`, `routing`, the configuration, pending GLib timeouts | `start`, `_await_listener`, `stop`, `_poll_once`, toggle, add, edit, delete, quit | ssh (child process), backends (calls), user (GTK handlers) |
| Proxy backend | `routing.py` | `saved_mode`; the desktop's `mode` and SOCKS fields | `up`, `down` | gsettings |
| Transparent backend | `routing.py` | `helper`, `redirector`, the reply queue | `up`, `down`, `health` | helper (JSON over a pipe), redirector (thread) |
| Helper | `netguard.py`, `nmcheck.py` | `_nm_prev`; the kernel's chains; NetworkManager's check | `up`, `down`, `check`, EOF, SIGTERM, `--teardown` | iptables, gdbus, one command at a time |
| Rules | `netfilter.py` | none; what the kernel does with them | `validate`, `up_commands`, `teardown_plan`, `check_plan` | packets |
| Redirector | `redirector.py` | a thread, an asyncio loop, listeners, connections | `start`, `stop`, TCP and DNS handlers | applications, the SOCKS port |
| Configuration | `__init__.py` | `tunnels.json` | load, save, migrate | disk |

What makes each of them hard, and what it must get right:

* **Manager.** Handlers run one at a time on the GLib loop, but every dialog runs
  a *nested* loop in which timers, polls, signals and tray clicks are dispatched.
  A connect attempt is a chain of 400 ms timeouts identified by the tunnel's name
  only. The poll looks at the world every three seconds, so everything in between
  acts on a stale picture. Correct means: one ssh, always reachable from `proc`;
  a connect phase that always ends; a delivery only for the tunnel that is watched;
  the user's proxy mode back afterwards.
* **Backends.** `up` can fail at every step and falls back to the other backend;
  `down` can time out and leave a helper at work, and an answer can come after
  nobody waits for it. Correct means: no rules and no helper that nobody will take
  down, and no stale answer taken for the state of the rules.
* **Helper.** Any command can fail, although it could have worked, when the lock
  is not had within five seconds; `SIGTERM` can come between any two; a
  predecessor or `tunly --repair` can be at work on the same chains. Correct means: the kill
  switch stands whenever the redirect does, all or nothing, and nothing is left at
  the end.
* **Rules.** The first rule that matches decides, two tables and two address
  families are involved, and connections older than the rules bypass one of them.
  Correct means: what the documents say of each kind of traffic, and nothing
  with the real address at any moment in between. Both fall short in one place, which the
  properties name (findings 8 and 9).
* **Redirector.** Its loop lives on a thread that another thread starts and stops
  with timeouts; each connection has two directions that end separately. Correct
  means: listeners that are all there while the rules point at them, and no rules that
  point at what a failed start or a stop leaves behind; nothing lost, nobody left waiting.
* **Configuration.** Every edit is saved before its handler returns.

`PROJECT.json` lists the hazards one by one, each at its line.

## Modules

| Module | What it is |
|---|---|
| `Delivery` | The two backends as operators on a delivery record. An operation with several endings is the set of its outcomes. |
| `Manager` | The tray process: one action per handler, timer round and poll; ssh, helpers and other programs as environment actions. Extends `Delivery`. |
| `TunnelService` | Abstract specification: a tunnel that is off, connecting or on, and a delivery that exists only while it is on. `Manager` implements it (`ImplementsService`). |
| `Routing` | One `TransparentBackend` from `up` to `down`, step by step: the GTK thread, the helper's pipes, the reader thread, the reply queue. Extends `Redirector`; that its calls end as `Delivery` says is a property of it. |
| `Redirector` | The redirector's thread, loop and listeners. |
| `Relay` | One connection redirected to the redirector: a program, the handler, the server. |
| `Netfilter` | The rules of each chain, and what the chains that stand do to a packet. |
| `Netguard` | The helper, command by command, against the kernel's chains and NetworkManager; several helper processes can overlap. Extends `Netfilter`. |
| `FailClosed` | Abstract specification of the traffic as a whole: open, closed or captured, and always closed in between. `Netguard` implements it (`FailsClosed`). |
| `ManagerProofs` | What every operator of `Delivery` returns, and theorems about `Manager` for all values of its constants. |
| `CalmProofs` | Theorems about `Manager` for users who keep out of the windows, and its steps as steps of `TunnelService`. |
| `RoutingProofs` | Theorems about `Routing` and `Redirector`, for every set of mishaps. |
| `RelayProofs` | Theorems about `Relay`, for any amount of data and every set of mishaps. |
| `NetfilterProofs` | Theorems about the rules, for all addresses and ports. |
| `NetguardProofs` | Theorems about `Netguard`, resting on those. |
| `FailClosedProofs` | That `Netguard` implements `FailClosed` when no lock is lost, and what a lost one must not meet. |
| `TeardownProofs` | What a teardown achieves and reports although locks are lost, and what is left when every helper has ended. |
| `MCManager`, `MCNetguard` | Instances for TLC. `Routing` and `Relay` are run as they are. |

The tray is composed in layers. `Manager` sees a transparent backend as the set of
outcomes `Delivery` lists. `Routing` checks that the calls have no other outcome,
with a helper that is all or nothing; `Netguard` checks that it is, command by
command; `Netfilter` says what its commands are good for.

### How Manager corresponds to the code

`mgr` holds the attributes `proc`, `active_name` and `connecting`; `net.routing`
is the attribute `routing`. `timers` is the set of armed `_await_listener`
sources: each carries, as in the code, the tunnel's name and the time left, and
also the attempt that armed it, which no action reads except to tell timers apart.
`prompts` is the stack of `start` calls waiting in a password prompt; only this
dialog has state read before it and used after it, so only it splits its handler.
`ssh` is the process table: a process outlives the tray (`child` becomes FALSE)
because it is started with `start_new_session`. A process is named by a number
from a bounded pool, and a number is used again only when nothing refers to it.

`Start` is `start` up to the launch or the prompt, including the stop it begins
with; `AnswerPrompt` is the rest, with the attributes as they are *then*. The four
disjuncts of `AwaitListener` are the four ways a round can end. `PollDrop`
requires an ssh that is dead or a tunnel that is still configured: otherwise
`_poll_once` raises on the log line and does nothing else. `PollCheckFailed` is a
health check that fails though the rules are intact. A relaunch reads the
configuration as the last handler saved it.

Edits of the port and of the name are modelled on the configuration only, since
handlers look tunnels up by name each time. Ports are compared as text in
`_validate`; `spelled` is FALSE for a port written differently from what `str()`
writes ("01080"), which passes as unused.

### Windows

The code assumes in several places that the user does not act at a bad moment.
`Manager` names those moments, and an instance lists in the constant `Windows`
the ones its users may hit:

| Window | Moment |
|---|---|
| `unnoticed` | ssh died, or its port closed, and no poll has run since |
| `connecting` | a connect attempt is under way, or its timer is still armed |
| `prompting` | a password prompt is open |
| `edit_active` | the active tunnel is renamed or given another port |

With `Windows = {}` every property of the tray holds. Outside it some do not, and
the runs that expect a violation show one each. A window restricts what *users*
do; timers, polls, ssh, helpers and other programs act at every moment.

### How Routing and Redirector correspond to the code

`pc` is where the GTK thread is: in `up` (`start`, `spawn`, `up_send`,
`up_wait`), in `health` (`check_send`, `check_wait`), in `down` (`down`,
`down_send`, `down_wait`, `reap`, `kill`, `release`, `join`) or between calls. Every
wait of the code has a timeout, and a step that gives up while the other side goes
on: `AwaitReply` may see `queue.Empty` at any time, `Reap` a helper that is still
there. `stdin` and `out` are the two pipes, `replies` is the attribute `_replies`; a
reply carries the operation it answers, which the code cannot see and no action
reads. `Get` takes the head of the queue, whatever it answers.

`Kill` is `helper.kill()`: while pkexec still asks, the process is the user's and
dies; afterwards it is root's, and `PermissionError` leaves `down()` (`escaped`).
The helper works on one request at a time, all or nothing; a check can fail on
intact rules (`alarm`).

`Redirector` holds `_run`: the loop is made and `_setup` opens the three listeners one
after the other. Any of them can fail to open; the error is then stored for `start()`, and
the loop and the listeners opened so far stay as they are, for no code closes them. Otherwise
the loop serves until it is told to stop. `_shutdown` closes the two TCP listeners; of the
UDP socket it only schedules the closing, for which the loop does not run again. Then it
closes `self.loop`, an attribute that `stop()` may have set to None meanwhile.

A backend object is used for one `up` and one `down`, as `Manager` does.

### How Relay corresponds to the code

`side[e]` is one end with the handler's connection to it: what is on its way in
either direction, ending in `"eof"`, and what the end has sent, received and been told.
The pumps of `_splice` are the elements of `pumping`; a pump that ends closes the
*other* writer, which sends what was written and then ends both directions
(`Closed`). A dial can succeed, be refused, or be cancelled by `wait_for`, which
leaves the connection to the SOCKS port as it is (`abandoned`). A write to an end that has left may
raise or not. A pump writes the next piece only when `drain` has returned for the ones
before: fewer than `HighWater` pieces are then on their way (`Drained`). While it waits it reads
nothing, and only the end it writes to can end it, by leaving.

### How Netfilter corresponds to the code

`GuardRules`, `Guard6Rules` and `NatRules` are the rules of `up_commands`, line by
line: a rule is the set of packets it matches and a target. The networks of
`PRIVATE_V4` and `LOCAL_V6` are one rule each, since their targets are the same and
adjacent. `Redirected` and `Guarded` are the kernel's part: nat only for
the first packet of a connection, and a redirected packet leaves through loopback
when filter sees it. `Verdict` puts them together for the set of chains that stand.
`Intended` is what the documents promise of a packet, not what the rules do: README.md's
table and, for the carrier and the IPv4 LAN, the design document. `Escaping`, `Mistreated`
and `OlderDirect` are tables over all sets of chains, so that a state only looks its own up.
Where the rules do not keep the promise, the traffic has a name: `LanLookups` are lookups
to resolvers on the IPv4 LAN, which only the redirect stops and the kill switch does not;
`LocalV6Traffic` is what goes to local IPv6 addresses, which the rules let out whatever it is.

### How Netguard corresponds to the code

Each step of a process runs one command of `teardown_plan`, `up_commands`,
`check_plan` or `nmcheck` against `table` and `nm`. `scan` holds the locals of
`_teardown_rules` and `_teardown_pass` (and `missing` of `chains_intact`), `next` is
the position in `bring_up` or in the probes, and `stash` is
`_nm_prev`. A command that works returns `ok`, one that cannot does not, and a
fault ("lock", "bus") makes one fail that could have worked. The rules appended to
a chain before it is jumped to count as one command: until then no packet meets
them. `SIGTERM` can arrive between two commands or during one; the command then goes
on by itself (`orphans`) while the handler tears down. The requests of a helper's
life are `up`, then at most one `check`, then `down`, each of which can be missing,
and EOF, which can come at any time. `up` can be rejected by `validate` before
anything is done. `conntrack -D` is a step that changes nothing in the
chains; what it does to a packet is `Flushed`.

`alone` is bookkeeping: no other process, and no orphaned command, has been at work
since this one started. Properties about what one helper has achieved assume it;
`ReleasedAtExit` and the shape invariant do not.

## Runs

| Run | Question | Result |
|---|---|---|
| `manager_calm` | With users who keep out of the windows, do desktop and kernel follow the tunnel, through fallbacks, hot-swaps, drops, failed checks, killed helpers, prompts and quits? | holds, 201 600 states |
| `manager_races` | Can users at any moment outside a prompt, edits of the active tunnel, crashes and relaunches make the tray lose a process or its monitoring, or leave rules behind? | holds, 178 956 states |
| `manager_unnoticed_quit` | Is the proxy reverted when the user quits before the drop is noticed? | violated |
| `manager_stale_timer` | Does the poll spare a connecting tunnel when another attempt was abandoned? | violated |
| `manager_nested_prompt` | Is there one tunnel when another is started during a prompt? | violated |
| `manager_renamed` | Are vanished rules noticed after the active tunnel was renamed? | violated |
| `netguard` | Do kill switch, packet verdicts, rollback and teardown hold at every step under `--repair` and one fault of any kind? Does the helper implement `FailClosed`? | holds, 1 814 561 states |
| `netguard_exit` | Does a helper always end, with the connectivity check as it was? | holds, 68 808 states |
| `routing` | Can a timeout, a lost helper, vanished rules, a slow thread or a killed tray make a call hang, take a stale reply for its own, end in a way `Manager` does not reckon with, or leave behind anything that rules point at? | holds, 5 685 states |
| `relay` | Does a relayed connection lose data, or leave an end waiting, when ends half-close or leave, dials fail, the tunnel dies? | holds, 44 068 states |
| `netguard_lock` | Is a teardown that reports success right, when two commands lose the lock? | violated |
| `netguard_sigterm` | Is the connectivity check restored after a SIGTERM? | violated |

The six violations are real disagreements between the code and what its
documents, comments or tests say; `PROJECT.json` quotes both under `findings`. Three more
findings are shown by properties that hold, because they say what the code does instead:

* (7) Three places say that without the `conntrack` tool older connections stay direct.
  `OlderStopped` says that the kill switch stops them.
* (8) The documents say that IPv6 is rejected, that ICMP is blocked on the LAN too and that
  DNS is forced through the tunnel. `UpDelivers` says that with the rules up everything is
  treated as documented *except* `LocalV6Traffic`, all of it: TUNLY_GUARD6 lets local IPv6
  addresses through whatever the protocol and port.
* (9) docs/GUIDE.md says that the gap between kill switch and redirect blocks rather than
  leaks. `NoEscape` says that while the guards stand without the redirect `LanLookups` escape,
  exactly these: TUNLY_GUARD returns everything but ICMP to the private networks.

### Bounds

* Two tunnels on two ports, at most two ssh processes or timers at a time
  (`MaxProcs`) and two helpers (`MaxBackends`): enough for an attempt and its
  predecessor, and for a helper still closing while the next one is up. The
  violations need no more. `manager_races` starts with one tunnel on one port,
  because sharing it is what its edits can do wrong, and may add a second tunnel.
* `Ticks` is the number of 400 ms rounds before the deadline, 2 for at least one
  round that waits and one that gives up. `manager_races` has 1: which round gives
  up does not matter to ownership.
* Two nested prompts; more only repeat the pattern.
* `MaxUnhook` and `Attempts` are 2 (16 and 4 in the code), so that both bounds are
  reached: the kernel starts clean, or with the chains of helpers that were killed in
  an earlier session and two jumps stacked on each (`Stacked`).
* Three IPv4 addresses (one outside, the ssh server, one on the LAN), two IPv6
  (outside, LAN) and the ports 22, 53 and 443: one for every case that a rule tells
  apart. The theorems drop this bound.
* `Routing` needs no bound: one backend is used once, and the pipes and the queue hold
  at most three lines, which `TypeOK` states. Each kind of fault can happen as often as it applies.
* `MaxData` is 2 in `Relay`: a piece that is lost and one that arrives, in both directions.
  `HighWater` is 1, so that a pump waits in `drain()` whenever a piece is on its way.
* `MaxFaults` bounds how many things go wrong in a helper's life: one of any kind
  in `netguard`, up to three in `netguard_exit`. Tearing down honestly survives one lost
  lock and not two, which is what `netguard_lock` shows.

### Fairness

`Manager`: weak fairness of every armed timer's round, of the poll and of a helper
that has read EOF. GLib dispatches every armed timeout, and `_poll` catches every
exception and returns True, so its source is never dropped. No fairness is assumed
of users, ssh, or other programs. Since `PollDrop` is disabled when the poll
raises, `manager_renamed` refutes its property under the very fairness that makes
it hold in the calm run.

`Netguard`: weak fairness of each process's own next step and of an orphaned
command. `-w 5` and gdbus's `--timeout 5` bound every command.

`Routing`: weak fairness of the GTK thread within a call (every wait has a timeout),
of the redirector's thread, the reader thread and the helper. None of the user at
pkexec's dialog: `CallsReturn` holds though nobody ever answers it.

`Relay`: weak fairness of the handler, of each pump and of the delivery of what was
written, while the loop runs, so that `drain()` does not wait for ever for an end that is there. None
of the two ends: a connection on which nobody
says anything stays.

### Refinement

`ImplementsService` maps `connecting` to the phase *connecting*, otherwise a
`routing` that is not None to *on* and the rest to *off*; `delivery` is the
backend's name. TLC checks both the steps and the abstract fairness: a connect
phase always ends. It holds with `Windows = {}`; a toggle during the connect phase would
already break it, since the code applies the delivery there and then. That every step
maps to a step or a stutter is a theorem for all constants (`ImplementsServiceSteps`).

`FailsClosed` maps the chains that stand (filled and jumped to) to the mode: *open*
without both guards, *closed* with both, *captured* with the redirect on top; a
redirect without both guards maps to a mode `FailClosed` does not have, which
refutes it. Once two processes have been at work at the same time nothing is claimed
any more. It holds with one lost lock: two in one teardown can leave the redirect
standing while the guards come down. It is a theorem for any number of signals
without lost locks (`FailsClosedHolds`), and for one fault of any kind
(`FailsClosedWithLostLock`).

`OutcomesAsDelivered` relates `Routing` to `Delivery` where a call ends: the state of
the helper, its pipe and its rules is one of the outcomes of `TransparentUp`,
`TransparentFailures` or `TransparentDown`, given which of the helper and the rules
were lost on the way. It is a theorem too (`CallsDeliver`), and the one that ties the
layers: what is proved of `Manager` rests on the outcomes of `Delivery`, and these on the
steps of `Routing`.

## Proofs

`tlapm` checks all of `ManagerProofs`, `CalmProofs`, `RoutingProofs`, `RelayProofs`,
`NetfilterProofs`, `NetguardProofs`, `FailClosedProofs` and `TeardownProofs`. The constants
are only assumed to be what the named assumptions of the modules say (any sets of names,
ports, addresses and processes, any bounds, any subsets of operations, windows and
faults), and what a theorem names besides.

About `Manager`:

* `TypeCorrect`: `Spec => []TypeOK`. Inductive as it stands, given the lemmas
  about `Delivery` that the outcomes of `up`, `down` and their combinations are
  again delivery states, and that a free process number or helper exists where one
  is chosen.
* `ConnectingAlwaysOwned`: `Spec => []ConnectingOwned`. While `connecting` is set,
  the poll looks at nothing; the theorem says that there is then always an armed
  timer of the active tunnel, which will clear it, and a process for that timer to
  look at (`_await_listener` dereferences `proc` without a test). Inductive relative
  to `TypeOK`: the only action that sets the flag arms the timer, and every action
  that removes a timer of the active tunnel clears the flag. It holds in *every*
  window: the stale timer of `manager_stale_timer` can switch monitoring on too
  early, never off for good.
* `ExclusiveModel`: `"prompting" \notin Windows => (Spec => []Exclusive)`.
  `Exclusive` alone is not inductive: answering a prompt launches a process without
  looking at the one that may run. The strengthening `ExclusiveInv` adds
  `PromptsQuiet`, which says that while a prompt is open no child runs; it is
  preserved because `Start` stops the current tunnel before it prompts, and because
  nobody starts another meanwhile. That last point is the theorem's assumption, and
  `manager_nested_prompt` shows what happens without it.

About `Manager` with windows closed. Each theorem names the windows it needs closed and
the faults it cannot stand; `Calm` says that `unnoticed`, `connecting` and `prompting` are.
The edits of the active tunnel (`edit_active`) may stay open in all but the last two.

* `PollNeverKillsConnecting`, with `connecting` and `prompting` closed. Inductive is
  `OneTimer`: there is one timer at most, only while connecting, and none while a prompt
  is open. `manager_stale_timer` shows two.
* `QuitLeavesNoSsh`, with `prompting` closed and no crash: `NoSshAfterQuit` follows from
  `ExclusiveInv` and `OwnSsh`, which says that what runs is a child of this tray.
  A killed tray's ssh belongs to nobody.
* `DeliveryHasTunnel` and `HelperHasBackend`, when `Calm`: `DeliveryOwned` and
  `HelperOwned`. Neither is inductive. `DeliveredInv` adds that nothing is active, hence
  nothing delivered, while a prompt is open, that a tray which is gone holds nothing, and
  that a helper still up is the one the current delivery names. `NetStep` reduces the
  handlers of the tray to a few changes of `net`, and lemmas about `Delivery` say that each
  keeps this.
* `UserModeRestored` and `QuitLeavesNoProxy`, when `Calm` and nobody kills the tray:
  `ModeRestored` and `NoStaleProxyAfterQuit`. `ModeSafe` says where the user's mode is at
  every moment: in place, or in `saved_mode` of the proxy backend that replaced it. This is
  about the mode: the servers the user had entered are overwritten by `up` and stay so. A
  killed tray takes `saved_mode` with it, and its successor saves "manual".
* `ImplementsServiceSteps`, with `Windows = {}`: `Init` and every step refine
  `TunnelService`. `ServiceInv` adds `Watched`: a live ssh of an active tunnel is still
  connecting or is delivered, and its tunnel is configured. Without it the poll could
  raise, or drop a tunnel that is neither connecting nor on.
* `UpStaysDelivered`, likewise: `UpIsDelivered`, which is what `Watched` says of a tunnel
  past its connect phase. A backend that fails is replaced by the other one in the
  same handler, and `by_name(active_name)` is never None where the code uses its result.

About `Routing`, for every subset of its faults:

* `RoutingTypeCorrect` and `RepliesStayInStep`: `TypeOK` with the bounds of both pipes, and
  `InStep`. No reply carries what it answers, so that only counting helps: requests sent,
  the one at work and the answers on their way are never more than the calls have given up
  waiting for (`InFlight` is at most `Owed`). The marker that the reader puts at the end of
  file is the last line if it is there at all, and is there only when the helper has gone
  (`Marked`), so it can be told from an answer.
* `RedirectorOutlivesRules`: `RulesKeepRedirector`, from `Serves` and `Looped` (while the
  backend may have rules, the thread serves, with all listeners, on the loop that the
  attribute refers to).
* `CallsLeaveNothing`: `NothingLeft`, from `Looped` and `Chained` (rules belong to a helper that
  runs, or to one that was killed, and while the redirector is not yet set up, or has
  failed, no helper was ever started). It does not say that nothing of the redirector is
  left: a `_setup` that failed partway keeps its loop and listeners, and `_shutdown` the UDP
  socket. It says that nothing more is, and that no rules point at it.
* `CallsDeliver`: `OutcomesAsDelivered`. `Answered` says that a good reply on its way is to a
  request the helper has carried out, so that an `up` that returns has its rules; the rest
  computes what `Delivery` lists for a single backend (`Cell`).

About `Relay`, for every `MaxData` and subset of its mishaps:

* `RelayTypeCorrect`: `TypeOK`. That a stream ends where it ends, and that an end receives
  no more than the other sent, is not inductive: `Orderly` says which streams can already
  have ended, given the connection and whether the end still sends, and `Flow` that what
  was received, what is on its way out and what has not been read are together no more
  than what the other end sent.
* `RelayedWhole`: `Whole`. It speaks of the end of a connection, where nothing is on its way
  any more, so `Lossless` says it of every moment: a direction whose receiver is still
  sending, and whose sender still reads, has its pump running and then lost nothing
  (`Flow` with equality), or its sender has stopped and all of it was passed on (`Kept`).
  A pump that ends can take the other direction's data with it, since it closes the
  connection that the other pump reads from; but it ends only when its own end has stopped
  sending or the other end no longer reads, and then nothing is promised to its own end.
  The lemmas on streams say what taking, adding and cutting off do to them
  (`CutOff` is what a close does to the unread rest).

About `Netfilter`, with no state at all, by splitting on the address family, on what
the redirect says and on the first rule that matches:

* `KillSwitchHolds`: with both guards standing, redirect or not, nothing to a public
  address leaves by itself, be its connection new or old (`OlderDirect` is empty). With the
  redirect `Escaping` is empty too; without it `Escaping` is `LanLookups`.
* `RulesDeliver`: with all three chains and `SshPort # 53`, what is treated otherwise
  than documented is `LocalV6Traffic`, no less and no more (`Mistreated`). The assumption
  is needed: the DNS redirect stands above the carrier's exemption.

About `Netguard`, for any number of helpers and repairs, any `Stacked`, `MaxUnhook`,
`Attempts`, `Faults` and `MaxFaults`:

* `TypeHolds`: `Spec => []TypeOK`.
* `UpIsIntactHolds`: `Spec => []UpIsIntact`. An "ok" to `up` says something about the
  kernel, which other processes and orphaned commands write as well. The inductive
  invariant `IInv` therefore adds, to the types: a chain that is not there is referred
  to by nothing (`KernelOK`), or "new" would not give an empty chain; while a helper
  that is alone builds, each chain has come exactly as far as `next` says (`Built`);
  and alone means that nobody else runs and no orphan is left, except in the SIGTERM
  handler (`AloneOK`), so that nothing but its own step can change the chains.
  Where the build starts does not matter: a stacked chain makes "new" fail.
* `UpDeliversHolds` and `OlderStoppedHolds`: from that, since the standing chains are
  then all three, with `RulesDeliver` and `KillSwitchHolds`.
* `FailingClosedKeepsIn`: `FailsClosed => []NoEscape`. Whoever implements `FailClosed`
  has both guards up whenever one of the two premises of `NoEscape` holds.

With `"lock" \notin Faults` besides (`LocksHad`), and still any number of SIGTERMs,
SIGKILLs and silences of the bus:

* `FailsClosedHolds`: `Spec => FailsClosed`, and with it `NoEscapeHolds`:
  `Spec => []NoEscape`. That the table is in order now is not inductive: a command whose
  helper was signalled while waiting for it is carried out later, under a SIGTERM handler
  that is taking everything down. `Safe` therefore says what can be left over
  (`KernelSafe`): a removal from a guard only when the redirect is *sealed*, which means that it captures
  nothing and no pending jump can make it; a pending fill of the redirect only while
  nothing jumps to it and nothing is about to; a pending jump only while the guards stand
  or the redirect is empty. It says of a helper (`ProcSafe`) that a teardown past its first
  flush of the redirect has sealed it, and that a build has nothing captured before its
  seventh command. That a removal keeps this, whoever carries it out, is one lemma
  (`CommandKeeps`); that a signal leaves only such commands is another (`InFlightSafe`),
  and rests on the order of the commands up and down. A flush can only fail where
  there is no chain, which is where lost locks would break the argument. The steps then
  follow because a step changes one chain at most: from *open* to *captured*, or back,
  takes two.

With lost locks. Any command can miss its lock, not only one of a teardown, and all faults
count towards `MaxFaults`. `LosesAtMost(n)` says that this is at most n if locks can be lost
at all: it bounds all faults together, so that with `LosesAtMost(1)` a session that misses
a lock meets no signal, and one in which no lock is missed may meet any number of them. `FewJumps` says that the jumps stacked by earlier sessions, and likewise the helpers
of this one, are no more than `MaxUnhook` (16 in the code). A session with more helpers is
outside the theorems, although it could stack more jumps only if more than 16 of them were
killed, each with its jump in place or on its way.

* `JumpsStayFew`: with `FewJumps`, no chain is ever jumped to more than `MaxUnhook` times
  (`Unhookable`), so that one sweep can remove them all. A helper builds once and adds one
  jump to a chain, but it can do that long after: as an orphan of a helper that was killed.
  Inductive is a count (`Bounded`): a chain is still the one of an earlier session, in which
  nobody's "new" succeeds, or its jumps and the helpers that may still add one are together
  no more than the helpers.
* `TeardownHonestHolds`, with `LosesAtMost(1)`: `TeardownHonest`. `Faithful` says how much a
  mistake costs: what stays of a chain costs one lock, and the last look missing it another.
  `netguard_lock` shows that two are enough.
* `RefusedIsCleanHolds`, with `LosesAtMost(2)`, `LosesAtMost(Attempts - 1)` and `FewJumps`:
  `RefusedIsClean`. `Thorough` counts the passes: each one that leaves something cost a
  lock, so that `Attempts` (4) passes are not used up by two, and a jump that stays unseen
  costs three: the probe, the probe after the flush and the listing.
* `FailsClosedWithLostLock` and `NoEscapeWithLostLock`, with `LosesAtMost(1)` and `FewJumps`.
  The proof of `FailsClosedHolds` uses the locks in one place, the flush of the redirect
  that a sweep does before it goes on to the guards; what it needs there is stated as
  `Emptied`. With one fault in all, a flush that is about to fail is the first thing to go
  wrong (`NoMishap`), hence every jump was removed before it and no orphan can add one.
* `ReleasedAtExitHolds`, with `FewJumps`, no SIGTERM, `LosesAtMost(1)` and a second pass to
  make up for it: `ReleasedAtExit`. Here processes overlap, and what one has removed another
  puts back, so that nothing can be said about one teardown. `Released` says instead that
  while a chain is jumped to some process is *keen* to remove the jumps: it has yet to begin
  its last teardown, or has not come to that chain, or has found something and a pass left.
  A process that builds is keen by itself, which is why overlaps do not matter. A SIGTERM
  handler is not: its orphan can add a jump behind it.
* `CheckRestoredHolds`, when the bus answers and no SIGTERM comes: `CheckRestored`.
  `CheckKept` says that a running helper owes the user what is in its stash, or nothing at
  all; between turning the check off and remembering what it was there is one step, and a
  SIGTERM at that step is the run `netguard_sigterm`.

Only model-checked: `ReleasedAtExit` with a SIGTERM, which holds in `netguard` for one
helper and one `--repair`; and all liveness properties, the fairness half of
`ImplementsService` among them (temporal reasoning with fairness and ENABLED is out of the
prover's reach). Neither checked nor proved is what a lost lock together with another fault
does to `FailsClosed`, `TeardownHonest` and `ReleasedAtExit`.

## Not modelled

Widgets, menus, notifications and logging; the words of ssh's command line, the
askpass script and the keyring (only whether a prompt is needed); the self-test;
desktop installation and packaging; the time a handler takes (a helper request can block
the GTK loop for up to a minute, which `CallsReturn` says comes to an end and not when);
more than one tray; the bytes of the
configuration file and its migration from older versions; which address of the ssh host ssh itself connects
to; the bytes of SOCKS and DNS; the UDP side of the DNS listener, where each datagram is a
task of its own that answers or does not; garbage on the helper's pipe.

## Plan

Done: the tray and its abstract specification; the backends by their outcomes and step by
step; the helper, the rules and fail-closed routing; the redirector and a relayed
connection; theorems for every safety property that a passing run checks, and both refinements
step by step.

Left, in order of importance:

1. The migration of the configuration with a crash between its steps.
2. `FailsClosed` and `ReleasedAtExit` with a lost lock and a SIGTERM together.
3. Two trays on one desktop.
