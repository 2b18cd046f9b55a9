----------------------------- MODULE CalmProofs -----------------------------
(***************************************************************************)
(* Proofs about Manager when users do not act in its delicate moments.     *)
(* Each theorem names the windows it needs closed and the faults it cannot *)
(* stand, and no others: the rest of Windows, Ops and Faults is arbitrary. *)
(***************************************************************************)
EXTENDS ManagerProofs

-----------------------------------------------------------------------------
(* One timer at a time *)

\* A user who waits for a connect attempt to end never makes a second timer, and
\* while the timer is armed the poll has nothing to watch.
OneTimer ==
    /\ \A tm, tn \in timers : tm = tn
    /\ timers # {} => mgr.connecting \/ mgr.active = NoName
    /\ Prompting => timers = {} /\ Len(prompts) = 1

\* A step that arms nothing and asks for nothing, and connects no less.
LEMMA NoLaunchTimer ==
  ASSUME OneTimer, UNCHANGED prompts, timers' \subseteq timers,
         mgr' = mgr \/ mgr'.active = NoName \/ timers' = {}
  PROVE  OneTimer'
  BY DEF OneTimer, Prompting

LEMMA LaunchTimer ==
  ASSUME timers = {}, prompts' = <<>>, NEW t, NEW table,
         NEW m \in [proc : Procs \cup {NoProc}, active : Names \cup {NoName},
                    connecting : BOOLEAN],
         Launch(t, table, m)
  PROVE  OneTimer'
  BY DEF Launch, OneTimer, Prompting

LEMMA EndedTimer ==
  ASSUME NEW how, NEW table, NEW final, Ended(how, table, final)
  PROVE  OneTimer'
  BY DEF Ended, OneTimer, Prompting

LEMMA StartTimer ==
  ASSUME TypeOK, OneTimer, {"connecting", "prompting"} \cap Windows = {},
         NEW t \in tunnels, Start(t)
  PROVE  OneTimer'
<1> DEFINE table == IF Alive(ssh, mgr.proc) THEN Killed(ssh, mgr.proc) ELSE ssh
           m == IF Alive(ssh, mgr.proc) THEN Idle ELSE mgr
<1>1. prompts = <<>> /\ timers = {}
  BY DEF Start, Within, Prompting, Pending
<1>2. m \in [proc : Procs \cup {NoProc}, active : Names \cup {NoName},
             connecting : BOOLEAN]
  BY IdleType DEF TypeOK
<1>3. \/ UNCHANGED <<timers, prompts>>
      \/ Launch(t, table, m) /\ UNCHANGED prompts
      \/ UNCHANGED timers /\ prompts' = Append(prompts, t)
  BY DEF Start
<1> HIDE DEF table, m
<1>4. CASE UNCHANGED <<timers, prompts>>
  BY <1>1, <1>4 DEF OneTimer, Prompting
<1>5. CASE Launch(t, table, m) /\ UNCHANGED prompts
  BY <1>1, <1>2, <1>5, LaunchTimer
<1>6. CASE UNCHANGED timers /\ prompts' = Append(prompts, t)
  <2>1. Len(prompts') = 1
    BY <1>1, <1>6
  <2>2. QED
    BY <1>1, <1>6, <2>1 DEF OneTimer
<1>7. QED
  BY <1>3, <1>4, <1>5, <1>6

LEMMA AnswerPromptTimer ==
  ASSUME TypeOK, OneTimer, AnswerPrompt
  PROVE  OneTimer'
<1> DEFINE t == prompts[Len(prompts)]
           outer == SubSeq(prompts, 1, Len(prompts) - 1)
<1>1. timers = {} /\ outer = <<>>
  BY OuterPrompts DEF AnswerPrompt, TypeOK, OneTimer
<1>2. CASE app = "quitting"
  BY <1>1, <1>2, EndedTimer DEF AnswerPrompt
<1>3. CASE app # "quitting"
  <2>1. prompts' = <<>> /\ (UNCHANGED <<ssh, mgr, timers>> \/ Launch(t, ssh, mgr))
    BY <1>1, <1>3 DEF AnswerPrompt
  <2> HIDE DEF t
  <2>2. QED
    BY <1>1, <2>1, LaunchTimer DEF OneTimer, Prompting, TypeOK
<1>4. QED
  BY <1>2, <1>3

LEMMA AwaitListenerTimer ==
  ASSUME TypeOK, OneTimer, NEW p \in Procs, AwaitListener(p)
  PROVE  OneTimer'
<1>1. PICK tm \in timers : StaleTick(tm) \/ SshExitedTick(tm)
                           \/ ListenerUpTick(tm) \/ WaitingTick(tm)
  BY DEF AwaitListener
<1>2. UNCHANGED prompts /\ timers \ {tm} = {}
  BY DEF AwaitListener, OneTimer
<1>3. CASE timers' = timers \ {tm}
  BY <1>2, <1>3, NoLaunchTimer
<1>4. CASE /\ timers' = (timers \ {tm}) \cup {[tm EXCEPT !.left = @ - 1]}
           /\ UNCHANGED mgr
  BY <1>2, <1>4 DEF OneTimer, Prompting
<1>5. QED
  BY <1>1, <1>3, <1>4 DEF StaleTick, SshExitedTick, ListenerUpTick, WaitingTick

LEMMA NextTimer ==
  ASSUME TypeOK, OneTimer, {"connecting", "prompting"} \cap Windows = {}, [Next]_vars
  PROVE  OneTimer'
<1>1. CASE Click
  BY <1>1, StartTimer, NoLaunchTimer DEF Click, Stop, Idle
<1>2. CASE Quit
  BY <1>2, EndedTimer DEF Quit, Within
<1>3. CASE AnswerPrompt
  BY <1>3, AnswerPromptTimer
<1>4. CASE \E p \in Procs : AwaitListener(p)
  BY <1>4, AwaitListenerTimer
<1>5. CASE PollDrop \/ PollRulesLost \/ PollCheckFailed
  <2>1. mgr'.active = NoName /\ UNCHANGED <<timers, prompts>>
    BY <1>5 DEF PollDrop, PollRulesLost, PollCheckFailed, Dropped, TypeOK
  <2>2. QED
    BY <2>1, NoLaunchTimer
<1>6. CASE DeleteTunnel
  BY <1>6, NoLaunchTimer DEF DeleteTunnel, Idle
<1>7. CASE Crash
  BY <1>7, EndedTimer DEF Crash
<1>8. CASE \/ Toggle \/ SetDns \/ AddTunnel \/ EditTunnel \/ Relaunch
           \/ SshListens \/ SshDies \/ RulesVanish \/ ForeignListener
           \/ \E b \in Backends : HelperExit(b) \/ HelperKilled(b)
           \/ UNCHANGED vars
  <2>1. UNCHANGED <<mgr, timers, prompts>>
    BY <1>8 DEF Toggle, SetDns, AddTunnel, EditTunnel, Relaunch, SshListens,
       SshDies, RulesVanish, ForeignListener, HelperExit, HelperKilled, vars
  <2>2. QED
    BY <2>1, NoLaunchTimer
<1>9. QED
  BY <1>1, <1>2, <1>3, <1>4, <1>5, <1>6, <1>7, <1>8
     DEF Next, UserStep, LoopStep, EnvStep

LEMMA OneTimerHolds ==
  ASSUME {"connecting", "prompting"} \cap Windows = {}
  PROVE  Spec => []OneTimer
<1>1. Init => OneTimer
  BY DEF Init, OneTimer, Prompting
<1>2. TypeOK /\ OneTimer /\ [Next]_vars => OneTimer'
  BY NextTimer
<1>3. QED
  BY <1>1, <1>2, TypeCorrect, PTL DEF Spec

\* _poll never drops an ssh that _await_listener is still waiting for, as long as no
\* user starts a tunnel while another is connecting or a password prompt is open.
\* That ssh may have died unnoticed, or the tunnel been renamed, and any fault may
\* have struck.  With "connecting" open it is false: the run
\* manager_stale_timer shows how.
THEOREM PollNeverKillsConnecting ==
  ASSUME {"connecting", "prompting"} \cap Windows = {}
  PROVE  Spec => PollSparesConnecting
<1>1. OneTimer /\ PollDrop => timers = {}
  BY DEF OneTimer, PollDrop, Watching
<1>2. OneTimer /\ [Next]_vars =>
        [PollDrop /\ Alive(ssh, mgr.proc) =>
            \A tm \in timers : tm.attempt # mgr.proc]_vars
  BY <1>1
<1>3. QED
  BY <1>2, OneTimerHolds, PTL DEF Spec, PollSparesConnecting

-----------------------------------------------------------------------------
(* No ssh survives a quit *)

\* Unless the tray is killed, every ssh is its own child, and after a quit there is
\* none.  A quit is not accepted while a prompt is open, so the main loop is never
\* left with a nested one still turning.
OwnSsh ==
    /\ app # "quitting"
    /\ \A x \in ssh : x.child
    /\ app = "exited" => ssh = {} /\ prompts = <<>>

LEMMA ChildrenGone ==
  ASSUME ExclusiveInv, OwnSsh
  PROVE  /\ Killed(ssh, mgr.proc) = {}
         /\ ~Alive(ssh, mgr.proc) => ssh = {}
<1>1. \A x \in ssh : x.child
  BY DEF OwnSsh
<1>2. Killed(ssh, mgr.proc) \subseteq ssh
  BY DEF Killed
<1>3. NoChild(Killed(ssh, mgr.proc)) /\ (~Alive(ssh, mgr.proc) => NoChild(ssh))
  BY NoChildWithoutProc DEF ExclusiveInv
<1>4. QED
  BY <1>1, <1>2, <1>3 DEF NoChild

LEMMA EndedSsh ==
  ASSUME NEW final, Ended("exited", {}, final)
  PROVE  OwnSsh'
  BY DEF Ended, Orphaned, OwnSsh

\* A step that launches nothing while the process runs on.
LEMMA NoLaunchSsh ==
  ASSUME OwnSsh, UNCHANGED <<app, prompts>>, ssh' \subseteq ssh
  PROVE  OwnSsh'
  BY DEF OwnSsh

LEMMA LaunchSsh ==
  ASSUME NEW t, NEW table, NEW m, \A x \in table : x.child, Launch(t, table, m),
         app \notin {"quitting", "exited"}, UNCHANGED app
  PROVE  OwnSsh'
<1>1. \A x \in ssh' : x.child
  BY DEF Launch
<1>2. QED
  BY <1>1 DEF OwnSsh

LEMMA StartSsh ==
  ASSUME OwnSsh, NEW t \in tunnels, app \in {"running", "quitting"}, Start(t)
  PROVE  OwnSsh'
<1> DEFINE table == IF Alive(ssh, mgr.proc) THEN Killed(ssh, mgr.proc) ELSE ssh
           m == IF Alive(ssh, mgr.proc) THEN Idle ELSE mgr
<1>1. table \subseteq ssh
  BY DEF Killed
<1>2. ssh' = table \/ Launch(t, table, m)
  BY DEF Start
<1>3. UNCHANGED app
  BY DEF Start
<1> HIDE DEF table, m
<1>4. QED
  BY <1>1, <1>2, <1>3, LaunchSsh DEF OwnSsh

LEMMA QuitSsh ==
  ASSUME ExclusiveInv, OwnSsh, "prompting" \notin Windows, Quit
  PROVE  OwnSsh'
<1> DEFINE table == IF Alive(ssh, mgr.proc) THEN Killed(ssh, mgr.proc) ELSE ssh
<1>1. table = {}
  BY ChildrenGone
<1>2. PICK final : Ended("exited", table, final)
  BY DEF Quit, Within
<1> HIDE DEF table
<1>3. QED
  BY <1>1, <1>2, EndedSsh

LEMMA AnswerPromptSsh ==
  ASSUME OwnSsh, AnswerPrompt
  PROVE  OwnSsh'
<1> DEFINE t == prompts[Len(prompts)]
<1>1. app \notin {"quitting", "exited"} /\ UNCHANGED app
  BY DEF OwnSsh, AnswerPrompt, Prompting
<1>2. UNCHANGED ssh \/ Launch(t, ssh, mgr)
  BY <1>1 DEF AnswerPrompt
<1> HIDE DEF t
<1>3. QED
  BY <1>1, <1>2, LaunchSsh DEF OwnSsh

LEMMA SshListensOwn ==
  ASSUME TypeOK, OwnSsh, SshListens
  PROVE  OwnSsh'
<1>1. PICK x \in ssh : ssh' = (ssh \ {x}) \cup {[x EXCEPT !.up = TRUE]}
  BY DEF SshListens
<1>2. [x EXCEPT !.up = TRUE].child = x.child
  BY DEF TypeOK, SshStates
<1>3. QED
  BY <1>1, <1>2 DEF SshListens, OwnSsh

LEMMA NextSsh ==
  ASSUME TypeOK, ExclusiveInv, OwnSsh, "prompting" \notin Windows,
         "crash" \notin Faults, [Next]_vars
  PROVE  OwnSsh'
<1>1. CASE Click
  BY <1>1, StartSsh, NoLaunchSsh DEF Click, Stop, Killed
<1>2. CASE Quit
  BY <1>2, QuitSsh
<1>3. CASE AnswerPrompt
  BY <1>3, AnswerPromptSsh
<1>4. CASE SshListens
  BY <1>4, SshListensOwn
<1>5. CASE Relaunch
  BY <1>5 DEF Relaunch, OwnSsh
<1>6. CASE LoopStep
  BY <1>6, NoLaunchSsh DEF LoopStep, AwaitListener, StaleTick, SshExitedTick,
     ListenerUpTick, WaitingTick, PollDrop, PollRulesLost, PollCheckFailed, Dropped,
     Killed
<1>7. CASE DeleteTunnel
  BY <1>7, NoLaunchSsh DEF DeleteTunnel, Killed
<1>8. CASE \/ Toggle \/ SetDns \/ AddTunnel \/ EditTunnel
           \/ SshDies \/ RulesVanish \/ ForeignListener
           \/ \E b \in Backends : HelperExit(b) \/ HelperKilled(b)
           \/ UNCHANGED vars
  <2>1. UNCHANGED <<app, prompts>> /\ ssh' \subseteq ssh
    BY <1>8 DEF Toggle, SetDns, AddTunnel, EditTunnel, SshDies, RulesVanish,
       ForeignListener, HelperExit, HelperKilled, vars
  <2>2. QED
    BY <2>1, NoLaunchSsh
<1>9. CASE Crash
  BY <1>9 DEF Crash
<1>10. QED
  BY <1>1, <1>2, <1>3, <1>4, <1>5, <1>6, <1>7, <1>8, <1>9
     DEF Next, UserStep, EnvStep

\* on_quit leaves no ssh process behind, whatever was connecting, connected or dying
\* at that moment, unless a password prompt was open or an earlier tray was killed
\* (its ssh survives it and belongs to nobody).
THEOREM QuitLeavesNoSsh ==
  ASSUME "prompting" \notin Windows, "crash" \notin Faults
  PROVE  Spec => []NoSshAfterQuit
<1>1. Init => OwnSsh
  BY DEF Init, OwnSsh
<1>2. TypeOK /\ ExclusiveInv /\ OwnSsh /\ [Next]_vars => OwnSsh'
  BY NextSsh
<1>3. OwnSsh => NoSshAfterQuit
  BY DEF OwnSsh, NoSshAfterQuit
<1>4. QED
  BY <1>1, <1>2, <1>3, TypeCorrect, ExclusiveInvHolds, PTL DEF Spec

-----------------------------------------------------------------------------
(* The delivery belongs to the tunnel the Manager watches *)

\* A tray that is gone watches nothing, waits for nothing and asks for nothing.
GoneIsIdle ==
    app \in {"exited", "crashed"} => mgr = Idle /\ timers = {} /\ prompts = <<>>

LEMMA NextGone ==
  ASSUME GoneIsIdle, [Next]_vars
  PROVE  GoneIsIdle'
<1>1. CASE Click
  BY <1>1 DEF Click, Start, Stop, GoneIsIdle
<1>2. CASE Quit \/ AnswerPrompt \/ Crash
  BY <1>2 DEF Quit, AnswerPrompt, Crash, Ended, Prompting, GoneIsIdle
<1>3. CASE LoopStep
  BY <1>3 DEF LoopStep, AwaitListener, PollDrop, PollRulesLost, PollCheckFailed,
     Watching, Dropped, GoneIsIdle
<1>4. CASE DeleteTunnel \/ Relaunch
  BY <1>4 DEF DeleteTunnel, WindowFree, Relaunch, GoneIsIdle
<1>5. CASE \/ Toggle \/ SetDns \/ AddTunnel \/ EditTunnel \/ SshListens \/ SshDies
           \/ RulesVanish \/ ForeignListener
           \/ \E b \in Backends : HelperExit(b) \/ HelperKilled(b)
           \/ UNCHANGED vars
  <2>1. UNCHANGED <<mgr, timers, prompts, app>>
    BY <1>5 DEF Toggle, SetDns, AddTunnel, EditTunnel, SshListens, SshDies,
       RulesVanish, ForeignListener, HelperExit, HelperKilled, vars
  <2>2. QED
    BY <2>1 DEF GoneIsIdle
<1>6. QED
  BY <1>1, <1>2, <1>3, <1>4, <1>5 DEF Next, UserStep, EnvStep

\* The windows in which a user meets a tunnel that is not yet up, or not any more.
Calm == {"unnoticed", "connecting", "prompting"} \cap Windows = {}

\* What is delivered is delivered for an active tunnel past its connect phase, and
\* its helper is the one that serves.  Nothing is active while a password is asked
\* for: start() dropped the tunnel before.
Attended ==
    /\ net.routing # NoRouting => mgr.active # NoName /\ ~mgr.connecting
    /\ Prompting => mgr.active = NoName /\ ~mgr.connecting

Delivered == Attended /\ Owns(net)

DeliveredInv == TypeOK /\ OneTimer /\ GoneIsIdle /\ Delivered

\* An armed timer, an open prompt or a tunnel that is not active means no delivery.
LEMMA NotDelivered ==
  ASSUME DeliveredInv, timers # {} \/ Prompting \/ mgr.active = NoName
  PROVE  net.routing = NoRouting
  BY DEF DeliveredInv, Delivered, Attended, OneTimer

\* With no ssh behind proc and nothing unnoticed, nothing is delivered.
LEMMA DeadNotDelivered ==
  ASSUME DeliveredInv, ~Alive(ssh, mgr.proc), ~Unnoticed
  PROVE  net.routing = NoRouting
  BY DEF DeliveredInv, Delivered, Attended, Unnoticed

\* By the time start() launches or asks, the tunnel before is down.
LEMMA StartTakesDown ==
  ASSUME DeliveredInv, Calm, NEW t \in tunnels, Start(t)
  PROVE  LET exclusive == Alive(ssh, mgr.proc)
             table == IF exclusive THEN Killed(ssh, mgr.proc) ELSE ssh
             m == IF exclusive THEN Idle ELSE mgr
         IN  /\ timers = {} /\ prompts = <<>> /\ ~mgr.connecting
             /\ m \in [proc : Procs \cup {NoProc}, active : Names \cup {NoName},
                       connecting : BOOLEAN]
             /\ m.active = NoName /\ ~m.connecting
             /\ net' \in RevertProxy(net)
             /\ net'.routing = NoRouting
             /\ \/ mgr' = m /\ UNCHANGED <<timers, prompts>>
                \/ Launch(t, table, m) /\ UNCHANGED prompts
                \/ mgr' = m /\ UNCHANGED timers /\ prompts' = Append(prompts, t)
<1> DEFINE table == IF Alive(ssh, mgr.proc) THEN Killed(ssh, mgr.proc) ELSE ssh
           m == IF Alive(ssh, mgr.proc) THEN Idle ELSE mgr
<1>1. timers = {} /\ prompts = <<>> /\ ~mgr.connecting /\ ~Unnoticed
  BY DEF Start, Calm, Within, Pending, Prompting
<1>2. CASE Alive(ssh, mgr.proc)
  <2>1. net' \in RevertProxy(net)
    BY <1>2 DEF Start
  <2>2. m = Idle
    BY <1>2
  <2>3. QED
    BY <1>1, <2>1, <2>2, IdleType, RevertedRouting
       DEF Start, Idle, DeliveredInv, TypeOK
<1>3. CASE ~Alive(ssh, mgr.proc)
  <2>1. mgr.active = NoName
    BY <1>1, <1>3 DEF Unnoticed
  <2>2. net' = net /\ net.routing = NoRouting
    BY <1>1, <1>3, DeadNotDelivered DEF Start
  <2>3. net' \in RevertProxy(net)
    BY <2>2, RoutingsDiffer DEF RevertProxy
  <2>4. m = mgr
    BY <1>3
  <2>5. QED
    BY <1>1, <2>1, <2>2, <2>3, <2>4 DEF Start, DeliveredInv, TypeOK
<1>4. QED
  BY <1>2, <1>3

\* Apply(before): an outcome of apply_proxy from there, for some port and mode.
Applied(before) ==
    UNION {ApplyProxy(before, port, want) : port \in Ports, want \in BOOLEAN}

\* What becomes of the delivery in one step of a tray nobody kills: it is taken
\* down, brought up, swapped, touched from outside, or left to the helpers by a
\* process that ends.  A process only ends, and apply_proxy is only called, with
\* nothing delivered.
DeliveryStep(before, after) ==
    \/ after = before
    \/ after \in RevertProxy(before)
    \/ before.routing = NoRouting /\ after \in Applied(before)
    \/ \E reverted \in RevertProxy(before) : after \in Applied(reverted)
    \/ after \in {HelperExits(before, b) : b \in Backends} \cup
                 {HelperLost(before, b) : b \in Backends} \cup {RulesRemoved(before)}
    \/ \E final \in RevertProxy(before) \cup {before} :
          final.routing = NoRouting /\ after = ProcessGone(final)

LEMMA QuitDelivery ==
  ASSUME DeliveredInv, Calm, Quit
  PROVE  /\ ~Prompting
         /\ \E final \in RevertProxy(net) \cup {net} :
               final.routing = NoRouting /\ net' = ProcessGone(final)
         /\ mgr' = Idle /\ timers' = {} /\ prompts' = <<>>
<1>1. ~Prompting /\ ~Unnoticed
  BY DEF Quit, Calm, Within
<1> DEFINE table == IF Alive(ssh, mgr.proc) THEN Killed(ssh, mgr.proc) ELSE ssh
<1>2. PICK final \in IF Alive(ssh, mgr.proc) THEN RevertProxy(net) ELSE {net} :
         Ended("exited", table, final)
  BY <1>1 DEF Quit
<1>3. final.routing = NoRouting
  BY <1>1, <1>2, RevertedRouting, DeadNotDelivered DEF DeliveredInv, TypeOK
<1>4. QED
  BY <1>1, <1>2, <1>3 DEF Ended

LEMMA AnswerPromptDelivery ==
  ASSUME DeliveredInv, AnswerPrompt
  PROVE  /\ net.routing = NoRouting /\ timers = {} /\ prompts' = <<>>
         /\ mgr.active = NoName /\ ~mgr.connecting
         /\ \/ net' = ProcessGone(net) /\ mgr' = Idle /\ timers' = {}
            \/ net' = net /\ UNCHANGED <<mgr, timers>>
            \/ net' = net /\ Launch(prompts[Len(prompts)], ssh, mgr)
<1>1. /\ net.routing = NoRouting /\ timers = {}
      /\ mgr.active = NoName /\ ~mgr.connecting
  BY NotDelivered DEF AnswerPrompt, DeliveredInv, OneTimer, Delivered, Attended
<1>2. SubSeq(prompts, 1, Len(prompts) - 1) = <<>>
  BY OuterPrompts DEF AnswerPrompt, DeliveredInv, OneTimer, TypeOK
<1>3. QED
  BY <1>1, <1>2 DEF AnswerPrompt, Ended

LEMMA AwaitListenerDelivery ==
  ASSUME DeliveredInv, NEW p \in Procs, AwaitListener(p)
  PROVE  net.routing = NoRouting /\ (net' = net \/ net' \in Applied(net))
<1>1. PICK tm \in timers : StaleTick(tm) \/ SshExitedTick(tm)
                           \/ ListenerUpTick(tm) \/ WaitingTick(tm)
  BY DEF AwaitListener
<1>2. CASE ListenerUpTick(tm)
  <2>1. ByName(tm.name).port \in Ports
    BY <1>2, ByNameType DEF ListenerUpTick, Current, DeliveredInv, TypeOK, Tunnels
  <2>2. net' \in ApplyProxy(net, ByName(tm.name).port, transparent)
        /\ transparent \in BOOLEAN
    BY <1>2 DEF ListenerUpTick, DeliveredInv, TypeOK
  <2>3. net' \in Applied(net)
    BY <2>1, <2>2 DEF Applied
  <2>4. QED
    BY <2>3, NotDelivered
<1>3. CASE StaleTick(tm) \/ SshExitedTick(tm) \/ WaitingTick(tm)
  BY <1>3, NotDelivered DEF StaleTick, SshExitedTick, WaitingTick
<1>4. QED
  BY <1>1, <1>2, <1>3

LEMMA ToggleDelivery ==
  ASSUME DeliveredInv, Toggle
  PROVE  \/ net' = net
         \/ net' \in RevertProxy(net)
         \/ \E reverted \in RevertProxy(net) : net' \in Applied(reverted)
<1>1. CASE mgr.active # NoName /\ IsActive(mgr.active) /\ Configured(mgr.active)
  <2>1. ByName(mgr.active).port \in Ports
    BY <1>1, ByNameType DEF DeliveredInv, TypeOK, Tunnels
  <2>2. PICK reverted \in RevertProxy(net) :
           net' \in ApplyProxy(reverted, ByName(mgr.active).port, ~transparent)
    BY <1>1 DEF Toggle
  <2>3. \A want \in BOOLEAN : ApplyProxy(reverted, ByName(mgr.active).port, want)
                              \subseteq Applied(reverted)
    BY <2>1 DEF Applied
  <2>4. (~transparent) \in BOOLEAN
    OBVIOUS
  <2>5. QED
    BY <2>2, <2>3, <2>4
<1>2. CASE ~(mgr.active # NoName /\ IsActive(mgr.active) /\ Configured(mgr.active))
  BY <1>2 DEF Toggle
<1>3. QED
  BY <1>1, <1>2

LEMMA NetStep ==
  ASSUME DeliveredInv, Calm, [Next]_vars
  PROVE  DeliveryStep(net, net') \/ Crash
<1>1. CASE Click
  BY <1>1, StartTakesDown DEF Click, Stop, DeliveryStep
<1>2. CASE Quit
  BY <1>2, QuitDelivery DEF DeliveryStep
<1>3. CASE AnswerPrompt
  BY <1>3, AnswerPromptDelivery DEF DeliveryStep
<1>4. CASE \E p \in Procs : AwaitListener(p)
  BY <1>4, AwaitListenerDelivery DEF DeliveryStep
<1>5. CASE PollDrop \/ PollRulesLost \/ PollCheckFailed
  BY <1>5 DEF PollDrop, PollRulesLost, PollCheckFailed, Dropped, DeliveryStep
<1>6. CASE Toggle
  BY <1>6, ToggleDelivery DEF DeliveryStep
<1>7. CASE DeleteTunnel
  BY <1>7 DEF DeleteTunnel, DeliveryStep
<1>8. CASE RulesVanish \/ \E b \in Backends : HelperExit(b) \/ HelperKilled(b)
  BY <1>8 DEF RulesVanish, HelperExit, HelperKilled, DeliveryStep
<1>9. CASE \/ SetDns \/ AddTunnel \/ EditTunnel \/ Relaunch \/ SshListens \/ SshDies
           \/ ForeignListener \/ UNCHANGED vars
  <2>1. UNCHANGED net
    BY <1>9 DEF SetDns, AddTunnel, EditTunnel, Relaunch, SshListens, SshDies,
       ForeignListener, vars
  <2>2. QED
    BY <2>1 DEF DeliveryStep
<1>10. QED
  BY <1>1, <1>2, <1>3, <1>4, <1>5, <1>6, <1>7, <1>8, <1>9
     DEF Next, UserStep, LoopStep, EnvStep

\* Such a step keeps the serving helper with its backend and the user's mode safe.
LEMMA DeliveryStepKeeps ==
  ASSUME NEW before \in DeliveryStates, NEW after, Owns(before),
         DeliveryStep(before, after)
  PROVE  /\ Owns(after)
         /\ \A mode \in Modes : Remembers(before, mode) => Remembers(after, mode)
<1>1. CASE after = before
  BY <1>1
<1>2. CASE after \in RevertProxy(before)
  BY <1>2, RevertOwns, RevertRemembers
<1>3. ASSUME NEW n \in DeliveryStates, n.routing = NoRouting, Owns(n),
             after \in Applied(n)
      PROVE  Owns(after) /\ \A mode : Remembers(n, mode) => Remembers(after, mode)
  BY <1>3, ApplyDelivers DEF Applied
<1>4. CASE before.routing = NoRouting /\ after \in Applied(before)
  BY <1>3, <1>4
<1>5. CASE \E reverted \in RevertProxy(before) : after \in Applied(reverted)
  <2>1. PICK reverted \in RevertProxy(before) : after \in Applied(reverted)
    BY <1>5
  <2>2. /\ reverted \in DeliveryStates
        /\ reverted.routing = NoRouting
        /\ Owns(reverted)
    BY RevertProxyType, RevertedRouting, RevertOwns
  <2>3. QED
    BY <1>3, <2>1, <2>2, RevertRemembers
<1>6. CASE after \in {HelperExits(before, b) : b \in Backends} \cup
                     {HelperLost(before, b) : b \in Backends} \cup
                     {RulesRemoved(before)}
  BY <1>6, HelperStepFields
<1>7. CASE \E final \in RevertProxy(before) \cup {before} :
              final.routing = NoRouting /\ after = ProcessGone(final)
  <2>1. PICK final \in RevertProxy(before) \cup {before} :
           final.routing = NoRouting /\ after = ProcessGone(final)
    BY <1>7
  <2>2. final \in DeliveryStates
    BY RevertProxyType
  <2>3. \A mode \in Modes : Remembers(before, mode) => Remembers(final, mode)
    BY <2>1, RevertRemembers
  <2>4. QED
    BY <2>1, <2>2, <2>3, ProcessGoneFields, RoutingsDiffer DEF Remembers
<1>8. QED
  BY <1>1, <1>2, <1>4, <1>5, <1>6, <1>7 DEF DeliveryStep

LEMMA EndedDelivered ==
  ASSUME DeliveredInv, NEW final \in RevertProxy(net) \cup {net},
         net' = ProcessGone(final), mgr' = Idle
  PROVE  Attended'
<1>1. final \in DeliveryStates
  BY RevertProxyType DEF DeliveredInv, TypeOK
<1>2. net'.routing = NoRouting
  BY <1>1, ProcessGoneFields
<1>3. QED
  BY <1>2 DEF Attended, Idle

LEMMA AwaitListenerDelivered ==
  ASSUME DeliveredInv, NEW p \in Procs, AwaitListener(p)
  PROVE  Attended'
<1>1. PICK tm \in timers : StaleTick(tm) \/ SshExitedTick(tm)
                           \/ ListenerUpTick(tm) \/ WaitingTick(tm)
  BY DEF AwaitListener
<1>2. ~Prompting'
  BY DEF AwaitListener, DeliveredInv, OneTimer, Prompting
<1>3. CASE ListenerUpTick(tm)
  <2>1. mgr.active # NoName
    BY <1>3, ManagerAssumption DEF ListenerUpTick, Current, DeliveredInv, TypeOK, Timers
  <2>2. mgr'.active = mgr.active /\ ~mgr'.connecting
    BY <1>3 DEF ListenerUpTick, DeliveredInv, TypeOK
  <2>3. QED
    BY <1>2, <2>1, <2>2 DEF Attended
<1>4. CASE StaleTick(tm) \/ SshExitedTick(tm) \/ WaitingTick(tm)
  <2>1. net'.routing = NoRouting
    BY <1>4, NotDelivered DEF StaleTick, SshExitedTick, WaitingTick
  <2>2. QED
    BY <1>2, <2>1 DEF Attended
<1>5. QED
  BY <1>1, <1>3, <1>4

LEMMA ToggleDelivered ==
  ASSUME DeliveredInv, Calm, Toggle
  PROVE  Attended'
<1>1. ~mgr.connecting /\ UNCHANGED <<mgr, prompts>>
  BY DEF Toggle, Calm, Within, Pending
<1>2. CASE mgr.active # NoName
  BY <1>1, <1>2 DEF Attended, DeliveredInv, Delivered, Prompting
<1>3. CASE mgr.active = NoName
  BY <1>1, <1>3 DEF Toggle, Attended, DeliveredInv, Delivered, Prompting
<1>4. QED
  BY <1>2, <1>3

\* stop, a drop and _delete of the active tunnel.
LEMMA TakenDownDelivered ==
  ASSUME DeliveredInv, net' \in RevertProxy(net), UNCHANGED prompts,
         mgr' = Idle \/ mgr' = [mgr EXCEPT !.proc = NoProc, !.active = NoName]
  PROVE  Attended'
<1>1. net'.routing = NoRouting
  BY RevertedRouting DEF DeliveredInv, TypeOK
<1>2. mgr'.active = NoName /\ mgr'.connecting \in {mgr.connecting, FALSE}
  <2>1. CASE mgr' = Idle
    BY <2>1 DEF Idle
  <2>2. CASE mgr' = [mgr EXCEPT !.proc = NoProc, !.active = NoName]
    BY <2>2 DEF DeliveredInv, TypeOK
  <2>3. QED
    BY <2>1, <2>2
<1>3. Prompting' => Prompting
  BY DEF Prompting
<1>4. QED
  BY <1>1, <1>2, <1>3 DEF DeliveredInv, Delivered, Attended

LEMMA SameDelivered ==
  ASSUME DeliveredInv, UNCHANGED <<mgr, prompts>>, net'.routing = net.routing
  PROVE  Attended'
  BY DEF DeliveredInv, Delivered, Attended, Prompting

LEMMA NextDelivered ==
  ASSUME DeliveredInv, Calm, [Next]_vars
  PROVE  Delivered'
<1>1. Owns(net')
  <2>1. net \in DeliveryStates /\ Owns(net)
    BY DEF DeliveredInv, TypeOK, Delivered
  <2>2. CASE Crash
    BY <2>1, <2>2, ProcessGoneFields DEF Crash, Ended
  <2>3. QED
    BY <2>1, <2>2, NetStep, DeliveryStepKeeps
<1>2. Attended'
  <2>1. CASE Click
    <3>1. PICK t \in tunnels : Start(t) \/ Stop(t)
      BY <2>1 DEF Click
    <3>2. CASE Start(t)
      <4>1. net'.routing = NoRouting
        BY <3>2, StartTakesDown
      <4>2. Prompting' => mgr'.active = NoName /\ ~mgr'.connecting
        BY <3>2, StartTakesDown DEF Prompting
      <4>3. QED
        BY <4>1, <4>2 DEF Attended
    <3>3. CASE Stop(t)
      BY <3>3, TakenDownDelivered DEF Stop
    <3>4. QED
      BY <3>1, <3>2, <3>3
  <2>2. CASE Quit
    BY <2>2, QuitDelivery, EndedDelivered
  <2>3. CASE AnswerPrompt
    BY <2>3, AnswerPromptDelivery, EndedDelivered DEF Attended, Prompting
  <2>4. CASE \E p \in Procs : AwaitListener(p)
    BY <2>4, AwaitListenerDelivered
  <2>5. CASE PollDrop \/ PollRulesLost \/ PollCheckFailed
    BY <2>5, TakenDownDelivered DEF PollDrop, PollRulesLost, PollCheckFailed, Dropped
  <2>6. CASE Toggle
    BY <2>6, ToggleDelivered
  <2>7. CASE DeleteTunnel
    BY <2>7, TakenDownDelivered, SameDelivered DEF DeleteTunnel
  <2>8. CASE Crash
    BY <2>8, EndedDelivered DEF Crash, Ended
  <2>9. CASE RulesVanish \/ \E b \in Backends : HelperExit(b) \/ HelperKilled(b)
    <3>1. net'.routing = net.routing
      BY <2>9, HelperStepFields
         DEF RulesVanish, HelperExit, HelperKilled, DeliveredInv, TypeOK
    <3>2. QED
      BY <2>9, <3>1, SameDelivered DEF RulesVanish, HelperExit, HelperKilled
  <2>10. CASE \/ SetDns \/ AddTunnel \/ EditTunnel \/ Relaunch \/ SshListens
              \/ SshDies \/ ForeignListener \/ UNCHANGED vars
    <3>1. UNCHANGED <<net, mgr, prompts>>
      BY <2>10 DEF SetDns, AddTunnel, EditTunnel, Relaunch, SshListens, SshDies,
         ForeignListener, vars
    <3>2. QED
      BY <3>1, SameDelivered
  <2>11. QED
    BY <2>1, <2>2, <2>3, <2>4, <2>5, <2>6, <2>7, <2>8, <2>9, <2>10
       DEF Next, UserStep, LoopStep, EnvStep
<1>3. QED
  BY <1>1, <1>2 DEF Delivered

LEMMA DeliveredInvHolds ==
  ASSUME Calm
  PROVE  Spec => []DeliveredInv
<1>1. Init => DeliveredInv
  <2> SUFFICES ASSUME Init PROVE DeliveredInv
    OBVIOUS
  <2>1. net.routing = NoRouting /\ \A b \in Backends : net.helper[b] # "up"
    BY DEF Init, DeliveryInit
  <2>2. QED
    BY <2>1, InitType DEF Init, DeliveredInv, OneTimer, GoneIsIdle, Delivered,
       Attended, Owns, Prompting
<1>2. DeliveredInv /\ [Next]_vars => DeliveredInv'
  <2> SUFFICES ASSUME DeliveredInv, [Next]_vars PROVE DeliveredInv'
    OBVIOUS
  <2>1. TypeOK' /\ GoneIsIdle'
    BY NextType, NextGone DEF DeliveredInv
  <2>2. OneTimer'
    BY NextTimer DEF DeliveredInv, Calm
  <2>3. Delivered'
    BY NextDelivered
  <2>4. QED
    BY <2>1, <2>2, <2>3 DEF DeliveredInv
<1>3. QED
  BY <1>1, <1>2, PTL DEF Spec

\* Whatever the environment does, a crash included, and whatever the user edits or
\* deletes, a delivery in place belongs to a tunnel the Manager has as its active
\* one: a poll, a stop or a quit will take it down.
THEOREM DeliveryHasTunnel ==
  ASSUME Calm
  PROVE  Spec => []DeliveryOwned
<1>1. DeliveredInv => DeliveryOwned
  BY DEF DeliveredInv, Delivered, Attended, DeliveryOwned
<1>2. QED
  BY <1>1, DeliveredInvHolds, PTL

\* Never does a root helper serve a backend the Manager has forgotten, through any
\* sequence of fallbacks, hot-swaps, timeouts of up() and down() and lost helpers.
THEOREM HelperHasBackend ==
  ASSUME Calm
  PROVE  Spec => []HelperOwned
<1>1. DeliveredInv => HelperOwned
  BY DEF DeliveredInv, Delivered, Owns, HelperOwned
<1>2. QED
  BY <1>1, DeliveredInvHolds, PTL

-----------------------------------------------------------------------------
(* The user's proxy mode comes back *)

\* The user's mode is in place, or safe with the proxy backend that replaced it.
ModeSafe == Remembers(net, userMode)

LEMMA ModeSafeHolds ==
  ASSUME Calm, "crash" \notin Faults
  PROVE  Spec => []ModeSafe
<1>1. Init => ModeSafe
  BY RoutingsDiffer DEF Init, DeliveryInit, ModeSafe, Remembers
<1>2. DeliveredInv /\ ModeSafe /\ [Next]_vars => ModeSafe'
  <2> SUFFICES ASSUME DeliveredInv, ModeSafe, [Next]_vars PROVE ModeSafe'
    OBVIOUS
  <2>1. UNCHANGED userMode
    BY DEF Next, UserStep, LoopStep, EnvStep, Click, Start, Stop, Quit, AnswerPrompt,
       Toggle, SetDns, AddTunnel, EditTunnel, DeleteTunnel, Relaunch, AwaitListener,
       PollDrop, PollRulesLost, PollCheckFailed, Dropped, SshListens, SshDies,
       RulesVanish, ForeignListener, Crash, HelperExit, HelperKilled, vars
  <2>2. DeliveryStep(net, net')
    BY NetStep DEF Crash
  <2>3. Remembers(net', userMode)
    BY <2>2, DeliveryStepKeeps DEF DeliveredInv, TypeOK, Delivered, ModeSafe
  <2>4. QED
    BY <2>1, <2>3 DEF ModeSafe
<1>3. QED
  BY <1>1, <1>2, DeliveredInvHolds, PTL DEF Spec

\* With no tunnel delivered the desktop is in the mode the user had, after any number
\* of starts, drops, fallbacks and hot-swaps.  A tray that is killed leaves "manual"
\* behind, which its successor takes for the user's choice, so a crash is excluded.
THEOREM UserModeRestored ==
  ASSUME Calm, "crash" \notin Faults
  PROVE  Spec => []ModeRestored
<1>1. ModeSafe => ModeRestored
  BY RoutingsDiffer DEF ModeSafe, Remembers, ModeRestored
<1>2. QED
  BY <1>1, ModeSafeHolds, PTL

\* on_quit leaves neither a SOCKS port nor a foreign mode in the desktop settings.
THEOREM QuitLeavesNoProxy ==
  ASSUME Calm, "crash" \notin Faults
  PROVE  Spec => []NoStaleProxyAfterQuit
<1>1. DeliveredInv /\ ModeSafe => NoStaleProxyAfterQuit
  <2> SUFFICES ASSUME DeliveredInv, ModeSafe, app = "exited"
               PROVE  net.mode = userMode /\ net.socks = NoPort
    BY DEF NoStaleProxyAfterQuit
  <2>1. net.routing = NoRouting
    BY NotDelivered DEF DeliveredInv, GoneIsIdle, Idle
  <2>2. QED
    BY <2>1, RoutingsDiffer DEF ModeSafe, Remembers
<1>2. QED
  BY <1>1, DeliveredInvHolds, ModeSafeHolds, PTL

-----------------------------------------------------------------------------
(* The tray implements TunnelService, step by step *)

\* A step that delivers anew: taking a delivery down is none.
NewDelivery == net'.routing # NoRouting /\ net'.routing # net.routing

LEMMA RevertNotNew ==
  ASSUME TypeOK, NEW final \in RevertProxy(net) \cup {net}
  PROVE  /\ net' = final => ~NewDelivery
         /\ net' = ProcessGone(final) => ~NewDelivery
<1>1. final \in DeliveryStates /\ (final = net \/ final.routing = NoRouting)
  BY RevertedRouting, RevertProxyType DEF TypeOK
<1>2. QED
  BY <1>1, ProcessGoneFields DEF NewDelivery

\* A live ssh of an active tunnel is either still in its connect phase or delivered,
\* and its tunnel is in the configuration, as the tunnels of open prompts are.
Watched ==
    /\ mgr.active # NoName /\ Alive(ssh, mgr.proc) =>
          Configured(mgr.active) /\ (mgr.connecting \/ net.routing # NoRouting)
    /\ \A i \in 1..Len(prompts) : Configured(prompts[i].name)

ServiceInv == DeliveredInv /\ ConnectingOwned /\ Watched

\* Nothing is active, or what is becomes no less watched.
LEMMA IdleWatched ==
  ASSUME Watched, mgr'.active = NoName, UNCHANGED <<tunnels, prompts>>
  PROVE  Watched'
  BY DEF Watched, Configured

LEMMA SameWatched ==
  ASSUME Watched, UNCHANGED <<mgr, prompts, tunnels>>, ssh' \subseteq ssh,
         net'.routing = net.routing
  PROVE  Watched'
  BY DEF Watched, Alive, Configured

LEMMA LaunchWatched ==
  ASSUME NEW t, NEW table, NEW m \in [proc : Procs \cup {NoProc},
                                      active : Names \cup {NoName}, connecting : BOOLEAN],
         Configured(t.name), Launch(t, table, m), prompts' = <<>>, UNCHANGED tunnels
  PROVE  Watched'
<1>1. \/ mgr'.active = NoName
      \/ mgr'.active = t.name /\ mgr'.connecting
  <2>1. CASE mgr' = [proc |-> NextPid, active |-> t.name, connecting |-> TRUE]
    BY <2>1
  <2>2. CASE mgr' = [m EXCEPT !.active = NoName, !.connecting = FALSE]
    BY <2>2
  <2>3. QED
    BY <2>1, <2>2 DEF Launch
<1>2. Configured(t.name)'
  BY DEF Configured
<1>3. QED
  BY <1>1, <1>2 DEF Watched, Configured

LEMMA EndedWatched ==
  ASSUME NEW how, NEW table, NEW final, Ended(how, table, final)
  PROVE  Watched'
  BY DEF Ended, Idle, Watched

LEMMA StartWatched ==
  ASSUME ServiceInv, Calm, NEW t \in tunnels, Start(t)
  PROVE  Watched'
<1> DEFINE table == IF Alive(ssh, mgr.proc) THEN Killed(ssh, mgr.proc) ELSE ssh
           m == IF Alive(ssh, mgr.proc) THEN Idle ELSE mgr
<1>1. /\ prompts = <<>>
      /\ m \in [proc : Procs \cup {NoProc}, active : Names \cup {NoName},
                connecting : BOOLEAN]
      /\ m.active = NoName
      /\ \/ mgr' = m /\ UNCHANGED <<timers, prompts>>
         \/ Launch(t, table, m) /\ UNCHANGED prompts
         \/ mgr' = m /\ UNCHANGED timers /\ prompts' = Append(prompts, t)
  BY StartTakesDown DEF ServiceInv
<1>2. UNCHANGED tunnels /\ Configured(t.name)
  BY DEF Start, cfgVars, Configured
<1> HIDE DEF table, m
<1>3. CASE mgr' = m /\ UNCHANGED prompts
  BY <1>1, <1>2, <1>3, IdleWatched DEF ServiceInv
<1>4. CASE Launch(t, table, m) /\ UNCHANGED prompts
  BY <1>1, <1>2, <1>4, LaunchWatched
<1>5. CASE mgr' = m /\ prompts' = Append(prompts, t)
  <2>1. Len(prompts') = 1 /\ prompts'[1] = t
    BY <1>1, <1>5
  <2>2. Configured(t.name)'
    BY <1>2 DEF Configured
  <2>3. QED
    BY <1>1, <1>5, <2>1, <2>2 DEF Watched, Configured
<1>6. QED
  BY <1>1, <1>3, <1>4, <1>5

LEMMA AnswerPromptWatched ==
  ASSUME ServiceInv, AnswerPrompt
  PROVE  Watched'
<1> DEFINE t == prompts[Len(prompts)]
<1>1. Configured(t.name)
  <2>1. Len(prompts) \in 1..Len(prompts)
    BY DEF AnswerPrompt, ServiceInv, DeliveredInv, OneTimer
  <2>2. QED
    BY <2>1 DEF ServiceInv, Watched
<1>2. UNCHANGED tunnels
  BY DEF AnswerPrompt, cfgVars
<1>3. /\ prompts' = <<>> /\ mgr.active = NoName
      /\ mgr' = Idle \/ UNCHANGED mgr \/ Launch(t, ssh, mgr)
  BY AnswerPromptDelivery DEF ServiceInv
<1> HIDE DEF t
<1>4. CASE mgr'.active = NoName
  BY <1>3, <1>4 DEF Watched
<1>5. CASE Launch(t, ssh, mgr)
  BY <1>1, <1>2, <1>3, <1>5, LaunchWatched DEF ServiceInv, DeliveredInv, TypeOK
<1>6. QED
  BY <1>3, <1>4, <1>5 DEF Idle

LEMMA AwaitListenerWatched ==
  ASSUME ServiceInv, NEW p \in Procs, AwaitListener(p)
  PROVE  Watched'
<1>1. PICK tm \in timers : StaleTick(tm) \/ SshExitedTick(tm)
                           \/ ListenerUpTick(tm) \/ WaitingTick(tm)
  BY DEF AwaitListener
<1>2. UNCHANGED <<tunnels, prompts>>
  BY DEF AwaitListener, cfgVars
<1>3. CASE StaleTick(tm)
  <2>1. mgr.active = NoName \/ (mgr.connecting /\ tm.name = mgr.active)
    BY DEF ServiceInv, ConnectingOwned, DeliveredInv, OneTimer
  <2>2. ~(mgr.active # NoName /\ Alive(ssh, mgr.proc))
    BY <1>3, <2>1 DEF StaleTick, Current, ServiceInv, Watched
  <2>3. mgr'.active = mgr.active /\ mgr'.proc = mgr.proc
    BY <1>3 DEF StaleTick, ServiceInv, DeliveredInv, TypeOK
  <2>4. QED
    BY <1>2, <1>3, <2>2, <2>3 DEF StaleTick, ServiceInv, Watched, Configured, Alive
<1>4. CASE SshExitedTick(tm)
  BY <1>2, <1>4, IdleWatched DEF SshExitedTick, Idle, ServiceInv
<1>5. CASE ListenerUpTick(tm)
  <2>1. net.routing = NoRouting /\ net \in DeliveryStates /\ Owns(net)
    BY NotDelivered DEF ServiceInv, DeliveredInv, TypeOK, Delivered
  <2>2. net'.routing # NoRouting
    BY <1>5, <2>1, ApplyDelivers, RoutingsDiffer DEF ListenerUpTick
  <2>3. mgr'.active = mgr.active /\ Configured(mgr.active)
    BY <1>5 DEF ListenerUpTick, Current, ServiceInv, DeliveredInv, TypeOK
  <2>4. QED
    BY <1>2, <2>2, <2>3 DEF ServiceInv, Watched, Configured
<1>6. CASE WaitingTick(tm)
  BY <1>2, <1>6, IdleWatched, SameWatched DEF WaitingTick, Idle, ServiceInv
<1>7. QED
  BY <1>1, <1>3, <1>4, <1>5, <1>6

LEMMA ToggleWatched ==
  ASSUME ServiceInv, Toggle
  PROVE  Watched'
<1>1. UNCHANGED <<tunnels, mgr, ssh, prompts>>
  BY DEF Toggle
<1>2. CASE mgr.active # NoName /\ IsActive(mgr.active) /\ Configured(mgr.active)
  <2>1. PICK reverted \in RevertProxy(net) :
           net' \in ApplyProxy(reverted, ByName(mgr.active).port, ~transparent)
    BY <1>2 DEF Toggle
  <2>2. /\ reverted \in DeliveryStates
        /\ reverted.routing = NoRouting
        /\ Owns(reverted)
    BY RevertProxyType, RevertedRouting, RevertOwns
       DEF ServiceInv, DeliveredInv, TypeOK, Delivered
  <2>3. net'.routing # NoRouting
    BY <2>1, <2>2, ApplyDelivers, RoutingsDiffer
  <2>4. QED
    BY <1>1, <1>2, <2>3 DEF ServiceInv, Watched, Configured
<1>3. CASE ~(mgr.active # NoName /\ IsActive(mgr.active) /\ Configured(mgr.active))
  <2>1. ~(mgr.active # NoName /\ Alive(ssh, mgr.proc))
    BY <1>3 DEF IsActive, ServiceInv, Watched
  <2>2. QED
    BY <1>1, <2>1 DEF ServiceInv, Watched, Configured, Alive
<1>4. QED
  BY <1>2, <1>3

LEMMA ConfigWatched ==
  ASSUME ServiceInv, "edit_active" \notin Windows,
         AddTunnel \/ EditTunnel \/ DeleteTunnel
  PROVE  Watched'
<1>1. prompts = <<>> /\ UNCHANGED prompts
  BY DEF AddTunnel, EditTunnel, DeleteTunnel, WindowFree, Prompting
<1>2. CASE AddTunnel
  <2>1. tunnels \subseteq tunnels'
    BY <1>2 DEF AddTunnel
  <2>2. QED
    BY <1>1, <1>2, <2>1 DEF AddTunnel, ServiceInv, Watched, Configured, Alive
<1>3. CASE EditTunnel
  <2>1. PICK t \in tunnels, rec \in Tunnels :
           /\ t.name = mgr.active => rec.name = t.name
           /\ tunnels' = (tunnels \ {t}) \cup {rec}
    BY <1>3 DEF EditTunnel, Within
  <2>2. Configured(mgr.active) => Configured(mgr.active)'
    BY <1>3, <2>1 DEF EditTunnel, Configured
  <2>3. QED
    BY <1>1, <1>3, <2>2 DEF EditTunnel, ServiceInv, Watched, Alive
<1>4. CASE DeleteTunnel
  <2>1. PICK t \in tunnels :
           /\ tunnels' = tunnels \ {t}
           /\ IF IsActive(t.name) THEN mgr' = Idle ELSE UNCHANGED <<ssh, net, mgr>>
    BY <1>4 DEF DeleteTunnel
  <2>2. CASE IsActive(t.name)
    BY <1>1, <2>1, <2>2 DEF Idle, Watched
  <2>3. CASE ~IsActive(t.name)
    <3>1. Alive(ssh, mgr.proc) => t.name # mgr.active
      BY <2>3 DEF IsActive
    <3>2. Alive(ssh, mgr.proc) /\ Configured(mgr.active) => Configured(mgr.active)'
      BY <2>1, <2>3, <3>1 DEF Configured
    <3>3. QED
      BY <1>1, <2>1, <2>3, <3>2 DEF ServiceInv, Watched, Alive
  <2>4. QED
    BY <2>2, <2>3
<1>5. QED
  BY <1>2, <1>3, <1>4

LEMMA NextWatched ==
  ASSUME ServiceInv, Windows = {}, [Next]_vars
  PROVE  Watched'
<1> Calm
  BY DEF Calm
<1>1. CASE Click
  <2>1. PICK t \in tunnels : Start(t) \/ Stop(t)
    BY <1>1 DEF Click
  <2>2. CASE Stop(t)
    BY <2>2, IdleWatched DEF Stop, Idle, cfgVars, ServiceInv
  <2>3. QED
    BY <2>1, <2>2, StartWatched
<1>2. CASE Quit
  BY <1>2, QuitDelivery DEF ServiceInv, Idle, Watched
<1>3. CASE AnswerPrompt
  BY <1>3, AnswerPromptWatched
<1>4. CASE \E p \in Procs : AwaitListener(p)
  BY <1>4, AwaitListenerWatched
<1>5. CASE PollDrop \/ PollRulesLost \/ PollCheckFailed
  <2>1. mgr'.active = NoName /\ UNCHANGED <<tunnels, prompts>>
    BY <1>5 DEF PollDrop, PollRulesLost, PollCheckFailed, Dropped, cfgVars,
       ServiceInv, DeliveredInv, TypeOK
  <2>2. QED
    BY <2>1, IdleWatched DEF ServiceInv
<1>6. CASE Toggle
  BY <1>6, ToggleWatched
<1>7. CASE AddTunnel \/ EditTunnel \/ DeleteTunnel
  BY <1>7, ConfigWatched
<1>8. CASE Crash
  BY <1>8, EndedWatched DEF Crash
<1>9. CASE SshListens
  <2>1. PICK x \in ssh : ssh' = (ssh \ {x}) \cup {[x EXCEPT !.up = TRUE]}
    BY <1>9 DEF SshListens
  <2>2. [x EXCEPT !.up = TRUE].pid = x.pid
    BY DEF ServiceInv, DeliveredInv, TypeOK, SshStates
  <2>3. Alive(ssh', mgr.proc) => Alive(ssh, mgr.proc)
    BY <2>1, <2>2 DEF Alive
  <2>4. QED
    BY <1>9, <2>3 DEF SshListens, cfgVars, ServiceInv, Watched, Configured, Alive
<1>10. CASE RulesVanish \/ \E b \in Backends : HelperExit(b) \/ HelperKilled(b)
  <2>1. net'.routing = net.routing
    BY <1>10, HelperStepFields
       DEF RulesVanish, HelperExit, HelperKilled, ServiceInv, DeliveredInv, TypeOK
  <2>2. QED
    BY <1>10, <2>1, SameWatched
       DEF RulesVanish, HelperExit, HelperKilled, cfgVars, ServiceInv
<1>11. CASE SetDns \/ Relaunch \/ SshDies \/ ForeignListener \/ UNCHANGED vars
  <2>1. UNCHANGED <<mgr, prompts, tunnels, net>> /\ ssh' \subseteq ssh
    BY <1>11 DEF SetDns, Relaunch, SshDies, ForeignListener, vars, cfgVars
  <2>2. QED
    BY <2>1, SameWatched DEF ServiceInv
<1>12. QED
  BY <1>1, <1>2, <1>3, <1>4, <1>5, <1>6, <1>7, <1>8, <1>9, <1>10, <1>11
     DEF Next, UserStep, LoopStep, EnvStep

LEMMA ServiceInvHolds ==
  ASSUME Windows = {}
  PROVE  Spec => []ServiceInv
<1> Calm
  BY DEF Calm
<1>1. Init => Watched
  BY DEF Init, Idle, Watched
<1>2. ServiceInv /\ DeliveredInv' /\ ConnectingOwned' /\ [Next]_vars => ServiceInv'
  BY NextWatched DEF ServiceInv
<1>3. ServiceInv <=> DeliveredInv /\ ConnectingOwned /\ Watched
  BY DEF ServiceInv
<1>4. QED
  BY <1>1, <1>2, <1>3, DeliveredInvHolds, ConnectingAlwaysOwned, PTL DEF Spec

\* A tunnel that the tray shows as up is delivered for as long as its ssh lives, whatever
\* backend fails and however often the delivery is swapped, and its name can be looked up.
THEOREM UpStaysDelivered ==
  ASSUME Windows = {}
  PROVE  Spec => []UpIsDelivered
<1>1. ServiceInv => UpIsDelivered
  BY DEF ServiceInv, Watched, UpIsDelivered, Watching
<1>2. QED
  BY <1>1, ServiceInvHolds, PTL

\* Only a tunnel that is connecting starts to be delivered: a hot-swap replaces a
\* delivery and never makes one.
LEMMA OnlyConnectingDelivers ==
  ASSUME ServiceInv, Windows = {}, [Next]_vars,
         net.routing = NoRouting, net'.routing # NoRouting
  PROVE  mgr.connecting
<1> TypeOK
  BY DEF ServiceInv, DeliveredInv
<1>1. CASE Click \/ DeleteTunnel \/ PollDrop \/ PollRulesLost \/ PollCheckFailed
  <2>1. net' \in RevertProxy(net) \cup {net}
    BY <1>1 DEF Click, Start, Stop, DeleteTunnel, PollDrop, PollRulesLost,
       PollCheckFailed, Dropped
  <2>2. QED
    BY <2>1, RevertNotNew DEF NewDelivery
<1>2. CASE Quit \/ AnswerPrompt \/ Crash
  <2>1. \E final \in RevertProxy(net) \cup {net} :
           net' = final \/ net' = ProcessGone(final)
    BY <1>2 DEF Quit, AnswerPrompt, Crash, Ended
  <2>2. QED
    BY <2>1, RevertNotNew DEF NewDelivery
<1>3. CASE \E p \in Procs : AwaitListener(p)
  <2>1. PICK tm \in timers : ListenerUpTick(tm)
    BY <1>3 DEF AwaitListener, StaleTick, SshExitedTick, WaitingTick
  <2>2. mgr.active # NoName
    BY <2>1, ManagerAssumption DEF ListenerUpTick, Current, TypeOK, Timers
  <2>3. QED
    BY <2>2 DEF ServiceInv, DeliveredInv, OneTimer
<1>4. CASE Toggle
  <2>1. mgr.active # NoName /\ Alive(ssh, mgr.proc)
    BY <1>4, RevertNotNew DEF Toggle, IsActive, NewDelivery
  <2>2. QED
    BY <2>1 DEF ServiceInv, Watched
<1>5. CASE RulesVanish \/ \E b \in Backends : HelperExit(b) \/ HelperKilled(b)
  BY <1>5, HelperStepFields DEF RulesVanish, HelperExit, HelperKilled, TypeOK
<1>6. CASE \/ SetDns \/ AddTunnel \/ EditTunnel \/ Relaunch \/ SshListens \/ SshDies
           \/ ForeignListener \/ UNCHANGED vars
  BY <1>6 DEF SetDns, AddTunnel, EditTunnel, Relaunch, SshListens, SshDies,
     ForeignListener, vars
<1>7. QED
  BY <1>1, <1>2, <1>3, <1>4, <1>5, <1>6 DEF Next, UserStep, LoopStep, EnvStep

\* The phase that a state of the tray stands for.
LEMMA PhaseOf ==
  ASSUME ServiceInv
  PROVE  /\ mgr.connecting => Phase = "connecting"
         /\ net.routing = NoRouting => Phase \in {"off", "connecting"}
                                       /\ net.routing.name = "none"
         /\ net.routing # NoRouting => Phase = "on"
                                       /\ net.routing.name \in {"proxy", "transparent"}
<1>1. net.routing # NoRouting => ~mgr.connecting
  BY DEF ServiceInv, DeliveredInv, Delivered, Attended
<1>2. net.routing # NoRouting => net.routing.name \in {"proxy", "transparent"}
  BY RoutingNames, RoutingByName DEF ServiceInv, DeliveredInv, TypeOK, DeliveryStates
<1>3. QED
  BY <1>1, <1>2, RoutingsDiffer DEF Phase

LEMMA StepsAsService ==
  ASSUME ServiceInv, ServiceInv', Windows = {}, [Next]_vars
  PROVE  [Service!Next]_(Service!vars)
<1>1. CASE net'.routing = NoRouting
  <2>1. Phase' \in {"off", "connecting"} /\ (net.routing.name)' = "none"
    <3>1. (net.routing = NoRouting => Phase \in {"off", "connecting"}
                                      /\ net.routing.name = "none")'
      BY PhaseOf, PTL
    <3>2. QED
      BY <1>1, <3>1
  <2>2. QED
    BY <2>1 DEF Service!Next, Service!Begin, Service!End
<1>2. CASE net'.routing # NoRouting
  <2>1. Phase' = "on" /\ (net.routing.name)' \in {"proxy", "transparent"}
    <3>1. (net.routing # NoRouting => Phase = "on"
                                      /\ net.routing.name \in {"proxy", "transparent"})'
      BY PhaseOf, PTL
    <3>2. QED
      BY <1>2, <3>1
  <2>2. CASE net.routing # NoRouting
    <3>1. Phase = "on"
      BY <2>2, PhaseOf
    <3>2. QED
      BY <2>1, <3>1 DEF Service!Next, Service!Swap, Service!Deliveries
  <2>3. CASE net.routing = NoRouting
    <3>1. Phase = "connecting"
      BY <1>2, <2>3, OnlyConnectingDelivers, PhaseOf
    <3>2. QED
      BY <2>1, <3>1 DEF Service!Next, Service!Deliver, Service!Deliveries
  <2>4. QED
    BY <2>2, <2>3
<1>3. QED
  BY <1>1, <1>2

\* The tray's handlers implement the abstract tunnel step by step, under the mapping of
\* ImplementsService: applications are redirected only for a tunnel that came through
\* its connect phase, a hot-swap only changes how, and no delivery outlives its tunnel.
\* Crashes, lost helpers and a configuration that is edited all the while are allowed.
\* What is left of ImplementsService is that every connect phase ends.
THEOREM ImplementsServiceSteps ==
  ASSUME Windows = {}
  PROVE  Spec => Service!Init /\ [][Service!Next]_(Service!vars)
<1>1. Init => Service!Init
  BY RoutingsDiffer DEF Init, Idle, DeliveryInit, Service!Init, Phase
<1>2. ServiceInv /\ ServiceInv' /\ [Next]_vars => [Service!Next]_(Service!vars)
  BY StepsAsService
<1>3. QED
  BY <1>1, <1>2, ServiceInvHolds, PTL DEF Spec
=============================================================================
