------------------------------ MODULE Delivery ------------------------------
(***************************************************************************)
(* How a live SOCKS port is delivered to applications, as the Manager sees *)
(* it: the two routing backends of routing.py and the two Manager methods  *)
(* that drive them, apply_proxy and revert_proxy.                          *)
(*                                                                         *)
(* A delivery state is a record:                                           *)
(*   routing  Manager.routing: no backend, the proxy backend, or one       *)
(*            TransparentBackend instance                                  *)
(*   saved    ProxyBackend.saved_mode                                      *)
(*   mode     the org.gnome.system.proxy mode                              *)
(*   socks    the org.gnome.system.proxy.socks port (NoPort when cleared)  *)
(*   http     the org.gnome.system.proxy.http host and port: the user's    *)
(*            own, or cleared                                              *)
(*   helper   the netguard process of each TransparentBackend instance     *)
(*   rules    the instance whose redirector the installed chains feed      *)
(*                                                                         *)
(* An operation that can end in several ways is the set of its outcomes.   *)
(***************************************************************************)
EXTENDS Naturals

CONSTANTS Ports,        \* SOCKS ports a tunnel can be given
          MaxBackends   \* bound: netguard processes that exist at one time

ASSUME DeliveryAssumption ==
    /\ Ports \subseteq Nat \ {0}
    /\ MaxBackends \in Nat

NoPort    == 0
NoBackend == 0
Modes     == {"none", "manual", "auto"}
Backends  == 1..MaxBackends

\* RoutingBackend.name, with the instance for a transparent backend.
NoRouting      == [name |-> "none", id |-> NoBackend]
ProxyRouting   == [name |-> "proxy", id |-> NoBackend]
Transparent(b) == [name |-> "transparent", id |-> b]
Routings       == {NoRouting, ProxyRouting} \cup {Transparent(b) : b \in Backends}

\* "absent" no process, "up" serving requests, "closing" its stdin is closed
\* and it is still tearing its rules down.
HelperStates == {"absent", "up", "closing"}

DeliveryStates ==
    [routing : Routings,
     saved   : Modes \cup {"unset"},
     mode    : Modes,
     socks   : Ports \cup {NoPort},
     http    : {"user", "cleared"},
     helper  : [Backends -> HelperStates],
     rules   : Backends \cup {NoBackend}]

DeliveryInit(userMode) ==
    [routing |-> NoRouting, saved |-> "unset", mode |-> userMode,
     socks |-> NoPort, http |-> "user", helper |-> [b \in Backends |-> "absent"],
     rules |-> NoBackend]

-----------------------------------------------------------------------------
(* ProxyBackend *)

\* ProxyBackend.up, and the assignment to Manager.routing that follows it.  Of what
\* it overwrites only the mode is remembered.
ProxyUp(net, port) ==
    [net EXCEPT !.saved = net.mode, !.socks = port, !.http = "cleared",
                !.mode = "manual", !.routing = ProxyRouting]

\* Mutant: the mode is restored, the SOCKS fields are not.
ProxyDownKeepsPort(net) ==
    [net EXCEPT !.mode = IF net.saved = "unset" THEN "none" ELSE net.saved,
                !.routing = NoRouting]

\* Mutant: the saved mode is ignored.
ProxyDownToNone(net) ==
    [net EXCEPT !.mode = "none", !.socks = NoPort, !.routing = NoRouting]

\* ProxyBackend.down: back to the saved mode, SOCKS fields cleared.
ProxyDown(net) ==
    [net EXCEPT !.mode = IF net.saved = "unset" THEN "none" ELSE net.saved,
                !.socks = NoPort, !.routing = NoRouting]

-----------------------------------------------------------------------------
(* TransparentBackend *)

FreeBackends(net) == {b \in Backends : net.helper[b] = "absent"}

NextBackend(net) == CHOOSE b \in FreeBackends(net) : TRUE

\* up() succeeded: netguard removed any earlier chains and installed its own.
TransparentUp(net) ==
    LET b == NextBackend(net)
    IN  [net EXCEPT !.helper[b] = "up", !.rules = b, !.routing = Transparent(b)]

\* What up() can leave behind when it raises.  It can fail before a helper
\* exists (name resolution, redirector start, pkexec refused); a helper that
\* refused has swept the chains away; and when a request timed out, the helper
\* is still at work on whatever it has installed so far.
TransparentFailures(net) ==
    {net} \cup
    (IF FreeBackends(net) = {} THEN {}
     ELSE LET b == NextBackend(net)
          IN  {[net EXCEPT !.rules = NoBackend]} \cup
              {[net EXCEPT !.helper[b] = "closing", !.rules = r]
                  : r \in {net.rules, NoBackend, b}})

\* Mutant: the helper is forgotten with its stdin open.
TransparentForgotten(net) == {[net EXCEPT !.routing = NoRouting]}

\* down(): ask the helper to tear down, close its stdin, wait for it.  A helper
\* that outlives the wait goes on by itself, with its rules removed or not; one that
\* is already gone leaves the chains as they are.
TransparentDown(net) ==
    LET b == net.routing.id
        released == [net EXCEPT !.routing = NoRouting]
    IN  IF net.helper[b] = "up"
        THEN {[released EXCEPT !.helper[b] = "absent", !.rules = NoBackend]} \cup
             {[released EXCEPT !.helper[b] = "closing", !.rules = r]
                 : r \in {net.rules, NoBackend}}
        ELSE {released}

\* Mutant: a live helper is taken for installed rules.
HelperAnswers(net) == net.helper[net.routing.id] = "up"

\* health(): the helper answers and every chain is still jumped to.  The probes
\* name the chains, not the instance that installed them.
Healthy(net) == net.helper[net.routing.id] = "up" /\ net.rules # NoBackend

-----------------------------------------------------------------------------
(* Manager.apply_proxy and Manager.revert_proxy *)

\* Mutant: a transparent backend that fails to come up is left at that.
ApplyProxyUndegraded(net, port, transparent) ==
    IF transparent
    THEN TransparentFailures(net) \cup
         {TransparentUp(m) : m \in IF FreeBackends(net) = {} THEN {} ELSE {net}}
    ELSE {ProxyUp(net, port)}

\* A transparent backend that fails to come up degrades to the proxy backend.
ApplyProxy(net, port, transparent) ==
    IF transparent
    THEN {ProxyUp(m, port) : m \in TransparentFailures(net)} \cup
         {TransparentUp(m) : m \in IF FreeBackends(net) = {} THEN {} ELSE {net}}
    ELSE {ProxyUp(net, port)}

RevertProxy(net) ==
    CASE net.routing.name = "none"        -> {net}
      [] net.routing.name = "proxy"       -> {ProxyDown(net)}
      [] net.routing.name = "transparent" -> TransparentDown(net)

-----------------------------------------------------------------------------
(* What happens to the delivery without the Manager *)

\* Mutant: nothing tells the helpers.
ProcessGoneUnseen(net) == [net EXCEPT !.routing = NoRouting, !.saved = "unset"]

\* The Tunly process is gone: its attributes with it, and every helper reads
\* EOF.  The desktop setting and the kernel rules outlive it.
ProcessGone(net) ==
    [net EXCEPT !.routing = NoRouting, !.saved = "unset",
                !.helper = [b \in Backends |->
                    IF net.helper[b] = "up" THEN "closing" ELSE net.helper[b]]]

\* A closing helper finishes its teardown, which sweeps whatever is installed.
HelperExits(net, b) == [net EXCEPT !.helper[b] = "absent", !.rules = NoBackend]

\* SIGKILL or the OOM killer takes a helper: nothing is torn down.
HelperLost(net, b) == [net EXCEPT !.helper[b] = "absent"]

\* Another program, or tunly --repair, removes the chains.
RulesRemoved(net) == [net EXCEPT !.rules = NoBackend]
=============================================================================
