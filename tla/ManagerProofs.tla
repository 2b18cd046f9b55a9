--------------------------- MODULE ManagerProofs ---------------------------
(***************************************************************************)
(* Proofs about Manager, for every set of tunnels, every bound and every   *)
(* window: the types, the ownership of the connecting flag, and the        *)
(* exclusive model.                                                        *)
(***************************************************************************)
EXTENDS Manager, SequenceTheorems, TLAPS

-----------------------------------------------------------------------------
(* What the operators of Delivery return: every outcome of every operation *)
(* is a delivery state again, and what apply_proxy and revert_proxy do to  *)
(* the helpers and to the user's proxy mode                                *)

LEMMA NoBackendIsNoBackend == NoBackend \notin Backends
  BY DEF NoBackend, Backends

LEMMA NextBackendType ==
  ASSUME NEW rec \in DeliveryStates, FreeBackends(rec) # {}
  PROVE  NextBackend(rec) \in Backends /\ rec.helper[NextBackend(rec)] = "absent"
  BY DEF NextBackend, FreeBackends

LEMMA RoutingsType ==
  /\ NoRouting \in Routings
  /\ ProxyRouting \in Routings
  /\ \A b \in Backends : Transparent(b) \in Routings
  BY DEF Routings

\* A backend is named "transparent" only when it is one, with its instance.
LEMMA TransparentRouting ==
  ASSUME NEW r \in Routings, r.name = "transparent"
  PROVE  r.id \in Backends /\ r = Transparent(r.id)
  BY DEF Routings, NoRouting, ProxyRouting, Transparent

LEMMA RoutingNames ==
  ASSUME NEW r \in Routings
  PROVE  r.name \in {"none", "proxy", "transparent"}
  BY DEF Routings, NoRouting, ProxyRouting, Transparent

LEMMA ProxyUpType ==
  ASSUME NEW rec \in DeliveryStates, NEW port \in Ports
  PROVE  ProxyUp(rec, port) \in DeliveryStates
  BY RoutingsType DEF DeliveryStates, ProxyUp, Modes

LEMMA ProxyDownType ==
  ASSUME NEW rec \in DeliveryStates
  PROVE  ProxyDown(rec) \in DeliveryStates
  BY RoutingsType DEF DeliveryStates, ProxyDown, Modes

LEMMA TransparentUpType ==
  ASSUME NEW rec \in DeliveryStates, FreeBackends(rec) # {}
  PROVE  TransparentUp(rec) \in DeliveryStates
<1> DEFINE b == NextBackend(rec)
<1>1. b \in Backends
  BY NextBackendType
<1>2. [rec.helper EXCEPT ![b] = "up"] \in [Backends -> HelperStates]
  BY <1>1 DEF DeliveryStates, HelperStates
<1>3. Transparent(b) \in Routings
  BY <1>1, RoutingsType
<1> HIDE DEF b
<1>4. [rec EXCEPT !.helper[b] = "up", !.rules = b, !.routing = Transparent(b)]
        \in DeliveryStates
  BY <1>1, <1>2, <1>3 DEF DeliveryStates
<1>5. QED
  BY <1>4 DEF TransparentUp, b

LEMMA TransparentFailuresType ==
  ASSUME NEW rec \in DeliveryStates
  PROVE  TransparentFailures(rec) \subseteq DeliveryStates
<1>1. CASE FreeBackends(rec) = {}
  BY <1>1 DEF TransparentFailures
<1>2. CASE FreeBackends(rec) # {}
  <2> DEFINE b == NextBackend(rec)
  <2>1. b \in Backends
    BY <1>2, NextBackendType
  <2>2. [rec.helper EXCEPT ![b] = "closing"] \in [Backends -> HelperStates]
    BY <2>1 DEF DeliveryStates, HelperStates
  <2> HIDE DEF b
  <2>3. [rec EXCEPT !.rules = NoBackend] \in DeliveryStates
    BY DEF DeliveryStates
  <2>4. \A r \in {rec.rules, NoBackend, b} :
           [rec EXCEPT !.helper[b] = "closing", !.rules = r] \in DeliveryStates
    BY <2>1, <2>2 DEF DeliveryStates
  <2>5. QED
    BY <1>2, <2>3, <2>4 DEF TransparentFailures, b
<1>3. QED
  BY <1>1, <1>2

LEMMA TransparentDownType ==
  ASSUME NEW rec \in DeliveryStates, rec.routing.name = "transparent"
  PROVE  TransparentDown(rec) \subseteq DeliveryStates
<1> DEFINE b == rec.routing.id
           released == [rec EXCEPT !.routing = NoRouting]
<1>1. b \in Backends
  BY TransparentRouting DEF DeliveryStates
<1>2. released \in DeliveryStates
  BY RoutingsType DEF DeliveryStates
<1> HIDE DEF b, released
<1>3. \A h \in HelperStates :
         [released EXCEPT !.helper[b] = h] \in DeliveryStates
  BY <1>1, <1>2 DEF DeliveryStates
<1>4. \A h \in HelperStates :
         [released EXCEPT !.helper[b] = h, !.rules = NoBackend] \in DeliveryStates
  BY <1>1, <1>2 DEF DeliveryStates
<1>5. QED
  BY <1>2, <1>3, <1>4 DEF TransparentDown, b, released, HelperStates

LEMMA ApplyProxyType ==
  ASSUME NEW rec \in DeliveryStates, NEW port \in Ports, NEW wanted
  PROVE  ApplyProxy(rec, port, wanted) \subseteq DeliveryStates
  BY ProxyUpType, TransparentUpType, TransparentFailuresType DEF ApplyProxy

LEMMA RevertProxyType ==
  ASSUME NEW rec \in DeliveryStates
  PROVE  RevertProxy(rec) \subseteq DeliveryStates
<1>1. rec.routing.name \in {"none", "proxy", "transparent"}
  BY RoutingNames DEF DeliveryStates
<1>2. QED
  BY <1>1, ProxyDownType, TransparentDownType DEF RevertProxy

LEMMA ProcessGoneType ==
  ASSUME NEW rec \in DeliveryStates
  PROVE  ProcessGone(rec) \in DeliveryStates
<1> DEFINE h == [b \in Backends |->
                    IF rec.helper[b] = "up" THEN "closing" ELSE rec.helper[b]]
<1>1. h \in [Backends -> HelperStates]
  BY DEF DeliveryStates, HelperStates
<1> HIDE DEF h
<1>2. [rec EXCEPT !.routing = NoRouting, !.saved = "unset", !.helper = h]
        \in DeliveryStates
  BY <1>1, RoutingsType DEF DeliveryStates
<1>3. QED
  BY <1>2 DEF ProcessGone, h

LEMMA HelperStepType ==
  ASSUME NEW rec \in DeliveryStates, NEW b \in Backends
  PROVE  /\ HelperExits(rec, b) \in DeliveryStates
         /\ HelperLost(rec, b) \in DeliveryStates
<1>1. [rec.helper EXCEPT ![b] = "absent"] \in [Backends -> HelperStates]
  BY DEF DeliveryStates, HelperStates
<1>2. QED
  BY <1>1 DEF DeliveryStates, HelperExits, HelperLost

LEMMA RulesRemovedType ==
  ASSUME NEW rec \in DeliveryStates
  PROVE  RulesRemoved(rec) \in DeliveryStates
  BY DEF DeliveryStates, RulesRemoved

LEMMA DeliveryInitType ==
  ASSUME NEW mode \in Modes
  PROVE  DeliveryInit(mode) \in DeliveryStates
  BY RoutingsType DEF DeliveryStates, DeliveryInit, HelperStates

-----------------------------------------------------------------------------
(* What the two Manager methods leave behind *)

\* A helper that serves is the one of the current backend.
Owns(rec) == \A b \in Backends : rec.helper[b] = "up" => rec.routing = Transparent(b)

\* The user's mode is in place, or it is the one the proxy backend saved.
Remembers(rec, mode) ==
    IF rec.routing = ProxyRouting THEN rec.saved = mode
    ELSE rec.mode = mode /\ rec.socks = NoPort

LEMMA RoutingsDiffer ==
  /\ NoRouting.name = "none" /\ ProxyRouting.name = "proxy"
  /\ \A b : Transparent(b).name = "transparent"
  /\ \A b, c : Transparent(b) = Transparent(c) => b = c
  BY DEF NoRouting, ProxyRouting, Transparent

LEMMA RoutingByName ==
  ASSUME NEW r \in Routings
  PROVE  /\ r.name = "none" => r = NoRouting
         /\ r.name = "proxy" => r = ProxyRouting
  BY RoutingsDiffer DEF Routings

\* revert_proxy always forgets the backend.
LEMMA RevertedRouting ==
  ASSUME NEW rec \in DeliveryStates, NEW m \in RevertProxy(rec)
  PROVE  m.routing = NoRouting
<1>1. rec.routing \in Routings
  BY DEF DeliveryStates
<1>2. CASE rec.routing.name = "none"
  BY <1>1, <1>2, RoutingByName DEF RevertProxy
<1>3. CASE rec.routing.name = "proxy"
  <2>1. m = ProxyDown(rec)
    BY <1>3 DEF RevertProxy
  <2>2. QED
    BY <2>1 DEF ProxyDown, DeliveryStates
<1>4. CASE rec.routing.name = "transparent"
  <2>1. m \in TransparentDown(rec)
    BY <1>4 DEF RevertProxy
  <2> DEFINE released == [rec EXCEPT !.routing = NoRouting]
  <2>2. released.routing = NoRouting /\ released \in DeliveryStates
    BY RoutingsType DEF DeliveryStates
  <2> HIDE DEF released
  <2>3. QED
    BY <2>1, <2>2 DEF TransparentDown, released, DeliveryStates
<1>5. QED
  BY <1>1, <1>2, <1>3, <1>4, RoutingNames

\* No helper serves once revert_proxy is done with the backend.
LEMMA RevertOwns ==
  ASSUME NEW rec \in DeliveryStates, Owns(rec), NEW m \in RevertProxy(rec)
  PROVE  Owns(m)
<1>1. rec.routing \in Routings
  BY DEF DeliveryStates
<1>2. CASE rec.routing.name = "none"
  BY <1>2 DEF RevertProxy
<1>3. CASE rec.routing.name = "proxy"
  <2>1. m = ProxyDown(rec)
    BY <1>3 DEF RevertProxy
  <2>2. m.helper = rec.helper
    BY <2>1 DEF ProxyDown, DeliveryStates
  <2>3. QED
    BY <1>3, <2>2, RoutingsDiffer DEF Owns
<1>4. CASE rec.routing.name = "transparent"
  <2> DEFINE b == rec.routing.id
             released == [rec EXCEPT !.routing = NoRouting]
  <2>1. b \in Backends /\ rec.routing = Transparent(b)
    BY <1>1, <1>4, TransparentRouting
  <2>2. released \in DeliveryStates /\ released.helper = rec.helper
    BY RoutingsType DEF DeliveryStates
  <2>3. \A c \in Backends : c # b => rec.helper[c] # "up"
    BY <2>1, RoutingsDiffer DEF Owns
  <2> HIDE DEF b, released
  <2>4. m \in IF rec.helper[b] = "up"
              THEN {[released EXCEPT !.helper[b] = "absent", !.rules = NoBackend]} \cup
                   {[released EXCEPT !.helper[b] = "closing", !.rules = r]
                       : r \in {rec.rules, NoBackend}}
              ELSE {released}
    BY <1>4 DEF RevertProxy, TransparentDown, b, released
  <2>5. \A c \in Backends : m.helper[c] # "up"
    <3>1. ASSUME NEW h \in {"absent", "closing"}, NEW r,
                 m = [released EXCEPT !.helper[b] = h, !.rules = r]
          PROVE  \A c \in Backends : m.helper[c] # "up"
      <4>1. m.helper = [rec.helper EXCEPT ![b] = h]
        BY <2>1, <2>2, <3>1 DEF DeliveryStates
      <4>2. QED
        BY <2>1, <2>3, <4>1 DEF DeliveryStates
    <3>2. CASE rec.helper[b] = "up"
      BY <2>4, <3>1, <3>2
    <3>3. CASE rec.helper[b] # "up"
      BY <2>2, <2>3, <2>4, <3>3
    <3>4. QED
      BY <3>2, <3>3
  <2>6. QED
    BY <2>5 DEF Owns
<1>5. QED
  BY <1>1, <1>2, <1>3, <1>4, RoutingNames

\* The user's mode comes back, or stays.
LEMMA RevertRemembers ==
  ASSUME NEW rec \in DeliveryStates, NEW mode \in Modes, Remembers(rec, mode),
         NEW m \in RevertProxy(rec)
  PROVE  Remembers(m, mode)
<1>1. rec.routing \in Routings
  BY DEF DeliveryStates
<1>2. CASE rec.routing.name = "none"
  BY <1>2 DEF RevertProxy
<1>3. CASE rec.routing.name = "proxy"
  <2>1. m = ProxyDown(rec) /\ rec.saved = mode
    BY <1>1, <1>3, RoutingByName DEF RevertProxy, Remembers
  <2>2. m.mode = mode /\ m.socks = NoPort /\ m.routing = NoRouting
    BY <2>1 DEF ProxyDown, DeliveryStates, Modes
  <2>3. QED
    BY <2>2, RoutingsDiffer DEF Remembers
<1>4. CASE rec.routing.name = "transparent"
  <2> DEFINE released == [rec EXCEPT !.routing = NoRouting]
  <2>1. released \in DeliveryStates
    BY RoutingsType DEF DeliveryStates
  <2>2. released.mode = mode /\ released.socks = NoPort
    BY <1>4, RoutingsDiffer DEF Remembers, DeliveryStates
  <2>3. m.mode = released.mode /\ m.socks = released.socks
    BY <1>4, <2>1 DEF RevertProxy, TransparentDown, DeliveryStates
  <2>4. m.routing = NoRouting
    BY RevertedRouting
  <2>5. QED
    BY <2>2, <2>3, <2>4, RoutingsDiffer DEF Remembers
<1>5. QED
  BY <1>1, <1>2, <1>3, <1>4, RoutingNames

\* What up() leaves when it raises is not a serving helper, and not the desktop
\* setting either.
LEMMA FailuresKeep ==
  ASSUME NEW rec \in DeliveryStates, NEW m \in TransparentFailures(rec)
  PROVE  /\ m.routing = rec.routing
         /\ m.mode = rec.mode
         /\ m.socks = rec.socks
         /\ \A b \in Backends : m.helper[b] = "up" => rec.helper[b] = "up"
<1>1. CASE FreeBackends(rec) = {}
  BY <1>1 DEF TransparentFailures
<1>2. CASE FreeBackends(rec) # {}
  <2> DEFINE b == NextBackend(rec)
  <2>1. b \in Backends
    BY <1>2, NextBackendType
  <2> HIDE DEF b
  <2>2. \/ m = rec
        \/ m = [rec EXCEPT !.rules = NoBackend]
        \/ \E r \in {rec.rules, NoBackend, b} :
              m = [rec EXCEPT !.helper[b] = "closing", !.rules = r]
    BY <1>2 DEF TransparentFailures, b
  <2>3. QED
    BY <2>1, <2>2 DEF DeliveryStates
<1>3. QED
  BY <1>1, <1>2

\* The outcomes of apply_proxy: the proxy, perhaps after a transparent backend
\* that failed, or a transparent backend.
LEMMA ApplyOutcomes ==
  ASSUME NEW rec \in DeliveryStates, NEW port, NEW wanted,
         NEW m \in ApplyProxy(rec, port, wanted)
  PROVE  \/ m = ProxyUp(rec, port)
         \/ \E f \in TransparentFailures(rec) : m = ProxyUp(f, port)
         \/ FreeBackends(rec) # {} /\ m = TransparentUp(rec)
  BY DEF ApplyProxy

LEMMA TransparentUpFields ==
  ASSUME NEW rec \in DeliveryStates, FreeBackends(rec) # {}
  PROVE  LET b == NextBackend(rec)
             m == TransparentUp(rec)
         IN  /\ b \in Backends
             /\ m.routing = Transparent(b)
             /\ m.mode = rec.mode
             /\ m.socks = rec.socks
             /\ \A c \in Backends : c # b => m.helper[c] = rec.helper[c]
<1> DEFINE b == NextBackend(rec)
<1>1. b \in Backends
  BY NextBackendType
<1> HIDE DEF b
<1>2. TransparentUp(rec) = [rec EXCEPT !.helper[b] = "up", !.rules = b,
                                       !.routing = Transparent(b)]
  BY DEF TransparentUp, b
<1>3. /\ TransparentUp(rec).routing = Transparent(b)
      /\ TransparentUp(rec).mode = rec.mode
      /\ TransparentUp(rec).socks = rec.socks
      /\ \A c \in Backends : c # b => TransparentUp(rec).helper[c] = rec.helper[c]
  BY <1>1, <1>2 DEF DeliveryStates
<1>4. QED
  BY <1>1, <1>3 DEF b

LEMMA ProxyUpFields ==
  ASSUME NEW rec \in DeliveryStates, NEW port
  PROVE  /\ ProxyUp(rec, port).routing = ProxyRouting
         /\ ProxyUp(rec, port).saved = rec.mode
         /\ ProxyUp(rec, port).helper = rec.helper
  BY DEF ProxyUp, DeliveryStates

\* apply_proxy always delivers one way or the other.  From no delivery at all it
\* leaves at most the helper of its own backend serving, and the user's mode in
\* place or saved.
LEMMA ApplyDelivers ==
  ASSUME NEW rec \in DeliveryStates, rec.routing = NoRouting, Owns(rec),
         NEW port, NEW wanted, NEW m \in ApplyProxy(rec, port, wanted)
  PROVE  /\ m.routing.name \in {"proxy", "transparent"}
         /\ Owns(m)
         /\ \A mode : Remembers(rec, mode) => Remembers(m, mode)
<1>1. \A b \in Backends : rec.helper[b] # "up"
  BY RoutingsDiffer DEF Owns
<1>2. ASSUME NEW f \in DeliveryStates, f.mode = rec.mode, m = ProxyUp(f, port),
             \A b \in Backends : f.helper[b] # "up"
      PROVE  /\ m.routing.name \in {"proxy", "transparent"}
             /\ Owns(m)
             /\ \A mode : Remembers(rec, mode) => Remembers(m, mode)
  <2>1. m.routing = ProxyRouting /\ m.saved = rec.mode /\ m.helper = f.helper
    BY <1>2, ProxyUpFields
  <2>2. QED
    BY <1>2, <2>1, RoutingsDiffer DEF Owns, Remembers
<1>3. CASE m = ProxyUp(rec, port)
  BY <1>1, <1>2, <1>3
<1>4. CASE \E f \in TransparentFailures(rec) : m = ProxyUp(f, port)
  <2>1. PICK f \in TransparentFailures(rec) : m = ProxyUp(f, port)
    BY <1>4
  <2>2. QED
    BY <1>1, <1>2, <2>1, FailuresKeep, TransparentFailuresType
<1>5. CASE FreeBackends(rec) # {} /\ m = TransparentUp(rec)
  <2> DEFINE b == NextBackend(rec)
  <2>1. /\ b \in Backends
        /\ m.routing = Transparent(b)
        /\ m.mode = rec.mode
        /\ m.socks = rec.socks
        /\ \A c \in Backends : c # b => m.helper[c] = rec.helper[c]
    BY <1>5, TransparentUpFields
  <2> HIDE DEF b
  <2>2. Owns(m)
    BY <1>1, <2>1 DEF Owns
  <2>3. QED
    BY <2>1, <2>2, RoutingsDiffer DEF Remembers
<1>6. QED
  BY <1>3, <1>4, <1>5, ApplyOutcomes

\* The Tunly process gone, no helper serves.
LEMMA ProcessGoneFields ==
  ASSUME NEW rec \in DeliveryStates
  PROVE  /\ ProcessGone(rec).routing = NoRouting
         /\ ProcessGone(rec).mode = rec.mode
         /\ ProcessGone(rec).socks = rec.socks
         /\ Owns(ProcessGone(rec))
<1> DEFINE h == [b \in Backends |->
                    IF rec.helper[b] = "up" THEN "closing" ELSE rec.helper[b]]
<1>1. \A b \in Backends : h[b] # "up"
  OBVIOUS
<1> HIDE DEF h
<1>2. ProcessGone(rec) = [rec EXCEPT !.routing = NoRouting, !.saved = "unset",
                                     !.helper = h]
  BY DEF ProcessGone, h
<1>3. QED
  BY <1>1, <1>2 DEF DeliveryStates, Owns

\* What happens to helpers and rules behind the Manager's back.
LEMMA HelperStepFields ==
  ASSUME NEW rec \in DeliveryStates,
         NEW m \in {HelperExits(rec, b) : b \in Backends} \cup
                   {HelperLost(rec, b) : b \in Backends} \cup {RulesRemoved(rec)}
  PROVE  /\ m.routing = rec.routing
         /\ Owns(rec) => Owns(m)
         /\ \A mode : Remembers(rec, mode) => Remembers(m, mode)
<1>1. /\ m.routing = rec.routing
      /\ m.mode = rec.mode
      /\ m.socks = rec.socks
      /\ m.saved = rec.saved
      /\ \A b \in Backends : m.helper[b] = "up" => rec.helper[b] = "up"
  <2>1. CASE m = RulesRemoved(rec)
    BY <2>1 DEF RulesRemoved, DeliveryStates
  <2>2. ASSUME NEW b \in Backends, m \in {HelperExits(rec, b), HelperLost(rec, b)}
        PROVE  /\ m.routing = rec.routing /\ m.mode = rec.mode
               /\ m.socks = rec.socks /\ m.saved = rec.saved
               /\ \A c \in Backends : m.helper[c] = "up" => rec.helper[c] = "up"
    BY <2>2 DEF HelperExits, HelperLost, DeliveryStates
  <2>3. QED
    BY <2>1, <2>2
<1>2. QED
  BY <1>1 DEF Owns, Remembers

-----------------------------------------------------------------------------
(* Lookups *)

LEMMA ByNameType ==
  ASSUME NEW n, Configured(n)
  PROVE  ByName(n) \in tunnels /\ ByName(n).name = n
  BY DEF ByName, Configured

LEMMA NextPidType ==
  ASSUME FreePids # {}
  PROVE  /\ NextPid \in Procs
         /\ NextPid # NoProc
         /\ \A x \in ssh : x.pid # NextPid
  BY DEF NextPid, FreePids, Procs, NoProc

LEMMA IdleType ==
  Idle \in [proc : Procs \cup {NoProc}, active : Names \cup {NoName},
            connecting : BOOLEAN]
  BY DEF Idle

\* What is left of the prompts when the innermost one closes.
LEMMA OuterPrompts ==
  ASSUME prompts \in Seq(Tunnels), Prompting
  PROVE  /\ prompts[Len(prompts)] \in Tunnels
         /\ SubSeq(prompts, 1, Len(prompts) - 1) \in Seq(Tunnels)
         /\ Len(prompts) = 1 => SubSeq(prompts, 1, Len(prompts) - 1) = <<>>
<1>1. Len(prompts) \in Nat /\ Len(prompts) # 0
  BY EmptySeq, LenProperties DEF Prompting
<1>2. \A i \in 1..Len(prompts) : prompts[i] \in Tunnels
  BY ElementOfSeq
<1>3. SubSeq(prompts, 1, Len(prompts) - 1) \in Seq(Tunnels)
  BY <1>1, <1>2, SubSeqProperties
<1>4. Len(prompts) = 1 => SubSeq(prompts, 1, Len(prompts) - 1) = <<>>
  <2>1. HAVE Len(prompts) = 1
  <2>2. QED
    BY <2>1, SubSeqEmpty
<1>5. QED
  BY <1>1, <1>2, <1>3, <1>4

-----------------------------------------------------------------------------
(* The building blocks of the handlers keep the types *)

LEMMA LaunchType ==
  ASSUME TypeOK, NEW t \in Tunnels, NEW table \in SUBSET SshStates,
         NEW m \in [proc : Procs \cup {NoProc}, active : Names \cup {NoName},
                    connecting : BOOLEAN],
         Launch(t, table, m)
  PROVE  /\ ssh' \subseteq SshStates
         /\ mgr' \in [proc : Procs \cup {NoProc}, active : Names \cup {NoName},
                      connecting : BOOLEAN]
         /\ timers' \subseteq Timers
<1>1. CASE FreePids # {} /\ ssh' = table \cup {[pid |-> NextPid, port |-> t.port,
                                               up |-> FALSE, child |-> TRUE]}
           /\ mgr' = [proc |-> NextPid, active |-> t.name, connecting |-> TRUE]
           /\ timers' = timers \cup {[attempt |-> NextPid, name |-> t.name,
                                      left |-> Ticks]}
  <2>1. NextPid \in Procs
    BY <1>1, NextPidType
  <2>2. Ticks \in 1..Ticks
    BY ManagerAssumption
  <2>3. t.name \in Names /\ t.port \in Ports
    BY DEF Tunnels
  <2>4. [attempt |-> NextPid, name |-> t.name, left |-> Ticks] \in Timers
    BY <2>1, <2>2, <2>3 DEF Timers
  <2>5. [pid |-> NextPid, port |-> t.port, up |-> FALSE, child |-> TRUE]
          \in SshStates
    BY <2>1, <2>3 DEF SshStates
  <2>6. mgr' \in [proc : Procs \cup {NoProc}, active : Names \cup {NoName},
                 connecting : BOOLEAN]
    BY <1>1, <2>1, <2>3
  <2>7. QED
    BY <1>1, <2>4, <2>5, <2>6 DEF TypeOK
<1>2. CASE ssh' = table /\ mgr' = [m EXCEPT !.active = NoName, !.connecting = FALSE]
           /\ timers' = timers
  BY <1>2 DEF TypeOK
<1>3. QED
  BY <1>1, <1>2 DEF Launch

LEMMA KilledType ==
  ASSUME NEW table \in SUBSET SshStates, NEW p
  PROVE  Killed(table, p) \in SUBSET SshStates
  BY DEF Killed

LEMMA EndedType ==
  ASSUME TypeOK, NEW how \in {"exited", "crashed"},
         NEW table \in SUBSET SshStates, NEW final \in DeliveryStates,
         Ended(how, table, final)
  PROVE  /\ app' \in {"running", "quitting", "exited", "crashed"}
         /\ net' \in DeliveryStates
         /\ ssh' \subseteq SshStates
         /\ mgr' \in [proc : Procs \cup {NoProc}, active : Names \cup {NoName},
                      connecting : BOOLEAN]
         /\ timers' \subseteq Timers
         /\ prompts' \in Seq(Tunnels)
<1>1. Orphaned(table) \subseteq SshStates
  <2>1. \A x \in table : x.pid \in Procs /\ x.port \in Ports /\ x.up \in BOOLEAN
    BY DEF SshStates
  <2>2. \A x \in table : [pid |-> x.pid, port |-> x.port, up |-> x.up,
                         child |-> FALSE] \in SshStates
    BY <2>1 DEF SshStates
  <2>3. QED
    BY <2>2 DEF Orphaned
<1>2. QED
  BY <1>1, ProcessGoneType, IdleType DEF Ended

-----------------------------------------------------------------------------
(* Type correctness *)

LEMMA StartType ==
  ASSUME TypeOK, NEW t \in tunnels, Start(t)
  PROVE  TypeOK'
<1> DEFINE exclusive == Alive(ssh, mgr.proc)
           table == IF exclusive THEN Killed(ssh, mgr.proc) ELSE ssh
           m == IF exclusive THEN Idle ELSE mgr
           MgrType == [proc : Procs \cup {NoProc}, active : Names \cup {NoName},
                       connecting : BOOLEAN]
<1>1. t \in Tunnels
  BY DEF TypeOK
<1>2. table \in SUBSET SshStates /\ m \in MgrType
  BY KilledType, IdleType DEF TypeOK
<1>3. net' \in DeliveryStates
  BY RevertProxyType DEF Start, TypeOK
<1>4. /\ ssh' \subseteq SshStates
      /\ mgr' \in MgrType
      /\ timers' \subseteq Timers
      /\ prompts' \in Seq(Tunnels)
  <2> HIDE DEF table, m
  <2>1. CASE Launch(t, table, m) /\ UNCHANGED prompts
    BY <1>1, <1>2, <2>1, LaunchType DEF TypeOK
  <2>2. CASE ssh' = table /\ mgr' = m /\ UNCHANGED <<timers, prompts>>
    BY <1>2, <2>2 DEF TypeOK
  <2>3. CASE /\ prompts' = Append(prompts, t)
             /\ ssh' = table
             /\ mgr' = m
             /\ UNCHANGED timers
    BY <1>1, <1>2, <2>3 DEF TypeOK
  <2>4. QED
    BY <2>1, <2>2, <2>3 DEF Start, exclusive, table, m
<1>5. QED
  BY <1>3, <1>4 DEF Start, TypeOK, cfgVars

LEMMA StopType ==
  ASSUME TypeOK, NEW t \in tunnels, Stop(t)
  PROVE  TypeOK'
  BY KilledType, RevertProxyType, IdleType DEF Stop, TypeOK, cfgVars

LEMMA QuitType ==
  ASSUME TypeOK, Quit
  PROVE  TypeOK'
<1> DEFINE live == Alive(ssh, mgr.proc)
           table == IF live THEN Killed(ssh, mgr.proc) ELSE ssh
<1>1. table \in SUBSET SshStates
  BY KilledType DEF TypeOK
<1>2. PICK final \in IF live THEN RevertProxy(net) ELSE {net} :
         IF Prompting
         THEN /\ app' = "quitting"
              /\ net' = final
              /\ ssh' = table
              /\ mgr' = IF live THEN Idle ELSE mgr
              /\ UNCHANGED <<timers, prompts>>
         ELSE Ended("exited", table, final)
  BY DEF Quit
<1>3. final \in DeliveryStates
  BY RevertProxyType DEF TypeOK
<1>4. UNCHANGED <<cfgVars, foreign, userMode>>
  BY DEF Quit
<1> HIDE DEF table, live
<1>5. CASE Prompting
  BY <1>1, <1>2, <1>3, <1>4, <1>5, IdleType DEF TypeOK, cfgVars
<1>6. CASE ~Prompting
  BY <1>1, <1>2, <1>3, <1>4, <1>6, EndedType DEF TypeOK, cfgVars
<1>7. QED
  BY <1>5, <1>6

LEMMA AnswerPromptType ==
  ASSUME TypeOK, AnswerPrompt
  PROVE  TypeOK'
<1> DEFINE t == prompts[Len(prompts)]
           outer == SubSeq(prompts, 1, Len(prompts) - 1)
<1>1. t \in Tunnels /\ outer \in Seq(Tunnels)
  BY OuterPrompts DEF AnswerPrompt, TypeOK
<1>2. UNCHANGED <<cfgVars, foreign, userMode>>
  BY DEF AnswerPrompt
<1>3. CASE app = "quitting" /\ outer = <<>>
  <2>1. PICK child \in BOOLEAN :
           LET table == IF child /\ FreePids # {}
                        THEN ssh \cup {[pid |-> NextPid, port |-> t.port,
                                        up |-> FALSE, child |-> TRUE]}
                        ELSE ssh
           IN  Ended("exited", table, net)
    BY <1>3 DEF AnswerPrompt
  <2> DEFINE table == IF child /\ FreePids # {}
                      THEN ssh \cup {[pid |-> NextPid, port |-> t.port,
                                      up |-> FALSE, child |-> TRUE]}
                      ELSE ssh
  <2>2. table \in SUBSET SshStates
    <3>1. t.port \in Ports
      BY <1>1 DEF Tunnels
    <3>2. FreePids # {} => [pid |-> NextPid, port |-> t.port, up |-> FALSE,
                            child |-> TRUE] \in SshStates
      BY <3>1, NextPidType DEF SshStates
    <3>3. QED
      BY <3>2 DEF TypeOK
  <2>3. Ended("exited", table, net)
    BY <2>1
  <2> HIDE DEF table
  <2>4. QED
    BY <1>2, <2>2, <2>3, EndedType DEF TypeOK, cfgVars
<1>4. CASE ~(app = "quitting" /\ outer = <<>>)
  <2>1. /\ prompts' = outer
        /\ UNCHANGED <<ssh, mgr, timers>> \/ Launch(t, ssh, mgr)
        /\ UNCHANGED <<net, app>>
    BY <1>4 DEF AnswerPrompt
  <2> HIDE DEF t, outer
  <2>2. CASE UNCHANGED <<ssh, mgr, timers>>
    BY <1>1, <1>2, <2>1, <2>2 DEF TypeOK, cfgVars
  <2>3. CASE Launch(t, ssh, mgr)
    BY <1>1, <1>2, <2>1, <2>3, LaunchType DEF TypeOK, cfgVars
  <2>4. QED
    BY <2>1, <2>2, <2>3
<1>5. QED
  BY <1>3, <1>4

LEMMA AwaitListenerType ==
  ASSUME TypeOK, NEW p \in Procs, AwaitListener(p)
  PROVE  TypeOK'
<1>1. PICK tm \in timers : StaleTick(tm) \/ SshExitedTick(tm)
                           \/ ListenerUpTick(tm) \/ WaitingTick(tm)
  BY DEF AwaitListener
<1>2. UNCHANGED <<cfgVars, prompts, foreign, app, userMode>>
  BY DEF AwaitListener
<1>3. tm \in Timers
  BY DEF TypeOK
<1>4. CASE StaleTick(tm)
  BY <1>2, <1>4 DEF StaleTick, TypeOK, cfgVars
<1>5. CASE SshExitedTick(tm)
  BY <1>2, <1>5, IdleType DEF SshExitedTick, TypeOK, cfgVars
<1>6. CASE ListenerUpTick(tm)
  <2>1. ByName(tm.name).port \in Ports
    BY <1>6, ByNameType DEF ListenerUpTick, Current, TypeOK, Tunnels
  <2>2. net' \in DeliveryStates
    BY <1>6, <2>1, ApplyProxyType DEF ListenerUpTick, TypeOK
  <2>3. QED
    BY <1>2, <1>6, <2>2 DEF ListenerUpTick, TypeOK, cfgVars
<1>7. CASE WaitingTick(tm)
  <2>1. CASE tm.left = 1
    BY <1>2, <1>7, <2>1, KilledType, IdleType DEF WaitingTick, TypeOK, cfgVars
  <2>2. CASE tm.left # 1
    <3>1. [tm EXCEPT !.left = @ - 1] \in Timers
      BY <1>3, <2>2, ManagerAssumption DEF Timers
    <3>2. QED
      BY <1>2, <1>7, <2>2, <3>1 DEF WaitingTick, TypeOK, cfgVars
  <2>3. QED
    BY <2>1, <2>2
<1>8. QED
  BY <1>1, <1>4, <1>5, <1>6, <1>7

LEMMA PollType ==
  ASSUME TypeOK, PollDrop \/ PollRulesLost \/ PollCheckFailed
  PROVE  TypeOK'
<1>1. Dropped
  BY DEF PollDrop, PollRulesLost, PollCheckFailed
<1>2. QED
  BY <1>1, KilledType, RevertProxyType DEF Dropped, TypeOK, cfgVars

LEMMA ToggleType ==
  ASSUME TypeOK, Toggle
  PROVE  TypeOK'
<1>1. net' \in DeliveryStates
  <2>1. CASE mgr.active # NoName /\ IsActive(mgr.active) /\ Configured(mgr.active)
    <3>1. ByName(mgr.active).port \in Ports
      BY <2>1, ByNameType DEF TypeOK, Tunnels
    <3>2. PICK reverted \in RevertProxy(net) :
             net' \in ApplyProxy(reverted, ByName(mgr.active).port, ~transparent)
      BY <2>1 DEF Toggle
    <3>3. reverted \in DeliveryStates
      BY RevertProxyType DEF TypeOK
    <3>4. QED
      BY <3>1, <3>2, <3>3, ApplyProxyType
  <2>2. CASE mgr.active # NoName /\ IsActive(mgr.active) /\ ~Configured(mgr.active)
    BY <2>2, RevertProxyType DEF Toggle, TypeOK
  <2>3. CASE ~(mgr.active # NoName /\ IsActive(mgr.active))
    BY <2>3 DEF Toggle, TypeOK
  <2>4. QED
    BY <2>1, <2>2, <2>3
<1>2. QED
  BY <1>1 DEF Toggle, TypeOK

LEMMA ConfigType ==
  ASSUME TypeOK, SetDns \/ AddTunnel \/ EditTunnel
  PROVE  TypeOK'
  BY DEF SetDns, AddTunnel, EditTunnel, TypeOK

LEMMA DeleteTunnelType ==
  ASSUME TypeOK, DeleteTunnel
  PROVE  TypeOK'
  BY KilledType, RevertProxyType, IdleType DEF DeleteTunnel, TypeOK

LEMMA CrashType ==
  ASSUME TypeOK, Crash
  PROVE  TypeOK'
  BY EndedType DEF Crash, TypeOK, cfgVars

LEMMA RelaunchType ==
  ASSUME TypeOK, Relaunch
  PROVE  TypeOK'
  BY DEF Relaunch, TypeOK, cfgVars

LEMMA SshType ==
  ASSUME TypeOK, SshListens \/ SshDies
  PROVE  TypeOK'
<1>1. \A x \in ssh : [x EXCEPT !.up = TRUE] \in SshStates
  BY DEF TypeOK, SshStates
<1>2. ssh' \subseteq SshStates
  BY <1>1 DEF SshListens, SshDies, TypeOK
<1>3. QED
  BY <1>2 DEF SshListens, SshDies, TypeOK, cfgVars

LEMMA EnvDeliveryType ==
  ASSUME TypeOK,
         RulesVanish \/ \E b \in Backends : HelperExit(b) \/ HelperKilled(b)
  PROVE  TypeOK'
<1>1. net' \in DeliveryStates
  BY HelperStepType, RulesRemovedType
     DEF RulesVanish, HelperExit, HelperKilled, TypeOK
<1>2. QED
  BY <1>1 DEF RulesVanish, HelperExit, HelperKilled, TypeOK, cfgVars

LEMMA ForeignListenerType ==
  ASSUME TypeOK, ForeignListener
  PROVE  TypeOK'
  BY DEF ForeignListener, TypeOK, cfgVars

LEMMA InitType == Init => TypeOK
<1> SUFFICES ASSUME Init PROVE TypeOK
  OBVIOUS
<1>1. net \in DeliveryStates /\ userMode \in Modes
  BY DeliveryInitType, ManagerAssumption DEF Init
<1>2. <<>> \in Seq(Tunnels)
  OBVIOUS
<1>3. QED
  BY <1>1, <1>2, IdleType, ManagerAssumption DEF Init, TypeOK

LEMMA NextType == TypeOK /\ [Next]_vars => TypeOK'
<1> SUFFICES ASSUME TypeOK, [Next]_vars PROVE TypeOK'
  OBVIOUS
<1>1. CASE Click
  BY <1>1, StartType, StopType DEF Click
<1>2. CASE LoopStep
  BY <1>2, AwaitListenerType, PollType DEF LoopStep
<1>3. CASE UserStep
  BY <1>1, <1>3, QuitType, AnswerPromptType, ToggleType, ConfigType,
     DeleteTunnelType, RelaunchType DEF UserStep
<1>4. CASE EnvStep
  BY <1>4, SshType, EnvDeliveryType, ForeignListenerType, CrashType DEF EnvStep
<1>5. CASE UNCHANGED vars
  BY <1>5 DEF vars, TypeOK
<1>6. QED
  BY <1>2, <1>3, <1>4, <1>5 DEF Next

\* Every variable keeps its type, for every set of tunnels and every bound.
THEOREM TypeCorrect == Spec => []TypeOK
<1>1. QED
  BY InitType, NextType, PTL DEF Spec

-----------------------------------------------------------------------------
(* The connecting flag *)

\* Launch arms a timer for the tunnel it marks as connecting, or marks none.
LEMMA LaunchConnecting ==
  ASSUME NEW t, NEW table,
         NEW m \in [proc : Procs \cup {NoProc}, active : Names \cup {NoName},
                    connecting : BOOLEAN],
         Launch(t, table, m)
  PROVE  ConnectingOwned'
<1>1. CASE /\ FreePids # {}
           /\ mgr' = [proc |-> NextPid, active |-> t.name, connecting |-> TRUE]
           /\ timers' = timers \cup {[attempt |-> NextPid, name |-> t.name,
                                      left |-> Ticks]}
  <2> DEFINE tm == [attempt |-> NextPid, name |-> t.name, left |-> Ticks]
  <2>1. tm \in timers' /\ tm.name = mgr'.active
    BY <1>1
  <2>2. mgr'.proc # NoProc
    BY <1>1, NextPidType
  <2>3. QED
    BY <2>1, <2>2 DEF ConnectingOwned
<1>2. CASE mgr' = [m EXCEPT !.active = NoName, !.connecting = FALSE]
  BY <1>2 DEF ConnectingOwned
<1>3. QED
  BY <1>1, <1>2 DEF Launch

LEMMA IdleConnecting ==
  ASSUME mgr' = Idle
  PROVE  ConnectingOwned'
  BY DEF Idle, ConnectingOwned

LEMMA SameConnecting ==
  ASSUME ConnectingOwned, UNCHANGED <<mgr, timers>>
  PROVE  ConnectingOwned'
  BY DEF ConnectingOwned

LEMMA AwaitListenerConnecting ==
  ASSUME TypeOK, ConnectingOwned, NEW p \in Procs, AwaitListener(p)
  PROVE  ConnectingOwned'
<1>1. PICK tm \in timers : StaleTick(tm) \/ SshExitedTick(tm)
                           \/ ListenerUpTick(tm) \/ WaitingTick(tm)
  BY DEF AwaitListener
<1>2. CASE StaleTick(tm) \/ ListenerUpTick(tm)
  BY <1>2 DEF StaleTick, ListenerUpTick, ConnectingOwned, TypeOK
<1>3. CASE SshExitedTick(tm)
  BY <1>3, IdleConnecting DEF SshExitedTick
<1>4. CASE WaitingTick(tm)
  <2>1. CASE tm.left = 1
    BY <1>4, <2>1, IdleConnecting DEF WaitingTick
  <2>2. CASE tm.left # 1
    \* The timer is armed again under the same name.
    <3>1. tm \in Timers
      BY DEF TypeOK
    <3>2. [tm EXCEPT !.left = @ - 1].name = tm.name
      BY <3>1 DEF Timers
    <3>3. QED
      BY <1>4, <2>2, <3>2 DEF WaitingTick, ConnectingOwned
  <2>3. QED
    BY <2>1, <2>2
<1>5. QED
  BY <1>1, <1>2, <1>3, <1>4

LEMMA NextConnecting == TypeOK /\ ConnectingOwned /\ [Next]_vars => ConnectingOwned'
<1> SUFFICES ASSUME TypeOK, ConnectingOwned, [Next]_vars PROVE ConnectingOwned'
  OBVIOUS
<1> DEFINE MgrType == [proc : Procs \cup {NoProc}, active : Names \cup {NoName},
                       connecting : BOOLEAN]
<1>1. CASE Click
  <2>1. PICK t \in tunnels : Start(t) \/ Stop(t)
    BY <1>1 DEF Click
  <2>2. CASE Stop(t)
    BY <2>2, IdleConnecting DEF Stop
  <2>3. CASE Start(t)
    <3> DEFINE table == IF Alive(ssh, mgr.proc) THEN Killed(ssh, mgr.proc) ELSE ssh
               m == IF Alive(ssh, mgr.proc) THEN Idle ELSE mgr
    <3>1. m \in MgrType
      BY IdleType DEF TypeOK
    <3>2. (mgr' = m /\ UNCHANGED timers) \/ Launch(t, table, m)
      BY <2>3 DEF Start
    <3>3. CASE mgr' = m /\ UNCHANGED timers
      BY <3>3, IdleConnecting, SameConnecting
    <3>4. CASE Launch(t, table, m)
      BY <3>1, <3>4, LaunchConnecting
    <3>5. QED
      BY <3>2, <3>3, <3>4
  <2>4. QED
    BY <2>1, <2>2, <2>3
<1>2. CASE Quit
  BY <1>2, IdleConnecting, SameConnecting DEF Quit, Ended
<1>3. CASE AnswerPrompt
  <2>1. mgr' = Idle \/ UNCHANGED <<mgr, timers>>
        \/ Launch(prompts[Len(prompts)], ssh, mgr)
    BY <1>3 DEF AnswerPrompt, Ended
  <2>2. QED
    BY <2>1, IdleConnecting, SameConnecting, LaunchConnecting DEF TypeOK
<1>4. CASE \E p \in Procs : AwaitListener(p)
  BY <1>4, AwaitListenerConnecting
<1>5. CASE PollDrop \/ PollRulesLost \/ PollCheckFailed
  \* The poll acts only when nothing is connecting.
  BY <1>5 DEF PollDrop, PollRulesLost, PollCheckFailed, Watching, Dropped,
              ConnectingOwned, TypeOK
<1>6. CASE DeleteTunnel
  BY <1>6, IdleConnecting, SameConnecting DEF DeleteTunnel
<1>7. CASE Crash
  BY <1>7, IdleConnecting DEF Crash, Ended
<1>8. CASE \/ Toggle \/ SetDns \/ AddTunnel \/ EditTunnel \/ Relaunch
           \/ SshListens \/ SshDies \/ RulesVanish \/ ForeignListener
           \/ \E b \in Backends : HelperExit(b) \/ HelperKilled(b)
           \/ UNCHANGED vars
  BY <1>8, SameConnecting DEF Toggle, SetDns, AddTunnel, EditTunnel, Relaunch,
     SshListens, SshDies, RulesVanish, ForeignListener, HelperExit, HelperKilled, vars
<1>9. QED
  BY <1>1, <1>2, <1>3, <1>4, <1>5, <1>6, <1>7, <1>8
     DEF Next, UserStep, LoopStep, EnvStep

\* In every window, whatever users and the environment do: while connecting is
\* set, a timer is armed that will clear it, and proc is a process that timer
\* can ask.  _poll is never switched off for good.
THEOREM ConnectingAlwaysOwned == Spec => []ConnectingOwned
<1>1. Init => ConnectingOwned
  BY DEF Init, Idle, ConnectingOwned
<1>2. QED
  BY <1>1, NextConnecting, TypeCorrect, PTL DEF Spec

-----------------------------------------------------------------------------
(* The exclusive model *)

NoChild(table) == \A x \in table : ~x.child

\* Exclusive is not inductive by itself: start() drops the current tunnel before
\* it asks for a password and overwrites proc after.  What makes it hold is that
\* nothing was launched in between.
PromptsQuiet == Prompting => Len(prompts) = 1 /\ NoChild(ssh)

ExclusiveInv == Exclusive /\ PromptsQuiet

\* An ssh that is not alive any more leaves no other child behind.
LEMMA NoChildWithoutProc ==
  ASSUME Exclusive
  PROVE  /\ ~Alive(ssh, mgr.proc) => NoChild(ssh)
         /\ NoChild(Killed(ssh, mgr.proc))
  BY DEF Exclusive, Alive, NoChild, Killed

LEMMA NoChildExclusive ==
  ASSUME NoChild(ssh'), prompts' = <<>> \/ Len(prompts') = 1
  PROVE  ExclusiveInv'
  BY DEF NoChild, ExclusiveInv, Exclusive, PromptsQuiet, Prompting

LEMMA LaunchExclusive ==
  ASSUME NEW t, NEW table, NEW m, NoChild(table), Launch(t, table, m), prompts' = <<>>
  PROVE  ExclusiveInv'
<1>1. CASE ssh' = table
  BY <1>1, NoChildExclusive
<1>2. CASE /\ ssh' = table \cup {[pid |-> NextPid, port |-> t.port,
                                  up |-> FALSE, child |-> TRUE]}
           /\ mgr' = [proc |-> NextPid, active |-> t.name, connecting |-> TRUE]
  <2>1. Exclusive'
    BY <1>2 DEF Exclusive, NoChild
  <2>2. ~Prompting'
    BY DEF Prompting
  <2>3. QED
    BY <2>1, <2>2 DEF ExclusiveInv, PromptsQuiet
<1>3. QED
  BY <1>1, <1>2 DEF Launch

\* A step that keeps the process attribute and launches nothing.
LEMMA NoLaunchExclusive ==
  ASSUME ExclusiveInv, mgr'.proc = mgr.proc, UNCHANGED prompts,
         \A x \in ssh' : x.child => \E y \in ssh : y.child /\ y.pid = x.pid
  PROVE  ExclusiveInv'
  BY DEF ExclusiveInv, Exclusive, PromptsQuiet, Prompting, NoChild

LEMMA KillExclusive ==
  ASSUME ExclusiveInv, ssh' = Killed(ssh, mgr.proc), UNCHANGED prompts
  PROVE  ExclusiveInv'
<1>1. NoChild(ssh')
  BY NoChildWithoutProc DEF ExclusiveInv
<1>2. QED
  BY <1>1 DEF ExclusiveInv, Exclusive, PromptsQuiet, Prompting, NoChild

LEMMA EndedExclusive ==
  ASSUME NEW how, NEW table, NEW final, Ended(how, table, final)
  PROVE  ExclusiveInv'
  BY NoChildExclusive DEF Ended, Orphaned, NoChild

LEMMA StartExclusive ==
  ASSUME TypeOK, ExclusiveInv, "prompting" \notin Windows, NEW t \in tunnels, Start(t)
  PROVE  ExclusiveInv'
<1> DEFINE table == IF Alive(ssh, mgr.proc) THEN Killed(ssh, mgr.proc) ELSE ssh
           m == IF Alive(ssh, mgr.proc) THEN Idle ELSE mgr
<1>1. prompts = <<>>
  BY DEF Start, Within, Prompting
<1>2. NoChild(table)
  BY NoChildWithoutProc DEF ExclusiveInv
<1> HIDE DEF table, m
<1>3. CASE ssh' = table /\ UNCHANGED prompts
  BY <1>1, <1>2, <1>3, NoChildExclusive
<1>4. CASE Launch(t, table, m) /\ UNCHANGED prompts
  BY <1>1, <1>2, <1>4, LaunchExclusive
<1>5. CASE ssh' = table /\ prompts' = Append(prompts, t)
  <2>1. Len(prompts') = 1
    BY <1>1, <1>5
  <2>2. QED
    BY <1>2, <1>5, <2>1, NoChildExclusive
<1>6. QED
  BY <1>3, <1>4, <1>5 DEF Start, table, m

LEMMA AnswerPromptExclusive ==
  ASSUME TypeOK, ExclusiveInv, AnswerPrompt
  PROVE  ExclusiveInv'
<1> DEFINE t == prompts[Len(prompts)]
           outer == SubSeq(prompts, 1, Len(prompts) - 1)
<1>1. NoChild(ssh) /\ outer = <<>>
  BY OuterPrompts DEF AnswerPrompt, TypeOK, ExclusiveInv, PromptsQuiet
<1>2. CASE app = "quitting"
  BY <1>1, <1>2, EndedExclusive DEF AnswerPrompt
<1>3. CASE app # "quitting"
  <2>1. prompts' = <<>> /\ (UNCHANGED ssh \/ Launch(t, ssh, mgr))
    BY <1>1, <1>3 DEF AnswerPrompt
  <2> HIDE DEF t
  <2>2. QED
    BY <1>1, <2>1, LaunchExclusive, NoChildExclusive
<1>4. QED
  BY <1>2, <1>3

LEMMA AwaitListenerExclusive ==
  ASSUME TypeOK, ExclusiveInv, NEW p \in Procs, AwaitListener(p)
  PROVE  ExclusiveInv'
<1>1. PICK tm \in timers : StaleTick(tm) \/ SshExitedTick(tm)
                           \/ ListenerUpTick(tm) \/ WaitingTick(tm)
  BY DEF AwaitListener
<1>2. UNCHANGED prompts
  BY DEF AwaitListener
<1>3. CASE StaleTick(tm) \/ ListenerUpTick(tm)
  BY <1>2, <1>3, NoLaunchExclusive DEF StaleTick, ListenerUpTick, TypeOK
<1>4. CASE SshExitedTick(tm)
  <2>1. NoChild(ssh')
    BY <1>4, NoChildWithoutProc DEF SshExitedTick, ExclusiveInv
  <2>2. QED
    BY <1>2, <2>1 DEF ExclusiveInv, Exclusive, PromptsQuiet, Prompting, NoChild
<1>5. CASE WaitingTick(tm)
  BY <1>2, <1>5, KillExclusive, NoLaunchExclusive DEF WaitingTick
<1>6. QED
  BY <1>1, <1>3, <1>4, <1>5

LEMMA NextExclusive ==
  ASSUME TypeOK, ExclusiveInv, "prompting" \notin Windows, [Next]_vars
  PROVE  ExclusiveInv'
<1>1. CASE Click
  BY <1>1, StartExclusive, KillExclusive DEF Click, Stop
<1>2. CASE Quit
  BY <1>2, EndedExclusive DEF Quit, Within
<1>3. CASE AnswerPrompt
  BY <1>3, AnswerPromptExclusive
<1>4. CASE \E p \in Procs : AwaitListener(p)
  BY <1>4, AwaitListenerExclusive
<1>5. CASE PollDrop \/ PollRulesLost \/ PollCheckFailed
  BY <1>5, KillExclusive DEF PollDrop, PollRulesLost, PollCheckFailed, Dropped
<1>6. CASE DeleteTunnel
  BY <1>6, KillExclusive, NoLaunchExclusive DEF DeleteTunnel
<1>7. CASE Crash
  BY <1>7, EndedExclusive DEF Crash
<1>8. CASE SshListens
  <2>1. PICK x \in ssh : ssh' = (ssh \ {x}) \cup {[x EXCEPT !.up = TRUE]}
    BY <1>8 DEF SshListens
  <2>2. LET y == [x EXCEPT !.up = TRUE] IN y.child = x.child /\ y.pid = x.pid
    BY DEF TypeOK, SshStates
  <2>3. QED
    BY <1>8, <2>1, <2>2, NoLaunchExclusive DEF SshListens
<1>9. CASE SshDies
  BY <1>9, NoLaunchExclusive DEF SshDies
<1>10. CASE \/ Toggle \/ SetDns \/ AddTunnel \/ EditTunnel \/ Relaunch
            \/ RulesVanish \/ ForeignListener
            \/ \E b \in Backends : HelperExit(b) \/ HelperKilled(b)
            \/ UNCHANGED vars
  <2>1. UNCHANGED <<mgr, ssh, prompts>>
    BY <1>10 DEF Toggle, SetDns, AddTunnel, EditTunnel, Relaunch, RulesVanish,
       ForeignListener, HelperExit, HelperKilled, vars
  <2>2. QED
    BY <2>1, NoLaunchExclusive
<1>11. QED
  BY <1>1, <1>2, <1>3, <1>4, <1>5, <1>6, <1>7, <1>8, <1>9, <1>10
     DEF Next, UserStep, LoopStep, EnvStep

LEMMA ExclusiveInvHolds ==
  ASSUME "prompting" \notin Windows
  PROVE  Spec => []ExclusiveInv
<1>1. Init => ExclusiveInv
  BY DEF Init, ExclusiveInv, Exclusive, PromptsQuiet, Prompting
<1>2. TypeOK /\ ExclusiveInv /\ [Next]_vars => ExclusiveInv'
  BY NextExclusive
<1>3. QED
  BY <1>1, <1>2, TypeCorrect, PTL DEF Spec

\* At most one ssh of this process is alive, and it is the one in proc, whatever
\* users do outside a password prompt, however ssh, the helpers and the timers
\* race.  Inside a prompt it is false: the run manager_nested_prompt shows how.
THEOREM ExclusiveModel ==
  ASSUME "prompting" \notin Windows
  PROVE  Spec => []Exclusive
<1>1. ExclusiveInv => Exclusive
  BY DEF ExclusiveInv
<1>2. QED
  BY <1>1, ExclusiveInvHolds, PTL
=============================================================================
