-------------------------- MODULE NetfilterProofs ---------------------------
(***************************************************************************)
(* What the rules do to every packet, whatever the addresses and ports:    *)
(* each chain as one decision, and from these what can leave the machine.  *)
(***************************************************************************)
EXTENDS Netfilter, TLAPS

\* The first rule that matches decides.
LEMMA FirstMatch ==
  ASSUME NEW rules, DOMAIN rules \subseteq Nat, NEW p,
         NEW i \in DOMAIN rules, p \in rules[i].matches,
         \A j \in DOMAIN rules : j < i => p \notin rules[j].matches
  PROVE  Walk(rules, p) = rules[i].target
<1>1. i \in Hits(rules, p)
  BY DEF Hits
<1>2. \A j \in Hits(rules, p) : i <= j /\ j \in DOMAIN rules
  BY DEF Hits
<1>3. First(rules, p) \in Hits(rules, p) /\ \A j \in Hits(rules, p) : First(rules, p) <= j
  BY <1>1, <1>2 DEF First
<1>4. First(rules, p) = i
  <2> DEFINE f == First(rules, p)
  <2>1. f \in DOMAIN rules /\ f <= i /\ p \in rules[f].matches
    BY <1>1, <1>2, <1>3 DEF Hits
  <2>2. ~(f < i)
    BY <2>1
  <2> HIDE DEF f
  <2>3. f = i
    BY <2>1, <2>2
  <2>4. QED
    BY <2>3 DEF f
<1>5. QED
  BY <1>1, <1>4 DEF Walk

LEMMA RulesDecide ==
  ASSUME NEW rules, DOMAIN rules \subseteq Nat, NEW p
  PROVE  /\ \A k \in DOMAIN rules :
                p \in rules[k].matches
                /\ (\A j \in DOMAIN rules : j < k => p \notin rules[j].matches)
                => Walk(rules, p) = rules[k].target
         /\ (\A k \in DOMAIN rules : p \notin rules[k].matches) => Walk(rules, p) = "RETURN"
<1>1. \A k \in DOMAIN rules :
          p \in rules[k].matches
          /\ (\A j \in DOMAIN rules : j < k => p \notin rules[j].matches)
          => Walk(rules, p) = rules[k].target
  BY FirstMatch
<1>2. (\A k \in DOMAIN rules : p \notin rules[k].matches) => Walk(rules, p) = "RETURN"
  BY DEF Walk, Hits
<1>3. QED
  BY <1>1, <1>2

\* The IPv4 kill switch lets loopback, the carrier and the LAN through, but no ICMP.
LEMMA GuardDecides ==
  ASSUME NEW p \in Packets
  PROVE  Walk(GuardRules, p) =
           IF ~p.lo /\ (p.proto = "icmp" \/ ~(p \in Carrier \/ p.dst \in PrivateV4))
           THEN "REJECT" ELSE "RETURN"
<1> DEFINE r == GuardRules
           M(k) == p \in r[k].matches
<1>1. DOMAIN r = 1..6 /\ DOMAIN r \subseteq Nat
  BY DEF GuardRules
<1>2. /\ M(1) <=> p.lo
      /\ M(2) <=> p.proto = "icmp"
      /\ M(3) <=> p \in Carrier
      /\ M(4) <=> p.dst \in PrivateV4
      /\ M(5) <=> p.proto = "udp"
      /\ M(6)
  BY DEF GuardRules, Rule, OnLo, Proto, To
<1>3. /\ r[1].target = "RETURN" /\ r[2].target = "REJECT" /\ r[3].target = "RETURN"
      /\ r[4].target = "RETURN" /\ r[5].target = "REJECT" /\ r[6].target = "REJECT"
  BY DEF GuardRules, Rule
<1> HIDE DEF r
<1>4. \A k \in DOMAIN r : M(k) /\ (\A j \in DOMAIN r : j < k => ~M(j))
                             => Walk(r, p) = r[k].target
  BY <1>1, RulesDecide
<1> HIDE DEF M
<1>5. PICK k \in 1..6 : M(k) /\ \A j \in 1..6 : j < k => ~M(j)
  <2>1. CASE M(1)
    BY <2>1
  <2>2. CASE ~M(1) /\ M(2)
    BY <2>2
  <2>3. CASE ~M(1) /\ ~M(2) /\ M(3)
    BY <2>3
  <2>4. CASE ~M(1) /\ ~M(2) /\ ~M(3)
    BY <1>2, <2>4
  <2>5. QED
    BY <2>1, <2>2, <2>3, <2>4
<1>6. QED
  BY <1>1, <1>2, <1>3, <1>4, <1>5 DEF r

\* The IPv6 kill switch lets loopback and the local addresses through.
LEMMA Guard6Decides ==
  ASSUME NEW p \in Packets
  PROVE  Walk(Guard6Rules, p) = IF ~p.lo /\ p.dst \notin LocalV6 THEN "REJECT" ELSE "RETURN"
<1> DEFINE r == Guard6Rules
           M(k) == p \in r[k].matches
<1>1. DOMAIN r = 1..3 /\ DOMAIN r \subseteq Nat
  BY DEF Guard6Rules
<1>2. /\ M(1) <=> p.lo
      /\ M(2) <=> p.dst \in LocalV6
      /\ M(3)
  BY DEF Guard6Rules, Rule, OnLo, To
<1>3. r[1].target = "RETURN" /\ r[2].target = "RETURN" /\ r[3].target = "REJECT"
  BY DEF Guard6Rules, Rule
<1> HIDE DEF r
<1>4. \A k \in DOMAIN r : M(k) /\ (\A j \in DOMAIN r : j < k => ~M(j))
                             => Walk(r, p) = r[k].target
  BY <1>1, RulesDecide
<1> HIDE DEF M
<1>5. QED
  BY <1>1, <1>2, <1>3, <1>4 DEF r

\* The redirect takes lookups first, then any other TCP that the carrier and the
\* LAN do not exempt.
LEMMA NatDecides ==
  ASSUME NEW p \in Packets
  PROVE  Walk(NatRules, p) =
           IF p.lo THEN "RETURN"
           ELSE IF p \in Queries THEN "dns"
           ELSE IF p.proto = "tcp" /\ p \notin Carrier /\ p.dst \notin PrivateV4
                THEN "redirector" ELSE "RETURN"
<1> DEFINE r == NatRules
           M(k) == p \in r[k].matches
<1>1. DOMAIN r = 1..5 /\ DOMAIN r \subseteq Nat
  BY DEF NatRules
<1>2. /\ M(1) <=> p.lo
      /\ M(2) <=> p \in Queries
      /\ M(3) <=> p \in Carrier
      /\ M(4) <=> p.dst \in PrivateV4
      /\ M(5) <=> p.proto = "tcp"
  BY DEF NatRules, Rule, OnLo, Proto, To
<1>3. /\ r[1].target = "RETURN" /\ r[2].target = "dns" /\ r[3].target = "RETURN"
      /\ r[4].target = "RETURN" /\ r[5].target = "redirector"
  BY DEF NatRules, Rule
<1> HIDE DEF r
<1>4. \A k \in DOMAIN r : M(k) /\ (\A j \in DOMAIN r : j < k => ~M(j))
                             => Walk(r, p) = r[k].target
  BY <1>1, RulesDecide
<1>5. (\A k \in DOMAIN r : ~M(k)) => Walk(r, p) = "RETURN"
  BY <1>1, RulesDecide
<1> HIDE DEF M
<1>6. CASE \E k \in 1..5 : M(k)
  <2>1. PICK k \in 1..5 : M(k) /\ \A j \in 1..5 : j < k => ~M(j)
    BY <1>6
  <2>2. QED
    BY <1>1, <1>2, <1>3, <1>4, <2>1 DEF r
<1>7. CASE \A k \in 1..5 : ~M(k)
  BY <1>1, <1>2, <1>5, <1>7 DEF r
<1>8. QED
  BY <1>6, <1>7

\* What the two tables make of a packet, by cases on their standing chains.
LEMMA VerdictV4 ==
  ASSUME NEW p \in Packets, p.dst \in V4, NEW up \in SUBSET Chains
  PROVE  Verdict(p, up) =
           IF "nat" \in up /\ ~p.older /\ ~p.lo /\ p \in Queries THEN "dns"
           ELSE IF "nat" \in up /\ ~p.older /\ ~p.lo /\ p.proto = "tcp"
                   /\ p \notin Carrier /\ p.dst \notin PrivateV4 THEN "redirector"
           ELSE IF "guard" \in up /\ ~p.lo
                   /\ (p.proto = "icmp" \/ ~(p \in Carrier \/ p.dst \in PrivateV4))
                THEN "rejected" ELSE "direct"
<1> DEFINE seen == [p EXCEPT !.lo = p.lo \/ Redirected(p, up) # "RETURN"]
<1>1. Redirected(p, up) =
        IF "nat" \in up /\ ~p.older /\ ~p.lo /\ p \in Queries THEN "dns"
        ELSE IF "nat" \in up /\ ~p.older /\ ~p.lo /\ p.proto = "tcp"
                /\ p \notin Carrier /\ p.dst \notin PrivateV4 THEN "redirector"
        ELSE "RETURN"
  BY NatDecides DEF Redirected
<1>2. /\ seen \in Packets
      /\ seen.lo = (p.lo \/ Redirected(p, up) # "RETURN")
      /\ seen.dst = p.dst /\ seen.proto = p.proto /\ seen.dport = p.dport
  BY DEF Packets
<1>3. seen \in Carrier <=> p \in Carrier
  BY <1>2 DEF Carrier
<1>4. Guarded(p, up) <=>
        /\ "guard" \in up /\ ~seen.lo
        /\ seen.proto = "icmp" \/ ~(seen \in Carrier \/ seen.dst \in PrivateV4)
  <2>1. Guarded(p, up) <=> "guard" \in up /\ Walk(GuardRules, seen) = "REJECT"
    BY DEF Guarded
  <2> HIDE DEF seen
  <2>2. QED
    BY <1>2, <2>1, GuardDecides
<1> HIDE DEF seen
<1>5. QED
  BY <1>1, <1>2, <1>3, <1>4 DEF Verdict

LEMMA FamiliesDisjoint ==
  ASSUME NEW a \in V6
  PROVE  a \notin V4
  BY NetfilterAssumption

LEMMA VerdictV6 ==
  ASSUME NEW p \in Packets, p.dst \in V6, NEW up \in SUBSET Chains
  PROVE  Verdict(p, up) =
           IF "guard6" \in up /\ ~p.lo /\ p.dst \notin LocalV6 THEN "rejected" ELSE "direct"
<1> DEFINE seen == [p EXCEPT !.lo = p.lo \/ Redirected(p, up) # "RETURN"]
<1>1. p.dst \notin V4
  BY FamiliesDisjoint
<1>2. Redirected(p, up) = "RETURN"
  BY <1>1 DEF Redirected
<1>3. seen \in Packets /\ seen.lo = p.lo /\ seen.dst = p.dst
  BY <1>2 DEF Packets
<1>4. Guarded(p, up) <=> "guard6" \in up /\ Walk(Guard6Rules, seen) = "REJECT"
  BY <1>1 DEF Guarded
<1> HIDE DEF seen
<1>5. QED
  BY <1>2, <1>3, <1>4, Guard6Decides DEF Verdict

\* While both kill switches stand, redirect or not, no packet leaves with the real
\* address, whether its connection is older than the rules or not.  While the redirect
\* stands too, no lookup that it sees reaches an IPv4 resolver; until it does, and once
\* it is gone, exactly those to resolvers on the LAN do.  (up_commands,
\* netfilter.py:57-110.)
THEOREM KillSwitchHolds ==
  ASSUME NEW up \in SUBSET Chains, {"guard", "guard6"} \subseteq up
  PROVE  /\ Escaping[up] = IF "nat" \in up THEN {} ELSE LanLookups
         /\ OlderDirect[up] = {}
<1>1. ASSUME NEW p \in Packets, Public(p)
      PROVE  Verdict(p, up) # "direct"
  <2>1. ~p.lo /\ p.dst \notin PrivateV4 /\ p.dst \notin LocalV6 /\ p \notin Carrier
    BY <1>1 DEF Public, Lan
  <2>2. CASE p.dst \in V4
    BY <2>1, <2>2, VerdictV4
  <2>3. CASE p.dst \in V6
    BY <2>1, <2>3, VerdictV6
  <2>4. p.dst \in V4 \cup V6
    BY DEF Packets
  <2>5. QED
    BY <2>2, <2>3, <2>4
<1>2. ASSUME NEW p \in Packets, Lookup(p), ~p.older
      PROVE  Verdict(p, up) = "direct" <=> "nat" \notin up /\ p.dst \in PrivateV4
  <2>1. ~p.lo /\ p.dst \in V4 /\ p \in Queries /\ p \notin Carrier /\ p.proto # "icmp"
    BY <1>2 DEF Lookup, Queries
  <2>2. QED
    BY <1>2, <2>1, VerdictV4
<1>3. OlderDirect[up] = {}
  BY <1>1 DEF OlderDirect
<1>4. Escaping[up] =
        {p \in Packets : Verdict(p, up) = "direct" /\ (Public(p) \/ (Lookup(p) /\ ~p.older))}
  BY DEF Escaping
<1>5. \A p \in Packets :
         Verdict(p, up) = "direct" /\ (Public(p) \/ (Lookup(p) /\ ~p.older))
         <=> "nat" \notin up /\ p \in LanLookups
  BY <1>1, <1>2 DEF LanLookups
<1>6. LanLookups \subseteq Packets
  BY DEF LanLookups
<1>7. QED
  BY <1>3, <1>4, <1>5, <1>6

\* With every chain in place each connection made after the rules, and each older
\* TCP connection that was flushed, is treated as the documents promise, whatever the
\* addresses, except IPv6 to local addresses, none of which is: they promise to reject
\* it, and the rules let all of it out.  Provided the ssh server does not listen on
\* port 53.
THEOREM RulesDeliver ==
  ASSUME SshPort # Dns
  PROVE  Mistreated[Chains] = LocalV6Traffic
<1> SUFFICES ASSUME NEW p \in Packets, ~Flushed(p).older
             PROVE  Verdict(Flushed(p), Chains) # Intended(p)
                    <=> ~p.lo /\ p.dst \in LocalV6
  <2>1. Chains \in SUBSET Chains
    OBVIOUS
  <2>2. Mistreated[Chains] =
          {p \in Packets : ~Flushed(p).older /\ Verdict(Flushed(p), Chains) # Intended(p)}
    BY <2>1 DEF Mistreated
  <2>3. QED
    BY <2>2 DEF LocalV6Traffic
<1> DEFINE q == Flushed(p)
<1>1. /\ q \in Packets /\ ~q.older
      /\ q.lo = p.lo /\ q.dst = p.dst /\ q.proto = p.proto /\ q.dport = p.dport
  BY DEF Flushed, Packets
<1>2. (q \in Carrier <=> p \in Carrier) /\ (q \in Queries <=> p \in Queries)
  BY <1>1 DEF Carrier, Queries
<1>3. p \in Carrier => p \notin Queries /\ p.proto = "tcp"
  BY DEF Carrier, Queries
<1>4. p \in Queries => p.proto # "icmp"
  BY DEF Queries
<1>5. p.proto \in {"tcp", "udp", "icmp"} /\ p.dst \in V4 \cup V6 /\ p.lo \in BOOLEAN
  BY DEF Packets
<1>6. {"nat", "guard", "guard6"} = Chains /\ Chains \in SUBSET Chains
  BY DEF Chains
<1> HIDE DEF q
<1>7. CASE p.dst \in V6
  <2>1. Verdict(q, Chains) = IF ~p.lo /\ p.dst \notin LocalV6 THEN "rejected" ELSE "direct"
    BY <1>1, <1>6, <1>7, VerdictV6
  <2>2. Intended(p) = IF p.lo THEN "direct" ELSE "rejected"
    BY <1>7 DEF Intended
  <2>3. QED
    BY <2>1, <2>2 DEF q
<1>8. CASE p.dst \in V4
  <2>1. Verdict(q, Chains) =
          IF ~p.lo /\ p \in Queries THEN "dns"
          ELSE IF ~p.lo /\ p.proto = "tcp" /\ p \notin Carrier /\ p.dst \notin PrivateV4
               THEN "redirector"
          ELSE IF ~p.lo /\ (p.proto = "icmp" \/ ~(p \in Carrier \/ p.dst \in PrivateV4))
               THEN "rejected" ELSE "direct"
    BY <1>1, <1>2, <1>6, <1>8, VerdictV4
  <2>2. p.dst \notin V6
    BY <1>8, FamiliesDisjoint
  <2>3. Verdict(q, Chains) = Intended(p)
    BY <1>3, <1>4, <1>5, <1>8, <2>1, <2>2 DEF Intended
  <2>4. p.dst \notin LocalV6
    BY <2>2, NetfilterAssumption
  <2>5. QED
    BY <2>3, <2>4 DEF q
<1>9. QED
  BY <1>5, <1>7, <1>8 DEF q
=============================================================================
