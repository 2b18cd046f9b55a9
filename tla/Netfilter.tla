----------------------------- MODULE Netfilter ------------------------------
(***************************************************************************)
(* What the rules of netfilter.py do to a packet.  A rule is the set of    *)
(* packets it matches and its target; a chain is a sequence of rules, of   *)
(* which the first that matches decides.                                   *)
(*                                                                         *)
(* A packet that leaves the machine goes through nat/OUTPUT, if it opens a *)
(* connection, and then through filter/OUTPUT, in the table of its own     *)
(* address family.  A connection that is older than the rules keeps the    *)
(* address it had: nat is not consulted for it again.                      *)
(***************************************************************************)
EXTENDS Naturals, Sequences

CONSTANTS V4, V6,      \* addresses
          PrivateV4,   \* those in PRIVATE_V4
          LocalV6,     \* those in LOCAL_V6
          PortNumbers, \* destination ports
          SshIp,       \* the address that up() pinned
          SshPort      \* the ssh server's port

Dns == 53

ASSUME NetfilterAssumption ==
    /\ V4 \cap V6 = {}
    /\ PrivateV4 \subseteq V4
    /\ LocalV6 \subseteq V6
    /\ PortNumbers \subseteq Nat
    /\ SshIp \in V4
    /\ SshPort \in PortNumbers

Chains == {"nat", "guard", "guard6"}

\* lo: the packet leaves through the loopback interface; older: its connection
\* is older than the rules and its conntrack entry still there.
Packets == [dst : V4 \cup V6, proto : {"tcp", "udp", "icmp"}, dport : PortNumbers,
            lo : BOOLEAN, older : BOOLEAN]

Rule(matches, target) == [matches |-> matches, target |-> target]

OnLo         == {p \in Packets : p.lo}
Proto(proto) == {p \in Packets : p.proto = proto}
To(addrs)    == {p \in Packets : p.dst \in addrs}
Queries      == {p \in Packets : p.proto \in {"tcp", "udp"} /\ p.dport = Dns}
Carrier      == {p \in Packets : p.dst = SshIp /\ p.proto = "tcp" /\ p.dport = SshPort}

-----------------------------------------------------------------------------
(* up_commands, chain by chain *)

\* Mutant: only what nat never sees is rejected at the end.
GuardRulesUdpOnly ==
    <<Rule(OnLo, "RETURN"), Rule(Proto("icmp"), "REJECT"), Rule(Carrier, "RETURN"),
      Rule(To(PrivateV4), "RETURN"), Rule(Proto("udp"), "REJECT")>>

GuardRules ==
    <<Rule(OnLo, "RETURN"),
      Rule(Proto("icmp"), "REJECT"),
      Rule(Carrier, "RETURN"),
      Rule(To(PrivateV4), "RETURN"),
      Rule(Proto("udp"), "REJECT"),
      Rule(Packets, "REJECT")>>

Guard6Rules ==
    <<Rule(OnLo, "RETURN"), Rule(To(LocalV6), "RETURN"), Rule(Packets, "REJECT")>>

\* Mutant: the private networks above the DNS redirect.
NatRulesLanFirst ==
    <<Rule(OnLo, "RETURN"), Rule(Carrier, "RETURN"), Rule(To(PrivateV4), "RETURN"),
      Rule(Queries, "dns"), Rule(Proto("tcp"), "redirector")>>

NatRules ==
    <<Rule(OnLo, "RETURN"),
      Rule(Queries, "dns"),
      Rule(Carrier, "RETURN"),
      Rule(To(PrivateV4), "RETURN"),
      Rule(Proto("tcp"), "redirector")>>

-----------------------------------------------------------------------------
(* The kernel *)

Hits(rules, p) == {i \in DOMAIN rules : p \in rules[i].matches}

First(rules, p) == CHOOSE i \in Hits(rules, p) : \A j \in Hits(rules, p) : i <= j

\* A packet that no rule matches falls off the end of the chain.
Walk(rules, p) ==
    IF Hits(rules, p) = {} THEN "RETURN" ELSE rules[First(rules, p)].target

\* The listener that p is redirected to, or "RETURN"; up holds the chains that
\* are filled and jumped to.
Redirected(p, up) ==
    IF "nat" \in up /\ p.dst \in V4 /\ ~p.older THEN Walk(NatRules, p) ELSE "RETURN"

\* A redirected packet is on its way to loopback when the guard sees it.
Guarded(p, up) ==
    LET seen == [p EXCEPT !.lo = p.lo \/ Redirected(p, up) # "RETURN"]
    IN  IF p.dst \in V4 THEN "guard" \in up /\ Walk(GuardRules, seen) = "REJECT"
                        ELSE "guard6" \in up /\ Walk(Guard6Rules, seen) = "REJECT"

\* What becomes of p: "dns", "redirector", "rejected" or "direct".
Verdict(p, up) ==
    IF Guarded(p, up) THEN "rejected"
    ELSE IF Redirected(p, up) = "RETURN" THEN "direct" ELSE Redirected(p, up)

\* conntrack -D -p tcp: the connection is picked up as a new one.
Flushed(p) == IF p.proto = "tcp" THEN [p EXCEPT !.older = FALSE] ELSE p

-----------------------------------------------------------------------------
(* What is promised *)

Lan == PrivateV4 \cup LocalV6

\* Traffic that carries the real address to the outside.
Public(p) == ~p.lo /\ p.dst \notin Lan /\ p \notin Carrier

\* A lookup that an IPv4 resolver would see, one on the LAN included.
Lookup(p) == ~p.lo /\ p.dst \in V4 /\ p \in Queries \ Carrier

\* The lookups among them that go to a resolver on the LAN.
LanLookups == {p \in Packets : Lookup(p) /\ ~p.older /\ p.dst \in PrivateV4}

\* The treatment that the documents promise to a connection made after the rules:
\* README.md:44-52, and for the carrier and the IPv4 LAN the design document's list
\* of rules (60-92).
Intended(p) ==
    IF p.lo THEN "direct"
    ELSE IF p.dst \in V6 THEN "rejected"
    ELSE IF p \in Carrier THEN "direct"
    ELSE IF p \in Queries THEN "dns"
    ELSE IF p.proto = "icmp" THEN "rejected"
    ELSE IF p.dst \in PrivateV4 THEN "direct"
    ELSE IF p.proto = "tcp" THEN "redirector" ELSE "rejected"

\* For each set of standing chains: what goes out although a complete set of rules
\* is to stop it, and what is not treated as intended.
Escaping ==
    [up \in SUBSET Chains |->
        {p \in Packets : Verdict(p, up) = "direct"
                         /\ (Public(p) \/ (Lookup(p) /\ ~p.older))}]

Mistreated ==
    [up \in SUBSET Chains |->
        {p \in Packets : ~Flushed(p).older /\ Verdict(Flushed(p), up) # Intended(p)}]

\* IPv6 on the local link or network: the documents say that IPv6 is rejected, that
\* ICMP is blocked on the LAN too, and that DNS is forced through the tunnel.
LocalV6Traffic ==
    {p \in Packets : ~Flushed(p).older /\ ~p.lo /\ p.dst \in LocalV6}

\* Connections from before the rules that still leave by themselves.
OlderDirect ==
    [up \in SUBSET Chains |->
        {p \in Packets : p.older /\ Public(p) /\ Verdict(p, up) = "direct"}]
=============================================================================
