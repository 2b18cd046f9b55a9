------------------------------- MODULE Relay --------------------------------
(***************************************************************************)
(* One connection that the rules have redirected to a Redirector           *)
(* (redirector.py): a program, the handler that takes its connection, and  *)
(* the server it meant, which the handler reaches through the SOCKS port.  *)
(* A "tcp" connection is spliced to the server by two pumps; a "dns" one   *)
(* carries one query, which is put to the configured resolver.             *)
(*                                                                         *)
(* Either end can stop sending, or leave, at any time.  When the handler   *)
(* closes its connection to an end, that ends both directions.             *)
(***************************************************************************)
EXTENDS Naturals, Sequences, Functions

CONSTANTS Kinds,     \* of the connections tried: "tcp", "dns"
          MaxData,   \* bound: pieces of data an end sends
          HighWater, \* pieces that may wait for an end before drain() does
          Mishaps    \* "carrier" the ssh connection dies, "stop" the loop stops

ASSUME RelayAssumption ==
    /\ Kinds \subseteq {"tcp", "dns"}
    /\ MaxData \in Nat \ {0}
    /\ HighWater \in Nat \ {0}
    /\ Mishaps \subseteq {"carrier", "stop"}

VARIABLES
    kind,     \* of this connection (never changes)
    phase,    \* where the handler is
    pumping,  \* the ends whose data is still pumped to the other
    side,     \* the two ends, and the handler's connection to each
    carrier,  \* the ssh connection is there
    running   \* the redirector's loop is

vars == <<kind, phase, pumping, side, carrier, running>>

Ends == {"client", "server"}
Other(e) == IF e = "client" THEN "server" ELSE "client"

\* "refused" by the SOCKS server; "abandoned": the dial was cancelled, and the
\* connection to the SOCKS port, and perhaps to the server, stays as it is.
Conns  == {"none", "open", "closed", "refused", "abandoned"}
Phases == {"accept", "query", "dial", "splice", "ask", "over"}

\* in: what the end sent and the handler has not read; out: what the handler wrote
\* and the end has not received; the end may still send, still reads, and has been
\* told that no more will come.
Side(conn) == [conn |-> conn, in |-> <<>>, out |-> <<>>, sent |-> 0, got |-> 0,
               sends |-> TRUE, reads |-> TRUE, told |-> FALSE]

-----------------------------------------------------------------------------
(* writer.close() *)

\* What was written is still sent, then the end.  The socket is not read any more:
\* the reader sees the end after what had arrived by then.
Closed(s) ==
    {[s EXCEPT !.conn = "closed", !.out = Append(@, "eof"),
               !.in = Append(SubSeq(@, 1, n), "eof")]
        : n \in {m \in 0..Len(s.in) : "eof" \notin Range(SubSeq(s.in, 1, m))}}

\* Leave the handler, which closes the connections that are open.
Finish(sides) ==
    /\ phase' = "over"
    /\ pumping' = {}
    /\ \E c \in Closed(sides["client"]), s \in Closed(sides["server"]) :
          side' = [client |-> c,
                   server |-> IF sides["server"].conn = "open" THEN s ELSE sides["server"]]

-----------------------------------------------------------------------------
(* _handle_tcp and _handle_dns_tcp, up to the connection through SOCKS *)

\* original_dst may fail; a DNS query has no use for it.
Accept ==
    /\ phase = "accept"
    /\ \/ kind = "tcp" /\ phase' = "dial" /\ UNCHANGED <<side, pumping>>
       \/ kind = "tcp" /\ Finish(side)
       \/ kind = "dns" /\ phase' = "query" /\ UNCHANGED <<side, pumping>>

\* readexactly: the whole query, or IncompleteReadError.
ReadQuery ==
    /\ phase = "query"
    /\ side["client"].in # <<>>
    /\ LET rest == [side EXCEPT !["client"].in = Tail(@)]
       IN  IF Head(side["client"].in) = "data"
           THEN phase' = "dial" /\ side' = rest /\ UNCHANGED pumping
           ELSE Finish(rest)

\* socks_connect under wait_for: connected, refused or failed, or cancelled.
Dial ==
    /\ phase = "dial"
    /\ \/ /\ carrier
          /\ side' = [side EXCEPT !["server"].conn = "open",
                                  !["server"].out = IF kind = "dns" THEN <<"data">> ELSE @]
          /\ phase' = IF kind = "dns" THEN "ask" ELSE "splice"
          /\ pumping' = IF kind = "dns" THEN {} ELSE Ends
       \/ \E c \in {"refused", "abandoned"} :
             Finish([side EXCEPT !["server"].conn = c])

-----------------------------------------------------------------------------
(* dns_query_over_socks, connected *)

\* Mutant: no limit to the wait.
AskForever ==
    /\ phase = "ask"
    /\ side["server"].in # <<>>
    /\ Finish(IF Head(side["server"].in) = "data"
              THEN [side EXCEPT !["client"].out = Append(@, "data")] ELSE side)

\* The answer is passed on; a connection that ends, or 8 s, answer nothing.
Ask ==
    /\ phase = "ask"
    /\ \/ /\ side["server"].in # <<>>
          /\ Head(side["server"].in) = "data"
          /\ Finish([side EXCEPT !["client"].out = Append(@, "data")])
       \/ Finish(side)

-----------------------------------------------------------------------------
(* _splice *)

\* Mutant: the end of one direction is not passed on.
PumpEndsSilent(e, sides) ==
    /\ pumping' = pumping \ {e}
    /\ phase' = IF pumping' = {} THEN "over" ELSE "splice"
    /\ side' = sides

\* Mutant: the pump goes on reading after it has closed the writer.
PumpEndsLater(e, sides) ==
    /\ UNCHANGED <<pumping, phase>>
    /\ \E s \in Closed(sides[Other(e)]) : side' = [sides EXCEPT ![Other(e)] = s]

\* The pump that reads from e has ended; its finally closes the writer.
PumpEnds(e, sides) ==
    /\ pumping' = pumping \ {e}
    /\ phase' = IF pumping' = {} THEN "over" ELSE "splice"
    /\ \E s \in Closed(sides[Other(e)]) : side' = [sides EXCEPT ![Other(e)] = s]

\* drain() of what was written to e returns.
Drained(e) == Len(side[e].out) < HighWater

\* Mutant: readexactly instead of read: the last piece, which is shorter than BUF,
\* is lost with IncompleteReadError.
PumpExactly(e) ==
    LET rest == [side EXCEPT ![e].in = Tail(@)]
        data == side[e].in # <<>> /\ Head(side[e].in) = "data"
    IN  /\ e \in pumping
        /\ Drained(Other(e))
        /\ side[e].in # <<>>
        /\ IF data /\ rest[e].in # <<"eof">>
           THEN /\ side' = [rest EXCEPT ![Other(e)].out = Append(@, "data")]
                /\ UNCHANGED <<phase, pumping>>
           ELSE PumpEnds(e, rest)

\* Once the pieces before it are drained, a piece of data is written to the other end.
\* When that end has left, write may raise, or drain while it waits.
Pump(e) ==
    LET rest == [side EXCEPT ![e].in = Tail(@)]
        data == side[e].in # <<>> /\ Head(side[e].in) = "data"
    IN  /\ e \in pumping
        /\ \/ /\ Drained(Other(e)) /\ data
              /\ side' = [rest EXCEPT ![Other(e)].out = Append(@, "data")]
              /\ UNCHANGED <<phase, pumping>>
           \/ /\ Drained(Other(e)) /\ side[e].in # <<>>
              /\ data => ~side[Other(e)].reads
              /\ PumpEnds(e, rest)
           \/ /\ ~Drained(Other(e)) /\ ~side[Other(e)].reads
              /\ PumpEnds(e, side)

Handler == /\ running
           /\ Accept \/ ReadQuery \/ Dial \/ Ask \/ \E e \in Ends : Pump(e)
           /\ UNCHANGED <<kind, carrier, running>>

-----------------------------------------------------------------------------
(* The ends, the network and what goes wrong *)

Linked(e) == side[e].conn \in {"open", "closed"}

\* What e sends to a connection that the handler has closed is lost.
Sent(e, item) == IF side[e].conn = "open" THEN Append(side[e].in, item) ELSE side[e].in

SendData(e) ==
    /\ Linked(e) /\ side[e].sends
    /\ side[e].sent < MaxData
    /\ side' = [side EXCEPT ![e].sent = @ + 1, ![e].in = Sent(e, "data")]
    /\ UNCHANGED <<kind, phase, pumping, carrier, running>>

\* e stops sending; it goes on reading or leaves.
StopSending(e) ==
    /\ Linked(e) /\ side[e].sends
    /\ \E reads \in BOOLEAN :
          side' = [side EXCEPT ![e].sends = FALSE, ![e].reads = reads,
                               ![e].in = Sent(e, "eof")]
    /\ UNCHANGED <<kind, phase, pumping, carrier, running>>

\* What is written to a server when ssh is gone reaches nobody.
Receive(e) ==
    LET s == side[e]
    IN  /\ s.out # <<>>
        /\ side' = [side EXCEPT ![e].out = Tail(@),
                                ![e].got = IF Head(s.out) = "data" /\ s.reads
                                              /\ (e = "server" => carrier)
                                           THEN @ + 1 ELSE @,
                                ![e].told = @ \/ Head(s.out) = "eof"]
        /\ UNCHANGED <<kind, phase, pumping, carrier, running>>

\* ssh is gone: the local connection to it is reset, and its server sees the end.
CarrierDies ==
    /\ "carrier" \in Mishaps
    /\ carrier
    /\ carrier' = FALSE
    /\ side' = IF side["server"].conn = "open"
               THEN [side EXCEPT !["server"].told = TRUE, !["server"].sends = FALSE,
                                 !["server"].in = IF "eof" \in Range(@) THEN @
                                                  ELSE Append(@, "eof")]
               ELSE side
    /\ UNCHANGED <<kind, phase, pumping, running>>

\* Redirector.stop: listeners are closed, handlers are left where they are.
LoopStops ==
    /\ "stop" \in Mishaps
    /\ running
    /\ running' = FALSE
    /\ UNCHANGED <<kind, phase, pumping, side, carrier>>

-----------------------------------------------------------------------------
Init ==
    /\ kind \in Kinds
    /\ phase = "accept"
    /\ pumping = {}
    /\ side = [client |-> Side("open"), server |-> Side("none")]
    /\ carrier = TRUE
    /\ running = TRUE

Next == Handler \/ CarrierDies \/ LoopStops
        \/ \E e \in Ends : SendData(e) \/ StopSending(e) \/ Receive(e)

\* The loop runs every task that can go on; what was written is delivered, so that
\* drain() does not wait for ever.  Neither end has to send anything.
Fairness ==
    /\ WF_vars(Handler /\ phase # "splice")
    /\ \A e \in Ends : WF_vars(Handler /\ Pump(e)) /\ WF_vars(Receive(e))

Spec == Init /\ [][Next]_vars /\ Fairness

-----------------------------------------------------------------------------
(* Properties *)

\* Both connections keep their shapes; nothing is written after an end was closed.
TypeOK ==
    /\ kind \in Kinds
    /\ phase \in Phases
    /\ pumping \subseteq Ends
    /\ carrier \in BOOLEAN /\ running \in BOOLEAN
    /\ \A e \in Ends :
          LET s == side[e]
          IN  /\ s.conn \in Conns
              /\ {s.sends, s.reads, s.told} \subseteq BOOLEAN
              /\ s.sent \in 0..MaxData /\ s.got \in 0..MaxData
              /\ \A c \in {s.in, s.out} :
                    \A i \in DOMAIN c : c[i] = "data" \/ (c[i] = "eof" /\ i = Len(c))

\* An end that has not stopped sending, and is told that no more will come, has
\* received all that the other end sent, unless ssh died or that other end left
\* without reading what was sent to it.
Whole ==
    \A e \in Ends :
        kind = "tcp" /\ carrier /\ Linked("server")
        /\ side[e].told /\ side[e].sends /\ side[Other(e)].reads =>
            side[e].got = side[Other(e)].sent

\* When one end stops sending, both are told that it is over: no connection is
\* left half relayed.  (A cancelled dial leaves the upstream connection behind.)
LeaveTogether ==
    \A e \in Ends :
        ~side[e].sends ~>
            \/ ~running
            \/ side["client"].told
               /\ (Linked("server") => side["server"].told)

\* A DNS query is answered, or its connection closed, whatever the resolver and the
\* tunnel do.
QueryEnds == (kind = "dns" /\ side["client"].sent > 0) ~> (side["client"].told \/ ~running)
=============================================================================
