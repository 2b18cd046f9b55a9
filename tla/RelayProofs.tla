----------------------------- MODULE RelayProofs -----------------------------
(***************************************************************************)
(* Proofs about Relay, for connections of any length and every set of      *)
(* mishaps: the shapes of its streams, and that a relayed connection loses *)
(* nothing.                                                                *)
(***************************************************************************)
EXTENDS Relay, SequenceTheorems, TLAPS

-----------------------------------------------------------------------------
(* A stream: pieces of data, and perhaps the end *)

Items == {"data", "eof"}

\* Nothing comes after the end.
Lined(q) == \A i \in 1..Len(q) : q[i] = "eof" => i = Len(q)

Ended(q) == q # <<>> /\ q[Len(q)] = "eof"

\* How many pieces of data are in it.
Data(q) == IF Ended(q) THEN Len(q) - 1 ELSE Len(q)

LEMMA NoStream == Lined(<<>>) /\ ~Ended(<<>>) /\ Data(<<>>) = 0
  BY DEF Lined, Ended, Data

LEMMA DataType ==
  ASSUME NEW q \in Seq(Items)
  PROVE  Data(q) \in Nat
<1>1. Len(q) \in Nat /\ (q # <<>> => Len(q) # 0)
  BY EmptySeq, LenProperties
<1>2. QED
  BY <1>1 DEF Data, Ended

LEMMA AddItem ==
  ASSUME NEW q \in Seq(Items), ~Ended(q), Lined(q), NEW e \in Items
  PROVE  /\ Append(q, e) \in Seq(Items) /\ Lined(Append(q, e))
         /\ e = "data" => ~Ended(Append(q, e)) /\ Data(Append(q, e)) = Data(q) + 1
         /\ e = "eof" => Ended(Append(q, e)) /\ Data(Append(q, e)) = Data(q)
<1>1. /\ Append(q, e) \in Seq(Items) /\ Append(q, e) # <<>>
      /\ Len(Append(q, e)) = Len(q) + 1 /\ Len(q) \in Nat
      /\ Append(q, e)[Len(q) + 1] = e
      /\ \A i \in 1..Len(q) : Append(q, e)[i] = q[i]
  BY AppendProperties, LenProperties
<1>2. \A i \in 1..Len(q) : q[i] # "eof"
  <2>1. q # <<>> \/ Len(q) = 0
    BY EmptySeq
  <2>2. QED
    BY <1>1, <2>1 DEF Ended, Lined
<1>3. Lined(Append(q, e))
  BY <1>1, <1>2 DEF Lined
<1>4. Ended(Append(q, e)) <=> e = "eof"
  BY <1>1 DEF Ended
<1>5. QED
  BY <1>1, <1>3, <1>4 DEF Data

LEMMA TakeItem ==
  ASSUME NEW q \in Seq(Items), Lined(q), q # <<>>
  PROVE  /\ Head(q) \in Items /\ Tail(q) \in Seq(Items) /\ Lined(Tail(q))
         /\ Head(q) = "data" => /\ Data(q) = Data(Tail(q)) + 1
                                /\ Ended(Tail(q)) <=> Ended(q)
         /\ Head(q) = "eof" => Tail(q) = <<>> /\ Data(q) = 0 /\ Ended(q)
<1>1. /\ Len(q) \in Nat \ {0} /\ Head(q) = q[1] /\ Head(q) \in Items
      /\ Tail(q) \in Seq(Items) /\ Len(Tail(q)) = Len(q) - 1
      /\ \A i \in 1..Len(Tail(q)) : Tail(q)[i] = q[i + 1]
  BY EmptySeq, LenProperties, HeadTailProperties
<1>2. Lined(Tail(q))
  <2> SUFFICES ASSUME NEW i \in 1..Len(Tail(q)), Tail(q)[i] = "eof"
               PROVE  i = Len(Tail(q))
    BY DEF Lined
  <2>1. i + 1 \in 1..Len(q) /\ q[i + 1] = "eof"
    BY <1>1
  <2>2. i + 1 = Len(q)
    BY <2>1 DEF Lined
  <2>3. i \in Nat /\ Len(Tail(q)) = Len(q) - 1 /\ Len(q) \in Nat
    BY <1>1
  <2>4. QED
    BY <2>2, <2>3
<1>3. CASE Head(q) = "data"
  <2>1. CASE Tail(q) = <<>>
    <3>1. Len(q) = 1
      BY <1>1, <2>1
    <3>2. ~Ended(q) /\ ~Ended(Tail(q))
      BY <1>1, <1>3, <2>1, <3>1 DEF Ended
    <3>3. QED
      BY <1>1, <1>2, <1>3, <2>1, <3>1, <3>2 DEF Data
  <2>2. CASE Tail(q) # <<>>
    <3>1. Len(Tail(q)) \in Nat \ {0}
      BY <1>1, <2>2, EmptySeq
    <3>2. Tail(q)[Len(Tail(q))] = q[Len(q)]
      BY <1>1, <3>1
    <3>3. QED
      BY <1>1, <1>2, <1>3, <2>2, <3>1, <3>2 DEF Ended, Data
  <2>3. QED
    BY <2>1, <2>2
<1>4. CASE Head(q) = "eof"
  <2>1. Len(q) = 1
    <3>1. 1 \in 1..Len(q)
      BY <1>1
    <3>2. QED
      BY <1>1, <1>4, <3>1 DEF Lined
  <2>2. Tail(q) = <<>>
    <3>1. Len(Tail(q)) = 0
      BY <1>1, <2>1
    <3>2. QED
      BY <1>1, <3>1, EmptySeq
  <2>3. QED
    BY <1>1, <1>2, <1>4, <2>1, <2>2 DEF Ended, Data
<1>5. QED
  BY <1>1, <1>2, <1>3, <1>4 DEF Items

LEMMA EndIn ==
  ASSUME NEW q \in Seq(Items), Lined(q)
  PROVE  "eof" \in Range(q) <=> Ended(q)
<1>1. DOMAIN q = 1..Len(q) /\ Len(q) \in Nat /\ (q # <<>> <=> Len(q) # 0)
  BY EmptySeq, LenProperties
<1>2. ASSUME NEW i \in 1..Len(q), q[i] = "eof"
      PROVE  Ended(q)
  <2>1. i = Len(q)
    BY <1>2 DEF Lined
  <2>2. q # <<>>
    BY <1>1, <1>2
  <2>3. QED
    BY <1>2, <2>1, <2>2 DEF Ended
<1>3. Ended(q) => Len(q) \in 1..Len(q) /\ q[Len(q)] = "eof"
  BY <1>1 DEF Ended
<1>4. QED
  BY <1>1, <1>2, <1>3 DEF Range

LEMMA CutOff ==
  ASSUME NEW q \in Seq(Items), Lined(q), NEW n \in 0..Len(q),
         "eof" \notin Range(SubSeq(q, 1, n))
  PROVE  /\ SubSeq(q, 1, n) \in Seq(Items) /\ Lined(SubSeq(q, 1, n))
         /\ ~Ended(SubSeq(q, 1, n)) /\ Data(SubSeq(q, 1, n)) <= Data(q)
<1> DEFINE p == SubSeq(q, 1, n)
<1>1. /\ Len(q) \in Nat /\ (q # <<>> <=> Len(q) # 0) /\ \A i \in 1..Len(q) : q[i] \in Items
  BY EmptySeq, LenProperties, ElementOfSeq
<1>2. p \in Seq(Items) /\ Len(p) = n /\ \A i \in 1..n : p[i] = q[i]
  BY <1>1, SubSeqProperties
<1>3. DOMAIN p = 1..n
  BY <1>2, LenProperties
<1> HIDE DEF p
<1>4. \A i \in 1..n : p[i] # "eof"
  BY <1>3 DEF Range, p
<1>5. Lined(p)
  BY <1>2, <1>4 DEF Lined
<1>6. ~Ended(p)
  <2>1. p # <<>> => n \in 1..n
    BY <1>1, <1>2, EmptySeq
  <2>2. QED
    BY <1>2, <1>4, <2>1 DEF Ended
<1>7. Data(p) <= Data(q)
  <2>1. Ended(q) => n < Len(q)
    BY <1>1, <1>2, <1>4 DEF Ended
  <2>2. QED
    BY <1>1, <1>2, <1>6, <2>1 DEF Data
<1>8. QED
  BY <1>2, <1>5, <1>6, <1>7 DEF p

-----------------------------------------------------------------------------
(* One end and the connection to it *)

Sides == [conn : Conns, in : Seq(Items), out : Seq(Items), sent : 0..MaxData, got : Nat,
          sends : BOOLEAN, reads : BOOLEAN, told : BOOLEAN]

IsLinked(s) == s.conn \in {"open", "closed"}

\* The streams of an end: nothing is written after a close, and while the connection
\* is open only its own "eof" ends what an end has sent.
Orderly(s) ==
    /\ s \in Sides
    /\ Lined(s.in) /\ Lined(s.out)
    /\ s.sends => s.reads
    /\ s.conn = "open" /\ s.sends => ~Ended(s.in)
    /\ s.conn # "closed" => ~Ended(s.out)
    /\ ~IsLinked(s) => s = Side(s.conn)

\* The same end, which only its connection may have changed for.
SameEnd(s, t) ==
    /\ t.sent = s.sent /\ t.got = s.got /\ t.told = s.told
    /\ t.sends = s.sends /\ t.reads = s.reads

\* t is s after writer.close(), if there was something to close.
Shut(s, t) ==
    /\ Orderly(t) /\ SameEnd(s, t)
    /\ t.conn = IF s.conn = "open" THEN "closed" ELSE s.conn
    /\ Data(t.out) = Data(s.out) /\ Data(t.in) <= Data(s.in)

LEMMA CloseSide ==
  ASSUME NEW s, Orderly(s), s.conn = "open", NEW t \in Closed(s)
  PROVE  Shut(s, t) /\ t.conn = "closed"
<1>1. PICK n \in 0..Len(s.in) :
        /\ "eof" \notin Range(SubSeq(s.in, 1, n))
        /\ t = [s EXCEPT !.conn = "closed", !.out = Append(s.out, "eof"),
                         !.in = Append(SubSeq(s.in, 1, n), "eof")]
  BY DEF Closed
<1> DEFINE in == Append(SubSeq(s.in, 1, n), "eof")
           out == Append(s.out, "eof")
<1>2. /\ in \in Seq(Items) /\ Lined(in) /\ Data(in) <= Data(s.in)
      /\ out \in Seq(Items) /\ Lined(out) /\ Data(out) = Data(s.out)
  <2> DEFINE cut == SubSeq(s.in, 1, n)
  <2>1. /\ s.in \in Seq(Items) /\ Lined(s.in) /\ s.out \in Seq(Items) /\ Lined(s.out)
        /\ ~Ended(s.out) /\ "eof" \in Items
    BY DEF Orderly, Sides, Items
  <2>2. cut \in Seq(Items) /\ Lined(cut) /\ ~Ended(cut) /\ Data(cut) <= Data(s.in)
    BY <1>1, <2>1, CutOff
  <2> HIDE DEF cut
  <2>3. in = Append(cut, "eof")
    BY DEF cut
  <2>4. /\ in \in Seq(Items) /\ Lined(in) /\ Data(in) = Data(cut)
    BY <2>1, <2>2, <2>3, AddItem
  <2>5. /\ out \in Seq(Items) /\ Lined(out) /\ Data(out) = Data(s.out)
    BY <2>1, AddItem
  <2>6. QED
    BY <2>2, <2>4, <2>5
<1>3. t = [s EXCEPT !.conn = "closed", !.out = out, !.in = in]
  BY <1>1
<1> HIDE DEF in, out
<1>4. /\ t \in Sides /\ t.conn = "closed" /\ t.in = in /\ t.out = out /\ SameEnd(s, t)
  BY <1>2, <1>3 DEF Orderly, Sides, SameEnd, Conns
<1>5. QED
  BY <1>2, <1>4 DEF Shut, Orderly, SameEnd, IsLinked

\* The next item of what s sent is read.
Taken(s) == [s EXCEPT !.in = Tail(s.in)]

LEMMA TakeSide ==
  ASSUME NEW s, Orderly(s), s.in # <<>>, NEW t, t = Taken(s)
  PROVE  /\ IsLinked(s)
         /\ Orderly(t) /\ SameEnd(s, t) /\ t.conn = s.conn /\ t.out = s.out
         /\ Head(s.in) \in Items
         /\ Head(s.in) = "data" => Data(s.in) = Data(t.in) + 1
         /\ Head(s.in) = "eof" => /\ Data(s.in) = 0 /\ Data(t.in) = 0
                                  /\ ~(s.conn = "open" /\ s.sends)
<1> DEFINE in == Tail(s.in)
<1>1. /\ in \in Seq(Items) /\ Lined(in) /\ Head(s.in) \in Items
      /\ Head(s.in) = "data" => Data(s.in) = Data(in) + 1 /\ (Ended(in) <=> Ended(s.in))
      /\ Head(s.in) = "eof" => in = <<>> /\ Data(s.in) = 0 /\ Ended(s.in)
  BY TakeItem DEF Orderly, Sides
<1>2. t = [s EXCEPT !.in = in]
  BY DEF Taken
<1>3. IsLinked(s)
  BY DEF Orderly, Side
<1> HIDE DEF in
<1>4. /\ t \in Sides /\ t.in = in /\ t.out = s.out /\ t.conn = s.conn /\ SameEnd(s, t)
  BY <1>1, <1>2 DEF Orderly, Sides, SameEnd
<1>5. Ended(in) => Ended(s.in)
  BY <1>1, NoStream DEF Items
<1>6. Orderly(t)
  BY <1>1, <1>3, <1>4, <1>5 DEF Orderly, SameEnd, IsLinked
<1>7. Head(s.in) = "eof" => Data(t.in) = 0 /\ ~(s.conn = "open" /\ s.sends)
  BY <1>1, <1>4, NoStream DEF Orderly
<1>8. QED
  BY <1>1, <1>3, <1>4, <1>6, <1>7

\* A piece of data is written to s.
Given(s) == [s EXCEPT !.out = Append(s.out, "data")]

LEMMA GiveSide ==
  ASSUME NEW s, Orderly(s), s.conn = "open", NEW t, t = Given(s)
  PROVE  /\ Orderly(t) /\ SameEnd(s, t) /\ t.conn = s.conn /\ t.in = s.in
         /\ Data(t.out) = Data(s.out) + 1
<1> DEFINE out == Append(s.out, "data")
<1>1. /\ out \in Seq(Items) /\ Lined(out) /\ ~Ended(out) /\ Data(out) = Data(s.out) + 1
  BY AddItem DEF Orderly, Sides, Items
<1>2. t = [s EXCEPT !.out = out]
  BY DEF Given
<1> HIDE DEF out
<1>3. /\ t \in Sides /\ t.out = out /\ t.in = s.in /\ t.conn = s.conn /\ SameEnd(s, t)
  BY <1>1, <1>2 DEF Orderly, Sides, SameEnd
<1>4. QED
  BY <1>1, <1>3 DEF Orderly, SameEnd, IsLinked

LEMMA EachEnd ==
  ASSUME NEW e \in Ends
  PROVE  /\ Other(e) \in Ends /\ Other(e) # e /\ Other(Other(e)) = e
         /\ \A x \in Ends : x = e \/ x = Other(e)
  BY DEF Ends, Other

-----------------------------------------------------------------------------
(* The inductive invariant *)

\* Where the handler is, and which connections it has open then.
Placed ==
    /\ kind \in Kinds /\ phase \in Phases /\ pumping \subseteq Ends
    /\ carrier \in BOOLEAN /\ running \in BOOLEAN
    /\ DOMAIN side = Ends /\ \A e \in Ends : Orderly(side[e])
    /\ IsLinked(side["client"])
    /\ phase \notin {"splice", "over"} => side["client"].conn = "open"
    /\ phase \in {"accept", "query", "dial"} => side["server"].conn = "none"
    /\ phase = "ask" => side["server"].conn = "open"
    /\ phase \in {"query", "ask"} => kind = "dns"
    /\ phase = "splice" => kind = "tcp"
    /\ pumping # {} => phase = "splice"
    /\ \A e \in pumping : side[Other(e)].conn = "open"

\* The end that the handler sent is the last thing that an end is told.
Informed ==
    carrier => \A e \in Ends : side[e].told => side[e].conn = "closed" /\ side[e].out = <<>>

Got(e) == side[e].got + Data(side[e].out)

\* Nothing is made up on the way.
Flow ==
    /\ kind = "tcp" => \A e \in Ends : Got(e) + Data(side[Other(e)].in) <= side[Other(e)].sent
    /\ kind = "dns" => \A e \in Ends : Got(e) <= 1
    /\ phase \notin {"splice", "over"} => Got("client") = 0
    /\ phase \in {"accept", "dial"} /\ kind = "tcp" =>
          Data(side["client"].in) = side["client"].sent

\* e still listens, and what it sends is still read.
Attentive(e) == carrier /\ side[e].sends /\ side[Other(e)].reads

\* Nothing is lost on the way to such an end: the pump to it runs, and so does the one
\* from it, or has come to the end of what there was.
Kept(e) ==
    Attentive(e) =>
        IF Other(e) \in pumping
        THEN e \in pumping /\ Got(e) + Data(side[Other(e)].in) = side[Other(e)].sent
        ELSE ~side[Other(e)].sends /\ Got(e) = side[Other(e)].sent

Lossless == kind = "tcp" /\ IsLinked(side["server"]) => \A e \in Ends : Kept(e)

RelayInv == Placed /\ Informed /\ Flow /\ Lossless

LEMMA Counts ==
  ASSUME NEW s, Orderly(s)
  PROVE  /\ Data(s.in) \in Nat /\ Data(s.out) \in Nat /\ s.sent \in Nat /\ s.got \in Nat
         /\ s.sent <= MaxData /\ MaxData \in Nat /\ MaxData >= 1
  BY DataType, RelayAssumption DEF Orderly, Sides

LEMMA FreshSide ==
  ASSUME NEW c \in Conns
  PROVE  /\ Orderly(Side(c)) /\ Side(c).conn = c /\ Side(c).got = 0 /\ Side(c).sent = 0
         /\ ~Side(c).told /\ Data(Side(c).in) = 0 /\ Data(Side(c).out) = 0
<1>1. Side(c) \in Sides /\ Side(c).in = <<>> /\ Side(c).out = <<>>
  BY RelayAssumption DEF Side, Sides
<1>2. QED
  BY <1>1, NoStream DEF Side, Orderly

-----------------------------------------------------------------------------
(* The handler *)

LEMMA InitRelayInv == Init => RelayInv
<1> SUFFICES ASSUME Init PROVE RelayInv
  OBVIOUS
<1>1. /\ DOMAIN side = Ends
      /\ side["client"] = Side("open") /\ side["server"] = Side("none")
  BY DEF Init, Ends
<1>2. \A e \in Ends : /\ Orderly(side[e]) /\ side[e].got = 0 /\ side[e].sent = 0
                      /\ ~side[e].told /\ Data(side[e].in) = 0 /\ Data(side[e].out) = 0
  BY <1>1, FreshSide DEF Ends, Conns
<1>3. side["client"].conn = "open" /\ side["server"].conn = "none"
  BY <1>1, FreshSide DEF Conns
<1>4. Placed
  BY <1>1, <1>2, <1>3 DEF Init, Placed, IsLinked, Phases
<1>5. Informed /\ Flow
  BY <1>2, EachEnd DEF Informed, Flow, Got, Ends
<1>6. Lossless
  BY <1>3 DEF Lossless, IsLinked
<1>7. QED
  BY <1>4, <1>5, <1>6 DEF RelayInv

\* Leaving the handler with the connections as they are in sides.
LEMMA FinishSides ==
  ASSUME NEW sides, \A e \in Ends : Orderly(sides[e]), sides["client"].conn = "open",
         sides["server"].conn # "closed", Finish(sides)
  PROVE  /\ phase' = "over" /\ pumping' = {} /\ DOMAIN side' = Ends
         /\ \A e \in Ends : Shut(sides[e], side'[e])
<1>1. PICK c \in Closed(sides["client"]), s \in Closed(sides["server"]) :
        side' = [client |-> c,
                 server |-> IF sides["server"].conn = "open" THEN s ELSE sides["server"]]
  BY DEF Finish
<1>2. Shut(sides["client"], c)
  BY CloseSide DEF Ends
<1>3. sides["server"].conn = "open" => Shut(sides["server"], s)
  BY CloseSide DEF Ends
<1>4. sides["server"].conn # "open" => Shut(sides["server"], sides["server"])
  BY Counts DEF Shut, SameEnd, Ends
<1>5. side'["client"] = c
  BY <1>1
<1>6. side'["server"] = IF sides["server"].conn = "open" THEN s ELSE sides["server"]
  BY <1>1
<1>7. DOMAIN side' = Ends
  BY <1>1 DEF Ends
<1>8. QED
  BY <1>2, <1>3, <1>4, <1>5, <1>6, <1>7 DEF Finish, Ends

\* It ends well if no connection to the server was made, or the kind is "dns".
LEMMA FinishInv ==
  ASSUME RelayInv, NEW sides, Finish(sides), UNCHANGED <<kind, carrier, running>>,
         \A e \in Ends : /\ Orderly(sides[e]) /\ sides[e].told = side[e].told
                         /\ sides[e].got = side[e].got /\ sides[e].sent = side[e].sent
                         /\ Data(sides[e].in) <= Data(side[e].in),
         phase \notin {"splice", "over"},
         sides["client"].conn = "open", side["client"].conn = "open",
         sides["server"].conn # "closed", sides["server"].told => ~carrier,
         kind = "tcp" => ~IsLinked(sides["server"]) /\ \A e \in Ends :
                            Data(sides[e].out) = Data(side[e].out),
         kind = "dns" => \A e \in Ends : sides[e].got + Data(sides[e].out) <= 1
  PROVE  RelayInv'
<1>1. /\ phase' = "over" /\ pumping' = {} /\ DOMAIN side' = Ends
      /\ \A e \in Ends : Shut(sides[e], side'[e])
  BY FinishSides DEF Placed, RelayInv
<1>2. \A e \in Ends : /\ Orderly(side'[e]) /\ SameEnd(sides[e], side'[e])
                      /\ Data(side'[e].out) = Data(sides[e].out)
                      /\ Data(side'[e].in) <= Data(sides[e].in)
  BY <1>1 DEF Shut
<1>3. side'["client"].conn = "closed" /\ (kind = "tcp" => ~IsLinked(side'["server"]))
  BY <1>1 DEF Shut, Ends, IsLinked
<1>4. Placed'
  BY <1>1, <1>2, <1>3 DEF RelayInv, Placed, IsLinked, Phases
<1>5. Informed'
  <2>1. carrier => \A e \in Ends : ~sides[e].told
    BY DEF RelayInv, Informed, Ends
  <2>2. QED
    BY <1>2, <2>1 DEF Informed, SameEnd
<1>6. Flow'
  <2>1. \A e \in Ends : /\ Data(side[e].in) \in Nat /\ Data(side'[e].in) \in Nat
                        /\ Data(sides[e].in) \in Nat
    BY <1>2, Counts DEF RelayInv, Placed
  <2>2. \A e \in Ends : side'[e].got = sides[e].got /\ side'[e].sent = sides[e].sent
    BY <1>2 DEF SameEnd
  <2>3. kind = "dns" => \A e \in Ends : Got(e)' <= 1
    BY <1>2, <2>2 DEF Got
  <2>4. ASSUME kind = "tcp", NEW e \in Ends
        PROVE  Got(e)' + Data(side'[Other(e)].in) <= side'[Other(e)].sent
    <3>1. Got(e) + Data(side[Other(e)].in) <= side[Other(e)].sent /\ Other(e) \in Ends
      BY <2>4, EachEnd DEF RelayInv, Flow
    <3>2. Got(e)' = Got(e)
      BY <1>2, <2>2, <2>4 DEF Got
    <3>3. Data(side'[Other(e)].in) <= Data(side[Other(e)].in)
      BY <1>2, <2>1, <3>1
    <3>4. side'[Other(e)].sent = side[Other(e)].sent
      BY <2>2, <3>1
    <3>5. Got(e) \in Nat /\ side[Other(e)].sent \in Nat
      BY <3>1, Counts DEF Got, RelayInv, Placed
    <3>6. QED
      BY <2>1, <3>1, <3>2, <3>3, <3>4, <3>5
  <2>5. QED
    BY <1>1, <2>3, <2>4 DEF Flow
<1>7. Lossless'
  BY <1>3 DEF Lossless
<1>8. QED
  BY <1>4, <1>5, <1>6, <1>7 DEF RelayInv

LEMMA AcceptInv ==
  ASSUME RelayInv, Accept, UNCHANGED <<kind, carrier, running>>
  PROVE  RelayInv'
<1>1. side["client"].conn = "open" /\ side["server"].conn = "none"
      /\ (kind = "dns" => \A e \in Ends : Got(e) <= 1)
  BY DEF RelayInv, Placed, Flow, Accept
<1>2. CASE kind = "tcp" /\ Finish(side)
  <2>1. \A e \in Ends : Orderly(side[e]) /\ Data(side[e].in) <= Data(side[e].in)
    BY Counts DEF RelayInv, Placed
  <2>2. side["server"].told => ~carrier
    BY <1>1 DEF RelayInv, Informed, Ends
  <2>3. QED
    BY <1>1, <1>2, <2>1, <2>2, FinishInv DEF Accept, IsLinked
<1>3. CASE \/ kind = "tcp" /\ phase' = "dial" /\ UNCHANGED <<side, pumping>>
           \/ kind = "dns" /\ phase' = "query" /\ UNCHANGED <<side, pumping>>
  <2>1. Placed'
    BY <1>3 DEF RelayInv, Placed, Accept, Phases, IsLinked
  <2>2. Informed' /\ Lossless'
    BY <1>3 DEF RelayInv, Informed, Lossless, Kept, Attentive, Got
  <2>3. Flow'
    BY <1>3 DEF RelayInv, Flow, Got, Accept
  <2>4. QED
    BY <2>1, <2>2, <2>3 DEF RelayInv
<1>4. QED
  BY <1>2, <1>3 DEF Accept

LEMMA ReadQueryInv ==
  ASSUME RelayInv, ReadQuery, UNCHANGED <<kind, carrier, running>>
  PROVE  RelayInv'
<1> DEFINE c == side["client"]
           t == Taken(c)
           rest == [side EXCEPT !["client"] = t]
<1>1. /\ phase = "query" /\ kind = "dns" /\ Orderly(c) /\ c.in # <<>> /\ c.conn = "open"
      /\ side["server"].conn = "none" /\ DOMAIN side = Ends
  BY DEF ReadQuery, RelayInv, Placed, Ends
<1>2. /\ Orderly(t) /\ SameEnd(c, t) /\ t.conn = "open" /\ t.out = c.out
      /\ Data(t.in) <= Data(c.in)
  BY <1>1, TakeSide, Counts DEF Items
<1>3. \/ phase' = "dial" /\ side' = rest /\ UNCHANGED pumping
      \/ Finish(rest)
  BY DEF ReadQuery, Taken
<1> HIDE DEF t
<1>4. rest["client"] = t /\ rest["server"] = side["server"] /\ DOMAIN rest = Ends
  BY <1>1 DEF Ends
<1>5. \A e \in Ends : /\ Orderly(rest[e]) /\ SameEnd(side[e], rest[e])
                      /\ rest[e].conn = side[e].conn /\ rest[e].out = side[e].out
                      /\ Data(rest[e].in) <= Data(side[e].in)
  BY <1>1, <1>2, <1>4, Counts DEF RelayInv, Placed, Ends, SameEnd
<1> HIDE DEF rest
<1>6. CASE phase' = "dial" /\ side' = rest /\ UNCHANGED pumping
  <2>1. Placed'
    BY <1>1, <1>4, <1>5, <1>6 DEF RelayInv, Placed, Phases, IsLinked, Ends
  <2>2. Informed' /\ Lossless'
    BY <1>1, <1>5, <1>6 DEF RelayInv, Informed, Lossless, SameEnd
  <2>3. \A e \in Ends : Got(e)' = Got(e)
    BY <1>5, <1>6 DEF Got, SameEnd
  <2>4. Flow'
    BY <1>1, <1>6, <2>3 DEF RelayInv, Flow, Ends
  <2>5. QED
    BY <2>1, <2>2, <2>4 DEF RelayInv
<1>7. CASE Finish(rest)
  <2>1. \A e \in Ends : rest[e].got + Data(rest[e].out) <= 1
    BY <1>1, <1>5 DEF RelayInv, Flow, Got, SameEnd
  <2>2. rest["server"].told => ~carrier
    BY <1>1, <1>4 DEF RelayInv, Informed, Ends
  <2>3. QED
    BY <1>1, <1>2, <1>4, <1>5, <1>7, <2>1, <2>2, FinishInv DEF SameEnd
<1>8. QED
  BY <1>3, <1>6, <1>7

LEMMA SideWith ==
  ASSUME NEW s, s = Side("none"), NEW c, NEW t, t = [s EXCEPT !.conn = c]
  PROVE  t = Side(c)
  BY DEF Side

LEMMA DialInv ==
  ASSUME RelayInv, Dial, UNCHANGED <<kind, carrier, running>>
  PROVE  RelayInv'
<1>1. /\ phase = "dial" /\ side["client"].conn = "open" /\ DOMAIN side = Ends
      /\ side["server"].conn = "none" /\ side["server"] = Side("none")
      /\ \A e \in Ends : Orderly(side[e])
  BY DEF Dial, RelayInv, Placed, Ends, Orderly, IsLinked
<1>2. Got("client") = 0 /\ (kind = "tcp" => Data(side["client"].in) = side["client"].sent)
  BY <1>1 DEF RelayInv, Flow
<1>3. ASSUME NEW c \in {"refused", "abandoned"}, NEW s, s = Side(c),
             Finish([side EXCEPT !["server"] = s])
      PROVE  RelayInv'
  <2> DEFINE sides == [side EXCEPT !["server"] = s]
  <2>1. sides["client"] = side["client"] /\ sides["server"] = s
    BY <1>1 DEF Ends
  <2>2. /\ Orderly(s) /\ s.conn = c /\ s.got = 0 /\ s.sent = 0 /\ ~s.told
        /\ Data(s.in) = 0 /\ Data(s.out) = 0
    BY <1>3, FreshSide DEF Conns
  <2>3. LET old == side["server"]
        IN  old.got = 0 /\ old.sent = 0 /\ ~old.told /\ Data(old.in) = 0 /\ Data(old.out) = 0
    BY <1>1, FreshSide DEF Conns
  <2>4. s.told = side["server"].told
    BY <1>1, <1>3 DEF Side
  <2>5. \A e \in Ends : /\ Orderly(sides[e]) /\ sides[e].told = side[e].told
                        /\ sides[e].got = side[e].got /\ sides[e].sent = side[e].sent
                        /\ Data(sides[e].in) <= Data(side[e].in)
                        /\ Data(sides[e].out) = Data(side[e].out)
    BY <1>1, <2>1, <2>2, <2>3, <2>4, Counts DEF Ends
  <2>6. kind = "dns" => \A e \in Ends : sides[e].got + Data(sides[e].out) <= 1
    BY <2>5 DEF RelayInv, Flow, Got
  <2>7. ~IsLinked(sides["server"]) /\ ~sides["server"].told
    BY <1>3, <2>1, <2>2 DEF IsLinked
  <2> HIDE DEF sides
  <2>8. Finish(sides)
    BY <1>3 DEF sides
  <2>9. sides["client"].conn = "open" /\ sides["server"].conn # "closed"
    BY <1>1, <1>3, <2>1, <2>2
  <2>10. QED
    BY <1>1, <2>5, <2>6, <2>7, <2>8, <2>9, FinishInv
<1>4. ASSUME NEW c \in {"refused", "abandoned"}, Finish([side EXCEPT !["server"].conn = c])
      PROVE  RelayInv'
  <2>1. [side["server"] EXCEPT !.conn = c] = Side(c)
    BY <1>1, SideWith
  <2>2. [side EXCEPT !["server"].conn = c] = [side EXCEPT !["server"] = Side(c)]
    BY <2>1
  <2>3. QED
    BY <1>3, <1>4, <2>2
<1>5. CASE /\ side' = [side EXCEPT !["server"].conn = "open",
                                   !["server"].out = IF kind = "dns" THEN <<"data">> ELSE @]
           /\ phase' = IF kind = "dns" THEN "ask" ELSE "splice"
           /\ pumping' = IF kind = "dns" THEN {} ELSE Ends
  <2> DEFINE s == side'["server"]
  <2>1. /\ kind \in {"tcp", "dns"}
        /\ [side["server"] EXCEPT !.conn = "open"] = Side("open")
    BY <1>1, SideWith, RelayAssumption DEF RelayInv, Placed
  <2>2. CASE kind = "dns"
    <3>1. side' = [side EXCEPT !["server"] = Given(Side("open"))]
      <4>1. side' = [side EXCEPT !["server"] = [Side("open") EXCEPT !.out = <<"data">>]]
        BY <1>1, <1>5, <2>1, <2>2
      <4>2. Append(Side("open").out, "data") = <<"data">>
        BY DEF Side
      <4>3. QED
        BY <4>1, <4>2 DEF Given
    <3>2. s = Given(Side("open")) /\ side'["client"] = side["client"] /\ DOMAIN side' = Ends
      BY <1>1, <3>1 DEF Ends
    <3>3. /\ Orderly(s) /\ s.conn = "open" /\ s.got = 0 /\ Data(s.out) = 1 /\ ~s.told
      BY <3>2, FreshSide, GiveSide DEF Conns, SameEnd
    <3> HIDE DEF s
    <3>4. Placed'
      BY <1>1, <1>5, <2>2, <3>2, <3>3 DEF RelayInv, Placed, Ends, IsLinked, Phases, s
    <3>5. Informed' /\ Lossless'
      BY <2>2, <3>2, <3>3 DEF RelayInv, Informed, Lossless, Ends, s
    <3>6. Got("client")' = 0 /\ Got("server")' = 1
      BY <1>2, <3>2, <3>3 DEF Got, s
    <3>7. Flow'
      BY <1>5, <2>2, <3>6 DEF Flow, Ends
    <3>8. QED
      BY <3>4, <3>5, <3>7 DEF RelayInv
  <2>3. CASE kind = "tcp"
    <3>1. side' = [side EXCEPT !["server"] = Side("open")]
      <4>1. side' = [side EXCEPT !["server"] = [Side("open") EXCEPT !.out = @]]
        BY <1>1, <1>5, <2>1, <2>3
      <4>2. [Side("open") EXCEPT !.out = @] = Side("open")
        BY DEF Side
      <4>3. QED
        BY <4>1, <4>2
    <3>2. s = Side("open") /\ side'["client"] = side["client"] /\ DOMAIN side' = Ends
      BY <1>1, <3>1 DEF Ends
    <3>3. /\ Orderly(s) /\ s.conn = "open" /\ s.got = 0 /\ s.sent = 0 /\ ~s.told
          /\ Data(s.in) = 0 /\ Data(s.out) = 0
      BY <3>2, FreshSide DEF Conns
    <3> HIDE DEF s
    <3>4. phase' = "splice" /\ pumping' = Ends
      BY <1>5, <2>3
    <3>5. Placed'
      BY <1>1, <2>3, <3>2, <3>3, <3>4 DEF RelayInv, Placed, Ends, Other, IsLinked, Phases, s
    <3>6. Informed'
      BY <3>2, <3>3 DEF RelayInv, Informed, Ends, s
    <3>7. /\ Got("client")' = 0 /\ Got("server")' = 0 /\ Data(side'["server"].in) = 0
          /\ side'["server"].sent = 0 /\ Data(side'["client"].in) = side'["client"].sent
          /\ side'["client"].sent \in Nat
      BY <1>1, <1>2, <2>3, <3>2, <3>3, Counts DEF Got, s, Ends
    <3>8. \A e \in Ends : Got(e)' + Data(side'[Other(e)].in) = side'[Other(e)].sent
                          /\ side'[e].sent \in Nat
      BY <3>7 DEF Ends, Other
    <3>9. Flow' /\ Lossless'
      BY <2>3, <3>4, <3>8, EachEnd DEF Flow, Lossless, Kept
    <3>10. QED
      BY <3>5, <3>6, <3>9 DEF RelayInv
  <2>4. QED
    BY <2>1, <2>2, <2>3
<1>6. QED
  BY <1>4, <1>5 DEF Dial

LEMMA AskInv ==
  ASSUME RelayInv, Ask, UNCHANGED <<kind, carrier, running>>
  PROVE  RelayInv'
<1> DEFINE c == side["client"]
           t == Given(c)
           sides == [side EXCEPT !["client"] = t]
<1>1. /\ phase = "ask" /\ kind = "dns" /\ c.conn = "open" /\ side["server"].conn = "open"
      /\ DOMAIN side = Ends /\ \A e \in Ends : Orderly(side[e])
  BY DEF Ask, RelayInv, Placed
<1>2. \A e \in Ends : side[e].got + Data(side[e].out) <= 1 /\ Data(side[e].in) \in Nat
  BY <1>1, Counts DEF RelayInv, Flow, Got
<1>3. side["server"].told => ~carrier
  BY <1>1 DEF RelayInv, Informed, Ends
<1>4. Finish(side) \/ Finish(sides)
  BY DEF Ask, Given
<1>5. CASE Finish(side)
  BY <1>1, <1>2, <1>3, <1>5, FinishInv
<1>6. CASE Finish(sides)
  <2>1. Orderly(c)
    BY <1>1 DEF Ends
  <2>2. /\ Orderly(t) /\ SameEnd(c, t) /\ t.conn = "open" /\ t.in = c.in
        /\ Data(t.out) = Data(c.out) + 1
    BY <1>1, <2>1, GiveSide
  <2>3. c.got = 0 /\ Data(c.out) = 0
    <3>1. c.got + Data(c.out) = 0
      BY <1>1 DEF RelayInv, Flow, Got
    <3>2. QED
      BY <2>1, <3>1, Counts
  <2> HIDE DEF t
  <2>4. sides["client"] = t /\ sides["server"] = side["server"]
    BY <1>1 DEF Ends
  <2> HIDE DEF sides
  <2>5. \A e \in Ends : /\ Orderly(sides[e]) /\ sides[e].told = side[e].told
                        /\ sides[e].got = side[e].got /\ sides[e].sent = side[e].sent
                        /\ Data(sides[e].in) <= Data(side[e].in)
                        /\ sides[e].got + Data(sides[e].out) <= 1
    BY <1>1, <1>2, <2>2, <2>3, <2>4 DEF Ends, SameEnd
  <2>6. QED
    BY <1>1, <1>3, <1>6, <2>2, <2>4, <2>5, FinishInv
<1>7. QED
  BY <1>4, <1>5, <1>6

\* One step of the pump that reads from e, when it is not held up by the other end.
LEMMA PumpCases ==
  ASSUME RelayInv, NEW e \in Ends, Pump(e), Drained(Other(e))
  PROVE  LET s == side[e]  o == side[Other(e)]
         IN  /\ e \in pumping /\ o.conn = "open" /\ kind = "tcp" /\ phase = "splice"
             /\ DOMAIN side = Ends /\ DOMAIN side' = Ends
             /\ Orderly(s) /\ s.in # <<>> /\ Orderly(o)
             /\ side'[e] = Taken(s)
             /\ \/ /\ Head(s.in) = "data" /\ side'[Other(e)] = Given(o)
                   /\ UNCHANGED <<phase, pumping>>
                \/ /\ Head(s.in) = "eof" \/ (Head(s.in) = "data" /\ ~o.reads)
                   /\ pumping' = pumping \ {e}
                   /\ phase' = IF pumping' = {} THEN "over" ELSE "splice"
                   /\ Shut(o, side'[Other(e)]) /\ side'[Other(e)].conn = "closed"
<1> DEFINE s == side[e]
           o == side[Other(e)]
           t == Taken(s)
           rest == [side EXCEPT ![e] = t]
<1>1. /\ e \in pumping /\ o.conn = "open" /\ kind = "tcp" /\ phase = "splice"
      /\ DOMAIN side = Ends /\ Orderly(s) /\ s.in # <<>> /\ Orderly(o)
  BY EachEnd DEF Pump, RelayInv, Placed
<1>2. Head(s.in) \in {"data", "eof"}
  BY <1>1, TakeSide DEF Items
<1>3. \/ /\ Head(s.in) = "data"
         /\ side' = [rest EXCEPT ![Other(e)].out = Append(@, "data")]
         /\ UNCHANGED <<phase, pumping>>
      \/ /\ Head(s.in) = "eof" \/ (Head(s.in) = "data" /\ ~o.reads)
         /\ PumpEnds(e, rest)
  BY <1>1, <1>2 DEF Pump, Taken
<1> HIDE DEF t
<1>4. rest[e] = t /\ rest[Other(e)] = o /\ DOMAIN rest = Ends
  BY <1>1, EachEnd
<1> HIDE DEF rest
<1>5. CASE /\ Head(s.in) = "data"
           /\ side' = [rest EXCEPT ![Other(e)].out = Append(@, "data")]
           /\ UNCHANGED <<phase, pumping>>
  <2>1. side' = [rest EXCEPT ![Other(e)] = Given(o)]
    BY <1>4, <1>5, EachEnd DEF Given
  <2>2. side'[e] = t /\ side'[Other(e)] = Given(o) /\ DOMAIN side' = Ends
    BY <1>4, <2>1, EachEnd
  <2>3. QED
    BY <1>1, <1>5, <2>2 DEF t
<1>6. CASE /\ Head(s.in) = "eof" \/ (Head(s.in) = "data" /\ ~o.reads)
           /\ PumpEnds(e, rest)
  <2>1. PICK c \in Closed(o) : side' = [rest EXCEPT ![Other(e)] = c]
    BY <1>4, <1>6 DEF PumpEnds
  <2>2. side'[e] = t /\ side'[Other(e)] = c /\ DOMAIN side' = Ends
    BY <1>4, <2>1, EachEnd
  <2>3. Shut(o, c) /\ c.conn = "closed"
    BY <1>1, CloseSide
  <2>4. QED
    BY <1>1, <1>6, <2>2, <2>3 DEF t, PumpEnds
<1>7. QED
  BY <1>3, <1>5, <1>6

LEMMA PumpOnInv ==
  ASSUME RelayInv, NEW e \in Ends, Pump(e), Drained(Other(e)),
         UNCHANGED <<kind, carrier, running>>
  PROVE  RelayInv'
<1> DEFINE o == Other(e)
<1>1. o \in Ends /\ o # e /\ Other(o) = e /\ \A x \in Ends : x = e \/ x = o
  BY EachEnd
<1>2. /\ e \in pumping /\ side[o].conn = "open" /\ kind = "tcp" /\ phase = "splice"
      /\ DOMAIN side = Ends /\ DOMAIN side' = Ends
      /\ Orderly(side[e]) /\ side[e].in # <<>> /\ Orderly(side[o])
  BY PumpCases
<1>3. side'[e] = Taken(side[e])
  BY PumpCases
<1>4. /\ IsLinked(side[e]) /\ Orderly(side'[e]) /\ SameEnd(side[e], side'[e])
      /\ side'[e].conn = side[e].conn /\ side'[e].out = side[e].out
      /\ Head(side[e].in) = "data" => Data(side[e].in) = Data(side'[e].in) + 1
      /\ Head(side[e].in) = "eof" => /\ Data(side[e].in) = 0 /\ Data(side'[e].in) = 0
                                     /\ ~(side[e].conn = "open" /\ side[e].sends)
  BY <1>2, <1>3, TakeSide
<1>5. ~(carrier /\ side[o].told)
  BY <1>1, <1>2 DEF RelayInv, Informed
<1>6. Got(e)' = Got(e) /\ side'[e].sent = side[e].sent
  BY <1>4 DEF Got, SameEnd
<1>7. /\ Data(side[e].in) \in Nat /\ Data(side'[e].in) \in Nat /\ Data(side[o].in) \in Nat
      /\ Got(e) \in Nat /\ Got(o) \in Nat /\ side[e].sent \in Nat /\ side[o].sent \in Nat
  <2>1. /\ Data(side[e].in) \in Nat /\ Got(e) \in Nat /\ side[e].sent \in Nat
    BY <1>2, Counts DEF Got
  <2>2. /\ Data(side[o].in) \in Nat /\ Got(o) \in Nat /\ side[o].sent \in Nat
    BY <1>2, Counts DEF Got
  <2>3. Data(side'[e].in) \in Nat
    BY <1>4, Counts
  <2>4. QED
    BY <2>1, <2>2, <2>3
<1>8. /\ Got(e) + Data(side[o].in) <= side[o].sent /\ Got(o) + Data(side[e].in) <= side[e].sent
  BY <1>1, <1>2 DEF RelayInv, Flow
<1>9. Kept(e) /\ Kept(o)
  BY <1>1, <1>2, <1>4 DEF RelayInv, Lossless, IsLinked, Ends
<1>10. CASE /\ Head(side[e].in) = "data" /\ side'[o] = Given(side[o])
           /\ UNCHANGED <<phase, pumping>>
  <2>1. /\ Orderly(side'[o]) /\ SameEnd(side[o], side'[o])
        /\ side'[o].conn = side[o].conn /\ side'[o].in = side[o].in
        /\ Data(side'[o].out) = Data(side[o].out) + 1
    BY <1>2, <1>10, GiveSide
  <2>2. /\ Got(o)' = Got(o) + 1 /\ Data(side'[o].in) = Data(side[o].in)
        /\ Data(side[e].in) = Data(side'[e].in) + 1 /\ side'[o].sent = side[o].sent
    BY <1>2, <1>4, <1>10, <2>1, Counts DEF Got, SameEnd
  <2>3. \A x \in Ends : Orderly(side'[x]) /\ SameEnd(side[x], side'[x])
                        /\ side'[x].conn = side[x].conn
    BY <1>1, <1>4, <2>1
  <2>4. Placed'
    BY <1>1, <1>2, <1>10, <2>3, EachEnd DEF RelayInv, Placed, IsLinked, Ends
  <2>5. Informed'
    BY <1>1, <1>4, <1>5, <2>1 DEF RelayInv, Informed, SameEnd
  <2>6. Flow'
    BY <1>1, <1>2, <1>6, <1>7, <1>8, <1>10, <2>2 DEF Flow
  <2>7. \A x \in Ends : /\ Attentive(x)' <=> Attentive(x)
                        /\ side'[Other(x)].sends = side[Other(x)].sends
    BY <2>3, EachEnd DEF Attentive, SameEnd
  <2>8. Got(e)' + Data(side'[o].in) = Got(e) + Data(side[o].in)
    BY <1>6, <2>2
  <2>9. Got(o)' + Data(side'[e].in) = Got(o) + Data(side[e].in)
    BY <1>7, <2>2
  <2>10. Lossless'
    <3>1. Kept(e)'
      BY <1>1, <1>6, <1>9, <1>10, <2>2, <2>7, <2>8 DEF Kept
    <3>2. Kept(o)'
      <4>1. Other(o) \in pumping
        BY <1>1, <1>2
      <4>2. Attentive(o)' => o \in pumping /\ Got(o) + Data(side[e].in) = side[e].sent
        BY <1>1, <1>9, <2>7, <4>1 DEF Kept
      <4>3. QED
        BY <1>1, <1>6, <1>10, <2>9, <4>1, <4>2 DEF Kept
    <3>3. QED
      BY <1>1, <3>1, <3>2 DEF Lossless
  <2>11. QED
    BY <2>4, <2>5, <2>6, <2>10 DEF RelayInv
<1>11. CASE /\ Head(side[e].in) = "eof" \/ (Head(side[e].in) = "data" /\ ~side[o].reads)
            /\ pumping' = pumping \ {e}
            /\ phase' = IF pumping' = {} THEN "over" ELSE "splice"
            /\ Shut(side[o], side'[o]) /\ side'[o].conn = "closed"
  <2>1. /\ Orderly(side'[o]) /\ SameEnd(side[o], side'[o])
        /\ Data(side'[o].out) = Data(side[o].out) /\ Data(side'[o].in) <= Data(side[o].in)
        /\ Data(side'[o].in) \in Nat
    BY <1>11, Counts DEF Shut
  <2>2. Got(o)' = Got(o) /\ side'[o].sent = side[o].sent
    BY <2>1 DEF Got, SameEnd
  <2>3. Data(side'[e].in) <= Data(side[e].in)
    BY <1>4, <1>7, <1>11
  <2>4. \A x \in pumping' : x = o /\ side'[Other(x)].conn = "open"
    BY <1>1, <1>4, <1>11 DEF RelayInv, Placed
  <2>5. Placed'
    <3>1. IsLinked(side'["client"]) /\ \A x \in Ends : Orderly(side'[x])
      BY <1>1, <1>4, <1>11, <2>1 DEF IsLinked, Ends
    <3>2. /\ phase' \in {"splice", "over"} /\ pumping' \subseteq Ends
          /\ (pumping' # {} => phase' = "splice")
      BY <1>11 DEF RelayInv, Placed
    <3>3. QED
      BY <1>2, <2>4, <3>1, <3>2 DEF RelayInv, Placed, Phases
  <2>6. Informed'
    BY <1>1, <1>4, <1>5, <2>1 DEF RelayInv, Informed, SameEnd
  <2>7. Flow'
    <3>1. phase' \in {"splice", "over"}
      BY <1>11
    <3>2. /\ Got(e)' + Data(side'[o].in) <= side'[o].sent
          /\ Got(o)' + Data(side'[e].in) <= side'[e].sent
      BY <1>6, <1>7, <1>8, <2>1, <2>2, <2>3
    <3>3. QED
      BY <1>1, <1>2, <3>1, <3>2 DEF Flow
  <2>8. Lossless'
    <3>1. o \in pumping => side[e].conn = "open"
      BY <1>1 DEF RelayInv, Placed
    <3>2. /\ Attentive(e)' => Attentive(e) /\ side[o].reads
          /\ Attentive(o)' => Attentive(o) /\ side[o].reads
      BY <1>1, <1>2, <1>4, <2>1 DEF Attentive, SameEnd, Orderly
    <3>3. Kept(e)'
      <4>1. o \in pumping => ~Attentive(e)'
        BY <1>4, <1>11, <3>1, <3>2 DEF Attentive
      <4>2. o \notin pumping /\ Attentive(e)' => ~side[o].sends /\ Got(e) = side[o].sent
        BY <1>9, <3>2 DEF Kept
      <4>3. side'[o].sends = side[o].sends /\ (o \notin pumping' \/ o \in pumping)
        BY <1>11, <2>1 DEF SameEnd
      <4>4. QED
        BY <1>6, <2>2, <4>1, <4>2, <4>3 DEF Kept
    <3>4. Kept(o)'
      <4>1. e \notin pumping'
        BY <1>11
      <4>2. Attentive(o)' => /\ Head(side[e].in) = "eof" /\ o \in pumping
                             /\ Got(o) + Data(side[e].in) = side[e].sent
        BY <1>1, <1>2, <1>9, <1>11, <3>2 DEF Kept
      <4>3. Attentive(o)' => ~side[e].sends /\ Got(o) = side[e].sent
        BY <1>4, <1>7, <3>1, <4>2
      <4>4. side'[e].sends = side[e].sends
        BY <1>4 DEF SameEnd
      <4>5. QED
        BY <1>1, <1>6, <2>2, <4>1, <4>3, <4>4 DEF Kept
    <3>5. QED
      BY <1>1, <3>3, <3>4 DEF Lossless
  <2>9. QED
    BY <2>5, <2>6, <2>7, <2>8 DEF RelayInv
<1>12. QED
  BY <1>10, <1>11, PumpCases

\* The drain() of a pump raises: the other end has left, and is not sent to either.
LEMMA PumpRaisesInv ==
  ASSUME RelayInv, NEW e \in Ends, e \in pumping, ~side[Other(e)].reads,
         PumpEnds(e, side), UNCHANGED <<kind, carrier, running>>
  PROVE  RelayInv'
<1> DEFINE o == Other(e)
<1>1. o \in Ends /\ o # e /\ Other(o) = e /\ \A x \in Ends : x = e \/ x = o
  BY EachEnd
<1>2. /\ side[o].conn = "open" /\ kind = "tcp" /\ phase = "splice"
      /\ DOMAIN side = Ends /\ Orderly(side[e]) /\ Orderly(side[o])
  BY EachEnd DEF RelayInv, Placed
<1>3. PICK c \in Closed(side[o]) : side' = [side EXCEPT ![o] = c]
  BY DEF PumpEnds
<1>4. side'[e] = side[e] /\ side'[o] = c /\ DOMAIN side' = Ends
  BY <1>1, <1>2, <1>3
<1>5. Shut(side[o], side'[o]) /\ side'[o].conn = "closed"
  BY <1>2, <1>4, CloseSide
<1>6. pumping' = pumping \ {e} /\ phase' = IF pumping' = {} THEN "over" ELSE "splice"
  BY DEF PumpEnds
<1>7. /\ Orderly(side'[o]) /\ SameEnd(side[o], side'[o])
      /\ Data(side'[o].out) = Data(side[o].out) /\ Data(side'[o].in) <= Data(side[o].in)
      /\ Data(side[o].in) \in Nat /\ Data(side'[o].in) \in Nat /\ Got(e) \in Nat
      /\ side[o].sent \in Nat
  <2>1. Orderly(side'[o]) /\ Data(side'[o].in) \in Nat /\ Data(side[o].in) \in Nat
        /\ side[o].sent \in Nat
    BY <1>2, <1>5, Counts DEF Shut
  <2>2. Got(e) \in Nat
    BY <1>2, Counts DEF Got
  <2>3. QED
    BY <1>5, <2>1, <2>2 DEF Shut
<1>8. /\ Got(o)' = Got(o) /\ Got(e)' = Got(e)
      /\ side'[o].sent = side[o].sent /\ side'[e].sent = side[e].sent
  BY <1>4, <1>7 DEF Got, SameEnd
<1>9. Placed'
  <2>1. \A x \in pumping' : x = o /\ side'[Other(x)].conn = "open"
    BY <1>1, <1>4, <1>6 DEF RelayInv, Placed
  <2>2. IsLinked(side'["client"]) /\ \A x \in Ends : Orderly(side'[x])
    BY <1>1, <1>2, <1>4, <1>5, <1>7 DEF RelayInv, Placed, IsLinked, Ends
  <2>3. /\ phase' \in {"splice", "over"} /\ pumping' \subseteq Ends
        /\ (pumping' # {} => phase' = "splice")
    BY <1>6 DEF RelayInv, Placed
  <2>4. QED
    BY <1>2, <1>4, <2>1, <2>2, <2>3 DEF RelayInv, Placed, Phases
<1>10. Informed'
  BY <1>1, <1>2, <1>4, <1>7 DEF RelayInv, Informed, SameEnd
<1>11. Flow'
  <2>1. phase' \in {"splice", "over"}
    BY <1>6
  <2>2. Got(e) + Data(side[o].in) <= side[o].sent /\ Got(o) + Data(side[e].in) <= side[e].sent
    BY <1>1, <1>2 DEF RelayInv, Flow
  <2>3. /\ Got(e)' + Data(side'[o].in) <= side'[o].sent
        /\ Got(o)' + Data(side'[e].in) <= side'[e].sent
    BY <1>4, <1>7, <1>8, <2>2
  <2>4. QED
    BY <1>1, <1>2, <2>1, <2>3 DEF Flow
<1>12. Lossless'
  <2>1. ~Attentive(e)' /\ ~Attentive(o)'
    BY <1>1, <1>2, <1>4, <1>7 DEF Attentive, SameEnd, Orderly
  <2>2. QED
    BY <1>1, <2>1 DEF Lossless, Kept
<1>13. QED
  BY <1>9, <1>10, <1>11, <1>12 DEF RelayInv

LEMMA PumpInv ==
  ASSUME RelayInv, NEW e \in Ends, Pump(e), UNCHANGED <<kind, carrier, running>>
  PROVE  RelayInv'
<1>1. CASE Drained(Other(e))
  BY <1>1, PumpOnInv
<1>2. CASE ~Drained(Other(e))
  BY <1>2, PumpRaisesInv DEF Pump
<1>3. QED
  BY <1>1, <1>2

-----------------------------------------------------------------------------
(* The ends *)

\* Who steps at the end e alone leaves the connections as they are.
LEMMA EndStep ==
  ASSUME RelayInv, NEW e \in Ends, NEW t, side' = [side EXCEPT ![e] = t],
         UNCHANGED <<kind, phase, pumping, carrier, running>>,
         Orderly(t), t.conn = side[e].conn
  PROVE  /\ Placed' /\ DOMAIN side = Ends /\ side'[e] = t
         /\ side'[Other(e)] = side[Other(e)] /\ Got(Other(e))' = Got(Other(e))
         /\ IsLinked(side'["server"]) <=> IsLinked(side["server"])
<1>1. DOMAIN side = Ends /\ \A x \in Ends : Orderly(side[x])
  BY DEF RelayInv, Placed
<1>2. side'[e] = t /\ \A x \in Ends : x # e => side'[x] = side[x]
  BY <1>1
<1>3. DOMAIN side' = Ends
  BY <1>1
<1>4. \A x \in Ends : Orderly(side'[x]) /\ side'[x].conn = side[x].conn
  BY <1>1, <1>2
<1>5. Placed'
  BY <1>3, <1>4, EachEnd DEF RelayInv, Placed, IsLinked, Ends
<1>6. QED
  BY <1>1, <1>2, <1>4, <1>5, EachEnd DEF Got, IsLinked, Ends

LEMMA SendDataInv ==
  ASSUME RelayInv, NEW e \in Ends, SendData(e)
  PROVE  RelayInv'
<1> DEFINE s == side[e]
           o == Other(e)
           in == Sent(e, "data")
           t == [s EXCEPT !.sent = s.sent + 1, !.in = in]
<1>1. /\ o \in Ends /\ o # e /\ Other(o) = e /\ \A x \in Ends : x = e \/ x = o
      /\ DOMAIN side = Ends /\ Orderly(s) /\ Orderly(side[o])
      /\ s.conn \in {"open", "closed"} /\ s.sends /\ s.sent < MaxData
  BY EachEnd DEF SendData, Linked, RelayInv, Placed
<1>2. UNCHANGED <<kind, phase, pumping, carrier, running>>
  BY DEF SendData
<1>3. /\ in \in Seq(Items) /\ Lined(in) /\ Data(in) <= Data(s.in) + 1 /\ Data(in) \in Nat
      /\ s.conn = "open" => ~Ended(in) /\ Data(in) = Data(s.in) + 1
  <2>1. s.in \in Seq(Items) /\ Lined(s.in) /\ Data(s.in) \in Nat
    BY <1>1, Counts DEF Orderly, Sides
  <2>2. CASE s.conn = "open"
    <3>1. in = Append(s.in, "data") /\ ~Ended(s.in) /\ "data" \in Items
      BY <1>1, <2>2 DEF Sent, Orderly, Items
    <3> HIDE DEF in
    <3>2. in \in Seq(Items) /\ Lined(in) /\ ~Ended(in) /\ Data(in) = Data(s.in) + 1
      BY <2>1, <3>1, AddItem
    <3>3. QED
      BY <2>1, <3>2
  <2>3. CASE s.conn = "closed"
    BY <2>1, <2>3 DEF Sent
  <2>4. QED
    BY <1>1, <2>2, <2>3
<1>4. side' = [side EXCEPT ![e] = t]
  BY <1>1 DEF SendData
<1> HIDE DEF in
<1>5. /\ t \in Sides /\ t.in = in /\ t.out = s.out /\ t.sent = s.sent + 1 /\ t.got = s.got
      /\ t.conn = s.conn /\ t.sends = s.sends /\ t.reads = s.reads /\ t.told = s.told
  <2>1. s.sent + 1 \in 0..MaxData /\ s \in Sides
    BY <1>1, RelayAssumption DEF Orderly, Sides
  <2>2. QED
    BY <1>3, <2>1 DEF Sides
<1> HIDE DEF t
<1>6. Orderly(t)
  BY <1>1, <1>3, <1>5 DEF Orderly, IsLinked
<1>7. /\ Placed' /\ side'[e] = t /\ side'[o] = side[o] /\ Got(o)' = Got(o)
      /\ IsLinked(side'["server"]) <=> IsLinked(side["server"])
  BY <1>2, <1>4, <1>5, <1>6, EndStep
<1>8. Got(e)' = Got(e)
  BY <1>5, <1>7 DEF Got
<1>9. Informed'
  BY <1>1, <1>2, <1>5, <1>7 DEF RelayInv, Informed
<1>10. /\ Data(s.in) \in Nat /\ s.sent \in Nat /\ Got(e) \in Nat /\ Got(o) \in Nat
  BY <1>1, Counts DEF Got
<1>11. Flow'
  <2>1. kind = "tcp" => /\ Got(o)' + Data(side'[e].in) <= side'[e].sent
                        /\ Got(e)' + Data(side'[o].in) <= side'[o].sent
    <3>1. kind = "tcp" => /\ Got(o) + Data(s.in) <= s.sent
                          /\ Got(e) + Data(side[o].in) <= side[o].sent
      BY <1>1 DEF RelayInv, Flow
    <3>2. QED
      BY <1>3, <1>5, <1>7, <1>8, <1>10, <3>1
  <2>2. \A x \in Ends : Got(x)' = Got(x)
    BY <1>1, <1>7, <1>8
  <2>3. phase \in {"accept", "dial"} /\ kind = "tcp" =>
           Data(side'["client"].in) = side'["client"].sent
    <3>1. CASE e = "client"
      BY <1>3, <1>5, <1>7, <1>10, <3>1 DEF RelayInv, Placed, Flow
    <3>2. CASE e = "server"
      BY <1>1, <3>2 DEF RelayInv, Placed
    <3>3. QED
      BY <3>1, <3>2 DEF Ends
  <2>4. QED
    BY <1>1, <1>2, <2>1, <2>2, <2>3 DEF RelayInv, Flow, Ends
<1>12. Lossless'
  <2> SUFFICES ASSUME kind = "tcp", IsLinked(side["server"])
               PROVE  Kept(e)' /\ Kept(o)'
    BY <1>1, <1>2, <1>7 DEF Lossless
  <2>1. Kept(e) /\ Kept(o)
    BY <1>1 DEF RelayInv, Lossless
  <2>2. Kept(e)'
    <3>1. Attentive(e)' <=> Attentive(e)
      BY <1>2, <1>5, <1>7 DEF Attentive
    <3>2. QED
      BY <1>2, <1>7, <1>8, <2>1, <3>1 DEF Kept
  <2>3. Kept(o)'
    <3>1. Attentive(o)' <=> Attentive(o)
      BY <1>1, <1>2, <1>5, <1>7 DEF Attentive
    <3>2. Attentive(o) => e \in pumping /\ o \in pumping /\ Got(o) + Data(s.in) = s.sent
      BY <1>1, <2>1 DEF Kept
    <3>3. Attentive(o) => s.conn = "open"
      BY <1>1, <3>2 DEF RelayInv, Placed
    <3>4. Attentive(o) => Got(o)' + Data(side'[e].in) = side'[e].sent
      BY <1>3, <1>5, <1>7, <1>10, <3>2, <3>3
    <3>5. QED
      BY <1>1, <1>2, <3>1, <3>2, <3>4 DEF Kept
  <2>4. QED
    BY <2>2, <2>3
<1>13. QED
  BY <1>7, <1>9, <1>11, <1>12 DEF RelayInv

LEMMA StopSendingInv ==
  ASSUME RelayInv, NEW e \in Ends, StopSending(e)
  PROVE  RelayInv'
<1> DEFINE s == side[e]
           o == Other(e)
           in == Sent(e, "eof")
<1>1. /\ o \in Ends /\ o # e /\ Other(o) = e /\ \A x \in Ends : x = e \/ x = o
      /\ DOMAIN side = Ends /\ Orderly(s) /\ Orderly(side[o])
      /\ s.conn \in {"open", "closed"} /\ s.sends
  BY EachEnd DEF StopSending, Linked, RelayInv, Placed
<1>2. UNCHANGED <<kind, phase, pumping, carrier, running>>
  BY DEF StopSending
<1>3. in \in Seq(Items) /\ Lined(in) /\ Data(in) = Data(s.in)
  <2>1. s.in \in Seq(Items) /\ Lined(s.in)
    BY <1>1 DEF Orderly, Sides
  <2>2. CASE s.conn = "open"
    <3>1. in = Append(s.in, "eof") /\ ~Ended(s.in)
      BY <1>1, <2>2 DEF Sent, Orderly
    <3>2. QED
      BY <2>1, <3>1, AddItem DEF Items
  <2>3. CASE s.conn = "closed"
    BY <2>1, <2>3 DEF Sent
  <2>4. QED
    BY <1>1, <2>2, <2>3
<1>4. PICK r \in BOOLEAN :
        side' = [side EXCEPT ![e] = [s EXCEPT !.sends = FALSE, !.reads = r, !.in = in]]
  BY <1>1 DEF StopSending
<1> DEFINE t == [s EXCEPT !.sends = FALSE, !.reads = r, !.in = in]
<1> HIDE DEF in
<1>5. /\ t \in Sides /\ t.in = in /\ t.out = s.out /\ t.sent = s.sent /\ t.got = s.got
      /\ t.conn = s.conn /\ ~t.sends /\ t.told = s.told
  BY <1>1, <1>3 DEF Orderly, Sides
<1>6. side' = [side EXCEPT ![e] = t]
  BY <1>4
<1> HIDE DEF t
<1>7. Orderly(t)
  BY <1>1, <1>3, <1>5 DEF Orderly, IsLinked
<1>8. /\ Placed' /\ side'[e] = t /\ side'[o] = side[o] /\ Got(o)' = Got(o)
      /\ IsLinked(side'["server"]) <=> IsLinked(side["server"])
  BY <1>2, <1>5, <1>6, <1>7, EndStep
<1>9. \A x \in Ends : /\ Got(x)' = Got(x) /\ Data(side'[x].in) = Data(side[x].in)
                      /\ side'[x].sent = side[x].sent
  BY <1>1, <1>3, <1>5, <1>8 DEF Got
<1>10. Informed'
  BY <1>1, <1>2, <1>5, <1>8 DEF RelayInv, Informed
<1>11. Flow'
  BY <1>2, <1>9, EachEnd DEF RelayInv, Flow, Ends
<1>12. Lossless'
  <2> SUFFICES ASSUME kind = "tcp", IsLinked(side["server"])
               PROVE  Kept(e)' /\ Kept(o)'
    BY <1>1, <1>2, <1>8 DEF Lossless
  <2>1. Kept(o)
    BY <1>1 DEF RelayInv, Lossless
  <2>2. Kept(e)'
    BY <1>5, <1>8 DEF Kept, Attentive
  <2>3. Kept(o)'
    <3>1. Attentive(o)' => Attentive(o)
      BY <1>1, <1>2, <1>8 DEF Attentive, Orderly
    <3>2. Attentive(o) => e \in pumping /\ o \in pumping /\ Got(o) + Data(s.in) = s.sent
      BY <1>1, <2>1 DEF Kept
    <3>3. QED
      BY <1>1, <1>2, <1>9, <3>1, <3>2 DEF Kept
  <2>4. QED
    BY <2>2, <2>3
<1>13. QED
  BY <1>8, <1>10, <1>11, <1>12 DEF RelayInv

LEMMA ReceiveInv ==
  ASSUME RelayInv, NEW e \in Ends, Receive(e)
  PROVE  RelayInv'
<1> DEFINE s == side[e]
           o == Other(e)
           out == Tail(s.out)
           taken == Head(s.out) = "data" /\ s.reads /\ (e = "server" => carrier)
           got == IF taken THEN s.got + 1 ELSE s.got
           told == s.told \/ Head(s.out) = "eof"
           t == [s EXCEPT !.out = out, !.got = got, !.told = told]
<1>1. /\ o \in Ends /\ o # e /\ Other(o) = e /\ \A x \in Ends : x = e \/ x = o
      /\ DOMAIN side = Ends /\ Orderly(s) /\ Orderly(side[o]) /\ s.out # <<>>
  BY EachEnd DEF Receive, RelayInv, Placed
<1>2. UNCHANGED <<kind, phase, pumping, carrier, running>>
  BY DEF Receive
<1>3. /\ out \in Seq(Items) /\ Lined(out) /\ Head(s.out) \in Items
      /\ Head(s.out) = "data" => Data(s.out) = Data(out) + 1 /\ (Ended(out) <=> Ended(s.out))
      /\ Head(s.out) = "eof" => out = <<>> /\ Data(s.out) = 0 /\ Ended(s.out)
  BY <1>1, TakeItem DEF Orderly, Sides
<1>4. /\ Data(s.out) \in Nat /\ s.got \in Nat /\ Data(out) \in Nat
      /\ Data(side[o].in) \in Nat /\ side[o].sent \in Nat
  BY <1>1, <1>3, Counts, DataType
<1>5. side' = [side EXCEPT ![e] = t]
  BY <1>1 DEF Receive
<1>6. /\ got \in Nat /\ told \in BOOLEAN
      /\ got + Data(out) <= s.got + Data(s.out)
      /\ s.reads /\ carrier => got + Data(out) = s.got + Data(s.out)
  <2>1. told \in BOOLEAN
    BY <1>1 DEF Orderly, Sides
  <2>2. Data(out) = Data(s.out) \/ (Head(s.out) = "data" /\ Data(out) + 1 = Data(s.out))
    BY <1>3, <1>4, NoStream DEF Items
  <2>3. CASE taken
    <3>1. Head(s.out) = "data" /\ got = s.got + 1 /\ Data(out) + 1 = Data(s.out)
      BY <1>3, <2>3
    <3> HIDE DEF out, got
    <3>2. QED
      BY <1>4, <2>1, <3>1
  <2>4. CASE ~taken
    <3>1. got = s.got
      BY <2>4
    <3>2. s.reads /\ carrier => Data(out) = Data(s.out)
      BY <2>2, <2>4
    <3> HIDE DEF out, got
    <3>3. QED
      BY <1>4, <2>1, <2>2, <3>1, <3>2
  <2>5. QED
    BY <2>3, <2>4
<1>7. carrier /\ told => out = <<>> /\ s.conn = "closed"
  <2>1. ~(carrier /\ s.told)
    BY <1>1 DEF RelayInv, Informed
  <2>2. QED
    BY <1>1, <1>3, <2>1 DEF Orderly
<1> HIDE DEF out, got, told
<1>8. /\ t \in Sides /\ t.in = s.in /\ t.out = out /\ t.sent = s.sent /\ t.got = got
      /\ t.conn = s.conn /\ t.sends = s.sends /\ t.reads = s.reads /\ t.told = told
  BY <1>1, <1>3, <1>6 DEF Orderly, Sides
<1> HIDE DEF t
<1>9. Orderly(t)
  <2>1. IsLinked(s)
    BY <1>1 DEF Orderly, Side
  <2>2. Ended(out) => Ended(s.out)
    BY <1>3, NoStream DEF Items
  <2>3. QED
    BY <1>1, <1>3, <1>8, <2>1, <2>2 DEF Orderly, IsLinked
<1>10. /\ Placed' /\ side'[e] = t /\ side'[o] = side[o] /\ Got(o)' = Got(o)
       /\ IsLinked(side'["server"]) <=> IsLinked(side["server"])
  BY <1>2, <1>5, <1>8, <1>9, EndStep
<1>11. /\ Got(e)' <= Got(e) /\ Got(e)' \in Nat /\ Got(e) \in Nat
       /\ s.reads /\ carrier => Got(e)' = Got(e)
  BY <1>4, <1>6, <1>8, <1>10 DEF Got
<1>12. Informed'
  BY <1>1, <1>2, <1>7, <1>8, <1>10 DEF RelayInv, Informed
<1>13. Flow'
  <2>1. kind = "tcp" => /\ Got(o)' + Data(side'[e].in) <= side'[e].sent
                        /\ Got(e)' + Data(side'[o].in) <= side'[o].sent
    <3>1. kind = "tcp" => /\ Got(o) + Data(s.in) <= s.sent
                          /\ Got(e) + Data(side[o].in) <= side[o].sent
      BY <1>1 DEF RelayInv, Flow
    <3>2. kind = "tcp" => Got(o)' + Data(side'[e].in) <= side'[e].sent
      BY <1>8, <1>10, <3>1
    <3>3. kind = "tcp" => Got(e)' + Data(side'[o].in) <= side'[o].sent
      BY <1>4, <1>10, <1>11, <3>1
    <3>4. QED
      BY <3>2, <3>3
  <2>2. kind = "dns" => Got(e)' <= 1 /\ Got(o)' <= 1
    BY <1>1, <1>10, <1>11 DEF RelayInv, Flow
  <2>3. phase \notin {"splice", "over"} => Got("client")' = 0
    <3>1. CASE e = "client"
      BY <1>11, <3>1 DEF RelayInv, Flow
    <3>2. CASE o = "client"
      BY <1>10, <3>2 DEF RelayInv, Flow
    <3>3. QED
      BY <1>1, <3>1, <3>2 DEF Ends
  <2>4. phase \in {"accept", "dial"} /\ kind = "tcp" =>
           Data(side'["client"].in) = side'["client"].sent
    <3>1. CASE e = "client"
      BY <1>8, <1>10, <3>1 DEF RelayInv, Flow
    <3>2. CASE o = "client"
      BY <1>10, <3>2 DEF RelayInv, Flow
    <3>3. QED
      BY <1>1, <3>1, <3>2 DEF Ends
  <2>5. QED
    BY <1>1, <1>2, <2>1, <2>2, <2>3, <2>4 DEF Flow
<1>14. Lossless'
  <2> SUFFICES ASSUME kind = "tcp", IsLinked(side["server"])
               PROVE  Kept(e)' /\ Kept(o)'
    BY <1>1, <1>2, <1>10 DEF Lossless
  <2>1. Kept(e) /\ Kept(o)
    BY <1>1 DEF RelayInv, Lossless
  <2>2. Kept(e)'
    <3>1. Attentive(e)' => Attentive(e) /\ Got(e)' = Got(e)
      BY <1>1, <1>2, <1>8, <1>10, <1>11 DEF Attentive, Orderly
    <3>2. QED
      BY <1>2, <1>10, <2>1, <3>1 DEF Kept
  <2>3. Kept(o)'
    <3>1. Attentive(o)' <=> Attentive(o)
      BY <1>1, <1>2, <1>8, <1>10 DEF Attentive
    <3>2. QED
      BY <1>1, <1>2, <1>8, <1>10, <2>1, <3>1 DEF Kept
  <2>4. QED
    BY <2>2, <2>3
<1>15. QED
  BY <1>10, <1>12, <1>13, <1>14 DEF RelayInv

-----------------------------------------------------------------------------
(* What goes wrong, and the invariant *)

LEMMA CarrierDiesInv ==
  ASSUME RelayInv, CarrierDies
  PROVE  RelayInv'
<1>1. carrier' = FALSE /\ UNCHANGED <<kind, phase, pumping, running>>
  BY DEF CarrierDies
<1>2. Informed' /\ Lossless'
  BY <1>1 DEF Informed, Lossless, Kept, Attentive
<1>3. CASE side["server"].conn # "open"
  <2>1. UNCHANGED side
    BY <1>3 DEF CarrierDies
  <2>2. Placed' /\ Flow'
    BY <1>1, <2>1 DEF RelayInv, Placed, Flow, Got
  <2>3. QED
    BY <1>2, <2>2 DEF RelayInv
<1>4. CASE side["server"].conn = "open"
  <2> DEFINE s == side["server"]
             in == IF "eof" \in Range(s.in) THEN s.in ELSE Append(s.in, "eof")
             t == [s EXCEPT !.told = TRUE, !.sends = FALSE, !.in = in]
  <2>1. DOMAIN side = Ends /\ Orderly(s) /\ \A e \in Ends : Orderly(side[e])
    BY DEF RelayInv, Placed, Ends
  <2>2. side' = [side EXCEPT !["server"] = t]
    BY <1>4 DEF CarrierDies
  <2>3. in \in Seq(Items) /\ Lined(in) /\ Data(in) = Data(s.in)
    <3>1. s.in \in Seq(Items) /\ Lined(s.in) /\ "eof" \in Items
      BY <2>1 DEF Orderly, Sides, Items
    <3>2. CASE "eof" \in Range(s.in)
      BY <3>1, <3>2
    <3>3. CASE "eof" \notin Range(s.in)
      <4>1. ~Ended(s.in)
        BY <3>1, <3>3, EndIn
      <4>2. in = Append(s.in, "eof")
        BY <3>3
      <4> HIDE DEF in
      <4>3. QED
        BY <3>1, <4>1, <4>2, AddItem
    <3>4. QED
      BY <3>2, <3>3
  <2> HIDE DEF in
  <2>4. /\ t \in Sides /\ t.in = in /\ t.out = s.out /\ t.sent = s.sent /\ t.got = s.got
        /\ t.conn = s.conn /\ ~t.sends
    BY <2>1, <2>3 DEF Orderly, Sides
  <2> HIDE DEF t
  <2>5. Orderly(t)
    BY <1>4, <2>1, <2>3, <2>4 DEF Orderly, IsLinked
  <2>6. /\ side'["server"] = t /\ side'["client"] = side["client"] /\ DOMAIN side' = Ends
    BY <2>1, <2>2 DEF Ends
  <2>7. \A e \in Ends : /\ Orderly(side'[e]) /\ side'[e].conn = side[e].conn
                        /\ Got(e)' = Got(e) /\ Data(side'[e].in) = Data(side[e].in)
                        /\ side'[e].sent = side[e].sent
    BY <2>1, <2>3, <2>4, <2>5, <2>6 DEF Got, Ends
  <2>8. Placed'
    <3>1. carrier' \in BOOLEAN
      BY <1>1
    <3>2. QED
      BY <1>1, <2>6, <2>7, <3>1, EachEnd DEF RelayInv, Placed, IsLinked, Ends
  <2>9. Flow'
    BY <1>1, <2>7, EachEnd DEF RelayInv, Flow, Ends
  <2>10. QED
    BY <1>2, <2>8, <2>9 DEF RelayInv
<1>5. QED
  BY <1>3, <1>4

LEMMA RelaySteps ==
  ASSUME RelayInv, [Next]_vars
  PROVE  RelayInv'
<1>1. CASE Handler
  <2>1. UNCHANGED <<kind, carrier, running>>
    BY <1>1 DEF Handler
  <2>2. CASE Accept
    BY <2>1, <2>2, AcceptInv
  <2>3. CASE ReadQuery
    BY <2>1, <2>3, ReadQueryInv
  <2>4. CASE Dial
    BY <2>1, <2>4, DialInv
  <2>5. CASE Ask
    BY <2>1, <2>5, AskInv
  <2>6. CASE \E e \in Ends : Pump(e)
    BY <2>1, <2>6, PumpInv
  <2>7. QED
    BY <1>1, <2>2, <2>3, <2>4, <2>5, <2>6 DEF Handler
<1>2. CASE CarrierDies
  BY <1>2, CarrierDiesInv
<1>3. CASE LoopStops
  <2>1. running' \in BOOLEAN /\ UNCHANGED <<kind, phase, pumping, side, carrier>>
    BY <1>3 DEF LoopStops
  <2>2. QED
    BY <2>1 DEF RelayInv, Placed, Informed, Flow, Lossless, Got, Kept, Attentive
<1>4. CASE \E e \in Ends : SendData(e) \/ StopSending(e) \/ Receive(e)
  BY <1>4, SendDataInv, StopSendingInv, ReceiveInv
<1>5. CASE UNCHANGED vars
  BY <1>5 DEF vars, RelayInv, Placed, Informed, Flow, Lossless, Got, Kept, Attentive
<1>6. QED
  BY <1>1, <1>2, <1>3, <1>4, <1>5 DEF Next

LEMMA RelayInvHolds == Spec => []RelayInv
<1>1. RelayInv /\ [Next]_vars => RelayInv'
  BY RelaySteps
<1>2. QED
  BY <1>1, InitRelayInv, PTL DEF Spec

-----------------------------------------------------------------------------
(* The theorems *)

\* Whatever the ends do, a connection through the handler (_handle_tcp, _splice, and
\* _handle_dns_tcp with dns_query_over_socks) keeps its shape: nothing follows the end
\* of a stream, in either direction, and no end is given more than the other sent.
THEOREM RelayTypeCorrect == Spec => []TypeOK
<1>1. RelayInv => TypeOK
  <2> SUFFICES ASSUME RelayInv PROVE TypeOK
    OBVIOUS
  <2>1. ASSUME NEW e \in Ends
        PROVE  side[e].got \in 0..MaxData
    <3>1. Orderly(side[e]) /\ Other(e) \in Ends /\ Orderly(side[Other(e)])
      BY EachEnd DEF RelayInv, Placed
    <3>2. /\ side[e].got \in Nat /\ Data(side[e].out) \in Nat /\ MaxData \in Nat
          /\ MaxData >= 1 /\ Data(side[Other(e)].in) \in Nat
          /\ side[Other(e)].sent \in Nat /\ side[Other(e)].sent <= MaxData
      BY <3>1, Counts
    <3>3. kind = "tcp" \/ kind = "dns"
      BY RelayAssumption DEF RelayInv, Placed
    <3>4. CASE kind = "tcp"
      BY <3>2, <3>4 DEF RelayInv, Flow, Got
    <3>5. CASE kind = "dns"
      BY <3>2, <3>5 DEF RelayInv, Flow, Got
    <3>6. QED
      BY <3>3, <3>4, <3>5
  <2>2. ASSUME NEW e \in Ends, NEW c \in {side[e].in, side[e].out}, NEW i \in DOMAIN c
        PROVE  c[i] = "data" \/ (c[i] = "eof" /\ i = Len(c))
    <3>1. c \in Seq(Items) /\ Lined(c)
      BY <2>2 DEF RelayInv, Placed, Orderly, Sides
    <3>2. i \in 1..Len(c) /\ c[i] \in Items
      BY <2>2, <3>1, LenProperties, ElementOfSeq
    <3>3. QED
      BY <3>1, <3>2 DEF Lined, Items
  <2>3. ASSUME NEW e \in Ends
        PROVE  /\ side[e].conn \in Conns /\ side[e].sent \in 0..MaxData
               /\ {side[e].sends, side[e].reads, side[e].told} \subseteq BOOLEAN
    BY DEF RelayInv, Placed, Orderly, Sides
  <2>4. QED
    BY <2>1, <2>2, <2>3 DEF TypeOK, RelayInv, Placed
<1>2. QED
  BY <1>1, RelayInvHolds, PTL

\* When the handler has ended both directions of a spliced connection, an end that was
\* still sending has received all that the other end sent (_splice): neither pump was
\* given up while data was on its way to an end that was still there.
THEOREM RelayedWhole == Spec => []Whole
<1>1. RelayInv => Whole
  <2> SUFFICES ASSUME RelayInv, NEW e \in Ends, kind = "tcp", carrier, Linked("server"),
                      side[e].told, side[e].sends, side[Other(e)].reads
               PROVE  side[e].got = side[Other(e)].sent
    BY DEF Whole
  <2>1. side[e].conn = "closed" /\ side[e].out = <<>>
    BY DEF RelayInv, Informed
  <2>2. Other(Other(e)) = e
    BY EachEnd
  <2>3. Other(e) \notin pumping
    BY <2>1, <2>2 DEF RelayInv, Placed
  <2>4. Got(e) = side[Other(e)].sent
    BY <2>3 DEF RelayInv, Lossless, Kept, Attentive, Linked, IsLinked
  <2>5. side[e].got \in Nat /\ Data(side[e].out) = 0
    BY <2>1, NoStream, Counts DEF RelayInv, Placed
  <2>6. QED
    BY <2>4, <2>5 DEF Got
<1>2. QED
  BY <1>1, RelayInvHolds, PTL
=============================================================================
