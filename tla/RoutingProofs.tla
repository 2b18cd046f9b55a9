---------------------------- MODULE RoutingProofs ----------------------------
(***************************************************************************)
(* Proofs about Routing, for every set of mishaps: the types and the       *)
(* bounds of the pipes, that replies stay in step with requests, and what  *)
(* down() leaves behind.                                                   *)
(***************************************************************************)
EXTENDS Routing, SequenceTheorems, TLAPS

-----------------------------------------------------------------------------
(* A reader and a writer at the two ends of a pipe *)

LEMMA HeadThenTail ==
  ASSUME NEW S, NEW s \in Seq(S), s # <<>>
  PROVE  s = <<Head(s)>> \o Tail(s)
<1>1. Len(s) \in Nat \ {0} /\ 1 \in 1..Len(s) /\ Len(s) \in 1..Len(s)
  BY EmptySeq
<1>2. s = <<s[1]>> \o SubSeq(s, 2, Len(s))
  BY <1>1, SubSeqRecursiveFirst, SubSeqFull
<1>3. QED
  BY <1>2, TailIsSubSeq

\* What was read from the far end and what is still in the pipe, in order.
LEMMA ReadKeepsOrder ==
  ASSUME NEW S, NEW r \in Seq(S), NEW o \in Seq(S), o # <<>>
  PROVE  Append(r, Head(o)) \o Tail(o) = r \o o
<1>1. Head(o) \in S /\ Tail(o) \in Seq(S)
  BY HeadTailProperties
<1>2. Append(r, Head(o)) = r \o <<Head(o)>>
  BY <1>1, AppendIsConcat
<1>3. <<Head(o)>> \in Seq(S)
  BY <1>1
<1>4. (r \o <<Head(o)>>) \o Tail(o) = r \o (<<Head(o)>> \o Tail(o))
  BY <1>1, <1>3, ConcatAssociative
<1>5. QED
  BY <1>2, <1>4, HeadThenTail

LEMMA TakeFromFront ==
  ASSUME NEW S, NEW r \in Seq(S), NEW o \in Seq(S), r # <<>>
  PROVE  /\ r \o o \in Seq(S) /\ r \o o # <<>>
         /\ Len(Tail(r) \o o) = Len(r \o o) - 1
         /\ (r \o o)[1] = Head(r)
         /\ \A i \in 1..Len(Tail(r) \o o) : (Tail(r) \o o)[i] = (r \o o)[i + 1]
<1>1. /\ Len(r) \in Nat \ {0} /\ Len(o) \in Nat
      /\ Tail(r) \in Seq(S) /\ Len(Tail(r)) = Len(r) - 1
      /\ \A i \in 1..Len(Tail(r)) : Tail(r)[i] = r[i + 1]
  BY EmptySeq, LenProperties, HeadTailProperties
<1>2. /\ r \o o \in Seq(S)
      /\ Len(r \o o) = Len(r) + Len(o)
      /\ \A i \in 1..Len(r) + Len(o) :
            (r \o o)[i] = IF i <= Len(r) THEN r[i] ELSE o[i - Len(r)]
  BY ConcatProperties
<1>3. /\ Len(Tail(r) \o o) = Len(Tail(r)) + Len(o)
      /\ \A i \in 1..Len(Tail(r)) + Len(o) :
            (Tail(r) \o o)[i] = IF i <= Len(Tail(r)) THEN Tail(r)[i]
                                ELSE o[i - Len(Tail(r))]
  BY <1>1, ConcatProperties
<1>4. r \o o # <<>>
  BY <1>1, <1>2, EmptySeq
<1>5. (r \o o)[1] = Head(r)
  <2>1. (r \o o)[1] = r[1]
    BY <1>1, <1>2
  <2>2. Head(r) = r[1]
    OBVIOUS
  <2>3. QED
    BY <2>1, <2>2
<1>6. ASSUME NEW i \in 1..Len(Tail(r) \o o)
      PROVE  (Tail(r) \o o)[i] = (r \o o)[i + 1]
  <2>1. CASE i <= Len(Tail(r))
    BY <1>1, <1>2, <1>3, <2>1
  <2>2. CASE ~(i <= Len(Tail(r)))
    <3>1. i - (Len(r) - 1) = (i + 1) - Len(r)
      BY <1>1
    <3>2. QED
      BY <1>1, <1>2, <1>3, <2>2, <3>1
  <2>3. QED
    BY <2>1, <2>2
<1>7. QED
  BY <1>1, <1>2, <1>3, <1>4, <1>5, <1>6

LEMMA AddAtBack ==
  ASSUME NEW S, NEW r \in Seq(S), NEW o \in Seq(S), NEW e \in S
  PROVE  r \o Append(o, e) = Append(r \o o, e)
<1>1. /\ Append(o, e) = o \o <<e>>
      /\ r \o o \in Seq(S)
      /\ <<e>> \in Seq(S)
  BY AppendIsConcat, ConcatProperties
<1>2. Append(r \o o, e) = (r \o o) \o <<e>>
  BY <1>1, AppendIsConcat
<1>3. QED
  BY <1>1, <1>2, ConcatAssociative

-----------------------------------------------------------------------------
(* Shapes *)

Replies    == [to : Requests \cup {"eof"}, good : BOOLEAN]
HelperAts  == Working \cup {"none", "auth", "gone"}
Places     == {"new", "on", "sick"} \cup Calls \cup Ends

Shapes ==
    /\ RedirTypeOK
    /\ pc \in Places
    /\ failing \in BOOLEAN
    /\ helper \in [at : HelperAts, reply : Replies]
    /\ stdin \in [sent : Seq(Requests), open : BOOLEAN]
    /\ out \in Seq(Replies)
    /\ replies \in Seq(Replies)
    /\ rules \in BOOLEAN
    /\ happened \subseteq Faults

LEMMA ReplyShape ==
  /\ Eof \in Replies
  /\ \A op \in Requests, good \in BOOLEAN :
        Reply(op, good) \in Replies /\ Reply(op, good) # Eof
  /\ ~Eof.good
  BY DEF Eof, Reply, Replies, Requests

LEMMA EofShape ==
  ASSUME Shapes
  PROVE  Append(out, Eof) \in Seq(Replies)
  BY ReplyShape, AppendProperties DEF Shapes

\* What each step of _request does, whichever request it is for.
LEMMA FailsShape ==
  ASSUME Shapes, NEW op \in Requests, Fails(op)
  PROVE  /\ pc' \in {"down", "sick", "reap"}
         /\ failing' \in BOOLEAN
         /\ stdin' \in [sent : Seq(Requests), open : BOOLEAN]
         /\ stdin'.sent = stdin.sent
  BY DEF Fails, Failed, Requests, Shapes

LEMMA SendShape ==
  ASSUME Shapes, NEW op \in Requests, Send(op)
  PROVE  Shapes'
<1>1. UNCHANGED <<redirVars, helper, out, rules, replies, happened>>
  BY DEF Send
<1>2. CASE Fails(op)
  BY <1>1, <1>2, FailsShape DEF Shapes, RedirTypeOK, redirVars, Places, Calls
<1>3. CASE /\ stdin' = [stdin EXCEPT !.sent = Append(@, op)]
           /\ pc' = CASE op = "up" -> "up_wait" [] op = "check" -> "check_wait"
                      [] op = "down" -> "down_wait"
           /\ UNCHANGED failing
  <2>1. Append(stdin.sent, op) \in Seq(Requests)
    BY AppendProperties DEF Shapes
  <2>2. pc' \in Places
    BY <1>3 DEF Requests, Places, Calls, Waits
  <2>3. QED
    BY <1>1, <1>3, <2>1, <2>2 DEF Shapes, RedirTypeOK, redirVars
<1>4. QED
  BY <1>2, <1>3 DEF Send

LEMMA AwaitReplyShape ==
  ASSUME Shapes, NEW op \in Requests, AwaitReply(op)
  PROVE  Shapes'
<1>1. UNCHANGED <<redirVars, helper, out, rules, happened>>
  BY DEF AwaitReply
<1>2. replies' \in Seq(Replies)
  <2>1. replies # <<>> => Tail(replies) \in Seq(Replies)
    BY HeadTailProperties DEF Shapes
  <2>2. QED
    BY <2>1 DEF AwaitReply, Get, Shapes
<1>3. CASE Fails(op)
  BY <1>1, <1>2, <1>3, FailsShape DEF Shapes, RedirTypeOK, redirVars, Places, Calls
<1>4. CASE pc' = "on" /\ UNCHANGED <<failing, stdin>>
  BY <1>1, <1>2, <1>4 DEF Shapes, RedirTypeOK, redirVars, Places
<1>5. QED
  BY <1>3, <1>4 DEF AwaitReply, Get

LEMMA CallerShape ==
  ASSUME Shapes, Caller
  PROVE  Shapes'
<1>1. CASE CallUp \/ Started
  BY <1>1 DEF CallUp, Started, StartThread, Fault, Shapes, RedirTypeOK, ThreadStates,
     redirVars, procVars, Places, Calls, Waits, Ends
<1>2. CASE SpawnHelper \/ Kill
  <2>1. helper' \in [at : HelperAts, reply : Replies]
    BY <1>2 DEF SpawnHelper, Kill, Shapes, HelperAts
  <2>2. stdin' \in [sent : Seq(Requests), open : BOOLEAN]
    BY <1>2 DEF SpawnHelper, Kill, Shapes
  <2>3. out' \in Seq(Replies)
    BY <1>2, EofShape DEF SpawnHelper, Kill, Shapes
  <2>4. pc' \in Places /\ failing' \in BOOLEAN
    BY <1>2 DEF SpawnHelper, Kill, Shapes, Places, Calls, Waits, Ends
  <2>5. UNCHANGED <<redirVars, rules, replies, happened>>
    BY <1>2 DEF SpawnHelper, Kill
  <2>6. QED
    BY <2>1, <2>2, <2>3, <2>4, <2>5 DEF Shapes, RedirTypeOK, redirVars
<1>3. CASE CallHealth \/ CallDown \/ EnterDown \/ Reap
  BY <1>3 DEF CallHealth, CallDown, EnterDown, Reap, Shapes, RedirTypeOK, redirVars,
     procVars, Places, Calls, Waits
<1>4. CASE Release \/ Join
  BY <1>4 DEF Release, Join, AskToStop, ForgetLoop, Fault, Shapes, RedirTypeOK,
     procVars, Places, Calls, Ends
<1>5. QED
  BY <1>1, <1>2, <1>3, <1>4, SendShape, AwaitReplyShape DEF Caller

LEMMA HelperShape ==
  ASSUME Shapes, Authenticate \/ HelperStep \/ HelperLost
  PROVE  Shapes'
<1>1. UNCHANGED <<redirVars, pc, failing, replies>>
  BY DEF Authenticate, HelperStep, HelperLost, ReadLine, Handle, Answer, Exit, helperOnly
<1>2. CASE ReadLine
  <2>1. stdin.sent # <<>> => /\ Head(stdin.sent) \in Requests
                            /\ Tail(stdin.sent) \in Seq(Requests)
    BY HeadTailProperties DEF Shapes
  <2>2. QED
    BY <1>1, <1>2, <2>1 DEF ReadLine, Shapes, RedirTypeOK, redirVars, HelperAts, Working
<1>3. CASE Handle
  <2>1. /\ UNCHANGED <<stdin, out>>
        /\ happened' \subseteq Faults
        /\ \E op \in Requests, r, good \in BOOLEAN :
              rules' = r /\ helper' = [at |-> "answer", reply |-> Reply(op, good)]
    BY <1>3 DEF Handle, Fault, Requests, Shapes
  <2>2. helper' \in [at : HelperAts, reply : Replies] /\ rules' \in BOOLEAN
    BY <2>1, ReplyShape DEF HelperAts, Working
  <2>3. QED
    BY <1>1, <2>1, <2>2 DEF Shapes, RedirTypeOK, redirVars
<1>4. CASE Answer
  <2>1. helper.reply \in Replies
    BY DEF Shapes
  <2>2. out' \in Seq(Replies)
    BY <1>4, <2>1, AppendProperties DEF Answer, Shapes
  <2>3. QED
    BY <1>1, <1>4, <2>2 DEF Answer, Shapes, RedirTypeOK, redirVars, HelperAts, Working
<1>5. CASE Authenticate \/ Exit \/ HelperLost
  <2>1. out' \in Seq(Replies)
    BY <1>5, EofShape DEF Authenticate, Exit, HelperLost, Shapes
  <2>2. helper' \in [at : HelperAts, reply : Replies]
    BY <1>5 DEF Authenticate, Exit, HelperLost, Shapes, HelperAts, Working
  <2>3. rules' \in BOOLEAN /\ happened' \subseteq Faults /\ UNCHANGED stdin
    BY <1>5 DEF Authenticate, Exit, HelperLost, Fault, Shapes
  <2>4. QED
    BY <1>1, <2>1, <2>2, <2>3 DEF Shapes, RedirTypeOK, redirVars
<1>6. QED
  BY <1>2, <1>3, <1>4, <1>5 DEF HelperStep

LEMMA OtherShape ==
  ASSUME Shapes, Thread \/ Read \/ RulesVanish \/ Crash \/ UNCHANGED vars
  PROVE  Shapes'
<1>1. CASE Thread
  <2>1. UNCHANGED <<pc, failing, procVars, replies, happened>>
    BY <1>1 DEF Thread
  <2>2. listeners' \subseteq Listeners
    BY <1>1 DEF Thread, ThreadStep, MakeLoop, SetUp, LeaveLoop, Shutdown, Listeners,
       Shapes, RedirTypeOK
  <2>3. thread' \in ThreadStates /\ {loop', loopOpen', stopping'} \subseteq BOOLEAN
    BY <1>1 DEF Thread, ThreadStep, MakeLoop, SetUp, LeaveLoop, Shutdown, Shapes,
       RedirTypeOK, ThreadStates
  <2>4. QED
    BY <2>1, <2>2, <2>3 DEF Shapes, RedirTypeOK, procVars
<1>2. CASE Read
  <2>1. Head(out) \in Replies /\ Tail(out) \in Seq(Replies)
    BY <1>2, HeadTailProperties DEF Read, Shapes
  <2>2. Append(replies, Head(out)) \in Seq(Replies)
    BY <2>1, AppendProperties DEF Shapes
  <2>3. QED
    BY <1>2, <2>1, <2>2 DEF Read, Shapes, RedirTypeOK, redirVars
<1>3. CASE RulesVanish
  BY <1>3 DEF RulesVanish, Fault, helperOnly, Shapes, RedirTypeOK, redirVars
<1>4. CASE Crash
  BY <1>4 DEF Crash, Fault, ThreadLost, Shapes, RedirTypeOK, ThreadStates, Places, Ends
<1>5. CASE UNCHANGED vars
  BY <1>5 DEF vars, Shapes, RedirTypeOK, redirVars, procVars
<1>6. QED
  BY <1>1, <1>2, <1>3, <1>4, <1>5

LEMMA NextShape == Shapes /\ [Next]_vars => Shapes'
  BY CallerShape, HelperShape, OtherShape DEF Next

LEMMA InitShape == Init => Shapes
<1> SUFFICES ASSUME Init PROVE Shapes
  OBVIOUS
<1>1. /\ out \in Seq(Replies) /\ replies \in Seq(Replies)
      /\ stdin \in [sent : Seq(Requests), open : BOOLEAN]
  BY DEF Init
<1>2. helper \in [at : HelperAts, reply : Replies]
  BY ReplyShape DEF Init, HelperAts
<1>3. RedirTypeOK
  BY DEF Init, RedirInit, RedirTypeOK, ThreadStates
<1>4. QED
  BY <1>1, <1>2, <1>3 DEF Init, Shapes, Places

-----------------------------------------------------------------------------
(* Requests and replies *)

\* Every reply on its way to _request, oldest first.
Queue == replies \o out

\* Requests that have not been answered, or whose answer nobody has taken.
Answering(h)  == IF h.at \in Requests \cup {"answer"} THEN 1 ELSE 0
Answers(q, h) == IF h.at = "gone" /\ q # <<>> THEN Len(q) - 1 ELSE Len(q)
InFlight(sent, h, q) == Len(sent) + Answering(h) + Answers(q, h)

\* How many of them a call at p may be behind: none once it got its answer, one
\* after a request, two when down() asks although an answer is still missing.
Owed(p) == IF p \in {"new", "start", "spawn", "up_send", "on", "check_send"} THEN 0
           ELSE IF p \in {"up_wait", "check_wait", "sick", "down", "down_send"} THEN 1
           ELSE 2

\* The last line of a helper that is gone is the end of file, and no other is.
Marked(h, q) == \A i \in 1..Len(q) : q[i] = Eof <=> (h.at = "gone" /\ i = Len(q))

Pipeline ==
    /\ Marked(helper, Queue)
    /\ helper.at = "answer" => helper.reply # Eof
    /\ InFlight(stdin.sent, helper, Queue) <= Owed(pc)

LEMMA QueueType ==
  ASSUME Shapes
  PROVE  Queue \in Seq(Replies) /\ Len(Queue) \in Nat
         /\ Len(Queue) = Len(replies) + Len(out)
         /\ (Queue # <<>> => Len(Queue) # 0)
  BY ConcatProperties, LenProperties, EmptySeq DEF Shapes, Queue

LEMMA SentType ==
  ASSUME Shapes
  PROVE  Len(stdin.sent) \in Nat
  BY LenProperties DEF Shapes

LEMMA CountType ==
  ASSUME Shapes
  PROVE  /\ Answers(Queue, helper) \in Nat
         /\ Answering(helper) \in {0, 1}
         /\ InFlight(stdin.sent, helper, Queue) \in Nat
<1>1. Answers(Queue, helper) \in Nat
  BY QueueType DEF Answers
<1>2. Answering(helper) \in {0, 1}
  BY DEF Answering
<1>3. QED
  BY <1>1, <1>2, SentType DEF InFlight

\* A step that touches neither pipe nor queue, and is not behind by less.
LEMMA SamePipeline ==
  ASSUME Shapes, Pipeline, stdin'.sent = stdin.sent, UNCHANGED <<helper, Queue>>,
         Owed(pc) <= Owed(pc')
  PROVE  Pipeline'
<1>1. InFlight(stdin'.sent, helper', Queue') = InFlight(stdin.sent, helper, Queue)
  OBVIOUS
<1>2. Owed(pc) \in Nat /\ Owed(pc') \in Nat
  BY DEF Owed
<1>3. InFlight(stdin'.sent, helper', Queue') <= Owed(pc')
  BY <1>1, <1>2, CountType DEF Pipeline
<1>4. QED
  BY <1>3 DEF Pipeline

LEMMA QuietPipeline ==
  ASSUME Shapes, Pipeline,
         \/ CallUp \/ Started \/ CallHealth \/ CallDown \/ EnterDown \/ Reap \/ Release
         \/ Join \/ Thread \/ RulesVanish \/ Crash \/ UNCHANGED vars
  PROVE  Pipeline'
<1>1. /\ stdin'.sent = stdin.sent
      /\ UNCHANGED <<helper, out, replies>>
  BY DEF CallUp, Started, CallHealth, CallDown, EnterDown, Reap, Release, Join, Thread,
     RulesVanish, Crash, vars, procVars, helperOnly, Shapes
<1>2. UNCHANGED Queue
  BY <1>1 DEF Queue
<1>3. Owed(pc) <= Owed(pc')
  BY DEF CallUp, Started, CallHealth, CallDown, EnterDown, Reap, Release, Join, Thread,
     RulesVanish, Crash, vars, procVars, helperOnly, Owed
<1>4. QED
  BY <1>1, <1>2, <1>3, SamePipeline

LEMMA ReadPipeline ==
  ASSUME Shapes, Pipeline, Read
  PROVE  Pipeline'
<1>1. UNCHANGED Queue
  BY ReadKeepsOrder DEF Read, Shapes, Queue
<1>2. QED
  BY <1>1, SamePipeline DEF Read, Owed

\* A request adds one to those in flight.
LEMMA SendPipeline ==
  ASSUME Shapes, Pipeline, NEW op \in Requests, Send(op)
  PROVE  Pipeline'
<1>1. UNCHANGED <<helper, Queue>>
  BY DEF Send, Queue
<1>2. CASE Fails(op)
  BY <1>1, <1>2, FailsShape, SamePipeline DEF Send, Fails, Failed, Owed, Requests
<1>3. CASE /\ stdin' = [stdin EXCEPT !.sent = Append(@, op)]
           /\ pc' = CASE op = "up" -> "up_wait" [] op = "check" -> "check_wait"
                      [] op = "down" -> "down_wait"
  <2>1. Len(stdin'.sent) = Len(stdin.sent) + 1
    BY <1>3, AppendProperties DEF Shapes
  <2>2. Owed(pc') = Owed(pc) + 1 /\ Owed(pc) \in Nat
    BY <1>3 DEF Send, Owed, Requests
  <2>3. InFlight(stdin'.sent, helper, Queue) = InFlight(stdin.sent, helper, Queue) + 1
    BY <2>1, SentType, CountType DEF InFlight
  <2>4. InFlight(stdin.sent, helper, Queue) <= Owed(pc)
    BY DEF Pipeline
  <2>5. InFlight(stdin'.sent, helper, Queue) <= Owed(pc')
    BY <2>2, <2>3, <2>4, CountType
  <2>6. InFlight(stdin'.sent, helper', Queue') <= Owed(pc')
    BY <1>1, <2>5
  <2>7. Marked(helper', Queue') /\ (helper'.at = "answer" => helper'.reply # Eof)
    BY <1>1 DEF Pipeline
  <2>8. QED
    BY <2>6, <2>7 DEF Pipeline
<1>4. QED
  BY <1>2, <1>3 DEF Send

\* A reply taken is one less in flight, unless it was the end of file.
LEMMA TakePipeline ==
  ASSUME Shapes, Marked(helper, Queue), replies # <<>>, replies' = Tail(replies),
         UNCHANGED <<helper, out>>
  PROVE  /\ Marked(helper', Queue')
         /\ Answers(Queue', helper') <= Answers(Queue, helper)
         /\ Answers(Queue', helper') \in Nat
         /\ Head(replies) # Eof => Answers(Queue', helper') = Answers(Queue, helper) - 1
<1>1. /\ Queue \in Seq(Replies) /\ Queue # <<>>
      /\ Len(Queue') = Len(Queue) - 1
      /\ Queue[1] = Head(replies)
      /\ \A i \in 1..Len(Queue') : Queue'[i] = Queue[i + 1]
  BY TakeFromFront DEF Shapes, Queue
<1>2. Queue' \in Seq(Replies)
  BY HeadTailProperties, ConcatProperties DEF Shapes, Queue
<1>3. Len(Queue) \in Nat \ {0} /\ Len(Queue') \in Nat
  BY <1>1, <1>2, EmptySeq, LenProperties
<1>4. Queue' = <<>> <=> Len(Queue') = 0
  BY <1>2, EmptySeq
<1>5. Marked(helper', Queue')
  BY <1>1, <1>3 DEF Marked
<1>6. Head(replies) = Eof <=> (helper.at = "gone" /\ Len(Queue) = 1)
  BY <1>1, <1>3 DEF Marked
<1>7. QED
  BY <1>1, <1>3, <1>4, <1>5, <1>6 DEF Answers

LEMMA AwaitReplyPipeline ==
  ASSUME Shapes, Pipeline, NEW op \in Requests, AwaitReply(op)
  PROVE  Pipeline'
<1>1. UNCHANGED <<helper, out>>
  BY DEF AwaitReply
<1>2. CASE UNCHANGED replies /\ Fails(op)
  <2>1. UNCHANGED Queue
    BY <1>1, <1>2 DEF Queue
  <2>2. QED
    BY <1>1, <1>2, <2>1, FailsShape, SamePipeline
       DEF AwaitReply, Fails, Failed, Owed, Requests
<1>3. CASE Get(op)
  <2>1. /\ replies # <<>> /\ replies' = Tail(replies)
        /\ Marked(helper', Queue')
        /\ Answers(Queue', helper') <= Answers(Queue, helper)
        /\ Answers(Queue', helper') \in Nat
        /\ Head(replies) # Eof => Answers(Queue', helper') = Answers(Queue, helper) - 1
    BY <1>1, <1>3, TakePipeline DEF Get, Pipeline
  <2>2. stdin'.sent = stdin.sent
    BY <1>3, FailsShape DEF Get
  <2>3. helper'.at = "answer" => helper'.reply # Eof
    BY <1>1 DEF Pipeline
  <2>4. InFlight(stdin.sent, helper, Queue) <= Owed(pc)
    BY DEF Pipeline
  <2>5. InFlight(stdin'.sent, helper', Queue') <= Owed(pc')
    <3>1. CASE op \in {"up", "check"} /\ Head(replies).good
      <4>1. Head(replies) # Eof
        BY <3>1, ReplyShape
      <4>2. Owed(pc) = 1 /\ Owed(pc') = 0
        BY <1>3, <3>1 DEF AwaitReply, Get, Owed
      <4>3. Answers(Queue', helper') = Answers(Queue, helper) - 1
        BY <2>1, <4>1
      <4>4. Answering(helper') = Answering(helper)
        BY <1>1
      <4>5. QED
        BY <2>1, <2>2, <2>4, <4>2, <4>3, <4>4, SentType, CountType DEF InFlight
    <3>2. CASE Fails(op)
      <4>1. Owed(pc') = Owed(pc) /\ Owed(pc) \in Nat
        BY <3>2 DEF AwaitReply, Fails, Failed, Owed, Requests
      <4>2. Answering(helper') = Answering(helper)
        BY <1>1
      <4>3. QED
        BY <2>1, <2>2, <2>4, <4>1, <4>2, SentType, CountType DEF InFlight
    <3>3. QED
      BY <1>3, <3>1, <3>2 DEF Get
  <2>6. QED
    BY <2>1, <2>3, <2>5 DEF Pipeline
<1>4. QED
  BY <1>2, <1>3 DEF AwaitReply

\* Before _spawn_helper there is no helper.
Unspawned == pc \in {"new", "start", "spawn"} => helper.at = "none"

LEMMA NextUnspawned == Shapes /\ Unspawned /\ [Next]_vars => Unspawned'
<1> SUFFICES ASSUME Shapes, Unspawned, [Next]_vars PROVE Unspawned'
  OBVIOUS
<1>1. CASE \E op \in Requests : Send(op) \/ AwaitReply(op)
  BY <1>1, FailsShape DEF Send, AwaitReply, Get, Requests, Unspawned
<1>2. CASE \/ CallUp \/ Started \/ SpawnHelper \/ CallHealth \/ CallDown \/ EnterDown
           \/ Reap \/ Kill \/ Release \/ Join
  BY <1>2 DEF CallUp, Started, SpawnHelper, CallHealth, CallDown, EnterDown, Reap, Kill,
     Release, Join, procVars, Unspawned
<1>3. CASE Thread \/ Read \/ RulesVanish \/ Crash \/ UNCHANGED vars
  BY <1>3 DEF Thread, Read, RulesVanish, Crash, vars, procVars, helperOnly, Unspawned
<1>4. CASE Authenticate \/ HelperStep \/ HelperLost
  BY <1>4 DEF Authenticate, HelperStep, HelperLost, ReadLine, Handle, Answer, Exit,
     helperOnly, Working, Requests, Unspawned
<1>5. QED
  BY <1>1, <1>2, <1>3, <1>4 DEF Next, Caller

\* One more line in the pipe.
LEMMA WritePipe ==
  ASSUME Shapes, NEW e \in Replies, out' = Append(out, e), UNCHANGED replies
  PROVE  /\ Queue' # <<>>
         /\ Len(Queue') = Len(Queue) + 1
         /\ \A i \in 1..Len(Queue) : Queue'[i] = Queue[i]
         /\ Queue'[Len(Queue) + 1] = e
<1>1. Queue' = Append(Queue, e)
  BY AddAtBack DEF Shapes, Queue
<1>2. QED
  BY <1>1, QueueType, AppendProperties

\* The helper goes, and the reader thread finds the end of file after its replies.
LEMMA GonePipeline ==
  ASSUME Shapes, Pipeline, helper.at \notin {"gone", "none"}, helper'.at = "gone",
         out' = Append(out, Eof), UNCHANGED <<replies, stdin>>, Owed(pc) <= Owed(pc')
  PROVE  Pipeline'
<1>1. /\ Queue' # <<>>
      /\ Len(Queue') = Len(Queue) + 1
      /\ \A i \in 1..Len(Queue) : Queue'[i] = Queue[i]
      /\ Queue'[Len(Queue) + 1] = Eof
  BY WritePipe, ReplyShape
<1>2. Len(Queue) \in Nat
  BY QueueType
<1>3. Marked(helper', Queue')
  BY <1>1, <1>2 DEF Pipeline, Marked
<1>4. InFlight(stdin'.sent, helper', Queue') <= InFlight(stdin.sent, helper, Queue)
  <2>1. Answers(Queue', helper') = Len(Queue) /\ Answers(Queue, helper) = Len(Queue)
    BY <1>1, <1>2 DEF Answers
  <2>2. Answering(helper') = 0
    BY DEF Answering, Requests
  <2>3. QED
    BY <1>2, <2>1, <2>2, SentType, CountType DEF InFlight
<1>5. InFlight(stdin'.sent, helper', Queue') \in Nat
  <2>1. Answers(Queue', helper') = Len(Queue) /\ Answering(helper') = 0
    BY <1>1, <1>2 DEF Answers, Answering, Requests
  <2>2. QED
    BY <1>2, <2>1, SentType DEF InFlight
<1>6. Owed(pc) \in Nat /\ Owed(pc') \in Nat
  BY DEF Owed
<1>7. QED
  BY <1>3, <1>4, <1>5, <1>6, CountType DEF Pipeline

\* The helper goes on with what it read, or waits for more.
LEMMA BusyPipeline ==
  ASSUME Shapes, Pipeline, helper.at # "gone", helper'.at # "gone", UNCHANGED <<Queue, pc>>,
         Len(stdin'.sent) \in Nat,
         Len(stdin'.sent) + Answering(helper') <= Len(stdin.sent) + Answering(helper),
         helper'.at = "answer" => helper'.reply # Eof
  PROVE  Pipeline'
<1>1. Marked(helper', Queue')
  BY DEF Pipeline, Marked
<1>2. Answers(Queue', helper') = Answers(Queue, helper)
  BY DEF Answers
<1>3. Answering(helper') \in {0, 1}
  BY DEF Answering
<1>4. Owed(pc) \in Nat
  BY DEF Owed
<1>5. InFlight(stdin'.sent, helper', Queue') <= Owed(pc)
  BY <1>2, <1>3, <1>4, SentType, CountType DEF Pipeline, InFlight
<1>6. QED
  BY <1>1, <1>5 DEF Pipeline

LEMMA HelperPipeline ==
  ASSUME Shapes, Pipeline, Authenticate \/ HelperStep \/ HelperLost
  PROVE  Pipeline'
<1>1. UNCHANGED <<pc, replies>>
  BY DEF Authenticate, HelperStep, HelperLost, ReadLine, Handle, Answer, Exit, helperOnly
<1>2. CASE Authenticate
  <2>1. CASE helper' = [helper EXCEPT !.at = "idle"] /\ UNCHANGED out
    <3>1. helper'.at = "idle" /\ UNCHANGED <<Queue, stdin>>
      BY <1>1, <1>2, <2>1 DEF Authenticate, Shapes, Queue
    <3>2. Answering(helper') = 0 /\ Answering(helper) = 0
      BY <1>2, <3>1 DEF Authenticate, Answering, Requests
    <3>3. QED
      BY <1>1, <1>2, <3>1, <3>2, BusyPipeline, SentType DEF Authenticate
  <2>2. CASE helper' = [helper EXCEPT !.at = "gone"] /\ out' = Append(out, Eof)
    BY <1>1, <1>2, <2>2, GonePipeline DEF Authenticate, Shapes, Owed
  <2>3. QED
    BY <1>2, <2>1, <2>2 DEF Authenticate
<1>3. CASE ReadLine
  <2>1. UNCHANGED Queue /\ helper.at = "idle"
    BY <1>1, <1>3 DEF ReadLine, Queue
  <2>2. CASE stdin.sent # <<>>
    <3>1. /\ Head(stdin.sent) \in Requests
          /\ Len(Tail(stdin.sent)) = Len(stdin.sent) - 1
          /\ Len(Tail(stdin.sent)) \in Nat
      BY <2>2, HeadTailProperties, LenProperties DEF Shapes
    <3>2. helper'.at \in Requests /\ stdin'.sent = Tail(stdin.sent)
      BY <1>3, <2>2, <3>1 DEF ReadLine, Shapes
    <3>3. Answering(helper') = 1 /\ Answering(helper) = 0
      BY <2>1, <3>2 DEF Answering, Requests
    <3>4. QED
      BY <1>1, <2>1, <3>1, <3>2, <3>3, BusyPipeline, SentType DEF Requests
  <2>3. CASE stdin.sent = <<>>
    <3>1. helper'.at = "exit" /\ UNCHANGED stdin
      BY <1>3, <2>3 DEF ReadLine, Shapes
    <3>2. Answering(helper') = 0 /\ Answering(helper) = 0
      BY <2>1, <3>1 DEF Answering, Requests
    <3>3. QED
      BY <1>1, <2>1, <3>1, <3>2, BusyPipeline, SentType
  <2>4. QED
    BY <2>2, <2>3
<1>4. CASE Handle
  <2>0. /\ UNCHANGED <<stdin, out>>
        /\ \E op \in Requests, good \in BOOLEAN :
              /\ helper.at = op
              /\ helper' = [at |-> "answer", reply |-> Reply(op, good)]
    BY <1>4 DEF Handle, Requests, Shapes
  <2>1. /\ helper.at \in Requests
        /\ helper'.at = "answer"
        /\ helper'.reply # Eof
        /\ UNCHANGED <<stdin, out>>
    BY <2>0, ReplyShape
  <2>2. Answering(helper') = 1 /\ Answering(helper) = 1
    BY <2>1 DEF Answering, Requests
  <2>3. UNCHANGED Queue
    BY <1>1, <2>1 DEF Queue
  <2>4. QED
    BY <1>1, <2>1, <2>2, <2>3, BusyPipeline, SentType DEF Requests
<1>5. CASE Answer /\ pc = "crashed"
  <2>1. helper.at = "answer" /\ helper'.at = "exit" /\ UNCHANGED <<stdin, Queue>>
    BY <1>1, <1>5 DEF Answer, Shapes, Queue
  <2>2. Answering(helper') = 0 /\ Answering(helper) = 1
    BY <2>1 DEF Answering, Requests
  <2>3. QED
    BY <1>1, <2>1, <2>2, BusyPipeline, SentType
<1>6. CASE Answer /\ pc # "crashed"
  <2>1. /\ helper.at = "answer" /\ helper'.at = "idle" /\ UNCHANGED stdin
        /\ out' = Append(out, helper.reply)
        /\ helper.reply \in Replies /\ helper.reply # Eof
    BY <1>6 DEF Answer, Shapes, Pipeline
  <2>2. /\ Queue' # <<>>
        /\ Len(Queue') = Len(Queue) + 1
        /\ \A i \in 1..Len(Queue) : Queue'[i] = Queue[i]
        /\ Queue'[Len(Queue) + 1] = helper.reply
    BY <1>1, <2>1, WritePipe
  <2>3. Marked(helper', Queue')
    BY <2>1, <2>2, QueueType DEF Pipeline, Marked
  <2>4. /\ Answers(Queue', helper') = Answers(Queue, helper) + 1
        /\ Answering(helper') = 0 /\ Answering(helper) = 1
    BY <2>1, <2>2 DEF Answers, Answering, Requests
  <2>5. Owed(pc) \in Nat
    BY DEF Owed
  <2>6. InFlight(stdin'.sent, helper', Queue') <= Owed(pc')
    BY <1>1, <2>1, <2>4, <2>5, SentType, CountType DEF Pipeline, InFlight
  <2>7. QED
    BY <2>1, <2>3, <2>6 DEF Pipeline
<1>7. CASE Exit \/ HelperLost
  <2>1. /\ helper.at \notin {"gone", "none"}
        /\ helper'.at = "gone"
        /\ out' = Append(out, Eof)
        /\ UNCHANGED stdin
    BY <1>7 DEF Exit, HelperLost, Working, Requests, Shapes
  <2>2. QED
    BY <1>1, <2>1, GonePipeline DEF Owed
<1>8. QED
  BY <1>2, <1>3, <1>4, <1>5, <1>6, <1>7 DEF HelperStep

LEMMA SpawnPipeline ==
  ASSUME Shapes, Pipeline, Unspawned, SpawnHelper
  PROVE  Pipeline'
<1>1. helper.at = "none" /\ UNCHANGED Queue /\ Owed(pc) = 0
  BY DEF SpawnHelper, Unspawned, Queue, Owed
<1>2. stdin'.sent = stdin.sent /\ (helper' = helper \/ helper'.at = "auth")
  BY DEF SpawnHelper, Shapes
<1>3. Marked(helper', Queue') /\ (helper'.at = "answer" => helper'.reply # Eof)
  BY <1>1, <1>2 DEF Pipeline, Marked
<1>4. /\ Answers(Queue', helper') = Answers(Queue, helper)
      /\ Answering(helper') = Answering(helper)
  BY <1>1, <1>2 DEF Answers, Answering, Requests
<1>5. InFlight(stdin'.sent, helper', Queue') <= 0
  BY <1>1, <1>2, <1>4 DEF Pipeline, InFlight
<1>6. Owed(pc') \in {0, 1}
  BY DEF SpawnHelper, Owed
<1>7. InFlight(stdin'.sent, helper', Queue') <= Owed(pc')
  <2>1. InFlight(stdin'.sent, helper', Queue') = InFlight(stdin.sent, helper, Queue)
    BY <1>2, <1>4 DEF InFlight
  <2>2. QED
    BY <1>5, <1>6, <2>1, CountType
<1>8. QED
  BY <1>3, <1>7 DEF Pipeline

LEMMA KillPipeline ==
  ASSUME Shapes, Pipeline, Kill
  PROVE  Pipeline'
<1>1. UNCHANGED <<stdin, replies>> /\ Owed(pc) = 2 /\ Owed(pc') = 2
  BY DEF Kill, Owed
<1>2. CASE UNCHANGED <<helper, out>>
  BY <1>1, <1>2, SamePipeline DEF Queue
<1>3. CASE helper.at = "auth" /\ helper' = [helper EXCEPT !.at = "gone"]
           /\ out' = Append(out, Eof)
  BY <1>1, <1>3, GonePipeline DEF Shapes
<1>4. QED
  BY <1>2, <1>3 DEF Kill

LEMMA NextPipeline ==
  ASSUME Shapes, Unspawned, Pipeline, [Next]_vars
  PROVE  Pipeline'
  BY QuietPipeline, ReadPipeline, SendPipeline, AwaitReplyPipeline, HelperPipeline,
     SpawnPipeline, KillPipeline DEF Next, Caller

-----------------------------------------------------------------------------
(* The redirector's thread, and the rules *)

\* Between a start() that returned and the loop.stop() of stop() the thread serves.
Backed == {"spawn", "up_send", "up_wait", "on", "check_send", "check_wait", "sick", "down",
           "down_send", "down_wait", "reap", "kill", "escaped", "release"}

Serves ==
    /\ thread \in {"none", "starting"} => listeners = {}
    /\ thread \in {"serving", "shutdown"} => listeners = Listeners
    /\ thread = "ended" => listeners \subseteq {"udp"}
    /\ pc \in Backed => thread = "serving" /\ ~stopping /\ loop

\* What is left of the loop: attribute and loop go together until the join.
Looped ==
    /\ pc = "new" => thread = "none"
    /\ pc \in {"new", "start"} => ~stopping
    /\ pc = "start" => thread \in {"starting", "setup", "serving", "failed"}
    /\ pc = "start" /\ thread \in {"setup", "serving"} => loop
    /\ pc = "join" => loop /\ thread \in {"serving", "shutdown", "ended"}
    /\ pc = "join" /\ thread = "ended" => ~loopOpen
    /\ thread \in {"none", "starting"} => ~loopOpen
    /\ pc \in {"done", "raised"} /\ "slow" \notin happened =>
          ~AliveThread /\ (loopOpen => thread = "failed")

\* No helper is started before the redirector serves.  The chains go with the helper
\* that made them, unless that was killed, and the calls that go on to stop the
\* redirector have seen the helper go.
Chained ==
    /\ thread \in {"none", "starting", "setup", "failed"} => helper.at = "none"
    /\ helper.at \in {"none", "auth"} => ~rules
    /\ helper.at = "gone" /\ rules => "lost" \in happened
    /\ pc \in {"release", "join", "done", "raised"} => Gone

RoutingInv ==
    /\ Shapes
    /\ Unspawned
    /\ Pipeline
    /\ Serves
    /\ Looped
    /\ Chained

LEMMA InitRoutingInv == Init => RoutingInv
<1> SUFFICES ASSUME Init PROVE RoutingInv
  OBVIOUS
<1>1. Shapes
  BY InitShape
<1>2. Unspawned /\ Serves /\ Looped /\ Chained
  BY DEF Init, RedirInit, Unspawned, Serves, Backed, Looped, Chained, Listeners
<1>3. /\ Queue = <<>> /\ Len(Queue) = 0 /\ Len(stdin.sent) = 0
      /\ helper.at = "none"
  <2>1. Queue = <<>>
    BY ConcatEmptySeq DEF Init, Queue
  <2>2. QED
    BY <2>1, EmptySeq DEF Init
<1>4. Pipeline
  <2>1. Marked(helper, Queue)
    BY <1>3 DEF Marked
  <2>2. InFlight(stdin.sent, helper, Queue) = 0
    BY <1>3 DEF InFlight, Answering, Answers, Requests
  <2>3. Owed(pc) = 0
    BY DEF Init, Owed
  <2>4. QED
    BY <1>3, <2>1, <2>2, <2>3 DEF Pipeline
<1>5. QED
  BY <1>1, <1>2, <1>4 DEF RoutingInv

LEMMA RequestServes ==
  ASSUME RoutingInv, NEW op \in Requests, Send(op) \/ AwaitReply(op)
  PROVE  Serves' /\ Looped' /\ Chained'
<1>1. UNCHANGED <<redirVars, helper, rules, happened>>
  BY DEF Send, AwaitReply
<1>2. pc \in Backed
  BY DEF Send, AwaitReply, Requests, Backed
<1>3. pc' \in Backed \ {"release"}
  BY FailsShape DEF Send, AwaitReply, Get, Requests, Backed, RoutingInv
<1>4. QED
  BY <1>1, <1>2, <1>3
     DEF RoutingInv, Serves, Looped, Chained, Backed, redirVars, AliveThread

LEMMA CallerServes ==
  ASSUME RoutingInv, Caller
  PROVE  Serves' /\ Looped' /\ Chained'
<1>1. CASE CallUp
  BY <1>1 DEF CallUp, StartThread, procVars, redirVars, RoutingInv, Unspawned,
     Serves, Looped, Chained, Backed, AliveThread, Gone
<1>2. CASE Started
  BY <1>2 DEF Started, Ready, Fault, procVars, redirVars, RoutingInv, Unspawned,
     Serves, Looped, Chained, Backed, AliveThread, Gone
<1>3. CASE SpawnHelper
  BY <1>3 DEF SpawnHelper, procVars, redirVars, RoutingInv, Unspawned, Shapes,
     Serves, Looped, Chained, Backed, AliveThread, Gone
<1>4. CASE CallHealth \/ CallDown \/ Reap
  BY <1>4 DEF CallHealth, CallDown, Reap, procVars, redirVars, RoutingInv,
     Serves, Looped, Chained, Backed, AliveThread, Gone
<1>5. CASE EnterDown
  BY <1>5 DEF EnterDown, procVars, redirVars, RoutingInv, Shapes, HelperAts, Running,
     Serves, Looped, Chained, Backed, AliveThread, Gone
<1>6. CASE Kill
  BY <1>6 DEF Kill, procVars, redirVars, RoutingInv, Shapes,
     Serves, Looped, Chained, Backed, AliveThread, Gone
<1>7. CASE Release
  BY <1>7 DEF Release, AskToStop, procVars, RoutingInv,
     Serves, Looped, Chained, Backed, AliveThread, Gone
<1>8. CASE Join
  BY <1>8 DEF Join, ForgetLoop, Fault, procVars, RoutingInv, Shapes, RedirTypeOK,
     ThreadStates, Serves, Looped, Chained, Backed, AliveThread, Gone
<1>9. QED
  BY <1>1, <1>2, <1>3, <1>4, <1>5, <1>6, <1>7, <1>8, RequestServes DEF Caller

LEMMA ThreadServes ==
  ASSUME RoutingInv, Thread
  PROVE  Serves' /\ Looped' /\ Chained'
<1>1. UNCHANGED <<pc, helper, rules, happened>> /\ Chained'
  BY DEF Thread, ThreadStep, MakeLoop, SetUp, LeaveLoop, Shutdown, procVars, RoutingInv,
     Chained, Gone
<1>2. CASE MakeLoop
  BY <1>1, <1>2 DEF MakeLoop, RoutingInv, Serves, Looped, Backed, AliveThread
<1>3. CASE SetUp
  BY <1>1, <1>3 DEF SetUp, RoutingInv, Serves, Looped, Backed, AliveThread
<1>4. CASE LeaveLoop
  BY <1>1, <1>4 DEF LeaveLoop, RoutingInv, Serves, Looped, Backed, AliveThread
<1>5. CASE Shutdown
  BY <1>1, <1>5 DEF Shutdown, RoutingInv, Serves, Looped, Backed, AliveThread
<1>6. QED
  BY <1>2, <1>3, <1>4, <1>5 DEF Thread, ThreadStep

LEMMA HelperServes ==
  ASSUME RoutingInv, Authenticate \/ HelperStep \/ HelperLost \/ RulesVanish
  PROVE  Serves' /\ Looped' /\ Chained'
<1>1. UNCHANGED <<redirVars, pc>> /\ happened \subseteq happened'
  BY DEF Authenticate, HelperStep, HelperLost, RulesVanish, ReadLine, Handle, Answer, Exit,
     Fault, helperOnly
<1>2. Serves' /\ Looped'
  BY <1>1 DEF RoutingInv, Serves, Looped, redirVars, AliveThread
<1>3. /\ helper.at \in {"none", "auth"} => ~rules
      /\ helper.at = "gone" /\ rules => "lost" \in happened
      /\ pc \in {"release", "join", "done", "raised"} => helper.at \in {"none", "gone"}
  BY DEF RoutingInv, Chained, Gone
<1>4. /\ helper'.at \in {"none", "auth"} => ~rules'
      /\ helper'.at = "gone" /\ rules' => "lost" \in happened'
      /\ helper.at \in {"none", "gone"} => helper'.at = helper.at
  <2>1. CASE Authenticate
    BY <1>3, <2>1 DEF Authenticate, RoutingInv, Shapes
  <2>2. CASE HelperLost
    BY <1>3, <2>2 DEF HelperLost, Fault, RoutingInv, Shapes, Working, Requests
  <2>3. CASE RulesVanish
    BY <1>1, <1>3, <2>3 DEF RulesVanish
  <2>4. CASE ReadLine
    <3>1. stdin.sent # <<>> => Head(stdin.sent) \in Requests
      BY HeadTailProperties DEF RoutingInv, Shapes
    <3>2. helper'.at \in Requests \cup {"exit"} /\ helper.at = "idle"
      BY <2>4, <3>1 DEF ReadLine, RoutingInv, Shapes
    <3>3. QED
      BY <3>2 DEF Requests
  <2>5. CASE Handle
    <3>1. \E op \in Requests, good \in BOOLEAN :
             helper.at = op /\ helper' = [at |-> "answer", reply |-> Reply(op, good)]
      BY <2>5 DEF Handle, Requests, RoutingInv, Shapes
    <3>2. helper'.at = "answer" /\ helper.at \in Requests
      BY <3>1
    <3>3. QED
      BY <3>2 DEF Requests
  <2>6. CASE Answer
    BY <2>6 DEF Answer, RoutingInv, Shapes
  <2>7. CASE Exit
    BY <2>7 DEF Exit, RoutingInv, Shapes
  <2>8. QED
    BY <2>1, <2>2, <2>3, <2>4, <2>5, <2>6, <2>7 DEF HelperStep
<1>5. QED
  BY <1>1, <1>2, <1>3, <1>4 DEF RoutingInv, Chained, Gone, redirVars

LEMMA OtherServes ==
  ASSUME RoutingInv, Read \/ Crash \/ UNCHANGED vars
  PROVE  Serves' /\ Looped' /\ Chained'
<1>1. CASE Read \/ UNCHANGED vars
  BY <1>1 DEF Read, vars, procVars, redirVars, RoutingInv, Serves, Looped, Chained,
     AliveThread, Gone
<1>2. CASE Crash
  BY <1>2 DEF Crash, Fault, ThreadLost, RoutingInv, Serves, Looped, Chained, Backed,
     AliveThread, Gone, Ends
<1>3. QED
  BY <1>1, <1>2

LEMMA RoutingInvHolds == Spec => []RoutingInv
<1>1. RoutingInv /\ [Next]_vars => RoutingInv'
  <2> SUFFICES ASSUME RoutingInv, [Next]_vars PROVE RoutingInv'
    OBVIOUS
  <2>1. Shapes'
    BY NextShape DEF RoutingInv
  <2>2. Unspawned'
    BY NextUnspawned DEF RoutingInv
  <2>3. Pipeline'
    BY NextPipeline DEF RoutingInv
  <2>4. Serves' /\ Looped' /\ Chained'
    BY CallerServes, ThreadServes, HelperServes, OtherServes DEF Next
  <2>5. QED
    BY <2>1, <2>2, <2>3, <2>4 DEF RoutingInv
<1>2. QED
  BY InitRoutingInv, <1>1, PTL DEF Spec

-----------------------------------------------------------------------------
(* The properties *)

LEMMA RepliesInRange ==
  ASSUME NEW S, NEW s \in Seq(S)
  PROVE  Range(s) \subseteq S /\ \A r \in Range(s) : \E i \in 1..Len(s) : r = s[i]
<1>1. DOMAIN s = 1..Len(s) /\ \A i \in 1..Len(s) : s[i] \in S
  BY ElementOfSeq, LenProperties
<1>2. QED
  BY <1>1 DEF Range

\* Every process keeps to its program points, every message to its form, and at most
\* three lines are ever on their way from netguard to _request, two requests to it.
THEOREM RoutingTypeCorrect == Spec => []TypeOK
<1>1. RoutingInv => TypeOK
  <2> SUFFICES ASSUME RoutingInv PROVE TypeOK
    OBVIOUS
  <2>1. Shapes
    BY DEF RoutingInv
  <2>2. \A r \in Range(out) \cup Range(replies) \cup {helper.reply} : r \in Replies
    BY <2>1, RepliesInRange DEF Shapes
  <2>3. Range(stdin.sent) \subseteq Requests
    <3>1. stdin.sent \in Seq(Requests)
      BY <2>1 DEF Shapes
    <3>2. QED
      BY <3>1, RepliesInRange
  <2>4. Len(stdin.sent) <= 2 /\ Len(out) + Len(replies) <= 3
    <3>1. /\ InFlight(stdin.sent, helper, Queue) <= Owed(pc) /\ Owed(pc) \in 0..2
      BY DEF RoutingInv, Pipeline, Owed
    <3>2. /\ Len(stdin.sent) \in Nat /\ Len(out) \in Nat /\ Len(replies) \in Nat
          /\ Len(Queue) = Len(replies) + Len(out)
      BY <2>1, SentType, QueueType, LenProperties DEF Shapes
    <3>3. Len(Queue) <= Answers(Queue, helper) + 1
      BY <3>2 DEF Answers
    <3>4. QED
      BY <2>1, <3>1, <3>2, <3>3, CountType DEF InFlight
  <2>5. QED
    BY <2>1, <2>2, <2>3, <2>4 DEF TypeOK, Shapes, Replies, HelperAts, Places
<1>2. QED
  BY RoutingInvHolds, <1>1, PTL

\* health() asks only when no earlier request is on its way, at work or answered
\* without its answer being taken: the next reply is the one to its own check, even
\* after up() or a check that went wrong.
THEOREM RepliesStayInStep == Spec => []InStep
<1>1. RoutingInv => InStep
  <2> SUFFICES ASSUME RoutingInv, pc \in {"on", "check_send"}
               PROVE  /\ stdin.sent = <<>>
                      /\ helper.at \notin Requests \cup {"answer"}
                      /\ Range(out) \cup Range(replies) \subseteq {Eof}
    BY DEF InStep
  <2>1. Shapes
    BY DEF RoutingInv
  <2>2. InFlight(stdin.sent, helper, Queue) <= 0
    BY DEF RoutingInv, Pipeline, Owed
  <2>3. Len(stdin.sent) = 0 /\ Answering(helper) = 0 /\ Answers(Queue, helper) = 0
    BY <2>1, <2>2, SentType, CountType DEF InFlight
  <2>4. stdin.sent = <<>>
    BY <2>1, <2>3, EmptySeq DEF Shapes
  <2>5. helper.at \notin Requests \cup {"answer"}
    BY <2>3 DEF Answering
  <2>6. \A i \in 1..Len(Queue) : Queue[i] = Eof
    <3>1. Queue = <<>> \/ (helper.at = "gone" /\ Len(Queue) = 1)
      BY <2>1, <2>3, QueueType, EmptySeq DEF Answers
    <3>2. Queue = <<>> => Len(Queue) = 0
      BY EmptySeq
    <3>3. QED
      BY <3>1, <3>2 DEF RoutingInv, Pipeline, Marked
  <2>7. ASSUME NEW r \in Range(out) \cup Range(replies)
        PROVE  \E i \in 1..Len(Queue) : r = Queue[i]
    <3>1. /\ Len(replies) \in Nat /\ Len(out) \in Nat
          /\ Len(Queue) = Len(replies) + Len(out)
          /\ \A i \in 1..Len(replies) + Len(out) :
                Queue[i] = IF i <= Len(replies) THEN replies[i] ELSE out[i - Len(replies)]
      BY <2>1, LenProperties, ConcatProperties DEF Shapes, Queue
    <3>2. CASE r \in Range(replies)
      <4>1. PICK i \in 1..Len(replies) : r = replies[i]
        BY <2>1, <3>2, RepliesInRange DEF Shapes
      <4>2. QED
        BY <3>1, <4>1
    <3>3. CASE r \in Range(out)
      <4>1. PICK i \in 1..Len(out) : r = out[i]
        BY <2>1, <3>3, RepliesInRange DEF Shapes
      <4>2. /\ Len(replies) + i \in 1..Len(Queue)
            /\ ~(Len(replies) + i <= Len(replies))
            /\ (Len(replies) + i) - Len(replies) = i
        BY <3>1, <4>1
      <4>3. QED
        BY <3>1, <4>1, <4>2
    <3>4. QED
      BY <3>2, <3>3
  <2>8. QED
    BY <2>4, <2>5, <2>6, <2>7
<1>2. QED
  BY RoutingInvHolds, <1>1, PTL

\* down() stops the redirector last: while a helper runs, its chains never send
\* connections to listeners that have been closed.
THEOREM RedirectorOutlivesRules == Spec => []RulesKeepRedirector
<1>1. RoutingInv => RulesKeepRedirector
  BY DEF RoutingInv, Shapes, Places, Calls, Waits, Ends, Backed, Unspawned, Serves, Chained,
     RulesKeepRedirector, Running, Working, Requests, Gone
<1>2. QED
  BY RoutingInvHolds, <1>1, PTL

\* When down() returns or up() raises, without an overlong wait for the thread, the
\* helper has gone with its chains, unless it was killed, and the redirector with its
\* loop and all listeners but the socket for lookups by UDP.  A _setup that failed
\* partway keeps its loop and the listeners it had opened; no helper was started then.
THEOREM CallsLeaveNothing == Spec => []NothingLeft
<1>1. RoutingInv => NothingLeft
  BY DEF RoutingInv, Serves, Looped, Chained, NothingLeft, AliveThread, Gone
<1>2. QED
  BY RoutingInvHolds, <1>1, PTL

-----------------------------------------------------------------------------
(* What Delivery says of the calls, in a delivery with one backend *)

Cell(routing, h, r) ==
    [routing |-> routing, saved |-> "unset", mode |-> "none", socks |-> 0,
     http |-> "user", helper |-> [b \in {1} |-> h], rules |-> r]

\* A delivery is its fields.
LEMMA IsCell ==
  ASSUME NEW x, NEW h, NEW r,
         NEW e \in [routing : {x}, saved : {"unset"}, mode : {"none"}, socks : {0},
                    http : {"user"}, helper : {[b \in {1} |-> h]}, rules : {r}]
  PROVE  e = Cell(x, h, r)
<1> DEFINE f == [b \in {1} |-> h]
<1>1. /\ e \in [routing : {x}, saved : {"unset"}, mode : {"none"}, socks : {0},
                http : {"user"}, helper : {f}, rules : {r}]
      /\ Cell(x, h, r) = [routing |-> x, saved |-> "unset", mode |-> "none", socks |-> 0,
                          http |-> "user", helper |-> f, rules |-> r]
  BY DEF Cell
<1> HIDE DEF f
<1>2. QED
  BY <1>1

LEMMA CellFields ==
  ASSUME NEW x, NEW h, NEW r
  PROVE  /\ Cell(x, h, r).routing = x
         /\ Cell(x, h, r).helper = [b \in {1} |-> h]
         /\ Cell(x, h, r).helper[1] = h
         /\ Cell(x, h, r).rules = r
  BY DEF Cell

\* The updates of Delivery, and what each makes of a delivery with one backend.
Route(c, y)        == [c EXCEPT !.routing = y]
Change(c, g, q)    == [c EXCEPT !.helper[1] = g, !.rules = q]
Raise(c, y, g, q)  == [c EXCEPT !.helper[1] = g, !.rules = q, !.routing = y]
Settle(c, y, g, q) == [c EXCEPT !.routing = y, !.helper[1] = g, !.rules = q]

LEMMA CellUpdates ==
  ASSUME NEW x, NEW h, NEW r, NEW y, NEW g, NEW q
  PROVE  /\ Route(Cell(x, h, r), y) = Cell(y, h, r)
         /\ Change(Cell(x, h, r), g, q) = Cell(x, g, q)
         /\ Raise(Cell(x, h, r), y, g, q) = Cell(y, g, q)
         /\ Settle(Cell(x, h, r), y, g, q) = Cell(y, g, q)
         /\ D!HelperLost(Cell(x, h, r), 1) = Cell(x, "absent", r)
         /\ D!RulesRemoved(Cell(x, h, r)) = Cell(x, h, 0)
<1> DEFINE c == Cell(x, h, r)
           f == [b \in {1} |-> h]
           Put(e) == [b \in {1} |-> e]
           S(y1, k1, q1) == [routing : {y1}, saved : {"unset"}, mode : {"none"}, socks : {0},
                             http : {"user"}, helper : {k1}, rules : {q1}]
<1>1. c \in S(x, f, r)
  BY DEF Cell
<1>2. \A e : [c.helper EXCEPT ![1] = e] = Put(e)
  <2>1. \A e : [f EXCEPT ![1] = e] = Put(e)
    OBVIOUS
  <2>2. QED
    BY <2>1 DEF Cell
<1>3. \A y1, q1 : /\ \A e, g1 : e \in S(y1, Put(g1), q1) => e = Cell(y1, g1, q1)
                  /\ \A e \in S(y1, f, q1) : e = Cell(y1, h, q1)
  BY IsCell
<1> HIDE DEF c, f, Put
<1>4. /\ Settle(c, y, g, q) \in S(y, Put(g), q)
      /\ Raise(c, y, g, q) \in S(y, Put(g), q)
      /\ Change(c, g, q) \in S(x, Put(g), q)
  BY <1>1, <1>2 DEF Settle, Raise, Change
<1>5. /\ D!HelperLost(c, 1) \in S(x, Put("absent"), r)
      /\ D!RulesRemoved(c) \in S(x, f, 0)
      /\ Route(c, y) \in S(y, f, r)
  BY <1>1, <1>2 DEF D!HelperLost, D!RulesRemoved, D!NoBackend, Route
<1> HIDE DEF S
<1>6. QED
  BY <1>3, <1>4, <1>5 DEF c

LEMMA OneBackend == D!Backends = {1}
  BY DEF D!Backends

LEMMA BeforeCell ==
  /\ Before = Cell(D!NoRouting, "absent", 0)
  /\ D!FreeBackends(Before) # {}
  /\ D!NextBackend(Before) = 1
<1>1. Before = Cell(D!NoRouting, "absent", 0)
  BY OneBackend DEF Before, D!DeliveryInit, D!NoPort, D!NoBackend, Cell
<1>2. Before.helper[1] = "absent"
  BY <1>1 DEF Cell
<1>3. D!FreeBackends(Before) = {1}
  BY <1>2, OneBackend DEF D!FreeBackends
<1>4. QED
  BY <1>1, <1>3 DEF D!NextBackend

LEMMA AfterUpCell == AfterUp = Cell(D!Transparent(1), "up", 1)
<1>1. AfterUp = Raise(Before, D!Transparent(1), "up", 1)
  BY BeforeCell DEF AfterUp, D!TransparentUp, Raise
<1>2. QED
  BY <1>1, BeforeCell, CellUpdates

HelperAs == IF Gone THEN "absent" ELSE IF stdin.open THEN "up" ELSE "closing"

LEMMA AsCell ==
  ASSUME NEW x
  PROVE  AsDelivery(x) = Cell(x, HelperAs, IF rules THEN 1 ELSE 0)
<1>1. AsDelivery(x) = Settle(Before, x, HelperAs, IF rules THEN 1 ELSE 0)
  BY DEF AsDelivery, HelperAs, D!NoBackend, Settle
<1>2. QED
  BY <1>1, BeforeCell, CellUpdates

\* What went wrong meanwhile is done to any delivery of the set.
LEMMA DisturbedBy ==
  ASSUME NEW nets, NEW x, NEW h, NEW r, Cell(x, h, r) \in nets
  PROVE  /\ Cell(x, h, r) \in Disturbed(nets)
         /\ "lost" \in happened => Cell(x, "absent", r) \in Disturbed(nets)
         /\ "vanish" \in happened => Cell(x, h, 0) \in Disturbed(nets)
         /\ {"lost", "vanish"} \subseteq happened => Cell(x, "absent", 0) \in Disturbed(nets)
<1>1. \A g, q : /\ D!HelperLost(Cell(x, g, q), 1) = Cell(x, "absent", q)
                /\ D!RulesRemoved(Cell(x, g, q)) = Cell(x, g, 0)
  BY CellUpdates
<1> DEFINE lost == nets \cup IF "lost" \in happened THEN {D!HelperLost(n, 1) : n \in nets}
                             ELSE {}
<1>2. /\ Cell(x, h, r) \in lost
      /\ "lost" \in happened => Cell(x, "absent", r) \in lost
  BY <1>1
<1>3. Disturbed(nets) =
        lost \cup IF "vanish" \in happened THEN {D!RulesRemoved(n) : n \in lost} ELSE {}
  BY DEF Disturbed
<1> HIDE DEF lost
<1>4. \A c \in lost : "vanish" \in happened => D!RulesRemoved(c) \in Disturbed(nets)
  BY <1>3
<1>5. lost \subseteq Disturbed(nets)
  BY <1>3
<1>6. QED
  BY <1>1, <1>2, <1>4, <1>5

\* An up() that succeeded: the helper serves or was lost, its rules are in place or
\* were removed by others.
LEMMA UpIsDelivered ==
  ASSUME stdin.open, Gone => "lost" \in happened, ~rules => "vanish" \in happened
  PROVE  UpDelivered
<1>1. Cell(D!Transparent(1), "up", 1) \in {AfterUp}
  BY AfterUpCell
<1>2. QED
  BY <1>1, DisturbedBy, AsCell DEF UpDelivered, HelperAs

\* The deliveries without a routing that a call can leave.
LEMMA Settles ==
  ASSUME NEW nets,
         Cell(D!NoRouting, "absent", 0) \in nets,
         \A r \in {0, 1} : Cell(D!NoRouting, "closing", r) \in nets,
         Gone \/ ~stdin.open, Gone /\ rules => "lost" \in happened
  PROVE  AsDelivery(D!NoRouting) \in Disturbed(nets)
<1>1. CASE ~Gone
  BY <1>1, DisturbedBy, AsCell DEF HelperAs
<1>2. CASE Gone
  BY <1>2, DisturbedBy, AsCell DEF HelperAs
<1>3. QED
  BY <1>1, <1>2

LEMMA RollbackSettles ==
  ASSUME Gone \/ ~stdin.open, Gone /\ rules => "lost" \in happened
  PROVE  UpRolledBack
<1> DEFINE nets == D!TransparentFailures(Before)
<1>1. nets = {Before} \cup {[Before EXCEPT !.rules = 0]}
             \cup {Change(Before, "closing", r) : r \in {Before.rules, 0, 1}}
  BY BeforeCell DEF D!TransparentFailures, D!NoBackend, Change
<1>2. /\ Cell(D!NoRouting, "absent", 0) \in nets
      /\ \A r \in {0, 1} : Cell(D!NoRouting, "closing", r) \in nets
  BY <1>1, BeforeCell, CellUpdates
<1>3. QED
  BY <1>2, Settles DEF UpRolledBack

LEMMA DownSettles ==
  ASSUME Gone \/ ~stdin.open, Gone /\ rules => "lost" \in happened
  PROVE  DownDelivered
<1> DEFINE released == Route(AfterUp, D!NoRouting)
           nets == UNION {D!TransparentDown(n) : n \in Disturbed({AfterUp})}
<1>1. AfterUp \in Disturbed({AfterUp})
  BY AfterUpCell, DisturbedBy
<1>2. released = Cell(D!NoRouting, "up", 1)
  BY AfterUpCell, CellUpdates
<1>3. AfterUp.routing.id = 1 /\ AfterUp.helper[1] = "up" /\ AfterUp.rules = 1
  BY AfterUpCell, CellFields DEF D!Transparent, Cell
<1>4. D!TransparentDown(AfterUp) =
        {Change(released, "absent", 0)} \cup
        {Change(released, "closing", r) : r \in {1, 0}}
  BY <1>3 DEF D!TransparentDown, D!NoBackend, Change, Route
<1> HIDE DEF released
<1>5. /\ Cell(D!NoRouting, "absent", 0) \in D!TransparentDown(AfterUp)
      /\ \A r \in {0, 1} : Cell(D!NoRouting, "closing", r) \in D!TransparentDown(AfterUp)
  BY <1>2, <1>4, CellUpdates
<1>6. D!TransparentDown(AfterUp) \subseteq nets
  BY <1>1
<1>7. QED
  BY <1>5, <1>6, Settles DEF DownDelivered

-----------------------------------------------------------------------------
(* What the calls leave is what Delivery says *)

Intact == rules \/ "vanish" \in happened

\* An up() that waits has its pipe open, and a good reply on its way is the one to its
\* request: the chains it speaks of are in place, unless others removed them since.
Answered ==
    /\ helper.at \in {"none", "auth"} => Queue = <<>>
    /\ pc \in {"up_send", "up_wait"} => stdin.open /\ helper.at \notin {"none", "exit"}
    /\ pc = "up_wait" =>
          /\ \A i \in 1..Len(stdin.sent) : stdin.sent[i] = "up"
          /\ helper.at \notin {"check", "down"}
          /\ helper.at = "answer" /\ helper.reply.good => Intact
          /\ \A i \in 1..Len(Queue) :
                Queue[i].good => Intact /\ (helper.at = "gone" => "lost" \in happened)
    /\ pc \in {"reap", "kill", "escaped"} => ~stdin.open

LEMMA InitAnswered == Init => Answered
<1> SUFFICES ASSUME Init PROVE Answered
  OBVIOUS
<1>1. Queue = <<>>
  BY ConcatEmptySeq DEF Init, Queue
<1>2. QED
  BY <1>1 DEF Init, Answered

\* Up to the request nothing is in flight: an end of file is all there is to read.
LEMMA NothingGood ==
  ASSUME RoutingInv, pc = "up_send"
  PROVE  /\ Len(stdin.sent) = 0
         /\ helper.at \notin Requests \cup {"answer"}
         /\ \A i \in 1..Len(Queue) : ~Queue[i].good
<1>1. Shapes /\ Marked(helper, Queue) /\ InFlight(stdin.sent, helper, Queue) <= 0
  BY DEF RoutingInv, Pipeline, Owed
<1>2. Len(stdin.sent) = 0 /\ Answering(helper) = 0 /\ Answers(Queue, helper) = 0
  BY <1>1, SentType, CountType DEF InFlight
<1>3. \A i \in 1..Len(Queue) : Queue[i] = Eof
  <2>1. Queue = <<>> \/ (helper.at = "gone" /\ Len(Queue) = 1)
    BY <1>1, <1>2, QueueType, EmptySeq DEF Answers
  <2>2. Queue = <<>> => Len(Queue) = 0
    BY EmptySeq
  <2>3. QED
    BY <1>1, <2>1, <2>2 DEF Marked
<1>4. QED
  BY <1>2, <1>3, ReplyShape DEF Answering

LEMMA RequestAnswered ==
  ASSUME RoutingInv, Answered, NEW op \in Requests, Send(op) \/ AwaitReply(op)
  PROVE  Answered'
<1>1. Shapes /\ UNCHANGED <<helper, rules, happened>>
  BY DEF RoutingInv, Send, AwaitReply
<1>2. helper.at \in {"none", "auth"} => Queue' = <<>>
  <2>1. CASE replies' = replies
    BY <2>1 DEF Send, AwaitReply, Queue, Answered
  <2>2. CASE replies # <<>>
    <3>1. Queue # <<>>
      BY <1>1, <2>2, TakeFromFront DEF Shapes, Queue
    <3>2. QED
      BY <3>1 DEF Answered
  <2>3. QED
    BY <2>1, <2>2 DEF Send, AwaitReply, Get
<1>3. CASE pc' \notin {"up_send", "up_wait", "reap", "kill", "escaped"}
  BY <1>1, <1>2, <1>3 DEF Answered
<1>4. CASE pc' = "up_wait"
  <2>1. /\ pc = "up_send" /\ op = "up"
        /\ stdin' = [stdin EXCEPT !.sent = Append(@, op)]
        /\ UNCHANGED Queue
    BY <1>4, FailsShape DEF Send, AwaitReply, Get, Requests, RoutingInv, Queue
  <2>2. /\ Len(stdin.sent) = 0
        /\ helper.at \notin Requests \cup {"answer"}
        /\ \A i \in 1..Len(Queue) : ~Queue[i].good
    BY <2>1, NothingGood
  <2>3. stdin'.open = stdin.open /\ stdin'.sent = Append(stdin.sent, "up")
    BY <1>1, <2>1 DEF Shapes
  <2>4. Len(stdin'.sent) = 1 /\ stdin'.sent[1] = "up"
    BY <1>1, <2>2, <2>3, AppendProperties DEF Shapes, Requests
  <2>5. QED
    BY <1>1, <1>2, <1>4, <2>1, <2>2, <2>3, <2>4 DEF Answered, Requests
<1>5. CASE pc' \in {"reap", "kill", "escaped"}
  <2>1. Fails(op) /\ op = "down"
    BY <1>5 DEF Send, AwaitReply, Get, Fails, Failed, Requests
  <2>2. ~stdin'.open
    BY <1>1, <2>1 DEF Fails, Shapes
  <2>3. QED
    BY <1>1, <1>2, <1>5, <2>2 DEF Answered
<1>6. pc' # "up_send"
  BY FailsShape DEF Send, AwaitReply, Get, Requests, RoutingInv
<1>7. QED
  BY <1>3, <1>4, <1>5, <1>6

LEMMA CallerAnswered ==
  ASSUME RoutingInv, Answered,
         \/ CallUp \/ Started \/ SpawnHelper \/ CallHealth \/ CallDown \/ EnterDown
         \/ Reap \/ Kill \/ Release \/ Join
  PROVE  Answered'
<1>1. CASE CallUp \/ Started \/ CallHealth \/ CallDown \/ EnterDown \/ Reap \/ Release \/ Join
  <2>1. UNCHANGED <<helper, stdin, Queue>>
    BY <1>1 DEF CallUp, Started, CallHealth, CallDown, EnterDown, Reap, Release, Join,
       procVars, Queue
  <2>2. /\ pc' \notin {"up_send", "up_wait"}
        /\ pc' \in {"reap", "kill", "escaped"} => pc = "reap"
    BY <1>1 DEF CallUp, Started, CallHealth, CallDown, EnterDown, Reap, Release, Join
  <2>3. QED
    BY <2>1, <2>2 DEF Answered
<1>2. CASE SpawnHelper
  <2>1. Queue = <<>> /\ UNCHANGED Queue
    BY <1>2 DEF SpawnHelper, RoutingInv, Unspawned, Answered, Queue
  <2>2. \/ pc' = "up_send" /\ stdin'.open /\ helper'.at = "auth"
        \/ pc' = "down"
    BY <1>2 DEF SpawnHelper, RoutingInv, Shapes
  <2>3. QED
    BY <2>1, <2>2 DEF Answered
<1>3. CASE Kill
  <2>1. helper'.at \in {"none", "auth"} => UNCHANGED <<helper, Queue>>
    BY <1>3 DEF Kill, RoutingInv, Shapes, Queue
  <2>2. UNCHANGED stdin /\ pc = "kill" /\ pc' \in {"release", "escaped"}
    BY <1>3 DEF Kill
  <2>3. QED
    BY <2>1, <2>2 DEF Answered
<1>4. QED
  BY <1>1, <1>2, <1>3

LEMMA QuietAnswered ==
  ASSUME RoutingInv, Answered, Thread \/ Read \/ RulesVanish \/ Crash \/ UNCHANGED vars
  PROVE  Answered'
<1>1. UNCHANGED <<helper, Queue>>
  <2>1. CASE Read
    BY <2>1, ReadKeepsOrder DEF Read, RoutingInv, Shapes, Queue
  <2>2. CASE Thread \/ RulesVanish \/ Crash \/ UNCHANGED vars
    BY <2>2 DEF Thread, RulesVanish, Crash, vars, procVars, helperOnly, Queue
  <2>3. QED
    BY <2>1, <2>2
<1>2. CASE Crash
  BY <1>1, <1>2 DEF Crash, Answered
<1>3. CASE Thread \/ Read \/ RulesVanish \/ UNCHANGED vars
  <2>1. UNCHANGED <<pc, stdin>> /\ happened \subseteq happened' /\ (Intact => Intact')
    BY <1>3 DEF Thread, Read, RulesVanish, Fault, vars, procVars, helperOnly, Intact
  <2>2. QED
    BY <1>1, <2>1 DEF Answered
<1>4. QED
  BY <1>2, <1>3

LEMMA HelperAnswered ==
  ASSUME RoutingInv, Answered, Authenticate \/ HelperStep \/ HelperLost
  PROVE  Answered'
<1> USE DEF RoutingInv
<1>1. UNCHANGED <<pc, replies>> /\ stdin'.open = stdin.open
  BY DEF Authenticate, HelperStep, HelperLost, ReadLine, Handle, Answer, Exit, helperOnly,
     Shapes
<1>2. CASE Authenticate
  <2>1. Queue = <<>> /\ helper'.at \in {"idle", "gone"} /\ UNCHANGED <<stdin, rules, happened>>
    BY <1>2 DEF Authenticate, Answered, Shapes
  <2>2. \A i \in 1..Len(Queue') : ~Queue'[i].good
    <3>1. CASE UNCHANGED out
      BY <1>1, <2>1, <3>1, EmptySeq DEF Queue
    <3>2. CASE out' = Append(out, Eof)
      <4>1. Len(Queue') = Len(Queue) + 1 /\ Queue'[Len(Queue) + 1] = Eof
        BY <1>1, <3>2, WritePipe, ReplyShape
      <4>2. Len(Queue) = 0
        BY <2>1, EmptySeq
      <4>3. QED
        BY <4>1, <4>2, ReplyShape
    <3>3. QED
      BY <1>2, <3>1, <3>2 DEF Authenticate
  <2>3. QED
    BY <1>1, <1>2, <2>1, <2>2 DEF Authenticate, Answered
<1>3. CASE ReadLine
  <2>1. helper.at = "idle" /\ UNCHANGED <<Queue, rules, happened>>
    BY <1>1, <1>3 DEF ReadLine, Queue
  <2>2. CASE stdin.sent # <<>>
    <3>1. /\ Head(stdin.sent) \in Requests /\ Head(stdin.sent) = stdin.sent[1]
          /\ Len(stdin.sent) \in Nat \ {0}
          /\ Len(Tail(stdin.sent)) = Len(stdin.sent) - 1
          /\ \A i \in 1..Len(Tail(stdin.sent)) : Tail(stdin.sent)[i] = stdin.sent[i + 1]
      BY <2>2, HeadTailProperties, LenProperties, EmptySeq DEF Shapes
    <3>2. helper'.at = Head(stdin.sent) /\ stdin'.sent = Tail(stdin.sent)
      BY <1>3, <2>2 DEF ReadLine, Shapes
    <3>3. pc = "up_wait" => /\ helper'.at = "up"
                            /\ \A i \in 1..Len(stdin'.sent) : stdin'.sent[i] = "up"
      BY <3>1, <3>2 DEF Answered
    <3>4. helper'.at \in Requests
      BY <3>1, <3>2
    <3>5. QED
      BY <1>1, <2>1, <3>3, <3>4 DEF Answered, Requests, Intact
  <2>3. CASE stdin.sent = <<>>
    <3>1. helper'.at = "exit" /\ ~stdin.open /\ UNCHANGED stdin
      BY <1>3, <2>3 DEF ReadLine, Shapes
    <3>2. QED
      BY <1>1, <2>1, <3>1 DEF Answered
  <2>4. QED
    BY <2>2, <2>3
<1>4. CASE Handle
  <2>1. /\ UNCHANGED <<stdin, out>>
        /\ \E op \in Requests, good \in BOOLEAN :
              /\ helper.at = op
              /\ helper' = [at |-> "answer", reply |-> Reply(op, good)]
              /\ op = "up" /\ good => rules'
    BY <1>4 DEF Handle, Requests, Shapes
  <2>2. /\ helper.at \in Requests /\ helper'.at = "answer"
        /\ helper.at = "up" /\ helper'.reply.good => rules'
    BY <2>1 DEF Reply
  <2>3. UNCHANGED Queue
    BY <1>1, <2>1 DEF Queue
  <2>4. pc = "up_wait" => Len(Queue) = 0
    <3>1. InFlight(stdin.sent, helper, Queue) <= Owed(pc) /\ Answering(helper) = 1
      BY <2>2 DEF Pipeline, Answering
    <3>2. pc = "up_wait" => Answers(Queue, helper) = 0
      BY <3>1, SentType, CountType DEF InFlight, Owed
    <3>3. QED
      BY <2>2, <3>2 DEF Answers, Requests
  <2>5. QED
    BY <1>1, <2>1, <2>2, <2>3, <2>4 DEF Answered, Requests, Intact
<1>5. CASE Answer
  <2>1. helper.at = "answer" /\ helper'.at = (IF pc = "crashed" THEN "exit" ELSE "idle")
    BY <1>5 DEF Answer, Shapes
  <2>2. UNCHANGED <<stdin, rules, happened>>
    BY <1>5 DEF Answer
  <2>3. CASE pc = "up_wait"
    <3>1. /\ Len(Queue') = Len(Queue) + 1
          /\ \A i \in 1..Len(Queue) : Queue'[i] = Queue[i]
          /\ Queue'[Len(Queue) + 1] = helper.reply
      <4>1. helper.reply \in Replies /\ out' = Append(out, helper.reply)
        BY <1>5, <2>3 DEF Answer, Shapes
      <4>2. QED
        BY <1>1, <4>1, WritePipe
    <3>2. \A i \in 1..Len(Queue') : Queue'[i].good => Intact
      BY <2>1, <2>3, <3>1, QueueType DEF Answered
    <3>3. QED
      BY <1>1, <2>1, <2>2, <2>3, <3>2 DEF Answered, Intact
  <2>4. CASE pc # "up_wait"
    BY <1>1, <2>1, <2>2, <2>4 DEF Answered
  <2>5. QED
    BY <2>3, <2>4
<1>6. CASE Exit \/ HelperLost
  <2>1. helper'.at = "gone" /\ UNCHANGED stdin /\ out' = Append(out, Eof)
    BY <1>6 DEF Exit, HelperLost, Shapes
  <2>2. CASE pc = "up_wait"
    <3>1. HelperLost /\ "lost" \in happened' /\ UNCHANGED rules /\ happened \subseteq happened'
      BY <1>6, <2>2 DEF Exit, HelperLost, Fault, Answered
    <3>2. /\ Len(Queue') = Len(Queue) + 1
          /\ \A i \in 1..Len(Queue) : Queue'[i] = Queue[i]
          /\ Queue'[Len(Queue) + 1] = Eof
      BY <1>1, <2>1, WritePipe, ReplyShape
    <3>3. \A i \in 1..Len(Queue') : Queue'[i].good => Intact
      BY <2>2, <3>2, QueueType, ReplyShape DEF Answered
    <3>4. QED
      BY <1>1, <2>1, <2>2, <3>1, <3>3 DEF Answered, Intact
  <2>3. CASE pc # "up_wait"
    <3>1. pc = "up_send" => "exit" # helper.at
      BY DEF Answered
    <3>2. QED
      BY <1>1, <2>1, <2>3 DEF Answered
  <2>4. QED
    BY <2>2, <2>3
<1>7. QED
  BY <1>2, <1>3, <1>4, <1>5, <1>6 DEF HelperStep

\* Any call that ends without a backend has let go of its helper.
Settled == pc \in {"raised", "escaped", "done"} => Gone \/ ~stdin.open

LEMMA SettledHolds ==
  ASSUME RoutingInv, Answered
  PROVE  Settled /\ (Gone /\ rules => "lost" \in happened)
  BY DEF RoutingInv, Answered, Chained, Settled, Gone

Delivering ==
    /\ pc = "up_wait" /\ pc' = "on" => UpDelivered'
    /\ pc \notin Ends /\ pc' \in {"raised", "escaped"} /\ failing' => UpRolledBack'
    /\ pc \notin Ends /\ pc' \in {"done", "escaped"} /\ ~failing' => DownDelivered'

\* What UpIsDelivered, RollbackSettles and DownSettles say, of any state.
CallsSettle ==
    /\ stdin.open /\ (Gone => "lost" \in happened) /\ (~rules => "vanish" \in happened) =>
          UpDelivered
    /\ (Gone \/ ~stdin.open) /\ (Gone /\ rules => "lost" \in happened) =>
          UpRolledBack /\ DownDelivered

LEMMA CallsAlwaysSettle == CallsSettle
  BY UpIsDelivered, RollbackSettles, DownSettles DEF CallsSettle

\* A good reply to "up" ends the wait: the helper it came from still has its pipe.
LEMMA UpDelivers ==
  ASSUME RoutingInv, Answered, CallsSettle', [Next]_vars, pc = "up_wait", pc' = "on"
  PROVE  UpDelivered'
<1>1. /\ AwaitReply("up") /\ replies # <<>> /\ Head(replies).good
      /\ UNCHANGED stdin
  BY DEF Next, Caller, CallUp, Started, SpawnHelper, CallHealth, CallDown, EnterDown, Reap,
     Kill, Release, Join, Send, AwaitReply, Get, Fails, Failed, Thread, Read, Authenticate,
     HelperStep, ReadLine, Handle, Answer, Exit, HelperLost, RulesVanish, Crash, vars,
     helperOnly, Requests
<1>2. UNCHANGED <<helper, rules, happened>>
  BY <1>1 DEF AwaitReply
<1>3. \E i \in 1..Len(Queue) : Queue[i].good
  <2>1. Queue # <<>> /\ Queue[1] = Head(replies)
    BY <1>1, TakeFromFront DEF RoutingInv, Shapes, Queue
  <2>2. 1 \in 1..Len(Queue)
    BY <2>1, QueueType DEF RoutingInv
  <2>3. QED
    BY <1>1, <2>1, <2>2
<1>4. /\ stdin.open /\ helper.at # "none"
      /\ Intact /\ (helper.at = "gone" => "lost" \in happened)
  BY <1>3 DEF Answered
<1>5. /\ stdin'.open /\ (Gone' => "lost" \in happened')
      /\ (~rules' => "vanish" \in happened')
  BY <1>1, <1>2, <1>4 DEF Gone, Intact
<1>6. QED
  BY <1>5 DEF CallsSettle

\* up() and down(), whatever times out and whoever dies meanwhile, leave the delivery in
\* one of the states Delivery, and with it Manager, reckons with.
THEOREM CallsDeliver == Spec => OutcomesAsDelivered
<1>1. Answered /\ RoutingInv /\ [Next]_vars => Answered'
  BY RequestAnswered, CallerAnswered, QuietAnswered, HelperAnswered DEF Next, Caller
<1>2. CallsSettle'
  BY CallsAlwaysSettle, PTL
<1>3. Spec => []Answered
  BY InitAnswered, RoutingInvHolds, <1>1, PTL DEF Spec
<1>4. RoutingInv' /\ Answered' => Settled' /\ (Gone /\ rules => "lost" \in happened)'
  <2>1. RoutingInv /\ Answered => Settled /\ (Gone /\ rules => "lost" \in happened)
    BY SettledHolds
  <2>2. QED
    BY <2>1, PTL
<1>5. RoutingInv /\ Answered /\ RoutingInv' /\ Answered' /\ [Next]_vars => [Delivering]_vars
  <2> SUFFICES ASSUME RoutingInv, Answered, RoutingInv', Answered', [Next]_vars
               PROVE  Delivering
    OBVIOUS
  <2>1. pc = "up_wait" /\ pc' = "on" => UpDelivered'
    BY <1>2, UpDelivers
  <2>2. pc' \in {"raised", "escaped", "done"} => UpRolledBack' /\ DownDelivered'
    BY <1>2, <1>4 DEF CallsSettle, Settled
  <2>3. QED
    BY <2>1, <2>2 DEF Delivering
<1>6. QED
  BY RoutingInvHolds, <1>3, <1>5, PTL DEF Spec, OutcomesAsDelivered, Delivering
=============================================================================
