------------------------------ MODULE Routing -------------------------------
(***************************************************************************)
(* One TransparentBackend (routing.py) from up() to down(), step by step:  *)
(* the GTK thread in its calls, the redirector's thread, the reader thread *)
(* and the helper process at the other end of two pipes.  Every wait has a *)
(* timeout, and what it did not wait for goes on.                          *)
(*                                                                         *)
(* The helper's own work is abstract here: Netguard has it command by      *)
(* command.  What the calls leave behind is what Delivery says they do.    *)
(***************************************************************************)
EXTENDS Redirector, Functions

CONSTANTS Faults  \* "slow" a thread outlives the wait for it, "lost" SIGKILL to the
                  \* helper, "vanish" other programs remove the rules, "crash" the
                  \* tray is killed, "alarm" a probe of intact rules fails

ASSUME RoutingAssumption == Faults \subseteq {"slow", "lost", "vanish", "crash", "alarm"}

VARIABLES
    pc,       \* where the GTK thread is
    failing,  \* down() was called by up(), which will raise
    helper,   \* the pkexec or netguard process
    stdin,    \* [sent, open]: requests it has not read, and whether the pipe is open
    out,      \* what it has written and the reader thread has not read
    replies,  \* _replies
    rules,    \* its chains are in place
    happened  \* the faults so far

procVars == <<helper, stdin, out, rules>>
vars == <<redirVars, pc, failing, procVars, replies, happened>>

Fault(f) == f \in Faults /\ happened' = happened \cup {f}

Requests == {"up", "check", "down"}

\* A reply: to which request, and its "ok" or, for a check, its "intact".
Reply(op, good) == [to |-> op, good |-> good]
Eof == Reply("eof", FALSE)

\* "none" no process; "auth" pkexec asks for the password; "idle" in readline; a
\* request it works on; "answer" about to reply; "exit" in the teardown of main's
\* finally; "gone".
Working == Requests \cup {"idle", "answer", "exit"}
Running == helper.at \in Working \cup {"auth"}

Gone == helper.at \in {"none", "gone"}

\* Not called yet; in a call; up; found unhealthy; and the ends: down() returned,
\* up() raised, an exception of down() escaped, the tray was killed.
Waits == {"up_wait", "check_wait", "down_wait"}
Calls == Waits \cup {"start", "spawn", "up_send", "check_send", "down_send", "down",
                     "reap", "kill", "release", "join"}
Ends  == {"done", "raised", "escaped", "crashed"}

-----------------------------------------------------------------------------
(* up() *)

\* up(), to redirector.start(); resolve_v4 may raise before.
CallUp ==
    /\ pc = "new"
    /\ \/ pc' = "start" /\ StartThread
       \/ pc' = "raised" /\ UNCHANGED redirVars
    /\ UNCHANGED <<failing, procVars, replies, happened>>

\* Mutant: the outcome of the wait is not looked at.
StartedUnready ==
    /\ pc = "start"
    /\ pc' = IF thread = "failed" THEN "raised" ELSE "spawn"
    /\ UNCHANGED <<redirVars, failing, procVars, replies, happened>>

\* The wait for _ready.  An exception here is outside the try of up(): nobody
\* calls down().
Started ==
    /\ pc = "start"
    /\ \/ Ready /\ UNCHANGED happened
          /\ pc' = IF thread = "failed" THEN "raised" ELSE "spawn"
       \/ ~Ready /\ Fault("slow") /\ pc' = "raised"
    /\ UNCHANGED <<redirVars, failing, procVars, replies>>

\* _spawn_helper, which may find no pkexec.
SpawnHelper ==
    /\ pc = "spawn"
    /\ \/ /\ helper' = [helper EXCEPT !.at = "auth"]
          /\ stdin' = [stdin EXCEPT !.open = TRUE]
          /\ pc' = "up_send"
          /\ UNCHANGED failing
       \/ /\ pc' = "down" /\ failing' = TRUE
          /\ UNCHANGED <<helper, stdin>>
    /\ UNCHANGED <<redirVars, out, rules, replies, happened>>

-----------------------------------------------------------------------------
(* _request *)

\* Mutant: health() takes a check that was not answered in time for a good one.
FailedTolerant(op) ==
    CASE op = "up" -> "down" [] op = "check" -> "on" [] op = "down" -> "reap"

\* Mutant: up() raises without cleaning up.
FailedNoDown(op) ==
    CASE op = "up" -> "raised" [] op = "check" -> "sick" [] op = "down" -> "reap"

\* Where the caller goes on when a request gets no answer.
Failed(op) == CASE op = "up" -> "down" [] op = "check" -> "sick" [] op = "down" -> "reap"

\* Mutant: the pipe is left open.
FailsPipeOpen(op) ==
    /\ pc' = Failed(op)
    /\ failing' = (failing \/ op = "up")
    /\ UNCHANGED stdin

\* An OSError of _request, as its three callers treat it.
Fails(op) ==
    /\ pc' = Failed(op)
    /\ failing' = (failing \/ op = "up")
    /\ stdin' = IF op = "down" THEN [stdin EXCEPT !.open = FALSE] ELSE stdin

Send(op) ==
    /\ pc = CASE op = "up" -> "up_send" [] op = "check" -> "check_send"
              [] op = "down" -> "down_send"
    /\ \/ /\ Running
          /\ stdin' = [stdin EXCEPT !.sent = Append(@, op)]
          /\ pc' = CASE op = "up" -> "up_wait" [] op = "check" -> "check_wait"
                     [] op = "down" -> "down_wait"
          /\ UNCHANGED failing
       \/ ~Running /\ Fails(op)
    /\ UNCHANGED <<redirVars, helper, out, rules, replies, happened>>

\* The next line of the queue is the answer, whichever request it replies to.
\* down() ignores what it says and closes the pipe.
Get(op) ==
    LET r == Head(replies)
    IN  /\ replies # <<>>
        /\ replies' = Tail(replies)
        /\ IF op \in {"up", "check"} /\ r.good
           THEN pc' = "on" /\ UNCHANGED <<failing, stdin>>
           ELSE Fails(op)

\* Mutant: get() without a timeout.
AwaitReplyForever(op) ==
    /\ pc = CASE op = "up" -> "up_wait" [] op = "check" -> "check_wait"
              [] op = "down" -> "down_wait"
    /\ Get(op)
    /\ UNCHANGED <<redirVars, helper, out, rules, happened>>

AwaitReply(op) ==
    /\ pc = CASE op = "up" -> "up_wait" [] op = "check" -> "check_wait"
              [] op = "down" -> "down_wait"
    /\ \/ Get(op)
       \/ replies = <<>> /\ Fails(op) /\ UNCHANGED replies   \* queue.Empty
    /\ UNCHANGED <<redirVars, helper, out, rules, happened>>

-----------------------------------------------------------------------------
(* health() and down() *)

CallHealth ==
    /\ pc = "on"
    /\ pc' = IF Running /\ AliveThread THEN "check_send" ELSE "sick"
    /\ UNCHANGED <<redirVars, failing, procVars, replies, happened>>

\* By stop(), a drop, a toggle or a failed check.
CallDown ==
    /\ pc \in {"on", "sick"}
    /\ pc' = "down"
    /\ UNCHANGED <<redirVars, failing, procVars, replies, happened>>

EnterDown ==
    /\ pc = "down"
    /\ pc' = IF Running THEN "down_send" ELSE "release"
    /\ UNCHANGED <<redirVars, failing, procVars, replies, happened>>

\* wait(timeout=5)
Reap ==
    /\ pc = "reap"
    /\ pc' = IF Gone THEN "release" ELSE "kill"
    /\ UNCHANGED <<redirVars, failing, procVars, replies, happened>>

\* helper.kill() is a signal to a process of root once pkexec has switched to it:
\* PermissionError, which leaves down().
Kill ==
    /\ pc = "kill"
    /\ \/ /\ helper.at = "auth"
          /\ helper' = [helper EXCEPT !.at = "gone"]
          /\ out' = Append(out, Eof)
          /\ pc' = "release"
       \/ Gone /\ pc' = "release" /\ UNCHANGED <<helper, out>>
       \/ helper.at \in Working /\ pc' = "escaped" /\ UNCHANGED <<helper, out>>
    /\ UNCHANGED <<redirVars, failing, stdin, rules, replies, happened>>

\* redirector.stop(), to the join.
Release ==
    /\ pc = "release"
    /\ AskToStop
    /\ pc' = "join"
    /\ UNCHANGED <<failing, procVars, replies, happened>>

\* join(timeout=5); then up() raises, if it was up() that called down().
Join ==
    /\ pc = "join"
    /\ \/ ~AliveThread /\ UNCHANGED happened
       \/ AliveThread /\ Fault("slow")
    /\ ForgetLoop
    /\ pc' = IF failing THEN "raised" ELSE "done"
    /\ UNCHANGED <<failing, procVars, replies>>

Caller == CallUp \/ Started \/ SpawnHelper \/ CallHealth \/ CallDown \/ EnterDown
          \/ Reap \/ Kill \/ Release \/ Join
          \/ \E op \in Requests : Send(op) \/ AwaitReply(op)

\* _pump_replies
Read ==
    /\ pc # "crashed"
    /\ out # <<>>
    /\ replies' = Append(replies, Head(out))
    /\ out' = Tail(out)
    /\ UNCHANGED <<redirVars, pc, failing, helper, stdin, rules, happened>>

-----------------------------------------------------------------------------
(* The helper *)

helperOnly == <<redirVars, pc, failing, replies>>

\* The user answers pkexec's dialog, or cannot.
Authenticate ==
    /\ helper.at = "auth"
    /\ \/ helper' = [helper EXCEPT !.at = "idle"] /\ UNCHANGED out
       \/ helper' = [helper EXCEPT !.at = "gone"] /\ out' = Append(out, Eof)
    /\ UNCHANGED <<helperOnly, stdin, rules, happened>>

\* Requests written before the pipe was closed are still read.
ReadLine ==
    /\ helper.at = "idle"
    /\ IF stdin.sent # <<>>
       THEN /\ helper' = [helper EXCEPT !.at = Head(stdin.sent)]
            /\ stdin' = [stdin EXCEPT !.sent = Tail(@)]
       ELSE /\ ~stdin.open
            /\ helper' = [helper EXCEPT !.at = "exit"]
            /\ UNCHANGED stdin
    /\ UNCHANGED <<helperOnly, out, rules, happened>>

\* handle: all or nothing for up; a check whose probe loses the lock takes intact
\* rules for missing ones.
Handle ==
    LET Does(op, r, good) == /\ helper.at = op
                             /\ rules' = r
                             /\ helper' = [at |-> "answer", reply |-> Reply(op, good)]
    IN  /\ \/ /\ UNCHANGED happened
              /\ \/ Does("up", TRUE, TRUE) \/ Does("up", FALSE, FALSE)
                 \/ Does("down", FALSE, TRUE) \/ Does("check", rules, rules)
           \/ rules /\ Fault("alarm") /\ Does("check", rules, FALSE)
        /\ UNCHANGED <<helperOnly, stdin, out>>

\* reply(); with nobody at the other end, write raises.
Answer ==
    /\ helper.at = "answer"
    /\ helper' = [helper EXCEPT !.at = IF pc = "crashed" THEN "exit" ELSE "idle"]
    /\ out' = IF pc = "crashed" THEN out ELSE Append(out, helper.reply)
    /\ UNCHANGED <<helperOnly, stdin, rules, happened>>

Exit ==
    /\ helper.at = "exit"
    /\ helper' = [helper EXCEPT !.at = "gone"]
    /\ rules' = FALSE
    /\ out' = Append(out, Eof)
    /\ UNCHANGED <<helperOnly, stdin, happened>>

HelperStep == ReadLine \/ Handle \/ Answer \/ Exit

-----------------------------------------------------------------------------
(* Mishaps *)

HelperLost ==
    /\ helper.at \in Working
    /\ Fault("lost")
    /\ helper' = [helper EXCEPT !.at = "gone"]
    /\ out' = Append(out, Eof)
    /\ UNCHANGED <<helperOnly, stdin, rules>>

RulesVanish ==
    /\ rules
    /\ Fault("vanish")
    /\ rules' = FALSE
    /\ UNCHANGED <<helperOnly, helper, stdin, out>>

Crash ==
    /\ pc \notin Ends \cup {"new"}
    /\ Fault("crash")
    /\ pc' = "crashed"
    /\ stdin' = [stdin EXCEPT !.open = FALSE]
    /\ ThreadLost
    /\ UNCHANGED <<failing, helper, out, rules, replies>>

-----------------------------------------------------------------------------
Init ==
    /\ RedirInit
    /\ pc = "new"
    /\ failing = FALSE
    /\ helper = [at |-> "none", reply |-> Eof]
    /\ stdin = [sent |-> <<>>, open |-> FALSE]
    /\ out = <<>>
    /\ replies = <<>>
    /\ rules = FALSE
    /\ happened = {}

Thread == ThreadStep /\ UNCHANGED <<pc, failing, procVars, replies, happened>>

Next == Caller \/ Thread \/ Read \/ Authenticate \/ HelperStep
        \/ HelperLost \/ RulesVanish \/ Crash

\* The GTK thread goes on within a call, since every wait has a timeout; so do
\* the other threads and the helper.  Nobody has to answer pkexec's dialog.
Fairness ==
    /\ WF_vars(pc \in Calls /\ Caller)
    /\ WF_vars(Thread)
    /\ WF_vars(Read)
    /\ WF_vars(HelperStep)

Spec == Init /\ [][Next]_vars /\ Fairness

-----------------------------------------------------------------------------
(* Properties *)

\* The two processes keep their shapes, and neither pipe nor queue fills up.
TypeOK ==
    /\ RedirTypeOK
    /\ pc \in {"new", "on", "sick"} \cup Calls \cup Ends
    /\ failing \in BOOLEAN
    /\ helper.at \in Working \cup {"none", "auth", "gone"}
    /\ \A r \in Range(out) \cup Range(replies) \cup {helper.reply} :
          r \in [to : Requests \cup {"eof"}, good : BOOLEAN]
    /\ Range(stdin.sent) \subseteq Requests
    /\ Len(stdin.sent) <= 2 /\ Len(out) + Len(replies) <= 3
    /\ rules \in BOOLEAN
    /\ happened \subseteq Faults

\* Whenever health() may ask, every earlier request has been answered and its reply
\* read: what it takes for the state of the rules is the reply to its own check,
\* whatever was not answered in time before.  (down() may read an older reply.)
InStep ==
    pc \in {"on", "check_send"} =>
        /\ stdin.sent = <<>>
        /\ helper.at \notin Requests \cup {"answer"}
        /\ Range(out) \cup Range(replies) \subseteq {Eof}

\* When down() returns, or up() raises, and no thread was too slow, the helper is
\* gone and its rules with it, unless it was killed.  Of the redirector nothing is
\* left but the socket for lookups by UDP, which nobody reads.  A redirector that
\* could not be set up does leave its loop and the listeners it had opened, but only
\* where no helper was ever started, so that nothing is redirected to them.
NothingLeft ==
    pc \in {"done", "raised"} /\ "slow" \notin happened =>
        /\ Gone
        /\ rules => "lost" \in happened
        /\ ~AliveThread
        /\ IF thread = "failed" THEN helper.at = "none" /\ ~rules
           ELSE listeners \subseteq {"udp"} /\ ~loopOpen

\* The rules of a helper that runs never redirect to listeners that are not there:
\* all of them are open before the rules are asked for, and until they are gone.
RulesKeepRedirector ==
    rules /\ Running /\ pc # "crashed" => thread = "serving" /\ listeners = Listeners

\* What Delivery, and with it Manager, takes the calls to leave behind, given what
\* went wrong meanwhile.
D == INSTANCE Delivery WITH Ports <- {1080}, MaxBackends <- 1

Before == D!DeliveryInit("none")
AfterUp == D!TransparentUp(Before)

AsDelivery(routing) ==
    [Before EXCEPT !.routing = routing,
                   !.helper[1] = IF Gone THEN "absent"
                                 ELSE IF stdin.open THEN "up" ELSE "closing",
                   !.rules = IF rules THEN 1 ELSE D!NoBackend]

Disturbed(nets) ==
    LET lost == nets \cup IF "lost" \in happened THEN {D!HelperLost(n, 1) : n \in nets}
                          ELSE {}
    IN  lost \cup IF "vanish" \in happened THEN {D!RulesRemoved(n) : n \in lost} ELSE {}

UpDelivered   == AsDelivery(D!Transparent(1)) \in Disturbed({AfterUp})
UpRolledBack  == AsDelivery(D!NoRouting) \in Disturbed(D!TransparentFailures(Before))
DownDelivered ==
    AsDelivery(D!NoRouting) \in
        Disturbed(UNION {D!TransparentDown(n) : n \in Disturbed({AfterUp})})

\* Every outcome of up() and down(), timeouts and refused kills included, is one
\* that Manager's handlers reckon with.
OutcomesAsDelivered ==
    [][/\ pc = "up_wait" /\ pc' = "on" => UpDelivered'
       /\ pc \notin Ends /\ pc' \in {"raised", "escaped"} /\ failing' => UpRolledBack'
       /\ pc \notin Ends /\ pc' \in {"done", "escaped"} /\ ~failing' => DownDelivered'
      ]_vars

\* A call comes to its end, whatever becomes of the helper and of pkexec's dialog.
CallsReturn == pc \in Calls ~> pc \notin Calls

\* However the tray was done with it, a helper that runs goes, and takes its rules
\* away unless it is killed.
HelperLeaves ==
    pc \in Ends /\ helper.at \in Working ~> Gone /\ (rules => "lost" \in happened)
=============================================================================
