------------------------------ MODULE Netguard ------------------------------
(***************************************************************************)
(* The privileged helper of transparent mode: netguard.py running the      *)
(* commands of netfilter.py and nmcheck.py, one at a time, against the     *)
(* packet filter and NetworkManager that all helpers share.                *)
(*                                                                         *)
(* A helper serves the requests of one TransparentBackend (routing.py) and *)
(* tears its rules down at EOF, at SIGTERM and on every error.  Helpers    *)
(* can overlap: a predecessor whose teardown is slow, and tunly --repair.  *)
(* A command can fail though the kernel could have carried it out: the     *)
(* xtables lock is not had within LOCK_WAIT seconds, the bus times out.    *)
(***************************************************************************)
EXTENDS Netfilter

CONSTANTS Helpers,    \* netguard processes started by the tray
          Repairs,    \* netguard --teardown processes
          NoProc,     \* nobody's rules
          Former,     \* a helper of an earlier session, killed since
          Stacked,    \* how many jumps to each chain such helpers may have left
          MaxUnhook,  \* MAX_JUMP_UNHOOK
          Attempts,   \* teardown passes
          Faults,     \* what can go wrong: an xtables "lock" not had in time, a
                      \* "bus" that does not answer, SIGTERM ("term") or SIGKILL
                      \* ("kill") to a helper
          MaxFaults   \* bound: how many times something goes wrong

Procs == Helpers \cup Repairs

ASSUME NetguardAssumption ==
    /\ Helpers \cap Repairs = {}
    /\ NoProc \notin Procs
    /\ Former \notin Procs \cup {NoProc}
    /\ Stacked \subseteq Nat \ {0}
    /\ MaxUnhook \in Nat \ {0}
    /\ Attempts \in Nat \ {0}
    /\ Faults \subseteq {"lock", "bus", "term", "kill"}
    /\ MaxFaults \in Nat

VARIABLES
    table,   \* the chains in the kernel
    nm,      \* NetworkManager's ConnectivityCheckEnabled
    userNm,  \* what the user had set it to (never changes)
    proc,    \* the state of each process
    orphans, \* commands still running though their helper went on or is gone
    mishaps   \* how many times something went wrong

vars == <<table, nm, userNm, proc, orphans, mishaps>>

Fault(f) == f \in Faults /\ mishaps < MaxFaults /\ mishaps' = mishaps + 1

-----------------------------------------------------------------------------
(* The kernel and NetworkManager *)

\* exists: the chain is there; rules: the process that filled it, NoProc while
\* it is empty; jumps: the rules of OUTPUT that jump to it.
NoChain == [exists |-> FALSE, rules |-> NoProc, jumps |-> 0]

Command(op, c, by) == [op |-> op, chain |-> c, by |-> by]

Ops      == {"new", "fill", "jump", "probe", "delete", "flush", "drop", "exists"}
Commands == [op : Ops, chain : Chains, by : Procs]

ChainStates == [exists : BOOLEAN, rules : Procs \cup {NoProc, Former}, jumps : Nat]
Tables      == [Chains -> ChainStates]

\* The command can be carried out: iptables exits with 0.
Works(k, cmd) ==
    LET ch == k[cmd.chain]
    IN  CASE cmd.op = "new"    -> ~ch.exists
          [] cmd.op = "fill"   -> ch.exists
          [] cmd.op = "jump"   -> ch.exists
          [] cmd.op = "probe"  -> ch.jumps > 0
          [] cmd.op = "delete" -> ch.jumps > 0
          [] cmd.op = "flush"  -> ch.exists
          [] cmd.op = "drop"   -> ch.exists /\ ch.jumps = 0 /\ ch.rules = NoProc
          [] cmd.op = "exists" -> ch.exists

ChainAfter(ch, cmd) ==
    CASE cmd.op = "new"    -> [ch EXCEPT !.exists = TRUE]
      [] cmd.op = "fill"   -> [ch EXCEPT !.rules = cmd.by]
      [] cmd.op = "jump"   -> [ch EXCEPT !.jumps = @ + 1]
      [] cmd.op = "delete" -> [ch EXCEPT !.jumps = @ - 1]
      [] cmd.op = "flush"  -> [ch EXCEPT !.rules = NoProc]
      [] cmd.op = "drop"   -> NoChain
      [] cmd.op \in {"probe", "exists"} -> ch

After(k, cmd) == [k EXCEPT ![cmd.chain] = ChainAfter(@, cmd)]

\* _run: ok is returncode == 0.
Run(cmd, ok) ==
    \/ /\ ok /\ Works(table, cmd)
       /\ table' = After(table, cmd)
       /\ UNCHANGED mishaps
    \/ /\ ~ok /\ ~Works(table, cmd)
       /\ UNCHANGED <<table, mishaps>>
    \/ /\ ~ok /\ Works(table, cmd)
       /\ Fault("lock")
       /\ UNCHANGED table

\* A gdbus call, which NetworkManager may leave unanswered.
Bus(ok) == \/ ok /\ UNCHANGED mishaps
           \/ ~ok /\ Fault("bus")

-----------------------------------------------------------------------------
(* Where a helper is *)

\* "unborn", "gone" (ran to its end) and "killed" (did not); "idle" waits in
\* readline; "build" runs the up commands, then turns the check off; "check" is in
\* chains_intact; the others are in teardown(): "clean" before a build, "undo"
\* after a failed one, "down" on request, "final" at the end of main, "bail" in the
\* SIGTERM handler, "repair" for --teardown.
Tearing == {"clean", "undo", "down", "final", "bail", "repair"}
Tasks   == Tearing \cup {"unborn", "idle", "build", "check", "gone", "killed"}

Running(h) == proc[h].task \notin {"unborn", "gone", "killed"}

\* teardown_plan and up_commands, chain by chain.  What an up command appends
\* to a chain it has not jumped to yet counts as one command.
\* Mutant: the kill switches come down before the redirect.
GuardsFirst == <<"guard", "guard6", "nat">>

TeardownOrder == <<"nat", "guard", "guard6">>

\* Mutant: the redirect is built before the kill switches.
UpRedirectFirst ==
    <<<<"new", "nat">>,    <<"fill", "nat">>,    <<"jump", "nat">>,
      <<"new", "guard">>,  <<"fill", "guard">>,  <<"jump", "guard">>,
      <<"new", "guard6">>, <<"fill", "guard6">>, <<"jump", "guard6">>>>

UpCommands ==
    <<<<"new", "guard">>,  <<"fill", "guard">>,  <<"jump", "guard">>,
      <<"new", "guard6">>, <<"fill", "guard6">>, <<"jump", "guard6">>,
      <<"new", "nat">>,    <<"fill", "nat">>,    <<"jump", "nat">>>>

\* After the up commands: flush conntrack, read the connectivity check, turn it
\* off, remember what it was.
FlushAt == Len(UpCommands) + 1
NmRead  == Len(UpCommands) + 2
NmOff   == Len(UpCommands) + 3
NmStash == Len(UpCommands) + 4

\* Locals of _teardown_rules and _teardown_pass: pass, chain, next command,
\* jumps removed from this chain, and whether the pass left anything standing.
FirstScan ==
    [pass |-> 1, i |-> 1, at |-> "probe", unhooked |-> 0, left |-> FALSE]

\* _nm_prev, and prev between the read and its assignment.
NmValues == {"unset", "on", "off"}

Scans == [pass : 1..Attempts, i : 1..3, unhooked : 0..MaxUnhook, left : BOOLEAN,
          at : {"probe", "delete", "flush", "drop", "reprobe", "exists", "done"}]

\* The requests that the tray may still send, and the last reply.
Requests  == {"up", "check", "down"}
Later(op) == CASE op = "up" -> {"check", "down"} [] op = "check" -> {"down"} [] op = "down" -> {}
Replies   == {"none", "ok", "refused", "invalid", "intact", "broken"}

\* alone is not in the code: no other process, and no orphaned command, has been
\* at work since this one started.
ProcStates ==
    [task  : Tasks,
     todo  : SUBSET Requests,
     stdin : {"open", "closed"},
     next  : 1..NmStash,
     scan  : Scans,
     prev  : NmValues,
     stash : NmValues,
     reply : Replies,
     alone : BOOLEAN]

Unborn ==
    [task |-> "unborn", todo |-> Requests, stdin |-> "open", next |-> 1,
     scan |-> FirstScan, prev |-> "unset", stash |-> "unset", reply |-> "none",
     alone |-> FALSE]

\* Enter teardown(); only from "undo" does main go on to read requests.
Teardown(h, task) ==
    [proc EXCEPT ![h].task = task, ![h].scan = FirstScan, ![h].next = 1,
                 ![h].prev = "unset", ![h].reply = "none",
                 ![h].todo = IF task = "undo" THEN @ ELSE {}]

\* A process that is no more has no locals.
Over(p, task) == [Unborn EXCEPT !.task = task, !.alone = p.alone]

-----------------------------------------------------------------------------
(* teardown() *)

\* The command that follows s.at when that one returned ok, with up to that many
\* passes (_teardown_pass in the loop of _teardown_rules).
Sweep(s, ok, attempts) ==
    CASE s.at = "probe" ->
             [s EXCEPT !.at = IF ok THEN "delete" ELSE "flush"]
      [] s.at = "delete" ->
             [s EXCEPT !.at = IF ok /\ s.unhooked + 1 < MaxUnhook
                              THEN "probe" ELSE "flush",
                       !.unhooked = IF ok THEN @ + 1 ELSE @]
      [] s.at = "flush" -> [s EXCEPT !.at = "drop"]
      [] s.at = "drop" -> [s EXCEPT !.at = "reprobe"]
      [] s.at = "reprobe" -> [s EXCEPT !.at = "exists", !.left = @ \/ ok]
      [] s.at = "exists" ->
             LET left == s.left \/ ok
             IN  IF s.i < Len(TeardownOrder)
                 THEN [s EXCEPT !.i = @ + 1, !.at = "probe", !.unhooked = 0,
                                !.left = left]
                 ELSE IF left /\ s.pass < attempts
                      THEN [FirstScan EXCEPT !.pass = s.pass + 1]
                      ELSE [s EXCEPT !.at = "done", !.left = left]

\* Mutant: a single sweep, however much it left.
NextScanOnce(s, ok) == Sweep(s, ok, 1)

\* Mutant: off by one in the number of passes.
NextScanOneMore(s, ok) == Sweep(s, ok, Attempts + 1)

\* Mutant: only the jump is looked for afterwards, not the chain.
NextScanJumpsOnly(s, ok) == Sweep(s, ok /\ s.at # "exists", Attempts)

NextScan(s, ok) == Sweep(s, ok, Attempts)

TeardownCommand(h) ==
    LET s == proc[h].scan
    IN  Command(IF s.at = "reprobe" THEN "probe" ELSE s.at, TeardownOrder[s.i], h)

TeardownStep(h) ==
    /\ proc[h].task \in Tearing
    /\ proc[h].scan.at # "done"
    /\ \E ok \in BOOLEAN :
          /\ Run(TeardownCommand(h), ok)
          /\ proc' = [proc EXCEPT ![h].scan = NextScan(@, ok)]
    /\ UNCHANGED <<nm, userNm, orphans>>

\* What a helper does after teardown() returned and the check was restored.
\* A reply to a parent that is gone raises, which leads to the final teardown.
Answered(p, reply) ==
    LET q == [p EXCEPT !.next = 1, !.prev = "unset", !.scan = FirstScan]
    IN  {[q EXCEPT !.task = "idle", !.reply = reply]} \cup
        (IF p.stdin = "closed" THEN {[q EXCEPT !.task = "final", !.todo = {}]} ELSE {})

Resumed(p) ==
    CASE p.task = "clean" -> {[p EXCEPT !.task = "build", !.scan = FirstScan]}
      [] p.task = "undo" -> Answered(p, "refused")
      [] p.task = "down" -> Answered(p, p.reply)
      [] p.task \in {"final", "bail", "repair"} -> {Over(p, "gone")}

\* Mutant: the stash is never put back.
RestoreSkipped(h) ==
    /\ proc[h].task \in Tearing
    /\ proc[h].scan.at = "done"
    /\ \E p \in Resumed(proc[h]) : proc' = [proc EXCEPT ![h] = p]
    /\ UNCHANGED <<table, nm, userNm, orphans, mishaps>>

\* nm_check_restore, then back to the caller of teardown().  --repair forces
\* the check on when it has no stash, which is always.
Restore(h) ==
    LET stash == IF h \in Repairs THEN "on" ELSE proc[h].stash
    IN  /\ proc[h].task \in Tearing
        /\ proc[h].scan.at = "done"
        /\ \/ stash = "unset" /\ UNCHANGED <<nm, mishaps>>
           \/ stash # "unset" /\ \E ok \in BOOLEAN :
                 Bus(ok) /\ nm' = IF ok THEN stash ELSE nm
        /\ \E p \in Resumed([proc[h] EXCEPT !.stash = "unset"]) :
              proc' = [proc EXCEPT ![h] = p]
        /\ UNCHANGED <<table, userNm, orphans>>

-----------------------------------------------------------------------------
(* bring_up() *)

BuildCommand(h) ==
    LET c == UpCommands[proc[h].next] IN Command(c[1], c[2], h)

\* Mutant: a command that fails is logged and passed over.
BuildStepUnchecked(h) ==
    /\ proc[h].task = "build"
    /\ proc[h].next <= Len(UpCommands)
    /\ \E ok \in BOOLEAN : Run(BuildCommand(h), ok)
    /\ proc' = [proc EXCEPT ![h].next = @ + 1]
    /\ UNCHANGED <<nm, userNm, orphans>>

\* Mutant: the refusal is reported, what was built so far stays.
BuildStepHalfBuilt(h) ==
    /\ proc[h].task = "build"
    /\ proc[h].next <= Len(UpCommands)
    /\ \E ok \in BOOLEAN :
          /\ Run(BuildCommand(h), ok)
          /\ IF ok THEN proc' = [proc EXCEPT ![h].next = @ + 1]
             ELSE \E q \in Answered(proc[h], "refused") : proc' = [proc EXCEPT ![h] = q]
    /\ UNCHANGED <<nm, userNm, orphans>>

BuildStep(h) ==
    /\ proc[h].task = "build"
    /\ proc[h].next <= Len(UpCommands)
    /\ \E ok \in BOOLEAN :
          /\ Run(BuildCommand(h), ok)
          /\ proc' = IF ok THEN [proc EXCEPT ![h].next = @ + 1]
                     ELSE Teardown(h, "undo")
    /\ UNCHANGED <<nm, userNm, orphans>>

\* flush_conntrack: whether it works or the tool is there does not matter here.
FlushStep(h) ==
    /\ proc[h].task = "build"
    /\ proc[h].next = FlushAt
    /\ proc' = [proc EXCEPT ![h].next = NmRead]
    /\ UNCHANGED <<table, nm, userNm, orphans, mishaps>>

\* nm_check_disable: nothing in it is fatal.
NmStep(h) ==
    LET p == proc[h]
    IN  /\ p.task = "build"
        /\ \/ /\ p.next = NmRead
              /\ \E ok \in BOOLEAN :
                    /\ Bus(ok)
                    /\ IF ok
                       THEN proc' = [proc EXCEPT ![h].next = NmOff, ![h].prev = nm]
                       ELSE \E q \in Answered(p, "ok") : proc' = [proc EXCEPT ![h] = q]
              /\ UNCHANGED nm
           \/ /\ p.next = NmOff
              /\ \E ok \in BOOLEAN :
                    /\ Bus(ok)
                    /\ nm' = IF ok THEN "off" ELSE nm
                    /\ IF ok
                       THEN proc' = [proc EXCEPT ![h].next = NmStash]
                       ELSE \E q \in Answered(p, "ok") : proc' = [proc EXCEPT ![h] = q]
           \/ /\ p.next = NmStash
              /\ \E q \in Answered([p EXCEPT !.stash = p.prev], "ok") :
                    proc' = [proc EXCEPT ![h] = q]
              /\ UNCHANGED <<nm, mishaps>>
        /\ UNCHANGED <<table, userNm, orphans>>

-----------------------------------------------------------------------------
(* main *)

\* The tray starts a helper when the one before has been told to go; --repair
\* can run at any time.
Spawn(h) ==
    /\ proc[h].task = "unborn"
    /\ h \in Helpers =>
          \A o \in Helpers \ {h} : proc[o].task = "unborn" \/ proc[o].stdin = "closed"
                                   \/ ~Running(o)
    /\ proc' = [o \in Procs |->
                  IF o = h
                  THEN [proc[h] EXCEPT
                          !.task = IF h \in Repairs THEN "repair" ELSE "idle",
                          !.alone = orphans = {} /\ ~\E q \in Procs : Running(q)]
                  ELSE [proc[o] EXCEPT !.alone = @ /\ ~Running(o)]]
    /\ UNCHANGED <<table, nm, userNm, orphans, mishaps>>

\* The tray closes the pipe, or dies.
CloseStdin(h) ==
    /\ h \in Helpers
    /\ Running(h)
    /\ proc[h].stdin = "open"
    /\ proc' = [proc EXCEPT ![h].stdin = "closed"]
    /\ UNCHANGED <<table, nm, userNm, orphans, mishaps>>

\* Requests written before the pipe was closed are still read.  The tray checks
\* only what came up, and it need not.
Receive(h) ==
    LET p == proc[h]
    IN  /\ p.task = "idle"
        /\ \E op \in p.todo :
              /\ "up" \in p.todo => op = "up"
              /\ op = "check" => p.reply = "ok"
              /\ proc' = [proc EXCEPT ![h].task = IF op = "up" THEN "clean" ELSE op,
                                      ![h].scan = FirstScan, ![h].reply = "none",
                                      ![h].todo = Later(op)]
        /\ UNCHANGED <<table, nm, userNm, orphans, mishaps>>

\* RuleError: validate rejects the parameters of up before anything is torn down
\* or built.  (The ssh port is the one that no dialog checks.)
Reject(h) ==
    LET p == proc[h]
    IN  /\ p.task = "idle"
        /\ "up" \in p.todo
        /\ \E q \in Answered([p EXCEPT !.todo = Later("up")], "invalid") :
              proc' = [proc EXCEPT ![h] = q]
        /\ UNCHANGED <<table, nm, userNm, orphans, mishaps>>

\* chains_intact: every probe is run, one that misses is enough.
CheckStep(h) ==
    LET p == proc[h]
    IN  /\ p.task = "check"
        /\ \E ok \in BOOLEAN :
              LET missing == p.scan.left \/ ~ok
              IN  /\ Run(Command("probe", TeardownOrder[p.next], h), ok)
                  /\ IF p.next < Len(TeardownOrder)
                     THEN proc' = [proc EXCEPT ![h].next = @ + 1, ![h].scan.left = missing]
                     ELSE \E q \in Answered(p, IF missing THEN "broken" ELSE "intact") :
                             proc' = [proc EXCEPT ![h] = q]
        /\ UNCHANGED <<nm, userNm, orphans>>

\* Mutant: the empty line that means EOF is skipped like a blank one.
ReadEofSkipped(h) ==
    /\ proc[h].task = "idle"
    /\ proc[h].stdin = "closed"
    /\ UNCHANGED vars

ReadEof(h) ==
    /\ proc[h].task = "idle"
    /\ proc[h].stdin = "closed"
    /\ proc' = Teardown(h, "final")
    /\ UNCHANGED <<table, nm, userNm, orphans, mishaps>>

\* The command a helper is waiting for, when it is one that changes something.
InFlight(h) ==
    LET p == proc[h]
    IN  IF p.task = "build" /\ p.next <= Len(UpCommands) THEN {BuildCommand(h)}
        ELSE IF p.task \in Tearing /\ p.scan.at \in {"delete", "flush", "drop"}
        THEN {TeardownCommand(h)} ELSE {}

\* _bail: Python runs the handler between two commands or while it waits for
\* one, which then goes on by itself.  The handler tears down and exits.
SigTerm(h) ==
    /\ Fault("term")
    /\ h \in Helpers
    /\ Running(h)
    /\ \/ UNCHANGED orphans
       \/ orphans' = orphans \cup InFlight(h)
    /\ proc' = Teardown(h, "bail")
    /\ UNCHANGED <<table, nm, userNm>>

SigKill(h) ==
    /\ Fault("kill")
    /\ Running(h)
    /\ \/ UNCHANGED orphans
       \/ orphans' = orphans \cup InFlight(h)
    /\ proc' = [proc EXCEPT ![h] = Over(@, "killed")]
    /\ UNCHANGED <<table, nm, userNm>>

\* An orphaned command has the lock at last, or gives up.
OrphanRuns ==
    /\ \E cmd \in orphans, ok \in BOOLEAN :
          /\ Run(cmd, ok)
          /\ orphans' = orphans \ {cmd}
    /\ UNCHANGED <<nm, userNm, proc>>

-----------------------------------------------------------------------------
Init ==
    /\ userNm \in {"on", "off"}
    /\ nm = userNm
    /\ table \in {[c \in Chains |-> NoChain]} \cup
                 {[c \in Chains |-> [exists |-> TRUE, rules |-> Former, jumps |-> n]]
                     : n \in Stacked}
    /\ proc = [h \in Procs |-> Unborn]
    /\ orphans = {}
    /\ mishaps = 0

Serve(h) == TeardownStep(h) \/ Restore(h) \/ BuildStep(h) \/ FlushStep(h)
            \/ NmStep(h) \/ CheckStep(h) \/ Receive(h) \/ Reject(h) \/ ReadEof(h)

Next == \/ \E h \in Procs : Serve(h) \/ Spawn(h) \/ CloseStdin(h) \/ SigTerm(h)
                            \/ SigKill(h)
        \/ OrphanRuns

\* A helper goes on as long as it is there, and so does a command: LOCK_WAIT
\* and the bus timeout bound every one of them.
Fairness == /\ \A h \in Procs : WF_vars(Serve(h))
            /\ WF_vars(OrphanRuns)

Spec == Init /\ [][Next]_vars /\ Fairness

-----------------------------------------------------------------------------
(* Properties *)

\* Kernel, NetworkManager and processes keep their shapes.
TypeOK ==
    /\ table \in Tables
    /\ nm \in {"on", "off"}
    /\ userNm \in {"on", "off"}
    /\ proc \in [Procs -> ProcStates]
    /\ orphans \subseteq Commands
    /\ mishaps \in 0..MaxFaults

Jumped(c) == table[c].jumps > 0

Alone(h) == proc[h].alone

\* No two processes have been at work at the same time.
NoOverlap == \A h \in Procs : proc[h].task # "unborn" => proc[h].alone

\* The processes that had rules to remove have all run to their end.
Quiet == /\ orphans = {}
         /\ \E h \in Procs : proc[h].task = "gone"
         /\ \A h \in Procs : proc[h].task \in {"unborn", "gone"}

\* Filled and jumped to: what a packet meets.
Standing == {c \in Chains : Jumped(c) /\ table[c].rules # NoProc}

\* Order is load-bearing: while the redirect captures traffic or both kill
\* switches stand, no packet leaves with the real address, at any point of a build,
\* a teardown or a SIGTERM.  While the redirect stands, no lookup that it sees leaves
\* either; between kill switch and redirect, those to a resolver on the IPv4 LAN still
\* do, and nothing else does.
NoEscape ==
    NoOverlap /\ ("nat" \in Standing \/ {"guard", "guard6"} \subseteq Standing) =>
        Escaping[Standing] = IF "nat" \in Standing THEN {} ELSE LanLookups

\* The traffic as FailClosed sees it.  Nothing is claimed any more once two
\* processes have been at work at the same time.
Mode ==
    LET guarded == {"guard", "guard6"} \subseteq Standing
    IN  IF ~NoOverlap THEN "closed"
        ELSE IF "nat" \in Standing THEN IF guarded THEN "captured" ELSE "leaking"
        ELSE IF guarded THEN "closed" ELSE "open"

Promise == INSTANCE FailClosed WITH mode <- Mode

\* The helper implements FailClosed, command by command: traffic is never captured
\* before it is closed off, nor opened before it is closed, if one lock is missed at most.
FailsClosed == Promise!Spec

\* h has answered "ok" to up and nothing else since.
HasBuilt(h) == Alone(h) /\ proc[h].task = "idle" /\ proc[h].reply = "ok"
                        /\ proc[h].todo = {"check", "down"}

\* An "ok" to up means every chain is in place, filled with this helper's ports
\* and jumped to once.
UpIsIntact ==
    \A h \in Helpers : HasBuilt(h) =>
        \A c \in Chains : table[c] = [exists |-> TRUE, rules |-> h, jumps |-> 1]

\* An "ok" to up means every connection is treated as documented: TCP captured,
\* lookups too, UDP, ICMP and IPv6 rejected, the carrier and the IPv4 LAN left alone.
\* TCP connections from before the rules are, once flushed.  The one exception is
\* IPv6 to local addresses, which goes out directly, ICMP and lookups included.
UpDelivers ==
    (\E h \in Helpers : HasBuilt(h)) => Mistreated[Standing] = LocalV6Traffic

\* A connection from before the rules that was not flushed meets the kill switch:
\* none goes on to leave by itself.
OlderStopped == (\E h \in Helpers : HasBuilt(h)) => OlderDirect[Standing] = {}

\* All or nothing: a refused up leaves no chain that traffic goes through.
RefusedIsClean ==
    \A h \in Helpers :
        Alone(h) /\ proc[h].task = "idle" /\ proc[h].reply = "refused" =>
            \A c \in Chains : ~Jumped(c)

\* When every helper has run to its end, no chain is jumped to, however their
\* teardowns and builds overlapped.
ReleasedAtExit == Quiet => \A c \in Chains : ~Jumped(c)

\* A teardown that reports nothing standing is right: no chain of Tunly is left.
\* (In the SIGTERM handler an orphaned "new" can still put one back.)
TeardownHonest ==
    \A h \in Procs :
        Alone(h) /\ proc[h].task \in Tearing \ {"bail"} /\ proc[h].scan.at = "done"
                 /\ ~proc[h].scan.left =>
            \A c \in Chains : ~Jumped(c) /\ ~table[c].exists

\* The connectivity check is what the user had made it.
CheckRestored ==
    Quiet /\ NoOverlap /\ (\A r \in Repairs : proc[r].task = "unborn") => nm = userNm

\* Once its pipe is closed, a helper comes to its end, whatever it was at.
EofEndsHelper ==
    \A h \in Helpers :
        (Running(h) /\ proc[h].stdin = "closed") ~> ~Running(h)
=============================================================================
