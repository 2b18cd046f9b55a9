--------------------------- MODULE NetguardProofs ---------------------------
(***************************************************************************)
(* What an "ok" to up is worth: whatever helpers, stacked jumps, lost      *)
(* locks and signals there are, a helper that nobody got in the way of has *)
(* built all three chains, and they treat every packet as promised.        *)
(***************************************************************************)
EXTENDS Netguard, NetfilterProofs

\* A chain that is not there is referred to by nothing.
KernelOK == \A c \in Chains : ~table[c].exists => table[c] = NoChain

\* A jump is looked for or removed only while the limit allows.
ScanFits(s) == s.at \in {"probe", "delete"} => s.unhooked < MaxUnhook

\* The chain as h leaves it.
Whole(h) == [exists |-> TRUE, rules |-> h, jumps |-> 1]

\* How far the up commands of h before the n-th have come with chain c.
FirstUp(c) == CASE c = "guard" -> 1 [] c = "guard6" -> 4 [] c = "nat" -> 7

Built(k, h, c, n) ==
    /\ n = FirstUp(c) + 1 => k[c] = [exists |-> TRUE, rules |-> NoProc, jumps |-> 0]
    /\ n = FirstUp(c) + 2 => k[c] = [exists |-> TRUE, rules |-> h, jumps |-> 0]
    /\ n > FirstUp(c) + 2 => k[c] = Whole(h)

\* What holds of one process that has been alone since it started.
Undisturbed(h, p, k) ==
    /\ p.task = "build" => \A c \in Chains : Built(k, h, c, p.next)
    /\ p.task = "idle" /\ p.reply = "ok" => \A c \in Chains : k[c] = Whole(h)

\* Where the locals of a process stand.
Local(p) ==
    /\ ScanFits(p.scan)
    /\ p.task \in {"unborn", "idle", "clean"} => p.next = 1
    /\ p.task = "check" => p.next \in 1..Len(TeardownOrder)
    /\ p.task \in {"unborn", "down"} => p.reply = "none"

ProcOK(h) ==
    /\ Local(proc[h])
    /\ Alone(h) => Undisturbed(h, proc[h], table)

\* Alone means that no other process, and no orphaned command, is at work.
AloneOK(h) ==
    Alone(h) /\ Running(h) =>
        /\ \A o \in Procs \ {h} : ~Running(o)
        /\ proc[h].task # "bail" => orphans = {}

\* The inductive invariant.
IInv == TypeOK /\ KernelOK /\ \A h \in Procs : ProcOK(h) /\ AloneOK(h)

-----------------------------------------------------------------------------
(* The operators *)

LEMMA ChainAfterType ==
  ASSUME NEW ch \in ChainStates, ~ch.exists => ch = NoChain,
         NEW cmd \in Commands, NEW k \in Tables, k[cmd.chain] = ch, Works(k, cmd)
  PROVE  /\ ChainAfter(ch, cmd) \in ChainStates
         /\ ~ChainAfter(ch, cmd).exists => ChainAfter(ch, cmd) = NoChain
<1>1. cmd.op \in Ops /\ cmd.by \in Procs
  BY DEF Commands
<1>2. CASE cmd.op = "new"
  <2>1. ChainAfter(ch, cmd) = [ch EXCEPT !.exists = TRUE]
    BY <1>2 DEF ChainAfter
  <2>2. QED
    BY <2>1 DEF ChainStates
<1>3. CASE cmd.op = "fill"
  <2>1. ChainAfter(ch, cmd) = [ch EXCEPT !.rules = cmd.by] /\ ch.exists
    BY <1>3 DEF ChainAfter, Works
  <2>2. QED
    BY <1>1, <2>1 DEF ChainStates
<1>4. CASE cmd.op = "jump"
  <2>1. ChainAfter(ch, cmd) = [ch EXCEPT !.jumps = @ + 1] /\ ch.exists
    BY <1>4 DEF ChainAfter, Works
  <2>2. QED
    BY <2>1 DEF ChainStates
<1>5. CASE cmd.op = "delete"
  <2>1. ChainAfter(ch, cmd) = [ch EXCEPT !.jumps = @ - 1] /\ ch.jumps > 0
    BY <1>5 DEF ChainAfter, Works
  <2>2. QED
    BY <2>1 DEF ChainStates, NoChain
<1>6. CASE cmd.op = "flush"
  <2>1. ChainAfter(ch, cmd) = [ch EXCEPT !.rules = NoProc] /\ ch.exists
    BY <1>6 DEF ChainAfter, Works
  <2>2. QED
    BY <2>1 DEF ChainStates
<1>7. CASE cmd.op = "drop"
  <2>1. ChainAfter(ch, cmd) = NoChain
    BY <1>7 DEF ChainAfter
  <2>2. QED
    BY <2>1 DEF ChainStates, NoChain
<1>8. CASE cmd.op \in {"probe", "exists"}
  BY <1>8 DEF ChainAfter
<1>9. QED
  BY <1>1, <1>2, <1>3, <1>4, <1>5, <1>6, <1>7, <1>8 DEF Ops

LEMMA RunType ==
  ASSUME table \in Tables, mishaps \in 0..MaxFaults, KernelOK,
         NEW cmd \in Commands, NEW ok \in BOOLEAN, Run(cmd, ok)
  PROVE  table' \in Tables /\ mishaps' \in 0..MaxFaults /\ KernelOK'
<1>1. cmd.chain \in Chains
  BY DEF Commands
<1>2. mishaps' \in 0..MaxFaults
  BY NetguardAssumption DEF Run, Fault
<1>3. CASE table' = table
  BY <1>2, <1>3 DEF KernelOK
<1>4. CASE Works(table, cmd) /\ table' = After(table, cmd)
  <2> DEFINE v == ChainAfter(table[cmd.chain], cmd)
  <2>1. v \in ChainStates /\ (~v.exists => v = NoChain)
    BY <1>1, <1>4, ChainAfterType DEF Tables, KernelOK
  <2>2. table' = [table EXCEPT ![cmd.chain] = v]
    BY <1>4 DEF After
  <2> HIDE DEF v
  <2>3. QED
    BY <1>1, <1>2, <2>1, <2>2 DEF KernelOK, Tables
<1>5. QED
  BY <1>3, <1>4 DEF Run

LEMMA ScanStep ==
  ASSUME NEW s \in Scans, ScanFits(s), s.at # "done", NEW ok \in BOOLEAN
  PROVE  NextScan(s, ok) \in Scans /\ ScanFits(NextScan(s, ok))
<1> DEFINE n == NextScan(s, ok)
<1>1. MaxUnhook \in Nat \ {0} /\ Attempts \in Nat \ {0}
  BY NetguardAssumption
<1>2. CASE s.at = "probe"
  <2>1. n = [s EXCEPT !.at = IF ok THEN "delete" ELSE "flush"]
    BY <1>2 DEF NextScan, Sweep
  <2>2. QED
    BY <1>1, <1>2, <2>1 DEF Scans, ScanFits
<1>3. CASE s.at = "delete"
  <2> DEFINE at == IF ok /\ s.unhooked + 1 < MaxUnhook THEN "probe" ELSE "flush"
             unhooked == IF ok THEN s.unhooked + 1 ELSE s.unhooked
  <2>1. n = [s EXCEPT !.at = at, !.unhooked = unhooked]
    BY <1>3 DEF NextScan, Sweep
  <2>2. s.unhooked \in Nat /\ s.unhooked < MaxUnhook
    BY <1>1, <1>3 DEF Scans, ScanFits
  <2>3. /\ at \in {"probe", "flush"} /\ unhooked \in 0..MaxUnhook
        /\ at = "probe" => unhooked < MaxUnhook
    BY <1>1, <2>2
  <2> HIDE DEF at, unhooked
  <2>4. QED
    BY <2>1, <2>3 DEF Scans, ScanFits
<1>4. CASE s.at \in {"flush", "drop"}
  <2>1. n = [s EXCEPT !.at = IF s.at = "flush" THEN "drop" ELSE "reprobe"]
    BY <1>4 DEF NextScan, Sweep
  <2>2. QED
    BY <2>1 DEF Scans, ScanFits
<1>5. CASE s.at = "reprobe"
  <2>1. n = [s EXCEPT !.at = "exists", !.left = @ \/ ok]
    BY <1>5 DEF NextScan, Sweep
  <2>2. QED
    BY <2>1 DEF Scans, ScanFits
<1>6. CASE s.at = "exists"
  <2> DEFINE left == s.left \/ ok
  <2>1. n = IF s.i < 3
            THEN [s EXCEPT !.i = @ + 1, !.at = "probe", !.unhooked = 0, !.left = left]
            ELSE IF left /\ s.pass < Attempts
                 THEN [FirstScan EXCEPT !.pass = s.pass + 1]
                 ELSE [s EXCEPT !.at = "done", !.left = left]
    BY <1>6 DEF NextScan, Sweep, TeardownOrder
  <2>2. left \in BOOLEAN /\ s.i \in 1..3 /\ s.pass \in 1..Attempts
    BY DEF Scans
  <2> HIDE DEF left
  <2>3. CASE s.i < 3
    <3>1. n = [s EXCEPT !.i = s.i + 1, !.at = "probe", !.unhooked = 0, !.left = left]
      BY <2>1, <2>3
    <3>2. s.i + 1 \in 1..3 /\ 0 \in 0..MaxUnhook /\ 0 < MaxUnhook
      BY <1>1, <2>2, <2>3
    <3>3. QED
      BY <2>2, <3>1, <3>2 DEF Scans, ScanFits
  <2>4. CASE ~(s.i < 3) /\ left /\ s.pass < Attempts
    <3>1. n = [pass |-> s.pass + 1, i |-> 1, at |-> "probe", unhooked |-> 0,
               left |-> FALSE]
      BY <2>1, <2>4 DEF FirstScan
    <3>2. s.pass + 1 \in 1..Attempts /\ 0 \in 0..MaxUnhook /\ 0 < MaxUnhook
      BY <1>1, <2>2, <2>4
    <3>3. QED
      BY <3>1, <3>2 DEF Scans, ScanFits
  <2>5. CASE ~(s.i < 3) /\ ~(left /\ s.pass < Attempts)
    BY <1>1, <2>1, <2>2, <2>5 DEF Scans, ScanFits
  <2>6. QED
    BY <2>3, <2>4, <2>5
<1>7. QED
  BY <1>2, <1>3, <1>4, <1>5, <1>6 DEF Scans

LEMMA FirstScanType == FirstScan \in Scans /\ ScanFits(FirstScan)
  BY NetguardAssumption DEF FirstScan, Scans, ScanFits

LEMMA Stages ==
  /\ Len(UpCommands) = 9 /\ FlushAt = 10 /\ NmRead = 11 /\ NmOff = 12 /\ NmStash = 13
  /\ 1 \in 1..NmStash
<1>1. Len(UpCommands) = 9
  BY DEF UpCommands
<1>2. QED
  BY <1>1 DEF FlushAt, NmRead, NmOff, NmStash

LEMMA RequestsType ==
  /\ {} \in SUBSET Requests /\ "none" \in Replies
  /\ \A op \in Requests : Later(op) \in SUBSET Requests
<1>1. \A op \in Requests : Later(op) \subseteq Requests
  BY DEF Requests, Later
<1>2. QED
  BY <1>1 DEF Replies

\* Answered keeps a process what it is; it answers or goes to its final teardown.
LEMMA AnsweredType ==
  ASSUME NEW p \in ProcStates, NEW reply \in Replies,
         NEW q \in Answered(p, reply)
  PROVE  /\ q \in ProcStates /\ q.alone = p.alone /\ Local(q)
         /\ q.task \in {"idle", "final"} /\ q.scan = FirstScan
         /\ q.task = "idle" => q.reply = reply
         /\ q.stash = p.stash /\ q.todo \subseteq p.todo
<1> DEFINE r == [p EXCEPT !.next = 1, !.prev = "unset", !.scan = FirstScan]
<1>1. /\ r \in ProcStates /\ r.alone = p.alone /\ r.scan = FirstScan /\ r.next = 1
      /\ r.stash = p.stash /\ r.todo = p.todo
  BY FirstScanType, Stages, RequestsType DEF ProcStates, NmValues
<1>2. q = [r EXCEPT !.task = "idle", !.reply = reply]
      \/ q = [r EXCEPT !.task = "final", !.todo = {}]
  BY DEF Answered
<1> HIDE DEF r
<1>3. CASE q = [r EXCEPT !.task = "idle", !.reply = reply]
  BY <1>1, <1>3, FirstScanType DEF ProcStates, Tasks, Local
<1>4. CASE q = [r EXCEPT !.task = "final", !.todo = {}]
  BY <1>1, <1>4, FirstScanType, RequestsType DEF ProcStates, Tasks, Tearing, Local
<1>5. QED
  BY <1>2, <1>3, <1>4

LEMMA OverType ==
  ASSUME NEW p \in ProcStates, NEW task \in {"gone", "killed"}
  PROVE  /\ Over(p, task) \in ProcStates /\ Over(p, task).alone = p.alone
         /\ Over(p, task).task = task /\ Local(Over(p, task))
  BY FirstScanType, Stages, RequestsType DEF Over, Unborn, ProcStates, Tasks, NmValues, Local

LEMMA TeardownType ==
  ASSUME proc \in [Procs -> ProcStates], NEW h \in Procs, NEW task \in {"undo", "final", "bail"}
  PROVE  \E q \in ProcStates :
            /\ Teardown(h, task) = [proc EXCEPT ![h] = q]
            /\ q.task = task /\ q.alone = proc[h].alone /\ q.scan = FirstScan /\ Local(q)
            /\ q.stash = proc[h].stash
            /\ q.todo = IF task = "undo" THEN proc[h].todo ELSE {}
<1> DEFINE p == proc[h]
           todo == IF task = "undo" THEN p.todo ELSE {}
           q == [p EXCEPT !.task = task, !.scan = FirstScan, !.next = 1, !.prev = "unset",
                          !.reply = "none", !.todo = todo]
<1>1. Teardown(h, task) = [proc EXCEPT ![h] = q]
  BY DEF Teardown, ProcStates
<1>2. p \in ProcStates /\ todo \in SUBSET Requests /\ task \in Tasks
  BY RequestsType DEF ProcStates, Tasks, Tearing
<1> HIDE DEF p, todo
<1>3. /\ q \in ProcStates /\ q.task = task /\ q.alone = p.alone /\ q.scan = FirstScan
      /\ q.stash = p.stash /\ q.todo = todo
  BY <1>2, FirstScanType, Stages, RequestsType DEF ProcStates, NmValues
<1> HIDE DEF q
<1>4. QED
  BY <1>1, <1>3, FirstScanType DEF p, todo, Local

-----------------------------------------------------------------------------
(* The steps *)

\* A step of a process that is running preserves the invariant when the process
\* itself is in order afterwards: if it has been alone, no other one is running.
LEMMA OwnStep ==
  ASSUME IInv, NEW h \in Procs, Running(h), NEW q \in ProcStates,
         proc' = [proc EXCEPT ![h] = q],
         q.alone = proc[h].alone, Local(q),
         proc[h].task = "bail" => q.task \in {"bail", "gone", "killed"},
         table' \in Tables, KernelOK', nm' \in {"on", "off"}, userNm' = userNm,
         mishaps' \in 0..MaxFaults,
         \/ orphans' = orphans
         \/ orphans' \subseteq Commands /\ q.task \in {"bail", "killed"},
         q.alone => Undisturbed(h, q, table')
  PROVE  IInv'
<1>1. TypeOK'
  BY DEF IInv, TypeOK
<1>2. proc'[h] = q /\ \A o \in Procs \ {h} : proc'[o] = proc[o]
  BY DEF IInv, TypeOK
<1>3. ProcOK(h)' /\ AloneOK(h)'
  <2>1. ProcOK(h)'
    BY <1>2 DEF ProcOK, Alone
  <2>2. AloneOK(h)'
    BY <1>2 DEF IInv, AloneOK, Alone, Running
  <2>3. QED
    BY <2>1, <2>2
<1>4. ASSUME NEW o \in Procs \ {h}
      PROVE  ProcOK(o)' /\ AloneOK(o)'
  <2>1. ~(Alone(o) /\ Running(o))
    BY DEF IInv, AloneOK
  <2>2. ~(Alone(o)' /\ Running(o)')
    BY <1>2, <2>1 DEF Alone, Running
  <2>3. ProcOK(o)'
    BY <1>2, <2>2 DEF IInv, ProcOK, Undisturbed, Alone, Running
  <2>4. QED
    BY <2>2, <2>3 DEF AloneOK
<1>5. QED
  BY <1>1, <1>3, <1>4 DEF IInv

LEMMA TeardownStepKeeps ==
  ASSUME IInv, NEW h \in Procs, TeardownStep(h)
  PROVE  IInv'
<1> DEFINE p == proc[h]
<1>1. p \in ProcStates /\ p.task \in Tearing /\ p.scan.at # "done" /\ p.scan \in Scans
  BY DEF IInv, TypeOK, TeardownStep, ProcStates
<1>2. PICK ok \in BOOLEAN :
        /\ Run(TeardownCommand(h), ok)
        /\ proc' = [proc EXCEPT ![h].scan = NextScan(@, ok)]
  BY DEF TeardownStep
<1>3. TeardownCommand(h) \in Commands
  BY <1>1 DEF TeardownCommand, Command, Commands, Ops, Scans, TeardownOrder, Chains
<1>4. table' \in Tables /\ mishaps' \in 0..MaxFaults /\ KernelOK'
  BY <1>2, <1>3, RunType DEF IInv, TypeOK
<1> DEFINE q == [p EXCEPT !.scan = NextScan(p.scan, ok)]
<1>5. proc' = [proc EXCEPT ![h] = q]
  BY <1>2 DEF IInv, TypeOK, ProcStates
<1>6. NextScan(p.scan, ok) \in Scans /\ ScanFits(NextScan(p.scan, ok))
  BY <1>1, ScanStep DEF IInv, ProcOK, Local
<1>7. /\ q \in ProcStates /\ q.alone = p.alone /\ q.task = p.task
      /\ Local(q) /\ Undisturbed(h, q, table')
  BY <1>1, <1>6 DEF ProcStates, IInv, ProcOK, Local, Undisturbed, Tearing
<1>8. Running(h) /\ UNCHANGED <<nm, userNm, orphans>>
  BY <1>1 DEF Running, Tearing, TeardownStep
<1> HIDE DEF q
<1>9. QED
  BY <1>4, <1>5, <1>7, <1>8, OwnStep DEF IInv, TypeOK

LEMMA RestoreKeeps ==
  ASSUME IInv, NEW h \in Procs, Restore(h)
  PROVE  IInv'
<1> DEFINE p == [proc[h] EXCEPT !.stash = "unset"]
<1>1. /\ proc[h] \in ProcStates /\ proc[h].task \in Tearing
      /\ p \in ProcStates /\ p.alone = proc[h].alone /\ p.task = proc[h].task
      /\ p.reply = proc[h].reply /\ p.next = proc[h].next
  BY DEF IInv, TypeOK, Restore, ProcStates, NmValues
<1>2. PICK q \in Resumed(p) : proc' = [proc EXCEPT ![h] = q]
  BY DEF Restore
<1>3. /\ table' = table /\ userNm' = userNm /\ orphans' = orphans
      /\ nm' \in {"on", "off"} /\ mishaps' \in 0..MaxFaults
  BY <1>1, NetguardAssumption DEF Restore, Bus, Fault, IInv, TypeOK, ProcStates, NmValues
<1>4. table' \in Tables /\ KernelOK'
  BY <1>3 DEF IInv, TypeOK, KernelOK
<1>5. /\ q \in ProcStates /\ q.alone = p.alone /\ Local(q)
      /\ q.task = "build" => q.next = 1
      /\ q.task = "idle" => q.reply # "ok"
      /\ p.task = "bail" => q.task = "gone"
  <2> HIDE DEF p
  <2>1. CASE p.task = "clean"
    <3>1. q = [p EXCEPT !.task = "build", !.scan = FirstScan]
      BY <2>1 DEF Resumed
    <3>2. p.next = 1
      BY <1>1, <2>1 DEF IInv, ProcOK, Local
    <3>3. QED
      BY <1>1, <2>1, <3>1, <3>2, FirstScanType DEF ProcStates, Tasks, Local
  <2>2. CASE p.task = "undo"
    <3>1. q \in Answered(p, "refused") /\ "refused" \in Replies
      BY <2>2 DEF Resumed, Replies
    <3>2. QED
      BY <1>1, <2>2, <3>1, AnsweredType
  <2>3. CASE p.task = "down"
    <3>1. q \in Answered(p, "none")
      BY <1>1, <2>3 DEF Resumed, IInv, ProcOK, Local
    <3>2. QED
      BY <1>1, <2>3, <3>1, AnsweredType, RequestsType
  <2>4. CASE p.task \in {"final", "bail", "repair"}
    <3>1. q = Over(p, "gone")
      BY <2>4 DEF Resumed
    <3>2. QED
      BY <1>1, <2>4, <3>1, OverType
  <2>5. QED
    BY <1>1, <2>1, <2>2, <2>3, <2>4 DEF Tearing
<1>6. Undisturbed(h, q, table')
  BY <1>5 DEF Undisturbed, Built, FirstUp, Chains
<1>7. Running(h)
  BY <1>1 DEF Running, Tearing
<1> HIDE DEF p
<1>8. QED
  BY <1>1, <1>2, <1>3, <1>4, <1>5, <1>6, <1>7, OwnStep

\* An up command that succeeds takes its chain one stage further.
LEMMA BuiltFurther ==
  ASSUME NEW k \in Tables, \A c \in Chains : ~k[c].exists => k[c] = NoChain,
         NEW h \in Procs, NEW n \in 1..9,
         NEW cmd, cmd = Command(UpCommands[n][1], UpCommands[n][2], h),
         Works(k, cmd), \A c \in Chains : Built(k, h, c, n)
  PROVE  cmd \in Commands /\ \A c \in Chains : Built(After(k, cmd), h, c, n + 1)
<1> DEFINE d == IF n \in 1..3 THEN "guard" ELSE IF n \in 4..6 THEN "guard6" ELSE "nat"
           op == IF n \in {1, 4, 7} THEN "new" ELSE IF n \in {2, 5, 8} THEN "fill" ELSE "jump"
<1>1. cmd = [op |-> op, chain |-> d, by |-> h]
  BY DEF Command, UpCommands
<1>2. /\ n \in {1, 4, 7} => op = "new" /\ FirstUp(d) = n
      /\ n \in {2, 5, 8} => op = "fill" /\ FirstUp(d) = n - 1
      /\ n \in {3, 6, 9} => op = "jump" /\ FirstUp(d) = n - 2
      /\ d \in Chains
  BY DEF FirstUp, Chains
<1> HIDE DEF d, op
<1>3. cmd \in Commands
  BY <1>1, <1>2 DEF Commands, Ops
<1>4. ASSUME NEW c \in Chains \ {d}
      PROVE  Built(After(k, cmd), h, c, n + 1)
  <2>1. After(k, cmd)[c] = k[c]
    BY <1>1, <1>2 DEF After, Tables
  <2>2. FirstUp(c) \in {1, 4, 7} /\ FirstUp(d) \in {1, 4, 7} /\ FirstUp(c) # FirstUp(d)
    BY <1>2 DEF FirstUp, Chains
  <2>3. n + 1 # FirstUp(c) + 1 /\ n + 1 # FirstUp(c) + 2
        /\ (n + 1 > FirstUp(c) + 2 => n > FirstUp(c) + 2)
    BY <1>2, <2>2
  <2>4. Built(k, h, c, n)
    OBVIOUS
  <2> HIDE DEF Built
  <2>5. QED
    BY <2>1, <2>2, <2>3, <2>4 DEF Built
<1>5. Built(After(k, cmd), h, d, n + 1)
  <2>1. After(k, cmd)[d] = ChainAfter(k[d], cmd) /\ k[d] \in ChainStates
    BY <1>1, <1>2 DEF After, Tables
  <2> DEFINE f == FirstUp(d)
             ch == k[d]
             new == ChainAfter(ch, cmd)
  <2>2. /\ f + 1 = n => ch = [exists |-> TRUE, rules |-> NoProc, jumps |-> 0]
        /\ f + 2 = n => ch = [exists |-> TRUE, rules |-> h, jumps |-> 0]
    <3>1. Built(k, h, d, n)
      BY <1>2
    <3>2. QED
      BY <3>1 DEF Built
  <2>3. SUFFICES /\ f = n => new = [exists |-> TRUE, rules |-> NoProc, jumps |-> 0]
                 /\ f + 1 = n => new = [exists |-> TRUE, rules |-> h, jumps |-> 0]
                 /\ f + 2 = n => new = Whole(h)
    <3>1. f \in {n, n - 1, n - 2} /\ n \in Nat
      BY <1>2
    <3> HIDE DEF f, new
    <3>2. QED
      BY <2>1, <2>3, <3>1 DEF Built, f, new
  <2>4. CASE n \in {1, 4, 7}
    <3>1. new = [ch EXCEPT !.exists = TRUE]
      BY <1>1, <1>2, <2>4 DEF ChainAfter
    <3>2. ~k[d].exists
      <4>1. cmd.op = "new" /\ cmd.chain = d
        BY <1>1, <1>2, <2>4
      <4>2. QED
        BY <4>1 DEF Works
    <3>3. ch = NoChain /\ f = n
      BY <1>2, <2>4, <3>2
    <3> HIDE DEF f, ch, new
    <3>4. new = [exists |-> TRUE, rules |-> NoProc, jumps |-> 0]
      BY <3>1, <3>3 DEF NoChain
    <3>5. f + 1 # n /\ f + 2 # n
      BY <3>3
    <3>6. QED
      BY <3>4, <3>5
  <2>5. CASE n \in {2, 5, 8}
    <3>1. new = [ch EXCEPT !.rules = h]
      BY <1>1, <1>2, <2>5 DEF ChainAfter
    <3>2. f = n - 1 /\ ch = [exists |-> TRUE, rules |-> NoProc, jumps |-> 0]
      BY <1>2, <2>2, <2>5
    <3> HIDE DEF f, ch, new
    <3>3. new = [exists |-> TRUE, rules |-> h, jumps |-> 0]
      BY <3>1, <3>2
    <3>4. f # n /\ f + 2 # n
      BY <3>2
    <3>5. QED
      BY <3>3, <3>4
  <2>6. CASE n \in {3, 6, 9}
    <3>1. new = [ch EXCEPT !.jumps = @ + 1]
      BY <1>1, <1>2, <2>6 DEF ChainAfter
    <3>2. f = n - 2 /\ ch = [exists |-> TRUE, rules |-> h, jumps |-> 0]
      BY <1>2, <2>2, <2>6
    <3> HIDE DEF f, ch, new
    <3>3. new = Whole(h)
      <4>1. new = [exists |-> TRUE, rules |-> h, jumps |-> 0 + 1]
        BY <3>1, <3>2
      <4>2. QED
        BY <4>1 DEF Whole
    <3>4. f # n /\ f + 1 # n
      BY <3>2
    <3>5. QED
      BY <3>3, <3>4
  <2>7. QED
    BY <2>4, <2>5, <2>6
<1>6. QED
  BY <1>3, <1>4, <1>5

LEMMA BuildStepKeeps ==
  ASSUME IInv, NEW h \in Procs, BuildStep(h)
  PROVE  IInv'
<1> DEFINE p == proc[h]
           cmd == BuildCommand(h)
<1>1. /\ p \in ProcStates /\ p.task = "build" /\ p.next \in 1..9 /\ Local(p)
      /\ p.alone => \A c \in Chains : Built(table, h, c, p.next)
  BY Stages DEF IInv, TypeOK, BuildStep, ProcStates, ProcOK, Undisturbed, Alone
<1>2. cmd = Command(UpCommands[p.next][1], UpCommands[p.next][2], h) /\ cmd \in Commands
  BY <1>1 DEF BuildCommand, UpCommands, Command, Commands, Ops, Chains
<1> HIDE DEF cmd
<1>3. PICK ok \in BOOLEAN :
        /\ Run(cmd, ok)
        /\ proc' = IF ok THEN [proc EXCEPT ![h].next = @ + 1] ELSE Teardown(h, "undo")
  BY DEF BuildStep, cmd
<1>4. table' \in Tables /\ mishaps' \in 0..MaxFaults /\ KernelOK'
  BY <1>2, <1>3, RunType DEF IInv, TypeOK
<1>5. Running(h) /\ UNCHANGED <<nm, userNm, orphans>>
  BY <1>1 DEF Running, BuildStep
<1>6. CASE ok
  <2> DEFINE q == [p EXCEPT !.next = p.next + 1]
  <2>1. proc' = [proc EXCEPT ![h] = q]
    BY <1>3, <1>6 DEF IInv, TypeOK, ProcStates
  <2>2. /\ q \in ProcStates /\ q.alone = p.alone /\ q.task = "build" /\ Local(q)
        /\ q.next = p.next + 1
    BY <1>1, Stages DEF ProcStates, Local
  <2>3. p.alone => \A c \in Chains : Built(table', h, c, q.next)
    <3>1. Works(table, cmd) /\ table' = After(table, cmd)
      BY <1>3, <1>6 DEF Run
    <3>2. QED
      BY <1>1, <1>2, <2>2, <3>1, BuiltFurther DEF IInv, TypeOK, KernelOK
  <2>4. p.alone => Undisturbed(h, q, table')
    BY <2>2, <2>3 DEF Undisturbed
  <2> HIDE DEF q
  <2>5. QED
    BY <1>1, <1>4, <1>5, <2>1, <2>2, <2>4, OwnStep DEF IInv, TypeOK
<1>7. CASE ~ok
  <2>1. PICK q \in ProcStates :
          /\ proc' = [proc EXCEPT ![h] = q]
          /\ q.task = "undo" /\ q.alone = p.alone /\ Local(q)
    BY <1>3, <1>7, TeardownType DEF IInv, TypeOK
  <2>2. Undisturbed(h, q, table')
    BY <2>1 DEF Undisturbed
  <2>3. QED
    BY <1>1, <1>4, <1>5, <2>1, <2>2, OwnStep DEF IInv, TypeOK
<1>8. QED
  BY <1>6, <1>7

\* Behind the last up command every chain is complete.
LEMMA BuiltUp ==
  ASSUME NEW k, NEW h, NEW n \in 10..13, \A c \in Chains : Built(k, h, c, n)
  PROVE  \A c \in Chains : k[c] = Whole(h)
<1>1. ASSUME NEW c \in Chains
      PROVE  k[c] = Whole(h)
  <2>1. FirstUp(c) \in {1, 4, 7}
    BY DEF FirstUp, Chains
  <2>2. n > FirstUp(c) + 2
    BY <2>1
  <2>3. QED
    BY <2>2 DEF Built
<1>2. QED
  BY <1>1

LEMMA FlushStepKeeps ==
  ASSUME IInv, NEW h \in Procs, FlushStep(h)
  PROVE  IInv'
<1> DEFINE p == proc[h]
           q == [p EXCEPT !.next = NmRead]
<1>1. /\ p \in ProcStates /\ p.task = "build" /\ p.next = 10 /\ Local(p)
      /\ p.alone => \A c \in Chains : Built(table, h, c, p.next)
  BY Stages DEF IInv, TypeOK, FlushStep, ProcOK, Undisturbed, Alone
<1>2. proc' = [proc EXCEPT ![h] = q]
  BY DEF FlushStep, IInv, TypeOK, ProcStates
<1>3. q \in ProcStates /\ q.alone = p.alone /\ q.task = "build" /\ Local(q) /\ q.next = 11
  BY <1>1, Stages DEF ProcStates, Local
<1>4. p.alone => \A c \in Chains : Built(table, h, c, 11)
  <2>1. p.alone => \A c \in Chains : table[c] = Whole(h)
    BY <1>1, BuiltUp
  <2>2. \A c \in Chains : FirstUp(c) \in {1, 4, 7}
    BY DEF FirstUp, Chains
  <2>3. \A c \in Chains : table[c] = Whole(h) => Built(table, h, c, 11)
    BY <2>2 DEF Built
  <2>4. QED
    BY <2>1, <2>3
<1>5. UNCHANGED <<table, nm, userNm, orphans, mishaps>> /\ Running(h)
  BY <1>1 DEF FlushStep, Running
<1>6. table' \in Tables /\ KernelOK' /\ nm' \in {"on", "off"} /\ mishaps' \in 0..MaxFaults
  BY <1>5 DEF IInv, TypeOK, KernelOK
<1> HIDE DEF q
<1>7. p.alone => Undisturbed(h, q, table')
  BY <1>3, <1>4, <1>5 DEF Undisturbed
<1>8. QED
  BY <1>1, <1>2, <1>3, <1>5, <1>6, <1>7, OwnStep

LEMMA NmStepKeeps ==
  ASSUME IInv, NEW h \in Procs, NmStep(h)
  PROVE  IInv'
<1> DEFINE p == proc[h]
<1>1. /\ p \in ProcStates /\ p.task = "build" /\ p.next \in 11..13 /\ Local(p)
      /\ p.alone => \A c \in Chains : Built(table, h, c, p.next)
  BY Stages DEF IInv, TypeOK, NmStep, ProcOK, Undisturbed, Alone
<1>2. p.alone => \A c \in Chains : table[c] = Whole(h)
  BY <1>1, BuiltUp
<1>3. /\ table' = table /\ userNm' = userNm /\ orphans' = orphans
      /\ nm' \in {"on", "off"} /\ mishaps' \in 0..MaxFaults
  BY NetguardAssumption DEF NmStep, Bus, Fault, IInv, TypeOK
<1>4. table' \in Tables /\ KernelOK'
  BY <1>3 DEF IInv, TypeOK, KernelOK
<1>5. Running(h)
  BY <1>1 DEF Running
<1>6. ASSUME NEW r \in ProcStates, r.alone = p.alone, NEW q \in Answered(r, "ok"),
             proc' = [proc EXCEPT ![h] = q]
      PROVE  IInv'
  <2>1. q \in ProcStates /\ q.alone = p.alone /\ Local(q) /\ q.task \in {"idle", "final"}
    BY <1>6, AnsweredType DEF Replies
  <2>2. p.alone => Undisturbed(h, q, table')
    BY <1>2, <1>3, <2>1 DEF Undisturbed
  <2>3. QED
    BY <1>1, <1>3, <1>4, <1>5, <1>6, <2>1, <2>2, OwnStep
<1>7. ASSUME NEW q \in ProcStates, q.alone = p.alone, q.task = "build", Local(q),
             q.next \in 11..13, proc' = [proc EXCEPT ![h] = q]
      PROVE  IInv'
  <2>1. \A c \in Chains : FirstUp(c) \in {1, 4, 7}
    BY DEF FirstUp, Chains
  <2>2. p.alone => Undisturbed(h, q, table')
    BY <1>2, <1>3, <1>7, <2>1 DEF Undisturbed, Built
  <2>3. QED
    BY <1>1, <1>3, <1>4, <1>5, <1>7, <2>2, OwnStep
<1>8. CASE p.next = NmRead
  <2>1. CASE proc' = [proc EXCEPT ![h].next = NmOff, ![h].prev = nm]
    <3> DEFINE q == [p EXCEPT !.next = NmOff, !.prev = nm]
    <3>1. proc' = [proc EXCEPT ![h] = q]
      BY <2>1 DEF IInv, TypeOK, ProcStates
    <3>2. nm \in NmValues
      BY DEF IInv, TypeOK, NmValues
    <3>3. NmOff \in 11..13 /\ NmOff \in 1..NmStash
      BY Stages
    <3>4. q \in ProcStates /\ q.alone = p.alone /\ q.task = p.task /\ q.scan = p.scan
          /\ q.next = NmOff
      BY <1>1, <3>2, <3>3 DEF ProcStates
    <3>5. Local(q)
      BY <1>1, <3>4 DEF Local
    <3> HIDE DEF q
    <3>6. QED
      BY <1>1, <1>7, <3>1, <3>3, <3>4, <3>5
  <2>2. QED
    BY <1>1, <1>6, <1>8, <2>1, Stages DEF NmStep
<1>9. CASE p.next = NmOff
  <2>1. CASE proc' = [proc EXCEPT ![h].next = NmStash]
    <3> DEFINE q == [p EXCEPT !.next = NmStash]
    <3>1. proc' = [proc EXCEPT ![h] = q]
      BY <2>1 DEF IInv, TypeOK, ProcStates
    <3>2. /\ q \in ProcStates /\ q.alone = p.alone /\ q.task = "build" /\ Local(q)
          /\ q.next \in 11..13
      BY <1>1, Stages DEF ProcStates, Local
    <3> HIDE DEF q
    <3>3. QED
      BY <1>7, <3>1, <3>2
  <2>2. QED
    BY <1>1, <1>6, <1>9, <2>1, Stages DEF NmStep
<1>10. CASE p.next = NmStash
  <2> DEFINE r == [p EXCEPT !.stash = p.prev]
  <2>1. r \in ProcStates /\ r.alone = p.alone
    BY <1>1 DEF ProcStates
  <2>2. \E q \in Answered(r, "ok") : proc' = [proc EXCEPT ![h] = q]
    BY <1>10, Stages DEF NmStep
  <2> HIDE DEF r
  <2>3. QED
    BY <1>6, <2>1, <2>2
<1>11. QED
  BY <1>8, <1>9, <1>10 DEF NmStep

LEMMA CheckStepKeeps ==
  ASSUME IInv, NEW h \in Procs, CheckStep(h)
  PROVE  IInv'
<1> DEFINE p == proc[h]
           cmd == Command("probe", TeardownOrder[p.next], h)
<1>1. p \in ProcStates /\ p.task = "check" /\ p.next \in 1..3 /\ Local(p)
  BY DEF IInv, TypeOK, CheckStep, ProcOK, Local, TeardownOrder
<1>2. cmd \in Commands
  BY <1>1 DEF Command, Commands, Ops, TeardownOrder, Chains
<1>3. PICK ok \in BOOLEAN :
        LET missing == p.scan.left \/ ~ok
        IN  /\ Run(cmd, ok)
            /\ IF p.next < 3
               THEN proc' = [proc EXCEPT ![h].next = @ + 1, ![h].scan.left = missing]
               ELSE \E q \in Answered(p, IF missing THEN "broken" ELSE "intact") :
                       proc' = [proc EXCEPT ![h] = q]
  BY DEF CheckStep, TeardownOrder
<1> HIDE DEF cmd
<1>4. table' \in Tables /\ mishaps' \in 0..MaxFaults /\ KernelOK'
  BY <1>2, <1>3, RunType DEF IInv, TypeOK
<1>5. Running(h) /\ UNCHANGED <<nm, userNm, orphans>>
  BY <1>1 DEF Running, CheckStep
<1>6. CASE p.next < 3
  <2> DEFINE left == p.scan.left \/ ~ok
             q == [p EXCEPT !.next = p.next + 1, !.scan = [@ EXCEPT !.left = left]]
  <2>1. proc' = [proc EXCEPT ![h] = q]
    <3>1. proc' = [proc EXCEPT ![h].next = @ + 1, ![h].scan.left = left]
      BY <1>3, <1>6
    <3> HIDE DEF left
    <3>2. QED
      BY <3>1 DEF IInv, TypeOK, ProcStates
  <2>2. left \in BOOLEAN /\ p.scan \in Scans
    BY <1>1 DEF ProcStates, Scans
  <2> HIDE DEF left
  <2>3. [p.scan EXCEPT !.left = left] \in Scans /\ ScanFits([p.scan EXCEPT !.left = left])
    BY <1>1, <2>2 DEF Scans, Local, ScanFits
  <2>4. p.next + 1 \in 1..3 /\ p.next + 1 \in 1..NmStash
    BY <1>1, <1>6, Stages
  <2>5. q \in ProcStates /\ q.alone = p.alone /\ q.task = "check" /\ Local(q)
    BY <1>1, <2>3, <2>4 DEF ProcStates, Local, TeardownOrder
  <2> HIDE DEF q
  <2>6. Undisturbed(h, q, table')
    BY <2>5 DEF Undisturbed
  <2>7. QED
    BY <1>1, <1>4, <1>5, <2>1, <2>5, <2>6, OwnStep DEF IInv, TypeOK
<1>7. CASE ~(p.next < 3)
  <2>1. PICK reply \in {"broken", "intact"} :
          \E q \in Answered(p, reply) : proc' = [proc EXCEPT ![h] = q]
    BY <1>3, <1>7
  <2>2. PICK q \in Answered(p, reply) : proc' = [proc EXCEPT ![h] = q]
    BY <2>1
  <2>3. /\ q \in ProcStates /\ q.alone = p.alone /\ Local(q)
        /\ q.task \in {"idle", "final"} /\ (q.task = "idle" => q.reply = reply)
    BY <1>1, AnsweredType DEF Replies
  <2>4. Undisturbed(h, q, table')
    BY <2>3 DEF Undisturbed
  <2>5. QED
    BY <1>1, <1>4, <1>5, <2>2, <2>3, <2>4, OwnStep DEF IInv, TypeOK
<1>8. QED
  BY <1>6, <1>7

LEMMA ReceiveKeeps ==
  ASSUME IInv, NEW h \in Procs, Receive(h)
  PROVE  IInv'
<1> DEFINE p == proc[h]
<1>1. p \in ProcStates /\ p.task = "idle" /\ p.next = 1
  BY DEF IInv, TypeOK, Receive, ProcOK, Local
<1>2. PICK op \in p.todo :
        proc' = [proc EXCEPT ![h].task = IF op = "up" THEN "clean" ELSE op,
                             ![h].scan = FirstScan, ![h].reply = "none",
                             ![h].todo = Later(op)]
  BY DEF Receive
<1>3. op \in Requests /\ Later(op) \in SUBSET Requests
  BY <1>1, RequestsType DEF ProcStates
<1> DEFINE task == IF op = "up" THEN "clean" ELSE op
           q == [p EXCEPT !.task = task, !.scan = FirstScan, !.reply = "none",
                          !.todo = Later(op)]
<1>4. task \in {"clean", "check", "down"} /\ task \in Tasks
  BY <1>3 DEF Requests, Tasks, Tearing
<1>5. proc' = [proc EXCEPT ![h] = q]
  BY <1>2 DEF IInv, TypeOK, ProcStates
<1> HIDE DEF task
<1>6. /\ q \in ProcStates /\ q.alone = p.alone /\ q.task = task /\ q.next = 1
      /\ q.reply = "none" /\ q.scan = FirstScan
  BY <1>1, <1>3, <1>4, FirstScanType, RequestsType DEF ProcStates
<1> HIDE DEF q
<1>7. Local(q) /\ Undisturbed(h, q, table')
  BY <1>4, <1>6, FirstScanType DEF Local, Undisturbed, TeardownOrder
<1>8. UNCHANGED <<table, nm, userNm, orphans, mishaps>> /\ Running(h)
  BY <1>1 DEF Receive, Running
<1>9. table' \in Tables /\ KernelOK' /\ nm' \in {"on", "off"} /\ mishaps' \in 0..MaxFaults
  BY <1>8 DEF IInv, TypeOK, KernelOK
<1>10. QED
  BY <1>1, <1>5, <1>6, <1>7, <1>8, <1>9, OwnStep

LEMMA RejectKeeps ==
  ASSUME IInv, NEW h \in Procs, Reject(h)
  PROVE  IInv'
<1> DEFINE p == proc[h]
           asked == [p EXCEPT !.todo = Later("up")]
<1>1. p \in ProcStates /\ p.task = "idle" /\ Local(p)
  BY DEF IInv, TypeOK, Reject, ProcOK
<1>2. /\ asked \in ProcStates /\ asked.alone = p.alone /\ asked.task = "idle"
      /\ Local(asked)
  BY <1>1, RequestsType DEF ProcStates, Local, Requests
<1>3. PICK q \in Answered(asked, "invalid") : proc' = [proc EXCEPT ![h] = q]
  BY DEF Reject
<1> HIDE DEF asked
<1>4. /\ q \in ProcStates /\ q.alone = p.alone /\ Local(q)
      /\ q.task \in {"idle", "final"} /\ (q.task = "idle" => q.reply = "invalid")
  BY <1>2, <1>3, AnsweredType DEF Replies
<1>5. Undisturbed(h, q, table')
  BY <1>4 DEF Undisturbed
<1>6. UNCHANGED <<table, nm, userNm, orphans, mishaps>> /\ Running(h)
  BY <1>1 DEF Reject, Running
<1>7. table' \in Tables /\ KernelOK' /\ nm' \in {"on", "off"} /\ mishaps' \in 0..MaxFaults
  BY <1>6 DEF IInv, TypeOK, KernelOK
<1>8. QED
  BY <1>1, <1>3, <1>4, <1>5, <1>6, <1>7, OwnStep

LEMMA ReadEofKeeps ==
  ASSUME IInv, NEW h \in Procs, ReadEof(h)
  PROVE  IInv'
<1>1. PICK q \in ProcStates :
        /\ proc' = [proc EXCEPT ![h] = q]
        /\ q.task = "final" /\ q.alone = proc[h].alone /\ Local(q)
  BY TeardownType DEF ReadEof, IInv, TypeOK
<1>2. proc[h].task = "idle" /\ Running(h) /\ UNCHANGED <<table, nm, userNm, orphans, mishaps>>
  BY DEF ReadEof, Running
<1>3. table' \in Tables /\ KernelOK' /\ nm' \in {"on", "off"} /\ mishaps' \in 0..MaxFaults
  BY <1>2 DEF IInv, TypeOK, KernelOK
<1>4. Undisturbed(h, q, table')
  BY <1>1 DEF Undisturbed
<1>5. QED
  BY <1>1, <1>2, <1>3, <1>4, OwnStep

LEMMA CloseStdinKeeps ==
  ASSUME IInv, NEW h \in Procs, CloseStdin(h)
  PROVE  IInv'
<1> DEFINE p == proc[h]
           q == [p EXCEPT !.stdin = "closed"]
<1>1. p \in ProcStates /\ Local(p) /\ (p.alone => Undisturbed(h, p, table))
  BY DEF IInv, TypeOK, ProcOK, Alone
<1>2. /\ q \in ProcStates /\ q.alone = p.alone /\ q.task = p.task /\ q.next = p.next
      /\ q.reply = p.reply /\ q.scan = p.scan
  BY <1>1 DEF ProcStates
<1>3. /\ proc' = [proc EXCEPT ![h] = q] /\ Running(h)
      /\ UNCHANGED <<table, nm, userNm, orphans, mishaps>>
  BY DEF CloseStdin, IInv, TypeOK, ProcStates
<1>4. table' \in Tables /\ KernelOK' /\ nm' \in {"on", "off"} /\ mishaps' \in 0..MaxFaults
  BY <1>3 DEF IInv, TypeOK, KernelOK
<1> HIDE DEF q
<1>5. Local(q) /\ (q.alone => Undisturbed(h, q, table'))
  BY <1>1, <1>2, <1>3 DEF Local, Undisturbed
<1>6. p.task = "bail" => q.task \in {"bail", "gone", "killed"}
  BY <1>2
<1>7. QED
  BY <1>2, <1>3, <1>4, <1>5, <1>6, OwnStep

LEMMA InFlightType ==
  ASSUME IInv, NEW h \in Procs
  PROVE  InFlight(h) \subseteq Commands
<1>1. proc[h] \in ProcStates /\ proc[h].scan \in Scans
  BY DEF IInv, TypeOK, ProcStates
<1>2. ASSUME proc[h].next <= Len(UpCommands)
      PROVE  BuildCommand(h) \in Commands
  <2>1. proc[h].next \in 1..9
    BY <1>1, <1>2, Stages DEF ProcStates
  <2>2. QED
    BY <2>1 DEF BuildCommand, UpCommands, Command, Commands, Ops, Chains
<1>3. ASSUME proc[h].scan.at \in {"delete", "flush", "drop"}
      PROVE  TeardownCommand(h) \in Commands
  BY <1>1, <1>3 DEF TeardownCommand, Command, Commands, Ops, Scans, TeardownOrder, Chains
<1>4. QED
  BY <1>2, <1>3 DEF InFlight

LEMMA SignalKeeps ==
  ASSUME IInv, NEW h \in Procs, SigTerm(h) \/ SigKill(h)
  PROVE  IInv'
<1>1. PICK q \in ProcStates :
        /\ proc' = [proc EXCEPT ![h] = q]
        /\ q.task \in {"bail", "killed"} /\ q.alone = proc[h].alone /\ Local(q)
  <2>1. CASE SigTerm(h)
    BY <2>1, TeardownType DEF SigTerm, IInv, TypeOK
  <2>2. CASE SigKill(h)
    BY <2>2, OverType DEF SigKill, IInv, TypeOK
  <2>3. QED
    BY <2>1, <2>2
<1>2. orphans' \subseteq Commands
  BY InFlightType DEF SigTerm, SigKill, IInv, TypeOK
<1>3. /\ Running(h) /\ UNCHANGED <<table, nm, userNm>> /\ mishaps' \in 0..MaxFaults
  BY NetguardAssumption DEF SigTerm, SigKill, Fault, IInv, TypeOK
<1>4. table' \in Tables /\ KernelOK' /\ nm' \in {"on", "off"}
  BY <1>3 DEF IInv, TypeOK, KernelOK
<1>5. Undisturbed(h, q, table')
  BY <1>1 DEF Undisturbed
<1>6. QED
  BY <1>1, <1>2, <1>3, <1>4, <1>5, OwnStep

\* A new process is alone only if it finds nobody; it ends the solitude of others.
LEMMA SpawnKeeps ==
  ASSUME IInv, NEW h \in Procs, Spawn(h)
  PROVE  IInv'
<1> DEFINE task == IF h \in Repairs THEN "repair" ELSE "idle"
           alone == orphans = {} /\ ~\E q \in Procs : Running(q)
           new == [proc[h] EXCEPT !.task = task, !.alone = alone]
           old(o) == [proc[o] EXCEPT !.alone = @ /\ ~Running(o)]
<1>1. proc' = [o \in Procs |-> IF o = h THEN new ELSE old(o)]
  BY DEF Spawn
<1>2. /\ proc[h] \in ProcStates /\ proc[h].task = "unborn" /\ Local(proc[h])
      /\ UNCHANGED <<table, nm, userNm, orphans, mishaps>>
  BY DEF Spawn, IInv, TypeOK, ProcOK
<1>3. task \in {"repair", "idle"} /\ task \in Tasks /\ alone \in BOOLEAN
  BY DEF Tasks, Tearing
<1> HIDE DEF task
<1>4. /\ new \in ProcStates /\ new.task = task /\ new.alone = alone
      /\ new.next = 1 /\ new.reply = "none" /\ new.scan = proc[h].scan
  <2> HIDE DEF alone
  <2>1. QED
    BY <1>2, <1>3 DEF ProcStates, Local
<1>5. ASSUME NEW o \in Procs \ {h}
      PROVE  /\ old(o) \in ProcStates /\ old(o).alone = (proc[o].alone /\ ~Running(o))
             /\ old(o).task = proc[o].task /\ old(o).next = proc[o].next
             /\ old(o).reply = proc[o].reply /\ old(o).scan = proc[o].scan
  <2> DEFINE a == proc[o].alone /\ ~Running(o)
  <2>1. proc[o] \in ProcStates /\ a \in BOOLEAN
    BY DEF IInv, TypeOK
  <2> HIDE DEF a
  <2>2. [proc[o] EXCEPT !.alone = a] \in ProcStates
    BY <2>1 DEF ProcStates
  <2>3. old(o) = [proc[o] EXCEPT !.alone = a]
    BY DEF a
  <2>4. QED
    BY <2>1, <2>2, <2>3 DEF ProcStates, a
<1> HIDE DEF new, old
<1>6. proc' \in [Procs -> ProcStates]
  BY <1>1, <1>4, <1>5
<1>7. TypeOK' /\ KernelOK'
  BY <1>2, <1>6 DEF IInv, TypeOK, KernelOK
<1>8. ASSUME NEW o \in Procs \ {h}
      PROVE  ProcOK(o)' /\ AloneOK(o)'
  <2>1. proc'[o] = old(o)
    BY <1>1
  <2>2. Local(proc'[o])
    BY <1>5, <2>1 DEF IInv, ProcOK, Local
  <2>3. ~(Alone(o)' /\ Running(o)')
    BY <1>5, <2>1 DEF Alone, Running
  <2>4. Alone(o)' => Undisturbed(o, proc'[o], table')
    BY <2>3 DEF Undisturbed, Running, Alone
  <2>5. QED
    BY <2>2, <2>3, <2>4 DEF ProcOK, AloneOK
<1>9. ProcOK(h)' /\ AloneOK(h)'
  <2>1. proc'[h] = new
    BY <1>1
  <2>2. Local(new) /\ Undisturbed(h, new, table')
    BY <1>2, <1>3, <1>4 DEF Local, Undisturbed
  <2>3. Alone(h)' => orphans' = {} /\ \A o \in Procs \ {h} : ~Running(o)'
    <3>1. \A o \in Procs \ {h} : Running(o)' <=> Running(o)
      BY <1>1, <1>5 DEF Running
    <3>2. QED
      BY <1>2, <1>4, <2>1, <3>1 DEF Alone
  <2>4. QED
    BY <2>1, <2>2, <2>3 DEF ProcOK, AloneOK
<1>10. QED
  BY <1>7, <1>8, <1>9 DEF IInv

\* Somebody's orphaned command runs while nobody is alone but in the SIGTERM handler.
LEMMA OrphanKeeps ==
  ASSUME IInv, OrphanRuns
  PROVE  IInv'
<1>1. PICK cmd \in orphans, ok \in BOOLEAN : Run(cmd, ok) /\ orphans' = orphans \ {cmd}
  BY DEF OrphanRuns
<1>2. table' \in Tables /\ mishaps' \in 0..MaxFaults /\ KernelOK'
  BY <1>1, RunType DEF IInv, TypeOK
<1>3. UNCHANGED <<nm, userNm, proc>>
  BY DEF OrphanRuns
<1>4. TypeOK'
  BY <1>1, <1>2, <1>3 DEF IInv, TypeOK
<1>5. ASSUME NEW h \in Procs
      PROVE  ProcOK(h)' /\ AloneOK(h)'
  <2>1. Alone(h) /\ Running(h) => proc[h].task = "bail"
    BY <1>1 DEF IInv, AloneOK
  <2>2. Alone(h) => Undisturbed(h, proc[h], table')
    BY <2>1 DEF Undisturbed, Running
  <2>3. ProcOK(h)'
    BY <1>3, <2>2 DEF IInv, ProcOK, Alone
  <2>4. AloneOK(h)'
    BY <1>1, <1>3, <2>1 DEF IInv, AloneOK, Alone, Running
  <2>5. QED
    BY <2>3, <2>4
<1>6. QED
  BY <1>2, <1>4, <1>5 DEF IInv

-----------------------------------------------------------------------------
(* The theorems *)

LEMMA InitKeeps == Init => IInv
<1> SUFFICES ASSUME Init
             PROVE  IInv
  OBVIOUS
<1>1. table \in Tables /\ KernelOK
  <2>1. ASSUME NEW c \in Chains
        PROVE  table[c] \in ChainStates /\ (~table[c].exists => table[c] = NoChain)
    <3>1. table[c] = NoChain
          \/ \E n \in Stacked : table[c] = [exists |-> TRUE, rules |-> Former, jumps |-> n]
      BY DEF Init
    <3>2. NoChain \in ChainStates
      BY DEF ChainStates, NoChain
    <3>3. \A n \in Stacked : [exists |-> TRUE, rules |-> Former, jumps |-> n] \in ChainStates
      BY NetguardAssumption DEF ChainStates
    <3>4. CASE table[c] = NoChain
      BY <3>2, <3>4
    <3>5. CASE table[c] # NoChain
      <4>1. PICK n \in Stacked : table[c] = [exists |-> TRUE, rules |-> Former, jumps |-> n]
        BY <3>1, <3>5
      <4>2. table[c] \in ChainStates
        BY <3>3, <4>1
      <4>3. table[c].exists
        BY <4>1
      <4>4. QED
        BY <4>2, <4>3
    <3>6. QED
      BY <3>4, <3>5
  <2>2. table \in [Chains -> ChainStates]
    BY <2>1 DEF Init
  <2>3. QED
    BY <2>1, <2>2 DEF Tables, KernelOK
<1>2. Unborn \in ProcStates /\ Local(Unborn) /\ Unborn.task = "unborn"
  BY FirstScanType, Stages, RequestsType
     DEF Unborn, ProcStates, Tasks, NmValues, Local, TeardownOrder
<1>3. \A h \in Procs : proc[h] = Unborn
  BY DEF Init
<1>4. TypeOK
  BY <1>1, <1>2, NetguardAssumption DEF Init, TypeOK
<1>5. ASSUME NEW h \in Procs
      PROVE  ProcOK(h) /\ AloneOK(h)
  BY <1>2, <1>3 DEF ProcOK, AloneOK, Undisturbed, Running
<1>6. QED
  BY <1>1, <1>4, <1>5 DEF IInv

LEMMA NextKeeps == IInv /\ [Next]_vars => IInv'
<1> SUFFICES ASSUME IInv, [Next]_vars
             PROVE  IInv'
  OBVIOUS
<1>1. ASSUME NEW h \in Procs, Serve(h)
      PROVE  IInv'
  BY <1>1, TeardownStepKeeps, RestoreKeeps, BuildStepKeeps, FlushStepKeeps, NmStepKeeps,
     CheckStepKeeps, ReceiveKeeps, RejectKeeps, ReadEofKeeps DEF Serve
<1>2. ASSUME NEW h \in Procs, Spawn(h) \/ CloseStdin(h) \/ SigTerm(h) \/ SigKill(h)
      PROVE  IInv'
  BY <1>2, SpawnKeeps, CloseStdinKeeps, SignalKeeps
<1>3. CASE OrphanRuns
  BY <1>3, OrphanKeeps
<1>4. CASE UNCHANGED vars
  BY <1>4 DEF vars, IInv, TypeOK, KernelOK, ProcOK, AloneOK, Alone, Running
<1>5. QED
  BY <1>1, <1>2, <1>3, <1>4 DEF Next

\* Whatever the helpers, the stacked jumps and the mishaps are, the invariant holds.
THEOREM InvariantHolds == Spec => []IInv
  BY InitKeeps, NextKeeps, PTL DEF Spec

\* Kernel, NetworkManager and processes keep their shapes (netguard.py).
THEOREM TypeHolds == Spec => []TypeOK
<1>1. IInv => TypeOK
  BY DEF IInv
<1>2. QED
  BY <1>1, InvariantHolds, PTL

\* An "ok" to up is worth what it says, however often locks are lost and whatever
\* helpers before have left: all chains are filled by this helper and jumped to
\* once (bring_up and _run, netguard.py:19-31, 137-165).
THEOREM UpIsIntactHolds == Spec => []UpIsIntact
<1>1. IInv => UpIsIntact
  <2> SUFFICES ASSUME IInv, NEW h \in Helpers, HasBuilt(h), NEW c \in Chains
               PROVE  table[c] = Whole(h)
    BY DEF UpIsIntact, Whole
  <2>1. h \in Procs
    BY DEF Procs
  <2>2. QED
    BY <2>1 DEF IInv, ProcOK, Undisturbed, HasBuilt, Alone
<1>2. QED
  BY <1>1, InvariantHolds, PTL

\* With the chains intact, all of them stand.
LEMMA IntactStands ==
  ASSUME UpIsIntact, NEW h \in Helpers, HasBuilt(h)
  PROVE  Standing = Chains
<1>1. h # NoProc
  BY NetguardAssumption DEF Procs
<1>2. \A c \in Chains : table[c] = [exists |-> TRUE, rules |-> h, jumps |-> 1]
  BY DEF UpIsIntact
<1>3. QED
  BY <1>1, <1>2 DEF Standing, Jumped

\* After an "ok" every connection is treated as documented, whatever the addresses
\* and ports, but for IPv6 to local addresses, which goes out directly; unless the ssh
\* server listens on port 53.
THEOREM UpDeliversHolds ==
  ASSUME SshPort # Dns
  PROVE  Spec => []UpDelivers
<1>1. UpIsIntact => UpDelivers
  BY IntactStands, RulesDeliver DEF UpDelivers
<1>2. QED
  BY <1>1, UpIsIntactHolds, PTL

\* After an "ok" no connection from before the rules goes on to leave by itself,
\* flushed or not.
THEOREM OlderStoppedHolds == Spec => []OlderStopped
<1>1. UpIsIntact => OlderStopped
  <2>1. {"guard", "guard6"} \subseteq Chains
    BY DEF Chains
  <2>2. OlderDirect[Chains] = {}
    BY <2>1, KillSwitchHolds
  <2>3. QED
    BY <2>2, IntactStands DEF OlderStopped
<1>2. QED
  BY <1>1, UpIsIntactHolds, PTL

\* Where the helper fails closed, nothing escapes: the order of the commands, which
\* FailsClosed is about, is all that the rules need.
THEOREM FailingClosedKeepsIn == FailsClosed => []NoEscape
<1> DEFINE Sealed == Mode # "leaking"
<1>1. Promise!Init => Sealed
  BY DEF Promise!Init
<1>2. Sealed /\ [Promise!Next]_Mode => Sealed'
  BY DEF Promise!Next, Promise!Close, Promise!Capture, Promise!Open
<1>3. Sealed => NoEscape
  <2> SUFFICES ASSUME Sealed, NoOverlap,
                      "nat" \in Standing \/ {"guard", "guard6"} \subseteq Standing
               PROVE  Escaping[Standing] = IF "nat" \in Standing THEN {} ELSE LanLookups
    BY DEF NoEscape
  <2>1. {"guard", "guard6"} \subseteq Standing
    BY DEF Mode
  <2>2. Standing \in SUBSET Chains
    BY DEF Standing
  <2>3. QED
    BY <2>1, <2>2, KillSwitchHolds
<1> HIDE DEF Sealed
<1>4. QED
  BY <1>1, <1>2, <1>3, PTL DEF FailsClosed, Promise!Spec
=============================================================================
