-------------------------- MODULE FailClosedProofs --------------------------
(***************************************************************************)
(* The helper fails closed: whatever helpers and repairs there are, and    *)
(* however often they get a SIGTERM, are killed or go without an answer    *)
(* from the bus, as long as the lock of the xtables is had in time, or at  *)
(* least no flush that misses it had anything to undo (Emptied).           *)
(*                                                                         *)
(* What makes it true is what a command may be left to do after the helper *)
(* that waited for it is gone.  A removal from the kill switches is only   *)
(* ever begun when the redirect is sealed; a fill of the redirect while    *)
(* nothing jumps to it; a jump to it while the kill switches stand.        *)
(***************************************************************************)
EXTENDS NetguardProofs

LocksHad == "lock" \notin Faults

\* k is a table, left a set of orphaned commands.
Meets(ch)    == ch.jumps > 0 /\ ch.rules # NoProc
Captures(k)  == Meets(k["nat"])
ClosedOff(k) == Meets(k["guard"]) /\ Meets(k["guard6"])

Pending(op, left) == \E o \in left : o.op = op /\ o.chain = "nat"

\* The redirect captures nothing and no command left over can make it.
Sealed(k, left) ==
    /\ ~Captures(k)
    /\ Pending("jump", left) => k["nat"].rules = NoProc

Removal(cmd) == cmd.op \in {"delete", "flush", "drop"}

KernelSafe(k, left) ==
    /\ Captures(k) => ClosedOff(k)
    /\ Pending("fill", left) => k["nat"].jumps = 0 /\ ~Pending("jump", left)
    /\ Pending("jump", left) => k["nat"].rules = NoProc \/ ClosedOff(k)
    /\ \A o \in left : Removal(o) /\ o.chain # "nat" => Sealed(k, left)

\* The first sweep over the redirect is behind a teardown.
Past(s) == s.i > 1 \/ s.pass > 1 \/ s.at \in {"drop", "reprobe", "exists", "done"}

ProcSafe(p, k, left) ==
    /\ p.task \in Tearing /\ Past(p.scan) => Sealed(k, left)
    /\ p.task = "build" /\ p.next <= 7 => ~Captures(k)
    /\ p.task = "unborn" => ~Past(p.scan)

\* With IInv the inductive invariant.
Safe ==
    NoOverlap => /\ KernelSafe(table, orphans)
                 /\ \A h \in Procs : ProcSafe(proc[h], table, orphans)

\* The flush that lets a sweep go past the redirect can do without its lock, where it
\* might not have it: the jumps are gone, and no command left over brings one back.
Emptied ==
    \A h \in Procs :
        /\ NoOverlap /\ "lock" \in Faults /\ mishaps < MaxFaults
        /\ proc[h].task \in Tearing /\ proc[h].scan.at = "flush"
        /\ proc[h].scan.i = 1 /\ proc[h].scan.pass = 1
        => table["nat"].jumps = 0 /\ orphans = {}

\* A step carries out one command at most.
OneChain == \E c \in Chains : \A d \in Chains \ {c} : table'[d] = table[d]

Onward == Safe' /\ (NoOverlap' => NoOverlap) /\ OneChain

-----------------------------------------------------------------------------
(* The commands *)

\* What becomes of the rules and the jumps of a chain.
LEMMA Effects ==
  ASSUME table \in Tables, KernelOK,
         NEW cmd \in Commands, NEW ok \in BOOLEAN, Run(cmd, ok),
         NEW old, old = table[cmd.chain], NEW new, new = table'[cmd.chain]
  PROVE  /\ \A d \in Chains \ {cmd.chain} : table'[d] = table[d]
         /\ cmd.op \in {"new", "drop", "probe", "exists"} =>
               new.rules = old.rules /\ new.jumps = old.jumps
         /\ cmd.op = "fill" =>
               new.jumps = old.jumps /\ new.rules \in {old.rules, cmd.by}
         /\ cmd.op = "jump" => new.rules = old.rules /\ new.jumps >= old.jumps
         /\ cmd.op = "delete" => new.rules = old.rules /\ new.jumps <= old.jumps
         /\ cmd.op = "flush" => /\ new.jumps = old.jumps /\ new.rules \in {old.rules, NoProc}
                                /\ new.rules = NoProc \/ Fault("lock")
<1>1. cmd.chain \in Chains /\ cmd.op \in Ops
  BY DEF Commands
<1>2. old \in ChainStates /\ (~old.exists => old = NoChain)
  BY <1>1 DEF Tables, KernelOK
<1>3. CASE ~ok
  <2>1. table' = table /\ (Works(table, cmd) => Fault("lock"))
    BY <1>3 DEF Run
  <2>2. cmd.op = "flush" => ~old.exists \/ Fault("lock")
    BY <2>1 DEF Works
  <2>3. QED
    BY <1>2, <2>1, <2>2 DEF ChainStates, NoChain
<1>4. CASE ok
  <2>1. Works(table, cmd) /\ table' = [table EXCEPT ![cmd.chain] = ChainAfter(old, cmd)]
    BY <1>4 DEF Run, After
  <2>2. new = ChainAfter(old, cmd) /\ \A d \in Chains \ {cmd.chain} : table'[d] = table[d]
    BY <1>1, <2>1 DEF Tables
  <2>3. CASE cmd.op = "new"
    <3>1. ~old.exists
      BY <2>1, <2>3 DEF Works
    <3>2. new = [old EXCEPT !.exists = TRUE]
      BY <2>2, <2>3 DEF ChainAfter
    <3>3. QED
      BY <1>2, <2>2, <2>3, <3>2 DEF ChainStates
  <2>4. CASE cmd.op = "fill"
    <3>1. new = [old EXCEPT !.rules = cmd.by]
      BY <2>2, <2>4 DEF ChainAfter
    <3>2. QED
      BY <1>2, <2>2, <2>4, <3>1 DEF ChainStates
  <2>5. CASE cmd.op = "jump"
    <3>1. new = [old EXCEPT !.jumps = @ + 1]
      BY <2>2, <2>5 DEF ChainAfter
    <3>2. QED
      BY <1>2, <2>2, <2>5, <3>1 DEF ChainStates
  <2>6. CASE cmd.op = "delete"
    <3>1. new = [old EXCEPT !.jumps = @ - 1]
      BY <2>2, <2>6 DEF ChainAfter
    <3>2. QED
      BY <1>2, <2>2, <2>6, <3>1 DEF ChainStates
  <2>7. CASE cmd.op = "flush"
    <3>1. new = [old EXCEPT !.rules = NoProc]
      BY <2>2, <2>7 DEF ChainAfter
    <3>2. QED
      BY <1>2, <2>2, <2>7, <3>1 DEF ChainStates
  <2>8. CASE cmd.op = "drop"
    <3>1. new = NoChain /\ old.jumps = 0 /\ old.rules = NoProc
      BY <2>1, <2>2, <2>8 DEF ChainAfter, Works
    <3>2. QED
      BY <2>2, <2>8, <3>1 DEF NoChain
  <2>9. CASE cmd.op \in {"probe", "exists"}
    BY <2>2, <2>9 DEF ChainAfter
  <2>10. QED
    BY <1>1, <2>3, <2>4, <2>5, <2>6, <2>7, <2>8, <2>9 DEF Ops
<1>5. QED
  BY <1>3, <1>4

\* A command keeps the kernel safe if what it takes from the kill switches is sealed
\* and what it gives to the redirect was left to be done.
LEMMA CommandKeeps ==
  ASSUME IInv, KernelSafe(table, orphans),
         NEW cmd \in Commands, NEW ok \in BOOLEAN, Run(cmd, ok),
         NEW left, left \subseteq orphans,
         Removal(cmd) /\ cmd.chain # "nat" => Sealed(table, orphans),
         cmd.op \in {"fill", "jump"} /\ cmd.chain = "nat" => cmd \in orphans
  PROVE  /\ KernelSafe(table', left)
         /\ Sealed(table, orphans) => Sealed(table', left)
<1>1. /\ cmd.chain \in Chains /\ cmd.op \in Ops /\ cmd.by # NoProc
      /\ {"nat", "guard", "guard6"} \subseteq Chains
  BY NetguardAssumption DEF Commands, Chains
<1>2. table \in Tables /\ table' \in Tables /\ KernelOK
  BY RunType DEF IInv, TypeOK
<1>3. /\ Pending("fill", left) => Pending("fill", orphans)
      /\ Pending("jump", left) => Pending("jump", orphans)
  BY DEF Pending
<1> DEFINE old == table[cmd.chain]
           new == table'[cmd.chain]
<1>4. /\ \A d \in Chains \ {cmd.chain} : table'[d] = table[d]
      /\ old.jumps \in Nat /\ new.jumps \in Nat
      /\ cmd.op \in {"new", "drop", "probe", "exists"} =>
            new.rules = old.rules /\ new.jumps = old.jumps
      /\ cmd.op = "fill" => new.jumps = old.jumps /\ new.rules \in {old.rules, cmd.by}
      /\ cmd.op = "jump" => new.rules = old.rules /\ new.jumps >= old.jumps
      /\ cmd.op = "delete" => new.rules = old.rules /\ new.jumps <= old.jumps
      /\ cmd.op = "flush" => new.jumps = old.jumps /\ new.rules \in {old.rules, NoProc}
  BY <1>1, <1>2, Effects DEF IInv, TypeOK, Tables, ChainStates
<1>5. CASE cmd.chain = "nat"
  <2>1. table'["guard"] = table["guard"] /\ table'["guard6"] = table["guard6"]
    BY <1>1, <1>4, <1>5
  <2>2. ClosedOff(table') <=> ClosedOff(table)
    BY <2>1 DEF ClosedOff
  <2>3. /\ cmd.op = "fill" => Pending("fill", orphans)
        /\ cmd.op = "jump" => Pending("jump", orphans)
    BY <1>5 DEF Pending
  <2>4. CASE cmd.op = "fill"
    <3>1. new.jumps = 0 /\ ~Pending("jump", orphans)
      BY <1>4, <1>5, <2>3, <2>4 DEF KernelSafe
    <3>2. QED
      BY <1>3, <1>5, <3>1 DEF KernelSafe, Sealed, Captures, Meets
  <2>5. CASE cmd.op = "jump"
    <3>1. new.rules = NoProc \/ ClosedOff(table)
      BY <1>4, <1>5, <2>3, <2>5 DEF KernelSafe
    <3>2. ~Pending("fill", left)
      BY <1>3, <2>3, <2>5 DEF KernelSafe
    <3>3. Sealed(table, orphans) => new.rules = NoProc
      BY <1>4, <1>5, <2>3, <2>5 DEF Sealed
    <3>4. QED
      BY <1>3, <1>5, <2>2, <3>1, <3>2, <3>3 DEF KernelSafe, Sealed, Captures, Meets
  <2>6. CASE cmd.op \notin {"fill", "jump"}
    <3>1. new.rules \in {old.rules, NoProc} /\ new.jumps <= old.jumps
      BY <1>1, <1>4, <2>6 DEF Ops
    <3>2. Captures(table') => Captures(table)
      BY <1>4, <1>5, <3>1 DEF Captures, Meets
    <3>3. Sealed(table, orphans) => Sealed(table', left)
      BY <1>3, <1>5, <3>1, <3>2 DEF Sealed
    <3>4. Pending("fill", left) => new.jumps = 0 /\ ~Pending("jump", left)
      BY <1>3, <1>4, <1>5, <3>1 DEF KernelSafe
    <3>5. QED
      BY <1>3, <1>5, <2>2, <3>1, <3>2, <3>3, <3>4 DEF KernelSafe
  <2>7. QED
    BY <2>4, <2>5, <2>6
<1>6. CASE cmd.chain # "nat"
  <2>1. table'["nat"] = table["nat"]
    BY <1>1, <1>4, <1>6
  <2>2. /\ Captures(table') <=> Captures(table)
        /\ Sealed(table, orphans) => Sealed(table', left)
    BY <1>3, <2>1 DEF Sealed, Captures
  <2>3. CASE Removal(cmd)
    BY <1>3, <1>6, <2>1, <2>2, <2>3 DEF KernelSafe, Sealed
  <2>4. CASE ~Removal(cmd)
    <3>1. Meets(old) => Meets(new)
      BY <1>1, <1>4, <2>4 DEF Meets, Removal, Ops
    <3>2. \A c \in {"guard", "guard6"} : Meets(table[c]) => Meets(table'[c])
      BY <1>1, <1>4, <3>1
    <3>3. ClosedOff(table) => ClosedOff(table')
      BY <3>2 DEF ClosedOff
    <3>4. QED
      BY <1>3, <2>1, <2>2, <3>3 DEF KernelSafe
  <2>5. QED
    BY <2>3, <2>4
<1>7. QED
  BY <1>5, <1>6

-----------------------------------------------------------------------------
(* The steps *)

\* A step of one process: while nothing has overlapped no other one is running, and
\* it is enough that the kernel and the process itself are safe afterwards.
LEMMA OwnSafe ==
  ASSUME IInv, Safe, OneChain, NEW h \in Procs, Running(h), NEW q,
         proc' = [proc EXCEPT ![h] = q],
         q.alone = proc[h].alone, q.task # "unborn",
         /\ NoOverlap
         /\ KernelSafe(table, orphans)
         /\ ProcSafe(proc[h], table, orphans)
         => KernelSafe(table', orphans') /\ ProcSafe(q, table', orphans')
  PROVE  Onward
<1>1. proc'[h] = q /\ \A o \in Procs \ {h} : proc'[o] = proc[o]
  BY DEF IInv, TypeOK
<1>2. NoOverlap' => NoOverlap
  BY <1>1 DEF NoOverlap, Running
<1>3. ASSUME NoOverlap, NEW o \in Procs \ {h}
      PROVE  ProcSafe(proc'[o], table', orphans')
  <2>1. Alone(h)
    BY <1>3 DEF NoOverlap, Alone, Running
  <2>2. ~Running(o)
    BY <2>1 DEF IInv, AloneOK
  <2>3. proc[o].task = "unborn" => ~Past(proc[o].scan)
    BY <1>3 DEF Safe, ProcSafe
  <2>4. QED
    BY <1>1, <2>2, <2>3 DEF ProcSafe, Running, Tearing
<1>4. Safe'
  <2> SUFFICES ASSUME NoOverlap'
               PROVE  /\ KernelSafe(table', orphans')
                      /\ \A o \in Procs : ProcSafe(proc'[o], table', orphans')
    BY DEF Safe
  <2>1. KernelSafe(table', orphans') /\ ProcSafe(q, table', orphans')
    BY <1>2 DEF Safe
  <2>2. QED
    BY <1>1, <1>2, <1>3, <2>1
<1>5. QED
  BY <1>2, <1>4 DEF Onward

\* Still to build, if it is a helper; and: not asked to build once more.
MayBuild(p) == p.task \in {"unborn", "clean"} \/ (p.task = "idle" /\ "up" \in p.todo)
Spent(p)    == p.task \in {"unborn", "idle", "repair", "gone", "killed"} \/ "up" \notin p.todo

\* Most steps of a process run no command: the process goes on as it was, or begins a
\* teardown, or a build behind one.
Tame(p, q) ==
    /\ q.alone = p.alone /\ q.task # "unborn"
    /\ q.task \in Tearing => \/ q.scan = FirstScan
                             \/ q.task = p.task /\ q.scan = p.scan
    /\ q.task = "build" => \/ p.task = "clean" /\ p.scan.at = "done" /\ q.next = 1
                           \/ p.task = "build" /\ q.next = p.next
                           \/ q.next \in 10..13
    /\ q.task = "idle" /\ q.reply = "refused" =>
          \/ p.task = "undo" /\ p.scan.at = "done"
          \/ p.task = "idle" /\ p.reply = "refused"
    /\ \/ q.task \in {"idle", "clean", "build", "undo", "check", "down", "final", p.task}
       \/ q.task = "gone" /\ p.task \in {"final", "bail", "repair"} /\ p.scan.at = "done"
    /\ p.task \in {"bail", "repair"} => q.task \in {p.task, "gone"}
    /\ Spent(p) => Spent(q) /\ (MayBuild(q) => MayBuild(p))

TameStep(h) ==
    /\ Running(h)
    /\ UNCHANGED <<table, orphans>>
    /\ proc' = [proc EXCEPT ![h] = proc'[h]]
    /\ Tame(proc[h], proc'[h])

LEMMA TameIs ==
  ASSUME IInv, NEW h \in Procs, Running(h), NEW q, proc' = [proc EXCEPT ![h] = q],
         table' = table, orphans' = orphans, Tame(proc[h], q)
  PROVE  TameStep(h)
<1>1. proc'[h] = q
  BY DEF IInv, TypeOK
<1>2. QED
  BY <1>1 DEF TameStep

LEMMA FirstScanAhead == ~Past(FirstScan)
  BY DEF Past, FirstScan

LEMMA TameSafe ==
  ASSUME IInv, Safe, NEW h \in Procs, TameStep(h)
  PROVE  Onward
<1> DEFINE p == proc[h]
           q == proc'[h]
<1>1. /\ Running(h) /\ table' = table /\ orphans' = orphans
      /\ proc' = [proc EXCEPT ![h] = q] /\ Tame(p, q)
  BY DEF TameStep
<1>2. OneChain
  BY <1>1 DEF OneChain, Chains
<1> HIDE DEF q
<1>3. ProcSafe(p, table, orphans) => ProcSafe(q, table, orphans)
  <2>1. p.task = "clean" /\ p.scan.at = "done" /\ ProcSafe(p, table, orphans)
        => ~Captures(table)
    BY DEF ProcSafe, Past, Tearing, Sealed
  <2>2. QED
    BY <1>1, <2>1, FirstScanAhead DEF Tame, ProcSafe
<1>4. q.alone = p.alone /\ q.task # "unborn"
  BY <1>1 DEF Tame
<1>5. QED
  BY <1>1, <1>2, <1>3, <1>4, OwnSafe

LEMMA AnsweredTame ==
  ASSUME NEW p \in ProcStates, NEW reply \in Replies, NEW q \in Answered(p, reply),
         NEW o, o.alone = p.alone,
         reply = "refused" => o.task = "undo" /\ o.scan.at = "done",
         o.task \notin {"bail", "repair"}, Spent(o) => "up" \notin p.todo
  PROVE  Tame(o, q)
<1>1. /\ q.alone = p.alone /\ q.task \in {"idle", "final"} /\ q.scan = FirstScan
      /\ q.task = "idle" => q.reply = reply
      /\ q.todo \subseteq p.todo
  BY AnsweredType
<1>2. Spent(o) => Spent(q) /\ ~MayBuild(q)
  BY <1>1 DEF Spent, MayBuild
<1>3. QED
  BY <1>1, <1>2 DEF Tame

LEMMA RestoreTame ==
  ASSUME IInv, NEW h \in Procs, Restore(h)
  PROVE  TameStep(h)
<1> DEFINE p == [proc[h] EXCEPT !.stash = "unset"]
<1>1. /\ proc[h] \in ProcStates /\ proc[h].task \in Tearing
      /\ p \in ProcStates /\ p.alone = proc[h].alone /\ p.task = proc[h].task
      /\ p.reply = proc[h].reply /\ p.next = proc[h].next /\ p.todo = proc[h].todo
      /\ proc[h].scan.at = "done"
  BY DEF IInv, TypeOK, Restore, ProcStates, NmValues
<1>2. PICK q \in Resumed(p) : proc' = [proc EXCEPT ![h] = q]
  BY DEF Restore
<1>3. Running(h) /\ table' = table /\ orphans' = orphans
  BY <1>1 DEF Restore, Running, Tearing
<1> HIDE DEF p
<1>4. Tame(proc[h], q)
  <2>1. CASE p.task = "clean"
    <3>1. q = [p EXCEPT !.task = "build", !.scan = FirstScan]
      BY <2>1 DEF Resumed
    <3>2. q.task = "build" /\ q.alone = p.alone /\ q.next = p.next /\ q.todo = p.todo
      BY <1>1, <3>1 DEF ProcStates
    <3>3. p.next = 1
      BY <1>1, <2>1 DEF IInv, ProcOK, Local
    <3>4. QED
      BY <1>1, <2>1, <3>2, <3>3 DEF Tame, Tearing, Spent, MayBuild
  <2>2. CASE p.task = "undo"
    <3>1. q \in Answered(p, "refused") /\ "refused" \in Replies
      BY <2>2 DEF Resumed, Replies
    <3>2. QED
      BY <1>1, <2>2, <3>1, AnsweredTame DEF Spent
  <2>3. CASE p.task = "down"
    <3>1. q \in Answered(p, p.reply) /\ p.reply \in Replies
      BY <1>1, <2>3 DEF Resumed, ProcStates
    <3>2. p.reply = "none"
      BY <1>1, <2>3 DEF IInv, ProcOK, Local
    <3>3. QED
      BY <1>1, <2>3, <3>1, <3>2, AnsweredTame DEF Spent
  <2>4. CASE p.task \in {"final", "bail", "repair"}
    <3>1. q = Over(p, "gone")
      BY <2>4 DEF Resumed
    <3>2. q.alone = p.alone /\ q.task = "gone"
      BY <1>1, <3>1, OverType
    <3>3. QED
      BY <1>1, <2>4, <3>2 DEF Tame, Tearing, Spent, MayBuild
  <2>5. QED
    BY <1>1, <2>1, <2>2, <2>3, <2>4 DEF Tearing
<1>5. QED
  BY <1>1, <1>2, <1>3, <1>4, TameIs

LEMMA FlushStepTame ==
  ASSUME IInv, NEW h \in Procs, FlushStep(h)
  PROVE  TameStep(h)
<1> DEFINE q == [proc[h] EXCEPT !.next = NmRead]
<1>1. proc[h] \in ProcStates /\ proc[h].task = "build" /\ table' = table /\ orphans' = orphans
  BY DEF FlushStep, IInv, TypeOK
<1>2. /\ proc' = [proc EXCEPT ![h] = q] /\ Running(h)
      /\ q.alone = proc[h].alone /\ q.task = "build" /\ q.next = 11
      /\ q.todo = proc[h].todo
  BY <1>1, Stages DEF FlushStep, IInv, TypeOK, ProcStates, Running
<1>3. Tame(proc[h], q)
  BY <1>1, <1>2 DEF Tame, Tearing, Spent, MayBuild
<1> HIDE DEF q
<1>4. QED
  BY <1>1, <1>2, <1>3, TameIs

LEMMA NmStepTame ==
  ASSUME IInv, NEW h \in Procs, NmStep(h)
  PROVE  TameStep(h)
<1> DEFINE p == proc[h]
<1>1. /\ p \in ProcStates /\ p.task = "build" /\ Running(h)
      /\ table' = table /\ orphans' = orphans
  BY DEF NmStep, IInv, TypeOK, Running
<1>2. ASSUME NEW r \in ProcStates, r.alone = p.alone, r.todo = p.todo, NEW q \in Answered(r, "ok"),
             proc' = [proc EXCEPT ![h] = q]
      PROVE  TameStep(h)
  <2>1. "ok" \in Replies
    BY DEF Replies
  <2>2. Tame(p, q)
    BY <1>1, <1>2, <2>1, AnsweredTame DEF Spent
  <2>3. QED
    BY <1>1, <1>2, <2>2, TameIs
<1>3. ASSUME NEW n \in {12, 13}, NEW prev \in NmValues,
             proc' = [proc EXCEPT ![h] = [p EXCEPT !.next = n, !.prev = prev]]
      PROVE  TameStep(h)
  <2> DEFINE q == [p EXCEPT !.next = n, !.prev = prev]
  <2>1. q.alone = p.alone /\ q.task = "build" /\ q.next = n /\ q.todo = p.todo
    BY <1>1 DEF ProcStates
  <2>2. Tame(proc[h], q)
    BY <1>1, <2>1 DEF Tame, Tearing, Spent, MayBuild
  <2>3. proc' = [proc EXCEPT ![h] = q]
    BY <1>3
  <2> HIDE DEF q
  <2>4. QED
    BY <1>1, <2>1, <2>2, <2>3, TameIs
<1>4. CASE p.next = NmRead
  <2>1. CASE proc' = [proc EXCEPT ![h].next = NmOff, ![h].prev = nm]
    <3>1. proc' = [proc EXCEPT ![h] = [p EXCEPT !.next = 12, !.prev = nm]]
      BY <2>1, Stages DEF IInv, TypeOK, ProcStates
    <3>2. nm \in NmValues
      BY DEF IInv, TypeOK, NmValues
    <3>3. QED
      BY <1>3, <3>1, <3>2
  <2>2. QED
    BY <1>1, <1>2, <1>4, <2>1, Stages DEF NmStep
<1>5. CASE p.next = NmOff
  <2>1. CASE proc' = [proc EXCEPT ![h].next = NmStash]
    <3>1. proc' = [proc EXCEPT ![h] = [p EXCEPT !.next = 13, !.prev = p.prev]]
      BY <2>1, Stages DEF IInv, TypeOK, ProcStates
    <3>2. p.prev \in NmValues
      BY <1>1 DEF ProcStates
    <3>3. QED
      BY <1>3, <3>1, <3>2
  <2>2. QED
    BY <1>1, <1>2, <1>5, <2>1, Stages DEF NmStep
<1>6. CASE p.next = NmStash
  <2> DEFINE r == [p EXCEPT !.stash = p.prev]
  <2>1. r \in ProcStates /\ r.alone = p.alone /\ r.todo = p.todo
    BY <1>1 DEF ProcStates
  <2>2. \E q \in Answered(r, "ok") : proc' = [proc EXCEPT ![h] = q]
    BY <1>6, Stages DEF NmStep
  <2> HIDE DEF r
  <2>3. QED
    BY <1>2, <2>1, <2>2
<1>7. QED
  BY <1>4, <1>5, <1>6 DEF NmStep

LEMMA CheckStepTame ==
  ASSUME IInv, NEW h \in Procs, CheckStep(h)
  PROVE  TameStep(h)
<1> DEFINE p == proc[h]
           cmd == Command("probe", TeardownOrder[p.next], h)
<1>1. /\ p \in ProcStates /\ p.task = "check" /\ p.next \in 1..3
      /\ Running(h) /\ orphans' = orphans
  BY DEF IInv, TypeOK, CheckStep, ProcOK, Local, TeardownOrder, Running
<1>2. cmd.op = "probe"
  BY DEF Command
<1>3. PICK ok \in BOOLEAN :
        LET missing == p.scan.left \/ ~ok
        IN  /\ Run(cmd, ok)
            /\ IF p.next < 3
               THEN proc' = [proc EXCEPT ![h].next = @ + 1, ![h].scan.left = missing]
               ELSE \E q \in Answered(p, IF missing THEN "broken" ELSE "intact") :
                       proc' = [proc EXCEPT ![h] = q]
  BY DEF CheckStep, TeardownOrder
<1> HIDE DEF cmd
<1>4. table' = table
  <2>1. After(table, cmd) = [table EXCEPT ![cmd.chain] = table[cmd.chain]]
    BY <1>2 DEF After, ChainAfter
  <2>2. After(table, cmd) = table
    BY <2>1 DEF IInv, TypeOK, Tables
  <2>3. QED
    BY <1>3, <2>2 DEF Run
<1>5. CASE p.next < 3
  <2> DEFINE left == p.scan.left \/ ~ok
             q == [p EXCEPT !.next = p.next + 1, !.scan = [@ EXCEPT !.left = left]]
  <2>1. proc' = [proc EXCEPT ![h] = q]
    <3>1. proc' = [proc EXCEPT ![h].next = @ + 1, ![h].scan.left = left]
      BY <1>3, <1>5
    <3> HIDE DEF left
    <3>2. QED
      BY <3>1 DEF IInv, TypeOK, ProcStates
  <2> HIDE DEF left
  <2>2. q.alone = p.alone /\ q.task = "check" /\ q.todo = p.todo
    BY <1>1 DEF ProcStates
  <2>3. Tame(proc[h], q)
    BY <1>1, <2>2 DEF Tame, Tearing, Spent, MayBuild
  <2> HIDE DEF q
  <2>4. QED
    BY <1>1, <1>4, <2>1, <2>2, <2>3, TameIs
<1>6. CASE ~(p.next < 3)
  <2>1. PICK reply \in {"broken", "intact"} :
          \E q \in Answered(p, reply) : proc' = [proc EXCEPT ![h] = q]
    BY <1>3, <1>6
  <2>2. PICK q \in Answered(p, reply) : proc' = [proc EXCEPT ![h] = q]
    BY <2>1
  <2>3. Tame(p, q)
    BY <1>1, AnsweredTame DEF Replies, Spent
  <2>4. QED
    BY <1>1, <1>4, <2>2, <2>3, TameIs
<1>7. QED
  BY <1>5, <1>6

LEMMA ReceiveTame ==
  ASSUME IInv, NEW h \in Procs, Receive(h)
  PROVE  TameStep(h)
<1> DEFINE p == proc[h]
<1>1. p \in ProcStates /\ p.task = "idle" /\ Running(h) /\ table' = table /\ orphans' = orphans
  BY DEF IInv, TypeOK, Receive, Running
<1>2. PICK op \in p.todo :
        proc' = [proc EXCEPT ![h].task = IF op = "up" THEN "clean" ELSE op,
                             ![h].scan = FirstScan, ![h].reply = "none",
                             ![h].todo = Later(op)]
  BY DEF Receive
<1>3. op \in Requests
  BY <1>1 DEF ProcStates
<1> DEFINE task == IF op = "up" THEN "clean" ELSE op
           q == [p EXCEPT !.task = task, !.scan = FirstScan, !.reply = "none",
                          !.todo = Later(op)]
<1>4. task \in {"clean", "check", "down"}
  BY <1>3 DEF Requests
<1>5. proc' = [proc EXCEPT ![h] = q]
  BY <1>2 DEF IInv, TypeOK, ProcStates
<1> HIDE DEF task
<1>6. /\ q.alone = p.alone /\ q.task = task /\ q.scan = FirstScan /\ q.todo = Later(op)
      /\ task = "clean" => "up" \in p.todo
      /\ "up" \notin Later(op)
  BY <1>1, <1>3 DEF ProcStates, task, Requests, Later
<1> HIDE DEF q
<1>7. Tame(p, q)
  BY <1>1, <1>4, <1>6 DEF Tame, Spent, MayBuild
<1>8. QED
  BY <1>1, <1>5, <1>6, <1>7, TameIs

LEMMA RejectTame ==
  ASSUME IInv, NEW h \in Procs, Reject(h)
  PROVE  TameStep(h)
<1> DEFINE p == proc[h]
           asked == [p EXCEPT !.todo = Later("up")]
<1>1. p \in ProcStates /\ p.task = "idle" /\ Running(h) /\ table' = table /\ orphans' = orphans
  BY DEF IInv, TypeOK, Reject, Running
<1>2. asked \in ProcStates /\ asked.alone = p.alone /\ "up" \notin asked.todo
  BY <1>1, RequestsType DEF ProcStates, Requests, Later
<1>3. PICK q \in Answered(asked, "invalid") : proc' = [proc EXCEPT ![h] = q]
  BY DEF Reject
<1> HIDE DEF asked
<1>4. Tame(p, q)
  BY <1>1, <1>2, AnsweredTame DEF Replies
<1>5. QED
  BY <1>1, <1>3, <1>4, TameIs

LEMMA ReadEofTame ==
  ASSUME IInv, NEW h \in Procs, ReadEof(h)
  PROVE  TameStep(h)
<1>1. PICK q \in ProcStates :
        /\ proc' = [proc EXCEPT ![h] = q]
        /\ q.task = "final" /\ q.alone = proc[h].alone /\ q.scan = FirstScan
        /\ q.todo = {}
  BY TeardownType DEF ReadEof, IInv, TypeOK
<1>2. proc[h].task = "idle" /\ Running(h) /\ table' = table /\ orphans' = orphans
  BY DEF ReadEof, Running
<1>3. Tame(proc[h], q)
  BY <1>1, <1>2 DEF Tame, Spent, MayBuild
<1>4. QED
  BY <1>1, <1>2, <1>3, TameIs

LEMMA CloseStdinTame ==
  ASSUME IInv, NEW h \in Procs, CloseStdin(h)
  PROVE  TameStep(h)
<1> DEFINE p == proc[h]
           q == [p EXCEPT !.stdin = "closed"]
<1>1. /\ p \in ProcStates /\ Running(h) /\ table' = table /\ orphans' = orphans
      /\ proc' = [proc EXCEPT ![h] = q]
  BY DEF IInv, TypeOK, CloseStdin, ProcStates
<1>2. /\ q.alone = p.alone /\ q.task = p.task /\ q.next = p.next /\ q.scan = p.scan
      /\ q.reply = p.reply /\ q.task # "unborn" /\ q.todo = p.todo
  BY <1>1 DEF ProcStates, Running
<1>3. Tame(p, q)
  BY <1>2 DEF Tame, Spent, MayBuild
<1> HIDE DEF q
<1>4. QED
  BY <1>1, <1>2, <1>3, TameIs

\* What a helper does is tame but for the commands of a teardown and of a build.
LEMMA ServeTame ==
  ASSUME IInv, NEW h \in Procs, Serve(h)
  PROVE  TameStep(h) \/ TeardownStep(h) \/ BuildStep(h)
  BY RestoreTame, FlushStepTame, NmStepTame, CheckStepTame, ReceiveTame, RejectTame,
     ReadEofTame DEF Serve

\* The sweep goes past the redirect only behind a flush of it.
LEMMA SweepOrder ==
  ASSUME NEW s \in Scans, s.at # "done", ~Past(s), NEW ok \in BOOLEAN
  PROVE  /\ s.i = 1 /\ s.pass = 1 /\ s.at \in {"probe", "delete", "flush"}
         /\ Past(NextScan(s, ok)) => s.at = "flush"
<1>1. s.i = 1 /\ s.pass = 1 /\ s.at \in {"probe", "delete", "flush"}
  BY NetguardAssumption DEF Past, Scans
<1>2. CASE s.at = "probe"
  <2>1. NextScan(s, ok) = [s EXCEPT !.at = IF ok THEN "delete" ELSE "flush"]
    BY <1>2 DEF NextScan, Sweep
  <2>2. QED
    BY <1>1, <2>1 DEF Past, Scans
<1>3. CASE s.at = "delete"
  <2> DEFINE at == IF ok /\ s.unhooked + 1 < MaxUnhook THEN "probe" ELSE "flush"
             unhooked == IF ok THEN s.unhooked + 1 ELSE s.unhooked
  <2>1. NextScan(s, ok) = [s EXCEPT !.at = at, !.unhooked = unhooked]
    BY <1>3 DEF NextScan, Sweep
  <2>2. at \in {"probe", "flush"}
    OBVIOUS
  <2> HIDE DEF at, unhooked
  <2>3. QED
    BY <1>1, <2>1, <2>2 DEF Past, Scans
<1>4. QED
  BY <1>1, <1>2, <1>3

LEMMA TeardownStepSafe ==
  ASSUME Emptied, IInv, Safe, NEW h \in Procs, TeardownStep(h)
  PROVE  Onward
<1> DEFINE p == proc[h]
           cmd == TeardownCommand(h)
<1>1. /\ p \in ProcStates /\ p.task \in Tearing /\ p.scan.at # "done" /\ p.scan \in Scans
      /\ orphans' = orphans
  BY DEF IInv, TypeOK, TeardownStep, ProcStates
<1>2. PICK ok \in BOOLEAN :
        Run(cmd, ok) /\ proc' = [proc EXCEPT ![h].scan = NextScan(@, ok)]
  BY DEF TeardownStep
<1>3. /\ cmd \in Commands /\ cmd.op \notin {"fill", "jump"}
      /\ cmd.chain \in Chains /\ (cmd.chain # "nat" => p.scan.i > 1)
      /\ p.scan.i = 1 /\ p.scan.at = "flush" => cmd.chain = "nat" /\ cmd.op = "flush"
  BY <1>1 DEF TeardownCommand, Command, Commands, Ops, Scans, TeardownOrder, Chains
<1> DEFINE q == [p EXCEPT !.scan = NextScan(p.scan, ok)]
<1>4. /\ proc' = [proc EXCEPT ![h] = q] /\ Running(h)
      /\ q.alone = p.alone /\ q.task = p.task /\ q.scan = NextScan(p.scan, ok)
      /\ q.task \notin {"unborn", "build"}
  BY <1>1, <1>2 DEF IInv, TypeOK, ProcStates, Running, Tearing
<1> HIDE DEF q, cmd
<1>5. OneChain
  BY <1>2, <1>3, Effects DEF OneChain, IInv, TypeOK
<1>6. ASSUME NoOverlap, KernelSafe(table, orphans), ProcSafe(p, table, orphans)
      PROVE  KernelSafe(table', orphans') /\ ProcSafe(q, table', orphans')
  <2>1. cmd.chain # "nat" => Sealed(table, orphans)
    BY <1>1, <1>3, <1>6 DEF ProcSafe, Past
  <2>2. /\ KernelSafe(table', orphans')
        /\ Sealed(table, orphans) => Sealed(table', orphans')
    BY <1>1, <1>2, <1>3, <1>6, <2>1, CommandKeeps
  <2>3. CASE Past(p.scan)
    BY <1>1, <1>4, <1>6, <2>2, <2>3 DEF ProcSafe
  <2>4. CASE ~Past(p.scan)
    <3>1. p.scan.i = 1 /\ p.scan.pass = 1 /\ (Past(q.scan) => p.scan.at = "flush")
      BY <1>1, <1>4, <2>4, SweepOrder
    <3>2. ASSUME Past(q.scan)
          PROVE  Sealed(table', orphans')
      <4>1. cmd.chain = "nat" /\ cmd.op = "flush"
        BY <1>3, <3>1, <3>2
      <4>2. /\ table'["nat"].rules = NoProc \/ Fault("lock")
            /\ table'["nat"].jumps = table["nat"].jumps
        BY <1>2, <1>3, <4>1, Effects DEF IInv, TypeOK
      <4>3. CASE table'["nat"].rules = NoProc
        BY <4>3 DEF Sealed, Captures, Meets
      <4>4. CASE Fault("lock")
        <5>1. table["nat"].jumps = 0 /\ orphans = {}
          BY <1>1, <1>6, <3>1, <3>2, <4>4 DEF Emptied, Fault
        <5>2. QED
          BY <1>1, <4>2, <5>1 DEF Sealed, Captures, Meets, Pending
      <4>5. QED
        BY <4>2, <4>3, <4>4
    <3>3. QED
      BY <1>4, <2>2, <3>2 DEF ProcSafe
  <2>5. QED
    BY <2>3, <2>4
<1>7. QED
  BY <1>4, <1>5, <1>6, OwnSafe

\* What the n-th up command is.
LEMMA UpOrder ==
  ASSUME NEW h \in Procs, NEW n \in 1..9,
         NEW cmd, cmd = Command(UpCommands[n][1], UpCommands[n][2], h)
  PROVE  /\ cmd \in Commands /\ ~Removal(cmd)
         /\ n <= 6 => cmd.chain # "nat"
         /\ n = 7 => cmd.chain = "nat" /\ cmd.op = "new"
         /\ n = 8 => cmd.chain = "nat" /\ cmd.op = "fill"
         /\ n = 9 => cmd.chain = "nat" /\ cmd.op = "jump"
  BY DEF UpCommands, Command, Commands, Ops, Chains, Removal

\* The redirect is filled before it is jumped to, and jumped to between kill switches
\* that stand.
LEMMA BuiltOrder ==
  ASSUME NEW k, NEW h \in Procs, NEW n \in 8..9, \A c \in Chains : Built(k, h, c, n)
  PROVE  k["nat"].jumps = 0 /\ ClosedOff(k)
<1>1. {"nat", "guard", "guard6"} \subseteq Chains /\ h # NoProc
  BY NetguardAssumption DEF Chains
<1>2. k["guard"] = Whole(h) /\ k["guard6"] = Whole(h)
  BY <1>1 DEF Built, FirstUp
<1>3. Meets(Whole(h))
  BY <1>1 DEF Meets, Whole
<1>4. Built(k, h, "nat", n)
  BY <1>1
<1>5. k["nat"].jumps = 0
  BY <1>4 DEF Built, FirstUp
<1>6. QED
  BY <1>2, <1>3, <1>5 DEF ClosedOff

LEMMA BuildStepSafe ==
  ASSUME IInv, Safe, NEW h \in Procs, BuildStep(h)
  PROVE  Onward
<1> DEFINE p == proc[h]
           cmd == BuildCommand(h)
<1>1. /\ p \in ProcStates /\ p.task = "build" /\ p.next \in 1..9
      /\ p.alone => \A c \in Chains : Built(table, h, c, p.next)
      /\ Running(h) /\ orphans' = orphans
  BY Stages DEF IInv, TypeOK, BuildStep, ProcStates, ProcOK, Undisturbed, Alone, Running
<1>2. cmd = Command(UpCommands[p.next][1], UpCommands[p.next][2], h)
  BY DEF BuildCommand
<1> HIDE DEF cmd
<1>3. PICK ok \in BOOLEAN :
        /\ Run(cmd, ok)
        /\ proc' = IF ok THEN [proc EXCEPT ![h].next = @ + 1] ELSE Teardown(h, "undo")
  BY DEF BuildStep, cmd
<1>4. /\ cmd \in Commands /\ ~Removal(cmd) /\ cmd.chain \in Chains
      /\ p.next <= 6 => cmd.chain # "nat"
      /\ p.next = 7 => cmd.chain = "nat" /\ cmd.op = "new"
      /\ p.next = 8 => cmd.chain = "nat" /\ cmd.op = "fill"
      /\ p.next = 9 => cmd.chain = "nat" /\ cmd.op = "jump"
  BY <1>1, <1>2, UpOrder DEF Commands
<1>5. /\ OneChain
      /\ \A d \in Chains \ {cmd.chain} : table'[d] = table[d]
  BY <1>3, <1>4, Effects DEF OneChain, IInv, TypeOK
<1>6. PICK q : /\ proc' = [proc EXCEPT ![h] = q] /\ q.alone = p.alone
               /\ \/ q.task = "build" /\ q.next = p.next + 1
                  \/ q.task = "undo" /\ q.scan = FirstScan
  <2>1. CASE ok
    <3> DEFINE r == [p EXCEPT !.next = p.next + 1]
    <3>1. proc' = [proc EXCEPT ![h] = r]
      BY <1>3, <2>1 DEF IInv, TypeOK, ProcStates
    <3>2. r.alone = p.alone /\ r.task = "build" /\ r.next = p.next + 1
      BY <1>1 DEF ProcStates
    <3> HIDE DEF r
    <3>3. QED
      BY <3>1, <3>2
  <2>2. CASE ~ok
    BY <1>3, <2>2, TeardownType DEF IInv, TypeOK
  <2>3. QED
    BY <2>1, <2>2
<1>7. ASSUME NoOverlap, KernelSafe(table, orphans), ProcSafe(p, table, orphans)
      PROVE  KernelSafe(table', orphans') /\ ProcSafe(q, table', orphans')
  <2>1. orphans = {} /\ \A c \in Chains : Built(table, h, c, p.next)
    BY <1>1, <1>7 DEF NoOverlap, IInv, AloneOK, Alone
  <2>2. ~Pending("fill", orphans') /\ ~Pending("jump", orphans')
    BY <1>1, <2>1 DEF Pending
  <2>3. KernelSafe(table', orphans')
    <3>1. CASE p.next <= 7
      BY <1>1, <1>3, <1>4, <1>7, <3>1, CommandKeeps
    <3>2. CASE p.next \in 8..9
      <4>1. table["nat"].jumps = 0 /\ ClosedOff(table)
        BY <2>1, <3>2, BuiltOrder
      <4>2. cmd.chain = "nat"
        BY <1>4, <3>2
      <4>3. ClosedOff(table')
        BY <1>5, <4>1, <4>2 DEF ClosedOff, Chains
      <4>4. QED
        BY <1>1, <2>1, <2>2, <4>3 DEF KernelSafe
    <3>3. QED
      BY <1>1, <3>1, <3>2
  <2>4. CASE q.task = "build" /\ q.next = p.next + 1
    <3>1. ASSUME q.next <= 7
          PROVE  ~Captures(table')
      <4>1. p.next <= 6 /\ cmd.chain # "nat"
        BY <1>1, <1>4, <2>4, <3>1
      <4>2. table'["nat"] = table["nat"]
        BY <1>5, <4>1 DEF Chains
      <4>3. ~Captures(table)
        BY <1>1, <1>7, <4>1 DEF ProcSafe
      <4>4. QED
        BY <4>2, <4>3 DEF Captures
    <3>2. QED
      BY <2>3, <2>4, <3>1 DEF ProcSafe, Tearing
  <2>5. CASE q.task = "undo" /\ q.scan = FirstScan
    BY <2>3, <2>5, FirstScanAhead DEF ProcSafe
  <2>6. QED
    BY <1>6, <2>4, <2>5
<1>8. q.task # "unborn"
  BY <1>6
<1>9. QED
  BY <1>1, <1>5, <1>6, <1>7, <1>8, OwnSafe

\* What a signal leaves behind is harmless: that is what the order of the commands,
\* up and down, is for.
LEMMA InFlightSafe ==
  ASSUME IInv, NoOverlap, KernelSafe(table, orphans), NEW h \in Procs, Running(h),
         ProcSafe(proc[h], table, orphans),
         NEW left, left \subseteq orphans \cup InFlight(h)
  PROVE  KernelSafe(table, left)
<1> DEFINE p == proc[h]
<1>1. /\ p \in ProcStates /\ p.scan \in Scans
      /\ p.task # "bail" => orphans = {}
      /\ p.task = "build" => \A c \in Chains : Built(table, h, c, p.next)
  BY DEF IInv, TypeOK, ProcStates, NoOverlap, AloneOK, Alone, ProcOK, Undisturbed, Running
<1>2. ASSUME left \subseteq orphans
      PROVE  KernelSafe(table, left)
  BY <1>2 DEF KernelSafe, Sealed, Pending
<1>3. CASE p.task = "build" /\ p.next <= Len(UpCommands)
  <2> DEFINE cmd == BuildCommand(h)
  <2>1. p.next \in 1..9
    BY <1>1, <1>3, Stages DEF ProcStates
  <2>2. /\ cmd \in Commands /\ ~Removal(cmd)
        /\ p.next <= 6 => cmd.chain # "nat"
        /\ p.next = 7 => cmd.chain = "nat" /\ cmd.op = "new"
        /\ p.next = 8 => cmd.chain = "nat" /\ cmd.op = "fill"
        /\ p.next = 9 => cmd.chain = "nat" /\ cmd.op = "jump"
    BY <2>1, UpOrder DEF BuildCommand
  <2>3. left \subseteq {cmd}
    BY <1>1, <1>3 DEF InFlight
  <2> HIDE DEF cmd
  <2>4. /\ Pending("fill", left) => p.next = 8 /\ ~Pending("jump", left)
        /\ Pending("jump", left) => p.next = 9
    BY <2>1, <2>2, <2>3 DEF Pending
  <2>5. p.next \in 8..9 => table["nat"].jumps = 0 /\ ClosedOff(table)
    BY <1>1, <1>3, BuiltOrder
  <2>6. QED
    BY <2>2, <2>3, <2>4, <2>5 DEF KernelSafe
<1>4. CASE p.task \in Tearing /\ p.scan.at \in {"delete", "flush", "drop"}
  <2> DEFINE cmd == TeardownCommand(h)
  <2>1. /\ cmd.op \notin {"fill", "jump"}
        /\ cmd.chain # "nat" => p.scan.i > 1
    BY <1>1, <1>4 DEF TeardownCommand, Command, Scans, TeardownOrder
  <2>2. left \subseteq orphans \cup {cmd}
    BY <1>4 DEF InFlight, Tearing
  <2> HIDE DEF cmd
  <2>3. /\ Pending("fill", left) => Pending("fill", orphans)
        /\ Pending("jump", left) => Pending("jump", orphans)
    BY <2>1, <2>2 DEF Pending
  <2>4. Sealed(table, orphans) => Sealed(table, left)
    BY <2>3 DEF Sealed
  <2>5. cmd.chain # "nat" => Sealed(table, orphans)
    BY <1>4, <2>1 DEF ProcSafe, Past
  <2>6. QED
    BY <2>2, <2>3, <2>4, <2>5 DEF KernelSafe
<1>5. QED
  BY <1>2, <1>3, <1>4 DEF InFlight

LEMMA SignalSafe ==
  ASSUME IInv, Safe, NEW h \in Procs, SigTerm(h) \/ SigKill(h)
  PROVE  Onward
<1>1. PICK q \in ProcStates :
        /\ proc' = [proc EXCEPT ![h] = q] /\ q.alone = proc[h].alone
        /\ \/ q.task = "killed"
           \/ q.task = "bail" /\ q.scan = FirstScan
  <2>1. CASE SigTerm(h)
    BY <2>1, TeardownType DEF SigTerm, IInv, TypeOK
  <2>2. CASE SigKill(h)
    BY <2>2, OverType DEF SigKill, IInv, TypeOK
  <2>3. QED
    BY <2>1, <2>2
<1>2. Running(h) /\ table' = table /\ orphans' \subseteq orphans \cup InFlight(h)
  BY DEF SigTerm, SigKill
<1>3. OneChain
  BY <1>2 DEF OneChain, Chains
<1>4. q.task # "unborn" /\ ProcSafe(q, table', orphans')
  BY <1>1, FirstScanAhead DEF ProcSafe, Tearing
<1>5. QED
  BY <1>1, <1>2, <1>3, <1>4, InFlightSafe, OwnSafe

\* What a new process finds: its own first scan, the others as they are.
LEMMA SpawnFields ==
  ASSUME IInv, NEW h \in Procs, Spawn(h)
  PROVE  /\ proc'[h].task = (IF h \in Repairs THEN "repair" ELSE "idle")
         /\ proc'[h].scan = proc[h].scan
         /\ proc'[h].stash = proc[h].stash /\ proc'[h].reply = proc[h].reply
         /\ \A o \in Procs \ {h} :
               /\ proc'[o].task = proc[o].task /\ proc'[o].scan = proc[o].scan
               /\ proc'[o].next = proc[o].next /\ (proc'[o].alone => proc[o].alone)
               /\ proc'[o].stash = proc[o].stash /\ proc'[o].reply = proc[o].reply
               /\ proc'[o].todo = proc[o].todo
<1>1. proc \in [Procs -> ProcStates]
  BY DEF IInv, TypeOK
<1>2. /\ proc'[h].task = (IF h \in Repairs THEN "repair" ELSE "idle")
      /\ proc'[h].scan = proc[h].scan
      /\ proc'[h].stash = proc[h].stash /\ proc'[h].reply = proc[h].reply
  <2> DEFINE alone == orphans = {} /\ ~\E q \in Procs : Running(q)
             task == IF h \in Repairs THEN "repair" ELSE "idle"
  <2>1. proc'[h] = [proc[h] EXCEPT !.task = task, !.alone = alone]
    BY DEF Spawn
  <2> HIDE DEF alone
  <2>2. QED
    BY <1>1, <2>1 DEF ProcStates
<1>3. ASSUME NEW o \in Procs \ {h}
      PROVE  /\ proc'[o].task = proc[o].task /\ proc'[o].scan = proc[o].scan
             /\ proc'[o].next = proc[o].next /\ (proc'[o].alone => proc[o].alone)
             /\ proc'[o].stash = proc[o].stash /\ proc'[o].reply = proc[o].reply
             /\ proc'[o].todo = proc[o].todo
  <2> DEFINE alone == proc[o].alone /\ ~Running(o)
  <2>1. proc'[o] = [proc[o] EXCEPT !.alone = alone]
    BY DEF Spawn
  <2>2. alone => proc[o].alone
    OBVIOUS
  <2> HIDE DEF alone
  <2>3. QED
    BY <1>1, <2>1, <2>2 DEF ProcStates
<1>4. QED
  BY <1>2, <1>3

LEMMA SpawnSafe ==
  ASSUME IInv, Safe, NEW h \in Procs, Spawn(h)
  PROVE  Onward
<1>1. proc[h].task = "unborn" /\ table' = table /\ orphans' = orphans
  BY DEF Spawn
<1>2. OneChain
  BY <1>1 DEF OneChain, Chains
<1>3. /\ proc'[h].task \in {"repair", "idle"} /\ proc'[h].scan = proc[h].scan
      /\ \A o \in Procs \ {h} :
            /\ proc'[o].task = proc[o].task /\ proc'[o].scan = proc[o].scan
            /\ proc'[o].next = proc[o].next /\ (proc'[o].alone => proc[o].alone)
  BY SpawnFields
<1>4. NoOverlap' => NoOverlap
  BY <1>1, <1>3 DEF NoOverlap
<1>5. ASSUME NoOverlap, NEW o \in Procs
      PROVE  ProcSafe(proc'[o], table, orphans)
  <2>1. ProcSafe(proc[o], table, orphans)
    BY <1>5 DEF Safe
  <2>2. CASE o = h
    BY <1>1, <1>3, <2>1, <2>2 DEF ProcSafe
  <2>3. CASE o # h
    BY <1>3, <2>1, <2>3 DEF ProcSafe
  <2>4. QED
    BY <2>2, <2>3
<1>6. QED
  BY <1>1, <1>2, <1>4, <1>5 DEF Onward, Safe

\* An orphaned command runs while a SIGTERM handler is at work, or nobody.
LEMMA OrphanSafe ==
  ASSUME IInv, Safe, OrphanRuns
  PROVE  Onward
<1>1. PICK cmd \in orphans, ok \in BOOLEAN : Run(cmd, ok) /\ orphans' = orphans \ {cmd}
  BY DEF OrphanRuns
<1>2. proc' = proc /\ cmd \in Commands /\ cmd.chain \in Chains
  BY DEF OrphanRuns, IInv, TypeOK, Commands
<1>3. OneChain
  BY <1>1, <1>2, Effects DEF OneChain, IInv, TypeOK
<1>4. NoOverlap' <=> NoOverlap
  BY <1>2 DEF NoOverlap
<1>5. ASSUME NoOverlap
      PROVE  /\ KernelSafe(table', orphans')
             /\ \A h \in Procs : ProcSafe(proc[h], table', orphans')
  <2>1. KernelSafe(table, orphans) /\ \A h \in Procs : ProcSafe(proc[h], table, orphans)
    BY <1>5 DEF Safe
  <2>2. Removal(cmd) /\ cmd.chain # "nat" => Sealed(table, orphans)
    BY <2>1 DEF KernelSafe
  <2>3. /\ KernelSafe(table', orphans')
        /\ Sealed(table, orphans) => Sealed(table', orphans')
    BY <1>1, <1>2, <2>1, <2>2, CommandKeeps
  <2>4. ASSUME NEW h \in Procs
        PROVE  ProcSafe(proc[h], table', orphans')
    <3>1. proc[h].task # "build"
      BY <1>1, <1>5 DEF NoOverlap, IInv, AloneOK, Alone, Running
    <3>2. QED
      BY <2>1, <2>3, <3>1 DEF ProcSafe
  <2>5. QED
    BY <2>3, <2>4
<1>6. QED
  BY <1>2, <1>3, <1>4, <1>5 DEF Onward, Safe

-----------------------------------------------------------------------------
(* The theorems *)

LEMMA InitSafe == Init => Safe
<1> SUFFICES ASSUME Init
             PROVE  Safe
  OBVIOUS
<1>1. orphans = {} /\ {"nat", "guard", "guard6"} \subseteq Chains
  BY DEF Init, Chains
<1>2. Captures(table) => ClosedOff(table)
  BY <1>1 DEF Init, Captures, ClosedOff
<1>3. KernelSafe(table, orphans)
  BY <1>1, <1>2 DEF KernelSafe, Pending
<1>4. ASSUME NEW h \in Procs
      PROVE  ProcSafe(proc[h], table, orphans)
  <2>1. proc[h].task = "unborn" /\ proc[h].scan = FirstScan
    BY DEF Init, Unborn
  <2>2. QED
    BY <2>1, FirstScanAhead DEF ProcSafe, Tearing
<1>5. QED
  BY <1>3, <1>4 DEF Safe

LEMMA NextSafe ==
  ASSUME Emptied, IInv, Safe, Next
  PROVE  Onward
<1>1. ASSUME NEW h \in Procs, Serve(h)
      PROVE  Onward
  <2>1. CASE TameStep(h)
    BY <2>1, TameSafe
  <2>2. CASE TeardownStep(h) \/ BuildStep(h)
    BY <2>2, TeardownStepSafe, BuildStepSafe
  <2>3. QED
    BY <1>1, <2>1, <2>2, ServeTame
<1>2. ASSUME NEW h \in Procs, Spawn(h) \/ CloseStdin(h) \/ SigTerm(h) \/ SigKill(h)
      PROVE  Onward
  BY <1>2, SpawnSafe, CloseStdinTame, TameSafe, SignalSafe
<1>3. QED
  BY <1>1, <1>2, OrphanSafe DEF Next

\* The traffic as FailClosed sees it, in terms of the table.
LEMMA ModeOf ==
  Mode = IF ~NoOverlap THEN "closed"
         ELSE IF Captures(table) THEN IF ClosedOff(table) THEN "captured" ELSE "leaking"
         ELSE IF ClosedOff(table) THEN "closed" ELSE "open"
<1>1. {"nat", "guard", "guard6"} \subseteq Chains
  BY DEF Chains
<1>2. "nat" \in Standing <=> Captures(table)
  BY <1>1 DEF Standing, Jumped, Captures, Meets
<1>3. {"guard", "guard6"} \subseteq Standing <=> ClosedOff(table)
  BY <1>1 DEF Standing, Jumped, ClosedOff, Meets
<1>4. QED
  BY <1>2, <1>3 DEF Mode

LEMMA ModeOfTable ==
  /\ Mode = "open" => ~Captures(table) /\ ~ClosedOff(table)
  /\ Mode = "captured" => Captures(table) /\ ClosedOff(table)
  BY ModeOf

LEMMA SafeMode == Safe => Mode \in {"open", "closed", "captured"}
<1>1. Safe /\ NoOverlap => (Captures(table) => ClosedOff(table))
  BY DEF Safe, KernelSafe
<1>2. QED
  BY <1>1, ModeOf

\* One chain at a time, traffic cannot be captured and closed off, nor let go of and
\* opened, in one step.
LEMMA ModeStep ==
  ASSUME Safe, Onward
  PROVE  [Promise!Next]_Mode
<1>1. Mode \in {"open", "closed", "captured"} /\ Mode' \in {"open", "closed", "captured"}
  <2>1. Safe'
    BY DEF Onward
  <2>2. (Safe => Mode \in {"open", "closed", "captured"})'
    BY SafeMode, PTL
  <2>3. QED
    BY <2>1, <2>2, SafeMode
<1>2. /\ ~(Mode = "open" /\ Mode' = "captured")
      /\ ~(Mode = "captured" /\ Mode' = "open")
  <2>1. PICK c \in Chains : \A d \in Chains \ {c} : table'[d] = table[d]
    BY DEF Onward, OneChain
  <2>2. \/ table'["nat"] = table["nat"]
        \/ table'["guard"] = table["guard"] /\ table'["guard6"] = table["guard6"]
    BY <2>1 DEF Chains
  <2>3. (Captures(table') <=> Captures(table)) \/ (ClosedOff(table') <=> ClosedOff(table))
    BY <2>2 DEF Captures, ClosedOff
  <2>4. /\ Mode = "open" => ~Captures(table) /\ ~ClosedOff(table)
        /\ Mode = "captured" => Captures(table) /\ ClosedOff(table)
    BY ModeOfTable
  <2>5. /\ Mode' = "open" => ~Captures(table') /\ ~ClosedOff(table')
        /\ Mode' = "captured" => Captures(table') /\ ClosedOff(table')
    <3>1. (/\ Mode = "open" => ~Captures(table) /\ ~ClosedOff(table)
           /\ Mode = "captured" => Captures(table) /\ ClosedOff(table))'
      BY ModeOfTable, PTL
    <3>2. QED
      BY <3>1 DEF Captures, ClosedOff
  <2>6. QED
    BY <2>3, <2>4, <2>5
<1>3. QED
  BY <1>1, <1>2 DEF Promise!Next, Promise!Close, Promise!Capture, Promise!Open

\* The helper implements FailClosed for any number of helpers, repairs, SIGTERMs,
\* SIGKILLs and silences of the bus, as long as no lock is missed: traffic is captured
\* only when it has been closed off, and opened only from there (up_commands and
\* teardown_plan, netfilter.py:57-118, run by netguard.py:53-165).
THEOREM FailsClosedHolds ==
  ASSUME LocksHad
  PROVE  Spec => FailsClosed
<1>1. Init => Safe /\ Promise!Init
  BY InitSafe, SafeMode DEF Promise!Init
<1>2. IInv /\ Safe /\ [Next]_vars => Safe' /\ [Promise!Next]_Mode
  <2> SUFFICES ASSUME IInv, Safe, [Next]_vars
               PROVE  Safe' /\ [Promise!Next]_Mode
    OBVIOUS
  <2>1. CASE Next
    BY <2>1, NextSafe, ModeStep DEF Onward, Emptied, LocksHad
  <2>2. CASE UNCHANGED vars
    BY <2>2 DEF vars, Safe, NoOverlap, Mode, Standing, Jumped
  <2>3. QED
    BY <2>1, <2>2
<1>3. QED
  BY <1>1, <1>2, InvariantHolds, PTL DEF Spec, FailsClosed, Promise!Spec

\* And so nothing escapes while traffic is captured or closed off, except lookups to
\* the IPv4 LAN while it is closed off and not captured.
THEOREM NoEscapeHolds ==
  ASSUME LocksHad
  PROVE  Spec => []NoEscape
  BY FailsClosedHolds, FailingClosedKeepsIn, PTL
=============================================================================
