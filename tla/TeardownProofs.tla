--------------------------- MODULE TeardownProofs ---------------------------
(***************************************************************************)
(* What a teardown reports is true, and how much a lost lock can take away *)
(* from it: one never makes a teardown claim a clean slate that is not,    *)
(* nor lets traffic out; two, with a pass to spare for each, still leave   *)
(* no jump behind a refused up.  The jumps to a chain never outnumber what *)
(* one sweep undoes, helpers that overlap leave none behind, and the       *)
(* connectivity check comes back as the user had it.                       *)
(***************************************************************************)
EXTENDS FailClosedProofs, FiniteSetTheorems

\* How many locks have been missed, at most.  Where any can be, MaxFaults bounds them
\* together with the signals and the silences of the bus; LosesAtMost(n) says that there
\* are at most n mishaps of all kinds then, and nothing when no lock is ever missed.
Lost == IF "lock" \in Faults THEN mishaps ELSE 0

LosesAtMost(n) == "lock" \in Faults => MaxFaults <= n

\* No chain is jumped to more often than one sweep can undo.
Unhookable == \A c \in Chains : table[c].jumps <= MaxUnhook

-----------------------------------------------------------------------------
(* One sweep over the chains *)

\* The chain that the sweep of s is at, and those that it has checked.
ChainAt(s) == TeardownOrder[s.i]

Checked(s) == {TeardownOrder[n] : n \in {m \in 1..3 : m < s.i \/ s.at = "done"}}

\* What the command of stage at made of its chain, and what it tells: missed means that
\* it failed for want of the lock.
Outcome(at, ok, ch, new, missed) ==
    /\ at \in {"probe", "reprobe"} =>
          new = ch /\ IF ok THEN ch.jumps > 0 ELSE ch.jumps = 0 \/ missed
    /\ at = "delete" =>
          IF ok THEN ch.jumps > 0 /\ new.jumps = ch.jumps - 1
          ELSE new = ch /\ (ch.jumps = 0 \/ missed)
    /\ at = "flush" =>
          IF ok THEN new.rules = NoProc /\ new.jumps = ch.jumps
          ELSE new = ch /\ (ch = NoChain \/ missed)
    /\ at = "drop" =>
          IF ok THEN new = NoChain
          ELSE new = ch /\ (ch = NoChain \/ ch.jumps > 0 \/ ch.rules # NoProc \/ missed)
    /\ at = "exists" =>
          new = ch /\ IF ok THEN ch # NoChain ELSE ch = NoChain \/ missed

\* While nothing is found standing, what is left of a chain costs a lock, and one more
\* for the last look to miss it.
Faithful(s, k, n) ==
    ~s.left =>
        /\ \A c \in Checked(s) : k[c] = NoChain \/ n >= 2
        /\ s.at = "drop" => k[ChainAt(s)].jumps > 0 \/ k[ChainAt(s)].rules = NoProc \/ n >= 1
        /\ s.at = "reprobe" => k[ChainAt(s)].jumps > 0 \/ k[ChainAt(s)] = NoChain \/ n >= 1
        /\ s.at = "exists" => k[ChainAt(s)] = NoChain \/ n >= 1

\* Every pass that leaves something costs a lock; a jump that no look finds, three.
Thorough(s, k, n) ==
    /\ s.pass <= n + 1
    /\ s.left => s.pass <= n
    /\ s.at \in {"probe", "delete"} => k[ChainAt(s)].jumps + s.unhooked <= MaxUnhook
    /\ s.at = "delete" => k[ChainAt(s)].jumps > 0
    /\ s.at = "flush" => k[ChainAt(s)].jumps = 0 \/ s.pass <= n
    /\ s.at = "drop" => \/ k[ChainAt(s)].jumps = 0 /\ k[ChainAt(s)].rules = NoProc
                        \/ s.pass <= n
    /\ s.at \in {"reprobe", "exists"} => k[ChainAt(s)] = NoChain \/ s.pass <= n
    /\ s.at = "exists" /\ ~s.left => k[ChainAt(s)].jumps = 0 \/ s.pass < n
    /\ ~s.left => \A c \in Checked(s) : k[c].jumps = 0 \/ s.pass + 2 <= n
    /\ s.at = "done" /\ s.left => s.pass = Attempts

LEMMA NothingChecked == Checked(FirstScan) = {}
  BY DEF Checked, FirstScan

\* Where the next command is.
LEMMA SweepTo ==
  ASSUME NEW s \in Scans, s.at # "done", NEW ok \in BOOLEAN, NEW t, t = NextScan(s, ok)
  PROVE  /\ s.at \in {"probe", "delete", "flush", "drop", "reprobe"} =>
               t.pass = s.pass /\ t.i = s.i
         /\ s.at \in {"probe", "delete", "flush", "drop"} => t.left = s.left
         /\ s.at = "probe" => /\ t.at = IF ok THEN "delete" ELSE "flush"
                              /\ t.unhooked = s.unhooked
         /\ s.at = "delete" =>
               /\ t.unhooked = IF ok THEN s.unhooked + 1 ELSE s.unhooked
               /\ t.at = IF ok /\ s.unhooked + 1 < MaxUnhook THEN "probe" ELSE "flush"
         /\ s.at = "flush" => t.at = "drop"
         /\ s.at = "drop" => t.at = "reprobe"
         /\ s.at = "reprobe" => t.at = "exists" /\ (t.left <=> s.left \/ ok)
         /\ s.at = "exists" =>
               \/ /\ s.i < 3 /\ t.i = s.i + 1 /\ t.pass = s.pass
                  /\ t.at = "probe" /\ t.unhooked = 0 /\ (t.left <=> s.left \/ ok)
               \/ /\ s.left \/ ok
                  /\ s.i = 3 /\ s.pass < Attempts /\ t.pass = s.pass + 1
                  /\ t.i = 1 /\ t.at = "probe" /\ t.unhooked = 0 /\ ~t.left
               \/ /\ t.left => s.pass = Attempts
                  /\ s.i = 3 /\ t.i = 3 /\ t.at = "done" /\ t.pass = s.pass
                  /\ (t.left <=> s.left \/ ok)
<1>1. s.i \in 1..3 /\ s.left \in BOOLEAN /\ s.pass \in 1..Attempts /\ Attempts \in Nat
  BY NetguardAssumption DEF Scans
<1>2. CASE s.at = "delete"
  <2> DEFINE at == IF ok /\ s.unhooked + 1 < MaxUnhook THEN "probe" ELSE "flush"
             unhooked == IF ok THEN s.unhooked + 1 ELSE s.unhooked
  <2>1. t = [s EXCEPT !.at = at, !.unhooked = unhooked]
    BY <1>2 DEF NextScan, Sweep
  <2> HIDE DEF at, unhooked
  <2>2. t.at = at /\ t.unhooked = unhooked /\ t.i = s.i /\ t.pass = s.pass /\ t.left = s.left
    BY <2>1 DEF Scans
  <2>3. QED
    BY <1>2, <2>2 DEF at, unhooked
<1>3. CASE s.at \in {"probe", "flush", "drop"}
  <2> DEFINE at == IF s.at = "probe" THEN IF ok THEN "delete" ELSE "flush"
                   ELSE IF s.at = "flush" THEN "drop" ELSE "reprobe"
  <2>1. t = [s EXCEPT !.at = at]
    BY <1>3 DEF NextScan, Sweep
  <2> HIDE DEF at
  <2>2. /\ t.at = at /\ t.unhooked = s.unhooked /\ t.i = s.i /\ t.pass = s.pass
        /\ t.left = s.left
    BY <2>1 DEF Scans
  <2>3. QED
    BY <1>3, <2>2 DEF at
<1>4. CASE s.at = "reprobe"
  <2> DEFINE left == s.left \/ ok
  <2>1. t = [s EXCEPT !.at = "exists", !.left = left]
    BY <1>4 DEF NextScan, Sweep
  <2> HIDE DEF left
  <2>2. t.i = s.i /\ t.pass = s.pass /\ t.left = left /\ t.at = "exists"
    BY <2>1 DEF Scans
  <2>3. QED
    BY <1>4, <2>2 DEF left
<1>5. CASE s.at = "exists"
  <2> DEFINE left == s.left \/ ok
  <2>1. t = IF s.i < 3
            THEN [s EXCEPT !.i = @ + 1, !.at = "probe", !.unhooked = 0, !.left = left]
            ELSE IF left /\ s.pass < Attempts
                 THEN [FirstScan EXCEPT !.pass = s.pass + 1]
                 ELSE [s EXCEPT !.at = "done", !.left = left]
    BY <1>5 DEF NextScan, Sweep, TeardownOrder
  <2>2. left \in BOOLEAN
    BY <1>1
  <2> HIDE DEF left
  <2>3. CASE s.i < 3
    <3>1. /\ t.i = s.i + 1 /\ t.pass = s.pass /\ t.at = "probe" /\ t.unhooked = 0
          /\ t.left = left
      BY <2>1, <2>3 DEF Scans
    <3>2. QED
      BY <1>5, <2>3, <3>1 DEF left
  <2>4. CASE ~(s.i < 3) /\ left /\ s.pass < Attempts
    <3>1. t.pass = s.pass + 1 /\ t.i = 1 /\ t.at = "probe" /\ t.unhooked = 0 /\ ~t.left
      BY <2>1, <2>4 DEF FirstScan
    <3>2. s.i = 3
      BY <1>1, <2>4
    <3>3. QED
      BY <1>5, <2>4, <3>1, <3>2 DEF left
  <2>5. CASE ~(s.i < 3) /\ ~(left /\ s.pass < Attempts)
    <3>1. t.i = s.i /\ t.pass = s.pass /\ t.at = "done" /\ t.left = left
      BY <2>1, <2>5 DEF Scans
    <3>2. s.i = 3 /\ (left => s.pass = Attempts)
      BY <1>1, <2>5
    <3>3. QED
      BY <1>5, <3>1, <3>2 DEF left
  <2>6. QED
    BY <2>3, <2>4, <2>5
<1>6. QED
  BY <1>2, <1>3, <1>4, <1>5 DEF Scans

\* A chain is checked when the last look at it is over.
LEMMA CheckedNext ==
  ASSUME NEW s \in Scans, s.at # "done", NEW ok \in BOOLEAN, NEW t, t = NextScan(s, ok),
         NEW c \in Checked(t)
  PROVE  \/ c \in Checked(s) /\ c # ChainAt(s)
         \/ c = ChainAt(s) /\ s.at = "exists"
<1>1. s.i \in 1..3
  BY DEF Scans
<1>2. PICK m \in 1..3 : c = TeardownOrder[m] /\ (m < t.i \/ t.at = "done")
  BY DEF Checked
<1>3. m < s.i \/ (m = s.i /\ s.at = "exists")
  <2>1. CASE s.at = "exists"
    BY <1>1, <1>2, <2>1, SweepTo
  <2>2. CASE s.at # "exists"
    <3>1. t.i = s.i /\ t.at # "done"
      BY <2>2, SweepTo DEF Scans
    <3>2. QED
      BY <1>2, <3>1
  <2>3. QED
    BY <2>1, <2>2
<1>4. \A i, j \in 1..3 : i # j => TeardownOrder[i] # TeardownOrder[j]
  BY DEF TeardownOrder
<1>5. QED
  BY <1>1, <1>2, <1>3, <1>4 DEF Checked, ChainAt

LEMMA FaithfulStep ==
  ASSUME NEW s \in Scans, s.at # "done", NEW ok \in BOOLEAN, NEW t, t = NextScan(s, ok),
         NEW k \in Tables, NEW k2 \in Tables, NEW n \in Nat, NEW n2 \in {n, n + 1},
         NEW missed \in BOOLEAN, missed => n2 = n + 1,
         \A c \in Chains \ {ChainAt(s)} : k2[c] = k[c],
         Outcome(s.at, ok, k[ChainAt(s)], k2[ChainAt(s)], missed),
         Faithful(s, k, n)
  PROVE  Faithful(t, k2, n2)
<1> DEFINE ch == k[ChainAt(s)]
           new == k2[ChainAt(s)]
<1> SUFFICES ASSUME ~t.left
             PROVE  /\ \A c \in Checked(t) : k2[c] = NoChain \/ n2 >= 2
                    /\ t.at \in {"drop", "reprobe", "exists"} => t.i = s.i
                    /\ t.at = "drop" => new.jumps > 0 \/ new.rules = NoProc \/ n2 >= 1
                    /\ t.at = "reprobe" => new.jumps > 0 \/ new = NoChain \/ n2 >= 1
                    /\ t.at = "exists" => new = NoChain \/ n2 >= 1
  BY DEF Faithful, ChainAt
<1>1. s.left \in BOOLEAN
  BY DEF Scans
<1>2. CASE s.at \in {"probe", "delete", "flush", "drop", "reprobe"}
  <2>1. ~s.left /\ t.i = s.i /\ t.at # "done"
    BY <1>2, SweepTo
  <2>2. ASSUME NEW c \in Checked(t)
        PROVE  k2[c] = NoChain \/ n2 >= 2
    <3>1. c \in Checked(s) /\ c # ChainAt(s)
      BY <1>2, CheckedNext
    <3>2. c \in Chains
      BY <3>1 DEF Checked, TeardownOrder, Chains
    <3>3. QED
      BY <2>1, <3>1, <3>2 DEF Faithful
  <2>3. /\ t.at = "drop" => new.jumps > 0 \/ new.rules = NoProc \/ n2 >= 1
        /\ t.at = "reprobe" => new.jumps > 0 \/ new = NoChain \/ n2 >= 1
        /\ t.at = "exists" => new = NoChain \/ n2 >= 1
    <3>1. CASE s.at \in {"probe", "delete"}
      BY <3>1, SweepTo
    <3>2. CASE s.at = "flush"
      <4>1. t.at = "drop"
        BY <3>2, SweepTo
      <4>2. CASE ok
        BY <3>2, <4>1, <4>2 DEF Outcome
      <4>3. CASE ~ok
        BY <3>2, <4>1, <4>3 DEF Outcome, NoChain
      <4>4. QED
        BY <4>2, <4>3
    <3>3. CASE s.at = "drop"
      <4>1. t.at = "reprobe"
        BY <3>3, SweepTo
      <4>2. CASE ok
        BY <3>3, <4>1, <4>2 DEF Outcome
      <4>3. CASE ~ok
        BY <2>1, <3>3, <4>1, <4>3 DEF Outcome, Faithful
      <4>4. QED
        BY <4>2, <4>3
    <3>4. CASE s.at = "reprobe"
      <4>1. t.at = "exists" /\ ~ok
        BY <3>4, SweepTo
      <4>2. new = ch /\ (ch.jumps = 0 \/ missed)
        BY <3>4, <4>1 DEF Outcome
      <4>3. QED
        BY <2>1, <3>4, <4>1, <4>2 DEF Faithful
    <3>5. QED
      BY <1>2, <3>1, <3>2, <3>3, <3>4
  <2>4. QED
    BY <2>1, <2>2, <2>3
<1>3. CASE s.at = "exists"
  <2>1. t.at \in {"probe", "done"}
    BY <1>3, SweepTo
  <2>2. ASSUME NEW c \in Checked(t)
        PROVE  k2[c] = NoChain \/ n2 >= 2
    <3>1. ~s.left /\ ~ok
      <4>1. CASE ~(t.left <=> s.left \/ ok)
        <5>1. t.i = 1 /\ t.at = "probe"
          BY <1>3, <4>1, SweepTo
        <5>2. QED
          BY <2>2, <5>1 DEF Checked
      <4>2. QED
        BY <4>1
    <3>2. CASE c \in Checked(s) /\ c # ChainAt(s)
      <4>1. c \in Chains
        BY <3>2 DEF Checked, TeardownOrder, Chains
      <4>2. QED
        BY <3>1, <3>2, <4>1 DEF Faithful
    <3>3. CASE c = ChainAt(s)
      <4>1. new = ch /\ (ch = NoChain \/ missed)
        BY <1>3, <3>1 DEF Outcome
      <4>2. ch = NoChain \/ n >= 1
        BY <1>3, <3>1 DEF Faithful
      <4>3. QED
        BY <3>3, <4>1, <4>2
    <3>4. QED
      BY <3>2, <3>3, CheckedNext
  <2>3. QED
    BY <2>1, <2>2
<1>4. QED
  BY <1>2, <1>3 DEF Scans

LEMMA ThoroughStep ==
  ASSUME NEW s \in Scans, ScanFits(s), s.at # "done", NEW ok \in BOOLEAN,
         NEW t, t = NextScan(s, ok),
         NEW k \in Tables, NEW k2 \in Tables, NEW n \in Nat, NEW n2 \in {n, n + 1},
         NEW missed \in BOOLEAN, missed => n2 = n + 1,
         \A c \in Chains : k2[c].jumps <= MaxUnhook,
         \A c \in Chains \ {ChainAt(s)} : k2[c] = k[c],
         Outcome(s.at, ok, k[ChainAt(s)], k2[ChainAt(s)], missed),
         Thorough(s, k, n)
  PROVE  Thorough(t, k2, n2)
<1> DEFINE ch == k[ChainAt(s)]
           new == k2[ChainAt(s)]
<1>1. /\ s.left \in BOOLEAN /\ s.i \in 1..3 /\ s.pass \in 1..Attempts
      /\ s.unhooked \in 0..MaxUnhook /\ MaxUnhook \in Nat /\ Attempts \in Nat
      /\ ch.jumps \in Nat /\ new.jumps \in Nat
  BY NetguardAssumption DEF Scans, Tables, ChainStates, ChainAt, TeardownOrder, Chains
<1>2. /\ s.pass <= n + 1
      /\ s.left => s.pass <= n
      /\ s.at \in {"probe", "delete"} => ch.jumps + s.unhooked <= MaxUnhook
      /\ s.at = "delete" => ch.jumps > 0
      /\ s.at = "flush" => ch.jumps = 0 \/ s.pass <= n
      /\ s.at = "drop" => (ch.jumps = 0 /\ ch.rules = NoProc) \/ s.pass <= n
      /\ s.at \in {"reprobe", "exists"} => ch = NoChain \/ s.pass <= n
      /\ s.at = "exists" /\ ~s.left => ch.jumps = 0 \/ s.pass < n
      /\ ~s.left => \A c \in Checked(s) : k[c].jumps = 0 \/ s.pass + 2 <= n
  BY DEF Thorough
<1>3. \A c \in Checked(t) : c \in Checked(s) /\ c # ChainAt(s) => k2[c] = k[c]
  BY DEF Checked, TeardownOrder, Chains
<1>4. NoChain.jumps = 0 /\ NoChain.rules = NoProc
  BY DEF NoChain
<1>5. CASE s.at \in {"probe", "delete", "flush", "drop", "reprobe"}
  <2>1. t.i = s.i /\ t.pass = s.pass /\ t.at # "done" /\ (~t.left => ~s.left)
    BY <1>5, SweepTo
  <2>2. ~t.left => \A c \in Checked(t) : k2[c].jumps = 0 \/ t.pass + 2 <= n2
    <3>1. \A c \in Checked(t) : c \in Checked(s) /\ c # ChainAt(s)
      BY <1>5, CheckedNext
    <3>2. QED
      BY <1>1, <1>2, <1>3, <2>1, <3>1
  <2>3. /\ t.left => t.pass <= n2
        /\ t.at \in {"probe", "delete"} => new.jumps + t.unhooked <= MaxUnhook
        /\ t.at = "delete" => new.jumps > 0
        /\ t.at = "flush" => new.jumps = 0 \/ t.pass <= n2
        /\ t.at = "drop" => (new.jumps = 0 /\ new.rules = NoProc) \/ t.pass <= n2
        /\ t.at \in {"reprobe", "exists"} => new = NoChain \/ t.pass <= n2
        /\ t.at = "exists" /\ ~t.left => new.jumps = 0 \/ t.pass < n2
    <3>1. CASE s.at = "probe"
      <4>1. /\ t.at = IF ok THEN "delete" ELSE "flush"
            /\ t.left = s.left /\ t.unhooked = s.unhooked
        BY <3>1, SweepTo
      <4>2. new = ch /\ IF ok THEN ch.jumps > 0 ELSE ch.jumps = 0 \/ missed
        BY <3>1 DEF Outcome
      <4> HIDE DEF ch, new
      <4>3. QED
        BY <1>1, <1>2, <2>1, <3>1, <4>1, <4>2
    <3>2. CASE s.at = "delete"
      <4>1. /\ t.unhooked = IF ok THEN s.unhooked + 1 ELSE s.unhooked
            /\ t.at = IF ok /\ s.unhooked + 1 < MaxUnhook THEN "probe" ELSE "flush"
            /\ t.left = s.left
        BY <3>2, SweepTo
      <4>2. IF ok THEN new.jumps = ch.jumps - 1 ELSE new = ch /\ (ch.jumps = 0 \/ missed)
        BY <3>2 DEF Outcome
      <4>3. s.unhooked < MaxUnhook
        BY <3>2 DEF ScanFits
      <4> HIDE DEF ch, new
      <4>4. QED
        BY <1>1, <1>2, <2>1, <3>2, <4>1, <4>2, <4>3
    <3>3. CASE s.at = "flush"
      <4>1. t.at = "drop" /\ t.left = s.left
        BY <3>3, SweepTo
      <4>2. IF ok THEN new.rules = NoProc /\ new.jumps = ch.jumps
            ELSE new = ch /\ (ch = NoChain \/ missed)
        BY <3>3 DEF Outcome
      <4> HIDE DEF ch, new
      <4>3. QED
        BY <1>1, <1>2, <1>4, <2>1, <3>3, <4>1, <4>2
    <3>4. CASE s.at = "drop"
      <4>1. t.at = "reprobe" /\ t.left = s.left
        BY <3>4, SweepTo
      <4>2. IF ok THEN new = NoChain
            ELSE /\ new = ch
                 /\ ch = NoChain \/ ch.jumps > 0 \/ ch.rules # NoProc \/ missed
        BY <3>4 DEF Outcome
      <4> HIDE DEF ch, new
      <4>3. QED
        BY <1>1, <1>2, <1>4, <2>1, <3>4, <4>1, <4>2
    <3>5. CASE s.at = "reprobe"
      <4>1. t.at = "exists" /\ (t.left <=> s.left \/ ok)
        BY <3>5, SweepTo
      <4>2. new = ch /\ IF ok THEN ch.jumps > 0 ELSE ch.jumps = 0 \/ missed
        BY <3>5 DEF Outcome
      <4> HIDE DEF ch, new
      <4>3. QED
        BY <1>1, <1>2, <1>4, <2>1, <3>5, <4>1, <4>2
    <3>6. QED
      BY <1>5, <3>1, <3>2, <3>3, <3>4, <3>5
  <2>4. t.pass <= n2 + 1
    BY <1>1, <1>2, <2>1
  <2>5. ChainAt(t) = ChainAt(s)
    BY <2>1 DEF ChainAt
  <2>6. QED
    BY <2>1, <2>2, <2>3, <2>4, <2>5 DEF Thorough
<1>6. CASE s.at = "exists"
  <2>1. new = ch /\ IF ok THEN ch # NoChain ELSE ch = NoChain \/ missed
    BY <1>6 DEF Outcome
  <2>2. s.left \/ ok => s.pass <= n2
    BY <1>1, <1>2, <1>6, <2>1
  <2>3. ~s.left /\ ~ok => new.jumps = 0 \/ s.pass + 2 <= n2
    BY <1>1, <1>2, <1>4, <1>6, <2>1
  <2>4. k2[ChainAt(t)].jumps \in Nat /\ k2[ChainAt(t)].jumps <= MaxUnhook
    <3>1. t.i \in 1..3
      BY <1>1, <1>6, SweepTo
    <3>2. ChainAt(t) \in Chains
      BY <3>1 DEF ChainAt, TeardownOrder, Chains
    <3>3. QED
      BY <3>2 DEF Tables, ChainStates
  <2>5. ASSUME ~s.left, ~ok, t.pass = s.pass
        PROVE  \A c \in Checked(t) : k2[c].jumps = 0 \/ t.pass + 2 <= n2
    <3>1. \A c \in Checked(t) : (c \in Checked(s) /\ c # ChainAt(s)) \/ c = ChainAt(s)
      BY CheckedNext
    <3>2. QED
      BY <1>1, <1>2, <1>3, <2>3, <2>5, <3>1
  <2> HIDE DEF ch, new
  <2>6. CASE t.i = s.i + 1 /\ t.pass = s.pass /\ t.at = "probe" /\ t.unhooked = 0
             /\ (t.left <=> s.left \/ ok)
    BY <1>1, <1>2, <2>2, <2>4, <2>5, <2>6 DEF Thorough
  <2>7. CASE (s.left \/ ok) /\ t.pass = s.pass + 1 /\ t.i = 1 /\ t.at = "probe"
             /\ t.unhooked = 0 /\ ~t.left
    <3>1. Checked(t) = {}
      BY <2>7 DEF Checked
    <3>2. QED
      BY <1>1, <2>2, <2>4, <2>7, <3>1 DEF Thorough
  <2>8. CASE (t.left => s.pass = Attempts) /\ t.at = "done" /\ t.pass = s.pass
             /\ (t.left <=> s.left \/ ok)
    BY <1>1, <1>2, <2>2, <2>5, <2>8 DEF Thorough
  <2>9. QED
    BY <1>6, <2>6, <2>7, <2>8, SweepTo
<1>7. QED
  BY <1>5, <1>6 DEF Scans

-----------------------------------------------------------------------------
(* One process *)

\* So many locks were lost that a teardown may have given up or overlooked a jump.
Spoilt(n) == n >= 3 \/ n >= Attempts

\* u: the jumps are few enough for Thorough.
Honest(p, k, n, u) ==
    /\ p.task \in Tearing \ {"bail"} =>
          Faithful(p.scan, k, n) /\ (u => Thorough(p.scan, k, n))
    /\ u /\ p.task = "idle" /\ p.reply = "refused" =>
          Spoilt(n) \/ \A c \in Chains : k[c].jumps = 0

\* With IInv the inductive invariant.
AllHonest(u) ==
    \A h \in Procs : /\ Alone(h) => Honest(proc[h], table, Lost, u)
                     /\ proc[h].task = "unborn" => proc[h].scan = FirstScan

LEMMA MishapsGrow ==
  ASSUME [Next]_vars
  PROVE  mishaps' \in {mishaps, mishaps + 1}
<1>1. \A cmd, ok : Run(cmd, ok) => mishaps' \in {mishaps, mishaps + 1}
  BY DEF Run, Fault
<1>2. ASSUME NEW h \in Procs, Serve(h)
      PROVE  mishaps' \in {mishaps, mishaps + 1}
  BY <1>1, <1>2
     DEF Serve, TeardownStep, Restore, BuildStep, FlushStep, NmStep, CheckStep, Receive,
         Reject, ReadEof, Bus, Fault
<1>3. ASSUME NEW h \in Procs, Spawn(h) \/ CloseStdin(h) \/ SigTerm(h) \/ SigKill(h)
      PROVE  mishaps' \in {mishaps, mishaps + 1}
  BY <1>3 DEF Spawn, CloseStdin, SigTerm, SigKill, Fault
<1>4. OrphanRuns => mishaps' \in {mishaps, mishaps + 1}
  BY <1>1 DEF OrphanRuns
<1>5. QED
  BY <1>2, <1>3, <1>4 DEF Next, vars

LEMMA LostGrows ==
  ASSUME IInv
  PROVE  /\ Lost \in Nat
         /\ [Next]_vars => Lost' \in {Lost, Lost + 1}
<1>1. mishaps \in Nat
  BY NetguardAssumption DEF IInv, TypeOK
<1>2. QED
  BY <1>1, MishapsGrow DEF Lost

\* A lock lost elsewhere takes nothing away.
LEMMA HonestStill ==
  ASSUME NEW p, NEW k, NEW u \in BOOLEAN, NEW n \in Nat, NEW n2 \in {n, n + 1},
         p.scan \in Scans, Honest(p, k, n, u)
  PROVE  Honest(p, k, n2, u)
<1>1. p.scan.pass \in Nat /\ Attempts \in Nat
  BY NetguardAssumption DEF Scans
<1>2. Faithful(p.scan, k, n) => Faithful(p.scan, k, n2)
  BY DEF Faithful
<1>3. Thorough(p.scan, k, n) => Thorough(p.scan, k, n2)
  BY <1>1 DEF Thorough
<1>4. Spoilt(n) => Spoilt(n2)
  BY <1>1 DEF Spoilt
<1>5. QED
  BY <1>2, <1>3, <1>4 DEF Honest

\* A teardown begins with nothing claimed.
LEMMA FreshHonest ==
  ASSUME NEW p, NEW k \in Tables, NEW u \in BOOLEAN, NEW n \in Nat,
         u => \A c \in Chains : k[c].jumps <= MaxUnhook,
         p.task \in Tearing, p.scan = FirstScan
  PROVE  Honest(p, k, n, u)
<1>1. Faithful(FirstScan, k, n)
  BY NothingChecked DEF Faithful, FirstScan
<1>2. ASSUME u
      PROVE  Thorough(FirstScan, k, n)
  <2>1. ChainAt(FirstScan) \in Chains
    BY DEF ChainAt, FirstScan, TeardownOrder, Chains
  <2>2. k[ChainAt(FirstScan)].jumps \in Nat /\ k[ChainAt(FirstScan)].jumps <= MaxUnhook
    BY <1>2, <2>1 DEF Tables, ChainStates
  <2>3. /\ FirstScan.pass = 1 /\ FirstScan.at = "probe" /\ FirstScan.unhooked = 0
        /\ ~FirstScan.left
    BY DEF FirstScan
  <2>4. QED
    BY NetguardAssumption, NothingChecked, <2>2, <2>3 DEF Thorough
<1>3. p.task # "idle"
  BY DEF Tearing
<1>4. QED
  BY <1>1, <1>2, <1>3 DEF Honest

\* A step of one process: one that has been alone and is not done is the only one
\* running.
LEMMA OwnHonest ==
  ASSUME NEW CONSTANT u \in BOOLEAN, IInv, AllHonest(u), NEW h \in Procs, Running(h),
         NEW q, proc' = [proc EXCEPT ![h] = q],
         q.alone = proc[h].alone, q.task # "unborn",
         Alone(h) /\ Honest(proc[h], table, Lost, u) => Honest(q, table', Lost', u)
  PROVE  AllHonest(u)'
<1>1. proc'[h] = q /\ \A o \in Procs \ {h} : proc'[o] = proc[o]
  BY DEF IInv, TypeOK
<1>2. Alone(h)' => Honest(q, table', Lost', u)
  BY <1>1 DEF Alone, AllHonest
<1>3. ASSUME NEW o \in Procs \ {h}, Alone(o)'
      PROVE  Honest(proc[o], table', Lost', u)
  <2>1. Alone(o) /\ ~Running(o)
    BY <1>1, <1>3 DEF Alone, IInv, AloneOK
  <2>2. QED
    BY <2>1 DEF Honest, Running, Tearing
<1>4. QED
  BY <1>1, <1>2, <1>3 DEF AllHonest

\* A teardown that is done has kept its word.
LEMMA DoneThorough ==
  ASSUME NEW s \in Scans, s.at = "done", NEW k, NEW n \in Nat, Thorough(s, k, n)
  PROVE  Spoilt(n) \/ \A c \in Chains : k[c].jumps = 0
<1>1. s.pass \in 1..Attempts /\ Attempts \in Nat /\ s.left \in BOOLEAN
  BY NetguardAssumption DEF Scans
<1>2. CASE s.left
  BY <1>1, <1>2 DEF Thorough, Spoilt
<1>3. CASE ~s.left
  <2>1. \A c \in Chains : c \in Checked(s)
    <3>1. \A c \in Chains : \E m \in 1..3 : c = TeardownOrder[m]
      BY DEF TeardownOrder, Chains
    <3>2. QED
      BY <3>1 DEF Checked
  <2>2. \A c \in Chains : k[c].jumps = 0 \/ n >= 3
    BY <1>1, <1>3, <2>1 DEF Thorough
  <2>3. QED
    BY <2>2 DEF Spoilt
<1>4. QED
  BY <1>1, <1>2, <1>3

LEMMA TameHonest ==
  ASSUME NEW CONSTANT u \in BOOLEAN, u => Unhookable', IInv, AllHonest(u), [Next]_vars,
         NEW h \in Procs, TameStep(h)
  PROVE  AllHonest(u)'
<1> DEFINE p == proc[h]
           q == proc'[h]
<1>1. /\ Running(h) /\ table' = table
      /\ proc' = [proc EXCEPT ![h] = q] /\ Tame(p, q)
  BY DEF TameStep
<1>2. /\ Lost \in Nat /\ Lost' \in {Lost, Lost + 1} /\ Lost' \in Nat
      /\ p.scan \in Scans /\ table \in Tables
  BY LostGrows DEF IInv, TypeOK, ProcStates
<1> HIDE DEF q
<1>3. ASSUME Honest(p, table, Lost, u)
      PROVE  Honest(q, table, Lost', u)
  <2>1. Honest(p, table, Lost', u)
    BY <1>2, <1>3, HonestStill
  <2>2. CASE q.task \in Tearing /\ q.scan = FirstScan
    BY <1>1, <1>2, <2>2, FreshHonest DEF Unhookable
  <2>3. CASE q.task \in Tearing /\ q.task = p.task /\ q.scan = p.scan
    BY <2>1, <2>3 DEF Honest, Tearing
  <2>4. CASE q.task = "idle" /\ q.reply = "refused"
    <3>1. CASE p.task = "undo" /\ p.scan.at = "done"
      <4>1. u => Thorough(p.scan, table, Lost')
        BY <2>1, <3>1 DEF Honest, Tearing
      <4>2. u => Spoilt(Lost') \/ \A c \in Chains : table[c].jumps = 0
        BY <1>2, <3>1, <4>1, DoneThorough
      <4>3. QED
        BY <2>4, <4>2 DEF Honest, Tearing
    <3>2. CASE p.task = "idle" /\ p.reply = "refused"
      BY <2>1, <2>4, <3>2 DEF Honest, Tearing
    <3>3. QED
      BY <1>1, <2>4, <3>1, <3>2 DEF Tame
  <2>5. CASE q.task \notin Tearing /\ ~(q.task = "idle" /\ q.reply = "refused")
    BY <2>5 DEF Honest
  <2>6. QED
    BY <1>1, <2>2, <2>3, <2>4, <2>5 DEF Tame
<1>4. q.alone = p.alone /\ q.task # "unborn"
  BY <1>1 DEF Tame
<1>5. QED
  BY <1>1, <1>3, <1>4, OwnHonest

\* What a command of the teardown tells of its chain.
LEMMA CommandTells ==
  ASSUME IInv, NEW cmd \in Commands, NEW ok \in BOOLEAN, Run(cmd, ok), NEW at,
         at \in {"probe", "delete", "flush", "drop", "reprobe", "exists"},
         cmd.op = IF at = "reprobe" THEN "probe" ELSE at
  PROVE  /\ Outcome(at, ok, table[cmd.chain], table'[cmd.chain], ~ok /\ Works(table, cmd))
         /\ ~ok /\ Works(table, cmd) => Lost' = Lost + 1
         /\ \A c \in Chains \ {cmd.chain} : table'[c] = table[c]
<1> DEFINE ch == table[cmd.chain]
           new == table'[cmd.chain]
           works == Works(table, cmd)
<1>1. /\ cmd.chain \in Chains /\ ch \in ChainStates /\ (~ch.exists => ch = NoChain)
      /\ NoChain.exists = FALSE
  BY DEF Commands, IInv, TypeOK, Tables, KernelOK, NoChain
<1>2. ok => works /\ new = ChainAfter(ch, cmd)
  BY <1>1 DEF Run, After, IInv, TypeOK, Tables
<1>3. ~ok => new = ch /\ (works => Lost' = Lost + 1)
  BY DEF Run, Fault, Lost
<1>4. \A c \in Chains \ {cmd.chain} : table'[c] = table[c]
  BY <1>1 DEF Run, After, IInv, TypeOK, Tables
<1> HIDE DEF new
<1>5. Outcome(at, ok, ch, new, ~ok /\ works)
  <2>1. CASE at \in {"probe", "reprobe"}
    <3>1. (works <=> ch.jumps > 0) /\ ChainAfter(ch, cmd) = ch
      BY <2>1 DEF Works, ChainAfter
    <3>2. ch.jumps \in Nat
      BY <1>1 DEF ChainStates
    <3> HIDE DEF ch, works
    <3>3. QED
      BY <1>2, <1>3, <2>1, <3>1, <3>2 DEF Outcome
  <2>2. CASE at = "delete"
    <3>1. works <=> ch.jumps > 0
      BY <2>2 DEF Works
    <3>2. ch.jumps \in Nat /\ ChainAfter(ch, cmd).jumps = ch.jumps - 1
      BY <1>1, <2>2 DEF ChainStates, ChainAfter
    <3> HIDE DEF ch, works
    <3>3. QED
      BY <1>2, <1>3, <2>2, <3>1, <3>2 DEF Outcome
  <2>3. CASE at = "flush"
    <3>1. (works <=> ch.exists) /\ ChainAfter(ch, cmd) = [ch EXCEPT !.rules = NoProc]
      BY <2>3 DEF Works, ChainAfter
    <3>2. /\ [ch EXCEPT !.rules = NoProc].jumps = ch.jumps
          /\ [ch EXCEPT !.rules = NoProc].rules = NoProc
      BY <1>1 DEF ChainStates
    <3> HIDE DEF ch, works
    <3>3. QED
      BY <1>1, <1>2, <1>3, <2>3, <3>1, <3>2 DEF Outcome
  <2>4. CASE at = "drop"
    <3>1. /\ works <=> ch.exists /\ ch.jumps = 0 /\ ch.rules = NoProc
          /\ ChainAfter(ch, cmd) = NoChain
      BY <2>4 DEF Works, ChainAfter
    <3>2. ch.jumps \in Nat
      BY <1>1 DEF ChainStates
    <3> HIDE DEF ch, works
    <3>3. QED
      BY <1>1, <1>2, <1>3, <2>4, <3>1, <3>2 DEF Outcome
  <2>5. CASE at = "exists"
    <3>1. (works <=> ch.exists) /\ ChainAfter(ch, cmd) = ch
      BY <2>5 DEF Works, ChainAfter
    <3> HIDE DEF ch, works
    <3>2. QED
      BY <1>1, <1>2, <1>3, <2>5, <3>1 DEF Outcome
  <2>6. QED
    BY <2>1, <2>2, <2>3, <2>4, <2>5
<1>6. QED
  BY <1>3, <1>4, <1>5 DEF new

LEMMA TeardownStepHonest ==
  ASSUME NEW CONSTANT u \in BOOLEAN, u => Unhookable', IInv, IInv', AllHonest(u), [Next]_vars,
         NEW h \in Procs, TeardownStep(h)
  PROVE  AllHonest(u)'
<1> DEFINE p == proc[h]
           s == p.scan
           cmd == TeardownCommand(h)
<1>1. /\ p \in ProcStates /\ p.task \in Tearing /\ s.at # "done" /\ s \in Scans /\ ScanFits(s)
  BY DEF IInv, TypeOK, TeardownStep, ProcStates, ProcOK, Local
<1>2. PICK ok \in BOOLEAN :
        Run(cmd, ok) /\ proc' = [proc EXCEPT ![h].scan = NextScan(@, ok)]
  BY DEF TeardownStep
<1>3. /\ cmd \in Commands /\ cmd.chain = ChainAt(s)
      /\ cmd.op = IF s.at = "reprobe" THEN "probe" ELSE s.at
  BY <1>1 DEF TeardownCommand, Command, Commands, Ops, Scans, TeardownOrder, Chains, ChainAt
<1> DEFINE t == NextScan(s, ok)
           q == [p EXCEPT !.scan = t]
<1>4. /\ proc' = [proc EXCEPT ![h] = q] /\ Running(h)
      /\ q.alone = p.alone /\ q.task = p.task /\ q.scan = t
      /\ q.task \notin {"unborn", "idle"}
  BY <1>1, <1>2 DEF IInv, TypeOK, ProcStates, Running, Tearing
<1>5. /\ Lost \in Nat /\ Lost' \in {Lost, Lost + 1}
      /\ table \in Tables /\ table' \in Tables
  BY LostGrows DEF IInv, TypeOK
<1> DEFINE missed == ~ok /\ Works(table, cmd)
<1>6. /\ missed \in BOOLEAN
      /\ Outcome(s.at, ok, table[ChainAt(s)], table'[ChainAt(s)], missed)
      /\ missed => Lost' = Lost + 1
      /\ \A c \in Chains \ {ChainAt(s)} : table'[c] = table[c]
  <2>1. s.at \in {"probe", "delete", "flush", "drop", "reprobe", "exists"}
    BY <1>1 DEF Scans
  <2> HIDE DEF cmd
  <2>2. QED
    BY <1>2, <1>3, <2>1, CommandTells
<1> HIDE DEF cmd, q, missed
<1>7. ASSUME Faithful(s, table, Lost)
      PROVE  Faithful(t, table', Lost')
  BY <1>1, <1>5, <1>6, <1>7, FaithfulStep
<1>8. u /\ Thorough(s, table, Lost) => Thorough(t, table', Lost')
  BY <1>1, <1>5, <1>6, ThoroughStep DEF Unhookable
<1> HIDE DEF t
<1>9. Honest(p, table, Lost, u) => Honest(q, table', Lost', u)
  BY <1>4, <1>7, <1>8 DEF Honest
<1>10. QED
  BY <1>4, <1>9, OwnHonest

LEMMA BuildStepHonest ==
  ASSUME NEW CONSTANT u \in BOOLEAN, u => Unhookable', IInv, IInv', AllHonest(u), [Next]_vars,
         NEW h \in Procs, BuildStep(h)
  PROVE  AllHonest(u)'
<1> DEFINE p == proc[h]
<1>1. p \in ProcStates /\ p.task = "build" /\ Running(h)
  BY DEF IInv, TypeOK, BuildStep, Running
<1>2. PICK q : /\ proc' = [proc EXCEPT ![h] = q] /\ q.alone = p.alone
               /\ q.task = "build" \/ (q.task = "undo" /\ q.scan = FirstScan)
  <2>1. CASE proc' = [proc EXCEPT ![h].next = @ + 1]
    <3> DEFINE r == [p EXCEPT !.next = p.next + 1]
    <3>1. proc' = [proc EXCEPT ![h] = r]
      BY <2>1 DEF IInv, TypeOK, ProcStates
    <3>2. r.alone = p.alone /\ r.task = "build"
      BY <1>1 DEF ProcStates
    <3> HIDE DEF r
    <3>3. QED
      BY <3>1, <3>2
  <2>2. CASE proc' = Teardown(h, "undo")
    BY <2>2, TeardownType DEF IInv, TypeOK
  <2>3. QED
    BY <2>1, <2>2 DEF BuildStep
<1>3. Honest(q, table', Lost', u)
  <2>1. CASE q.task = "build"
    BY <2>1 DEF Honest, Tearing
  <2>2. CASE q.task = "undo" /\ q.scan = FirstScan
    <3>1. table' \in Tables /\ Lost' \in Nat /\ q.task \in Tearing
      BY <2>2, LostGrows DEF IInv, TypeOK, Tearing
    <3>2. QED
      BY <2>2, <3>1, FreshHonest DEF Unhookable
  <2>3. QED
    BY <1>2, <2>1, <2>2
<1>4. q.task # "unborn"
  BY <1>2
<1>5. QED
  BY <1>1, <1>2, <1>3, <1>4, OwnHonest

LEMMA SignalHonest ==
  ASSUME NEW CONSTANT u \in BOOLEAN, IInv, AllHonest(u),
         NEW h \in Procs, SigTerm(h) \/ SigKill(h)
  PROVE  AllHonest(u)'
<1>1. PICK q \in ProcStates :
        /\ proc' = [proc EXCEPT ![h] = q] /\ q.alone = proc[h].alone
        /\ q.task \in {"killed", "bail"}
  <2>1. CASE SigTerm(h)
    BY <2>1, TeardownType DEF SigTerm, IInv, TypeOK
  <2>2. CASE SigKill(h)
    BY <2>2, OverType DEF SigKill, IInv, TypeOK
  <2>3. QED
    BY <2>1, <2>2
<1>2. Running(h) /\ q.task # "unborn" /\ Honest(q, table', Lost', u)
  BY <1>1 DEF SigTerm, SigKill, Honest, Tearing
<1>3. QED
  BY <1>1, <1>2, OwnHonest

LEMMA SpawnHonest ==
  ASSUME NEW CONSTANT u \in BOOLEAN, u => Unhookable', IInv, AllHonest(u),
         NEW h \in Procs, Spawn(h)
  PROVE  AllHonest(u)'
<1>1. /\ table' = table /\ Lost' = Lost /\ table \in Tables /\ Lost \in Nat
      /\ proc[h].task = "unborn" /\ proc[h].scan = FirstScan /\ proc[h].reply = "none"
  BY LostGrows DEF Spawn, AllHonest, Lost, IInv, TypeOK, ProcOK, Local
<1>2. /\ proc'[h].task \in {"repair", "idle"} /\ proc'[h].scan = proc[h].scan
      /\ proc'[h].reply = proc[h].reply
      /\ \A o \in Procs \ {h} :
            /\ proc'[o].task = proc[o].task /\ proc'[o].scan = proc[o].scan
            /\ proc'[o].reply = proc[o].reply /\ (proc'[o].alone => proc[o].alone)
  BY SpawnFields
<1>3. Honest(proc'[h], table', Lost', u)
  <2>1. CASE proc'[h].task = "repair"
    BY <1>1, <1>2, <2>1, FreshHonest DEF Unhookable, Tearing
  <2>2. CASE proc'[h].task = "idle"
    BY <1>1, <1>2, <2>2 DEF Honest, Tearing
  <2>3. QED
    BY <1>2, <2>1, <2>2
<1>4. \A o \in Procs \ {h} :
        Honest(proc[o], table, Lost, u) => Honest(proc'[o], table', Lost', u)
  BY <1>1, <1>2 DEF Honest
<1>5. QED
  BY <1>2, <1>3, <1>4 DEF AllHonest, Alone

\* Whoever is alone while an orphaned command runs is in the SIGTERM handler.
LEMMA OrphanHonest ==
  ASSUME NEW CONSTANT u \in BOOLEAN, IInv, AllHonest(u), OrphanRuns
  PROVE  AllHonest(u)'
<1>1. proc' = proc /\ orphans # {}
  BY DEF OrphanRuns
<1>2. ASSUME NEW h \in Procs, Alone(h)
      PROVE  Honest(proc[h], table', Lost', u)
  <2>1. Running(h) => proc[h].task = "bail"
    BY <1>1, <1>2 DEF IInv, AloneOK
  <2>2. QED
    BY <2>1 DEF Honest, Running, Tearing
<1>3. QED
  BY <1>1, <1>2 DEF AllHonest, Alone

LEMMA NextHonest ==
  ASSUME NEW CONSTANT u \in BOOLEAN, u => Unhookable', IInv, IInv', AllHonest(u), [Next]_vars
  PROVE  AllHonest(u)'
<1>1. ASSUME NEW h \in Procs, Serve(h)
      PROVE  AllHonest(u)'
  <2>1. TameStep(h) \/ TeardownStep(h) \/ BuildStep(h)
    BY <1>1, ServeTame
  <2>2. QED
    BY <2>1, TameHonest, TeardownStepHonest, BuildStepHonest
<1>2. ASSUME NEW h \in Procs, Spawn(h) \/ CloseStdin(h) \/ SigTerm(h) \/ SigKill(h)
      PROVE  AllHonest(u)'
  BY <1>2, SpawnHonest, CloseStdinTame, TameHonest, SignalHonest
<1>3. CASE OrphanRuns
  BY <1>3, OrphanHonest
<1>4. CASE UNCHANGED vars
  BY <1>4 DEF vars, AllHonest, Alone, Lost
<1>5. QED
  BY <1>1, <1>2, <1>3, <1>4 DEF Next

LEMMA InitHonest ==
  ASSUME NEW CONSTANT u \in BOOLEAN
  PROVE  Init => AllHonest(u)
  BY DEF Init, Unborn, AllHonest, Alone

\* A teardown that reports nothing standing is right, whatever the jumps that were
\* stacked and the passes it took: with any number of signals if no lock is missed, and
\* with one missed lock if nothing else goes wrong
\* (teardown, _teardown_rules and _teardown_pass, netguard.py:53-135).
THEOREM TeardownHonestHolds ==
  ASSUME LosesAtMost(1)
  PROVE  Spec => []TeardownHonest
<1>1. Init => AllHonest(FALSE)
  BY InitHonest
<1>2. IInv /\ IInv' /\ AllHonest(FALSE) /\ [Next]_vars => AllHonest(FALSE)'
  BY NextHonest
<1>3. IInv /\ AllHonest(FALSE) => TeardownHonest
  <2> SUFFICES ASSUME IInv, AllHonest(FALSE), NEW h \in Procs, Alone(h),
                      proc[h].task \in Tearing \ {"bail"}, proc[h].scan.at = "done",
                      ~proc[h].scan.left, NEW c \in Chains
               PROVE  ~Jumped(c) /\ ~table[c].exists
    BY DEF TeardownHonest
  <2>1. c \in Checked(proc[h].scan)
    <3>1. \E m \in 1..3 : c = TeardownOrder[m]
      BY DEF TeardownOrder, Chains
    <3>2. QED
      BY <3>1 DEF Checked
  <2>2. Faithful(proc[h].scan, table, Lost)
    BY DEF AllHonest, Honest
  <2>3. Lost \in Nat /\ ~(Lost >= 2)
    BY LostGrows, NetguardAssumption DEF IInv, TypeOK, Lost, LosesAtMost
  <2>4. table[c] = NoChain
    BY <2>1, <2>2, <2>3 DEF Faithful
  <2>5. QED
    BY <2>4 DEF NoChain, Jumped
<1>4. QED
  BY <1>1, <1>2, <1>3, InvariantHolds, PTL DEF Spec

-----------------------------------------------------------------------------
(* The jumps to a chain *)

\* A sweep removes MaxUnhook jumps: what earlier sessions left, or a jump by each helper.
\* (Faults do not count here: a command that fails adds no jump.)
FewJumps ==
    /\ \A n \in Stacked : n <= MaxUnhook
    /\ IsFiniteSet(Helpers) /\ Cardinality(Helpers) <= MaxUnhook

\* h can still add a jump to c; and it can without another "new".
MayJump(h, c) ==
    \/ MayBuild(proc[h])
    \/ proc[h].task = "build" /\ proc[h].next <= FirstUp(c) + 2
    \/ Command("jump", c, h) \in orphans

WillJump(h, c) ==
    \/ proc[h].task = "build" /\ proc[h].next \in {FirstUp(c) + 1, FirstUp(c) + 2}
    \/ Command("jump", c, h) \in orphans

Jumpers(c) == {h \in Helpers : MayJump(h, c)}

\* A helper builds once, and does not outlive a jump that it has left behind.
Once ==
    /\ \A h \in Helpers : Spent(proc[h])
    /\ \A r \in Repairs : proc[r].task \in {"unborn", "repair", "gone", "killed"}
    /\ \A o \in orphans : o.op = "jump" =>
          o.by \in Helpers /\ proc[o.by].task \in {"bail", "gone", "killed"}

\* The chain is still the one of an earlier session, in which nobody's "new" works; or
\* every jump to it was paid for by a helper that can add no more.
Bounded(c) ==
    \/ /\ table[c].exists /\ table[c].jumps <= MaxUnhook
       /\ \A h \in Helpers : ~WillJump(h, c)
    \/ table[c].jumps + Cardinality(Jumpers(c)) <= Cardinality(Helpers)

\* With IInv the inductive invariant.
AllBounded == Once /\ \A c \in Chains : Bounded(c)

LEMMA FewerJumpers ==
  ASSUME FewJumps, NEW c
  PROVE  /\ Cardinality(Helpers) \in Nat /\ Cardinality(Jumpers(c)) \in Nat
         /\ Cardinality(Jumpers(c)') \in Nat
         /\ Cardinality(Jumpers(c)) <= Cardinality(Helpers)
         /\ Cardinality(Jumpers(c)') <= Cardinality(Helpers)
         /\ Jumpers(c)' \subseteq Jumpers(c) =>
               Cardinality(Jumpers(c)') <= Cardinality(Jumpers(c))
         /\ \A h \in Jumpers(c) : Jumpers(c)' \subseteq Jumpers(c) \ {h} =>
               Cardinality(Jumpers(c)') + 1 <= Cardinality(Jumpers(c))
<1> DEFINE old == Jumpers(c)
           new == Jumpers(c)'
<1>1. IsFiniteSet(Helpers) /\ old \in SUBSET Helpers /\ new \in SUBSET Helpers
  BY DEF FewJumps, Jumpers
<1> HIDE DEF old, new
<1>2. /\ IsFiniteSet(old) /\ Cardinality(old) <= Cardinality(Helpers)
      /\ IsFiniteSet(new) /\ Cardinality(new) <= Cardinality(Helpers)
  BY <1>1, FS_Subset
<1>3. Cardinality(Helpers) \in Nat /\ Cardinality(old) \in Nat /\ Cardinality(new) \in Nat
  BY <1>1, <1>2, FS_CardinalityType
<1>4. new \subseteq old => Cardinality(new) <= Cardinality(old)
  BY <1>2, FS_Subset
<1>5. ASSUME NEW h \in old, new \subseteq old \ {h}
      PROVE  Cardinality(new) + 1 <= Cardinality(old)
  <2>1. IsFiniteSet(old \ {h}) /\ Cardinality(old \ {h}) = Cardinality(old) - 1
    BY <1>2, FS_RemoveElement
  <2>2. Cardinality(new) <= Cardinality(old \ {h})
    BY <1>5, <2>1, FS_Subset
  <2>3. QED
    BY <1>3, <2>1, <2>2
<1>6. QED
  BY <1>2, <1>3, <1>4, <1>5 DEF old, new

\* A step that adds no jump, and lets nobody past a "new" that did not work.
LEMMA BoundedStays ==
  ASSUME FewJumps, IInv, IInv', NEW c \in Chains, Bounded(c),
         table'[c].jumps <= table[c].jumps, Jumpers(c)' \subseteq Jumpers(c),
         table[c].exists => \A h \in Helpers : WillJump(h, c)' => WillJump(h, c)
  PROVE  Bounded(c)'
<1>1. /\ table[c].jumps \in Nat /\ table'[c].jumps \in Nat /\ MaxUnhook \in Nat
      /\ ~table'[c].exists => table'[c].jumps = 0
  BY NetguardAssumption DEF IInv, TypeOK, Tables, ChainStates, KernelOK, NoChain
<1>2. CASE ~table'[c].exists
  BY <1>1, <1>2, FewerJumpers DEF Bounded
<1>3. CASE table[c].jumps + Cardinality(Jumpers(c)) <= Cardinality(Helpers)
  <2>1. table'[c].jumps + Cardinality(Jumpers(c)') <= Cardinality(Helpers)
    BY <1>1, <1>3, FewerJumpers
  <2>2. QED
    BY <2>1 DEF Bounded
<1>4. CASE /\ table'[c].exists /\ table[c].exists /\ table[c].jumps <= MaxUnhook
           /\ \A h \in Helpers : ~WillJump(h, c)
  BY <1>1, <1>4 DEF Bounded
<1>5. QED
  BY <1>2, <1>3, <1>4 DEF Bounded

\* A jump, by a helper that has none left.
LEMMA BoundedJump ==
  ASSUME FewJumps, IInv, IInv', NEW c \in Chains, Bounded(c), NEW h \in Helpers,
         WillJump(h, c), table'[c].jumps = table[c].jumps + 1, h \in Jumpers(c),
         Jumpers(c)' \subseteq Jumpers(c) \ {h}
  PROVE  Bounded(c)'
<1>1. table[c].jumps \in Nat
  BY DEF IInv, TypeOK, Tables, ChainStates
<1>2. table[c].jumps + Cardinality(Jumpers(c)) <= Cardinality(Helpers)
  BY DEF Bounded
<1>3. table'[c].jumps + Cardinality(Jumpers(c)') <= Cardinality(Helpers)
  BY <1>1, <1>2, FewerJumpers
<1>4. QED
  BY <1>3 DEF Bounded

\* What a command does to the jumps of a chain.
LEMMA CommandJumps ==
  ASSUME IInv, NEW cmd \in Commands, NEW ok \in BOOLEAN, Run(cmd, ok), NEW c \in Chains
  PROVE  /\ ok /\ cmd.op = "jump" /\ cmd.chain = c => table'[c].jumps = table[c].jumps + 1
         /\ ~ok \/ cmd.op # "jump" \/ cmd.chain # c => table'[c].jumps <= table[c].jumps
         /\ ok /\ cmd.op = "new" => ~table[cmd.chain].exists
<1>1. cmd.chain \in Chains /\ cmd.op \in Ops /\ table \in Tables /\ table[c].jumps \in Nat
      /\ table[c] \in ChainStates
  BY DEF Commands, IInv, TypeOK, Tables, ChainStates
<1>2. ok /\ cmd.op = "new" => ~table[cmd.chain].exists
  BY DEF Run, Works
<1>3. CASE ~ok \/ cmd.chain # c
  <2>1. table'[c] = table[c]
    BY <1>1, <1>3 DEF Run, After, Tables
  <2>2. QED
    BY <1>1, <1>2, <1>3, <2>1
<1>4. CASE ok /\ cmd.chain = c
  <2>1. Works(table, cmd) /\ table'[c] = ChainAfter(table[c], cmd)
    BY <1>1, <1>4 DEF Run, After, Tables
  <2>2. cmd.op = "jump" => table'[c].jumps = table[c].jumps + 1
    BY <1>1, <2>1 DEF ChainAfter, ChainStates
  <2>3. cmd.op \in {"new", "fill", "flush", "probe", "exists"}
        => table'[c].jumps = table[c].jumps
    BY <1>1, <2>1 DEF ChainAfter, ChainStates
  <2>4. cmd.op = "delete" => table'[c].jumps = table[c].jumps - 1
    BY <1>1, <2>1 DEF ChainAfter, ChainStates
  <2>5. cmd.op = "drop" => table'[c].jumps = 0
    BY <1>1, <2>1 DEF ChainAfter, NoChain
  <2>6. QED
    BY <1>1, <1>2, <1>4, <2>2, <2>3, <2>4, <2>5 DEF Ops
<1>5. QED
  BY <1>3, <1>4

\* A step of h that adds no jump, and gets it no further towards one.
LEMMA OwnBounded ==
  ASSUME FewJumps, IInv, IInv', AllBounded, NEW h \in Procs, Running(h), NEW q,
         proc' = [proc EXCEPT ![h] = q], orphans' = orphans, Spent(q),
         q.task \in {"bail", "gone", "killed"}
            \/ proc[h].task \notin {"bail", "gone", "killed"},
         h \in Repairs => q.task \in {"repair", "gone", "killed"},
         MayBuild(q) => MayBuild(proc[h]),
         NEW c \in Chains, table'[c].jumps <= table[c].jumps,
         q.task = "build" /\ q.next <= FirstUp(c) + 2 =>
            \/ MayBuild(proc[h])
            \/ proc[h].task = "build" /\ proc[h].next <= FirstUp(c) + 2,
         table[c].exists /\ q.task = "build" /\ q.next \in {FirstUp(c) + 1, FirstUp(c) + 2} =>
            /\ proc[h].task = "build"
            /\ proc[h].next \in {FirstUp(c) + 1, FirstUp(c) + 2}
  PROVE  Once' /\ Bounded(c)'
<1>1. proc'[h] = q /\ \A o \in Procs \ {h} : proc'[o] = proc[o]
  BY DEF IInv, TypeOK
<1>2. Once'
  BY <1>1 DEF AllBounded, Once, Procs
<1>3. Jumpers(c)' \subseteq Jumpers(c)
  BY <1>1 DEF Jumpers, MayJump, Procs
<1>4. table[c].exists => \A o \in Helpers : WillJump(o, c)' => WillJump(o, c)
  BY <1>1 DEF WillJump, Procs
<1>5. QED
  BY <1>2, <1>3, <1>4, BoundedStays DEF AllBounded

LEMMA TameBounded ==
  ASSUME FewJumps, IInv, IInv', AllBounded, NEW h \in Procs, TameStep(h)
  PROVE  AllBounded'
<1> DEFINE p == proc[h]
           q == proc'[h]
<1>1. /\ Running(h) /\ table' = table /\ orphans' = orphans
      /\ proc' = [proc EXCEPT ![h] = q] /\ Tame(p, q)
  BY DEF TameStep
<1>2. Spent(p) /\ (h \in Repairs => p.task = "repair")
  BY <1>1 DEF AllBounded, Once, Procs, Running, Spent
<1> HIDE DEF q
<1>3. /\ Spent(q) /\ (MayBuild(q) => MayBuild(p))
      /\ h \in Repairs => q.task \in {"repair", "gone", "killed"}
      /\ q.task \in {"bail", "gone", "killed"} \/ p.task \notin {"bail", "gone", "killed"}
  BY <1>1, <1>2 DEF Tame, Running
<1>4. ASSUME NEW c \in Chains
      PROVE  Once' /\ Bounded(c)'
  <2>1. table[c].jumps \in Nat
    BY DEF IInv, TypeOK, Tables, ChainStates
  <2>2. FirstUp(c) \in {1, 4, 7}
    BY DEF FirstUp, Chains
  <2>3. q.task = "build" => \/ MayBuild(p) /\ q.next = 1
                            \/ p.task = "build" /\ q.next = p.next
                            \/ q.next \in 10..13
    BY <1>1 DEF Tame, MayBuild
  <2>4. /\ q.task = "build" /\ q.next <= FirstUp(c) + 2 =>
              MayBuild(p) \/ (p.task = "build" /\ p.next <= FirstUp(c) + 2)
        /\ q.task = "build" /\ q.next \in {FirstUp(c) + 1, FirstUp(c) + 2} =>
              p.task = "build" /\ p.next \in {FirstUp(c) + 1, FirstUp(c) + 2}
    BY <2>2, <2>3
  <2>5. table'[c].jumps <= table[c].jumps
    BY <1>1, <2>1
  <2>6. QED
    BY <1>1, <1>3, <2>4, <2>5, OwnBounded
<1>5. QED
  BY <1>4 DEF AllBounded, Chains

LEMMA TeardownStepBounded ==
  ASSUME FewJumps, IInv, IInv', AllBounded, NEW h \in Procs, TeardownStep(h)
  PROVE  AllBounded'
<1> DEFINE p == proc[h]
           cmd == TeardownCommand(h)
<1>1. /\ p \in ProcStates /\ p.task \in Tearing /\ p.scan.at # "done" /\ p.scan \in Scans
      /\ orphans' = orphans /\ Running(h)
  BY DEF IInv, TypeOK, TeardownStep, ProcStates, Running, Tearing
<1>2. PICK ok \in BOOLEAN :
        Run(cmd, ok) /\ proc' = [proc EXCEPT ![h].scan = NextScan(@, ok)]
  BY DEF TeardownStep
<1>3. cmd \in Commands /\ cmd.op # "jump"
  BY <1>1 DEF TeardownCommand, Command, Commands, Ops, Scans, TeardownOrder, Chains
<1> DEFINE q == [p EXCEPT !.scan = NextScan(p.scan, ok)]
<1>4. /\ proc' = [proc EXCEPT ![h] = q]
      /\ q.task = p.task /\ q.todo = p.todo /\ q.next = p.next
  BY <1>1, <1>2 DEF IInv, TypeOK, ProcStates
<1>5. Spent(p) /\ (h \in Repairs => p.task \in {"repair", "gone", "killed"})
  BY <1>1 DEF AllBounded, Once, Procs, Tearing, Spent
<1> HIDE DEF q, cmd
<1>6. ASSUME NEW c \in Chains
      PROVE  Once' /\ Bounded(c)'
  <2>1. table'[c].jumps <= table[c].jumps
    BY <1>2, <1>3, CommandJumps
  <2>2. QED
    BY <1>1, <1>4, <1>5, <2>1, OwnBounded DEF Spent, MayBuild, Tearing
<1>7. QED
  BY <1>6 DEF AllBounded, Chains

\* A build adds a jump once, and only behind a "new" that worked.
LEMMA BuildStepBounded ==
  ASSUME FewJumps, IInv, IInv', AllBounded, NEW h \in Procs, BuildStep(h)
  PROVE  AllBounded'
<1> DEFINE p == proc[h]
           cmd == BuildCommand(h)
<1>1. /\ p \in ProcStates /\ p.task = "build" /\ p.next \in 1..9
      /\ orphans' = orphans /\ Running(h)
  BY Stages DEF IInv, TypeOK, BuildStep, ProcStates, Running
<1>2. /\ Spent(p) /\ "up" \notin p.todo /\ h \in Helpers /\ h \notin Repairs
      /\ \A c \in Chains : Command("jump", c, h) \notin orphans
  BY <1>1 DEF AllBounded, Once, Procs, Spent, Command
<1>3. /\ cmd \in Commands
      /\ \A c \in Chains : (cmd.op = "jump" /\ cmd.chain = c) <=> p.next = FirstUp(c) + 2
      /\ \A c \in Chains : p.next = FirstUp(c) => cmd.op = "new" /\ cmd.chain = c
  BY <1>1, <1>2 DEF BuildCommand, UpCommands, Command, Commands, Ops, Chains, FirstUp
<1>4. PICK ok \in BOOLEAN :
        /\ Run(cmd, ok)
        /\ proc' = IF ok THEN [proc EXCEPT ![h].next = @ + 1] ELSE Teardown(h, "undo")
  BY DEF BuildStep
<1>5. PICK q :
        /\ proc' = [proc EXCEPT ![h] = q] /\ q.todo = p.todo
        /\ IF ok THEN q.task = "build" /\ q.next = p.next + 1 ELSE q.task = "undo"
  <2>1. CASE ok
    <3> DEFINE q == [p EXCEPT !.next = p.next + 1]
    <3>1. proc' = [proc EXCEPT ![h] = q]
      BY <1>4, <2>1 DEF IInv, TypeOK, ProcStates
    <3>2. q.task = "build" /\ q.next = p.next + 1 /\ q.todo = p.todo
      BY <1>1 DEF ProcStates
    <3> HIDE DEF q
    <3>3. QED
      BY <2>1, <3>1, <3>2
  <2>2. CASE ~ok
    BY <1>4, <2>2, TeardownType DEF IInv, TypeOK
  <2>3. QED
    BY <2>1, <2>2
<1>6. Spent(q) /\ ~MayBuild(q)
  BY <1>2, <1>5 DEF Spent, MayBuild
<1> HIDE DEF cmd
<1>7. ASSUME NEW c \in Chains
      PROVE  Once' /\ Bounded(c)'
  <2>1. FirstUp(c) \in {1, 4, 7}
    BY DEF FirstUp, Chains
  <2>2. CASE ok /\ p.next = FirstUp(c) + 2
    <3>1. table'[c].jumps = table[c].jumps + 1
      BY <1>3, <1>4, <2>2, CommandJumps
    <3>2. proc'[h] = q /\ \A o \in Procs \ {h} : proc'[o] = proc[o]
      BY <1>5 DEF IInv, TypeOK
    <3>3. WillJump(h, c) /\ h \in Jumpers(c)
      BY <1>1, <1>2, <2>1, <2>2 DEF WillJump, Jumpers, MayJump
    <3>4. ~MayJump(h, c)'
      BY <1>1, <1>2, <1>5, <1>6, <2>1, <2>2, <3>2 DEF MayJump
    <3>5. Jumpers(c)' \subseteq Jumpers(c) \ {h}
      BY <1>1, <3>2, <3>4 DEF Jumpers, MayJump, Procs
    <3>6. Once'
      BY <1>1, <1>2, <1>5, <1>6, <2>2, <3>2 DEF AllBounded, Once, Procs
    <3>7. QED
      BY <1>2, <3>1, <3>3, <3>5, <3>6, BoundedJump DEF AllBounded
  <2>3. CASE ~ok \/ p.next # FirstUp(c) + 2
    <3>1. table'[c].jumps <= table[c].jumps
      BY <1>3, <1>4, <2>3, CommandJumps
    <3>2. q.task \notin {"bail", "gone", "killed"} /\ p.task \notin {"bail", "gone", "killed"}
      BY <1>1, <1>5
    <3>3. q.task = "build" /\ q.next <= FirstUp(c) + 2 => p.next <= FirstUp(c) + 2
      BY <1>1, <1>5, <2>1
    <3>4. table[c].exists /\ q.task = "build" /\ q.next \in {FirstUp(c) + 1, FirstUp(c) + 2}
          => p.next \in {FirstUp(c) + 1, FirstUp(c) + 2}
      <4>1. p.next = FirstUp(c) /\ ok => ~table[c].exists
        BY <1>3, <1>4, CommandJumps
      <4>2. QED
        BY <1>1, <1>5, <2>1, <4>1
    <3>5. QED
      BY <1>1, <1>2, <1>5, <1>6, <3>1, <3>2, <3>3, <3>4, OwnBounded
  <2>4. QED
    BY <2>2, <2>3
<1>8. QED
  BY <1>7 DEF AllBounded, Chains

\* A signal leaves a jump behind only where the build was at it.
LEMMA SignalBounded ==
  ASSUME FewJumps, IInv, IInv', AllBounded, NEW h \in Procs, SigTerm(h) \/ SigKill(h)
  PROVE  AllBounded'
<1> DEFINE p == proc[h]
<1>1. /\ p \in ProcStates /\ Running(h) /\ table' = table
      /\ orphans \subseteq orphans' /\ orphans' \subseteq orphans \cup InFlight(h)
  BY DEF SigTerm, SigKill, IInv, TypeOK
<1>2. PICK q \in ProcStates :
        /\ proc' = [proc EXCEPT ![h] = q] /\ q.task \in {"bail", "killed"}
        /\ Spent(q) /\ (h \in Repairs => q.task = "killed")
  <2>1. CASE SigTerm(h)
    <3>1. h \notin Repairs
      BY <2>1, NetguardAssumption DEF SigTerm
    <3>2. QED
      BY <2>1, <3>1, TeardownType DEF SigTerm, IInv, TypeOK, Spent
  <2>2. CASE SigKill(h)
    BY <2>2, OverType DEF SigKill, IInv, TypeOK, Spent
  <2>3. QED
    BY <2>1, <2>2
<1>3. proc'[h] = q /\ \A o \in Procs \ {h} : proc'[o] = proc[o]
  BY <1>2 DEF IInv, TypeOK
<1>4. ASSUME NEW o \in orphans', o \notin orphans, o.op = "jump"
      PROVE  /\ o.by = h /\ h \in Helpers /\ p.task = "build"
             /\ p.next = FirstUp(o.chain) + 2
  <2>1. o \in InFlight(h)
    BY <1>1, <1>4
  <2>2. p.task \in Tearing => TeardownCommand(h).op # "jump" \/ InFlight(h) = {}
    BY DEF TeardownCommand, Command, InFlight, Tearing
  <2>3. p.task = "build" /\ p.next <= 9 /\ o = BuildCommand(h)
    BY <1>4, <2>1, <2>2, Stages DEF InFlight
  <2>4. p.next \in 1..9
    BY <1>1, <2>3, Stages DEF ProcStates
  <2>5. o.by = h /\ p.next = FirstUp(o.chain) + 2
    BY <1>4, <2>3, <2>4 DEF BuildCommand, UpCommands, Command, FirstUp
  <2>6. h \in Helpers
    BY <2>3 DEF AllBounded, Once, Procs
  <2>7. QED
    BY <2>3, <2>5, <2>6
<1>5. Once'
  <2>1. ASSUME NEW o \in orphans', o.op = "jump"
        PROVE  o.by \in Helpers /\ proc'[o.by].task \in {"bail", "gone", "killed"}
    <3>1. CASE o \in orphans
      BY <1>2, <1>3, <2>1, <3>1 DEF AllBounded, Once, Procs
    <3>2. CASE o \notin orphans
      BY <1>2, <1>3, <1>4, <2>1, <3>2
    <3>3. QED
      BY <3>1, <3>2
  <2>2. /\ \A o \in Helpers : Spent(proc'[o])
        /\ \A r \in Repairs : proc'[r].task \in {"unborn", "repair", "gone", "killed"}
    BY <1>2, <1>3 DEF AllBounded, Once, Procs
  <2>3. QED
    BY <2>1, <2>2 DEF Once
<1>6. ASSUME NEW c \in Chains
      PROVE  Bounded(c)'
  <2>1. ASSUME NEW o \in Helpers, Command("jump", c, o) \in orphans'
        PROVE  \/ Command("jump", c, o) \in orphans
               \/ o = h /\ p.task = "build" /\ p.next = FirstUp(c) + 2
    <3> DEFINE left == Command("jump", c, o)
    <3>1. left.op = "jump" /\ left.by = o /\ left.chain = c
      BY DEF Command
    <3> HIDE DEF left
    <3>2. CASE left \notin orphans
      BY <1>4, <2>1, <3>1, <3>2 DEF left
    <3>3. QED
      BY <3>2 DEF left
  <2>2. FirstUp(c) \in {1, 4, 7}
    BY DEF FirstUp, Chains
  <2>3. ASSUME NEW o \in Helpers
        PROVE  /\ MayJump(o, c)' => MayJump(o, c)
               /\ WillJump(o, c)' => WillJump(o, c)
    BY <1>2, <1>3, <2>1, <2>2 DEF MayJump, WillJump, MayBuild, Procs
  <2>4. Jumpers(c)' \subseteq Jumpers(c)
    BY <2>3 DEF Jumpers
  <2>5. table'[c].jumps <= table[c].jumps
    BY <1>1 DEF IInv, TypeOK, Tables, ChainStates
  <2>6. QED
    BY <2>3, <2>4, <2>5, BoundedStays DEF AllBounded
<1>7. QED
  BY <1>5, <1>6 DEF AllBounded

LEMMA SpawnBounded ==
  ASSUME FewJumps, IInv, IInv', AllBounded, NEW h \in Procs, Spawn(h)
  PROVE  AllBounded'
<1>1. proc[h].task = "unborn" /\ table' = table /\ orphans' = orphans
  BY DEF Spawn
<1>2. /\ proc'[h].task = (IF h \in Repairs THEN "repair" ELSE "idle")
      /\ \A o \in Procs \ {h} :
            /\ proc'[o].task = proc[o].task /\ proc'[o].next = proc[o].next
            /\ proc'[o].todo = proc[o].todo
  BY SpawnFields
<1>3. Once'
  <2>1. \A o \in Procs : Spent(proc[o]) => Spent(proc'[o])
    BY <1>2 DEF Spent
  <2>2. \A r \in Repairs : proc'[r].task \in {"unborn", "repair", "gone", "killed"}
    BY <1>2 DEF AllBounded, Once, Procs
  <2>3. \A o \in orphans : o.op = "jump" =>
          o.by \in Helpers /\ proc'[o.by].task \in {"bail", "gone", "killed"}
    BY <1>1, <1>2 DEF AllBounded, Once, Procs
  <2>4. QED
    BY <1>1, <2>1, <2>2, <2>3 DEF AllBounded, Once, Procs
<1>4. ASSUME NEW c \in Chains
      PROVE  Bounded(c)'
  <2>1. ASSUME NEW o \in Helpers
        PROVE  /\ MayJump(o, c)' => MayJump(o, c)
               /\ WillJump(o, c)' => WillJump(o, c)
    BY <1>1, <1>2 DEF MayJump, WillJump, MayBuild, Procs
  <2>2. Jumpers(c)' \subseteq Jumpers(c)
    BY <2>1 DEF Jumpers
  <2>3. table'[c].jumps <= table[c].jumps
    BY <1>1 DEF IInv, TypeOK, Tables, ChainStates
  <2>4. QED
    BY <2>1, <2>2, <2>3, BoundedStays DEF AllBounded
<1>5. QED
  BY <1>3, <1>4 DEF AllBounded

LEMMA OrphanBounded ==
  ASSUME FewJumps, IInv, IInv', AllBounded, OrphanRuns
  PROVE  AllBounded'
<1>1. PICK cmd \in orphans, ok \in BOOLEAN : Run(cmd, ok) /\ orphans' = orphans \ {cmd}
  BY DEF OrphanRuns
<1>2. proc' = proc /\ cmd \in Commands
  BY DEF OrphanRuns, IInv, TypeOK
<1>3. Once'
  BY <1>1, <1>2 DEF AllBounded, Once
<1>4. ASSUME NEW c \in Chains
      PROVE  Bounded(c)'
  <2>1. \A o \in Helpers : /\ MayJump(o, c)' => MayJump(o, c)
                           /\ WillJump(o, c)' => WillJump(o, c)
    BY <1>1, <1>2 DEF MayJump, WillJump
  <2>2. CASE ok /\ cmd.op = "jump" /\ cmd.chain = c
    <3> DEFINE h == cmd.by
    <3>1. table'[c].jumps = table[c].jumps + 1
      BY <1>1, <1>2, <2>2, CommandJumps
    <3>2. h \in Helpers /\ proc[h].task \in {"bail", "gone", "killed"}
      BY <2>2 DEF AllBounded, Once
    <3>3. cmd = Command("jump", c, h)
      BY <1>2, <2>2 DEF Commands, Command
    <3> HIDE DEF h
    <3>4. WillJump(h, c) /\ h \in Jumpers(c)
      BY <3>2, <3>3 DEF WillJump, Jumpers, MayJump
    <3>5. ~MayJump(h, c)'
      BY <1>1, <1>2, <3>2, <3>3 DEF MayJump, MayBuild
    <3>6. Jumpers(c)' \subseteq Jumpers(c) \ {h}
      BY <2>1, <3>5 DEF Jumpers
    <3>7. QED
      BY <3>1, <3>2, <3>4, <3>6, BoundedJump DEF AllBounded
  <2>3. CASE ~ok \/ cmd.op # "jump" \/ cmd.chain # c
    <3>1. table'[c].jumps <= table[c].jumps
      BY <1>1, <1>2, <2>3, CommandJumps
    <3>2. Jumpers(c)' \subseteq Jumpers(c)
      BY <2>1 DEF Jumpers
    <3>3. QED
      BY <2>1, <3>1, <3>2, BoundedStays DEF AllBounded
  <2>4. QED
    BY <2>2, <2>3
<1>5. QED
  BY <1>3, <1>4 DEF AllBounded

LEMMA InitBounded ==
  ASSUME FewJumps, Init
  PROVE  AllBounded
<1>1. /\ orphans = {} /\ \A h \in Procs : proc[h].task = "unborn"
  BY DEF Init, Unborn
<1>2. Once
  BY <1>1 DEF Once, Procs, Spent
<1>3. ASSUME NEW c \in Chains
      PROVE  Bounded(c)
  <2>1. CASE table[c] = NoChain
    BY <2>1, FewerJumpers DEF Bounded, NoChain
  <2>2. CASE \E n \in Stacked : table[c] = [exists |-> TRUE, rules |-> Former, jumps |-> n]
    BY <1>1, <2>2 DEF Bounded, FewJumps, WillJump, Procs
  <2>3. QED
    BY <2>1, <2>2 DEF Init
<1>4. QED
  BY <1>2, <1>3 DEF AllBounded

\* No chain is ever jumped to more often than one sweep can undo, whatever overlaps and
\* whatever goes wrong: MAX_JUMP_UNHOOK is enough for the helpers of a session, each of
\* which builds once, even if it never gets to tear down (up_commands, netfilter.py, and
\* _teardown_pass, netguard.py).
THEOREM JumpsStayFew ==
  ASSUME FewJumps
  PROVE  Spec => []Unhookable
<1>1. Init => AllBounded
  BY InitBounded
<1>2. IInv /\ IInv' /\ AllBounded /\ [Next]_vars => AllBounded'
  <2> SUFFICES ASSUME IInv, IInv', AllBounded, [Next]_vars
               PROVE  AllBounded'
    OBVIOUS
  <2>1. ASSUME NEW h \in Procs, Serve(h)
        PROVE  AllBounded'
    <3>1. TameStep(h) \/ TeardownStep(h) \/ BuildStep(h)
      BY <2>1, ServeTame
    <3>2. QED
      BY <3>1, TameBounded, TeardownStepBounded, BuildStepBounded
  <2>2. ASSUME NEW h \in Procs, Spawn(h) \/ CloseStdin(h) \/ SigTerm(h) \/ SigKill(h)
        PROVE  AllBounded'
    BY <2>2, SpawnBounded, CloseStdinTame, TameBounded, SignalBounded
  <2>3. CASE OrphanRuns
    BY <2>3, OrphanBounded
  <2>4. CASE UNCHANGED vars
    BY <2>4 DEF vars, AllBounded, Once, Bounded, Jumpers, MayJump, WillJump
  <2>5. QED
    BY <2>1, <2>2, <2>3, <2>4 DEF Next
<1>3. IInv /\ AllBounded => Unhookable
  <2> SUFFICES ASSUME IInv, AllBounded, NEW c \in Chains
               PROVE  table[c].jumps <= MaxUnhook
    BY DEF Unhookable
  <2>1. table[c].jumps \in Nat /\ MaxUnhook \in Nat /\ Cardinality(Helpers) \in Nat
        /\ Cardinality(Jumpers(c)) \in Nat
    BY NetguardAssumption, FewerJumpers DEF IInv, TypeOK, Tables, ChainStates
  <2>2. QED
    BY <2>1 DEF AllBounded, Bounded, FewJumps
<1>4. QED
  BY <1>1, <1>2, <1>3, InvariantHolds, PTL DEF Spec

-----------------------------------------------------------------------------
(* Failing closed with a lost lock *)

\* Before the first thing goes wrong nothing is left behind and nobody is in a SIGTERM
\* handler.
NoMishap == mishaps = 0 => orphans = {} /\ \A h \in Procs : proc[h].task # "bail"

LEMMA FirstMishap ==
  ASSUME IInv, NoMishap, [Next]_vars
  PROVE  NoMishap'
<1>1. mishaps \in Nat /\ (mishaps' = 0 => mishaps = 0)
  BY NetguardAssumption, MishapsGrow DEF IInv, TypeOK
<1> SUFFICES ASSUME mishaps' = 0
             PROVE  orphans' = {} /\ \A h \in Procs : proc'[h].task # "bail"
  BY DEF NoMishap
<1>2. orphans = {} /\ \A h \in Procs : proc[h].task # "bail"
  BY <1>1 DEF NoMishap
<1>3. ASSUME NEW h \in Procs, NEW q, proc' = [proc EXCEPT ![h] = q], q.task # "bail"
      PROVE  \A o \in Procs : proc'[o].task # "bail"
  BY <1>2, <1>3 DEF IInv, TypeOK
<1>4. ASSUME NEW h \in Procs, TameStep(h)
      PROVE  orphans' = {} /\ \A o \in Procs : proc'[o].task # "bail"
  <2>1. /\ proc' = [proc EXCEPT ![h] = proc'[h]] /\ Tame(proc[h], proc'[h])
        /\ orphans' = orphans
    BY <1>4 DEF TameStep
  <2>2. proc'[h].task # "bail"
    BY <1>2, <2>1 DEF Tame
  <2>3. QED
    BY <1>2, <1>3, <2>1, <2>2
<1>5. ASSUME NEW h \in Procs, TeardownStep(h)
      PROVE  orphans' = {} /\ \A o \in Procs : proc'[o].task # "bail"
  BY <1>2, <1>5 DEF TeardownStep, IInv, TypeOK, ProcStates
<1>6. ASSUME NEW h \in Procs, BuildStep(h)
      PROVE  orphans' = {} /\ \A o \in Procs : proc'[o].task # "bail"
  <2>1. proc[h].task = "build" /\ orphans' = {}
    BY <1>2, <1>6 DEF BuildStep
  <2>2. CASE proc' = [proc EXCEPT ![h].next = @ + 1]
    BY <1>2, <2>1, <2>2 DEF IInv, TypeOK, ProcStates
  <2>3. CASE proc' = Teardown(h, "undo")
    <3>1. PICK q \in ProcStates : proc' = [proc EXCEPT ![h] = q] /\ q.task = "undo"
      BY <2>3, TeardownType DEF IInv, TypeOK
    <3>2. QED
      BY <1>3, <2>1, <3>1
  <2>4. QED
    BY <1>6, <2>2, <2>3 DEF BuildStep
<1>7. ASSUME NEW h \in Procs, Spawn(h)
      PROVE  orphans' = {} /\ \A o \in Procs : proc'[o].task # "bail"
  <2>1. orphans' = {}
    BY <1>2, <1>7 DEF Spawn
  <2>2. proc'[h].task # "bail" /\ \A o \in Procs \ {h} : proc'[o].task = proc[o].task
    BY <1>7, SpawnFields
  <2>3. QED
    BY <1>2, <2>1, <2>2
<1>8. ASSUME NEW h \in Procs, SigTerm(h) \/ SigKill(h)
      PROVE  FALSE
  BY <1>1, <1>8 DEF SigTerm, SigKill, Fault
<1>9. CASE UNCHANGED vars
  BY <1>2, <1>9 DEF vars
<1>10. ~OrphanRuns
  BY <1>2 DEF OrphanRuns
<1>11. QED
  BY <1>4, <1>5, <1>6, <1>7, <1>8, <1>9, <1>10, ServeTame, CloseStdinTame DEF Next

\* The one lock is lost before anything else went wrong: the jumps were all removed
\* before the flush, and nothing can bring one back.
LEMMA EmptiedInTime ==
  ASSUME LosesAtMost(1), IInv, AllHonest(TRUE), NoMishap
  PROVE  Emptied
<1> SUFFICES ASSUME NEW h \in Procs, NoOverlap, "lock" \in Faults, mishaps < MaxFaults,
                    proc[h].task \in Tearing, proc[h].scan.at = "flush",
                    proc[h].scan.i = 1, proc[h].scan.pass = 1
             PROVE  table["nat"].jumps = 0 /\ orphans = {}
  BY DEF Emptied
<1>1. mishaps = 0 /\ Lost = 0
  BY NetguardAssumption DEF LosesAtMost, Lost, IInv, TypeOK
<1>2. orphans = {} /\ proc[h].task # "bail" /\ Alone(h)
  BY <1>1 DEF NoMishap, NoOverlap, Alone, Tearing
<1>3. Thorough(proc[h].scan, table, 0)
  BY <1>1, <1>2 DEF AllHonest, Honest
<1>4. ChainAt(proc[h].scan) = "nat"
  BY DEF ChainAt, TeardownOrder
<1>5. QED
  BY <1>2, <1>3, <1>4 DEF Thorough

\* The helper implements FailClosed although a lock is missed: the redirect's jumps are
\* deleted before it is flushed, so that missing either is made up for by the other, and
\* the kill switches wait for both (teardown_plan, netfilter.py, and _teardown_pass,
\* netguard.py:53-105).
THEOREM FailsClosedWithLostLock ==
  ASSUME FewJumps, LosesAtMost(1)
  PROVE  Spec => FailsClosed
<1>1. Init => AllHonest(TRUE) /\ NoMishap /\ Safe /\ Promise!Init
  <2>1. Init => AllHonest(TRUE)
    BY InitHonest
  <2>2. Init => NoMishap
    BY DEF Init, NoMishap, Unborn
  <2>3. QED
    BY <2>1, <2>2, InitSafe, SafeMode DEF Promise!Init
<1>2. IInv /\ IInv' /\ Unhookable' /\ AllHonest(TRUE) /\ [Next]_vars => AllHonest(TRUE)'
  BY NextHonest
<1>3. IInv /\ NoMishap /\ [Next]_vars => NoMishap'
  BY FirstMishap
<1>4. IInv /\ AllHonest(TRUE) /\ NoMishap /\ Safe /\ [Next]_vars
      => Safe' /\ [Promise!Next]_Mode
  <2> SUFFICES ASSUME IInv, AllHonest(TRUE), NoMishap, Safe, [Next]_vars
               PROVE  Safe' /\ [Promise!Next]_Mode
    OBVIOUS
  <2>1. CASE Next
    BY <2>1, EmptiedInTime, NextSafe, ModeStep DEF Onward
  <2>2. CASE UNCHANGED vars
    BY <2>2 DEF vars, Safe, NoOverlap, Mode, Standing, Jumped
  <2>3. QED
    BY <2>1, <2>2
<1>5. QED
  BY <1>1, <1>2, <1>3, <1>4, InvariantHolds, JumpsStayFew, PTL
     DEF Spec, FailsClosed, Promise!Spec

\* And so nothing else escapes either, whichever lock it is that is missed.
THEOREM NoEscapeWithLostLock ==
  ASSUME FewJumps, LosesAtMost(1)
  PROVE  Spec => []NoEscape
  BY FailsClosedWithLostLock, FailingClosedKeepsIn, PTL

-----------------------------------------------------------------------------
(* A refused up *)

\* All or nothing: a refused up leaves no chain that traffic goes through, if two locks
\* are missed at most and a pass of the teardown is left for each (bring_up,
\* netguard.py:137-165).
THEOREM RefusedIsCleanHolds ==
  ASSUME FewJumps, LosesAtMost(2), LosesAtMost(Attempts - 1)
  PROVE  Spec => []RefusedIsClean
<1>1. Init => AllHonest(TRUE)
  BY InitHonest
<1>2. IInv /\ IInv' /\ AllHonest(TRUE) /\ [Next]_vars /\ Unhookable' => AllHonest(TRUE)'
  BY NextHonest
<1>3. IInv /\ AllHonest(TRUE) => RefusedIsClean
  <2> SUFFICES ASSUME IInv, AllHonest(TRUE), NEW h \in Helpers, Alone(h),
                      proc[h].task = "idle", proc[h].reply = "refused", NEW c \in Chains
               PROVE  ~Jumped(c)
    BY DEF RefusedIsClean
  <2>1. Spoilt(Lost) \/ table[c].jumps = 0
    BY DEF AllHonest, Honest, Procs
  <2>2. ~Spoilt(Lost)
    BY LostGrows, NetguardAssumption DEF IInv, TypeOK, Lost, LosesAtMost, Spoilt
  <2>3. QED
    BY <2>1, <2>2 DEF Jumped
<1>4. QED
  BY <1>1, <1>2, <1>3, InvariantHolds, JumpsStayFew, PTL DEF Spec

-----------------------------------------------------------------------------
(* Processes that overlap *)

\* Still to tear everything down at its end, or doing that.
Unfinished == {"idle", "clean", "build", "undo", "check", "down"}
Last       == {"final", "repair"}

Jumps(k, m) == k[TeardownOrder[m]].jumps

\* The sweep of s will remove the jumps to the m-th chain.
WillUnhook(s, k, m) ==
    \/ s.i < m
    \/ s.i = m /\ s.at \in {"probe", "delete"} /\ Jumps(k, m) + s.unhooked <= MaxUnhook

\* It will find those that are left, and has a pass to spare for them.
WillReturn(s, m) ==
    /\ s.pass < Attempts
    /\ s.left \/ (s.i = m /\ s.at \in {"probe", "delete", "flush", "drop", "reprobe"})

\* n locks were lost.  As long as there was none, who has been past a chain in its last
\* teardown left no jump there; after the one, nothing is overlooked any more.
WillRemove(s, k, m, n) ==
    /\ s.at # "done"
    /\ IF n = 0 THEN s.pass = 1 /\ WillUnhook(s, k, m)
       ELSE WillUnhook(s, k, m) \/ WillReturn(s, m)

Keen(p, k, m, n) ==
    \/ p.task \in Unfinished
    \/ p.task \in Last /\ WillRemove(p.scan, k, m, n)

\* With IInv the inductive invariant: whatever is jumped to, somebody will remove it.
Released ==
    (\A h \in Procs : proc[h].task # "killed") =>
        /\ orphans = {}
        /\ (\E h \in Procs : proc[h].task # "unborn") =>
              \A m \in 1..3 : Jumps(table, m) > 0 =>
                 \E h \in Procs : Keen(proc[h], table, m, Lost)

LEMMA ChainOf == \A m \in 1..3 : TeardownOrder[m] \in Chains
  BY DEF TeardownOrder, Chains

LEMMA JumpsType ==
  ASSUME NEW k \in Tables, NEW m \in 1..3
  PROVE  Jumps(k, m) \in Nat
<1>1. TeardownOrder[m] \in Chains
  BY ChainOf
<1>2. QED
  BY <1>1 DEF Jumps, Tables, ChainStates

\* Fewer jumps, or a lock lost elsewhere, leave a process as keen as it was.
LEMMA KeenStill ==
  ASSUME NEW p, p.scan \in Scans, NEW k \in Tables, NEW k2 \in Tables, NEW m \in 1..3,
         Jumps(k2, m) <= Jumps(k, m), NEW n \in Nat, NEW n2 \in {n, n + 1}, Keen(p, k, m, n)
  PROVE  Keen(p, k2, m, n2)
<1>1. /\ Jumps(k, m) \in Nat /\ Jumps(k2, m) \in Nat /\ p.scan.unhooked \in Nat
      /\ MaxUnhook \in Nat
  BY JumpsType, NetguardAssumption DEF Scans
<1>2. WillUnhook(p.scan, k, m) => WillUnhook(p.scan, k2, m)
  BY <1>1 DEF WillUnhook
<1>3. WillRemove(p.scan, k, m, n) => WillRemove(p.scan, k2, m, n2)
  BY <1>2 DEF WillRemove
<1>4. QED
  BY <1>3 DEF Keen

LEMMA FreshKeen ==
  ASSUME NEW p, p.task \in Last, p.scan = FirstScan, NEW k \in Tables, NEW m \in 1..3,
         \A c \in Chains : k[c].jumps <= MaxUnhook, NEW n \in Nat
  PROVE  Keen(p, k, m, n)
<1>1. Jumps(k, m) \in Nat /\ Jumps(k, m) <= MaxUnhook
  BY JumpsType, ChainOf DEF Jumps
<1>2. WillUnhook(FirstScan, k, m)
  BY <1>1 DEF WillUnhook, FirstScan
<1>3. QED
  BY <1>2 DEF Keen, WillRemove, FirstScan

\* A command of the last teardown, with a lock to lose if a pass is left for that.
LEMMA SweepKeen ==
  ASSUME NEW s \in Scans, ScanFits(s), s.at # "done", NEW ok \in BOOLEAN,
         NEW t, t = NextScan(s, ok),
         NEW k \in Tables, NEW k2 \in Tables, NEW n \in 0..1, NEW n2 \in 0..1,
         n2 \in {n, n + 1},
         NEW missed \in BOOLEAN, missed => n2 = n + 1 /\ Attempts > 1,
         \A c \in Chains : k2[c].jumps <= MaxUnhook,
         \A c \in Chains \ {ChainAt(s)} : k2[c] = k[c],
         Outcome(s.at, ok, k[ChainAt(s)], k2[ChainAt(s)], missed),
         NEW m \in 1..3, Jumps(k2, m) > 0, WillRemove(s, k, m, n)
  PROVE  WillRemove(t, k2, m, n2)
<1>1. /\ s.left \in BOOLEAN /\ s.i \in 1..3 /\ s.pass \in 1..Attempts
      /\ s.unhooked \in 0..MaxUnhook /\ MaxUnhook \in Nat /\ Attempts \in Nat
      /\ Jumps(k, m) \in Nat /\ Jumps(k2, m) \in Nat /\ Jumps(k2, m) <= MaxUnhook
  BY NetguardAssumption, JumpsType, ChainOf DEF Scans, Jumps
<1>2. \A i \in 1..3 : i # s.i => TeardownOrder[i] \in Chains \ {ChainAt(s)}
  BY <1>1 DEF ChainAt, TeardownOrder, Chains
<1>3. s.i # m => Jumps(k2, m) = Jumps(k, m)
  BY <1>2 DEF Jumps
<1>4. s.i = m => Outcome(s.at, ok, k[TeardownOrder[m]], k2[TeardownOrder[m]], missed)
  BY DEF ChainAt
<1>5. CASE s.at = "exists"
  <2>1. CASE s.i < 3 /\ t.i = s.i + 1 /\ t.pass = s.pass /\ t.at = "probe" /\ t.unhooked = 0
             /\ (t.left <=> s.left \/ ok)
    <3>1. s.i < m => WillUnhook(t, k2, m)
      BY <1>1, <2>1 DEF WillUnhook
    <3>2. WillReturn(s, m) => WillReturn(t, m)
      BY <1>5, <2>1 DEF WillReturn
    <3>3. WillUnhook(s, k, m) => s.i < m
      BY <1>5 DEF WillUnhook
    <3>4. QED
      BY <2>1, <3>1, <3>2, <3>3 DEF WillRemove
  <2>2. CASE s.pass < Attempts /\ t.pass = s.pass + 1 /\ t.i = 1 /\ t.at = "probe"
             /\ t.unhooked = 0 /\ s.i = 3
    <3>1. WillUnhook(t, k2, m)
      BY <1>1, <2>2 DEF WillUnhook
    <3>2. ~WillUnhook(s, k, m)
      BY <1>5, <2>2 DEF WillUnhook
    <3>3. n # 0
      BY <3>2 DEF WillRemove
    <3>4. QED
      BY <2>2, <3>1, <3>3 DEF WillRemove
  <2>3. CASE s.i = 3 /\ t.at = "done" /\ (s.left => s.pass = Attempts)
    <3>1. ~WillUnhook(s, k, m)
      BY <1>5, <2>3 DEF WillUnhook
    <3>2. ~WillReturn(s, m)
      BY <1>1, <1>5, <2>3 DEF WillReturn
    <3>3. QED
      BY <3>1, <3>2 DEF WillRemove
  <2>4. \/ s.i < 3 /\ t.i = s.i + 1 /\ t.pass = s.pass /\ t.at = "probe" /\ t.unhooked = 0
           /\ (t.left <=> s.left \/ ok)
        \/ s.pass < Attempts /\ t.pass = s.pass + 1 /\ t.i = 1 /\ t.at = "probe"
           /\ t.unhooked = 0 /\ s.i = 3
        \/ s.i = 3 /\ t.at = "done" /\ (s.left => s.pass = Attempts)
    BY <1>5, SweepTo
  <2>5. QED
    BY <2>1, <2>2, <2>3, <2>4
<1>6. CASE s.at \in {"probe", "delete", "flush", "drop", "reprobe"}
  <2>1. t.pass = s.pass /\ t.i = s.i /\ t.at # "done" /\ (s.left => t.left)
    BY <1>6, SweepTo
  <2>2. CASE s.i < m
    BY <2>1, <2>2 DEF WillRemove, WillUnhook
  <2>3. CASE s.left /\ s.pass < Attempts /\ n # 0
    BY <2>1, <2>3 DEF WillRemove, WillReturn
  <2>4. CASE s.i = m /\ s.at \in {"probe", "delete"} /\ Jumps(k, m) + s.unhooked <= MaxUnhook
    <3>1. CASE missed
      <4>1. n = 0 /\ n2 = 1 /\ s.pass = 1 /\ s.pass < Attempts
        BY <3>1 DEF WillRemove
      <4>2. t.at \in {"probe", "delete", "flush"}
        BY <2>4, SweepTo
      <4>3. QED
        BY <2>1, <2>4, <4>1, <4>2 DEF WillRemove, WillReturn
    <3>2. CASE ~missed
      <4>1. WillUnhook(t, k2, m)
        <5>1. CASE s.at = "probe"
          <6>1. k2[TeardownOrder[m]] = k[TeardownOrder[m]]
            BY <1>4, <2>4, <5>1 DEF Outcome
          <6>2. ok
            BY <1>4, <2>4, <3>2, <5>1, <6>1 DEF Outcome, Jumps
          <6>3. t.at = "delete" /\ t.unhooked = s.unhooked
            BY <5>1, <6>2, SweepTo
          <6>4. Jumps(k2, m) = Jumps(k, m)
            BY <6>1 DEF Jumps
          <6>5. QED
            BY <2>1, <2>4, <6>3, <6>4 DEF WillUnhook
        <5>2. CASE s.at = "delete"
          <6>1. ok /\ Jumps(k2, m) = Jumps(k, m) - 1
            BY <1>4, <2>4, <3>2, <5>2 DEF Outcome, Jumps
          <6>2. /\ t.unhooked = s.unhooked + 1
                /\ t.at = IF s.unhooked + 1 < MaxUnhook THEN "probe" ELSE "flush"
            BY <5>2, <6>1, SweepTo
          <6>3. s.unhooked + 1 < MaxUnhook
            BY <1>1, <2>4, <6>1
          <6>4. t.i = m /\ t.at = "probe"
            BY <2>1, <2>4, <6>2, <6>3
          <6>5. Jumps(k2, m) + t.unhooked = Jumps(k, m) + s.unhooked
            <7> DEFINE was == Jumps(k, m)
                       now == Jumps(k2, m)
            <7>1. now = was - 1 /\ was \in Nat /\ s.unhooked \in Nat
              BY <1>1, <6>1
            <7>2. t.unhooked = s.unhooked + 1
              BY <6>2
            <7> HIDE DEF was, now
            <7>3. now + t.unhooked = was + s.unhooked
              BY <7>1, <7>2
            <7>4. QED
              BY <7>3 DEF was, now
          <6>6. QED
            BY <2>4, <6>4, <6>5 DEF WillUnhook
        <5>3. QED
          BY <2>4, <5>1, <5>2
      <4>2. QED
        BY <2>1, <4>1 DEF WillRemove
    <3>3. QED
      BY <3>1, <3>2
  <2>5. CASE n # 0 /\ s.pass < Attempts /\ s.i = m
             /\ s.at \in {"probe", "delete", "flush", "drop", "reprobe"}
    <3>1. ~missed /\ n2 # 0
      BY <2>5
    <3>2. CASE s.at = "reprobe"
      <4>1. k2[TeardownOrder[m]] = k[TeardownOrder[m]]
        BY <1>4, <2>5, <3>2 DEF Outcome
      <4>2. ok
        BY <1>4, <2>5, <3>1, <3>2, <4>1 DEF Outcome, Jumps
      <4>3. t.left
        BY <3>2, <4>2, SweepTo
      <4>4. QED
        BY <2>1, <2>5, <3>1, <4>3 DEF WillRemove, WillReturn
    <3>3. CASE s.at \in {"probe", "delete", "flush", "drop"}
      <4>1. t.at \in {"probe", "delete", "flush", "drop", "reprobe"}
        BY <3>3, SweepTo
      <4>2. QED
        BY <2>1, <2>5, <3>1, <4>1 DEF WillRemove, WillReturn
    <3>4. QED
      BY <2>5, <3>2, <3>3
  <2>6. QED
    BY <2>2, <2>3, <2>4, <2>5 DEF WillRemove, WillUnhook, WillReturn
<1>7. QED
  BY <1>5, <1>6 DEF Scans

\* A step of one process that adds no jump and leaves it as keen as it was.
LEMMA OwnReleases ==
  ASSUME IInv, IInv', [Next]_vars, Released, NEW h \in Procs, Running(h),
         NEW q, proc' = [proc EXCEPT ![h] = q], q.task # "killed", orphans' = orphans,
         \A m \in 1..3 : Jumps(table', m) <= Jumps(table, m),
         \A m \in 1..3 : Jumps(table', m) > 0 /\ Keen(proc[h], table, m, Lost)
                         => Keen(q, table', m, Lost')
  PROVE  Released'
<1>1. proc'[h] = q /\ \A o \in Procs \ {h} : proc'[o] = proc[o]
  BY DEF IInv, TypeOK
<1>2. proc[h].task # "killed" /\ proc[h].task # "unborn"
  BY DEF Running
<1> SUFFICES ASSUME \A o \in Procs : proc'[o].task # "killed"
             PROVE  /\ orphans' = {}
                    /\ \A m \in 1..3 : Jumps(table', m) > 0 =>
                          \E o \in Procs : Keen(proc'[o], table', m, Lost')
  BY DEF Released
<1>3. \A o \in Procs : proc[o].task # "killed"
  BY <1>1, <1>2
<1>4. /\ orphans = {}
      /\ \A m \in 1..3 : Jumps(table, m) > 0 =>
            \E o \in Procs : Keen(proc[o], table, m, Lost)
  BY <1>2, <1>3 DEF Released
<1>5. ASSUME NEW m \in 1..3, Jumps(table', m) > 0
      PROVE  \E o \in Procs : Keen(proc'[o], table', m, Lost')
  <2>1. table \in Tables /\ table' \in Tables /\ Lost \in Nat /\ Lost' \in {Lost, Lost + 1}
    BY LostGrows DEF IInv, TypeOK
  <2>2. Jumps(table, m) > 0
    BY <1>5, <2>1, JumpsType
  <2>3. PICK o \in Procs : Keen(proc[o], table, m, Lost)
    BY <1>4, <2>2
  <2>4. CASE o = h
    BY <1>1, <1>5, <2>3, <2>4
  <2>5. CASE o # h
    <3>1. proc[o].scan \in Scans
      BY DEF IInv, TypeOK, ProcStates
    <3>2. Jumps(table', m) <= Jumps(table, m)
      OBVIOUS
    <3>3. Keen(proc[o], table', m, Lost')
      BY <2>1, <2>3, <3>1, <3>2, KeenStill
    <3>4. QED
      BY <1>1, <2>5, <3>3
  <2>6. QED
    BY <2>4, <2>5
<1>6. QED
  BY <1>4, <1>5

LEMMA SameJumps ==
  ASSUME IInv, table' = table
  PROVE  \A m \in 1..3 : Jumps(table', m) <= Jumps(table, m)
  BY JumpsType DEF IInv, TypeOK

LEMMA TameReleases ==
  ASSUME Unhookable', IInv, IInv', [Next]_vars, Released, NEW h \in Procs, TameStep(h)
  PROVE  Released'
<1> DEFINE p == proc[h]
           q == proc'[h]
<1>1. /\ Running(h) /\ table' = table /\ orphans' = orphans
      /\ proc' = [proc EXCEPT ![h] = q] /\ Tame(p, q)
  BY DEF TameStep
<1>2. /\ table \in Tables /\ Lost \in Nat /\ Lost' \in {Lost, Lost + 1} /\ Lost' \in Nat
      /\ p.scan \in Scans /\ p.task \in Tasks
  BY LostGrows DEF IInv, TypeOK, ProcStates
<1> HIDE DEF q
<1>3. ASSUME NEW m \in 1..3, Keen(p, table, m, Lost)
      PROVE  Keen(q, table', m, Lost')
  <2>1. Jumps(table, m) <= Jumps(table, m)
    BY <1>2, JumpsType
  <2>2. Keen(p, table, m, Lost')
    BY <1>2, <1>3, <2>1, KeenStill
  <2>3. CASE q.task \in Unfinished
    BY <2>3 DEF Keen
  <2>4. CASE q.task \in Last /\ q.scan = FirstScan
    BY <1>1, <1>2, <2>4, FreshKeen DEF Unhookable
  <2>5. CASE q.task = p.task /\ q.scan = p.scan
    BY <1>1, <2>2, <2>5 DEF Keen
  <2>6. p.task \in Unfinished \cup Last
    BY <1>3 DEF Keen
  <2>7. q.task \in Unfinished \cup Last
    <3>1. CASE q.task = "gone" /\ p.task \in {"final", "bail", "repair"} /\ p.scan.at = "done"
      BY <1>3, <3>1 DEF Keen, WillRemove, Unfinished
    <3>2. QED
      BY <1>1, <2>6, <3>1 DEF Tame, Unfinished, Last
  <2>8. QED
    BY <1>1, <2>3, <2>4, <2>5, <2>7 DEF Tame, Last, Tearing
<1>4. q.task # "killed"
  BY <1>1 DEF Tame, Running
<1>5. QED
  BY <1>1, <1>3, <1>4, SameJumps, OwnReleases

LEMMA TeardownStepReleases ==
  ASSUME LosesAtMost(1), LosesAtMost(Attempts - 1),
         Unhookable', IInv, IInv', [Next]_vars, Released, NEW h \in Procs, TeardownStep(h)
  PROVE  Released'
<1> DEFINE p == proc[h]
           s == p.scan
           cmd == TeardownCommand(h)
<1>1. /\ p \in ProcStates /\ p.task \in Tearing /\ s.at # "done" /\ s \in Scans /\ ScanFits(s)
      /\ orphans' = orphans
  BY DEF IInv, TypeOK, TeardownStep, ProcStates, ProcOK, Local
<1>2. PICK ok \in BOOLEAN :
        Run(cmd, ok) /\ proc' = [proc EXCEPT ![h].scan = NextScan(@, ok)]
  BY DEF TeardownStep
<1>3. /\ cmd \in Commands /\ cmd.chain = ChainAt(s)
      /\ cmd.op = IF s.at = "reprobe" THEN "probe" ELSE s.at
  BY <1>1 DEF TeardownCommand, Command, Commands, Ops, Scans, TeardownOrder, Chains, ChainAt
<1> DEFINE t == NextScan(s, ok)
           q == [p EXCEPT !.scan = t]
<1>4. /\ proc' = [proc EXCEPT ![h] = q] /\ Running(h)
      /\ q.task = p.task /\ q.scan = t /\ q.task # "killed"
  BY <1>1, <1>2 DEF IInv, TypeOK, ProcStates, Running, Tearing
<1>5. /\ Lost \in 0..1 /\ Lost' \in 0..1 /\ Lost' \in {Lost, Lost + 1}
      /\ table \in Tables /\ table' \in Tables
  BY LostGrows, NetguardAssumption DEF IInv, TypeOK, LosesAtMost, Lost
<1> DEFINE missed == ~ok /\ Works(table, cmd)
<1>6. /\ missed \in BOOLEAN
      /\ Outcome(s.at, ok, table[ChainAt(s)], table'[ChainAt(s)], missed)
      /\ missed => Lost' = Lost + 1
      /\ \A c \in Chains \ {ChainAt(s)} : table'[c] = table[c]
  <2>1. s.at \in {"probe", "delete", "flush", "drop", "reprobe", "exists"}
    BY <1>1 DEF Scans
  <2> HIDE DEF cmd
  <2>2. QED
    BY <1>2, <1>3, <2>1, CommandTells
<1>7. missed => Attempts > 1
  <2>1. Lost' > 0 => Attempts > 1
    BY <1>5, NetguardAssumption DEF IInv, TypeOK, LosesAtMost, Lost
  <2>2. QED
    BY <1>5, <1>6, <2>1
<1> HIDE DEF cmd, q, missed
<1>8. ASSUME NEW m \in 1..3
      PROVE  Jumps(table', m) <= Jumps(table, m)
  <2>1. Jumps(table', m) \in Nat /\ Jumps(table, m) \in Nat
    BY <1>5, JumpsType
  <2>2. CASE TeardownOrder[m] # ChainAt(s)
    <3>1. table'[TeardownOrder[m]] = table[TeardownOrder[m]]
      BY <1>6, <2>2, ChainOf
    <3>2. QED
      BY <2>1, <3>1 DEF Jumps
  <2>3. CASE TeardownOrder[m] = ChainAt(s)
    <3>1. NoChain.jumps = 0
      BY DEF NoChain
    <3>2. Outcome(s.at, ok, table[TeardownOrder[m]], table'[TeardownOrder[m]], missed)
      BY <1>6, <2>3
    <3>3. QED
      BY <1>1, <2>1, <3>1, <3>2 DEF Outcome, Jumps, Scans
  <2>4. QED
    BY <2>2, <2>3
<1>9. ASSUME NEW m \in 1..3, Jumps(table', m) > 0, Keen(p, table, m, Lost)
      PROVE  Keen(q, table', m, Lost')
  <2>1. CASE p.task \in Unfinished
    BY <1>4, <2>1 DEF Keen
  <2>2. CASE p.task \in Last /\ WillRemove(s, table, m, Lost)
    <3>1. WillRemove(t, table', m, Lost')
      BY <1>1, <1>5, <1>6, <1>7, <1>9, <2>2, SweepKeen DEF Unhookable
    <3>2. QED
      BY <1>4, <2>2, <3>1 DEF Keen
  <2>3. QED
    BY <1>9, <2>1, <2>2 DEF Keen
<1>10. QED
  BY <1>1, <1>4, <1>8, <1>9, OwnReleases

\* Who is not in its last teardown is keen, whatever there is to remove.
LEMMA UnfinishedReleases ==
  ASSUME NEW h \in Procs, proc'[h].task \in Unfinished, orphans' = orphans,
         proc[h].task \notin {"killed"}, Released,
         \A o \in Procs \ {h} : proc'[o].task = proc[o].task
  PROVE  Released'
  BY DEF Released, Keen

LEMMA BuildStepReleases ==
  ASSUME IInv, Released, NEW h \in Procs, BuildStep(h)
  PROVE  Released'
<1> DEFINE p == proc[h]
<1>1. p \in ProcStates /\ p.task = "build" /\ orphans' = orphans
  BY DEF IInv, TypeOK, BuildStep
<1>2. /\ proc'[h].task \in {"build", "undo"}
      /\ \A o \in Procs \ {h} : proc'[o] = proc[o]
  <2>1. CASE proc' = [proc EXCEPT ![h].next = @ + 1]
    BY <1>1, <2>1 DEF IInv, TypeOK, ProcStates
  <2>2. CASE proc' = Teardown(h, "undo")
    <3>1. PICK q \in ProcStates : proc' = [proc EXCEPT ![h] = q] /\ q.task = "undo"
      BY <2>2, TeardownType DEF IInv, TypeOK
    <3>2. QED
      BY <3>1 DEF IInv, TypeOK
  <2>3. QED
    BY <2>1, <2>2 DEF BuildStep
<1>3. QED
  BY <1>1, <1>2, UnfinishedReleases DEF Unfinished

LEMMA SpawnReleases ==
  ASSUME Unhookable', IInv, IInv', AllHonest(FALSE), Released, NEW h \in Procs, Spawn(h)
  PROVE  Released'
<1>1. /\ table' = table /\ Lost' = Lost /\ orphans' = orphans /\ proc[h].task = "unborn"
      /\ table' \in Tables /\ Lost' \in Nat
  BY LostGrows DEF Spawn, Lost, IInv, TypeOK
<1>2. /\ proc'[h].task \in {"repair", "idle"} /\ proc'[h].scan = proc[h].scan
      /\ \A o \in Procs \ {h} : proc'[o].task = proc[o].task
  BY SpawnFields
<1>3. CASE proc'[h].task = "idle"
  BY <1>1, <1>2, <1>3, UnfinishedReleases DEF Unfinished
<1>4. CASE proc'[h].task = "repair"
  <2>1. proc[h].scan = FirstScan
    BY <1>1 DEF AllHonest
  <2>2. \A m \in 1..3 : Keen(proc'[h], table', m, Lost')
    BY <1>1, <1>2, <1>4, <2>1, FreshKeen DEF Unhookable, Last
  <2>3. (\A o \in Procs : proc'[o].task # "killed") => orphans' = {}
    BY <1>1, <1>2 DEF Released
  <2>4. QED
    BY <2>2, <2>3 DEF Released
<1>5. QED
  BY <1>2, <1>3, <1>4

\* When every helper has run to its end, no chain is jumped to, however their
\* teardowns and builds overlapped: no SIGTERM and one lost lock at most, with a second
\* pass to make up for it (main and teardown, netguard.py:53-135).
THEOREM ReleasedAtExitHolds ==
  ASSUME FewJumps, "term" \notin Faults, LosesAtMost(1), LosesAtMost(Attempts - 1)
  PROVE  Spec => []ReleasedAtExit
<1>1. Init => AllHonest(FALSE) /\ Released
  <2>1. Init => AllHonest(FALSE)
    BY InitHonest
  <2>2. Init => Released
    BY DEF Init, Released, Unborn
  <2>3. QED
    BY <2>1, <2>2
<1>2. IInv /\ IInv' /\ AllHonest(FALSE) /\ [Next]_vars => AllHonest(FALSE)'
  BY NextHonest
<1>3. IInv /\ IInv' /\ AllHonest(FALSE) /\ Released /\ [Next]_vars /\ Unhookable' => Released'
  <2> SUFFICES ASSUME IInv, IInv', AllHonest(FALSE), Released, [Next]_vars, Unhookable'
               PROVE  Released'
    OBVIOUS
  <2>1. ASSUME NEW h \in Procs, Serve(h)
        PROVE  Released'
    <3>1. TameStep(h) \/ TeardownStep(h) \/ BuildStep(h)
      BY <2>1, ServeTame
    <3>2. QED
      BY <3>1, TameReleases, TeardownStepReleases, BuildStepReleases
  <2>2. ASSUME NEW h \in Procs, Spawn(h) \/ CloseStdin(h)
        PROVE  Released'
    BY <2>2, SpawnReleases, CloseStdinTame, TameReleases
  <2>3. ASSUME NEW h \in Procs, SigKill(h)
        PROVE  Released'
    <3>1. PICK q \in ProcStates : proc' = [proc EXCEPT ![h] = q] /\ q.task = "killed"
      BY <2>3, OverType DEF SigKill, IInv, TypeOK
    <3>2. proc'[h].task = "killed"
      BY <3>1 DEF IInv, TypeOK
    <3>3. QED
      BY <3>2 DEF Released
  <2>4. CASE OrphanRuns
    <3>1. proc' = proc /\ orphans # {}
      BY <2>4 DEF OrphanRuns
    <3>2. QED
      BY <3>1 DEF Released
  <2>5. CASE UNCHANGED vars
    BY <2>5 DEF vars, Released, Lost
  <2>6. QED
    BY <2>1, <2>2, <2>3, <2>4, <2>5 DEF Next, SigTerm, Fault
<1>4. IInv /\ Released => ReleasedAtExit
  <2> SUFFICES ASSUME IInv, Released, Quiet, NEW c \in Chains
               PROVE  ~Jumped(c)
    BY DEF ReleasedAtExit
  <2>1. PICK m \in 1..3 : c = TeardownOrder[m]
    BY DEF TeardownOrder, Chains
  <2>2. \A h \in Procs : ~Keen(proc[h], table, m, Lost)
    BY DEF Quiet, Keen, Unfinished, Last
  <2>3. ~(Jumps(table, m) > 0)
    BY <2>2 DEF Released, Quiet
  <2>4. QED
    BY <2>1, <2>3 DEF Jumps, Jumped
<1>5. QED
  BY <1>1, <1>2, <1>3, <1>4, InvariantHolds, JumpsStayFew, PTL DEF Spec

-----------------------------------------------------------------------------
(* The connectivity check *)

\* NetworkManager answers, and no signal gets between turning the check off and
\* remembering what it was: both do break CheckRestored.
BusAnswers == {"bus", "term"} \cap Faults = {}

\* The check has been turned off, what it was is not in the stash yet.
Between(p) == p.task = "build" /\ p.next = NmStash

\* A running process owes the user the stash, or else nothing.
Owes(p, value) ==
    /\ p.stash # "unset" => p.stash = userNm
    /\ p.task = "build" => p.stash = "unset"
    /\ p.task = "build" /\ p.next \in {NmOff, NmStash} => p.prev = userNm
    /\ p.stash = "unset" /\ ~Between(p) => value = userNm

\* What CheckRestored is claimed for, whoever is still running.
Untroubled ==
    /\ NoOverlap
    /\ \A r \in Repairs : proc[r].task = "unborn"
    /\ \A h \in Procs : proc[h].task # "killed"

\* With IInv the inductive invariant.
CheckKept ==
    /\ \A h \in Procs : proc[h].task = "unborn" => proc[h].stash = "unset"
    /\ Untroubled => /\ \A h \in Procs : Running(h) => Owes(proc[h], nm)
                     /\ (\A h \in Procs : ~Running(h)) => nm = userNm

\* A step of one process: it goes on and owes what it should, or has ended and put
\* the check back, or is killed.
LEMMA OwnChecks ==
  ASSUME IInv, CheckKept, NEW h \in Procs, Running(h), NEW q,
         proc' = [proc EXCEPT ![h] = q],
         q.alone = proc[h].alone, q.task # "unborn", userNm' = userNm,
         h \notin Repairs /\ Owes(proc[h], nm) =>
            \/ q.task = "killed"
            \/ q.task = "gone" /\ nm' = userNm
            \/ q.task # "gone" /\ Owes(q, nm')
  PROVE  CheckKept'
<1>1. proc'[h] = q /\ \A o \in Procs \ {h} : proc'[o] = proc[o]
  BY DEF IInv, TypeOK
<1>2. \A o \in Procs : proc'[o].task = "unborn" => proc'[o].stash = "unset"
  BY <1>1 DEF CheckKept
<1>3. ASSUME Untroubled'
      PROVE  /\ \A o \in Procs : Running(o)' => Owes(proc'[o], nm')
             /\ (\A o \in Procs : ~Running(o)') => nm' = userNm
  <2>1. h \notin Repairs /\ q.task # "killed"
    BY <1>1, <1>3 DEF Untroubled
  <2>2. Untroubled
    BY <1>1, <1>3 DEF Untroubled, NoOverlap, Running
  <2>3. Owes(proc[h], nm)
    BY <2>2 DEF CheckKept
  <2>4. \/ q.task = "gone" /\ nm' = userNm
        \/ q.task # "gone" /\ Owes(q, nm')
    BY <2>1, <2>3
  <2>5. \A o \in Procs \ {h} : ~Running(o)'
    BY <1>1, <2>2 DEF Untroubled, NoOverlap, Alone, IInv, AloneOK, Running
  <2>6. q.task # "gone" => Running(h)'
    BY <1>1, <2>1 DEF Running
  <2>7. QED
    BY <1>1, <2>4, <2>5, <2>6 DEF Running
<1>4. QED
  BY <1>2, <1>3 DEF CheckKept, Owes

LEMMA TeardownStepChecks ==
  ASSUME IInv, CheckKept, NEW h \in Procs, TeardownStep(h)
  PROVE  CheckKept'
<1> DEFINE p == proc[h]
<1>1. p \in ProcStates /\ p.task \in Tearing /\ Running(h) /\ nm' = nm /\ userNm' = userNm
  BY DEF IInv, TypeOK, TeardownStep, Running, Tearing
<1>2. PICK ok \in BOOLEAN : proc' = [proc EXCEPT ![h].scan = NextScan(@, ok)]
  BY DEF TeardownStep
<1> DEFINE q == [p EXCEPT !.scan = NextScan(p.scan, ok)]
<1>3. /\ proc' = [proc EXCEPT ![h] = q]
      /\ q.alone = p.alone /\ q.task = p.task /\ q.stash = p.stash
  BY <1>1, <1>2 DEF IInv, TypeOK, ProcStates
<1> HIDE DEF q
<1>4. Owes(p, nm) => Owes(q, nm')
  BY <1>1, <1>3 DEF Owes, Between, Tearing
<1>5. q.task # "unborn" /\ q.task # "gone"
  BY <1>1, <1>3 DEF Tearing
<1>6. QED
  BY <1>1, <1>3, <1>4, <1>5, OwnChecks

\* nm_check_restore: with the bus answering, the check is what the stash says.
LEMMA RestoreChecks ==
  ASSUME BusAnswers, IInv, CheckKept, NEW h \in Procs, Restore(h)
  PROVE  CheckKept'
<1> DEFINE o == proc[h]
           p == [o EXCEPT !.stash = "unset"]
<1>1. /\ o \in ProcStates /\ o.task \in Tearing /\ Running(h) /\ userNm' = userNm
      /\ p \in ProcStates /\ p.alone = o.alone /\ p.task = o.task
      /\ p.reply = o.reply /\ p.next = o.next /\ p.stash = "unset"
  BY DEF IInv, TypeOK, Restore, ProcStates, NmValues, Running, Tearing
<1>2. PICK q \in Resumed(p) : proc' = [proc EXCEPT ![h] = q]
  BY DEF Restore
<1>3. h \notin Repairs => \/ o.stash = "unset" /\ nm' = nm
                          \/ o.stash # "unset" /\ nm' = o.stash
  BY DEF Restore, Bus, Fault, BusAnswers
<1>4. h \notin Repairs /\ Owes(o, nm) => nm' = userNm
  BY <1>1, <1>3 DEF Owes, Between, Tearing
<1> HIDE DEF p
<1>5. /\ q.alone = o.alone /\ q.task \notin {"unborn", "killed"}
      /\ q.task # "gone" => q.stash = "unset"
      /\ q.task = "build" => q.next = 1
  <2>1. CASE p.task = "clean"
    <3>1. q = [p EXCEPT !.task = "build", !.scan = FirstScan]
      BY <2>1 DEF Resumed
    <3>2. p.next = 1
      BY <1>1, <2>1 DEF IInv, ProcOK, Local
    <3>3. QED
      BY <1>1, <3>1, <3>2 DEF ProcStates
  <2>2. CASE p.task = "undo"
    <3>1. q \in Answered(p, "refused") /\ "refused" \in Replies
      BY <2>2 DEF Resumed, Replies
    <3>2. QED
      BY <1>1, <3>1, AnsweredType
  <2>3. CASE p.task = "down"
    <3>1. q \in Answered(p, p.reply) /\ p.reply \in Replies
      BY <1>1, <2>3 DEF Resumed, ProcStates
    <3>2. QED
      BY <1>1, <3>1, AnsweredType
  <2>4. CASE p.task \in {"final", "bail", "repair"}
    <3>1. q = Over(p, "gone")
      BY <2>4 DEF Resumed
    <3>2. QED
      BY <1>1, <3>1, OverType
  <2>5. QED
    BY <1>1, <2>1, <2>2, <2>3, <2>4 DEF Tearing
<1>6. ASSUME h \notin Repairs, Owes(o, nm)
      PROVE  \/ q.task = "gone" /\ nm' = userNm
             \/ q.task # "gone" /\ Owes(q, nm')
  BY <1>4, <1>5, <1>6, Stages DEF Owes, Between
<1>7. QED
  BY <1>1, <1>2, <1>5, <1>6, OwnChecks

LEMMA BuildStepChecks ==
  ASSUME IInv, CheckKept, NEW h \in Procs, BuildStep(h)
  PROVE  CheckKept'
<1> DEFINE p == proc[h]
<1>1. /\ p \in ProcStates /\ p.task = "build" /\ p.next \in 1..9 /\ Running(h)
      /\ nm' = nm /\ userNm' = userNm
  BY Stages DEF IInv, TypeOK, BuildStep, ProcStates, Running
<1>2. PICK q : /\ proc' = [proc EXCEPT ![h] = q] /\ q.alone = p.alone /\ q.stash = p.stash
               /\ \/ q.task = "build" /\ q.next = p.next + 1
                  \/ q.task = "undo"
  <2>1. CASE proc' = [proc EXCEPT ![h].next = @ + 1]
    <3> DEFINE r == [p EXCEPT !.next = p.next + 1]
    <3>1. proc' = [proc EXCEPT ![h] = r]
      BY <2>1 DEF IInv, TypeOK, ProcStates
    <3>2. r.alone = p.alone /\ r.stash = p.stash /\ r.task = "build" /\ r.next = p.next + 1
      BY <1>1 DEF ProcStates
    <3> HIDE DEF r
    <3>3. QED
      BY <3>1, <3>2
  <2>2. CASE proc' = Teardown(h, "undo")
    BY <2>2, TeardownType DEF IInv, TypeOK
  <2>3. QED
    BY <2>1, <2>2 DEF BuildStep
<1>3. Owes(p, nm) => Owes(q, nm')
  BY <1>1, <1>2, Stages DEF Owes, Between
<1>4. QED
  BY <1>1, <1>2, <1>3, OwnChecks

\* Nothing that a process remembers of the check changes, and it has not been
\* turned off in between.
LEMMA SameChecks ==
  ASSUME IInv, CheckKept, NEW h \in Procs, Running(h), NEW q,
         proc' = [proc EXCEPT ![h] = q], UNCHANGED <<nm, userNm>>,
         q.alone = proc[h].alone, q.stash = proc[h].stash,
         ~Between(proc[h]), q.task \notin {"unborn", "gone"},
         q.task = "build" => /\ proc[h].task = "build"
                             /\ \/ q.next = NmRead
                                \/ q.next = proc[h].next /\ q.prev = proc[h].prev
  PROVE  CheckKept'
<1>1. Owes(proc[h], nm) => Owes(q, nm')
  BY Stages DEF Owes, Between
<1>2. QED
  BY <1>1, OwnChecks

\* nm_check_disable: what was read is what the user had.
LEMMA NmStepChecks ==
  ASSUME BusAnswers, IInv, CheckKept, NEW h \in Procs, NmStep(h)
  PROVE  CheckKept'
<1> DEFINE p == proc[h]
<1>1. p \in ProcStates /\ p.task = "build" /\ Running(h) /\ userNm' = userNm
  BY DEF NmStep, IInv, TypeOK, Running
<1>2. userNm \in {"on", "off"}
  BY DEF IInv, TypeOK
<1>3. CASE p.next = NmRead
  <2> DEFINE q == [p EXCEPT !.next = NmOff, !.prev = nm]
  <2>1. proc' = [proc EXCEPT ![h].next = NmOff, ![h].prev = nm] /\ nm' = nm
    BY <1>3, Stages DEF NmStep, Bus, Fault, BusAnswers
  <2>2. proc' = [proc EXCEPT ![h] = q]
    BY <2>1 DEF IInv, TypeOK, ProcStates
  <2>3. /\ q.alone = p.alone /\ q.task = "build" /\ q.stash = p.stash
        /\ q.next = NmOff /\ q.prev = nm
    BY <1>1 DEF ProcStates
  <2> HIDE DEF q
  <2>4. Owes(p, nm) => Owes(q, nm')
    BY <1>1, <1>3, <2>1, <2>3, Stages DEF Owes, Between
  <2>5. QED
    BY <1>1, <2>2, <2>3, <2>4, OwnChecks
<1>4. CASE p.next = NmOff
  <2> DEFINE q == [p EXCEPT !.next = NmStash]
  <2>1. proc' = [proc EXCEPT ![h].next = NmStash]
    BY <1>4, Stages DEF NmStep, Bus, Fault, BusAnswers
  <2>2. proc' = [proc EXCEPT ![h] = q]
    BY <2>1 DEF IInv, TypeOK, ProcStates
  <2>3. /\ q.alone = p.alone /\ q.task = "build" /\ q.stash = p.stash
        /\ q.next = NmStash /\ q.prev = p.prev
    BY <1>1 DEF ProcStates
  <2> HIDE DEF q
  <2>4. Owes(p, nm) => Owes(q, nm')
    BY <1>1, <1>4, <2>3, Stages DEF Owes, Between
  <2>5. QED
    BY <1>1, <2>2, <2>3, <2>4, OwnChecks
<1>5. CASE p.next = NmStash
  <2> DEFINE r == [p EXCEPT !.stash = p.prev]
  <2>1. r \in ProcStates /\ r.alone = p.alone /\ r.stash = p.prev
    BY <1>1 DEF ProcStates
  <2>2. PICK q \in Answered(r, "ok") : proc' = [proc EXCEPT ![h] = q]
    BY <1>5, Stages DEF NmStep
  <2> HIDE DEF r
  <2>3. q.alone = p.alone /\ q.task \in {"idle", "final"} /\ q.stash = p.prev
    BY <2>1, AnsweredType DEF Replies
  <2>4. Owes(p, nm) => Owes(q, nm')
    BY <1>1, <1>2, <1>5, <2>3 DEF Owes, Between
  <2>5. QED
    BY <1>1, <2>2, <2>3, <2>4, OwnChecks
<1>6. QED
  BY <1>3, <1>4, <1>5 DEF NmStep

LEMMA QuietStepChecks ==
  ASSUME IInv, CheckKept, NEW h \in Procs,
         FlushStep(h) \/ CheckStep(h) \/ Receive(h) \/ Reject(h) \/ ReadEof(h)
                      \/ CloseStdin(h)
  PROVE  CheckKept'
<1> DEFINE p == proc[h]
<1>1. p \in ProcStates /\ Running(h) /\ UNCHANGED <<nm, userNm>>
  BY DEF IInv, TypeOK, FlushStep, CheckStep, Receive, Reject, ReadEof, CloseStdin, Running
<1>2. CASE FlushStep(h)
  <2> DEFINE q == [p EXCEPT !.next = NmRead]
  <2>1. proc' = [proc EXCEPT ![h] = q] /\ p.task = "build" /\ p.next = FlushAt
    BY <1>2 DEF FlushStep, IInv, TypeOK, ProcStates
  <2>2. /\ q.alone = p.alone /\ q.task = "build" /\ q.stash = p.stash /\ q.next = NmRead
    BY <1>1, <2>1 DEF ProcStates
  <2>3. ~Between(p)
    BY <2>1, Stages DEF Between
  <2> HIDE DEF q
  <2>4. QED
    BY <1>1, <2>1, <2>2, <2>3, SameChecks
<1>3. CASE CheckStep(h)
  <2>1. PICK ok \in BOOLEAN :
          LET missing == p.scan.left \/ ~ok
          IN  IF p.next < 3
              THEN proc' = [proc EXCEPT ![h].next = @ + 1, ![h].scan.left = missing]
              ELSE \E q \in Answered(p, IF missing THEN "broken" ELSE "intact") :
                      proc' = [proc EXCEPT ![h] = q]
    BY <1>3 DEF CheckStep, TeardownOrder
  <2>2. p.task = "check" /\ ~Between(p)
    BY <1>3 DEF CheckStep, Between
  <2>3. CASE p.next < 3
    <3> DEFINE left == p.scan.left \/ ~ok
               q == [p EXCEPT !.next = p.next + 1, !.scan = [@ EXCEPT !.left = left]]
    <3>1. proc' = [proc EXCEPT ![h].next = @ + 1, ![h].scan.left = left]
      BY <2>1, <2>3
    <3> HIDE DEF left
    <3>2. proc' = [proc EXCEPT ![h] = q]
      BY <3>1 DEF IInv, TypeOK, ProcStates
    <3>3. q.alone = p.alone /\ q.task = "check" /\ q.stash = p.stash
      BY <1>1, <2>2 DEF ProcStates
    <3> HIDE DEF q
    <3>4. QED
      BY <1>1, <2>2, <3>2, <3>3, SameChecks
  <2>4. CASE ~(p.next < 3)
    <3>1. PICK reply \in {"broken", "intact"} :
            \E q \in Answered(p, reply) : proc' = [proc EXCEPT ![h] = q]
      BY <2>1, <2>4
    <3>2. PICK q \in Answered(p, reply) : proc' = [proc EXCEPT ![h] = q]
      BY <3>1
    <3>3. q.alone = p.alone /\ q.task \in {"idle", "final"} /\ q.stash = p.stash
      BY <1>1, AnsweredType DEF Replies
    <3>4. QED
      BY <1>1, <2>2, <3>2, <3>3, SameChecks
  <2>5. QED
    BY <2>3, <2>4
<1>4. CASE Receive(h)
  <2>1. PICK op \in p.todo :
          proc' = [proc EXCEPT ![h].task = IF op = "up" THEN "clean" ELSE op,
                               ![h].scan = FirstScan, ![h].reply = "none",
                               ![h].todo = Later(op)]
    BY <1>4 DEF Receive
  <2>2. op \in Requests /\ ~Between(p)
    BY <1>1, <1>4 DEF ProcStates, Receive, Between
  <2> DEFINE task == IF op = "up" THEN "clean" ELSE op
             q == [p EXCEPT !.task = task, !.scan = FirstScan, !.reply = "none",
                            !.todo = Later(op)]
  <2>3. task \in {"clean", "check", "down"}
    BY <2>2 DEF Requests
  <2>4. proc' = [proc EXCEPT ![h] = q]
    BY <2>1 DEF IInv, TypeOK, ProcStates
  <2> HIDE DEF task
  <2>5. q.alone = p.alone /\ q.task = task /\ q.stash = p.stash
    BY <1>1 DEF ProcStates
  <2> HIDE DEF q
  <2>6. QED
    BY <1>1, <2>2, <2>3, <2>4, <2>5, SameChecks
<1>5. CASE Reject(h)
  <2> DEFINE asked == [p EXCEPT !.todo = Later("up")]
  <2>1. asked \in ProcStates /\ asked.alone = p.alone /\ asked.stash = p.stash
    BY <1>1, RequestsType DEF ProcStates, Requests
  <2>2. PICK q \in Answered(asked, "invalid") : proc' = [proc EXCEPT ![h] = q]
    BY <1>5 DEF Reject
  <2> HIDE DEF asked
  <2>3. q.alone = p.alone /\ q.task \in {"idle", "final"} /\ q.stash = p.stash
    BY <2>1, AnsweredType DEF Replies
  <2>4. ~Between(p)
    BY <1>5 DEF Reject, Between
  <2>5. QED
    BY <1>1, <2>2, <2>3, <2>4, SameChecks
<1>6. CASE ReadEof(h)
  <2>1. PICK q \in ProcStates :
          /\ proc' = [proc EXCEPT ![h] = q]
          /\ q.task = "final" /\ q.alone = p.alone /\ q.stash = p.stash
    BY <1>6, TeardownType DEF ReadEof, IInv, TypeOK
  <2>2. ~Between(p)
    BY <1>6 DEF ReadEof, Between
  <2>3. QED
    BY <1>1, <2>1, <2>2, SameChecks
<1>7. CASE CloseStdin(h)
  <2> DEFINE q == [p EXCEPT !.stdin = "closed"]
  <2>1. proc' = [proc EXCEPT ![h] = q] /\ p.task \notin {"unborn", "gone", "killed"}
    BY <1>7 DEF CloseStdin, IInv, TypeOK, ProcStates, Running
  <2>2. /\ q.alone = p.alone /\ q.task = p.task /\ q.stash = p.stash
        /\ q.next = p.next /\ q.prev = p.prev
    BY <1>1 DEF ProcStates
  <2> HIDE DEF q
  <2>3. Owes(p, nm) => Owes(q, nm')
    BY <1>1, <2>2 DEF Owes, Between
  <2>4. QED
    BY <1>1, <2>1, <2>2, <2>3, OwnChecks
<1>8. QED
  BY <1>2, <1>3, <1>4, <1>5, <1>6, <1>7

LEMMA SignalChecks ==
  ASSUME BusAnswers, IInv, CheckKept, NEW h \in Procs, SigTerm(h) \/ SigKill(h)
  PROVE  CheckKept'
<1>1. SigKill(h) /\ Running(h) /\ userNm' = userNm
  BY DEF SigTerm, SigKill, Fault, BusAnswers
<1>2. PICK q \in ProcStates :
        /\ proc' = [proc EXCEPT ![h] = q] /\ q.alone = proc[h].alone
        /\ q.task = "killed"
  BY <1>1, OverType DEF SigKill, IInv, TypeOK
<1>3. QED
  BY <1>1, <1>2, OwnChecks

\* A process that starts alone finds the check as the user had it.
LEMMA SpawnChecks ==
  ASSUME IInv, CheckKept, NEW h \in Procs, Spawn(h)
  PROVE  CheckKept'
<1>1. /\ UNCHANGED <<nm, userNm>> /\ proc[h].task = "unborn" /\ proc[h].stash = "unset"
      /\ proc'[h].alone => ~\E o \in Procs : Running(o)
  <2> DEFINE alone == orphans = {} /\ ~\E q \in Procs : Running(q)
             task == IF h \in Repairs THEN "repair" ELSE "idle"
  <2>1. proc'[h] = [proc[h] EXCEPT !.task = task, !.alone = alone]
    BY DEF Spawn
  <2>2. alone => ~\E o \in Procs : Running(o)
    OBVIOUS
  <2> HIDE DEF alone
  <2>3. proc'[h].alone = alone
    BY <2>1 DEF IInv, TypeOK, ProcStates
  <2>4. QED
    BY <2>2, <2>3 DEF Spawn, CheckKept
<1>2. /\ proc'[h].task \in {"repair", "idle"} /\ proc'[h].stash = "unset"
      /\ \A o \in Procs \ {h} :
            /\ proc'[o].task = proc[o].task /\ proc'[o].stash = proc[o].stash
            /\ (proc'[o].alone => proc[o].alone)
  BY <1>1, SpawnFields
<1>3. ASSUME Untroubled'
      PROVE  /\ \A o \in Procs : Running(o)' => Owes(proc'[o], nm')
             /\ Running(h)'
  <2>1. Untroubled
    BY <1>1, <1>2, <1>3 DEF Untroubled, NoOverlap, Procs
  <2>2. ~\E o \in Procs : Running(o)
    BY <1>1, <1>2, <1>3 DEF Untroubled, NoOverlap
  <2>3. nm' = userNm
    BY <1>1, <2>1, <2>2 DEF CheckKept
  <2>4. \A o \in Procs \ {h} : ~Running(o)'
    BY <1>2, <2>2 DEF Running
  <2>5. Owes(proc'[h], nm') /\ Running(h)'
    BY <1>2, <2>3 DEF Owes, Running
  <2>6. QED
    BY <2>4, <2>5
<1>4. QED
  BY <1>1, <1>2, <1>3 DEF CheckKept, Owes

\* Once every helper has come to its end, the connectivity check is what the user had
\* made it: nobody else was at work, no --repair forced it on, and the bus answered
\* (nm_check_disable and nm_check_restore, nmcheck.py and netguard.py).
THEOREM CheckRestoredHolds ==
  ASSUME BusAnswers
  PROVE  Spec => []CheckRestored
<1>1. Init => CheckKept
  BY DEF Init, Unborn, CheckKept, Running
<1>2. IInv /\ CheckKept /\ [Next]_vars => CheckKept'
  <2> SUFFICES ASSUME IInv, CheckKept, [Next]_vars
               PROVE  CheckKept'
    OBVIOUS
  <2>1. ASSUME NEW h \in Procs, Serve(h)
        PROVE  CheckKept'
    BY <2>1, TeardownStepChecks, RestoreChecks, BuildStepChecks, NmStepChecks,
       QuietStepChecks DEF Serve
  <2>2. ASSUME NEW h \in Procs, Spawn(h) \/ CloseStdin(h) \/ SigTerm(h) \/ SigKill(h)
        PROVE  CheckKept'
    BY <2>2, SpawnChecks, QuietStepChecks, SignalChecks
  <2>3. CASE OrphanRuns \/ UNCHANGED vars
    <3>1. UNCHANGED <<nm, userNm, proc>>
      BY <2>3 DEF OrphanRuns, vars
    <3>2. QED
      BY <3>1 DEF CheckKept, Untroubled, NoOverlap, Owes, Running
  <2>4. QED
    BY <2>1, <2>2, <2>3 DEF Next
<1>3. CheckKept => CheckRestored
  BY DEF CheckKept, CheckRestored, Untroubled, Quiet, Running
<1>4. QED
  BY <1>1, <1>2, <1>3, InvariantHolds, PTL DEF Spec
=============================================================================
