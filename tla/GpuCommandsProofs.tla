--------------------------- MODULE GpuCommandsProofs ---------------------------
(***************************************************************************)
(* What the execution of a command list does, for lists of any length:     *)
(* lemmas for the modules that prove something about recorded lists.       *)
(*                                                                         *)
(* The lemmas about lists are proved by induction on the number of         *)
(* commands.  The library's induction theorems have an operator as         *)
(* parameter; here a set takes its place, and the least element of a set   *)
(* of naturals (WFMin) gives the induction.                                *)
(***************************************************************************)
EXTENDS GpuCommands, Integers, WellFoundedInduction, SequenceTheorems, TLAPS

------------------------------------------------------------------------------
(* Induction                                                                  *)

Below == {p \in Nat \X Nat : p[1] < p[2]}

\* Sets of naturals have a least element.
LEMMA Least ==
  ASSUME NEW T, T \subseteq Nat, T # {}
  PROVE  \E x \in T : \A y \in T : x <= y
<1>1. IsWellFoundedOn(Below, Nat)
  BY NatLessThanWellFounded DEF OpToRel, Below
<1>2. PICK x \in T : \A y \in T : ~(<<y, x>> \in Below)
  BY <1>1, WFMin
<1>3. ASSUME NEW y \in T PROVE x <= y
  <2>1. x \in Nat /\ y \in Nat
    OBVIOUS
  <2>2. <<y, x>> \in Nat \X Nat /\ (<<y, x>> \in Below <=> y < x)
    BY <2>1 DEF Below
  <2> QED
    BY <1>2, <2>1, <2>2
<1> QED
  BY <1>3

\* A set with 0, and with every successor up to n, has all of 0 .. n.
LEMMA Induct ==
  ASSUME NEW n \in Nat, NEW S, 0 \in S,
         \A i \in 0 .. n - 1 : i \in S => i + 1 \in S
  PROVE  \A i \in 0 .. n : i \in S
<1> DEFINE T == {i \in 0 .. n : i \notin S}
<1> SUFFICES ASSUME T # {} PROVE FALSE
  OBVIOUS
<1>1. PICK x \in T : \A y \in T : x <= y
  <2>1. T \subseteq Nat
    OBVIOUS
  <2> HIDE DEF T
  <2> QED
    BY <2>1, Least
<1>2. x \in 0 .. n /\ x \notin S
  BY <1>1
<1>3. x # 0
  BY <1>2
<1>4. x - 1 \in 0 .. n - 1 /\ x - 1 \in 0 .. n /\ (x - 1) + 1 = x
  BY <1>2, <1>3
<1>5. x - 1 \in S
  BY <1>1, <1>2, <1>4
<1>6. (x - 1) + 1 \in S
  BY <1>4, <1>5
<1> QED
  BY <1>2, <1>4, <1>6

------------------------------------------------------------------------------
(* Recursive definitions                                                      *)

LEMMA OnlyMember ==
  ASSUME NEW e
  PROVE  (CHOOSE n \in {e} : TRUE) = e
OBVIOUS

\* The machines of a list: Machines satisfies the equation that defines it.
LEMMA MachinesDef ==
  ASSUME NEW m, NEW cmds, NEW by, Len(cmds) \in Nat
  PROVE  /\ Machines(m, cmds, by)[0] = m
         /\ \A i \in 1 .. Len(cmds) :
              Machines(m, cmds, by)[i] = ExecCommand(Machines(m, cmds, by)[i - 1], cmds[i], by)
<1> DEFINE Next(q, i) == CHOOSE n \in {ExecCommand(p, cmds[i], by) : p \in {q}} : TRUE
           Upto(f, k) == f = [i \in 0 .. k |-> IF i = 0 THEN m ELSE Next(f[i - 1], i)]
           L == Len(cmds)
           S == {k \in 0 .. L : \E f : Upto(f, k)}
<1>1. ASSUME NEW q, NEW i PROVE Next(q, i) = ExecCommand(q, cmds[i], by)
  <2>1. {ExecCommand(p, cmds[i], by) : p \in {q}} = {ExecCommand(q, cmds[i], by)}
    OBVIOUS
  <2> QED
    BY <2>1, OnlyMember
<1> HIDE DEF Next
<1>2. 0 \in S
  <2>1. Upto([i \in 0 .. 0 |-> m], 0)
    OBVIOUS
  <2>2. \E h : Upto(h, 0)
    BY <2>1
  <2>3. 0 \in 0 .. L
    OBVIOUS
  <2> QED
    BY <2>2, <2>3
<1>3. ASSUME NEW k \in 0 .. L - 1, k \in S PROVE k + 1 \in S
  <2>1. PICK f : Upto(f, k)
    BY <1>3
  <2> DEFINE g == [i \in 0 .. k + 1 |-> IF i = k + 1 THEN Next(f[k], i) ELSE f[i]]
  <2>2. ASSUME NEW i \in 0 .. k + 1
        PROVE  g[i] = IF i = 0 THEN m ELSE Next(g[i - 1], i)
    <3>1. CASE i = k + 1
      BY <3>1
    <3>2. CASE i # k + 1
      <4>1. i \in 0 .. k /\ g[i] = f[i]
        BY <3>2
      <4>2. i # 0 => i - 1 \in 0 .. k /\ g[i - 1] = f[i - 1]
        BY <4>1
      <4> QED
        BY <2>1, <4>1, <4>2
    <3> QED
      BY <3>1, <3>2
  <2>3. g = [i \in 0 .. k + 1 |-> IF i = 0 THEN m ELSE Next(g[i - 1], i)]
    <3>1. g = [i \in 0 .. k + 1 |-> g[i]]
      OBVIOUS
    <3> HIDE DEF g
    <3> QED
      BY <2>2, <3>1
  <2>4. \E h : Upto(h, k + 1)
    BY <2>3
  <2> QED
    BY <2>4
<1>4. L \in S
  <2>1. \A i \in 0 .. L : i \in S
    <3> HIDE DEF S
    <3> QED
      BY <1>2, <1>3, Induct
  <2> QED
    BY <2>1
<1>5. \E f : Upto(f, L)
  BY <1>4
<1>6. Machines(m, cmds, by) = CHOOSE f : Upto(f, L)
  BY Zenon DEF Machines, Next
<1>7. Upto(Machines(m, cmds, by), L)
  <2> HIDE DEF Upto
  <2> QED
    BY <1>5, <1>6, Zenon
<1> QED
  <2> DEFINE f == Machines(m, cmds, by)
  <2>1. \A i \in 0 .. L : f[i] = IF i = 0 THEN m ELSE Next(f[i - 1], i)
    BY <1>7
  <2> HIDE DEF f
  <2>2. f[0] = m
    BY <2>1
  <2>3. ASSUME NEW i \in 1 .. L PROVE f[i] = ExecCommand(f[i - 1], cmds[i], by)
    <3>1. i \in 0 .. L /\ i # 0
      OBVIOUS
    <3>2. f[i] = Next(f[i - 1], i)
      BY <2>1, <3>1
    <3> QED
      BY <1>1, <3>2
  <2> QED
    BY <2>2, <2>3 DEF f

------------------------------------------------------------------------------
(* Execution in stages                                                        *)

\* The machine after a list.
Ran(m, cmds, by) == Machines(m, cmds, by)[Len(cmds)]

\* What holds of the machine before and is carried over by each command, holds
\* after the last.
LEMMA Stages ==
  ASSUME NEW m, NEW cmds, NEW by, Len(cmds) \in Nat, NEW P, m \in P[0],
         \A i \in 1 .. Len(cmds) : \A p \in P[i - 1] : ExecCommand(p, cmds[i], by) \in P[i]
  PROVE  Ran(m, cmds, by) \in P[Len(cmds)]
<1> DEFINE f == Machines(m, cmds, by)
           L == Len(cmds)
           S == {k \in 0 .. L : f[k] \in P[k]}
<1>1. f[0] = m /\ \A i \in 1 .. L : f[i] = ExecCommand(f[i - 1], cmds[i], by)
  BY MachinesDef
<1> HIDE DEF f
<1>2. 0 \in S
  BY <1>1
<1>3. ASSUME NEW k \in 0 .. L - 1, k \in S PROVE k + 1 \in S
  <2>1. k + 1 \in 1 .. L /\ k + 1 \in 0 .. L /\ (k + 1) - 1 = k /\ f[k] \in P[k]
    BY <1>3
  <2>2. f[k + 1] = ExecCommand(f[k], cmds[k + 1], by)
    BY <1>1, <2>1
  <2>3. \A p \in P[k] : ExecCommand(p, cmds[k + 1], by) \in P[k + 1]
    BY <2>1
  <2> QED
    BY <2>1, <2>2, <2>3
<1>4. \A i \in 0 .. L : i \in S
  <2> HIDE DEF S
  <2> QED
    BY <1>2, <1>3, Induct
<1>5. f[L] \in P[L]
  BY <1>4
<1> QED
  BY <1>5 DEF Ran, f

LEMMA RanNone ==
  ASSUME NEW m, NEW by
  PROVE  Ran(m, <<>>, by) = m
<1>1. Len(<<>>) = 0
  OBVIOUS
<1>2. Machines(m, <<>>, by)[0] = m
  BY <1>1, MachinesDef
<1> QED
  BY <1>1, <1>2 DEF Ran

LEMMA RanOne ==
  ASSUME NEW m, NEW c, NEW by
  PROVE  Ran(m, <<c>>, by) = ExecCommand(m, c, by)
<1>1. Len(<<c>>) = 1 /\ <<c>>[1] = c
  OBVIOUS
<1>2. /\ Machines(m, <<c>>, by)[0] = m
      /\ \A i \in 1 .. 1 : Machines(m, <<c>>, by)[i]
                               = ExecCommand(Machines(m, <<c>>, by)[i - 1], <<c>>[i], by)
  BY <1>1, MachinesDef
<1>3. Machines(m, <<c>>, by)[1] = ExecCommand(Machines(m, <<c>>, by)[0], c, by)
  <2>1. 1 \in 1 .. 1 /\ 1 - 1 = 0
    OBVIOUS
  <2> QED
    BY <1>1, <1>2, <2>1
<1> QED
  BY <1>1, <1>2, <1>3 DEF Ran

\* One list after the other.
LEMMA RanConcat ==
  ASSUME NEW T, NEW a \in Seq(T), NEW b \in Seq(T), NEW m, NEW by
  PROVE  Ran(m, a \o b, by) = Ran(Ran(m, a, by), b, by)
<1> DEFINE n == Ran(m, a, by)
           f == Machines(m, a, by)
           g == Machines(n, b, by)
           P == [i \in 0 .. Len(a) + Len(b) |-> IF i <= Len(a) THEN {f[i]} ELSE {g[i - Len(a)]}]
<1>1. Len(a) \in Nat /\ Len(b) \in Nat
  BY LenProperties
<1>2. /\ Len(a \o b) = Len(a) + Len(b)
      /\ \A i \in 1 .. Len(a) + Len(b) :
            (a \o b)[i] = IF i <= Len(a) THEN a[i] ELSE b[i - Len(a)]
  BY ConcatProperties
<1>3. f[0] = m /\ \A i \in 1 .. Len(a) : f[i] = ExecCommand(f[i - 1], a[i], by)
  BY <1>1, MachinesDef
<1>4. g[0] = n /\ \A i \in 1 .. Len(b) : g[i] = ExecCommand(g[i - 1], b[i], by)
  BY <1>1, MachinesDef
<1>5. n = f[Len(a)]
  BY DEF Ran
<1> HIDE DEF n, f, g
<1>6. m \in P[0]
  BY <1>1, <1>3
<1>7. ASSUME NEW i \in 1 .. Len(a) + Len(b), NEW p \in P[i - 1]
      PROVE  ExecCommand(p, (a \o b)[i], by) \in P[i]
  <2>1. CASE i <= Len(a)
    <3>1. i \in 1 .. Len(a) /\ i - 1 <= Len(a) /\ i - 1 \in 0 .. Len(a) + Len(b)
      BY <1>1, <2>1
    <3>2. p = f[i - 1] /\ (a \o b)[i] = a[i] /\ P[i] = {f[i]}
      BY <1>2, <2>1, <3>1
    <3> QED
      BY <1>3, <3>1, <3>2
  <2>2. CASE ~(i <= Len(a))
    <3> DEFINE j == i - Len(a)
    <3>1. j \in 1 .. Len(b) /\ i - 1 \in 0 .. Len(a) + Len(b) /\ i \in 0 .. Len(a) + Len(b)
      BY <1>1, <2>2
    <3>2. (a \o b)[i] = b[j] /\ P[i] = {g[j]}
      BY <1>2, <2>2, <3>1
    <3>3. p = g[j - 1]
      <4>1. CASE i - 1 <= Len(a)
        <5>1. i - 1 = Len(a) /\ j - 1 = 0
          BY <1>1, <2>2, <4>1
        <5>2. P[i - 1] = {f[i - 1]}
          BY <3>1, <4>1
        <5> QED
          BY <1>4, <1>5, <5>1, <5>2
      <4>2. CASE ~(i - 1 <= Len(a))
        <5>1. P[i - 1] = {g[(i - 1) - Len(a)]} /\ (i - 1) - Len(a) = j - 1
          BY <1>1, <3>1, <4>2
        <5> QED
          BY <5>1
      <4> QED
        BY <4>1, <4>2
    <3> HIDE DEF j
    <3> QED
      BY <1>4, <3>1, <3>2, <3>3
  <2> QED
    BY <2>1, <2>2
<1>8. Ran(m, a \o b, by) \in P[Len(a) + Len(b)]
  <2> DEFINE c == a \o b
  <2>1. Len(c) \in Nat /\ Len(c) = Len(a) + Len(b)
    BY <1>1, <1>2
  <2> HIDE DEF P
  <2>2. \A i \in 1 .. Len(c) : \A p \in P[i - 1] : ExecCommand(p, c[i], by) \in P[i]
    BY <1>7, <2>1
  <2> HIDE DEF c
  <2>3. Ran(m, c, by) \in P[Len(c)]
    BY <1>6, <2>1, <2>2, Stages
  <2> QED
    BY <2>1, <2>3 DEF c
<1>9. P[Len(a) + Len(b)] = {g[Len(b)]}
  <2>1. Len(a) + Len(b) \in 0 .. Len(a) + Len(b) /\ (Len(a) + Len(b)) - Len(a) = Len(b)
    BY <1>1
  <2>2. CASE Len(b) = 0
    BY <1>1, <1>4, <1>5, <2>1, <2>2
  <2>3. CASE Len(b) # 0
    BY <1>1, <2>1, <2>3
  <2> QED
    BY <2>2, <2>3
<1>10. Ran(m, a \o b, by) = g[Len(b)]
  BY <1>8, <1>9
<1> QED
  BY <1>10 DEF g, n, Ran

------------------------------------------------------------------------------
(* Sequences                                                                  *)

\* A sequence that takes its elements from a function.
LEMMA Mapped ==
  ASSUME NEW T, NEW n \in Nat, NEW v \in [1 .. n -> T]
  PROVE  v \in Seq(T) /\ Len(v) = n /\ DOMAIN v = 1 .. n
OBVIOUS

LEMMA ReverseIs ==
  ASSUME NEW T, NEW s \in Seq(T)
  PROVE  /\ Reverse(s) \in Seq(T) /\ Len(Reverse(s)) = Len(s)
         /\ \A i \in 1 .. Len(s) : Reverse(s)[i] = s[(Len(s) - i) + 1] /\ (Len(s) - i) + 1 \in 1 .. Len(s)
<1>1. Len(s) \in Nat /\ \A i \in 1 .. Len(s) : s[i] \in T
  BY LenProperties, ElementOfSeq
<1>2. \A i \in 1 .. Len(s) : (Len(s) - i) + 1 \in 1 .. Len(s)
  BY <1>1
<1>3. Reverse(s) \in [1 .. Len(s) -> T]
  BY <1>1, <1>2 DEF Reverse
<1>4. Reverse(s) \in Seq(T) /\ Len(Reverse(s)) = Len(s)
  <2> DEFINE r == Reverse(s)
  <2> HIDE DEF r
  <2>1. r \in [1 .. Len(s) -> T]
    BY <1>3 DEF r
  <2>2. r \in Seq(T) /\ Len(r) = Len(s)
    BY <1>1, <2>1, Mapped
  <2> QED
    BY <2>2 DEF r
<1> QED
  BY <1>2, <1>4 DEF Reverse

\* c has the elements of a, then those of b.
Adjoined(a, b, c) ==
  /\ Len(c) = Len(a) + Len(b)
  /\ \A i \in 1 .. Len(a) : i \in 1 .. Len(c) /\ c[i] = a[i]
  /\ \A i \in 1 .. Len(b) : Len(a) + i \in 1 .. Len(c) /\ c[Len(a) + i] = b[i]
  /\ \A i \in 1 .. Len(c) : \/ i \in 1 .. Len(a) /\ c[i] = a[i]
                            \/ i - Len(a) \in 1 .. Len(b) /\ c[i] = b[i - Len(a)]

LEMMA Joined ==
  ASSUME NEW T, NEW a \in Seq(T), NEW b \in Seq(T)
  PROVE  a \o b \in Seq(T) /\ Adjoined(a, b, a \o b)
<1>1. Len(a) \in Nat /\ Len(b) \in Nat
  BY LenProperties
<1> DEFINE c == a \o b
<1>2. /\ c \in Seq(T) /\ Len(c) = Len(a) + Len(b)
      /\ \A i \in 1 .. Len(a) + Len(b) : c[i] = IF i <= Len(a) THEN a[i] ELSE b[i - Len(a)]
  BY ConcatProperties
<1> HIDE DEF c
<1>3. \A i \in 1 .. Len(a) : i \in 1 .. Len(c) /\ c[i] = a[i]
  BY <1>1, <1>2
<1>4. ASSUME NEW i \in 1 .. Len(b) PROVE Len(a) + i \in 1 .. Len(c) /\ c[Len(a) + i] = b[i]
  <2>1. Len(a) + i \in 1 .. Len(a) + Len(b) /\ ~(Len(a) + i <= Len(a)) /\ (Len(a) + i) - Len(a) = i
    BY <1>1
  <2> QED
    BY <1>2, <2>1
<1>5. ASSUME NEW i \in 1 .. Len(c)
      PROVE  \/ i \in 1 .. Len(a) /\ c[i] = a[i]
             \/ i - Len(a) \in 1 .. Len(b) /\ c[i] = b[i - Len(a)]
  <2>1. i \in 1 .. Len(a) + Len(b)
    BY <1>2
  <2>2. CASE i <= Len(a)
    BY <1>1, <1>2, <2>1, <2>2
  <2>3. CASE ~(i <= Len(a))
    <3>1. i - Len(a) \in 1 .. Len(b)
      BY <1>1, <2>1, <2>3
    <3> QED
      BY <1>2, <2>1, <2>3, <3>1
  <2> QED
    BY <2>2, <2>3
<1> QED
  BY <1>2, <1>3, <1>4, <1>5 DEF c, Adjoined

LEMMA Three ==
  ASSUME NEW a, NEW b, NEW c
  PROVE  <<a>> \o <<b>> \o <<c>> = <<a, b, c>>
<1> DEFINE T == {a, b, c}
           x == <<a>>
           y == <<b>>
           z == <<c>>
           s == x \o y
           t == s \o z
<1>1. /\ x \in Seq(T) /\ y \in Seq(T) /\ z \in Seq(T)
      /\ Len(x) = 1 /\ Len(y) = 1 /\ Len(z) = 1 /\ x[1] = a /\ y[1] = b /\ z[1] = c
  OBVIOUS
<1> HIDE DEF T, x, y, z
<1>2. s \in Seq(T) /\ Adjoined(x, y, s)
  BY <1>1, Joined
<1> HIDE DEF s
<1>3. t \in Seq(T) /\ Adjoined(s, z, t)
  BY <1>1, <1>2, Joined
<1> HIDE DEF t
<1>4. Len(s) = 2 /\ s[1] = a /\ s[2] = b
  BY <1>1, <1>2 DEF Adjoined
<1>5. Len(t) = 3 /\ t[1] = a /\ t[2] = b /\ t[3] = c
  BY <1>1, <1>3, <1>4 DEF Adjoined
<1>6. t = <<a, b, c>>
  BY <1>3, <1>5
<1> QED
  BY <1>6 DEF t, s, x, y, z

------------------------------------------------------------------------------
(* Commands                                                                   *)

\* The memory after a dispatch of call v has written the cells out.
Computed(C, mem, in, out, v) ==
  [x \in C |-> IF x \in out THEN (UNION {mem[y] : y \in in}) \cup {v} ELSE mem[x]]

\* The memory after copies of the heaps into cells, and before.
Deposited(C, after, before, fs, by) ==
  \A x \in C : \/ (\A i \in 1 .. Len(fs) : x \notin fs[i].out) /\ after[x] = before[x]
              \/ \E i \in 1 .. Len(fs) : x \in fs[i].out /\ after[x] = {Caller(fs[i], by)}

\* What may be wrong: what a list does, and a list that is reset while it runs.
Wrongs == FaultKinds \cup {"reset"}

\* Machines over resources R and cells C.
Machine(R, C) ==
  [state: [R -> States], mem: [C -> SUBSET Nat], dirty: SUBSET C,
   faults: SUBSET Wrongs, live: SUBSET Nat]

TransitionsOn(R) == {Barrier(r, s, t) : r \in R, s \in States, t \in States}

\* The resources that a sequence of barriers is about.
Barred(bs) == {bs[i].res : i \in 1 .. Len(bs)}

LEMMA TransitionStep ==
  ASSUME NEW R, NEW C, NEW m \in Machine(R, C), NEW c \in TransitionsOn(R), NEW by
  PROVE  ExecCommand(m, c, by) =
           [state  |-> [m.state EXCEPT ![c.res] = c.to], mem |-> m.mem,
            dirty  |-> {x \in m.dirty : x[1] # c.res},
            faults |-> IF m.state[c.res] # c.from THEN m.faults \cup {"misstated"} ELSE m.faults,
            live   |-> m.live]
<1>1. c.op = "transition"
  BY DEF TransitionsOn, Barrier
<1> DEFINE n == Fault(m, "misstated", m.state[c.res] # c.from)
           q == [n EXCEPT !.state[c.res] = c.to]
<1>2. ExecCommand(m, c, by) = Synced(q, c.res)
  BY <1>1 DEF ExecCommand, ExecTransition
<1>3. n = [state |-> m.state, mem |-> m.mem, dirty |-> m.dirty,
           faults |-> IF m.state[c.res] # c.from THEN m.faults \cup {"misstated"} ELSE m.faults,
           live |-> m.live]
  BY DEF Fault, Machine
<1> HIDE DEF n
<1>4. q = [state |-> [m.state EXCEPT ![c.res] = c.to], mem |-> n.mem, dirty |-> n.dirty,
           faults |-> n.faults, live |-> n.live]
  BY <1>3
<1> HIDE DEF q
<1> QED
  BY <1>2, <1>3, <1>4 DEF Synced

\* What a sequence of transitions does, whatever it begins with.
LEMMA BarriersRun ==
  ASSUME NEW R, NEW C, NEW m \in Machine(R, C), NEW by, NEW bs \in Seq(TransitionsOn(R)),
         NEW n, n = Ran(m, bs, by)
  PROVE  /\ n \in Machine(R, C) /\ n.mem = m.mem /\ n.live = m.live
         /\ n.dirty = {x \in m.dirty : x[1] \notin Barred(bs)}
         /\ n.faults \subseteq m.faults \cup {"misstated"}
         /\ \A r \in R \ Barred(bs) : n.state[r] = m.state[r]
         /\ \A r \in Barred(bs) : \E i \in 1 .. Len(bs) : bs[i].res = r /\ n.state[r] = bs[i].to
         /\ (\A i \in 1 .. Len(bs) : /\ m.state[bs[i].res] = bs[i].from
                                    /\ \A j \in 1 .. i - 1 : bs[j].res # bs[i].res)
            => n.faults = m.faults
<1> DEFINE L == Len(bs)
           Clean == \A i \in 1 .. L : /\ m.state[bs[i].res] = bs[i].from
                                      /\ \A j \in 1 .. i - 1 : bs[j].res # bs[i].res
           Kept(p, k) ==
             /\ p.mem = m.mem /\ p.live = m.live
             /\ p.dirty = {x \in m.dirty : \A j \in 1 .. k : bs[j].res # x[1]}
             /\ p.faults \subseteq m.faults \cup {"misstated"}
             /\ Clean => p.faults = m.faults
           Told(p, k) ==
             \A r \in R : \/ (\A j \in 1 .. k : bs[j].res # r) /\ p.state[r] = m.state[r]
                         \/ \E j \in 1 .. k : bs[j].res = r /\ p.state[r] = bs[j].to
           P == [k \in 0 .. L |-> {p \in Machine(R, C) : Kept(p, k) /\ Told(p, k)}]
<1>1. L \in Nat /\ \A i \in 1 .. L : bs[i] \in TransitionsOn(R)
  BY LenProperties, ElementOfSeq
<1>2. m \in P[0]
  <2>1. 1 .. 0 = {}
    OBVIOUS
  <2>2. Kept(m, 0)
    BY <2>1 DEF Machine
  <2>3. Told(m, 0)
    BY <2>1
  <2> QED
    BY <1>1, <2>2, <2>3
<1>3. ASSUME NEW k \in 1 .. L, NEW p \in P[k - 1]
      PROVE  ExecCommand(p, bs[k], by) \in P[k]
  <2> DEFINE c == bs[k]
             q == ExecCommand(p, c, by)
  <2>1. p \in Machine(R, C) /\ Kept(p, k - 1) /\ Told(p, k - 1) /\ k \in 0 .. L
    BY <1>1
  <2>2. c \in TransitionsOn(R) /\ c.res \in R /\ c.to \in States
    BY <1>1 DEF TransitionsOn, Barrier
  <2>3. q = [state  |-> [p.state EXCEPT ![c.res] = c.to], mem |-> p.mem,
             dirty  |-> {x \in p.dirty : x[1] # c.res},
             faults |-> IF p.state[c.res] # c.from THEN p.faults \cup {"misstated"} ELSE p.faults,
             live   |-> p.live]
    <3> HIDE DEF c, P
    <3> QED
      BY <2>1, <2>2, TransitionStep
  <2>4. \A j : j \in 1 .. k <=> j \in 1 .. k - 1 \/ j = k
    BY <1>1
  <2> HIDE DEF q, Clean
  <2>5. q \in Machine(R, C)
    <3>1. /\ p.state \in [R -> States] /\ p.mem \in [C -> SUBSET Nat] /\ p.dirty \in SUBSET C
          /\ p.faults \in SUBSET Wrongs /\ p.live \in SUBSET Nat
      BY <2>1 DEF Machine
    <3> HIDE DEF c
    <3>2. [p.state EXCEPT ![c.res] = c.to] \in [R -> States]
      BY <2>2, <3>1
    <3>3. (IF p.state[c.res] # c.from THEN p.faults \cup {"misstated"} ELSE p.faults) \in SUBSET Wrongs
      BY <3>1 DEF Wrongs, FaultKinds
    <3>4. {x \in p.dirty : x[1] # c.res} \in SUBSET C
      BY <3>1
    <3> QED
      BY <2>3, <3>1, <3>2, <3>3, <3>4 DEF Machine
  <2>6. Kept(q, k)
    <3>1. q.dirty = {x \in m.dirty : \A j \in 1 .. k : bs[j].res # x[1]}
      BY <2>1, <2>3, <2>4
    <3>2. Clean => q.faults = m.faults
      <4> SUFFICES ASSUME Clean PROVE p.state[c.res] = c.from
        BY <2>1, <2>3
      <4>1. m.state[c.res] = c.from /\ \A j \in 1 .. k - 1 : bs[j].res # c.res
        BY DEF Clean
      <4> QED
        BY <2>1, <2>2, <4>1
    <3> QED
      BY <2>1, <2>3, <3>1, <3>2
  <2>7. Told(q, k)
    <3> SUFFICES ASSUME NEW r \in R
                 PROVE  \/ (\A j \in 1 .. k : bs[j].res # r) /\ q.state[r] = m.state[r]
                        \/ \E j \in 1 .. k : bs[j].res = r /\ q.state[r] = bs[j].to
      OBVIOUS
    <3>1. CASE c.res = r
      <4>1. q.state[r] = c.to
        BY <2>1, <2>2, <2>3, <3>1 DEF Machine
      <4> QED
        BY <3>1, <4>1
    <3>2. CASE c.res # r
      <4>1. q.state[r] = p.state[r]
        BY <2>1, <2>2, <2>3, <3>2 DEF Machine
      <4> QED
        BY <2>1, <2>4, <3>2, <4>1
    <3> QED
      BY <3>1, <3>2
  <2>8. q \in P[k]
    BY <2>1, <2>5, <2>6, <2>7
  <2> QED
    BY <2>8 DEF q
<1>4. n \in P[L]
  <2> HIDE DEF P
  <2> QED
    BY <1>1, <1>2, <1>3, Stages
<1>5. n \in Machine(R, C) /\ Kept(n, L) /\ Told(n, L)
  BY <1>1, <1>4
<1>6. \A r : r \in Barred(bs) <=> \E j \in 1 .. L : bs[j].res = r
  BY DEF Barred
<1>7. Barred(bs) \subseteq R
  BY <1>1 DEF Barred, TransitionsOn, Barrier
<1>8. \A r \in R \ Barred(bs) : n.state[r] = m.state[r]
  BY <1>5, <1>6
<1>9. \A r \in Barred(bs) : \E i \in 1 .. L : bs[i].res = r /\ n.state[r] = bs[i].to
  BY <1>5, <1>6, <1>7
<1>10. n.dirty = {x \in m.dirty : x[1] \notin Barred(bs)}
  BY <1>5, <1>6
<1> QED
  BY <1>5, <1>8, <1>9, <1>10

RunsOf(C)  == {Run(k, in, out) : k \in Nat, in \in SUBSET C, out \in SUBSET C}
ReadsOf(C) == {ReadBack(h, in) : h \in Nat, in \in SUBSET C}

LEMMA Writes ==
  ASSUME NEW q, NEW a, NEW b, NEW d, NEW l, NEW f,
         q = [state |-> a, mem |-> b, dirty |-> d, live |-> l, faults |-> f],
         NEW C, DOMAIN b = C, NEW cells, NEW v
  PROVE  Write(q, cells, v) =
           [state |-> a, mem |-> [x \in C |-> IF x \in cells THEN v ELSE b[x]],
            dirty |-> d, live |-> l, faults |-> f]
<1> DEFINE new == [x \in DOMAIN q.mem |-> IF x \in cells THEN v ELSE q.mem[x]]
<1>1. Write(q, cells, v) = [q EXCEPT !.mem = new]
  BY DEF Write
<1>2. new = [x \in C |-> IF x \in cells THEN v ELSE b[x]]
  OBVIOUS
<1> HIDE DEF new
<1>3. [q EXCEPT !.mem = new] = [state |-> a, mem |-> new, dirty |-> d, live |-> l, faults |-> f]
  OBVIOUS
<1> QED
  BY <1>1, <1>2, <1>3

\* What dispatch c does to a machine m.
RunDone(C, m, c, by, n) ==
  /\ n.state = m.state /\ n.live = m.live /\ n.dirty = m.dirty \cup c.out
  /\ n.mem = Computed(C, m.mem, c.in, c.out, Caller(c, by))
  /\ n.faults \subseteq m.faults \cup {"misuse", "race"}
  /\ (c.in \cup c.out) \cap m.dirty = {} => n.faults \subseteq m.faults \cup {"misuse"}
  /\ (c.in \cup c.out) \cap m.dirty = {} /\ AllIn(m, c.in, "SRV") /\ AllIn(m, c.out, "UAV")
     => n.faults = m.faults

LEMMA RunStep ==
  ASSUME NEW R, NEW C, NEW m \in Machine(R, C), NEW by \in Nat, NEW c \in RunsOf(C),
         NEW n, n = ExecCommand(m, c, by)
  PROVE  n \in Machine(R, C) /\ RunDone(C, m, c, by, n)
<1>1. PICK k \in Nat, in \in SUBSET C, out \in SUBSET C : c = Run(k, in, out)
  BY DEF RunsOf
<1>0. c.op = "run" /\ c.in = in /\ c.out = out /\ c.by = k
  BY <1>1 DEF Run
<1> DEFINE p == Fault(m, "misuse", ~AllIn(m, c.in, "SRV") \/ ~AllIn(m, c.out, "UAV"))
           q == Fault(p, "race", (c.in \cup c.out) \cap m.dirty # {})
           v == (UNION {m.mem[x] : x \in c.in}) \cup {Caller(c, by)}
           w == Write(q, c.out, v)
<1>2. n = [w EXCEPT !.dirty = @ \cup c.out]
  BY <1>0 DEF ExecCommand, ExecRun
<1>3. p = [state |-> m.state, mem |-> m.mem, dirty |-> m.dirty, live |-> m.live,
           faults |-> IF ~AllIn(m, in, "SRV") \/ ~AllIn(m, out, "UAV")
                      THEN m.faults \cup {"misuse"} ELSE m.faults]
  BY <1>0 DEF Fault, Machine
<1> HIDE DEF p
<1>4. q = [state |-> m.state, mem |-> m.mem, dirty |-> m.dirty, live |-> m.live,
           faults |-> IF (in \cup out) \cap m.dirty # {} THEN p.faults \cup {"race"} ELSE p.faults]
  BY <1>0, <1>3 DEF Fault
<1> HIDE DEF q
<1>5. DOMAIN m.mem = C /\ m.mem \in [C -> SUBSET Nat]
  BY DEF Machine
<1>6. v \in SUBSET Nat
  <2>1. Caller(c, by) \in Nat
    BY <1>0 DEF Caller
  <2>2. \A u \in {m.mem[x] : x \in c.in} : u \subseteq Nat
    BY <1>0, <1>5
  <2> DEFINE all == UNION {m.mem[x] : x \in c.in}
             own == Caller(c, by)
  <2>3. all \subseteq Nat
    BY <2>2
  <2>4. v = all \cup {own}
    BY Zenon
  <2> HIDE DEF all, own, v
  <2>5. own \in Nat
    BY <2>1 DEF own
  <2> QED
    BY <2>3, <2>4, <2>5
<1> DEFINE new == [x \in C |-> IF x \in out THEN v ELSE m.mem[x]]
<1>7. new \in [C -> SUBSET Nat]
  <2> HIDE DEF v
  <2> QED
    BY <1>5, <1>6
<1>8. w = [state |-> m.state, mem |-> new, dirty |-> m.dirty, live |-> m.live, faults |-> q.faults]
  <2> HIDE DEF v
  <2>1. q = [state |-> m.state, mem |-> m.mem, dirty |-> m.dirty, live |-> m.live, faults |-> q.faults]
    BY <1>4
  <2>2. Write(q, c.out, v) =
          [state |-> m.state, mem |-> [x \in C |-> IF x \in c.out THEN v ELSE m.mem[x]],
           dirty |-> m.dirty, live |-> m.live, faults |-> q.faults]
    BY <1>5, <2>1, Writes
  <2> QED
    BY <1>0, <2>2
<1> HIDE DEF w
<1>9. n = [state |-> m.state, mem |-> new, dirty |-> m.dirty \cup out, live |-> m.live,
           faults |-> q.faults]
  <2> HIDE DEF new
  <2> QED
    BY <1>0, <1>2, <1>8
<1>10. q.faults \subseteq m.faults \cup {"misuse", "race"}
  BY <1>3, <1>4
<1>11. n \in Machine(R, C)
  <2>1. q.faults \subseteq Wrongs
    BY <1>10 DEF Machine, Wrongs, FaultKinds
  <2>2. m.state \in [R -> States] /\ m.dirty \cup out \in SUBSET C /\ m.live \in SUBSET Nat
    BY DEF Machine
  <2> HIDE DEF new
  <2> QED
    BY <1>7, <1>9, <2>1, <2>2 DEF Machine
<1>12. n.mem = Computed(C, m.mem, in, out, Caller(c, by))
  BY <1>0, <1>9 DEF Computed
<1>13. (in \cup out) \cap m.dirty = {} => q.faults = p.faults
  BY <1>4
<1> HIDE DEF new
<1> QED
  BY <1>0, <1>3, <1>9, <1>10, <1>11, <1>12, <1>13 DEF RunDone

\* A copy of call k, from a heap into cells.
FillsOf(C) == {Fill(k, h, out) : k \in Nat, h \in Nat, out \in SUBSET C}

\* Every copy finds the resources it writes in the state it needs.
CopiesFit(m, fs) == \A i \in 1 .. Len(fs) : AllIn(m, fs[i].out, "COPY_DEST")

LEMMA FillStep ==
  ASSUME NEW R, NEW C, NEW m \in Machine(R, C), NEW by \in Nat, NEW c \in FillsOf(C),
         NEW n, n = ExecCommand(m, c, by)
  PROVE  /\ n \in Machine(R, C) /\ n.state = m.state /\ n.live = m.live /\ n.dirty = m.dirty
         /\ n.mem = [x \in C |-> IF x \in c.out THEN {Caller(c, by)} ELSE m.mem[x]]
         /\ n.faults \subseteq m.faults \cup {"misuse"}
         /\ AllIn(m, c.out, "COPY_DEST") => n.faults = m.faults
<1>1. c.op = "fill" /\ c.out \in SUBSET C /\ c.by \in Nat
  BY DEF FillsOf, Fill
<1> HIDE DEF FillsOf
<1> DEFINE p == Fault(m, "misuse", ~AllIn(m, c.out, "COPY_DEST"))
<1>2. n = Write(p, c.out, {Caller(c, by)})
  BY <1>1 DEF ExecCommand, ExecFill
<1>3. p = [state |-> m.state, mem |-> m.mem, dirty |-> m.dirty, live |-> m.live,
           faults |-> IF ~AllIn(m, c.out, "COPY_DEST") THEN m.faults \cup {"misuse"} ELSE m.faults]
  BY DEF Fault, Machine
<1> HIDE DEF p
<1>4. DOMAIN m.mem = C /\ m.mem \in [C -> SUBSET Nat] /\ m.state \in [R -> States]
      /\ m.dirty \in SUBSET C /\ m.live \in SUBSET Nat /\ m.faults \in SUBSET Wrongs
  BY DEF Machine
<1> DEFINE new == [x \in C |-> IF x \in c.out THEN {Caller(c, by)} ELSE m.mem[x]]
<1>5. new \in [C -> SUBSET Nat]
  <2>1. Caller(c, by) \in Nat
    BY <1>1 DEF Caller
  <2> QED
    BY <1>4, <2>1
<1>6. n = [state |-> m.state, mem |-> new, dirty |-> m.dirty, live |-> m.live, faults |-> p.faults]
  <2>1. p = [state |-> m.state, mem |-> m.mem, dirty |-> m.dirty, live |-> m.live, faults |-> p.faults]
    BY <1>3
  <2> DEFINE v == {Caller(c, by)}
  <2> HIDE DEF v
  <2>2. Write(p, c.out, v) =
          [state |-> m.state, mem |-> [x \in C |-> IF x \in c.out THEN v ELSE m.mem[x]],
           dirty |-> m.dirty, live |-> m.live, faults |-> p.faults]
    BY <1>4, <2>1, Writes
  <2> QED
    BY <1>2, <2>2 DEF v
<1>7. p.faults \subseteq m.faults \cup {"misuse"}
  BY <1>3
<1>8. n \in Machine(R, C)
  <2>1. p.faults \subseteq Wrongs
    BY <1>4, <1>7 DEF Wrongs, FaultKinds
  <2> HIDE DEF new
  <2> QED
    BY <1>4, <1>5, <1>6, <2>1 DEF Machine
<1>9. n.mem = [x \in C |-> IF x \in c.out THEN {Caller(c, by)} ELSE m.mem[x]]
  BY <1>6
<1> HIDE DEF new
<1> QED
  BY <1>3, <1>6, <1>7, <1>8, <1>9

LEMMA ReadStep ==
  ASSUME NEW R, NEW C, NEW m \in Machine(R, C), NEW by, NEW h, NEW in \in SUBSET C,
         NEW n, n = ExecCommand(m, ReadBack(h, in), by)
  PROVE  /\ n \in Machine(R, C) /\ n.state = m.state /\ n.live = m.live /\ n.dirty = m.dirty
         /\ n.mem = m.mem
         /\ n.faults \subseteq m.faults \cup {"misuse"}
         /\ AllIn(m, in, "COPY_SOURCE") => n.faults = m.faults
<1>1. n = Fault(m, "misuse", ~AllIn(m, in, "COPY_SOURCE"))
  BY DEF ExecCommand, ReadBack
<1>2. n = [state |-> m.state, mem |-> m.mem, dirty |-> m.dirty, live |-> m.live,
           faults |-> IF ~AllIn(m, in, "COPY_SOURCE") THEN m.faults \cup {"misuse"} ELSE m.faults]
  BY <1>1 DEF Fault, Machine
<1>3. n \in Machine(R, C)
  BY <1>2 DEF Machine, Wrongs, FaultKinds
<1> QED
  BY <1>2, <1>3

\* What a sequence of copies does.
LEMMA FillsRun ==
  ASSUME NEW R, NEW C, NEW m \in Machine(R, C), NEW by \in Nat, NEW fs \in Seq(FillsOf(C)),
         NEW n, n = Ran(m, fs, by)
  PROVE  /\ n \in Machine(R, C) /\ n.state = m.state /\ n.live = m.live /\ n.dirty = m.dirty
         /\ n.faults \subseteq m.faults \cup {"misuse"}
         /\ CopiesFit(m, fs) => n.faults = m.faults
         /\ Deposited(C, n.mem, m.mem, fs, by)
<1> DEFINE L == Len(fs)
           Clean == \A i \in 1 .. L : AllIn(m, fs[i].out, "COPY_DEST")
           Kept(p) ==
             /\ p.state = m.state /\ p.live = m.live /\ p.dirty = m.dirty
             /\ p.faults \subseteq m.faults \cup {"misuse"}
             /\ Clean => p.faults = m.faults
           Filled(p, k) ==
             \A x \in C : \/ (\A i \in 1 .. k : x \notin fs[i].out) /\ p.mem[x] = m.mem[x]
                         \/ \E i \in 1 .. k : x \in fs[i].out /\ p.mem[x] = {Caller(fs[i], by)}
           P == [k \in 0 .. L |-> {p \in Machine(R, C) : Kept(p) /\ Filled(p, k)}]
<1>1. L \in Nat /\ \A i \in 1 .. L : fs[i] \in FillsOf(C)
  BY LenProperties, ElementOfSeq
<1>2. m \in P[0]
  <2>1. 1 .. 0 = {}
    OBVIOUS
  <2>2. Kept(m) /\ Filled(m, 0)
    BY <2>1 DEF Machine
  <2> QED
    BY <1>1, <2>2
<1>3. ASSUME NEW k \in 1 .. L, NEW p \in P[k - 1]
      PROVE  ExecCommand(p, fs[k], by) \in P[k]
  <2> DEFINE c == fs[k]
             q == ExecCommand(p, c, by)
  <2>1. p \in Machine(R, C) /\ Kept(p) /\ Filled(p, k - 1) /\ k \in 0 .. L
    BY <1>1
  <2>2. c \in FillsOf(C)
    BY <1>1
  <2>3. /\ q \in Machine(R, C) /\ q.state = p.state /\ q.live = p.live /\ q.dirty = p.dirty
        /\ q.mem = [x \in C |-> IF x \in c.out THEN {Caller(c, by)} ELSE p.mem[x]]
        /\ q.faults \subseteq p.faults \cup {"misuse"}
        /\ AllIn(p, c.out, "COPY_DEST") => q.faults = p.faults
    <3> HIDE DEF c, P
    <3> QED
      BY <2>1, <2>2, FillStep
  <2> HIDE DEF q
  <2>4. \A j : j \in 1 .. k <=> j \in 1 .. k - 1 \/ j = k
    BY <1>1
  <2>5. Kept(q)
    <3>1. Clean => AllIn(p, c.out, "COPY_DEST")
      BY <2>1 DEF AllIn
    <3> HIDE DEF c, Clean
    <3> QED
      BY <2>1, <2>3, <3>1
  <2>6. Filled(q, k)
    BY <2>1, <2>3, <2>4
  <2>7. q \in P[k]
    BY <2>1, <2>3, <2>5, <2>6
  <2> QED
    BY <2>7 DEF q
<1>4. n \in P[L]
  <2> HIDE DEF P
  <2> QED
    BY <1>1, <1>2, <1>3, Stages
<1> QED
  BY <1>1, <1>4 DEF Deposited, CopiesFit

------------------------------------------------------------------------------
(* Brackets: transitions, work, and transitions back                          *)

\* What stands around work: resources turned once each, from COMMON and back.
Square(e, l) ==
  /\ \A i \in 1 .. Len(e) : /\ e[i].from = "COMMON"
                            /\ \A j \in 1 .. i - 1 : e[j].res # e[i].res
  /\ \A i \in 1 .. Len(l) : \A j \in 1 .. i - 1 : l[j].res # l[i].res
  /\ \A i \in 1 .. Len(l) : \A j \in 1 .. Len(e) : l[i].res = e[j].res => l[i].from = e[j].to

\* The resources the one turns the other turns back.
Closes(e, l) == Barred(l) = Barred(e) /\ \A i \in 1 .. Len(l) : l[i].to = "COMMON"

\* Every barrier on a resource of the cells leads to state s.
LeadsTo(e, cells, s) ==
  /\ ResourcesOf(cells) \subseteq Barred(e)
  /\ \A i \in 1 .. Len(e) : e[i].res \in ResourcesOf(cells) => e[i].to = s

AtRest(R, m) == m.dirty = {} /\ \A r \in R : m.state[r] = "COMMON"

Commands(R, C) == TransitionsOn(R) \cup FillsOf(C) \cup RunsOf(C) \cup ReadsOf(C)

\* Machines m at rest, p after the transitions e, q after the work mid, n after the
\* transitions l; the work leaves the states alone.
Bracketing(R, C, m, by, e, mid, l, p, q, n) ==
  /\ m \in Machine(R, C) /\ AtRest(R, m)
  /\ e \in Seq(TransitionsOn(R)) /\ mid \in Seq(Commands(R, C)) /\ l \in Seq(TransitionsOn(R))
  /\ Closes(e, l)
  /\ p = Ran(m, e, by) /\ q = Ran(p, mid, by) /\ n = Ran(m, e \o mid \o l, by)
  /\ q \in Machine(R, C) /\ q.state = p.state /\ q.live = p.live
  /\ \A x \in q.dirty : x[1] \in Barred(e)

LEMMA Bracket ==
  ASSUME NEW R, NEW C, NEW m, NEW by, NEW e, NEW mid, NEW l, NEW p, NEW q, NEW n,
         Bracketing(R, C, m, by, e, mid, l, p, q, n)
  PROVE  /\ n \in Machine(R, C) /\ AtRest(R, n) /\ n.live = m.live /\ n.mem = q.mem
         /\ n.faults \subseteq q.faults \cup {"misstated"}
         /\ Square(e, l) => n.faults = q.faults /\ p.faults = m.faults
<1> USE DEF Bracketing
<1>1. n = Ran(q, l, by)
  <2> DEFINE T == Commands(R, C)
             a == e \o mid
  <2>1. e \in Seq(T) /\ l \in Seq(T) /\ mid \in Seq(T)
    <3>1. TransitionsOn(R) \subseteq T
      BY DEF Commands
    <3> QED
      BY <3>1, SeqMonotonic
  <2> HIDE DEF T
  <2>2. a \in Seq(T)
    BY <2>1, ConcatProperties
  <2>3. Ran(m, a, by) = q
    BY <2>1, RanConcat
  <2> HIDE DEF a
  <2>4. Ran(m, a \o l, by) = Ran(Ran(m, a, by), l, by)
    BY <2>1, <2>2, RanConcat
  <2> QED
    BY <2>3, <2>4 DEF a
<1>2. /\ p \in Machine(R, C) /\ p.live = m.live
      /\ \A r \in R \ Barred(e) : p.state[r] = m.state[r]
      /\ \A r \in Barred(e) : \E i \in 1 .. Len(e) : e[i].res = r /\ p.state[r] = e[i].to
      /\ (\A i \in 1 .. Len(e) : /\ m.state[e[i].res] = e[i].from
                                 /\ \A j \in 1 .. i - 1 : e[j].res # e[i].res)
         => p.faults = m.faults
  <2>1. m \in Machine(R, C) /\ e \in Seq(TransitionsOn(R)) /\ p = Ran(m, e, by)
    OBVIOUS
  <2> QED
    BY ONLY <2>1, BarriersRun
<1>3. /\ n \in Machine(R, C) /\ n.live = q.live /\ n.mem = q.mem
      /\ n.dirty = {x \in q.dirty : x[1] \notin Barred(l)}
      /\ n.faults \subseteq q.faults \cup {"misstated"}
      /\ \A r \in R \ Barred(l) : n.state[r] = q.state[r]
      /\ \A r \in Barred(l) : \E i \in 1 .. Len(l) : l[i].res = r /\ n.state[r] = l[i].to
      /\ (\A i \in 1 .. Len(l) : /\ q.state[l[i].res] = l[i].from
                                 /\ \A j \in 1 .. i - 1 : l[j].res # l[i].res)
         => n.faults = q.faults
  <2>1. q \in Machine(R, C) /\ l \in Seq(TransitionsOn(R))
    OBVIOUS
  <2> QED
    BY ONLY <1>1, <2>1, BarriersRun
<1>c. Barred(l) = Barred(e) /\ \A i \in 1 .. Len(l) : l[i].to = "COMMON"
  BY DEF Closes
<1>4. n.dirty = {}
  BY <1>3, <1>c
<1>5. ASSUME NEW r \in R PROVE n.state[r] = "COMMON"
  <2>1. CASE r \in Barred(l)
    BY <1>3, <1>c, <2>1
  <2>2. CASE r \notin Barred(l)
    <3>1. n.state[r] = p.state[r] /\ p.state[r] = m.state[r]
      BY <1>2, <1>3, <1>c, <2>2
    <3> QED
      BY <3>1 DEF AtRest
  <2> QED
    BY <2>1, <2>2
<1>6. ASSUME Square(e, l) PROVE n.faults = q.faults /\ p.faults = m.faults
  <2>1. \A i \in 1 .. Len(e) : e[i].res \in R
    <3>1. \A i \in 1 .. Len(e) : e[i] \in TransitionsOn(R)
      BY ElementOfSeq
    <3> QED
      BY <3>1 DEF TransitionsOn, Barrier
  <2>2. p.faults = m.faults
    <3>1. ASSUME NEW i \in 1 .. Len(e) PROVE m.state[e[i].res] = e[i].from
      <4>1. e[i].from = "COMMON"
        BY <1>6 DEF Square
      <4> QED
        BY <2>1, <4>1 DEF AtRest
    <3>2. \A i \in 1 .. Len(e) : \A j \in 1 .. i - 1 : e[j].res # e[i].res
      BY <1>6 DEF Square
    <3> QED
      BY <1>2, <3>1, <3>2
  <2>3. n.faults = q.faults
    <3>1. ASSUME NEW i \in 1 .. Len(l) PROVE q.state[l[i].res] = l[i].from
      <4>1. l[i].res \in Barred(e)
        BY <1>c DEF Barred
      <4>2. PICK j \in 1 .. Len(e) : e[j].res = l[i].res /\ p.state[l[i].res] = e[j].to
        BY <1>2, <4>1
      <4>3. l[i].from = e[j].to
        BY <1>6, <4>2 DEF Square
      <4> QED
        BY <4>2, <4>3
    <3>2. \A i \in 1 .. Len(l) : \A j \in 1 .. i - 1 : l[j].res # l[i].res
      BY <1>6 DEF Square
    <3> QED
      BY <1>3, <3>1, <3>2
  <2> QED
    BY <2>2, <2>3
<1> QED
  BY <1>2, <1>3, <1>4, <1>5, <1>6 DEF AtRest

\* After the transitions of e the cells are all in the state they lead to.
LEMMA Turns ==
  ASSUME NEW R, NEW C, NEW m \in Machine(R, C), NEW by, NEW e \in Seq(TransitionsOn(R)),
         NEW cells, NEW s, LeadsTo(e, cells, s)
  PROVE  AllIn(Ran(m, e, by), cells, s)
<1>p. PICK p : p = Ran(m, e, by)
  OBVIOUS
<1>1. \A r \in Barred(e) : \E i \in 1 .. Len(e) : e[i].res = r /\ p.state[r] = e[i].to
  BY ONLY <1>p, m \in Machine(R, C), e \in Seq(TransitionsOn(R)), BarriersRun
<1>2. ASSUME NEW r \in ResourcesOf(cells) PROVE p.state[r] = s
  BY <1>1 DEF LeadsTo
<1>3. AllIn(p, cells, s)
  BY <1>2 DEF AllIn
<1> QED
  BY <1>3, <1>p

\* What the execution of a list leaves: the machine at rest, with the cells out
\* computed from the cells in.
Effected(R, C, m, in, out, v, n) ==
  /\ n \in Machine(R, C) /\ AtRest(R, n) /\ n.live = m.live
  /\ n.mem = Computed(C, m.mem, in, out, v)
  /\ n.faults \subseteq m.faults \cup {"misstated", "misuse"}

\* A dispatch between transitions.
Dispatching(R, C, m, by, e, c, l, n) ==
  /\ m \in Machine(R, C) /\ by \in Nat /\ AtRest(R, m)
  /\ e \in Seq(TransitionsOn(R)) /\ l \in Seq(TransitionsOn(R)) /\ Closes(e, l)
  /\ c \in RunsOf(C) /\ ResourcesOf(c.out) \subseteq Barred(e)
  /\ n = Ran(m, e \o <<c>> \o l, by)

LEMMA BracketRun ==
  ASSUME NEW R, NEW C, NEW m, NEW by, NEW e, NEW c, NEW l, NEW n,
         Dispatching(R, C, m, by, e, c, l, n)
  PROVE  /\ Effected(R, C, m, c.in, c.out, Caller(c, by), n)
         /\ Square(e, l) /\ LeadsTo(e, c.in, "SRV") /\ LeadsTo(e, c.out, "UAV") => n.faults = m.faults
<1>0. /\ m \in Machine(R, C) /\ by \in Nat /\ AtRest(R, m)
      /\ e \in Seq(TransitionsOn(R)) /\ l \in Seq(TransitionsOn(R)) /\ Closes(e, l)
      /\ c \in RunsOf(C) /\ ResourcesOf(c.out) \subseteq Barred(e)
      /\ n = Ran(m, e \o <<c>> \o l, by)
  BY DEF Dispatching
<1> DEFINE in == c.in
           out == c.out
<1>1. PICK p : p = Ran(m, e, by)
  OBVIOUS
<1>2. PICK q : q = Ran(p, <<c>>, by)
  OBVIOUS
<1>3. p \in Machine(R, C) /\ p.mem = m.mem /\ p.live = m.live
      /\ p.dirty = {x \in m.dirty : x[1] \notin Barred(e)}
      /\ p.faults \subseteq m.faults \cup {"misstated"}
  BY ONLY <1>0, <1>1, BarriersRun
<1>4. p.dirty = {}
  BY <1>0, <1>3 DEF AtRest
<1>5. q = ExecCommand(p, c, by)
  BY <1>2, RanOne
<1>6. /\ q \in Machine(R, C) /\ q.state = p.state /\ q.live = p.live
      /\ q.dirty = p.dirty \cup out
      /\ q.mem = Computed(C, p.mem, in, out, Caller(c, by))
      /\ p.dirty = {} => q.faults \subseteq p.faults \cup {"misuse"}
      /\ p.dirty = {} /\ AllIn(p, in, "SRV") /\ AllIn(p, out, "UAV") => q.faults = p.faults
  <2>1. p \in Machine(R, C) /\ c \in RunsOf(C) /\ by \in Nat
    BY <1>0, <1>3
  <2>2. q \in Machine(R, C) /\ RunDone(C, p, c, by, q)
    BY ONLY <2>1, <1>5, RunStep
  <2> QED
    BY ONLY <2>2 DEF RunDone
<1> HIDE DEF in, out
<1>7. \A x \in q.dirty : x[1] \in Barred(e)
  BY <1>0, <1>4, <1>6 DEF ResourcesOf, out
<1>8. TransitionsOn(R) \subseteq Commands(R, C) /\ <<c>> \in Seq(Commands(R, C))
  <2>1. c \in Commands(R, C)
    BY <1>0 DEF Commands
  <2> QED
    BY <2>1 DEF Commands
<1>9. /\ n \in Machine(R, C) /\ AtRest(R, n) /\ n.live = m.live /\ n.mem = q.mem
      /\ n.faults \subseteq q.faults \cup {"misstated"}
      /\ Square(e, l) => n.faults = q.faults /\ p.faults = m.faults
  <2> DEFINE mid == <<c>>
  <2> HIDE DEF mid
  <2>1. mid \in Seq(Commands(R, C)) /\ q = Ran(p, mid, by) /\ n = Ran(m, e \o mid \o l, by)
    BY <1>0, <1>2, <1>8 DEF mid
  <2>9. Bracketing(R, C, m, by, e, mid, l, p, q, n)
    BY <1>0, <1>1, <2>1, <1>6, <1>7, <1>8 DEF Bracketing
  <2> QED
    BY ONLY <2>9, Bracket
<1>10. n.faults \subseteq m.faults \cup {"misstated", "misuse"}
  BY <1>3, <1>4, <1>6, <1>9
<1>11. ASSUME Square(e, l), LeadsTo(e, in, "SRV"), LeadsTo(e, out, "UAV")
       PROVE  n.faults = m.faults
  <2>1. AllIn(p, in, "SRV") /\ AllIn(p, out, "UAV")
    BY ONLY <1>0, <1>1, <1>11, Turns
  <2> QED
    BY <1>4, <1>6, <1>9, <1>11, <2>1
<1>12. n.mem = Computed(C, m.mem, in, out, Caller(c, by))
  BY <1>3, <1>6, <1>9
<1> QED
  BY <1>9, <1>10, <1>11, <1>12 DEF Effected, in, out

\* Copies into cells between transitions.
LEMMA BracketFills ==
  ASSUME NEW R, NEW C, NEW m \in Machine(R, C), NEW by \in Nat, AtRest(R, m),
         NEW e \in Seq(TransitionsOn(R)), NEW l \in Seq(TransitionsOn(R)),
         Closes(e, l),
         NEW fs \in Seq(FillsOf(C)), Square(e, l),
         \A i \in 1 .. Len(fs) : LeadsTo(e, fs[i].out, "COPY_DEST"),
         NEW n, n = Ran(m, e \o fs \o l, by)
  PROVE  /\ n \in Machine(R, C) /\ AtRest(R, n) /\ n.live = m.live /\ n.faults = m.faults
         /\ Deposited(C, n.mem, m.mem, fs, by)
<1>1. PICK p : p = Ran(m, e, by)
  OBVIOUS
<1>2. PICK q : q = Ran(p, fs, by)
  OBVIOUS
<1>3. p \in Machine(R, C) /\ p.mem = m.mem /\ p.live = m.live
      /\ p.dirty = {x \in m.dirty : x[1] \notin Barred(e)}
  BY ONLY <1>1, m \in Machine(R, C), e \in Seq(TransitionsOn(R)), BarriersRun
<1>4. p.dirty = {}
  BY <1>3 DEF AtRest
<1>5. /\ q \in Machine(R, C) /\ q.state = p.state /\ q.live = p.live /\ q.dirty = p.dirty
      /\ CopiesFit(p, fs) => q.faults = p.faults
      /\ Deposited(C, q.mem, p.mem, fs, by)
  BY ONLY <1>2, <1>3, by \in Nat, fs \in Seq(FillsOf(C)), FillsRun, SMTT(60)
<1>6. TransitionsOn(R) \subseteq Commands(R, C) /\ fs \in Seq(Commands(R, C))
  <2>1. FillsOf(C) \subseteq Commands(R, C) /\ TransitionsOn(R) \subseteq Commands(R, C)
    BY DEF Commands
  <2> QED
    BY <2>1, SeqMonotonic
<1>7. /\ n \in Machine(R, C) /\ AtRest(R, n) /\ n.live = m.live /\ n.mem = q.mem
      /\ Square(e, l) => n.faults = q.faults /\ p.faults = m.faults
  <2>1. \A x \in q.dirty : x[1] \in Barred(e)
    BY <1>4, <1>5
  <2>9. Bracketing(R, C, m, by, e, fs, l, p, q, n)
    BY <1>1, <1>2, <2>1, <1>5, <1>6 DEF Bracketing
  <2> QED
    BY ONLY <2>9, Bracket
<1>8. CopiesFit(p, fs)
  BY <1>1, Turns DEF CopiesFit
<1>9. n.faults = m.faults
  BY <1>5, <1>7, <1>8
<1> QED
  BY <1>3, <1>5, <1>7, <1>9

\* A copy out of cells between transitions.
LEMMA BracketRead ==
  ASSUME NEW R, NEW C, NEW m \in Machine(R, C), NEW by, AtRest(R, m),
         NEW e \in Seq(TransitionsOn(R)), NEW l \in Seq(TransitionsOn(R)),
         Closes(e, l),
         NEW h \in Nat, NEW in \in SUBSET C, Square(e, l), LeadsTo(e, in, "COPY_SOURCE"),
         NEW c, c = ReadBack(h, in), NEW n, n = Ran(m, e \o <<c>> \o l, by)
  PROVE  /\ n \in Machine(R, C) /\ AtRest(R, n) /\ n.live = m.live /\ n.faults = m.faults
         /\ n.mem = m.mem
<1>1. PICK p : p = Ran(m, e, by)
  OBVIOUS
<1>2. PICK q : q = Ran(p, <<c>>, by)
  OBVIOUS
<1>3. p \in Machine(R, C) /\ p.mem = m.mem /\ p.live = m.live
      /\ p.dirty = {x \in m.dirty : x[1] \notin Barred(e)}
  BY ONLY <1>1, m \in Machine(R, C), e \in Seq(TransitionsOn(R)), BarriersRun
<1>4. p.dirty = {}
  BY <1>3 DEF AtRest
<1>5. q = ExecCommand(p, ReadBack(h, in), by)
  BY <1>2, RanOne
<1>6. /\ q \in Machine(R, C) /\ q.state = p.state /\ q.live = p.live /\ q.dirty = p.dirty
      /\ q.mem = p.mem
      /\ AllIn(p, in, "COPY_SOURCE") => q.faults = p.faults
  BY ONLY <1>3, <1>5, in \in SUBSET C, ReadStep
<1>7. TransitionsOn(R) \subseteq Commands(R, C) /\ <<c>> \in Seq(Commands(R, C))
  <2>1. c \in Commands(R, C)
    BY DEF Commands, ReadsOf
  <2> QED
    BY <2>1 DEF Commands
<1>8. /\ n \in Machine(R, C) /\ AtRest(R, n) /\ n.live = m.live /\ n.mem = q.mem
      /\ Square(e, l) => n.faults = q.faults /\ p.faults = m.faults
  <2> DEFINE mid == <<c>>
  <2> HIDE DEF mid
  <2>1. mid \in Seq(Commands(R, C)) /\ q = Ran(p, mid, by) /\ n = Ran(m, e \o mid \o l, by)
    BY <1>2, <1>7 DEF mid
  <2>2. \A x \in q.dirty : x[1] \in Barred(e)
    BY <1>4, <1>6
  <2>9. Bracketing(R, C, m, by, e, mid, l, p, q, n)
    BY <1>1, <2>1, <2>2, <1>6, <1>7 DEF Bracketing
  <2> QED
    BY ONLY <2>9, Bracket
<1>9. AllIn(p, in, "COPY_SOURCE")
  BY <1>1, Turns
<1> QED
  BY <1>3, <1>6, <1>8, <1>9

------------------------------------------------------------------------------
(* Lists made of parts                                                        *)

\* FlattenSeq satisfies the equation that defines it.
LEMMA FlattenDef ==
  ASSUME NEW s, Len(s) \in Nat, Len(s) # 0
  PROVE  \E f : /\ f[1] = s[1] /\ \A i \in 2 .. Len(s) : f[i] = f[i - 1] \o s[i]
                /\ FlattenSeq(s) = f[Len(s)]
<1> DEFINE Next(q, i) == q \o s[i]
           Upto(f, k) == f = [i \in 1 .. k |-> IF i = 1 THEN s[i] ELSE Next(f[i - 1], i)]
           L == Len(s)
           S == {k \in 0 .. L : \E f : Upto(f, k)}
<1> HIDE DEF Next
<1>1. 0 \in S
  <2> DEFINE none == [i \in 1 .. 0 |-> s[i]]
  <2>1. Upto(none, 0)
    <3>1. 1 .. 0 = {}
      OBVIOUS
    <3> QED
      BY <3>1
  <2>2. \E h : Upto(h, 0)
    BY <2>1
  <2>3. 0 \in 0 .. L
    OBVIOUS
  <2> QED
    BY <2>2, <2>3
<1>2. ASSUME NEW k \in 0 .. L - 1, k \in S PROVE k + 1 \in S
  <2>1. PICK f : Upto(f, k)
    BY <1>2
  <2> DEFINE g == [i \in 1 .. k + 1 |-> IF i = k + 1 THEN (IF i = 1 THEN s[i] ELSE Next(f[k], i)) ELSE f[i]]
  <2>2. ASSUME NEW i \in 1 .. k + 1
        PROVE  g[i] = IF i = 1 THEN s[i] ELSE Next(g[i - 1], i)
    <3>1. CASE i = k + 1
      BY <3>1
    <3>2. CASE i # k + 1
      <4>1. i \in 1 .. k /\ g[i] = f[i]
        BY <3>2
      <4>2. i # 1 => i - 1 \in 1 .. k /\ g[i - 1] = f[i - 1]
        BY <4>1
      <4> QED
        BY <2>1, <4>1, <4>2
    <3> QED
      BY <3>1, <3>2
  <2>3. g = [i \in 1 .. k + 1 |-> IF i = 1 THEN s[i] ELSE Next(g[i - 1], i)]
    <3>1. g = [i \in 1 .. k + 1 |-> g[i]]
      OBVIOUS
    <3> HIDE DEF g
    <3> QED
      BY <2>2, <3>1
  <2>4. \E h : Upto(h, k + 1)
    BY <2>3
  <2> QED
    BY <2>4
<1>3. L \in S
  <2>1. \A i \in 0 .. L : i \in S
    <3> HIDE DEF S
    <3> QED
      BY <1>1, <1>2, Induct
  <2> QED
    BY <2>1
<1>4. \E f : Upto(f, L)
  BY <1>3
<1> DEFINE F == CHOOSE f : Upto(f, L)
<1>5. FlattenSeq(s) = F[L]
  <2>1. FlattenSeq(s) = (CHOOSE f : Upto(f, L))[L]
    BY Zenon DEF FlattenSeq, Next
  <2> QED
    BY <2>1
<1>6. Upto(F, L)
  <2> HIDE DEF Upto
  <2> QED
    BY <1>4, Zenon
<1> HIDE DEF F
<1>7. \A i \in 1 .. L : F[i] = IF i = 1 THEN s[i] ELSE Next(F[i - 1], i)
  BY <1>6
<1>8. F[1] = s[1]
  <2>1. 1 \in 1 .. L
    OBVIOUS
  <2> QED
    BY <1>7, <2>1
<1>9. ASSUME NEW i \in 2 .. L PROVE F[i] = F[i - 1] \o s[i]
  <2>1. i \in 1 .. L /\ i # 1
    OBVIOUS
  <2> QED
    BY <1>7, <2>1 DEF Next
<1> QED
  BY <1>5, <1>8, <1>9

\* What holds of no parts and is carried over by each part, holds of all.
LEMMA FlattenStages ==
  ASSUME NEW T, NEW s \in Seq(Seq(T)), NEW P, <<>> \in P[0],
         \A i \in 1 .. Len(s) : \A q \in P[i - 1] : q \in Seq(T) => q \o s[i] \in P[i]
  PROVE  FlattenSeq(s) \in Seq(T) /\ FlattenSeq(s) \in P[Len(s)]
<1>1. Len(s) \in Nat /\ \A i \in 1 .. Len(s) : s[i] \in Seq(T)
  BY LenProperties, ElementOfSeq
<1>2. CASE Len(s) = 0
  <2>1. s = <<>>
    BY <1>2, EmptySeq
  <2>2. FlattenSeq(s) = <<>>
    BY <1>2, <2>1 DEF FlattenSeq
  <2> QED
    BY <1>2, <2>2
<1>3. CASE Len(s) # 0
  <2>1. PICK f : /\ f[1] = s[1] /\ \A i \in 2 .. Len(s) : f[i] = f[i - 1] \o s[i]
                 /\ FlattenSeq(s) = f[Len(s)]
    BY <1>1, <1>3, FlattenDef
  <2> DEFINE L == Len(s)
             S == {k \in 0 .. L : k = 0 \/ (f[k] \in Seq(T) /\ f[k] \in P[k])}
  <2>2. 0 \in S
    <3>1. 0 \in 0 .. L
      BY <1>1
    <3> QED
      BY <3>1
  <2>3. ASSUME NEW k \in 0 .. L - 1, k \in S PROVE k + 1 \in S
    <3>1. k + 1 \in 1 .. L /\ k + 1 \in 0 .. L /\ (k + 1) - 1 = k /\ s[k + 1] \in Seq(T)
      BY <1>1
    <3>2. \A q \in P[k] : q \in Seq(T) => q \o s[k + 1] \in P[k + 1]
      BY <3>1
    <3>3. CASE k = 0
      <4>1. <<>> \o s[1] \in P[1] /\ s[1] \in Seq(T)
        <5>1. <<>> \in P[k] /\ <<>> \in Seq(T) /\ k + 1 = 1
          BY <3>3
        <5>2. <<>> \o s[k + 1] \in P[k + 1]
          BY <3>2, <5>1
        <5> QED
          BY <3>1, <5>1, <5>2
      <4>2. <<>> \o s[1] = s[1]
        BY <4>1, ConcatEmptySeq
      <4> QED
        BY <2>1, <3>1, <3>3, <4>1, <4>2
    <3>4. CASE k # 0
      <4>1. f[k] \in Seq(T) /\ f[k] \in P[k]
        BY <2>3, <3>4
      <4>2. f[k + 1] = f[k] \o s[k + 1]
        <5>1. k + 1 \in 2 .. L
          BY <3>1, <3>4
        <5> QED
          BY <2>1, <3>1, <5>1
      <4>3. f[k] \o s[k + 1] \in Seq(T)
        BY <3>1, <4>1, ConcatProperties
      <4> QED
        BY <3>1, <3>2, <4>1, <4>2, <4>3
    <3> QED
      BY <3>3, <3>4
  <2>4. \A i \in 0 .. L : i \in S
    <3> HIDE DEF S
    <3> QED
      BY <1>1, <2>2, <2>3, Induct
  <2>5. f[L] \in Seq(T) /\ f[L] \in P[L]
    BY <1>1, <1>3, <2>4
  <2> QED
    BY <2>1, <2>5
<1> QED
  BY <1>2, <1>3

\* Parts of one element each.
LEMMA FlattenOnes ==
  ASSUME NEW T, NEW n \in Nat, NEW v \in [1 .. n -> T]
  PROVE  FlattenSeq([i \in 1 .. n |-> <<v[i]>>]) = v
<1> DEFINE s == [i \in 1 .. n |-> <<v[i]>>]
           P == [k \in 0 .. n |-> {[i \in 1 .. k |-> v[i]]}]
<1>1. s \in Seq(Seq(T)) /\ Len(s) = n /\ \A i \in 1 .. n : s[i] = <<v[i]>>
  <2>1. \A i \in 1 .. n : <<v[i]>> \in Seq(T)
    OBVIOUS
  <2>2. s \in [1 .. n -> Seq(T)]
    BY <2>1
  <2> QED
    BY <2>2
<1> HIDE DEF s
<1>2. <<>> \in P[0]
  <2>1. [i \in 1 .. 0 |-> v[i]] = <<>>
    OBVIOUS
  <2> QED
    BY <2>1
<1>3. ASSUME NEW k \in 1 .. n, NEW q \in P[k - 1] PROVE q \o s[k] \in P[k]
  <2>1. q = [i \in 1 .. k - 1 |-> v[i]] /\ k - 1 \in Nat
    OBVIOUS
  <2>2. q \in Seq(T) /\ Len(q) = k - 1
    BY <2>1
  <2>3. <<v[k]>> \in Seq(T) /\ Len(<<v[k]>>) = 1 /\ <<v[k]>>[1] = v[k]
    OBVIOUS
  <2> DEFINE w == q \o <<v[k]>>
             u == [i \in 1 .. k |-> v[i]]
  <2>4. w \in Seq(T) /\ Len(w) = k
        /\ \A i \in 1 .. k : w[i] = IF i <= k - 1 THEN q[i] ELSE v[k]
    <3> DEFINE one == <<v[k]>>
    <3>1. one \in Seq(T) /\ Len(one) = 1 /\ one[1] = v[k]
      BY <2>3
    <3> HIDE DEF one
    <3>2. /\ q \o one \in Seq(T) /\ Len(q \o one) = Len(q) + Len(one)
          /\ \A i \in 1 .. Len(q) + Len(one) : (q \o one)[i] = IF i <= Len(q) THEN q[i] ELSE one[i - Len(q)]
      BY <2>2, <3>1, ConcatProperties
    <3>3. \A i \in 1 .. k : ~(i <= k - 1) => i - (k - 1) = 1
      OBVIOUS
    <3>4. (k - 1) + 1 = k
      OBVIOUS
    <3> DEFINE x == q \o one
    <3> HIDE DEF x
    <3>5. x \in Seq(T) /\ Len(x) = k
      BY <2>2, <3>1, <3>2, <3>4 DEF x
    <3>6. \A i \in 1 .. k : x[i] = IF i <= k - 1 THEN q[i] ELSE v[k]
      BY <2>2, <3>1, <3>2, <3>3, <3>4 DEF x
    <3> QED
      BY <3>5, <3>6 DEF x, one
  <2>5. u \in Seq(T) /\ Len(u) = k /\ \A i \in 1 .. k : u[i] = v[i]
    <3>1. \A i \in 1 .. k : v[i] \in T
      OBVIOUS
    <3> QED
      BY <3>1
  <2>6. \A i \in 1 .. k : w[i] = u[i]
    <3> HIDE DEF w
    <3> QED
      BY <2>1, <2>4
  <2>7. w = u
    <3> HIDE DEF w, u
    <3> QED
      BY <2>4, <2>5, <2>6, SeqEqual
  <2>8. s[k] = <<v[k]>> /\ k \in 0 .. n
    BY <1>1
  <2> QED
    BY <2>7, <2>8
<1>4. FlattenSeq(s) \in P[n]
  <2> HIDE DEF P
  <2> QED
    BY <1>1, <1>2, <1>3, FlattenStages
<1>5. FlattenSeq(s) = [i \in 1 .. n |-> v[i]]
  BY <1>4
<1>6. [i \in 1 .. n |-> v[i]] = v
  OBVIOUS
<1> QED
  BY <1>5, <1>6 DEF s

\* A list of parts runs part by part.
LEMMA RanFlatten ==
  ASSUME NEW T, NEW s \in Seq(Seq(T)), NEW m, NEW by, NEW Q, m \in Q[0],
         \A i \in 1 .. Len(s) : \A p \in Q[i - 1] : Ran(p, s[i], by) \in Q[i]
  PROVE  Ran(m, FlattenSeq(s), by) \in Q[Len(s)]
<1> DEFINE P == [k \in 0 .. Len(s) |-> {q \in Seq(T) : Ran(m, q, by) \in Q[k]}]
<1>1. Len(s) \in Nat /\ \A i \in 1 .. Len(s) : s[i] \in Seq(T)
  BY LenProperties, ElementOfSeq
<1>2. <<>> \in P[0]
  BY <1>1, RanNone
<1>3. ASSUME NEW k \in 1 .. Len(s), NEW q \in P[k - 1] PROVE q \o s[k] \in P[k]
  <2>1. q \in Seq(T) /\ Ran(m, q, by) \in Q[k - 1] /\ k \in 0 .. Len(s)
    BY <1>1
  <2>2. s[k] \in Seq(T)
    BY <1>1
  <2>3. Ran(m, q \o s[k], by) = Ran(Ran(m, q, by), s[k], by)
    BY <2>1, <2>2, RanConcat
  <2>4. q \o s[k] \in Seq(T)
    BY <2>1, <2>2, ConcatProperties
  <2> QED
    BY <2>1, <2>3, <2>4
<1>4. FlattenSeq(s) \in P[Len(s)]
  <2> HIDE DEF P
  <2> QED
    BY <1>2, <1>3, FlattenStages
<1> QED
  BY <1>1, <1>4
\* The elements of v that are not at places D, in their order: g says where each is from.
Picked(v, D, n, q, g) ==
  /\ \A k \in 1 .. Len(q) : g[k] \in 1 .. n /\ g[k] \notin D /\ q[k] = v[g[k]]
  /\ \A k \in 1 .. Len(q) : \A j \in 1 .. k - 1 : g[j] < g[k]
  /\ \A i \in 1 .. n : i \in D \/ \E k \in 1 .. Len(q) : g[k] = i

LEMMA Picks ==
  ASSUME NEW T, NEW n \in Nat, NEW v, \A i \in 1 .. n : v[i] \in T, NEW D,
         NEW s, s = [i \in 1 .. n |-> IF i \in D THEN <<>> ELSE <<v[i]>>]
  PROVE  FlattenSeq(s) \in Seq(T) /\ \E g : Picked(v, D, n, FlattenSeq(s), g)
<1> DEFINE P == [k \in 0 .. n |-> {q \in Seq(T) : \E g : Picked(v, D, k, q, g)}]
<1>1. s \in Seq(Seq(T)) /\ Len(s) = n
  <2>1. ASSUME NEW i \in 1 .. n PROVE (IF i \in D THEN <<>> ELSE <<v[i]>>) \in Seq(T)
    <3>1. <<v[i]>> \in Seq(T) /\ <<>> \in Seq(T)
      OBVIOUS
    <3> QED
      BY <3>1
  <2>2. s \in [1 .. n -> Seq(T)]
    BY <2>1
  <2> QED
    BY <2>2, Mapped
<1>2. <<>> \in P[0]
  <2>1. 0 \in 0 .. n /\ Len(<<>>) = 0 /\ 1 .. 0 = {} /\ <<>> \in Seq(T)
    OBVIOUS
  <2>2. Picked(v, D, 0, <<>>, <<>>)
    BY <2>1 DEF Picked
  <2> QED
    BY <2>1, <2>2
<1>3. ASSUME NEW k \in 1 .. n, NEW q \in P[k - 1], q \in Seq(T) PROVE q \o s[k] \in P[k]
  <2>1. k \in 0 .. n /\ k - 1 \in 0 .. n /\ Len(q) \in Nat
    BY <1>3, LenProperties
  <2>2. PICK g : Picked(v, D, k - 1, q, g)
    BY <2>1
  <2>3. \A j : j \in 1 .. k <=> j \in 1 .. k - 1 \/ j = k
    OBVIOUS
  <2>4. CASE k \in D
    <3>1. s[k] = <<>>
      BY <2>4
    <3>2. q \o s[k] = q
      BY <1>3, <3>1, ConcatEmptySeq
    <3>3. Picked(v, D, k, q, g)
      BY <2>2, <2>3, <2>4 DEF Picked
    <3> QED
      BY <1>3, <2>1, <3>2, <3>3
  <2>5. CASE k \notin D
    <3> DEFINE b == <<v[k]>>
               c == q \o b
               h == [j \in 1 .. Len(q) + 1 |-> IF j = Len(q) + 1 THEN k ELSE g[j]]
    <3>1. s[k] = b
      BY <2>5
    <3>2. b \in Seq(T) /\ Len(b) = 1 /\ b[1] = v[k]
      OBVIOUS
    <3> HIDE DEF b
    <3>3. c \in Seq(T) /\ Adjoined(q, b, c)
      BY <1>3, <3>2, Joined
    <3>4. h[Len(q) + 1] = k /\ \A j \in 1 .. Len(q) : h[j] = g[j] /\ j # Len(q) + 1
      BY <2>1
    <3> HIDE DEF c, h, P
    <3>5. PICK L : L = Len(q)
      OBVIOUS
    <3>6. L \in Nat /\ Len(c) = L + 1
      BY <2>1, <3>2, <3>3, <3>5 DEF Adjoined
    <3>7. c[L + 1] = v[k] /\ \A j \in 1 .. L : c[j] = q[j]
      <4>1. 1 \in 1 .. Len(b)
        BY <3>2
      <4> QED
        BY <3>2, <3>3, <3>5, <4>1 DEF Adjoined
    <3>8. /\ \A i \in 1 .. L : g[i] \in 1 .. k - 1 /\ g[i] \notin D /\ q[i] = v[g[i]]
          /\ \A i \in 1 .. L : \A j \in 1 .. i - 1 : g[j] < g[i]
          /\ \A i \in 1 .. k - 1 : i \in D \/ \E j \in 1 .. L : g[j] = i
      BY <2>2, <3>5 DEF Picked
    <3>9. \A i : i \in 1 .. L + 1 <=> i \in 1 .. L \/ i = L + 1
      BY <3>6
    <3>10. h[L + 1] = k /\ \A j \in 1 .. L : h[j] = g[j]
      BY <3>4, <3>5
    <3>11. \A i \in 1 .. L + 1 : h[i] \in 1 .. k /\ h[i] \notin D /\ c[i] = v[h[i]]
      BY <2>3, <2>5, <3>7, <3>8, <3>9, <3>10
    <3>12. ASSUME NEW i \in 1 .. L + 1, NEW j \in 1 .. i - 1 PROVE h[j] < h[i]
      <4>1. CASE i = L + 1
        <5>1. j \in 1 .. L
          BY <3>6, <4>1
        <5>2. h[j] \in 1 .. k - 1 /\ h[i] = k
          BY <3>8, <3>10, <4>1, <5>1
        <5> QED
          BY <5>2
      <4>2. CASE i \in 1 .. L
        <5>1. j \in 1 .. L
          BY <3>6, <4>2
        <5> QED
          BY <3>8, <3>10, <4>2, <5>1
      <4> QED
        BY <3>9, <4>1, <4>2
    <3>13. ASSUME NEW i \in 1 .. k PROVE i \in D \/ \E j \in 1 .. L + 1 : h[j] = i
      <4>1. CASE i = k
        BY <3>9, <3>10, <4>1
      <4>2. CASE i \in 1 .. k - 1
        BY <3>8, <3>9, <3>10, <4>2
      <4> QED
        BY <2>3, <4>1, <4>2
    <3>14. Picked(v, D, k, c, h)
      BY <3>6, <3>11, <3>12, <3>13 DEF Picked
    <3>15. q \o s[k] = c
      BY <3>1 DEF c
    <3> QED
      BY <2>1, <3>3, <3>14, <3>15 DEF P
  <2> QED
    BY <2>4, <2>5
<1>4. FlattenSeq(s) \in Seq(T) /\ FlattenSeq(s) \in P[Len(s)]
  <2> HIDE DEF P
  <2> QED
    BY <1>1, <1>2, <1>3, FlattenStages
<1> QED
  BY <1>1, <1>4

================================================================================
