--------------------------- MODULE NativeDeviceProofs ---------------------------
(***************************************************************************)
(* Theorems about NativeDevice, for any threads, buffers, graphs and       *)
(* dispatches: command lists meet the states they were recorded for,       *)
(* whichever thread recorded them and whatever ran between; what the GPU   *)
(* leaves in memory is what the callers mean; and a call returns what was  *)
(* computed from its own inputs.                                           *)
(***************************************************************************)
EXTENDS NativeDevice, GpuCommandsProofs

------------------------------------------------------------------------------
(* Lists of kernels                                                           *)

\* The transitions into a kernel's states and back.
Enters(ins, y) == [i \in 1 .. Len(ins) |-> Barrier(ins[i], "COMMON", "SRV")] \o <<Barrier(y, "COMMON", "UAV")>>
Leaves(ins, y) ==
  <<Barrier(y, "UAV", "COMMON")>> \o [i \in 1 .. Len(ins) |-> Barrier(Reverse(ins)[i], "SRV", "COMMON")]

\* A kernel between them.
Bracketed(ins, y, c) == Enters(ins, y) \o <<c>> \o Leaves(ins, y)

\* No resource is turned twice.
AllDiffer(ins, y) ==
  \A i \in 1 .. Len(ins) : ins[i] # y /\ \A j \in 1 .. Len(ins) : i # j => ins[i] # ins[j]

LEMMA BarrierFields ==
  ASSUME NEW r, NEW f, NEW t
  PROVE  /\ Barrier(r, f, t).op = "transition" /\ Barrier(r, f, t).res = r
         /\ Barrier(r, f, t).from = f /\ Barrier(r, f, t).to = t
BY DEF Barrier

LEMMA EntersIs ==
  ASSUME NEW R, NEW ins \in Seq(R), NEW y \in R
  PROVE  /\ Enters(ins, y) \in Seq(TransitionsOn(R))
         /\ \A i \in 1 .. Len(Enters(ins, y)) :
               \/ i \in 1 .. Len(ins) /\ Enters(ins, y)[i] = Barrier(ins[i], "COMMON", "SRV")
               \/ i = Len(ins) + 1 /\ Enters(ins, y)[i] = Barrier(y, "COMMON", "UAV")
         /\ Barred(Enters(ins, y)) = Range(ins) \cup {y}
<1> DEFINE a == [i \in 1 .. Len(ins) |-> Barrier(ins[i], "COMMON", "SRV")]
           b == <<Barrier(y, "COMMON", "UAV")>>
           T == TransitionsOn(R)
           c == a \o b
<1>1. Len(ins) \in Nat /\ DOMAIN ins = 1 .. Len(ins) /\ \A i \in 1 .. Len(ins) : ins[i] \in R
  BY LenProperties, ElementOfSeq
<1>2. a \in Seq(T) /\ Len(a) = Len(ins) /\ \A i \in 1 .. Len(ins) : a[i] = Barrier(ins[i], "COMMON", "SRV")
  <2>1. \A i \in 1 .. Len(ins) : Barrier(ins[i], "COMMON", "SRV") \in T
    BY <1>1 DEF TransitionsOn, States
  <2>2. a \in [1 .. Len(ins) -> T]
    BY <2>1
  <2> HIDE DEF T
  <2> QED
    BY <1>1, <2>2
<1>3. b \in Seq(T) /\ Len(b) = 1 /\ b[1] = Barrier(y, "COMMON", "UAV")
  <2>1. Barrier(y, "COMMON", "UAV") \in T
    BY DEF TransitionsOn, States
  <2> QED
    BY <2>1
<1> HIDE DEF a, b, T
<1>4. /\ c \in Seq(T)
      /\ \A i \in 1 .. Len(a) : i \in 1 .. Len(c) /\ c[i] = a[i]
      /\ \A i \in 1 .. Len(b) : Len(a) + i \in 1 .. Len(c) /\ c[Len(a) + i] = b[i]
      /\ \A i \in 1 .. Len(c) : \/ i \in 1 .. Len(a) /\ c[i] = a[i]
                                \/ i - Len(a) \in 1 .. Len(b) /\ c[i] = b[i - Len(a)]
  <2>1. c \in Seq(T) /\ Adjoined(a, b, c)
    BY ONLY <1>2, <1>3, Joined
  <2> HIDE DEF c
  <2> QED
    BY ONLY <2>1 DEF Adjoined
<1> HIDE DEF c
<1>5. ASSUME NEW i \in 1 .. Len(c)
      PROVE  \/ i \in 1 .. Len(ins) /\ c[i] = Barrier(ins[i], "COMMON", "SRV")
             \/ i = Len(ins) + 1 /\ c[i] = Barrier(y, "COMMON", "UAV")
  <2>1. CASE i \in 1 .. Len(a) /\ c[i] = a[i]
    BY <1>2, <2>1
  <2>2. CASE i - Len(a) \in 1 .. Len(b) /\ c[i] = b[i - Len(a)]
    <3>1. i - Len(a) = 1 /\ i = Len(ins) + 1
      BY <1>1, <1>2, <1>3, <2>2
    <3> QED
      BY <1>3, <2>2, <3>1
  <2> QED
    BY <1>4, <2>1, <2>2
<1>6. Barred(c) = Range(ins) \cup {y}
  <2>1. \A i \in 1 .. Len(c) : c[i].res \in Range(ins) \cup {y}
    <3>1. \A i \in 1 .. Len(ins) : ins[i] \in Range(ins)
      BY <1>1 DEF Range
    <3> HIDE DEF c
    <3> QED
      BY <1>5, <3>1, BarrierFields
  <2>2. ASSUME NEW i \in 1 .. Len(ins) PROVE ins[i] \in Barred(c)
    <3>1. i \in 1 .. Len(c) /\ c[i].res = ins[i]
      <4>1. i \in 1 .. Len(a) /\ a[i].res = ins[i]
        BY <1>2, BarrierFields
      <4> QED
        BY <1>4, <4>1
    <3> QED
      BY <3>1 DEF Barred
  <2>3. y \in Barred(c)
    <3>1. 1 \in 1 .. Len(b)
      BY <1>3
    <3>2. Len(a) + 1 \in 1 .. Len(c) /\ c[Len(a) + 1].res = y
      BY <1>3, <1>4, <3>1, BarrierFields
    <3> QED
      BY <3>2 DEF Barred
  <2> QED
    BY <1>1, <2>1, <2>2, <2>3 DEF Barred, Range
<1> QED
  BY <1>4, <1>5, <1>6 DEF c, a, b, T, Enters

LEMMA LeavesIs ==
  ASSUME NEW R, NEW ins \in Seq(R), NEW y \in R
  PROVE  /\ Leaves(ins, y) \in Seq(TransitionsOn(R))
         /\ \A i \in 1 .. Len(Leaves(ins, y)) :
               \/ i = 1 /\ Leaves(ins, y)[i] = Barrier(y, "UAV", "COMMON")
               \/ /\ i - 1 \in 1 .. Len(ins) /\ (Len(ins) - (i - 1)) + 1 \in 1 .. Len(ins)
                  /\ Leaves(ins, y)[i] = Barrier(ins[(Len(ins) - (i - 1)) + 1], "SRV", "COMMON")
         /\ Barred(Leaves(ins, y)) = Range(ins) \cup {y}
<1> DEFINE r == Reverse(ins)
           a == <<Barrier(y, "UAV", "COMMON")>>
           b == [i \in 1 .. Len(ins) |-> Barrier(r[i], "SRV", "COMMON")]
           T == TransitionsOn(R)
           c == a \o b
<1>1. Len(ins) \in Nat /\ DOMAIN ins = 1 .. Len(ins) /\ \A i \in 1 .. Len(ins) : ins[i] \in R
  BY LenProperties, ElementOfSeq
<1>2. \A i \in 1 .. Len(ins) : r[i] = ins[(Len(ins) - i) + 1] /\ (Len(ins) - i) + 1 \in 1 .. Len(ins)
  BY ReverseIs
<1> HIDE DEF r
<1>3. b \in Seq(T) /\ Len(b) = Len(ins) /\ \A i \in 1 .. Len(ins) : b[i] = Barrier(r[i], "SRV", "COMMON")
  <2>1. \A i \in 1 .. Len(ins) : Barrier(r[i], "SRV", "COMMON") \in T
    BY <1>1, <1>2 DEF TransitionsOn, States
  <2>2. b \in [1 .. Len(ins) -> T]
    BY <2>1
  <2> HIDE DEF T
  <2> QED
    BY <1>1, <2>2
<1>4. a \in Seq(T) /\ Len(a) = 1 /\ a[1] = Barrier(y, "UAV", "COMMON")
  <2>1. Barrier(y, "UAV", "COMMON") \in T
    BY DEF TransitionsOn, States
  <2> QED
    BY <2>1
<1> HIDE DEF a, b, T
<1>5. c \in Seq(T) /\ Adjoined(a, b, c)
  BY ONLY <1>3, <1>4, Joined
<1> HIDE DEF c
<1>6. ASSUME NEW i \in 1 .. Len(c)
      PROVE  \/ i = 1 /\ c[i] = Barrier(y, "UAV", "COMMON")
             \/ /\ i - 1 \in 1 .. Len(ins) /\ (Len(ins) - (i - 1)) + 1 \in 1 .. Len(ins)
                /\ c[i] = Barrier(ins[(Len(ins) - (i - 1)) + 1], "SRV", "COMMON")
  <2>1. CASE i \in 1 .. Len(a) /\ c[i] = a[i]
    BY <1>4, <2>1
  <2>2. CASE i - Len(a) \in 1 .. Len(b) /\ c[i] = b[i - Len(a)]
    <3>1. i - 1 \in 1 .. Len(ins) /\ c[i] = b[i - 1]
      BY <1>3, <1>4, <2>2
    <3> QED
      BY <1>2, <1>3, <3>1
  <2> QED
    BY <1>5, <2>1, <2>2 DEF Adjoined
<1>7. Barred(c) = Range(ins) \cup {y}
  <2>0. \A i \in 1 .. Len(ins) : ins[i] \in Range(ins)
    BY <1>1 DEF Range
  <2>1. \A i \in 1 .. Len(c) : c[i].res \in Range(ins) \cup {y}
    BY <2>0, <1>6, BarrierFields
  <2>2. ASSUME NEW i \in 1 .. Len(ins) PROVE ins[i] \in Barred(c)
    <3> DEFINE j == (Len(ins) - i) + 1
    <3>1. j \in 1 .. Len(ins) /\ (Len(ins) - j) + 1 = i
      BY <1>1
    <3> HIDE DEF j
    <3>2. r[j] = ins[i] /\ b[j].res = r[j]
      BY <1>2, <1>3, <3>1, BarrierFields
    <3>3. Len(a) + j \in 1 .. Len(c) /\ c[Len(a) + j] = b[j]
      BY <1>3, <1>5, <3>1 DEF Adjoined
    <3> QED
      BY <3>2, <3>3 DEF Barred
  <2>3. y \in Barred(c)
    <3>1. 1 \in 1 .. Len(a)
      BY <1>4
    <3>2. 1 \in 1 .. Len(c) /\ c[1].res = y
      BY <1>4, <1>5, <3>1, BarrierFields DEF Adjoined
    <3> QED
      BY <3>2 DEF Barred
  <2> QED
    BY <1>1, <2>1, <2>2, <2>3 DEF Barred, Range
<1> QED
  BY <1>5, <1>6, <1>7 DEF c, a, b, T, r, Leaves

LEMMA BracketsOfKernels ==
  ASSUME NEW R, NEW ins \in Seq(R), NEW y \in R
  PROVE  /\ Closes(Enters(ins, y), Leaves(ins, y))
         /\ \A cells : ResourcesOf(cells) \subseteq {y} /\ AllDiffer(ins, y)
                      => LeadsTo(Enters(ins, y), cells, "UAV")
         /\ \A cells : ResourcesOf(cells) \subseteq Range(ins) /\ AllDiffer(ins, y)
                      => LeadsTo(Enters(ins, y), cells, "SRV")
         /\ AllDiffer(ins, y) => Square(Enters(ins, y), Leaves(ins, y))
<1> DEFINE e == Enters(ins, y)
           l == Leaves(ins, y)
           n == Len(ins)
<1>1. n \in Nat /\ DOMAIN ins = 1 .. n
  BY LenProperties
<1>2. /\ \A i \in 1 .. Len(e) : \/ i \in 1 .. n /\ e[i] = Barrier(ins[i], "COMMON", "SRV")
                                \/ i = n + 1 /\ e[i] = Barrier(y, "COMMON", "UAV")
      /\ Barred(e) = Range(ins) \cup {y} /\ Len(e) \in Nat
  <2>1. Len(e) \in Nat
    BY EntersIs, LenProperties
  <2> QED
    BY <2>1, EntersIs
<1>3. /\ \A i \in 1 .. Len(l) : \/ i = 1 /\ l[i] = Barrier(y, "UAV", "COMMON")
                                \/ /\ i - 1 \in 1 .. n /\ (n - (i - 1)) + 1 \in 1 .. n
                                   /\ l[i] = Barrier(ins[(n - (i - 1)) + 1], "SRV", "COMMON")
      /\ Barred(l) = Range(ins) \cup {y} /\ Len(l) \in Nat
  <2>1. Len(l) \in Nat
    BY LeavesIs, LenProperties
  <2> QED
    BY <2>1, LeavesIs
<1> HIDE DEF e, l, n
<1>4. Closes(e, l)
  <2>1. \A i \in 1 .. Len(l) : l[i].to = "COMMON"
    BY <1>3, BarrierFields
  <2> QED
    BY <1>2, <1>3, <2>1 DEF Closes
<1>5. AllDiffer(ins, y) <=>
        \A i \in 1 .. n : ins[i] # y /\ \A j \in 1 .. n : i # j => ins[i] # ins[j]
  BY DEF AllDiffer, n
<1>6. ASSUME AllDiffer(ins, y) PROVE y \notin Range(ins)
  BY <1>1, <1>5, <1>6 DEF Range
<1>7. \A i \in 1 .. n : ins[i] \in Range(ins)
  BY <1>1 DEF Range
<1>8. ASSUME NEW cells, ResourcesOf(cells) \subseteq {y}, AllDiffer(ins, y)
      PROVE  LeadsTo(e, cells, "UAV")
  <2>1. ASSUME NEW i \in 1 .. Len(e), e[i].res \in ResourcesOf(cells) PROVE e[i].to = "UAV"
    <3>1. e[i].res = y
      BY <1>8, <2>1
    <3>2. ~(i \in 1 .. n /\ e[i] = Barrier(ins[i], "COMMON", "SRV"))
      BY <1>6, <1>7, <1>8, <3>1, BarrierFields
    <3>3. e[i] = Barrier(y, "COMMON", "UAV")
      BY <1>2, <3>2
    <3> QED
      BY <3>3, BarrierFields
  <2> QED
    BY <1>2, <1>8, <2>1 DEF LeadsTo
<1>9. ASSUME NEW cells, ResourcesOf(cells) \subseteq Range(ins), AllDiffer(ins, y)
      PROVE  LeadsTo(e, cells, "SRV")
  <2>1. ASSUME NEW i \in 1 .. Len(e), e[i].res \in ResourcesOf(cells) PROVE e[i].to = "SRV"
    <3>1. e[i].res \in Range(ins)
      BY <1>9, <2>1
    <3>2. ~(e[i] = Barrier(y, "COMMON", "UAV"))
      BY <1>6, <1>9, <3>1, BarrierFields
    <3>3. e[i] = Barrier(ins[i], "COMMON", "SRV")
      BY <1>2, <3>2
    <3> QED
      BY <3>3, BarrierFields
  <2> QED
    BY <1>2, <1>9, <2>1 DEF LeadsTo
<1>10. ASSUME AllDiffer(ins, y) PROVE Square(e, l)
  <2>1. ASSUME NEW i \in 1 .. Len(e)
        PROVE  e[i].from = "COMMON" /\ \A j \in 1 .. i - 1 : e[j].res # e[i].res
    <3>1. e[i].from = "COMMON"
      BY <1>2, BarrierFields
    <3>2. ASSUME NEW j \in 1 .. i - 1 PROVE e[j].res # e[i].res
      <4>1. j \in 1 .. Len(e) /\ j # i /\ j < i
        BY <1>2
      <4>2. j \in 1 .. n /\ e[j].res = ins[j]
        <5>1. i <= n + 1
          BY <1>1, <1>2
        <5>2. j # n + 1
          BY <1>1, <4>1, <5>1
        <5> QED
          BY <1>2, <4>1, <5>2, BarrierFields
      <4>3. e[i].res = y \/ (i \in 1 .. n /\ e[i].res = ins[i])
        BY <1>2, BarrierFields
      <4> QED
        BY <1>5, <1>10, <4>1, <4>2, <4>3
    <3> QED
      BY <3>1, <3>2
  <2>2. ASSUME NEW i \in 1 .. Len(l), NEW j \in 1 .. i - 1 PROVE l[j].res # l[i].res
    <3>1. j \in 1 .. Len(l) /\ j < i
      BY <1>3
    <3>2. /\ i - 1 \in 1 .. n /\ (n - (i - 1)) + 1 \in 1 .. n
          /\ l[i].res = ins[(n - (i - 1)) + 1]
      BY <1>3, <3>1, BarrierFields
    <3>3. CASE j = 1
      <4>1. l[j].res = y
        BY <1>1, <1>3, <3>1, <3>3, BarrierFields
      <4> QED
        BY <1>5, <1>10, <3>2, <4>1
    <3>4. CASE j # 1
      <4>1. (n - (j - 1)) + 1 \in 1 .. n /\ l[j].res = ins[(n - (j - 1)) + 1]
        BY <1>3, <3>1, <3>4, BarrierFields
      <4>2. (n - (j - 1)) + 1 # (n - (i - 1)) + 1
        BY <1>1, <3>1
      <4> QED
        BY <1>5, <1>10, <3>2, <4>1, <4>2
    <3> QED
      BY <3>3, <3>4
  <2>3. ASSUME NEW i \in 1 .. Len(l), NEW j \in 1 .. Len(e), l[i].res = e[j].res
        PROVE  l[i].from = e[j].to
    <3>1. \/ l[i].res = y /\ l[i].from = "UAV"
          \/ l[i].res \in Range(ins) /\ l[i].from = "SRV"
      BY <1>3, <1>7, BarrierFields
    <3>2. \/ e[j].res = y /\ e[j].to = "UAV"
          \/ e[j].res \in Range(ins) /\ e[j].to = "SRV"
      BY <1>2, <1>7, BarrierFields
    <3> QED
      BY <1>6, <1>10, <2>3, <3>1, <3>2
  <2> QED
    BY <2>1, <2>2, <2>3 DEF Square
<1> QED
  BY <1>4, <1>8, <1>9, <1>10 DEF e, l

\* A dispatch and the transitions of its operands.
LEMMA AroundRuns ==
  ASSUME NEW R, NEW C, NEW m \in Machine(R, C), NEW by \in Nat, AtRest(R, m),
         NEW ins \in Seq(R), NEW y \in R,
         NEW in \in SUBSET C, NEW out \in SUBSET C, ResourcesOf(out) \subseteq {y},
         ResourcesOf(in) \subseteq Range(ins),
         NEW c, c = Run(0, in, out), NEW n, n = Ran(m, Bracketed(ins, y, c), by)
  PROVE  /\ Effected(R, C, m, in, out, by, n)
         /\ AllDiffer(ins, y) => n.faults = m.faults
<1> DEFINE e == Enters(ins, y)
           l == Leaves(ins, y)
<1>1. e \in Seq(TransitionsOn(R)) /\ Barred(e) = Range(ins) \cup {y}
  BY EntersIs
<1>2. l \in Seq(TransitionsOn(R))
  BY LeavesIs
<1>3. /\ Closes(e, l)
      /\ AllDiffer(ins, y) => LeadsTo(e, out, "UAV") /\ LeadsTo(e, in, "SRV") /\ Square(e, l)
  BY BracketsOfKernels
<1>4. Caller(c, by) = by
  BY DEF Caller, Run
<1> HIDE DEF e, l
<1>5. ResourcesOf(out) \subseteq Barred(e)
  BY <1>1
<1>6. c \in RunsOf(C) /\ c.in = in /\ c.out = out
  <2>1. c = Run(0, in, out) /\ 0 \in Nat
    OBVIOUS
  <2>2. c \in RunsOf(C)
    <3>1. PICK k \in Nat : c = Run(k, in, out)
      BY <2>1
    <3> QED
      BY ONLY <3>1, in \in SUBSET C, out \in SUBSET C DEF RunsOf
  <2> QED
    BY <2>1, <2>2 DEF Run
<1>7. Dispatching(R, C, m, by, e, c, l, n)
  BY <1>1, <1>2, <1>3, <1>5, <1>6 DEF Dispatching, Bracketed, e, l
<1>8. /\ Effected(R, C, m, c.in, c.out, Caller(c, by), n)
      /\ Square(e, l) /\ LeadsTo(e, c.in, "SRV") /\ LeadsTo(e, c.out, "UAV") => n.faults = m.faults
  BY ONLY <1>7, BracketRun
<1> QED
  BY <1>3, <1>4, <1>6, <1>8

------------------------------------------------------------------------------
(* Handles, resources and cells                                               *)

\* The values of a graph's description, and those that get a buffer.
LEMMA GraphSpace ==
  ASSUME NEW g \in DOMAIN Graphs, NEW d, d = Graphs[g]
  PROVE  /\ Named(d) \subseteq 0 .. 9 /\ Allocated(d) \subseteq 0 .. 9
         /\ 0 .. d.inputs - 1 \subseteq Allocated(d) /\ d.output \in Allocated(d)
         /\ ~validate_elementwise_dag(d) => Named(d) \subseteq Allocated(d)
<1>1. /\ g \in 1 .. 8 /\ d.nodes \in Seq([op : STRING, in0 : 0 .. 9, in1 : 0 .. 9, out : 0 .. 9])
      /\ d.consts \in Seq(0 .. 9) /\ d.output \in 0 .. 9 /\ d.inputs \in 1 .. 10
  BY NativeAssumption
<1>2. Named(d) \subseteq 0 .. 9
  <2>1. Range(d.consts) \subseteq 0 .. 9
    <3>1. DOMAIN d.consts = 1 .. Len(d.consts) /\ \A i \in 1 .. Len(d.consts) : d.consts[i] \in 0 .. 9
      BY <1>1, LenProperties, ElementOfSeq
    <3> QED
      BY <3>1 DEF Range
  <2>2. ASSUME NEW n \in Range(d.nodes) PROVE NodeValues(n) \subseteq 0 .. 9
    <3> DEFINE N == [op : STRING, in0 : 0 .. 9, in1 : 0 .. 9, out : 0 .. 9]
    <3>1. DOMAIN d.nodes = 1 .. Len(d.nodes) /\ \A i \in 1 .. Len(d.nodes) : d.nodes[i] \in N
      <4> HIDE DEF N
      <4>1. d.nodes \in Seq(N)
        BY <1>1 DEF N
      <4> QED
        BY <4>1, LenProperties, ElementOfSeq
    <3>2. n \in N
      <4> HIDE DEF N
      <4> QED
        BY <3>1 DEF Range
    <3> QED
      BY <3>2 DEF NodeValues
  <2>3. d.inputs - 1 \in 0 .. 9
    BY <1>1
  <2> QED
    BY <1>1, <2>1, <2>2, <2>3 DEF Named
<1>3. d.inputs - 1 \in Named(d) /\ d.output \in Named(d)
  BY DEF Named
<1> DEFINE N == Named(d)
<1>4. Max(N) \in N /\ \A v \in N : v <= Max(N)
  <2> DEFINE T == {9 - v : v \in N}
  <2> HIDE DEF N
  <2>0. N \subseteq 0 .. 9 /\ N # {}
    BY <1>2, <1>3 DEF N
  <2>1. T \subseteq Nat /\ T # {}
    BY <2>0
  <2>2. PICK x \in T : \A y \in T : x <= y
    <3> HIDE DEF T
    <3> QED
      BY <2>1, Least
  <2>3. PICK w \in N : x = 9 - w
    BY <2>2
  <2>4. \A v \in N : w >= v
    <3>1. ASSUME NEW v \in N PROVE w >= v
      <4>1. 9 - v \in T
        OBVIOUS
      <4>2. 9 - w <= 9 - v
        BY <2>2, <2>3, <4>1
      <4> QED
        BY <2>0, <4>2
    <3> QED
      BY <3>1
  <2>5. Max(N) \in N /\ \A v \in N : Max(N) >= v
    BY <2>3, <2>4 DEF Max
  <2> QED
    BY <2>0, <2>5
<1>5. CASE validate_elementwise_dag(d)
  <2>1. Allocated(d) = (0 .. d.inputs - 1) \cup {d.output}
    BY <1>5 DEF Allocated
  <2>2. 0 .. d.inputs - 1 \subseteq 0 .. 9
    BY <1>1
  <2> QED
    BY <1>1, <1>2, <1>5, <2>1, <2>2
<1>6. CASE ~validate_elementwise_dag(d)
  <2> DEFINE top == Max(N)
  <2>1. Allocated(d) = 0 .. (1 + top) - 1
    BY <1>6 DEF Allocated, graph_value_count
  <2>2. top \in 0 .. 9 /\ \A v \in N : v \in 0 .. 9 /\ v <= top
    BY <1>2, <1>4
  <2> HIDE DEF top, N
  <2>3. Allocated(d) = 0 .. top
    BY <2>1, <2>2
  <2>4. N \subseteq Allocated(d) /\ Allocated(d) \subseteq 0 .. 9
    BY <2>2, <2>3
  <2>5. 0 .. d.inputs - 1 \subseteq Allocated(d)
    <3>1. d.inputs - 1 <= top
      BY <1>3, <2>2 DEF N
    <3> QED
      BY <1>1, <2>2, <2>3, <3>1
  <2> QED
    BY <1>2, <1>3, <1>6, <2>4, <2>5 DEF N
<1> QED
  BY <1>5, <1>6

LEMMA HandleSpace ==
  /\ DOMAIN Buffers \cap Owned = {} /\ DOMAIN Buffers \subseteq 1 .. 9
  /\ Owned \subseteq 10 .. 99 /\ Resources \subseteq 1 .. 99
  /\ \A h \in DOMAIN Buffers : Res(h) = Buffers[h].res /\ Res(h) \in Resources /\ Res(h) \in DOMAIN Buffers
  /\ \A h \in Owned : Res(h) = h /\ Res(h) \in Resources
<1>1. ASSUME NEW h \in Owned PROVE h \in 10 .. 99
  <2>1. CASE \E g \in DOMAIN Graphs : h \in GraphValues(g)
    <3>1. PICK g \in DOMAIN Graphs : h \in GraphValues(g)
      BY <2>1
    <3>2. PICK v \in Allocated(Graphs[g]) : h = ValueOf(g, v)
      BY <3>1 DEF GraphValues
    <3>3. v \in 0 .. 9
      BY <3>2, GraphSpace
    <3>4. g \in 1 .. 8
      BY NativeAssumption
    <3> QED
      BY <3>2, <3>3, <3>4 DEF ValueOf
  <2>2. CASE \E d \in Uploading : h = InputOf(d)
    <3>1. PICK d \in Uploading : h = InputOf(d)
      BY <2>2
    <3>2. d \in 1 .. 9
      BY NativeAssumption DEF Uploading
    <3> QED
      BY <3>1, <3>2 DEF InputOf
  <2> QED
    BY <2>1, <2>2 DEF Owned
<1>2. DOMAIN Buffers \subseteq 1 .. 9 /\ \A h \in DOMAIN Buffers : Buffers[h].res \in DOMAIN Buffers
  BY NativeAssumption
<1>3. DOMAIN Buffers \cap Owned = {}
  BY <1>1, <1>2
<1>4. \A h \in DOMAIN Buffers : Res(h) = Buffers[h].res /\ Res(h) \in Resources
  BY <1>3 DEF Res, Resources
<1>5. \A h \in Owned : Res(h) = h /\ Res(h) \in Resources
  BY DEF Res, Resources
<1>6. Resources \subseteq 1 .. 99
  BY <1>1, <1>2 DEF Resources
<1> QED
  BY <1>1, <1>2, <1>3, <1>4, <1>5, <1>6

LEMMA CellSpace ==
  ASSUME NEW h \in Handles
  PROVE  /\ Res(h) \in Resources /\ Elements(h) \subseteq Cells
         /\ \A x \in Elements(h) : x[1] = Res(h)
         /\ ResourcesOf(Elements(h)) \subseteq {Res(h)}
<1>1. Res(h) \in Resources
  BY HandleSpace DEF Handles
<1>2. Elements(h) \subseteq {Res(h)} \X (0 .. Width - 1)
  <2>1. CASE h \in Owned
    BY <2>1 DEF Elements, Res
  <2>2. CASE h \notin Owned
    <3>1. /\ h \in DOMAIN Buffers /\ Buffers[h].lo \in Nat /\ Buffers[h].n \in Nat \ {0}
          /\ Buffers[h].lo + Buffers[h].n <= Width /\ Width \in Nat
      BY <2>2, NativeAssumption DEF Handles
    <3>2. Buffers[h].lo .. Buffers[h].lo + Buffers[h].n - 1 \subseteq 0 .. Width - 1
      BY <3>1
    <3>3. Elements(h) = {Buffers[h].res} \X (Buffers[h].lo .. Buffers[h].lo + Buffers[h].n - 1)
      BY <2>2 DEF Elements
    <3>4. Res(h) = Buffers[h].res
      BY <2>2 DEF Res
    <3> QED
      BY <3>2, <3>3, <3>4
  <2> QED
    BY <2>1, <2>2
<1> QED
  BY <1>1, <1>2 DEF Cells, ResourcesOf

------------------------------------------------------------------------------
(* The lists of this module                                                   *)

\* The resources of a sequence of handles.
ResOf(hs) == [i \in 1 .. Len(hs) |-> Res(hs[i])]

\* Operands of different resources, but the inputs of concat_conv1x1.
Different(kind, args) ==
  \A i, j \in 1 .. Len(args) :
     i < j /\ Res(args[i]) = Res(args[j]) => kind = "concat" /\ j < Len(args)

\* hs names the resources of inputs F, each once.
EachOnce(hs, F) ==
  /\ \A i \in 1 .. Len(hs) : \E j \in 1 .. Len(F) : hs[i] = F[j]
  /\ \A j \in 1 .. Len(F) : \E i \in 1 .. Len(hs) : Res(hs[i]) = Res(F[j])
  /\ \A i, j \in 1 .. Len(hs) : i # j => Res(hs[i]) # Res(hs[j])

LEMMA FirstOfResourceIs ==
  ASSUME NEW H, NEW F \in Seq(H)
  PROVE  FirstOfResource(F) \in Seq(H) /\ EachOnce(FirstOfResource(F), F)
<1> DEFINE n == Len(F)
           Old(i) == \E j \in 1 .. i - 1 : Res(F[j]) = Res(F[i])
           s == [i \in 1 .. n |-> IF Old(i) THEN <<>> ELSE <<F[i]>>]
           Of(q, k) ==
             /\ \A i \in 1 .. Len(q) : \E j \in 1 .. k : q[i] = F[j]
             /\ \A j \in 1 .. k : \E i \in 1 .. Len(q) : Res(q[i]) = Res(F[j])
             /\ \A i, j \in 1 .. Len(q) : i # j => Res(q[i]) # Res(q[j])
           P == [k \in 0 .. n |-> {q \in Seq(H) : Of(q, k)}]
<1>1. n \in Nat /\ DOMAIN F = 1 .. n /\ \A i \in 1 .. n : F[i] \in H
  BY LenProperties, ElementOfSeq
<1>2. FirstOfResource(F) = FlattenSeq(s)
  BY <1>1 DEF FirstOfResource
<1>3. s \in Seq(Seq(H)) /\ Len(s) = n
  <2>1. ASSUME NEW i \in 1 .. n PROVE (IF Old(i) THEN <<>> ELSE <<F[i]>>) \in Seq(H)
    <3>1. <<F[i]>> \in Seq(H) /\ <<>> \in Seq(H)
      BY <1>1
    <3> HIDE DEF Old
    <3> QED
      BY <3>1
  <2>2. s \in [1 .. n -> Seq(H)]
    <3> HIDE DEF Old
    <3> QED
      BY <2>1
  <2> HIDE DEF s, n
  <2> QED
    BY <1>1, <2>2, Mapped
<1>4. <<>> \in P[0]
  <2>1. 0 \in 0 .. n /\ Len(<<>>) = 0 /\ 1 .. 0 = {} /\ <<>> \in Seq(H)
    BY <1>1
  <2>2. Of(<<>>, 0)
    BY <2>1
  <2> QED
    BY <2>1, <2>2
<1>5. ASSUME NEW k \in 1 .. n, NEW q \in P[k - 1], q \in Seq(H) PROVE q \o s[k] \in P[k]
  <2>1. Of(q, k - 1) /\ k \in 0 .. n /\ k - 1 \in 0 .. n /\ Len(q) \in Nat
    BY <1>1, <1>5, LenProperties
  <2>2. \A j : j \in 1 .. k <=> j \in 1 .. k - 1 \/ j = k
    BY <1>1
  <2>3. CASE Old(k)
    <3>1. s[k] = <<>>
      BY <2>3
    <3>2. q \o s[k] = q
      BY <1>5, <3>1, ConcatEmptySeq
    <3>3. Of(q, k)
      BY <2>1, <2>2, <2>3
    <3>4. q \in P[k]
      BY <1>5, <2>1, <3>3
    <3> QED
      BY <3>2, <3>4
  <2>4. CASE ~Old(k)
    <3> DEFINE b == <<F[k]>>
               c == q \o b
    <3>1. s[k] = b
      BY <2>4
    <3>2. b \in Seq(H) /\ Len(b) = 1 /\ b[1] = F[k]
      BY <1>1
    <3> HIDE DEF b
    <3>3. c \in Seq(H) /\ Adjoined(q, b, c)
      BY <1>5, <3>2, Joined
    <3> HIDE DEF c, s, P
    <3>4. ASSUME NEW i \in 1 .. Len(c)
          PROVE  \/ i \in 1 .. Len(q) /\ c[i] = q[i]
                 \/ i = Len(q) + 1 /\ c[i] = F[k]
      <4>1. CASE i - Len(q) \in 1 .. Len(b) /\ c[i] = b[i - Len(q)]
        <5>1. i - Len(q) = 1 /\ i = Len(q) + 1
          BY <2>1, <3>2, <3>3, <4>1 DEF Adjoined
        <5> QED
          BY <3>2, <4>1, <5>1
      <4> QED
        BY <3>3, <4>1 DEF Adjoined
    <3>5. /\ \A i \in 1 .. Len(q) : i \in 1 .. Len(c) /\ c[i] = q[i]
          /\ Len(q) + 1 \in 1 .. Len(c) /\ c[Len(q) + 1] = F[k]
      <4>1. 1 \in 1 .. Len(b)
        BY <3>2
      <4> QED
        BY <3>2, <3>3, <4>1 DEF Adjoined
    <3>6. ASSUME NEW i \in 1 .. Len(q) PROVE Res(q[i]) # Res(F[k])
      BY <2>1, <2>4
    <3>7. \A i \in 1 .. Len(c) : \E j \in 1 .. k : c[i] = F[j]
      BY <2>1, <2>2, <3>4
    <3>8. \A j \in 1 .. k : \E i \in 1 .. Len(c) : Res(c[i]) = Res(F[j])
      BY <2>1, <2>2, <3>5
    <3>9. \A i, j \in 1 .. Len(c) : i # j => Res(c[i]) # Res(c[j])
      BY <2>1, <3>4, <3>6
    <3>10. c \in P[k]
      BY <2>1, <3>3, <3>7, <3>8, <3>9 DEF P
    <3> QED
      BY <3>1, <3>10 DEF c
  <2> QED
    BY <2>3, <2>4
<1>6. FlattenSeq(s) \in Seq(H) /\ FlattenSeq(s) \in P[n]
  <2> HIDE DEF P, s
  <2> QED
    BY <1>3, <1>4, <1>5, FlattenStages
<1> DEFINE f == FlattenSeq(s)
<1>7. Of(f, n)
  <2> HIDE DEF f, Of
  <2>1. n \in 0 .. n
    BY <1>1
  <2>2. f \in P[n]
    BY <1>6 DEF f
  <2> QED
    BY <2>1, <2>2
<1>8. EachOnce(f, F)
  <2> HIDE DEF f
  <2> QED
    BY <1>7 DEF EachOnce
<1> QED
  BY <1>2, <1>6, <1>8

LEMMA FrontLast ==
  ASSUME NEW H, NEW args \in Seq(H), Len(args) > 1
  PROVE  /\ Front(args) \in Seq(H) /\ Len(Front(args)) = Len(args) - 1
         /\ \A i \in 1 .. Len(args) - 1 : Front(args)[i] = args[i]
         /\ Last(args) = args[Len(args)] /\ Last(args) \in H
         /\ Range(args) = Range(Front(args)) \cup {Last(args)}
<1>1. Len(args) \in Nat /\ DOMAIN args = 1 .. Len(args) /\ \A i \in 1 .. Len(args) : args[i] \in H
  BY LenProperties, ElementOfSeq
<1> DEFINE n == Len(args)
           F == Front(args)
<1>2. F = [i \in 1 .. n - 1 |-> args[i]]
  BY <1>1 DEF Front
<1>3. F \in [1 .. n - 1 -> H] /\ n - 1 \in Nat
  BY <1>1, <1>2
<1>4. F \in Seq(H) /\ Len(F) = n - 1 /\ DOMAIN F = 1 .. n - 1
  <2> HIDE DEF F, n
  <2> QED
    BY <1>3, Mapped
<1>5. \A i \in 1 .. n - 1 : F[i] = args[i]
  BY <1>2
<1>6. Last(args) = args[n] /\ Last(args) \in H
  BY <1>1 DEF Last
<1>7. Range(args) = Range(F) \cup {Last(args)}
  <2> HIDE DEF F
  <2>1. \A i : i \in 1 .. n <=> i \in 1 .. n - 1 \/ i = n
    BY <1>1
  <2> HIDE DEF n
  <2>2. Range(args) = {args[i] : i \in 1 .. n} /\ Range(F) = {F[i] : i \in 1 .. n - 1}
    BY <1>1, <1>4 DEF Range, n
  <2> QED
    BY <1>5, <1>6, <2>1, <2>2
<1> QED
  BY <1>4, <1>5, <1>6, <1>7

LEMMA EnteredIs ==
  ASSUME NEW H, NEW args \in Seq(H), Len(args) > 1, NEW kind, Different(kind, args)
  PROVE  /\ Entered(kind, args) \in Seq(H)
         /\ EachOnce(Entered(kind, args), Front(args))
<1>1. /\ Front(args) \in Seq(H) /\ Len(Front(args)) = Len(args) - 1 /\ Len(args) \in Nat
      /\ \A i \in 1 .. Len(args) - 1 : Front(args)[i] = args[i]
  BY FrontLast, LenProperties
<1>2. CASE kind = "concat"
  BY <1>1, <1>2, FirstOfResourceIs DEF Entered
<1>3. CASE kind # "concat"
  <2> DEFINE F == Front(args)
  <2>1. ASSUME NEW i \in 1 .. Len(F), NEW j \in 1 .. Len(F), i < j
        PROVE  Res(F[i]) # Res(F[j])
    <3>1. F[i] = args[i] /\ F[j] = args[j] /\ i \in 1 .. Len(args) /\ j \in 1 .. Len(args)
      BY <1>1
    <3> HIDE DEF F
    <3> QED
      BY <1>3, <2>1, <3>1 DEF Different
  <2>2. \A i, j \in 1 .. Len(F) : i # j => Res(F[i]) # Res(F[j])
    <3>1. \A i, j \in 1 .. Len(F) : i # j => i < j \/ j < i
      BY <1>1
    <3> HIDE DEF F
    <3> QED
      BY <2>1, <3>1
  <2>3. EachOnce(F, F)
    BY <2>2 DEF EachOnce
  <2> QED
    BY <1>1, <1>3, <2>3 DEF Entered
<1> QED
  BY <1>2, <1>3

\* When every handle changes its state, there is a barrier for each.
LEMMA TransitionsAre ==
  ASSUME NEW hs \in Seq(Handles), NEW from, NEW to,
         \A i \in 1 .. Len(hs) : from[hs[i]] # to[hs[i]]
  PROVE  Transitions(hs, from, to) = [i \in 1 .. Len(hs) |-> Barrier(Res(hs[i]), from[hs[i]], to[hs[i]])]
<1> DEFINE n == Len(hs)
           v == [i \in 1 .. n |-> Barrier(Res(hs[i]), from[hs[i]], to[hs[i]])]
           T == {v[i] : i \in 1 .. n}
<1>1. n \in Nat /\ DOMAIN hs = 1 .. n
  BY LenProperties
<1>2. Transitions(hs, from, to) = FlattenSeq([i \in 1 .. n |-> <<v[i]>>])
  <2>1. [i \in 1 .. n |-> IF from[hs[i]] = to[hs[i]] THEN <<>> ELSE <<Barrier(Res(hs[i]), from[hs[i]], to[hs[i]])>>]
          = [i \in 1 .. n |-> <<v[i]>>]
    OBVIOUS
  <2> QED
    BY <1>1, <2>1 DEF Transitions
<1>3. v \in [1 .. n -> T]
  OBVIOUS
<1> HIDE DEF n, v, T
<1>4. FlattenSeq([i \in 1 .. n |-> <<v[i]>>]) = v
  BY <1>1, <1>3, FlattenOnes
<1> QED
  BY <1>2, <1>4 DEF v, n

InCells(args)  == UNION {Elements(h) : h \in Range(Front(args))}
OutCells(args) == Elements(Last(args))

LEMMA OperandCells ==
  ASSUME NEW args \in Seq(Handles), Len(args) > 1
  PROVE  /\ InCells(args) \in SUBSET Cells /\ OutCells(args) \in SUBSET Cells
         /\ ResourcesOf(OutCells(args)) \subseteq {Res(Last(args))}
         /\ ResourcesOf(InCells(args)) \subseteq {Res(h) : h \in Range(Front(args))}
         /\ Range(args) \subseteq Handles /\ Range(Front(args)) \subseteq Handles
<1>1. Last(args) \in Handles /\ Front(args) \in Seq(Handles)
  BY FrontLast
<1>2. Range(Front(args)) \subseteq Handles /\ Range(args) \subseteq Handles
  <2>1. \A s \in Seq(Handles) : Range(s) \subseteq Handles
    <3> SUFFICES ASSUME NEW s \in Seq(Handles) PROVE Range(s) \subseteq Handles
      OBVIOUS
    <3>1. DOMAIN s = 1 .. Len(s) /\ \A i \in 1 .. Len(s) : s[i] \in Handles
      BY LenProperties, ElementOfSeq
    <3> QED
      BY <3>1 DEF Range
  <2> QED
    BY <1>1, <2>1
<1>3. OutCells(args) \in SUBSET Cells /\ ResourcesOf(OutCells(args)) \subseteq {Res(Last(args))}
  BY <1>1, CellSpace DEF OutCells
<1>4. ASSUME NEW x \in InCells(args)
      PROVE  x \in Cells /\ \E h \in Range(Front(args)) : x[1] = Res(h)
  <2>1. PICK h \in Range(Front(args)) : x \in Elements(h)
    BY <1>4 DEF InCells
  <2>2. x \in Cells /\ x[1] = Res(h)
    BY <1>2, <2>1, CellSpace
  <2> QED
    BY <2>1, <2>2
<1> QED
  BY <1>2, <1>3, <1>4 DEF ResourcesOf

LEMMA BarriersAreTransitions ==
  ASSUME NEW R, NEW ins, Len(ins) \in Nat, \A i \in 1 .. Len(ins) : ins[i] \in R,
         NEW f \in States, NEW t \in States
  PROVE  [i \in 1 .. Len(ins) |-> Barrier(ins[i], f, t)] \in Seq(TransitionsOn(R))
<1> DEFINE b == [i \in 1 .. Len(ins) |-> Barrier(ins[i], f, t)]
           T == TransitionsOn(R)
<1>1. \A i \in 1 .. Len(ins) : Barrier(ins[i], f, t) \in T
  BY DEF TransitionsOn
<1>2. b \in [1 .. Len(ins) -> T]
  BY <1>1
<1> HIDE DEF b, T
<1>3. b \in Seq(T)
  BY <1>2, Mapped
<1> QED
  BY <1>3 DEF b, T

\* A list that turns the resources of its operands, dispatches, and turns them back.
KernelForm(args, y, cmds) ==
  \E ins \in Seq(Resources) :
    /\ AllDiffer(ins, y) /\ ResourcesOf(InCells(args)) \subseteq Range(ins)
    /\ Range(ins) \cup {y} \subseteq {Res(h) : h \in Range(args)}
    /\ cmds = Bracketed(ins, y, Run(0, InCells(args), OutCells(args)))

LEMMA KernelListForm ==
  ASSUME NEW args \in Seq(Handles), Len(args) > 1, NEW kind, Different(kind, args),
         NEW st, st[Last(args)] = "COMMON", \A h \in Range(Entered(kind, args)) : st[h] = "COMMON",
         NEW y, y = Res(Last(args))
  PROVE  KernelForm(args, y, KernelList(kind, args, st))
<1> DEFINE hs  == Entered(kind, args)
           n   == Len(hs)
           F   == Front(args)
           z   == Last(args)
           ins == ResOf(hs)
           use == [h \in Range(args) |-> Wanted(h, z)]
           c   == Run(0, InCells(args), OutCells(args))
<1>1. hs \in Seq(Handles) /\ EachOnce(hs, F)
  BY EnteredIs
<1>2. n \in Nat /\ DOMAIN hs = 1 .. n /\ \A i \in 1 .. n : hs[i] \in Handles
  BY <1>1, LenProperties, ElementOfSeq
<1>3. /\ Len(F) = Len(args) - 1 /\ \A i \in 1 .. Len(args) - 1 : F[i] = args[i]
      /\ z = args[Len(args)] /\ Range(args) = Range(F) \cup {z} /\ Len(args) \in Nat
      /\ DOMAIN F = 1 .. Len(F) /\ z \in Handles
  BY FrontLast, LenProperties
<1>4. \A i \in 1 .. Len(F) : Res(F[i]) # y /\ F[i] \in Range(F)
  <2> SUFFICES ASSUME NEW i \in 1 .. Len(F) PROVE Res(F[i]) # y /\ F[i] \in Range(F)
    OBVIOUS
  <2>1. i \in 1 .. Len(args) /\ Len(args) \in 1 .. Len(args) /\ i < Len(args) /\ F[i] = args[i]
    BY <1>3
  <2>2. ~(Len(args) < Len(args))
    BY <1>3
  <2>3. Res(args[i]) # Res(args[Len(args)])
    BY <2>1, <2>2 DEF Different
  <2> QED
    BY <1>3, <2>1, <2>3 DEF Range
<1>5. \A i \in 1 .. n : \E j \in 1 .. Len(F) : hs[i] = F[j]
  BY <1>1 DEF EachOnce
<1>6. \A i \in 1 .. n : hs[i] \in Range(F) /\ Res(hs[i]) # y /\ hs[i] # z
  BY <1>4, <1>5
<1>7. Len(ins) = n /\ ins \in Seq(Resources) /\ \A i \in 1 .. n : ins[i] = Res(hs[i])
  <2>1. ins = [i \in 1 .. n |-> Res(hs[i])]
    BY DEF ResOf
  <2>2. \A i \in 1 .. n : Res(hs[i]) \in Resources
    BY <1>2, CellSpace
  <2>3. ins \in [1 .. n -> Resources]
    BY <2>1, <2>2
  <2>4. ins \in Seq(Resources) /\ Len(ins) = n
    <3> HIDE DEF ins, n
    <3> QED
      BY <1>2, <2>3, Mapped
  <2> QED
    BY <2>1, <2>4
<1>8. AllDiffer(ins, y)
  <2>1. \A i, j \in 1 .. n : i # j => Res(hs[i]) # Res(hs[j])
    BY <1>1 DEF EachOnce
  <2> HIDE DEF hs, ins, n
  <2> QED
    BY <1>6, <1>7, <2>1 DEF AllDiffer
<1>9. \A i \in 1 .. n : ins[i] \in Range(ins)
  <2> HIDE DEF ins, n
  <2>1. DOMAIN ins = 1 .. n
    BY <1>7, LenProperties
  <2> QED
    BY <2>1 DEF Range
<1>10. ResourcesOf(InCells(args)) \subseteq Range(ins)
  <2>1. ResourcesOf(InCells(args)) \subseteq {Res(h) : h \in Range(F)}
    BY OperandCells
  <2>2. ASSUME NEW h \in Range(F) PROVE Res(h) \in Range(ins)
    <3>1. PICK j \in 1 .. Len(F) : h = F[j]
      BY <1>3 DEF Range
    <3>2. PICK i \in 1 .. n : Res(hs[i]) = Res(F[j])
      BY <1>1 DEF EachOnce
    <3> HIDE DEF ins, hs, n, F
    <3> QED
      BY <1>7, <1>9, <3>1, <3>2
  <2> HIDE DEF ins, F
  <2> QED
    BY <2>1, <2>2
<1>11. Range(ins) \cup {y} \subseteq {Res(h) : h \in Range(args)}
  <2>1. ASSUME NEW r \in Range(ins) PROVE \E h \in Range(args) : r = Res(h)
    <3>1. DOMAIN ins = 1 .. n
      <4> HIDE DEF ins, n
      <4> QED
        BY <1>7, LenProperties
    <3>2. PICK i \in 1 .. n : r = ins[i]
      <4> HIDE DEF ins, n
      <4> QED
        BY <2>1, <3>1 DEF Range
    <3> HIDE DEF ins, hs, n, F
    <3> QED
      BY <1>3, <1>6, <1>7, <3>2
  <2>2. y \in {Res(h) : h \in Range(args)}
    BY <1>3
  <2> HIDE DEF ins
  <2> QED
    BY <2>1, <2>2
<1>12. use[z] = "UAV" /\ \A i \in 1 .. n : use[hs[i]] = "SRV"
  BY <1>3, <1>6 DEF Wanted
<1>13. st[z] = "COMMON" /\ \A i \in 1 .. n : st[hs[i]] = "COMMON"
  <2> HIDE DEF hs, n
  <2> QED
    BY <1>2 DEF hs, Range
<1> HIDE DEF use
<1> DEFINE E == [i \in 1 .. n |-> Barrier(ins[i], "COMMON", "SRV")]
           a == <<Barrier(y, "COMMON", "UAV")>>
           b == <<Barrier(y, "UAV", "COMMON")>>
           r == Reverse(hs)
           q == Reverse(ins)
           L == [i \in 1 .. n |-> Barrier(q[i], "SRV", "COMMON")]
<1>14. Transitions(hs, st, use) = E
  <2>1. Transitions(hs, st, use) = [i \in 1 .. n |-> Barrier(Res(hs[i]), st[hs[i]], use[hs[i]])]
    <3> HIDE DEF hs
    <3> QED
      BY <1>1, <1>12, <1>13, TransitionsAre
  <2>2. \A i \in 1 .. n : Barrier(Res(hs[i]), st[hs[i]], use[hs[i]]) = Barrier(ins[i], "COMMON", "SRV")
    BY <1>7, <1>12, <1>13
  <2> HIDE DEF hs, ins, n
  <2> QED
    BY <2>1, <2>2
<1>15. Transitions(<<z>>, st, use) = a /\ Transitions(<<z>>, use, st) = b
  <2> DEFINE one == <<z>>
  <2>1. one \in Seq(Handles) /\ Len(one) = 1 /\ one[1] = z /\ 1 .. 1 = {1}
    BY <1>3
  <2> HIDE DEF one, z, hs, n, F, ins
  <2>2. Transitions(one, st, use) = [i \in 1 .. 1 |-> Barrier(Res(one[i]), st[one[i]], use[one[i]])]
    <3>1. st[z] = "COMMON" /\ use[z] = "UAV" /\ one[1] = z
      BY <1>12, <1>13, <2>1
    <3>2. \A i \in 1 .. Len(one) : st[one[i]] # use[one[i]]
      BY ONLY <2>1, <3>1
    <3>3. one \in Seq(Handles)
      BY <2>1
    <3>4. Transitions(one, st, use) = [i \in 1 .. Len(one) |-> Barrier(Res(one[i]), st[one[i]], use[one[i]])]
      BY ONLY <3>2, <3>3, TransitionsAre
    <3> QED
      BY <2>1, <3>4
  <2>3. Transitions(one, use, st) = [i \in 1 .. 1 |-> Barrier(Res(one[i]), use[one[i]], st[one[i]])]
    <3>1. st[z] = "COMMON" /\ use[z] = "UAV" /\ one[1] = z
      BY <1>12, <1>13, <2>1
    <3>2. \A i \in 1 .. Len(one) : use[one[i]] # st[one[i]]
      BY ONLY <2>1, <3>1
    <3>3. one \in Seq(Handles)
      BY <2>1
    <3>4. Transitions(one, use, st) = [i \in 1 .. Len(one) |-> Barrier(Res(one[i]), use[one[i]], st[one[i]])]
      BY ONLY <3>2, <3>3, TransitionsAre
    <3> QED
      BY <2>1, <3>4
  <2>4. Res(z) = y
    BY DEF z
  <2>5. Transitions(one, st, use) = [i \in 1 .. 1 |-> Barrier(y, "COMMON", "UAV")]
    BY <1>12, <1>13, <2>1, <2>2, <2>4
  <2>6. Transitions(one, use, st) = [i \in 1 .. 1 |-> Barrier(y, "UAV", "COMMON")]
    BY <1>12, <1>13, <2>1, <2>3, <2>4
  <2>7. \A v : [i \in 1 .. 1 |-> v] = <<v>>
    OBVIOUS
  <2> QED
    BY <2>5, <2>6, <2>7 DEF one
<1>16. Transitions(r, use, st) = L
  <2>1. /\ r \in Seq(Handles) /\ Len(r) = n
        /\ \A i \in 1 .. n : r[i] = hs[(n - i) + 1] /\ (n - i) + 1 \in 1 .. n
    <3> HIDE DEF hs
    <3> QED
      BY <1>1, ReverseIs
  <2>2. \A i \in 1 .. n : q[i] = ins[(n - i) + 1]
    <3> HIDE DEF ins, n
    <3> QED
      BY <1>7, ReverseIs
  <2>3. \A i \in 1 .. n : use[r[i]] = "SRV" /\ st[r[i]] = "COMMON" /\ Res(r[i]) = q[i]
    <3> HIDE DEF ins, n, q, r, hs
    <3> QED
      BY <1>7, <1>12, <1>13, <2>1, <2>2
  <2> HIDE DEF r, q, n
  <2>4. Transitions(r, use, st) = [i \in 1 .. n |-> Barrier(Res(r[i]), use[r[i]], st[r[i]])]
    <3> HIDE DEF hs, ins
    <3>1. \A i \in 1 .. Len(r) : use[r[i]] # st[r[i]]
      BY <2>1, <2>3
    <3>2. r \in Seq(Handles)
      BY <2>1
    <3>3. Transitions(r, use, st) = [i \in 1 .. Len(r) |-> Barrier(Res(r[i]), use[r[i]], st[r[i]])]
      BY ONLY <3>1, <3>2, TransitionsAre
    <3> QED
      BY <2>1, <3>3
  <2>5. \A i \in 1 .. n : Barrier(Res(r[i]), use[r[i]], st[r[i]]) = Barrier(q[i], "SRV", "COMMON")
    BY <2>3
  <2> QED
    BY <2>4, <2>5
<1>17. KernelList(kind, args, st) = E \o a \o <<c>> \o b \o L
  BY <1>14, <1>15, <1>16 DEF KernelList, use, InCells, OutCells
<1>18. Enters(ins, y) = E \o a /\ Leaves(ins, y) = b \o L
  <2> HIDE DEF ins, n
  <2> QED
    BY <1>7 DEF Enters, Leaves
<1>19. E \o a \o <<c>> \o b \o L = (E \o a) \o <<c>> \o (b \o L)
  <2> DEFINE T == Commands(Resources, Cells)
             X == E \o a \o <<c>>
             R == Resources
  <2>1. TransitionsOn(R) \subseteq T /\ y \in R
    BY <1>3, CellSpace DEF Commands
  <2>2. E \in Seq(T)
    <3>1. \A i \in 1 .. n : ins[i] \in Resources
      BY <1>2, <1>7, CellSpace
    <3>2. E \in Seq(TransitionsOn(R))
      <4> HIDE DEF ins, n
      <4> QED
        BY <1>2, <1>7, <3>1, BarriersAreTransitions DEF States
    <3> HIDE DEF E, T
    <3> QED
      BY <2>1, <3>2, SeqMonotonic
  <2>3. L \in Seq(T)
    <3>1. q \in Seq(R) /\ Len(q) = n
      <4> HIDE DEF ins, n
      <4> QED
        BY <1>7, ReverseIs
    <3>2. \A i \in 1 .. n : q[i] \in R
      BY <3>1, ElementOfSeq
    <3>3. L \in Seq(TransitionsOn(R))
      <4> HIDE DEF q, n
      <4> QED
        BY <1>2, <3>1, <3>2, BarriersAreTransitions DEF States
    <3> HIDE DEF L, T
    <3> QED
      BY <2>1, <3>3, SeqMonotonic
  <2>4. a \in Seq(T) /\ b \in Seq(T)
    <3>1. Barrier(y, "COMMON", "UAV") \in T /\ Barrier(y, "UAV", "COMMON") \in T
      BY <2>1 DEF TransitionsOn, States
    <3> HIDE DEF T
    <3> QED
      BY <3>1
  <2>5. <<c>> \in Seq(T)
    <3>1. InCells(args) \in SUBSET Cells /\ OutCells(args) \in SUBSET Cells
      BY OperandCells
    <3>2. PICK k \in Nat : c = Run(k, InCells(args), OutCells(args))
      OBVIOUS
    <3>3. c \in T
      BY ONLY <3>1, <3>2 DEF T, Commands, RunsOf
    <3> HIDE DEF T, c
    <3> QED
      BY <3>3
  <2> HIDE DEF T, E, L, a, b, c
  <2>6. E \o a \in Seq(T)
    BY <2>2, <2>4, ConcatProperties
  <2>7. X \in Seq(T)
    BY <2>5, <2>6, ConcatProperties
  <2> HIDE DEF X
  <2>8. X \o b \o L = X \o (b \o L)
    BY <2>3, <2>4, <2>7, ConcatAssociative
  <2> QED
    BY <2>8 DEF X
<1>20. KernelList(kind, args, st) = Bracketed(ins, y, c)
  <2> HIDE DEF E, L, a, b, c, ins
  <2> QED
    BY <1>17, <1>18, <1>19 DEF Bracketed
<1> HIDE DEF ins, hs, n
<1> QED
  BY <1>7, <1>8, <1>10, <1>11, <1>20 DEF KernelForm
------------------------------------------------------------------------------
(* What a list does to a machine at rest                                      *)

Ready(m) == m \in Machine(Resources, Cells) /\ AtRest(Resources, m)

\* It finds the states it was recorded for and leaves everything at rest; not ok
\* when it may misstate.
Clean(cmds, ok) ==
  \A m, by, n : Ready(m) /\ by \in Nat /\ n = Ran(m, cmds, by) =>
    /\ Ready(n) /\ n.live = m.live /\ n.faults \subseteq m.faults \cup {"misstated", "misuse"}
    /\ ok => n.faults = m.faults

\* It writes what was computed from the cells in to the cells out, and nothing else.
Makes(cmds, in, out) ==
  \A m, by, n : Ready(m) /\ by \in Nat /\ n = Ran(m, cmds, by) =>
    n.mem = Computed(Cells, m.mem, in, out, by)

\* It writes no other cells.
Keeps(cmds, cells) ==
  \A m, by, n : Ready(m) /\ by \in Nat /\ n = Ran(m, cmds, by) =>
    \A x \in Cells \ cells : n.mem[x] = m.mem[x]

LEMMA TouchedConcat ==
  ASSUME NEW T, NEW a \in Seq(T), NEW b \in Seq(T)
  PROVE  AllTouched(a \o b) = AllTouched(a) \cup AllTouched(b)
<1> DEFINE c == a \o b
<1>1. Adjoined(a, b, c) /\ c \in Seq(T)
  BY Joined
<1>2. DOMAIN a = 1 .. Len(a) /\ DOMAIN b = 1 .. Len(b) /\ DOMAIN c = 1 .. Len(c)
  BY <1>1, LenProperties
<1> HIDE DEF c
<1>3. ASSUME NEW x \in AllTouched(c) PROVE x \in AllTouched(a) \cup AllTouched(b)
  <2>1. PICK i \in 1 .. Len(c) : x \in Touched(c[i])
    BY <1>2 DEF AllTouched
  <2>2. CASE i \in 1 .. Len(a) /\ c[i] = a[i]
    BY <1>2, <2>1, <2>2 DEF AllTouched
  <2>3. CASE i - Len(a) \in 1 .. Len(b) /\ c[i] = b[i - Len(a)]
    BY <1>2, <2>1, <2>3 DEF AllTouched
  <2> QED
    BY <1>1, <2>2, <2>3 DEF Adjoined
<1>4. ASSUME NEW x \in AllTouched(a) PROVE x \in AllTouched(c)
  <2>1. PICK i \in 1 .. Len(a) : x \in Touched(a[i])
    BY <1>2 DEF AllTouched
  <2>2. i \in 1 .. Len(c) /\ c[i] = a[i]
    BY <1>1 DEF Adjoined
  <2> QED
    BY <1>2, <2>1, <2>2 DEF AllTouched
<1>5. ASSUME NEW x \in AllTouched(b) PROVE x \in AllTouched(c)
  <2>1. PICK i \in 1 .. Len(b) : x \in Touched(b[i])
    BY <1>2 DEF AllTouched
  <2>2. Len(a) + i \in 1 .. Len(c) /\ c[Len(a) + i] = b[i]
    BY <1>1 DEF Adjoined
  <2> QED
    BY <1>2, <2>1, <2>2 DEF AllTouched
<1> QED
  BY <1>3, <1>4, <1>5 DEF c

LEMMA BarriersTouch ==
  ASSUME NEW R, NEW bs \in Seq(TransitionsOn(R))
  PROVE  AllTouched(bs) \subseteq Barred(bs)
<1>1. DOMAIN bs = 1 .. Len(bs) /\ \A i \in 1 .. Len(bs) : bs[i] \in TransitionsOn(R)
  BY LenProperties, ElementOfSeq
<1>2. \A c \in TransitionsOn(R) : Touched(c) = {c.res}
  BY BarrierFields DEF TransitionsOn, Touched
<1> QED
  BY <1>1, <1>2 DEF AllTouched, Barred

LEMMA OneTouches ==
  ASSUME NEW c
  PROVE  AllTouched(<<c>>) = Touched(c)
BY DEF AllTouched

LEMMA AroundTouches ==
  ASSUME NEW R, NEW ins \in Seq(R), NEW y \in R, NEW c
  PROVE  AllTouched(Bracketed(ins, y, c)) \subseteq Range(ins) \cup {y} \cup Touched(c)
<1> DEFINE e == Enters(ins, y)
           l == Leaves(ins, y)
           T == TransitionsOn(R) \cup {c}
           a == <<c>>
           s == e \o a
<1>1. /\ e \in Seq(TransitionsOn(R)) /\ l \in Seq(TransitionsOn(R))
      /\ Barred(e) = Range(ins) \cup {y} /\ Barred(l) = Range(ins) \cup {y}
  BY EntersIs, LeavesIs
<1>2. a \in Seq(T) /\ AllTouched(a) = Touched(c)
  BY OneTouches
<1> HIDE DEF e, l, a
<1>3. e \in Seq(T) /\ l \in Seq(T)
  BY <1>1, SeqMonotonic
<1>4. s \in Seq(T)
  BY <1>2, <1>3, ConcatProperties
<1>5. AllTouched(s) = AllTouched(e) \cup AllTouched(a)
  BY <1>2, <1>3, TouchedConcat
<1> HIDE DEF s
<1>6. AllTouched(s \o l) = AllTouched(s) \cup AllTouched(l)
  BY <1>3, <1>4, TouchedConcat
<1>7. AllTouched(e) \subseteq Barred(e) /\ AllTouched(l) \subseteq Barred(l)
  BY <1>1, BarriersTouch
<1> QED
  BY <1>1, <1>2, <1>5, <1>6, <1>7 DEF s, e, l, a, Bracketed

\* The list of a kernel whose operands are in COMMON.
LEMMA KernelListRuns ==
  ASSUME NEW args \in Seq(Handles), Len(args) > 1, NEW kind, Different(kind, args),
         NEW st, st[Last(args)] = "COMMON", \A h \in Range(Entered(kind, args)) : st[h] = "COMMON",
         NEW cmds, cmds = KernelList(kind, args, st)
  PROVE  /\ Clean(cmds, TRUE) /\ Makes(cmds, InCells(args), OutCells(args))
         /\ AllTouched(cmds) \subseteq {Res(h) : h \in Range(args)}
<1> DEFINE y   == Res(Last(args))
           in  == InCells(args)
           out == OutCells(args)
           c   == Run(0, in, out)
<1>0. y = Res(Last(args)) /\ y \in Resources
  BY FrontLast, CellSpace
<1> HIDE DEF y
<1>1. PICK ins \in Seq(Resources) :
        /\ AllDiffer(ins, y) /\ ResourcesOf(in) \subseteq Range(ins)
        /\ Range(ins) \cup {y} \subseteq {Res(h) : h \in Range(args)}
        /\ cmds = Bracketed(ins, y, c)
  <2>1. KernelForm(args, y, cmds)
    BY <1>0, KernelListForm
  <2> QED
    BY <2>1 DEF KernelForm
<1>2. /\ in \in SUBSET Cells /\ out \in SUBSET Cells /\ ResourcesOf(out) \subseteq {y}
      /\ y \in Resources
  BY <1>0, OperandCells
<1>3. Touched(c) \subseteq Range(ins) \cup {y}
  <2>1. Touched(c) = ResourcesOf(in \cup out)
    BY DEF Run, Touched
  <2>2. ResourcesOf(in \cup out) = ResourcesOf(in) \cup ResourcesOf(out)
    BY DEF ResourcesOf
  <2> QED
    BY <1>1, <1>2, <2>1, <2>2
<1> HIDE DEF in, out
<1>4. AllTouched(cmds) \subseteq Range(ins) \cup {y} \cup Touched(c)
  <2> HIDE DEF c
  <2> QED
    BY <1>1, <1>2, AroundTouches
<1>5. ASSUME NEW m, NEW by, NEW n, Ready(m), by \in Nat, n = Ran(m, cmds, by)
      PROVE  Effected(Resources, Cells, m, in, out, by, n) /\ n.faults = m.faults
  <2>1. m \in Machine(Resources, Cells) /\ AtRest(Resources, m)
    BY <1>5 DEF Ready
  <2>2. n = Ran(m, Bracketed(ins, y, c), by) /\ c = Run(0, in, out)
    BY <1>1, <1>5
  <2>3. by \in Nat /\ ins \in Seq(Resources) /\ y \in Resources
    BY <1>2, <1>5
  <2>4. /\ in \in SUBSET Cells /\ out \in SUBSET Cells /\ ResourcesOf(out) \subseteq {y}
        /\ ResourcesOf(in) \subseteq Range(ins)
    BY <1>1, <1>2
  <2> HIDE DEF c
  <2>5. /\ Effected(Resources, Cells, m, in, out, by, n)
        /\ AllDiffer(ins, y) => n.faults = m.faults
    BY ONLY <2>1, <2>2, <2>3, <2>4, AroundRuns
  <2> QED
    BY <1>1, <2>5
<1>6. Clean(cmds, TRUE) /\ Makes(cmds, in, out)
  <2>1. Clean(cmds, TRUE)
    BY <1>5 DEF Clean, Effected, Ready
  <2>2. Makes(cmds, in, out)
    BY <1>5 DEF Makes, Effected
  <2> QED
    BY <2>1, <2>2
<1> QED
  BY <1>1, <1>3, <1>4, <1>6 DEF in, out

\* The barriers around a copy.
TurnOf(r, s) == <<Barrier(r, "COMMON", s)>>
BackOf(r, s) == <<Barrier(r, s, "COMMON")>>

\* They turn resource r to state s and back.
Pair(R, r, s, e, l) ==
  /\ e \in Seq(TransitionsOn(R)) /\ l \in Seq(TransitionsOn(R))
  /\ Closes(e, l) /\ Square(e, l) /\ Barred(e) = {r} /\ Barred(l) = {r}
  /\ \A cells : ResourcesOf(cells) \subseteq {r} => LeadsTo(e, cells, s)

LEMMA BarrierPair ==
  ASSUME NEW R, NEW r \in R, NEW s \in States, NEW e, NEW l,
         e = TurnOf(r, s), l = BackOf(r, s)
  PROVE  Pair(R, r, s, e, l)
<1> DEFINE x == Barrier(r, "COMMON", s)
           z == Barrier(r, s, "COMMON")
<1>1. x \in TransitionsOn(R) /\ z \in TransitionsOn(R)
  BY DEF TransitionsOn, States
<1>2. x.res = r /\ z.res = r /\ x.from = "COMMON" /\ x.to = s /\ z.from = s /\ z.to = "COMMON"
  BY BarrierFields
<1> HIDE DEF x, z
<1>3. /\ Len(e) = 1 /\ Len(l) = 1 /\ e[1] = x /\ l[1] = z /\ 1 .. 1 = {1} /\ 1 .. 1 - 1 = {}
      /\ e \in Seq(TransitionsOn(R)) /\ l \in Seq(TransitionsOn(R))
  BY <1>1 DEF x, z, TurnOf, BackOf
<1>4. Barred(e) = {r} /\ Barred(l) = {r}
  BY <1>2, <1>3 DEF Barred
<1>5. Closes(e, l)
  BY <1>2, <1>3, <1>4 DEF Closes
<1>6. Square(e, l)
  BY <1>2, <1>3 DEF Square
<1>7. \A cells : ResourcesOf(cells) \subseteq {r} => LeadsTo(e, cells, s)
  BY <1>2, <1>3, <1>4 DEF LeadsTo
<1> QED
  BY <1>3, <1>4, <1>5, <1>6, <1>7 DEF Pair

LEMMA CopyTouches ==
  ASSUME NEW R, NEW e \in Seq(TransitionsOn(R)), NEW l \in Seq(TransitionsOn(R)),
         NEW T, NEW s \in Seq(T)
  PROVE  AllTouched(e \o s \o l) \subseteq Barred(e) \cup Barred(l) \cup AllTouched(s)
<1> DEFINE U == TransitionsOn(R) \cup T
           a == e \o s
<1>1. e \in Seq(U) /\ l \in Seq(U) /\ s \in Seq(U)
  BY SeqMonotonic
<1>2. a \in Seq(U)
  BY <1>1, ConcatProperties
<1>3. AllTouched(a) = AllTouched(e) \cup AllTouched(s)
  BY <1>1, TouchedConcat
<1> HIDE DEF a
<1>4. AllTouched(a \o l) = AllTouched(a) \cup AllTouched(l)
  BY <1>1, <1>2, TouchedConcat
<1>5. AllTouched(e) \subseteq Barred(e) /\ AllTouched(l) \subseteq Barred(l)
  BY BarriersTouch
<1> QED
  BY <1>3, <1>4, <1>5 DEF a

\* A buffer filled from an upload heap.
LEMMA FillListRuns ==
  ASSUME NEW h \in Handles, NEW heap \in Nat, NEW s, s = "COMMON",
         NEW cmds, cmds = FillList(h, heap, s)
  PROVE  /\ Clean(cmds, TRUE) /\ Makes(cmds, {}, Elements(h))
         /\ AllTouched(cmds) \subseteq {Res(h), heap}
<1> DEFINE r  == Res(h)
           E  == Elements(h)
           c  == Fill(0, heap, E)
           e  == <<Barrier(r, "COMMON", "COPY_DEST")>>
           l  == <<Barrier(r, "COPY_DEST", "COMMON")>>
           fs == <<c>>
<1>1. r \in Resources /\ E \in SUBSET Cells /\ ResourcesOf(E) \subseteq {r}
  BY CellSpace
<1>2. cmds = e \o fs \o l
  BY DEF FillList, CopyList
<1>3. c \in FillsOf(Cells) /\ c.out = E /\ c.by = 0 /\ Touched(c) = {heap} \cup ResourcesOf(E)
  <2> HIDE DEF E
  <2>1. c \in FillsOf(Cells)
    <3>1. PICK k \in Nat : c = Fill(k, heap, E)
      OBVIOUS
    <3> QED
      BY <1>1, <3>1 DEF FillsOf
  <2> QED
    BY <2>1 DEF Fill, Touched
<1> HIDE DEF E, r, c
<1>4. /\ e \in Seq(TransitionsOn(Resources)) /\ l \in Seq(TransitionsOn(Resources))
      /\ Closes(e, l) /\ Square(e, l) /\ Barred(e) = {r} /\ Barred(l) = {r}
      /\ \A cells : ResourcesOf(cells) \subseteq {r} => LeadsTo(e, cells, "COPY_DEST")
  <2>1. /\ e = TurnOf(r, "COPY_DEST") /\ l = BackOf(r, "COPY_DEST")
        /\ "COPY_DEST" \in States
    BY DEF States, TurnOf, BackOf
  <2> HIDE DEF e, l
  <2>2. Pair(Resources, r, "COPY_DEST", e, l)
    BY <1>1, <2>1, BarrierPair
  <2> QED
    BY <1>1, <2>2 DEF Pair
<1>5. fs \in Seq(FillsOf(Cells)) /\ Len(fs) = 1 /\ fs[1] = c /\ 1 .. 1 = {1}
  BY <1>3
<1>6. AllTouched(fs) = Touched(c)
  BY OneTouches
<1> HIDE DEF e, l, fs
<1>7. AllTouched(cmds) \subseteq {r, heap}
  <2>1. AllTouched(e \o fs \o l) \subseteq Barred(e) \cup Barred(l) \cup AllTouched(fs)
    BY ONLY <1>4, <1>5, CopyTouches
  <2> QED
    BY <1>1, <1>2, <1>3, <1>4, <1>6, <2>1
<1>8. ASSUME NEW m, NEW by, NEW n, Ready(m), by \in Nat, n = Ran(m, cmds, by)
      PROVE  /\ Ready(n) /\ n.live = m.live /\ n.faults = m.faults
             /\ n.mem = Computed(Cells, m.mem, {}, E, by)
  <2>1. m \in Machine(Resources, Cells) /\ AtRest(Resources, m) /\ n = Ran(m, e \o fs \o l, by)
    BY <1>2, <1>8 DEF Ready
  <2>2. \A i \in 1 .. Len(fs) : LeadsTo(e, fs[i].out, "COPY_DEST")
    BY <1>1, <1>3, <1>4, <1>5
  <2>3. /\ n \in Machine(Resources, Cells) /\ AtRest(Resources, n) /\ n.live = m.live
        /\ n.faults = m.faults /\ Deposited(Cells, n.mem, m.mem, fs, by)
    BY ONLY <1>4, <1>5, <1>8, <2>1, <2>2, BracketFills
  <2>4. n.mem = Computed(Cells, m.mem, {}, E, by)
    <3>1. DOMAIN n.mem = Cells /\ n.mem = [x \in Cells |-> n.mem[x]]
      BY <2>3 DEF Machine
    <3>2. ASSUME NEW x \in Cells PROVE n.mem[x] = IF x \in E THEN {by} ELSE m.mem[x]
      BY <1>3, <1>5, <2>3 DEF Deposited, Caller
    <3>3. (UNION {m.mem[y] : y \in {}}) \cup {by} = {by}
      OBVIOUS
    <3> QED
      BY <3>1, <3>2, <3>3 DEF Computed
  <2> QED
    BY <2>3, <2>4 DEF Ready
<1>9. Clean(cmds, TRUE) /\ Makes(cmds, {}, E)
  <2>1. Clean(cmds, TRUE)
    BY <1>8 DEF Clean
  <2>2. Makes(cmds, {}, E)
    BY <1>8 DEF Makes
  <2> QED
    BY <2>1, <2>2
<1> QED
  BY <1>7, <1>9 DEF r, E

\* The cells a list copies to readback heaps.
CopiedCells(cmds) == UNION {c.in : c \in {x \in Range(cmds) : x.op = "read"}}

\* A buffer copied to a readback heap.
LEMMA ReadListRuns ==
  ASSUME NEW h \in Handles, NEW heap \in Nat, NEW s, s = "COMMON",
         NEW cmds, cmds = ReadList(h, heap, s)
  PROVE  /\ Clean(cmds, TRUE) /\ Keeps(cmds, {})
         /\ AllTouched(cmds) \subseteq {Res(h), heap}
         /\ CopiedCells(cmds) = Elements(h)
<1> DEFINE r  == Res(h)
           E  == Elements(h)
           c  == ReadBack(heap, E)
           b1 == Barrier(r, "COMMON", "COPY_SOURCE")
           b2 == Barrier(r, "COPY_SOURCE", "COMMON")
           e  == <<b1>>
           l  == <<b2>>
<1>1. r \in Resources /\ E \in SUBSET Cells /\ ResourcesOf(E) \subseteq {r}
  BY CellSpace
<1>2. cmds = e \o <<c>> \o l
  BY DEF ReadList, CopyList
<1>3. c.in = E /\ c.op = "read" /\ Touched(c) = {heap} \cup ResourcesOf(E)
  BY DEF ReadBack, Touched
<1>4. b1.op = "transition" /\ b2.op = "transition"
  BY BarrierFields
<1> HIDE DEF E, r, c
<1>5. /\ e \in Seq(TransitionsOn(Resources)) /\ l \in Seq(TransitionsOn(Resources))
      /\ Closes(e, l) /\ Square(e, l) /\ Barred(e) = {r} /\ Barred(l) = {r}
      /\ LeadsTo(e, E, "COPY_SOURCE")
  <2>1. /\ e = TurnOf(r, "COPY_SOURCE") /\ l = BackOf(r, "COPY_SOURCE")
        /\ "COPY_SOURCE" \in States
    BY DEF States, TurnOf, BackOf, b1, b2
  <2> HIDE DEF e, l
  <2>2. Pair(Resources, r, "COPY_SOURCE", e, l)
    BY <1>1, <2>1, BarrierPair
  <2> QED
    BY <1>1, <2>2 DEF Pair
<1>6. AllTouched(<<c>>) = Touched(c) /\ <<c>> \in Seq({c})
  BY OneTouches
<1> HIDE DEF b1, b2
<1>7. Range(cmds) = {b1, c, b2}
  <2>1. cmds = <<b1, c, b2>>
    BY <1>2, Three
  <2>2. DOMAIN cmds = {1, 2, 3} /\ cmds[1] = b1 /\ cmds[2] = c /\ cmds[3] = b2
    BY <2>1
  <2> QED
    BY <2>2 DEF Range
<1>8. CopiedCells(cmds) = E
  <2>1. {z \in Range(cmds) : z.op = "read"} = {c}
    BY <1>3, <1>4, <1>7
  <2> QED
    BY <1>3, <2>1 DEF CopiedCells
<1> HIDE DEF e, l
<1>9. AllTouched(cmds) \subseteq {r, heap}
  <2> DEFINE fs == <<c>>
  <2>1. fs \in Seq({c}) /\ AllTouched(fs) = Touched(c)
    BY <1>6
  <2> HIDE DEF fs
  <2>2. AllTouched(e \o fs \o l) \subseteq Barred(e) \cup Barred(l) \cup AllTouched(fs)
    BY <1>5, <2>1, CopyTouches
  <2> QED
    BY <1>1, <1>2, <1>3, <1>5, <2>1, <2>2 DEF fs
<1>10. ASSUME NEW m, NEW by, NEW n, Ready(m), by \in Nat, n = Ran(m, cmds, by)
       PROVE  Ready(n) /\ n.live = m.live /\ n.faults = m.faults /\ n.mem = m.mem
  <2>1. m \in Machine(Resources, Cells) /\ AtRest(Resources, m) /\ n = Ran(m, e \o <<c>> \o l, by)
    BY <1>2, <1>10 DEF Ready
  <2>2. c = ReadBack(heap, E)
    BY DEF c
  <2>3. /\ n \in Machine(Resources, Cells) /\ AtRest(Resources, n) /\ n.live = m.live
        /\ n.faults = m.faults /\ n.mem = m.mem
    BY ONLY <1>1, <1>5, <1>10, <2>1, <2>2, heap \in Nat, BracketRead
  <2> QED
    BY <2>3 DEF Ready
<1>11. Clean(cmds, TRUE) /\ Keeps(cmds, {})
  <2>1. Clean(cmds, TRUE)
    BY <1>10 DEF Clean
  <2>2. Keeps(cmds, {})
    BY <1>10 DEF Keeps
  <2> QED
    BY <2>1, <2>2
<1> QED
  BY <1>8, <1>9, <1>11 DEF r, E

------------------------------------------------------------------------------
(* The list of a prepared upload                                              *)

\* A command once the bytes of a slot are known, and a list of them.
Put(c, bytes) ==
  IF c.op = "fill" THEN [c EXCEPT !.by = bytes[(CHOOSE x \in c.out : TRUE)[2] + 1]] ELSE c

Load(cmds, bytes) == [i \in DOMAIN cmds |-> Put(cmds[i], bytes)]

LEMMA LoadedIs ==
  ASSUME NEW item
  PROVE  Loaded(item) = IF item.ring = <<>> THEN item.cmds
                        ELSE Load(item.cmds, slots[item.ring[1]][item.ring[2]])
BY DEF Loaded, Load, Put

LEMMA LoadConcat ==
  ASSUME NEW T, NEW a \in Seq(T), NEW b \in Seq(T), NEW bytes
  PROVE  Load(a \o b, bytes) = Load(a, bytes) \o Load(b, bytes)
<1> DEFINE U  == {Put(c, bytes) : c \in T}
           c  == a \o b
           la == Load(a, bytes)
           lb == Load(b, bytes)
           lc == Load(c, bytes)
           ld == la \o lb
<1>1. Adjoined(a, b, c) /\ c \in Seq(T)
  BY Joined
<1>2. /\ Len(a) \in Nat /\ Len(b) \in Nat /\ Len(c) \in Nat
      /\ DOMAIN a = 1 .. Len(a) /\ DOMAIN b = 1 .. Len(b) /\ DOMAIN c = 1 .. Len(c)
      /\ \A i \in 1 .. Len(a) : a[i] \in T
      /\ \A i \in 1 .. Len(b) : b[i] \in T
  BY <1>1, LenProperties, ElementOfSeq
<1> HIDE DEF c
<1>3. la = [i \in 1 .. Len(a) |-> Put(a[i], bytes)] /\ lb = [i \in 1 .. Len(b) |-> Put(b[i], bytes)]
      /\ lc = [i \in 1 .. Len(c) |-> Put(c[i], bytes)]
  BY <1>2 DEF Load
<1> HIDE DEF la, lb, lc
<1>4. la \in [1 .. Len(a) -> U] /\ lb \in [1 .. Len(b) -> U]
  BY <1>2, <1>3
<1> HIDE DEF U
<1>5. la \in Seq(U) /\ Len(la) = Len(a) /\ lb \in Seq(U) /\ Len(lb) = Len(b)
  BY <1>2, <1>4, Mapped
<1>6. Adjoined(la, lb, ld) /\ ld \in Seq(U)
  BY <1>5, Joined
<1> HIDE DEF ld
<1>7. Len(ld) = Len(c) /\ DOMAIN ld = 1 .. Len(c)
  BY <1>1, <1>2, <1>5, <1>6, LenProperties DEF Adjoined
<1>8. ASSUME NEW i \in 1 .. Len(c) PROVE ld[i] = lc[i]
  <2>1. CASE i \in 1 .. Len(a) /\ c[i] = a[i]
    <3>1. ld[i] = la[i]
      BY <1>5, <1>6, <2>1 DEF Adjoined
    <3> QED
      BY <1>3, <2>1, <3>1
  <2>2. CASE i - Len(a) \in 1 .. Len(b) /\ c[i] = b[i - Len(a)]
    <3> DEFINE j == i - Len(a)
    <3>1. ld[Len(a) + j] = lb[j] /\ Len(a) + j = i
      BY <1>2, <1>5, <1>6, <2>2 DEF Adjoined
    <3> QED
      BY <1>3, <2>2, <3>1
  <2> QED
    BY <1>1, <2>1, <2>2 DEF Adjoined
<1>9. lc = ld
  <2>1. ld = [i \in 1 .. Len(c) |-> ld[i]]
    BY <1>6, <1>7
  <2> QED
    BY <1>3, <1>8, <2>1
<1> QED
  BY <1>9 DEF la, lb, lc, ld, c

\* A list without copies to buffers stays what it is.
LEMMA LoadNone ==
  ASSUME NEW T, NEW a \in Seq(T), \A c \in T : c.op # "fill", NEW bytes
  PROVE  Load(a, bytes) = a
<1>1. DOMAIN a = 1 .. Len(a) /\ \A i \in 1 .. Len(a) : a[i] \in T
  BY LenProperties, ElementOfSeq
<1>2. a = [i \in 1 .. Len(a) |-> a[i]]
  BY <1>1
<1>3. \A i \in 1 .. Len(a) : Put(a[i], bytes) = a[i]
  BY <1>1 DEF Put
<1> QED
  BY <1>1, <1>2, <1>3 DEF Load

\* The elements of a slot on their way to the input of a dispatch.
SlotCopies(d, bytes) ==
  [i \in 1 .. Width |-> Fill(bytes[i], SlotHeap(d), {<<InputOf(d), i - 1>>})]

LEMMA InputSpace ==
  ASSUME NEW d \in Uploading
  PROVE  /\ InputOf(d) \in Owned /\ InputOf(d) \in Handles /\ Res(InputOf(d)) = InputOf(d)
         /\ Elements(InputOf(d)) = {InputOf(d)} \X (0 .. Width - 1)
         /\ Elements(InputOf(d)) \subseteq Cells /\ SlotHeap(d) \in Nat /\ InputOf(d) \in Nat
         /\ InputOf(d) \notin DOMAIN Buffers /\ InputOf(d) \in Resources
<1>1. InputOf(d) \in Owned
  BY DEF Owned
<1>2. d \in Nat
  BY NativeAssumption DEF Uploading
<1>3. InputOf(d) \in Nat /\ SlotHeap(d) \in Nat
  BY <1>2 DEF InputOf, SlotHeap
<1>4. InputOf(d) \notin DOMAIN Buffers /\ InputOf(d) \in Handles
  BY <1>1, HandleSpace DEF Handles
<1> QED
  BY <1>1, <1>3, <1>4, HandleSpace, CellSpace DEF Elements

LEMMA SlotCopiesAre ==
  ASSUME NEW d \in Uploading, NEW bytes \in [1 .. Width -> Nat]
  PROVE  /\ SlotCopies(d, bytes) \in Seq(FillsOf(Cells)) /\ Len(SlotCopies(d, bytes)) = Width
         /\ Width \in Nat
         /\ \A i \in 1 .. Width : SlotCopies(d, bytes)[i] = Fill(bytes[i], SlotHeap(d), {<<InputOf(d), i - 1>>})
         /\ AllTouched(SlotCopies(d, bytes)) \subseteq {SlotHeap(d), InputOf(d)}
         /\ \A i \in 1 .. Width : ResourcesOf(SlotCopies(d, bytes)[i].out) \subseteq {InputOf(d)}
<1> DEFINE x == InputOf(d)
           f == SlotCopies(d, bytes)
<1>1. Width \in Nat
  BY NativeAssumption
<1>2. ASSUME NEW i \in 1 .. Width
      PROVE  /\ Fill(bytes[i], SlotHeap(d), {<<x, i - 1>>}) \in FillsOf(Cells)
             /\ Touched(Fill(bytes[i], SlotHeap(d), {<<x, i - 1>>})) = {SlotHeap(d), x}
             /\ ResourcesOf(Fill(bytes[i], SlotHeap(d), {<<x, i - 1>>}).out) = {x}
  <2>1. <<x, i - 1>> \in Cells /\ <<x, i - 1>>[1] = x
    <3>1. i - 1 \in 0 .. Width - 1
      BY <1>1
    <3> QED
      BY <3>1, InputSpace DEF Cells
  <2>2. bytes[i] \in Nat /\ SlotHeap(d) \in Nat
    BY InputSpace
  <2> DEFINE o == {<<x, i - 1>>}
             b == bytes[i]
             h == SlotHeap(d)
  <2>3. o \in SUBSET Cells /\ ResourcesOf(o) = {x}
    BY <2>1 DEF ResourcesOf
  <2> HIDE DEF o, b, h, x
  <2>4. Fill(b, h, o) \in FillsOf(Cells)
    BY <2>2, <2>3 DEF FillsOf, b, h
  <2>5. Touched(Fill(b, h, o)) = {h} \cup ResourcesOf(o) /\ Fill(b, h, o).out = o
    BY DEF Fill, Touched
  <2> QED
    BY <2>3, <2>4, <2>5 DEF o, b, h
<1>3. f = [i \in 1 .. Width |-> Fill(bytes[i], SlotHeap(d), {<<x, i - 1>>})]
  BY DEF SlotCopies
<1> HIDE DEF f, x
<1>4. f \in [1 .. Width -> FillsOf(Cells)]
  BY <1>2, <1>3
<1>5. f \in Seq(FillsOf(Cells)) /\ Len(f) = Width /\ DOMAIN f = 1 .. Width
  BY <1>1, <1>4, Mapped
<1>6. AllTouched(f) \subseteq {SlotHeap(d), x}
  BY <1>2, <1>3, <1>5 DEF AllTouched
<1>7. \A i \in 1 .. Width : ResourcesOf(f[i].out) \subseteq {x}
  BY <1>2, <1>3
<1> QED
  BY <1>1, <1>3, <1>5, <1>6, <1>7 DEF f, x

\* The list of a kernel copies nothing into a buffer.
LEMMA KernelListCopiesNone ==
  ASSUME NEW args \in Seq(Handles), Len(args) > 1, NEW kind, Different(kind, args),
         NEW st, st[Last(args)] = "COMMON", \A h \in Range(Entered(kind, args)) : st[h] = "COMMON"
  PROVE  \E T : KernelList(kind, args, st) \in Seq(T) /\ \A c \in T : c.op # "fill"
<1> DEFINE y == Res(Last(args))
           c == Run(0, InCells(args), OutCells(args))
           T == TransitionsOn(Resources) \cup {c}
           a == <<c>>
<1>0. y = Res(Last(args)) /\ y \in Resources
  BY FrontLast, CellSpace
<1> HIDE DEF y
<1>1. PICK ins \in Seq(Resources) : KernelList(kind, args, st) = Bracketed(ins, y, c)
  <2>1. KernelForm(args, y, KernelList(kind, args, st))
    BY <1>0, KernelListForm
  <2> QED
    BY <2>1 DEF KernelForm
<1> DEFINE e == Enters(ins, y)
           l == Leaves(ins, y)
           s == e \o a
<1>3. e \in Seq(TransitionsOn(Resources)) /\ l \in Seq(TransitionsOn(Resources))
  BY <1>0, EntersIs, LeavesIs
<1>4. \A z \in T : z.op # "fill"
  <2>1. c.op = "run"
    BY DEF Run
  <2>2. \A z \in TransitionsOn(Resources) : z.op = "transition"
    BY BarrierFields DEF TransitionsOn
  <2> QED
    BY <2>1, <2>2
<1>5. a \in Seq({c})
  OBVIOUS
<1> HIDE DEF e, l, c, a
<1>6. e \in Seq(T) /\ l \in Seq(T) /\ a \in Seq(T)
  BY <1>3, <1>5, SeqMonotonic
<1>7. s \in Seq(T)
  BY <1>6, ConcatProperties
<1> HIDE DEF s
<1>8. s \o l \in Seq(T)
  BY <1>6, <1>7, ConcatProperties
<1> QED
  BY <1>1, <1>4, <1>8 DEF s, e, l, a, Bracketed

\* The operands of the convolution a prepared upload ends with.
LEMMA UploadOperands ==
  ASSUME NEW d \in Uploading, NEW args, args = Dispatches[d].args,
         NEW full, full = <<InputOf(d)>> \o args
  PROVE  /\ args \in Seq(Handles) /\ Len(args) > 1 /\ args \in Seq(DOMAIN Buffers)
         /\ full \in Seq(Handles) /\ Len(full) > 1 /\ Different("conv", full)
         /\ OutCells(full) = OutCells(args) /\ InCells(full) = Elements(InputOf(d)) \cup InCells(args)
         /\ Range(full) = {InputOf(d)} \cup Range(args) /\ Last(full) = Last(args)
<1> DEFINE x == InputOf(d)
           a == <<x>>
<1>1. d \in DOMAIN Dispatches /\ Dispatches[d].kind = "upload"
  BY DEF Uploading
<1>2. Operands("upload", args)
  BY <1>1, CallsAssumption
<1>3. args \in Seq(DOMAIN Buffers) /\ Len(args) > 1
  BY <1>2 DEF Operands
<1>4. args \in Seq(Handles)
  BY <1>3, SeqMonotonic DEF Handles
<1>5. x \in Handles /\ Res(x) = x /\ x \notin DOMAIN Buffers
  BY InputSpace
<1>6. a \in Seq(Handles) /\ Len(a) = 1 /\ a[1] = x
  BY <1>5
<1> HIDE DEF a, x
<1>7. full \in Seq(Handles) /\ Adjoined(a, args, full)
  BY <1>4, <1>6, Joined DEF a, x
<1>8. /\ Len(args) \in Nat /\ Len(full) = Len(args) + 1 /\ Len(full) > 1
      /\ DOMAIN args = 1 .. Len(args) /\ DOMAIN full = 1 .. Len(full)
      /\ \A i \in 1 .. Len(args) : args[i] \in DOMAIN Buffers
  BY <1>3, <1>6, <1>7, LenProperties, ElementOfSeq DEF Adjoined
<1>9. full[1] = x /\ \A i \in 1 .. Len(full) : i = 1 \/ (i - 1 \in 1 .. Len(args) /\ full[i] = args[i - 1])
  BY <1>6, <1>7, <1>8 DEF Adjoined
<1>10. \A i, j \in 1 .. Len(args) : i < j => Res(args[i]) # Res(args[j])
  <2>1. \A i \in 1 .. Len(args) : Res(args[i]) = Buffers[args[i]].res
    BY <1>8, HandleSpace
  <2> QED
    BY <1>2, <2>1 DEF Operands
<1>11. \A i \in 1 .. Len(args) : Res(args[i]) \in DOMAIN Buffers
  BY <1>8, HandleSpace
<1>12. Different("conv", full)
  <2> SUFFICES ASSUME NEW i \in 1 .. Len(full), NEW j \in 1 .. Len(full), i < j,
                      Res(full[i]) = Res(full[j])
               PROVE  FALSE
    BY DEF Different
  <2>1. j - 1 \in 1 .. Len(args) /\ full[j] = args[j - 1]
    BY <1>8, <1>9
  <2>2. CASE i = 1
    BY <1>5, <1>9, <1>11, <2>1, <2>2
  <2>3. CASE i # 1
    <3>1. i - 1 \in 1 .. Len(args) /\ full[i] = args[i - 1] /\ i - 1 < j - 1
      BY <1>8, <1>9, <2>3
    <3> QED
      BY <1>10, <2>1, <3>1
  <2> QED
    BY <2>2, <2>3
<1>13. Last(full) = Last(args)
  <2>1. Last(full) = full[Len(full)] /\ Last(args) = args[Len(args)]
    BY <1>3, <1>4, <1>7, <1>8, FrontLast
  <2> QED
    BY <1>3, <1>8, <1>9, <2>1
<1>14. Range(Front(full)) = {x} \cup Range(Front(args))
  <2> DEFINE F == Front(full)
             G == Front(args)
  <2>1. /\ Len(F) = Len(full) - 1 /\ F \in Seq(Handles)
        /\ \A i \in 1 .. Len(full) - 1 : F[i] = full[i]
    BY <1>7, <1>8, FrontLast
  <2>2. /\ Len(G) = Len(args) - 1 /\ G \in Seq(Handles)
        /\ \A i \in 1 .. Len(args) - 1 : G[i] = args[i]
    BY <1>3, <1>4, FrontLast
  <2> HIDE DEF F, G
  <2>3. DOMAIN F = 1 .. Len(args) /\ DOMAIN G = 1 .. Len(args) - 1
    BY <1>8, <2>1, <2>2, LenProperties
  <2>4. ASSUME NEW z \in Range(F) PROVE z \in {x} \cup Range(G)
    <3>1. PICK i \in 1 .. Len(args) : z = F[i]
      BY <2>3, <2>4 DEF Range
    <3>2. z = full[i] /\ i \in 1 .. Len(full)
      BY <1>8, <2>1, <3>1
    <3>3. CASE i = 1
      BY <1>9, <3>2, <3>3
    <3>4. CASE i # 1
      <4>1. z = args[i - 1] /\ i - 1 \in 1 .. Len(args) - 1
        BY <1>8, <1>9, <3>1, <3>2, <3>4
      <4> QED
        BY <2>2, <2>3, <4>1 DEF Range
    <3> QED
      BY <3>3, <3>4
  <2>5. x \in Range(F)
    <3>1. 1 \in 1 .. Len(args) /\ 1 \in 1 .. Len(full) - 1
      BY <1>3, <1>8
    <3>2. F[1] = x
      BY <1>9, <2>1, <3>1
    <3> QED
      BY <2>3, <3>1, <3>2 DEF Range
  <2>6. ASSUME NEW z \in Range(G) PROVE z \in Range(F)
    <3>1. PICK i \in 1 .. Len(args) - 1 : z = G[i]
      BY <2>3, <2>6 DEF Range
    <3>2. i + 1 \in 1 .. Len(args) /\ F[i + 1] = z
      BY <1>6, <1>7, <1>8, <2>1, <2>2, <3>1 DEF Adjoined
    <3> QED
      BY <2>3, <3>2 DEF Range
  <2> QED
    BY <2>4, <2>5, <2>6 DEF F, G
<1>15. InCells(full) = Elements(x) \cup InCells(args)
  BY <1>14 DEF InCells
<1>16. Range(full) = {x} \cup Range(args)
  <2>1. Range(full) = Range(Front(full)) \cup {Last(full)}
    BY <1>7, <1>8, FrontLast
  <2>2. Range(args) = Range(Front(args)) \cup {Last(args)}
    BY <1>3, <1>4, FrontLast
  <2> QED
    BY <1>13, <1>14, <2>1, <2>2
<1> QED
  BY <1>3, <1>4, <1>7, <1>8, <1>12, <1>13, <1>15, <1>16 DEF OutCells, x

LEMMA CommonStates ==
  ASSUME NEW h \in Handles
  PROVE  Common[h] = "COMMON"
BY DEF Common

\* The loaded list: the copies of the slot between two barriers, then the kernel.
LEMMA LoadedUpload ==
  ASSUME NEW d \in Uploading, NEW bytes, NEW full, full = <<InputOf(d)>> \o Dispatches[d].args
  PROVE  Load(UploadConvList(d), bytes) =
           (<<Barrier(InputOf(d), "COMMON", "COPY_DEST")>> \o SlotCopies(d, bytes)
              \o <<Barrier(InputOf(d), "COPY_DEST", "COMMON")>>)
           \o KernelList("conv", full, Common)
<1> DEFINE x     == InputOf(d)
           b1    == Barrier(x, "COMMON", "COPY_DEST")
           b2    == Barrier(x, "COPY_DEST", "COMMON")
           e     == <<b1>>
           l     == <<b2>>
           blank == [i \in 1 .. Width |-> 0]
           f     == SlotCopies(d, blank)
           k     == KernelList("conv", full, Common)
           ef    == e \o f
           efl   == ef \o l
<1>1. UploadConvList(d) = efl \o k
  BY DEF UploadConvList, SlotCopies
<1>2. full \in Seq(Handles) /\ Len(full) > 1 /\ Different("conv", full)
  BY UploadOperands
<1>3. PICK K : k \in Seq(K) /\ \A c \in K : c.op # "fill"
  <2>1. Last(full) \in Handles
    BY <1>2, FrontLast
  <2>2. Entered("conv", full) \in Seq(Handles)
    BY <1>2, EnteredIs
  <2>3. Range(Entered("conv", full)) \subseteq Handles
    BY <2>2, LenProperties, ElementOfSeq DEF Range
  <2>4. Common[Last(full)] = "COMMON" /\ \A h \in Range(Entered("conv", full)) : Common[h] = "COMMON"
    BY <2>1, <2>3, CommonStates
  <2> QED
    BY <1>2, <2>4, KernelListCopiesNone
<1>4. f \in Seq(FillsOf(Cells)) /\ Width \in Nat
  BY SlotCopiesAre
<1>5. b1.op # "fill" /\ b2.op # "fill"
  BY BarrierFields
<1>6. e \in Seq({b1}) /\ l \in Seq({b2})
  OBVIOUS
<1> DEFINE T == {b1, b2} \cup FillsOf(Cells) \cup K
<1>7. Load(e, bytes) = e /\ Load(l, bytes) = l /\ Load(k, bytes) = k
  <2> HIDE DEF e, l, k, b1, b2
  <2>1. Load(e, bytes) = e
    BY <1>5, <1>6, LoadNone
  <2>2. Load(l, bytes) = l
    BY <1>5, <1>6, LoadNone
  <2>3. Load(k, bytes) = k
    BY <1>3, LoadNone
  <2> QED
    BY <2>1, <2>2, <2>3
<1>8. Load(f, bytes) = SlotCopies(d, bytes)
  <2>1. f = [i \in 1 .. Width |-> Fill(0, SlotHeap(d), {<<x, i - 1>>})]
    BY DEF SlotCopies
  <2>2. ASSUME NEW i \in 1 .. Width
        PROVE  Put(Fill(0, SlotHeap(d), {<<x, i - 1>>}), bytes) = Fill(bytes[i], SlotHeap(d), {<<x, i - 1>>})
    <3> DEFINE o == {<<x, i - 1>>}
               c == Fill(0, SlotHeap(d), o)
    <3>1. \A z : (CHOOSE v \in {z} : TRUE) = z
      OBVIOUS
    <3>2. (CHOOSE v \in o : TRUE) = <<x, i - 1>>
      BY <3>1
    <3>3. (i - 1) + 1 = i /\ <<x, i - 1>>[2] = i - 1
      BY <1>4
    <3> HIDE DEF o
    <3>4. c.op = "fill" /\ c.out = o
      BY DEF Fill
    <3>5. Put(c, bytes) = [c EXCEPT !.by = bytes[(CHOOSE v \in o : TRUE)[2] + 1]]
      BY <3>4 DEF Put
    <3>6. (CHOOSE v \in o : TRUE)[2] + 1 = i
      BY <3>2, <3>3
    <3>7. Put(c, bytes) = [c EXCEPT !.by = bytes[i]]
      BY <3>5, <3>6
    <3>8. \A v : [c EXCEPT !.by = v] = Fill(v, SlotHeap(d), o)
      BY DEF Fill
    <3> QED
      BY <3>7, <3>8 DEF o
  <2>3. DOMAIN f = 1 .. Width
    BY <2>1
  <2>4. \A i \in 1 .. Width : Put(f[i], bytes) = Fill(bytes[i], SlotHeap(d), {<<x, i - 1>>})
    BY <2>1, <2>2
  <2> HIDE DEF f, x
  <2> QED
    BY <2>3, <2>4 DEF Load, SlotCopies, x
<1> HIDE DEF e, l, f, k, b1, b2
<1>9. e \in Seq(T) /\ l \in Seq(T) /\ f \in Seq(T) /\ k \in Seq(T)
  BY <1>3, <1>4, <1>6, SeqMonotonic
<1> HIDE DEF T
<1>10. ef \in Seq(T) /\ Load(ef, bytes) = Load(e, bytes) \o Load(f, bytes)
  <2>1. e \o f \in Seq(T)
    BY <1>9, ConcatProperties
  <2>2. Load(e \o f, bytes) = Load(e, bytes) \o Load(f, bytes)
    BY ONLY <1>9, LoadConcat
  <2> QED
    BY <2>1, <2>2
<1> HIDE DEF ef
<1>11. efl \in Seq(T) /\ Load(efl, bytes) = Load(ef, bytes) \o Load(l, bytes)
  <2>1. ef \o l \in Seq(T)
    BY <1>9, <1>10, ConcatProperties
  <2>2. Load(ef \o l, bytes) = Load(ef, bytes) \o Load(l, bytes)
    <3>1. ef \in Seq(T) /\ l \in Seq(T)
      BY <1>9, <1>10
    <3> QED
      BY ONLY <3>1, LoadConcat
  <2> QED
    BY <2>1, <2>2
<1> HIDE DEF efl
<1>12. Load(efl \o k, bytes) = Load(efl, bytes) \o Load(k, bytes)
  <2>1. efl \in Seq(T) /\ k \in Seq(T)
    BY <1>9, <1>11
  <2> QED
    BY ONLY <2>1, LoadConcat
<1>13. Load(UploadConvList(d), bytes) = ((e \o SlotCopies(d, bytes)) \o l) \o k
  BY <1>1, <1>7, <1>8, <1>10, <1>11, <1>12
<1> QED
  BY <1>13 DEF e, l, k, b1, b2

\* An upload whose slot holds the bytes of its own call computes what the call means.
Uploads(cmds, inputs, in, out, bytes) ==
  \A m, by, n : Ready(m) /\ by \in Nat /\ n = Ran(m, cmds, by) /\ (\A i \in 1 .. Width : bytes[i] = by) =>
    \A c \in Cells \ inputs : n.mem[c] = Computed(Cells, m.mem, in, out, by)[c]

LEMMA UploadListRuns ==
  ASSUME NEW d \in Uploading, NEW args, args = Dispatches[d].args,
         NEW bytes \in [1 .. Width -> Nat],
         NEW cmds, cmds = Load(UploadConvList(d), bytes)
  PROVE  /\ Clean(cmds, TRUE) /\ Keeps(cmds, OutCells(args) \cup Elements(InputOf(d)))
         /\ AllTouched(cmds) \subseteq {Res(h) : h \in Range(args)} \cup {InputOf(d), SlotHeap(d)}
         /\ Uploads(cmds, Elements(InputOf(d)), InCells(args), OutCells(args), bytes)
<1> DEFINE x    == InputOf(d)
           X    == Elements(x)
           e    == <<Barrier(x, "COMMON", "COPY_DEST")>>
           l    == <<Barrier(x, "COPY_DEST", "COMMON")>>
           f    == SlotCopies(d, bytes)
           full == <<InputOf(d)>> \o Dispatches[d].args
           k    == KernelList("conv", full, Common)
           u    == e \o f \o l
           in   == InCells(args)
           out  == OutCells(args)
           T    == TransitionsOn(Resources) \cup FillsOf(Cells)
<1>1. /\ x \in Resources /\ x \in Handles /\ Res(x) = x /\ x \notin DOMAIN Buffers
      /\ X = {x} \X (0 .. Width - 1) /\ X \subseteq Cells
  BY InputSpace
<1>2. /\ e \in Seq(TransitionsOn(Resources)) /\ l \in Seq(TransitionsOn(Resources))
      /\ Closes(e, l) /\ Square(e, l) /\ Barred(e) = {x} /\ Barred(l) = {x}
      /\ \A cells : ResourcesOf(cells) \subseteq {x} => LeadsTo(e, cells, "COPY_DEST")
  <2>1. /\ e = TurnOf(x, "COPY_DEST") /\ l = BackOf(x, "COPY_DEST")
        /\ "COPY_DEST" \in States
    BY DEF States, TurnOf, BackOf
  <2> HIDE DEF x, e, l
  <2>2. Pair(Resources, x, "COPY_DEST", e, l)
    BY <1>1, <2>1, BarrierPair
  <2> QED
    BY <1>1, <2>2 DEF Pair
<1>3. /\ f \in Seq(FillsOf(Cells)) /\ Len(f) = Width /\ Width \in Nat
      /\ \A i \in 1 .. Width : f[i] = Fill(bytes[i], SlotHeap(d), {<<x, i - 1>>})
      /\ AllTouched(f) \subseteq {SlotHeap(d), x}
      /\ \A i \in 1 .. Width : ResourcesOf(f[i].out) \subseteq {x}
  BY SlotCopiesAre
<1>4. /\ args \in Seq(Handles) /\ Len(args) > 1 /\ args \in Seq(DOMAIN Buffers)
      /\ full \in Seq(Handles) /\ Len(full) > 1 /\ Different("conv", full)
      /\ OutCells(full) = out /\ InCells(full) = X \cup in
      /\ Range(full) = {x} \cup Range(args)
  BY UploadOperands
<1>5. cmds = u \o k
  BY LoadedUpload
<1>6. /\ Clean(k, TRUE) /\ Makes(k, X \cup in, out)
      /\ AllTouched(k) \subseteq {Res(h) : h \in Range(full)}
  <2> HIDE DEF full, X, in, out
  <2>1. Last(full) \in Handles
    BY <1>4, FrontLast
  <2>2. Entered("conv", full) \in Seq(Handles)
    BY <1>4, EnteredIs
  <2>3. Range(Entered("conv", full)) \subseteq Handles
    BY <2>2, LenProperties, ElementOfSeq DEF Range
  <2>4. Common[Last(full)] = "COMMON" /\ \A h \in Range(Entered("conv", full)) : Common[h] = "COMMON"
    BY <2>1, <2>3, CommonStates
  <2>5. /\ Clean(k, TRUE) /\ Makes(k, InCells(full), OutCells(full))
        /\ AllTouched(k) \subseteq {Res(h) : h \in Range(full)}
    BY <1>4, <2>4, KernelListRuns
  <2> QED
    BY <1>4, <2>5
<1>7. PICK K : k \in Seq(K)
  <2> HIDE DEF full
  <2>1. Last(full) \in Handles
    BY <1>4, FrontLast
  <2>2. Entered("conv", full) \in Seq(Handles)
    BY <1>4, EnteredIs
  <2>3. Range(Entered("conv", full)) \subseteq Handles
    BY <2>2, LenProperties, ElementOfSeq DEF Range
  <2>4. Common[Last(full)] = "COMMON" /\ \A h \in Range(Entered("conv", full)) : Common[h] = "COMMON"
    BY <2>1, <2>3, CommonStates
  <2> QED
    BY <1>4, <2>4, KernelListCopiesNone
<1> HIDE DEF x, X, e, l, f, full, k, in, out
<1>8. u \in Seq(T) /\ AllTouched(u) \subseteq {SlotHeap(d), x}
  <2> DEFINE ef == e \o f
  <2>1. e \in Seq(T) /\ l \in Seq(T) /\ f \in Seq(T)
    BY <1>2, <1>3, SeqMonotonic
  <2> HIDE DEF T
  <2>2. ef \in Seq(T)
    BY <2>1, ConcatProperties
  <2>3. AllTouched(u) \subseteq Barred(e) \cup Barred(l) \cup AllTouched(f)
    BY <1>2, <1>3, CopyTouches
  <2> HIDE DEF ef
  <2>4. ef \o l \in Seq(T)
    BY <2>1, <2>2, ConcatProperties
  <2> QED
    BY <1>2, <1>3, <2>3, <2>4 DEF ef
<1> HIDE DEF u
<1> DEFINE V == T \cup K
<1>9. u \in Seq(V) /\ k \in Seq(V)
  BY <1>7, <1>8, SeqMonotonic
<1> HIDE DEF V
<1>10. AllTouched(cmds) = AllTouched(u) \cup AllTouched(k)
  BY <1>5, <1>9, TouchedConcat
<1>11. AllTouched(cmds) \subseteq {Res(h) : h \in Range(args)} \cup {x, SlotHeap(d)}
  BY <1>1, <1>4, <1>6, <1>8, <1>10
<1> DEFINE W(m, by, p, n) ==
             /\ Ready(p) /\ p.live = m.live /\ p.faults = m.faults
             /\ Deposited(Cells, p.mem, m.mem, f, by)
             /\ Ready(n) /\ n.live = m.live /\ n.faults = m.faults
             /\ n.mem = Computed(Cells, p.mem, X \cup in, out, by)
<1>12. ASSUME NEW m, NEW by, NEW n, Ready(m), by \in Nat, n = Ran(m, cmds, by)
       PROVE  \E p : W(m, by, p, n)
  <2> DEFINE p == Ran(m, u, by)
  <2>1. n = Ran(p, k, by)
    BY <1>5, <1>9, <1>12, RanConcat
  <2>2. m \in Machine(Resources, Cells) /\ AtRest(Resources, m) /\ p = Ran(m, e \o f \o l, by)
    BY <1>12 DEF Ready, u
  <2>3. \A i \in 1 .. Len(f) : LeadsTo(e, f[i].out, "COPY_DEST")
    BY <1>2, <1>3
  <2> HIDE DEF p
  <2>4. /\ p \in Machine(Resources, Cells) /\ AtRest(Resources, p) /\ p.live = m.live
        /\ p.faults = m.faults /\ Deposited(Cells, p.mem, m.mem, f, by)
    BY ONLY <1>2, <1>3, <1>12, <2>2, <2>3, BracketFills
  <2>5. Ready(p)
    BY <2>4 DEF Ready
  <2>6. Ready(n) /\ n.live = p.live /\ n.faults = p.faults
    BY <1>6, <1>12, <2>1, <2>5 DEF Clean
  <2>7. n.mem = Computed(Cells, p.mem, X \cup in, out, by)
    BY <1>6, <1>12, <2>1, <2>5 DEF Makes
  <2> QED
    BY <2>4, <2>5, <2>6, <2>7
<1>13. ASSUME NEW m, NEW p, NEW by, NEW n, W(m, by, p, n)
       PROVE  /\ \A c \in Cells \ X : p.mem[c] = m.mem[c]
              /\ (\A i \in 1 .. Width : bytes[i] = by) => \A c \in X : p.mem[c] = {by}
  <2>1. ASSUME NEW c \in Cells
        PROVE  \/ (\A i \in 1 .. Width : c # <<x, i - 1>>) /\ p.mem[c] = m.mem[c]
               \/ \E i \in 1 .. Width : c = <<x, i - 1>> /\ p.mem[c] = {Caller(f[i], by)}
    <3>1. \A i \in 1 .. Width : f[i].out = {<<x, i - 1>>}
      BY <1>3 DEF Fill
    <3> QED
      BY <1>3, <1>13, <3>1 DEF Deposited
  <2>2. \A c \in X : \E i \in 1 .. Width : c = <<x, i - 1>>
    <3> SUFFICES ASSUME NEW j \in 0 .. Width - 1 PROVE \E i \in 1 .. Width : <<x, j>> = <<x, i - 1>>
      BY <1>1
    <3>1. j + 1 \in 1 .. Width /\ (j + 1) - 1 = j
      BY <1>3
    <3> QED
      BY <3>1
  <2>3. \A i \in 1 .. Width : <<x, i - 1>> \in X
    <3>1. \A i \in 1 .. Width : i - 1 \in 0 .. Width - 1
      BY <1>3
    <3> QED
      BY <1>1, <3>1
  <2>4. \A i \in 1 .. Width : bytes[i] = by => Caller(f[i], by) = by
    BY <1>3 DEF Caller, Fill
  <2> QED
    BY <1>1, <2>1, <2>2, <2>3, <2>4
<1>14. Clean(cmds, TRUE)
  BY <1>12 DEF Clean
<1> HIDE DEF W
<1>15. Keeps(cmds, out \cup X)
  <2> SUFFICES ASSUME NEW m, NEW by, NEW n, Ready(m), by \in Nat, n = Ran(m, cmds, by),
                      NEW c \in Cells \ (out \cup X)
               PROVE  n.mem[c] = m.mem[c]
    BY DEF Keeps
  <2>1. PICK p : W(m, by, p, n)
    BY <1>12
  <2>2. p.mem[c] = m.mem[c]
    BY <1>13, <2>1
  <2> QED
    BY <2>1, <2>2 DEF Computed, W
<1>16. Uploads(cmds, X, in, out, bytes)
  <2> SUFFICES ASSUME NEW m, NEW by, NEW n, Ready(m), by \in Nat, n = Ran(m, cmds, by),
                      \A i \in 1 .. Width : bytes[i] = by, NEW c \in Cells \ X
               PROVE  n.mem[c] = Computed(Cells, m.mem, in, out, by)[c]
    BY DEF Uploads
  <2>1. PICK p : W(m, by, p, n)
    BY <1>12
  <2>2. (\A z \in Cells \ X : p.mem[z] = m.mem[z]) /\ \A z \in X : p.mem[z] = {by}
    BY <1>13, <2>1
  <2>3. in \subseteq Cells \ X
    <3>1. in \subseteq Cells
      BY <1>4, OperandCells DEF in
    <3>2. \A h \in Range(Front(args)) : \A z \in Elements(h) : z[1] # x
      <4>1. Range(Front(args)) \subseteq DOMAIN Buffers
        <5>1. Front(args) \in Seq(DOMAIN Buffers)
          BY <1>4, FrontLast
        <5> QED
          BY <5>1, LenProperties, ElementOfSeq DEF Range
      <4> QED
        BY <1>1, <4>1, CellSpace, HandleSpace DEF Handles
    <3>3. \A z \in X : z[1] = x
      BY <1>1
    <3> QED
      BY <3>1, <3>2, <3>3 DEF in, InCells
  <2>4. (UNION {p.mem[z] : z \in X \cup in}) \cup {by} = (UNION {m.mem[z] : z \in in}) \cup {by}
    <3>1. \A z \in in : p.mem[z] = m.mem[z]
      BY <2>2, <2>3
    <3> QED
      BY <2>2, <3>1
  <2> QED
    BY <2>1, <2>2, <2>4 DEF Computed, W
<1> QED
  BY <1>11, <1>14, <1>15, <1>16 DEF x, X, in, out

------------------------------------------------------------------------------
(* The lists of graphs                                                        *)

LEMMA AroundIs ==
  ASSUME NEW ins \in Seq(Resources), NEW y \in Resources,
         NEW c \in Commands(Resources, Cells)
  PROVE  /\ Around(ins, y, c) = Bracketed(ins, y, c)
         /\ Around(ins, y, c) \in Seq(Commands(Resources, Cells))
<1> DEFINE T == Commands(Resources, Cells)
           n == Len(ins)
           q == Reverse(ins)
           E == [i \in 1 .. n |-> Barrier(ins[i], "COMMON", "SRV")]
           L == [i \in 1 .. n |-> Barrier(q[i], "SRV", "COMMON")]
           u == Barrier(y, "COMMON", "UAV")
           v == Barrier(y, "UAV", "COMMON")
           a == <<u>>
           b == <<v>>
           x == <<c>>
           E1 == E \o a
           X == E1 \o x
           L1 == b \o L
<1>1. n \in Nat /\ DOMAIN ins = 1 .. n /\ \A i \in 1 .. n : ins[i] \in Resources
  BY LenProperties, ElementOfSeq
<1>2. q \in Seq(Resources) /\ Len(q) = n
  BY ReverseIs
<1>3. \A i \in 1 .. n : q[i] \in Resources
  BY <1>2, ElementOfSeq
<1>4. Around(ins, y, c) = E \o <<u, c, v>> \o L
  BY <1>1 DEF Around
<1> HIDE DEF q, n
<1>5. E \in Seq(TransitionsOn(Resources)) /\ L \in Seq(TransitionsOn(Resources))
  <2>1. E \in Seq(TransitionsOn(Resources))
    BY <1>1, BarriersAreTransitions DEF States, n
  <2>2. L \in Seq(TransitionsOn(Resources))
    BY <1>1, <1>2, <1>3, BarriersAreTransitions DEF States
  <2> QED
    BY <2>1, <2>2
<1>6. u \in T /\ v \in T /\ TransitionsOn(Resources) \subseteq T /\ c \in T
  BY DEF TransitionsOn, States, Commands
<1>7. Enters(ins, y) = E1 /\ Leaves(ins, y) = L1
  BY DEF Enters, Leaves, n, q
<1> HIDE DEF T, u, v, E, L
<1>8. E \in Seq(T) /\ L \in Seq(T)
  BY <1>5, <1>6, SeqMonotonic
<1>9. a \in Seq(T) /\ b \in Seq(T) /\ x \in Seq(T)
  BY <1>6
<1>17. <<u, c, v>> = a \o (x \o b)
  <2>1. <<u, c, v>> = (a \o x) \o b
    BY Three
  <2> HIDE DEF a, x, b
  <2>2. (a \o x) \o b = a \o (x \o b)
    BY <1>9, ConcatAssociative
  <2> QED
    BY <2>1, <2>2
<1> HIDE DEF a, b, x
<1>10. E1 \in Seq(T) /\ L1 \in Seq(T)
  BY <1>8, <1>9, ConcatProperties
<1>11. x \o b \in Seq(T)
  BY <1>9, ConcatProperties
<1>12. E \o (a \o (x \o b)) = E1 \o (x \o b)
  <2> DEFINE z == x \o b
  <2>1. z \in Seq(T)
    BY <1>11
  <2> HIDE DEF z
  <2>2. (E \o a) \o z = E \o (a \o z)
    <3>1. E \in Seq(T) /\ a \in Seq(T) /\ z \in Seq(T)
      BY <1>8, <1>9, <2>1
    <3> QED
      BY ONLY <3>1, ConcatAssociative
  <2> QED
    BY <2>2 DEF z
<1> HIDE DEF E1, L1
<1>13. E1 \o (x \o b) = X \o b /\ X \in Seq(T)
  BY <1>9, <1>10, ConcatProperties, ConcatAssociative
<1> HIDE DEF X
<1>14. (X \o b) \o L = X \o (b \o L)
  BY <1>8, <1>9, <1>13, ConcatAssociative
<1>15. Around(ins, y, c) = X \o L1
  BY <1>4, <1>12, <1>13, <1>14, <1>17 DEF L1
<1>16. X \o L1 \in Seq(T)
  BY <1>10, <1>13, ConcatProperties
<1> QED
  BY <1>7, <1>15, <1>16 DEF X, x, T, Bracketed

LEMMA AroundListRuns ==
  ASSUME NEW ins \in Seq(Resources), NEW y \in Resources,
         NEW in \in SUBSET Cells, NEW out \in SUBSET Cells,
         ResourcesOf(in) \subseteq Range(ins), ResourcesOf(out) \subseteq {y},
         NEW c, c = Run(0, in, out), NEW cmds, cmds = Around(ins, y, c)
  PROVE  /\ Clean(cmds, AllDiffer(ins, y)) /\ Makes(cmds, in, out)
         /\ AllTouched(cmds) \subseteq Range(ins) \cup {y}
         /\ cmds \in Seq(Commands(Resources, Cells))
<1>1. c \in Commands(Resources, Cells)
  <2>1. PICK k \in Nat : c = Run(k, in, out)
    OBVIOUS
  <2> QED
    BY <2>1 DEF Commands, RunsOf
<1>2. Touched(c) \subseteq Range(ins) \cup {y}
  <2>1. Touched(c) = ResourcesOf(in \cup out)
    BY DEF Run, Touched
  <2>2. ResourcesOf(in \cup out) = ResourcesOf(in) \cup ResourcesOf(out)
    BY DEF ResourcesOf
  <2> QED
    BY <2>1, <2>2
<1>3. cmds = Bracketed(ins, y, c) /\ cmds \in Seq(Commands(Resources, Cells))
  BY <1>1, AroundIs
<1>4. AllTouched(cmds) \subseteq Range(ins) \cup {y} \cup Touched(c)
  BY <1>3, AroundTouches
<1>5. ASSUME NEW m, NEW by, NEW n, Ready(m), by \in Nat, n = Ran(m, cmds, by)
      PROVE  /\ Effected(Resources, Cells, m, in, out, by, n)
             /\ AllDiffer(ins, y) => n.faults = m.faults
  <2>1. m \in Machine(Resources, Cells) /\ AtRest(Resources, m)
    BY <1>5 DEF Ready
  <2>2. n = Ran(m, Bracketed(ins, y, c), by) /\ c = Run(0, in, out)
    BY <1>3, <1>5
  <2>3. in \in SUBSET Cells /\ out \in SUBSET Cells /\ ins \in Seq(Resources) /\ y \in Resources
        /\ ResourcesOf(in) \subseteq Range(ins) /\ ResourcesOf(out) \subseteq {y}
    OBVIOUS
  <2>4. by \in Nat
    BY <1>5
  <2> QED
    BY ONLY <2>1, <2>2, <2>3, <2>4, AroundRuns
<1>6. Clean(cmds, AllDiffer(ins, y)) /\ Makes(cmds, in, out)
  <2>1. Clean(cmds, AllDiffer(ins, y))
    BY <1>5 DEF Clean, Effected, Ready
  <2>2. Makes(cmds, in, out)
    BY <1>5 DEF Makes, Effected
  <2> QED
    BY <2>1, <2>2
<1> QED
  BY <1>2, <1>3, <1>4, <1>6

\* The cells of a value of a graph.
At(g, v) == Elements(ValueOf(g, v))

LEMMA ValueSpace ==
  ASSUME NEW g \in DOMAIN Graphs
  PROVE  /\ \A v \in Allocated(Graphs[g]) :
              /\ ValueOf(g, v) \in GraphValues(g) /\ ValueOf(g, v) \in Owned
              /\ ValueOf(g, v) \in Handles /\ ValueOf(g, v) \in Resources
              /\ Res(ValueOf(g, v)) = ValueOf(g, v) /\ ValueOf(g, v) \notin DOMAIN Buffers
              /\ At(g, v) = {ValueOf(g, v)} \X (0 .. Width - 1) /\ At(g, v) \subseteq Cells
              /\ ResourcesOf(At(g, v)) \subseteq {ValueOf(g, v)}
              /\ \A x \in At(g, v) : x[1] = ValueOf(g, v)
         /\ \A v, w \in Allocated(Graphs[g]) : ValueOf(g, v) = ValueOf(g, w) => v = w
         /\ \A v, w \in Allocated(Graphs[g]) : v # w => At(g, v) \cap At(g, w) = {}
<1>1. g \in Nat /\ Allocated(Graphs[g]) \subseteq Nat
  BY NativeAssumption, GraphSpace
<1>2. ASSUME NEW v \in Allocated(Graphs[g])
      PROVE  ValueOf(g, v) \in GraphValues(g) /\ ValueOf(g, v) \in Owned
  BY DEF GraphValues, Owned
<1>3. ASSUME NEW v \in Allocated(Graphs[g])
      PROVE  /\ ValueOf(g, v) \in Handles /\ ValueOf(g, v) \in Resources
             /\ Res(ValueOf(g, v)) = ValueOf(g, v) /\ ValueOf(g, v) \notin DOMAIN Buffers
             /\ At(g, v) = {ValueOf(g, v)} \X (0 .. Width - 1) /\ At(g, v) \subseteq Cells
             /\ ResourcesOf(At(g, v)) \subseteq {ValueOf(g, v)}
  <2> DEFINE h == ValueOf(g, v)
  <2>1. h \in Owned
    BY <1>2
  <2>2. h \in Handles /\ At(g, v) = Elements(h)
    BY <2>1 DEF Handles, At
  <2> HIDE DEF h
  <2>3. Elements(h) = {h} \X (0 .. Width - 1)
    BY <2>1 DEF Elements
  <2> QED
    BY <2>1, <2>2, <2>3, HandleSpace, CellSpace DEF h
<1>4. \A v, w \in Allocated(Graphs[g]) : ValueOf(g, v) = ValueOf(g, w) => v = w
  BY <1>1 DEF ValueOf
<1>5. \A v \in Allocated(Graphs[g]) : \A x \in At(g, v) : x[1] = ValueOf(g, v)
  BY <1>3
<1>6. \A v, w \in Allocated(Graphs[g]) : v # w => At(g, v) \cap At(g, w) = {}
  BY <1>4, <1>5
<1> QED
  BY <1>2, <1>3, <1>4, <1>5, <1>6

\* The cells of a graph.
GraphCells(g) == UNION {At(g, v) : v \in Allocated(Graphs[g])}

\* Inputs written by a call make an output written by the call.
Carries(cmds, g) ==
  \A m, by, n : /\ Ready(m) /\ by \in Nat /\ n = Ran(m, cmds, by)
                /\ \A v \in 0 .. Graphs[g].inputs - 1 : \A x \in At(g, v) : m.mem[x] = {by}
    => \A x \in At(g, Graphs[g].output) : n.mem[x] = {by}

\* What is computed from cells of one call by the call.
LEMMA ComputedFromOne ==
  ASSUME NEW b, NEW in \in SUBSET Cells, NEW out, NEW by, \A x \in in : b[x] = {by}
  PROVE  \A x \in Cells \cap out : Computed(Cells, b, in, out, by)[x] = {by}
<1>1. (UNION {b[x] : x \in in}) \cup {by} = {by}
  OBVIOUS
<1> QED
  BY <1>1 DEF Computed

LEMMA FusedRuns ==
  ASSUME NEW g \in DOMAIN Graphs, NEW d, d = Graphs[g], validate_elementwise_dag(d),
         NEW cmds, cmds = CompiledList(g)
  PROVE  /\ Clean(cmds, TRUE) /\ Keeps(cmds, GraphCells(g)) /\ AllTouched(cmds) \subseteq GraphValues(g)
         /\ Carries(cmds, g)
<1> DEFINE V   == Allocated(d)
           res == [v \in V |-> ValueOf(g, v)]
           at  == [v \in V |-> Elements(ValueOf(g, v))]
           I   == 0 .. d.inputs - 1
           ins == [i \in 1 .. d.inputs |-> res[i - 1]]
           y   == ValueOf(g, d.output)
           in  == UNION {At(g, v) : v \in I}
           out == At(g, d.output)
<1>1. I \subseteq V /\ d.output \in V /\ d.inputs \in Nat /\ d.inputs \in 1 .. 10
  BY GraphSpace, NativeAssumption
<1>2. /\ \A v \in V : /\ ValueOf(g, v) \in GraphValues(g) /\ ValueOf(g, v) \in Resources
                      /\ At(g, v) \subseteq Cells /\ ResourcesOf(At(g, v)) \subseteq {ValueOf(g, v)}
      /\ \A v, w \in V : ValueOf(g, v) = ValueOf(g, w) => v = w
  BY ValueSpace
<1>3. \A v \in V : res[v] = ValueOf(g, v) /\ at[v] = At(g, v)
  BY DEF At
<1>4. \A i \in 1 .. d.inputs : i - 1 \in I
  BY <1>1
<1>5. UNION {at[v] : v \in I} = in
  <2> HIDE DEF at, I, V
  <2>1. {at[v] : v \in I} = {At(g, v) : v \in I}
    BY <1>1, <1>3
  <2> QED
    BY <2>1
<1>6. cmds = Around(ins, y, Run(0, in, out))
  <2>1. cmds = record_fused_graph(d, res, at)
    BY DEF CompiledList, GraphList
  <2>2. res[d.output] = y /\ at[d.output] = out
    BY <1>1, <1>3
  <2> HIDE DEF in, out, y, res, at
  <2> QED
    BY <1>5, <2>1, <2>2 DEF record_fused_graph
<1>7. \A i \in 1 .. d.inputs : ins[i] = ValueOf(g, i - 1)
  BY <1>1, <1>3, <1>4
<1>8. /\ ins \in Seq(Resources) /\ Len(ins) = d.inputs /\ DOMAIN ins = 1 .. d.inputs
  <2>1. ins \in [1 .. d.inputs -> Resources]
    BY <1>1, <1>2, <1>4, <1>7
  <2> HIDE DEF ins
  <2> QED
    BY <1>1, <2>1, Mapped
<1> HIDE DEF ins, V, res, at
<1>9. d.output \notin I
  <2>1. PICK n \in Range(d.nodes) : n.out = d.output
    BY DEF validate_elementwise_dag
  <2>2. PICK i \in DOMAIN d.nodes : n = d.nodes[i]
    BY <2>1 DEF Range
  <2>3. d.nodes[i].out \notin Available(d, i)
    BY <2>2 DEF validate_elementwise_dag
  <2> QED
    BY <2>1, <2>2, <2>3 DEF Available
<1>10. AllDiffer(ins, y)
  <2>1. \A i \in 1 .. d.inputs : ins[i] # y
    BY <1>1, <1>2, <1>4, <1>7, <1>9
  <2>2. ASSUME NEW i \in 1 .. d.inputs, NEW j \in 1 .. d.inputs, i # j PROVE ins[i] # ins[j]
    <3>1. i - 1 # j - 1
      BY <1>1, <2>2
    <3> QED
      BY <1>1, <1>2, <1>4, <1>7, <3>1
  <2> QED
    BY <1>8, <2>1, <2>2 DEF AllDiffer
<1>11. in \in SUBSET Cells /\ out \in SUBSET Cells /\ y \in Resources /\ ResourcesOf(out) \subseteq {y}
  BY <1>1, <1>2
<1>12. ResourcesOf(in) \subseteq Range(ins) /\ Range(ins) \subseteq GraphValues(g) /\ y \in GraphValues(g)
  <2>1. ASSUME NEW v \in I PROVE ValueOf(g, v) \in Range(ins)
    <3>1. v + 1 \in 1 .. d.inputs /\ (v + 1) - 1 = v
      BY <1>1
    <3>2. ins[v + 1] = ValueOf(g, v)
      BY <1>7, <3>1
    <3> QED
      BY <1>8, <3>1, <3>2 DEF Range
  <2>2. \A v \in I : ResourcesOf(At(g, v)) \subseteq {ValueOf(g, v)}
    BY <1>1, <1>2
  <2>3. ResourcesOf(in) \subseteq Range(ins)
    BY <2>1, <2>2 DEF ResourcesOf
  <2>4. Range(ins) \subseteq GraphValues(g)
    BY <1>1, <1>2, <1>4, <1>7, <1>8 DEF Range
  <2> QED
    BY <1>1, <1>2, <2>3, <2>4
<1>13. out \subseteq GraphCells(g)
  BY <1>1 DEF GraphCells, V
<1> HIDE DEF in, out, y
<1>14. /\ Clean(cmds, AllDiffer(ins, y)) /\ Makes(cmds, in, out)
       /\ AllTouched(cmds) \subseteq Range(ins) \cup {y}
  <2> DEFINE c == Run(0, in, out)
  <2>1. cmds = Around(ins, y, c) /\ c = Run(0, in, out)
    BY <1>6
  <2> HIDE DEF c
  <2> QED
    BY <2>1, <1>6, <1>8, <1>11, <1>12, AroundListRuns
<1>15. Clean(cmds, TRUE)
  BY <1>10, <1>14 DEF Clean
<1>16. Keeps(cmds, GraphCells(g))
  <2> SUFFICES ASSUME NEW m, NEW by, NEW n, Ready(m), by \in Nat, n = Ran(m, cmds, by),
                      NEW x \in Cells \ GraphCells(g)
               PROVE  n.mem[x] = m.mem[x]
    BY DEF Keeps
  <2>1. n.mem = Computed(Cells, m.mem, in, out, by)
    BY <1>14 DEF Makes
  <2> QED
    BY <1>13, <2>1 DEF Computed
<1>17. Carries(cmds, g)
  <2> SUFFICES ASSUME NEW m, NEW by, NEW n, Ready(m), by \in Nat, n = Ran(m, cmds, by),
                      \A v \in I : \A x \in At(g, v) : m.mem[x] = {by},
                      NEW x \in out
               PROVE  n.mem[x] = {by}
    BY DEF Carries, out
  <2>1. n.mem = Computed(Cells, m.mem, in, out, by)
    BY <1>14 DEF Makes
  <2>2. \A z \in in : m.mem[z] = {by}
    BY DEF in
  <2> QED
    BY <1>11, <2>1, <2>2, ComputedFromOne
<1> QED
  BY <1>12, <1>14, <1>15, <1>16, <1>17

\* The commands of one node.
LEMMA NodeRuns ==
  ASSUME NEW g \in DOMAIN Graphs, NEW d, d = Graphs[g], ~validate_elementwise_dag(d),
         NEW n \in Range(d.nodes), NEW cmds, NEW res, NEW at,
         res = [v \in Allocated(d) |-> ValueOf(g, v)], at = [v \in Allocated(d) |-> Elements(ValueOf(g, v))],
         cmds = NodeCommands(n, res, at)
  PROVE  /\ Clean(cmds, n.out \notin NodeReads(n) /\ (n.op \in Binary => n.in0 # n.in1))
         /\ Makes(cmds, UNION {At(g, v) : v \in NodeReads(n)}, At(g, n.out))
         /\ AllTouched(cmds) \subseteq GraphValues(g)
         /\ cmds \in Seq(Commands(Resources, Cells))
         /\ NodeReads(n) \subseteq Allocated(d) /\ n.out \in Allocated(d)
<1> DEFINE V   == Allocated(d)
           I   == NodeReads(n)
           ins == IF n.op \in Binary THEN <<ValueOf(g, n.in0), ValueOf(g, n.in1)>> ELSE <<ValueOf(g, n.in0)>>
           y   == ValueOf(g, n.out)
           in  == UNION {At(g, v) : v \in I}
           out == At(g, n.out)
           ok  == n.out \notin NodeReads(n) /\ (n.op \in Binary => n.in0 # n.in1)
<1>1. n.in0 \in V /\ n.in1 \in V /\ n.out \in V /\ I \subseteq V
  <2>1. NodeValues(n) \subseteq Named(d)
    BY DEF Named
  <2>2. Named(d) \subseteq V
    BY GraphSpace
  <2> QED
    BY <2>1, <2>2 DEF NodeValues, NodeReads
<1>2. /\ \A v \in V : /\ ValueOf(g, v) \in GraphValues(g) /\ ValueOf(g, v) \in Resources
                      /\ At(g, v) \subseteq Cells /\ ResourcesOf(At(g, v)) \subseteq {ValueOf(g, v)}
      /\ \A v, w \in V : ValueOf(g, v) = ValueOf(g, w) => v = w
  BY ValueSpace
<1>3. \A v \in V : res[v] = ValueOf(g, v) /\ at[v] = At(g, v)
  BY DEF At
<1>4. UNION {at[v] : v \in I} = in
  BY <1>1, <1>3
<1>5. cmds = Around(ins, y, Run(0, in, out))
  <2>1. /\ res[n.out] = y /\ at[n.out] = out
        /\ res[n.in0] = ValueOf(g, n.in0) /\ res[n.in1] = ValueOf(g, n.in1)
    BY <1>1, <1>3
  <2>2. cmds = Around(IF n.op \in Binary THEN <<res[n.in0], res[n.in1]>> ELSE <<res[n.in0]>>,
                      res[n.out], Run(0, UNION {at[v] : v \in I}, at[n.out]))
    BY DEF NodeCommands
  <2>3. (IF n.op \in Binary THEN <<res[n.in0], res[n.in1]>> ELSE <<res[n.in0]>>) = ins
    BY <2>1
  <2> HIDE DEF in, out, y, ins
  <2> QED
    BY <1>4, <2>1, <2>2, <2>3
<1>6. /\ ins \in Seq(Resources) /\ Range(ins) = {ValueOf(g, v) : v \in I}
      /\ ok => AllDiffer(ins, y)
  <2>1. CASE n.op \in Binary
    <3>1. /\ Len(ins) = 2 /\ ins[1] = ValueOf(g, n.in0) /\ ins[2] = ValueOf(g, n.in1)
          /\ DOMAIN ins = 1 .. 2 /\ 1 .. 2 = {1, 2} /\ I = {n.in0, n.in1}
      BY <2>1 DEF NodeReads
    <3>2. ins \in Seq(Resources)
      BY <1>1, <1>2, <2>1
    <3>3. Range(ins) = {ValueOf(g, v) : v \in I}
      <4> HIDE DEF ins
      <4> QED
        BY <3>1 DEF Range
    <3>4. ASSUME ok PROVE AllDiffer(ins, y)
      <4> HIDE DEF ins
      <4> QED
        BY <1>1, <1>2, <2>1, <3>1, <3>4 DEF AllDiffer
    <3> QED
      BY <3>2, <3>3, <3>4
  <2>2. CASE n.op \notin Binary
    <3>1. /\ Len(ins) = 1 /\ ins[1] = ValueOf(g, n.in0)
          /\ DOMAIN ins = 1 .. 1 /\ 1 .. 1 = {1} /\ I = {n.in0}
      BY <2>2 DEF NodeReads
    <3>2. ins \in Seq(Resources)
      BY <1>1, <1>2, <2>2
    <3>3. Range(ins) = {ValueOf(g, v) : v \in I}
      <4> HIDE DEF ins
      <4> QED
        BY <3>1 DEF Range
    <3>4. ASSUME ok PROVE AllDiffer(ins, y)
      <4> HIDE DEF ins
      <4> QED
        BY <1>1, <1>2, <2>2, <3>1, <3>4 DEF AllDiffer
    <3> QED
      BY <3>2, <3>3, <3>4
  <2> QED
    BY <2>1, <2>2
<1>7. in \in SUBSET Cells /\ out \in SUBSET Cells /\ y \in Resources /\ ResourcesOf(out) \subseteq {y}
  BY <1>1, <1>2
<1>8. ResourcesOf(in) \subseteq Range(ins)
  <2>1. \A v \in I : ResourcesOf(At(g, v)) \subseteq {ValueOf(g, v)}
    BY <1>1, <1>2
  <2> QED
    BY <1>6, <2>1 DEF ResourcesOf
<1>9. Range(ins) \cup {y} \subseteq GraphValues(g)
  BY <1>1, <1>2, <1>6
<1> HIDE DEF in, out, y, ins
<1>10. /\ Clean(cmds, AllDiffer(ins, y)) /\ Makes(cmds, in, out)
       /\ AllTouched(cmds) \subseteq Range(ins) \cup {y}
       /\ cmds \in Seq(Commands(Resources, Cells))
  <2> DEFINE c == Run(0, in, out)
  <2>1. cmds = Around(ins, y, c) /\ c = Run(0, in, out)
    BY <1>5
  <2> HIDE DEF c
  <2>2. /\ ins \in Seq(Resources) /\ y \in Resources
        /\ in \in SUBSET Cells /\ out \in SUBSET Cells
        /\ ResourcesOf(in) \subseteq Range(ins) /\ ResourcesOf(out) \subseteq {y}
    BY <1>6, <1>7, <1>8
  <2> QED
    BY ONLY <2>1, <2>2, AroundListRuns
<1>11. Clean(cmds, ok)
  <2> HIDE DEF ok
  <2> QED
    BY <1>6, <1>10 DEF Clean
<1> QED
  BY <1>1, <1>9, <1>10, <1>11 DEF in, out

\* The values of a graph that are there after i nodes.
Have(d, i) == (0 .. d.inputs - 1) \cup {d.nodes[j].out : j \in 1 .. i}

\* A machine that got from m to p with i nodes of graph g done by the call.
Partly(g, m, by, i, p) ==
  /\ Ready(p) /\ p.live = m.live /\ p.faults \subseteq m.faults \cup {"misstated", "misuse"}
  /\ OperandsDiffer(Graphs[g]) => p.faults = m.faults
  /\ \A x \in Cells \ GraphCells(g) : p.mem[x] = m.mem[x]
  /\ /\ ReadsOwnValues(Graphs[g])
     /\ \A v \in 0 .. Graphs[g].inputs - 1 : \A x \in At(g, v) : m.mem[x] = {by}
     => \A v \in Have(Graphs[g], i) : \A x \in At(g, v) : p.mem[x] = {by}

LEMMA NodePartly ==
  ASSUME NEW g \in DOMAIN Graphs, NEW d, d = Graphs[g], ~validate_elementwise_dag(d),
         NEW i \in 1 .. Len(d.nodes), NEW res, NEW at,
         res = [v \in Allocated(d) |-> ValueOf(g, v)], at = [v \in Allocated(d) |-> Elements(ValueOf(g, v))],
         NEW m, NEW by \in Nat, NEW p, Partly(g, m, by, i - 1, p),
         NEW q, q = Ran(p, NodeCommands(d.nodes[i], res, at), by)
  PROVE  Partly(g, m, by, i, q)
<1> DEFINE n    == d.nodes[i]
           cmds == NodeCommands(n, res, at)
           ok   == n.out \notin NodeReads(n) /\ (n.op \in Binary => n.in0 # n.in1)
           in   == UNION {At(g, v) : v \in NodeReads(n)}
           out  == At(g, n.out)
<1>1. DOMAIN d.nodes = 1 .. Len(d.nodes) /\ Len(d.nodes) \in Nat /\ n \in Range(d.nodes)
  <2>1. d.nodes \in Seq([op : STRING, in0 : 0 .. 9, in1 : 0 .. 9, out : 0 .. 9])
    BY NativeAssumption
  <2> QED
    BY <2>1, LenProperties DEF Range
<1>2. /\ Clean(cmds, ok) /\ Makes(cmds, in, out)
      /\ NodeReads(n) \subseteq Allocated(d) /\ n.out \in Allocated(d)
  <2> HIDE DEF n, in, out, ok
  <2>1. /\ Clean(cmds, n.out \notin NodeReads(n) /\ (n.op \in Binary => n.in0 # n.in1))
        /\ Makes(cmds, UNION {At(g, v) : v \in NodeReads(n)}, At(g, n.out))
        /\ NodeReads(n) \subseteq Allocated(d) /\ n.out \in Allocated(d)
    BY <1>1, NodeRuns
  <2> QED
    BY <2>1 DEF ok, in, out
<1>3. OperandsDiffer(d) => ok
  BY <1>1 DEF OperandsDiffer
<1>4. out \subseteq GraphCells(g) /\ in \in SUBSET Cells
  BY <1>2, ValueSpace DEF GraphCells
<1>5. ReadsOwnValues(d) => NodeReads(n) \subseteq Have(d, i - 1)
  BY <1>1 DEF ReadsOwnValues, Have
<1>6. \A v \in Have(d, i) : v \in Have(d, i - 1) \/ v = n.out
  <2>1. \A j \in 1 .. i : j \in 1 .. i - 1 \/ j = i
    BY <1>1
  <2> QED
    BY <2>1 DEF Have
<1>7. q = Ran(p, cmds, by) /\ Ready(p)
  BY DEF Partly
<1>8. ReadsOwnValues(d) => \A v \in Have(d, i) : At(g, v) \subseteq Cells
  <2>1. ASSUME NEW v \in 0 .. d.inputs - 1 PROVE At(g, v) \subseteq Cells
    BY GraphSpace, ValueSpace
  <2>2. ASSUME NEW j \in 1 .. i PROVE At(g, d.nodes[j].out) \subseteq Cells
    <3>1. j \in 1 .. Len(d.nodes) /\ d.nodes[j] \in Range(d.nodes)
      BY <1>1 DEF Range
    <3>2. d.nodes[j].out \in Named(d)
      BY <3>1 DEF Named, NodeValues
    <3> QED
      BY <3>2, GraphSpace, ValueSpace
  <2> QED
    BY <2>1, <2>2 DEF Have
<1> HIDE DEF n, cmds, ok, in, out
<1>9. /\ Ready(q) /\ q.live = p.live /\ q.faults \subseteq p.faults \cup {"misstated", "misuse"}
      /\ ok => q.faults = p.faults
  BY <1>2, <1>7 DEF Clean
<1>10. q.mem = Computed(Cells, p.mem, in, out, by)
  BY <1>2, <1>7 DEF Makes
<1>11. \A x \in Cells \ GraphCells(g) : q.mem[x] = m.mem[x]
  BY <1>4, <1>10 DEF Computed, Partly
<1>12. ASSUME ReadsOwnValues(d),
              \A v \in 0 .. d.inputs - 1 : \A x \in At(g, v) : m.mem[x] = {by},
              NEW v \in Have(d, i), NEW x \in At(g, v)
       PROVE  q.mem[x] = {by}
  <2>1. x \in Cells
    BY <1>8, <1>12
  <2>2. \A w \in Have(d, i - 1) : \A z \in At(g, w) : p.mem[z] = {by}
    BY <1>12 DEF Partly
  <2>3. CASE x \in out
    <3>1. \A z \in in : p.mem[z] = {by}
      BY <1>5, <1>12, <2>2 DEF in
    <3> QED
      BY <1>4, <1>10, <2>1, <2>3, <3>1, ComputedFromOne
  <2>4. CASE x \notin out
    <3>1. v \in Have(d, i - 1)
      BY <1>6, <1>12, <2>4 DEF out
    <3>2. p.mem[x] = {by}
      BY <1>12, <2>2, <3>1
    <3> QED
      BY <1>10, <2>1, <2>4, <3>2 DEF Computed
  <2> QED
    BY <2>3, <2>4
<1>13. q.live = m.live /\ q.faults \subseteq m.faults \cup {"misstated", "misuse"}
       /\ (OperandsDiffer(d) => q.faults = m.faults)
  BY <1>3, <1>9 DEF Partly
<1> QED
  BY <1>9, <1>11, <1>12, <1>13 DEF Partly

LEMMA NodesRun ==
  ASSUME NEW g \in DOMAIN Graphs, NEW d, d = Graphs[g], ~validate_elementwise_dag(d),
         NEW cmds, cmds = CompiledList(g)
  PROVE  /\ Clean(cmds, OperandsDiffer(d)) /\ Keeps(cmds, GraphCells(g))
         /\ AllTouched(cmds) \subseteq GraphValues(g)
         /\ ReadsOwnValues(d) /\ OutputIsMade(d) => Carries(cmds, g)
<1> DEFINE V   == Allocated(d)
           res == [v \in V |-> ValueOf(g, v)]
           at  == [v \in V |-> Elements(ValueOf(g, v))]
           T   == Commands(Resources, Cells)
           s   == [i \in DOMAIN d.nodes |-> NodeCommands(d.nodes[i], res, at)]
           k   == Len(d.nodes)
<1>1. DOMAIN d.nodes = 1 .. k /\ k \in Nat /\ \A i \in 1 .. k : d.nodes[i] \in Range(d.nodes)
  <2>1. d.nodes \in Seq([op : STRING, in0 : 0 .. 9, in1 : 0 .. 9, out : 0 .. 9])
    BY NativeAssumption
  <2> QED
    BY <2>1, LenProperties DEF Range
<1>2. cmds = FlattenSeq(s)
  BY DEF CompiledList, GraphList, record_compiled_graph
<1>3. res = [v \in Allocated(d) |-> ValueOf(g, v)] /\ at = [v \in Allocated(d) |-> Elements(ValueOf(g, v))]
  OBVIOUS
<1> HIDE DEF res, at, V, k
<1>4. ASSUME NEW i \in 1 .. k
      PROVE  /\ s[i] = NodeCommands(d.nodes[i], res, at) /\ s[i] \in Seq(T)
             /\ AllTouched(s[i]) \subseteq GraphValues(g)
  <2> DEFINE n == d.nodes[i]
             c == NodeCommands(n, res, at)
  <2>1. s[i] = c
    BY <1>1
  <2>2. n \in Range(d.nodes)
    BY <1>1
  <2> HIDE DEF n
  <2>3. c \in Seq(T) /\ AllTouched(c) \subseteq GraphValues(g)
    BY <1>3, <2>2, NodeRuns
  <2> QED
    BY <2>1, <2>3 DEF n
<1>5. s \in Seq(Seq(T)) /\ Len(s) = k
  <2>1. s = [i \in 1 .. k |-> NodeCommands(d.nodes[i], res, at)]
    BY <1>1
  <2>2. s \in [1 .. k -> Seq(T)]
    BY <1>4, <2>1
  <2> HIDE DEF s, T
  <2> QED
    BY <1>1, <2>2, Mapped
<1> HIDE DEF s, T
<1>6. AllTouched(cmds) \subseteq GraphValues(g)
  <2> DEFINE P == [i \in Nat |-> {q \in Seq(T) : AllTouched(q) \subseteq GraphValues(g)}]
  <2>1. <<>> \in P[0]
    <3>1. AllTouched(<<>>) = {}
      BY DEF AllTouched
    <3> QED
      BY <3>1
  <2>2. ASSUME NEW i \in 1 .. k, NEW q \in P[i - 1] PROVE q \o s[i] \in P[i]
    <3>1. i - 1 \in Nat /\ i \in Nat
      BY <1>1
    <3>2. q \in Seq(T) /\ AllTouched(q) \subseteq GraphValues(g)
      BY <3>1
    <3>3. q \o s[i] \in Seq(T) /\ AllTouched(q \o s[i]) = AllTouched(q) \cup AllTouched(s[i])
      BY <1>4, <3>2, ConcatProperties, TouchedConcat
    <3>4. AllTouched(q \o s[i]) \subseteq GraphValues(g)
      BY <1>4, <3>2, <3>3
    <3> QED
      BY <3>1, <3>3, <3>4
  <2> HIDE DEF P
  <2>3. FlattenSeq(s) \in P[k]
    BY <1>5, <2>1, <2>2, FlattenStages
  <2> QED
    BY <1>1, <1>2, <2>3 DEF P
<1>7. ASSUME NEW m, NEW by, NEW n, Ready(m), by \in Nat, n = Ran(m, cmds, by)
      PROVE  Partly(g, m, by, k, n)
  <2> DEFINE Q == [i \in Nat |-> {p \in Machine(Resources, Cells) : Partly(g, m, by, i, p)}]
  <2>1. m \in Q[0]
    <3>1. Partly(g, m, by, 0, m)
      BY <1>7 DEF Partly, Have
    <3> QED
      BY <1>7, <3>1 DEF Ready
  <2>2. ASSUME NEW i \in 1 .. k, NEW p \in Q[i - 1] PROVE Ran(p, s[i], by) \in Q[i]
    <3>1. i - 1 \in Nat /\ i \in Nat /\ i \in 1 .. Len(d.nodes)
      BY <1>1 DEF k
    <3>2. Partly(g, m, by, i - 1, p)
      BY <3>1
    <3> DEFINE q == Ran(p, NodeCommands(d.nodes[i], res, at), by)
    <3>3. q = Ran(p, s[i], by)
      BY <1>4
    <3>4. Partly(g, m, by, i, q)
      <4> HIDE DEF q, Q
      <4> QED
        BY <1>3, <1>7, <3>1, <3>2, NodePartly DEF q
    <3>5. q \in Machine(Resources, Cells)
      <4> HIDE DEF q, Q
      <4> QED
        BY <3>4 DEF Partly, Ready
    <3> QED
      BY <3>1, <3>3, <3>4, <3>5
  <2> HIDE DEF Q
  <2>3. Ran(m, FlattenSeq(s), by) \in Q[k]
    BY <1>5, <2>1, <2>2, RanFlatten
  <2> QED
    BY <1>1, <1>2, <1>7, <2>3 DEF Q
<1>8. Clean(cmds, OperandsDiffer(d))
  BY <1>7 DEF Clean, Partly
<1>9. Keeps(cmds, GraphCells(g))
  BY <1>7 DEF Keeps, Partly
<1>10. ASSUME ReadsOwnValues(d), OutputIsMade(d) PROVE Carries(cmds, g)
  <2>1. d.output \in Have(d, k)
    <3>1. CASE d.output \in 0 .. d.inputs - 1
      BY <3>1 DEF Have
    <3>2. CASE d.output \in {n.out : n \in Range(d.nodes)}
      <4>1. PICK j \in DOMAIN d.nodes : d.output = d.nodes[j].out
        BY <3>2 DEF Range
      <4> QED
        BY <1>1, <4>1 DEF Have
    <3> QED
      BY <1>10, <3>1, <3>2 DEF OutputIsMade
  <2> QED
    BY <1>7, <1>10, <2>1 DEF Carries, Partly
<1> QED
  BY <1>6, <1>8, <1>9, <1>10

\* The list of a compiled graph: only a graph that names an operand twice misstates.
LEMMA CompiledListRuns ==
  ASSUME NEW g \in DOMAIN Graphs, NEW cmds, cmds = CompiledList(g)
  PROVE  /\ Clean(cmds, ~Doubled(g)) /\ Keeps(cmds, GraphCells(g))
         /\ AllTouched(cmds) \subseteq GraphValues(g)
         /\ Reliable(g) => Carries(cmds, g)
<1> DEFINE d == Graphs[g]
<1>1. CASE validate_elementwise_dag(d)
  <2>1. /\ Clean(cmds, TRUE) /\ Keeps(cmds, GraphCells(g)) /\ AllTouched(cmds) \subseteq GraphValues(g)
        /\ Carries(cmds, g)
    BY <1>1, FusedRuns
  <2> QED
    BY <2>1 DEF Clean
<1>2. CASE ~validate_elementwise_dag(d)
  <2>1. /\ Clean(cmds, OperandsDiffer(d)) /\ Keeps(cmds, GraphCells(g))
        /\ AllTouched(cmds) \subseteq GraphValues(g)
        /\ ReadsOwnValues(d) /\ OutputIsMade(d) => Carries(cmds, g)
    BY <1>2, NodesRun
  <2>2. Clean(cmds, ~Doubled(g))
    BY <1>2, <2>1 DEF Clean, Doubled
  <2> QED
    BY <1>2, <2>1, <2>2 DEF Reliable
<1> QED
  BY <1>1, <1>2

------------------------------------------------------------------------------
(* The inductive invariant                                                    *)

\* The sections a call may consist of.
Parts(c) ==
  CASE c.kind = "run" ->
         {[kind |-> "fill", on |-> ValueOf(c.on, v)] : v \in 0 .. Graphs[c.on].inputs - 1}
         \cup {[kind |-> "graph", on |-> c.on], [kind |-> "read", on |-> ValueOf(c.on, Graphs[c.on].output)]}
    [] c.kind = "download"       -> {[kind |-> "read", on |-> c.on]}
    [] c.kind = "execute"        -> {[kind |-> "prepared", on |-> c.on]}
    [] c.kind = "execute_upload" -> {[kind |-> "slot", on |-> c.on, slot |-> k] : k \in Slots(c.on)}
    [] OTHER                     -> {[kind |-> "kernel", on |-> c.on]}

Inside == {"ready", "recording", "waiting"}

\* Types, as far as the steps need them.
Shapes ==
  /\ state \in [Handles -> States]
  /\ mem \in [Cells -> SUBSET Nat] /\ spec \in [Cells -> SUBSET Nat] /\ faults \subseteq Wrongs
  /\ pc \in [Threads -> Inside \cup {"idle", "filling", "bumping"}] /\ id \in [Threads -> Nat]
  /\ DOMAIN call = Threads /\ DOMAIN todo = Threads /\ DOMAIN before = Threads /\ DOMAIN readback = Threads
  /\ DOMAIN graph = DOMAIN Graphs /\ DOMAIN disp = DOMAIN Dispatches
  /\ DOMAIN slots = DOMAIN Dispatches /\ next \in [DOMAIN Dispatches -> Nat]
  /\ \A d \in DOMAIN Dispatches : slots[d] \in [Slots(d) -> [1 .. Width -> Nat]]
  /\ mutex \in Threads \cup {NoOne} /\ calls \in Nat
  /\ issued \in Nat /\ completed \in Nat /\ awaits \in [Threads -> Nat]
  /\ queue \in Seq(Range(queue))

\* A thread inside a call holds the objects of the call and goes through its sections.
Holds(t) ==
  /\ call[t].kind = "run" => graph[call[t].on].there
  /\ call[t].kind \in {"execute", "execute_upload"} => disp[call[t].on].there

InCall(t) ==
  /\ pc[t] # "idle" => call[t] \in Uses[t] /\ Holds(t)
  /\ pc[t] \in {"filling", "bumping"} => call[t].kind = "execute_upload"
  /\ pc[t] \in Inside => todo[t] \in Seq(Parts(call[t])) /\ todo[t] # <<>>

\* Whoever records or waits has the mutex, and found its operands in COMMON.
Locked(t) ==
  pc[t] \in {"recording", "waiting"} => mutex = t /\ before[t] = [h \in Turned(t) |-> "COMMON"]

\* Handles are in COMMON but while a section on them is recorded.
Settled ==
  \A h \in Handles : state[h] = "COMMON" \/ \E t \in Threads : pc[t] = "recording" /\ h \in Turned(t)

\* What is compiled or prepared names all states as COMMON.
Recorded ==
  /\ \A g \in DOMAIN Graphs : graph[g].there => graph[g].cmds = CompiledList(g)
  /\ \A d \in DOMAIN Dispatches : disp[d].there => disp[d].cmds = DispatchList(d, Common)

\* Item i is the list of dispatch d.
IsListOf(i, d) ==
  /\ disp[d].there /\ queue[i].cmds = disp[d].cmds
  /\ d \in Uploading => \E k \in Slots(d) : queue[i].ring = <<d, k>>
  /\ d \notin Uploading => queue[i].ring = <<>>

\* Item i is the list of a prepared dispatch whose wait failed.
LeftBehind(i) ==
  /\ ~queue[i].device /\ queue[i].by \in Nat /\ queue[i].who \in Threads
  /\ \E d \in DOMAIN Dispatches : IsListOf(i, d)

\* Item i is the list thread t waits for.
Awaited(i, t) == pc[t] = "waiting" /\ queue[i] = Submitted(t, awaits[t])

\* Lists left behind, and at most one that somebody waits for, the last.
Lined ==
  /\ \A i \in 1 .. Len(queue) :
       LeftBehind(i) \/ (i = Len(queue) /\ \E t \in Threads : Awaited(i, t))
  /\ \A t \in Threads : pc[t] = "waiting" =>
       awaits[t] # 0 /\ \A i \in 1 .. Len(queue) : i = Len(queue) => Awaited(i, t)

\* Fences that are to come are above those that came, in the order of the queue.
Ordered ==
  /\ completed <= issued
  /\ \A i \in 1 .. Len(queue) :
       /\ queue[i].fence \in 0 .. issued
       /\ queue[i].fence # 0 =>
            /\ completed < queue[i].fence
            /\ \A j \in 1 .. i - 1 : queue[j].fence < queue[i].fence

\* Between lists the resources rest in COMMON.
Resting == gpu \in [Resources -> {"COMMON"}]

\* Nothing went wrong but what a graph that names an operand twice does.
Blameless == faults \subseteq {"misstated", "misuse"} /\ (faults # {} => \E g \in DOMAIN Graphs : Doubled(g))

ListInv ==
  /\ Shapes /\ (\A t \in Threads : InCall(t)) /\ (\A t \in Threads : Locked(t))
  /\ Settled /\ Recorded /\ Lined /\ Ordered /\ Resting /\ Blameless

------------------------------------------------------------------------------
(* Sections and the lists they execute                                        *)

Calls == {"run", "download", "execute", "execute_upload"}

\* What the sections of a call are about.
Fits(c, s) ==
  /\ s.kind \in SectionKinds
  /\ s.kind = "fill" => c.kind = "run" /\ c.on \in DOMAIN Graphs /\ s.on \in GraphValues(c.on)
  /\ s.kind = "read" => \/ c.kind = "download" /\ s.on = c.on /\ s.on \in DOMAIN Buffers
                        \/ /\ c.kind = "run" /\ c.on \in DOMAIN Graphs
                           /\ s.on = ValueOf(c.on, Graphs[c.on].output) /\ s.on \in GraphValues(c.on)
  /\ s.kind = "kernel" => c.kind \notin Calls /\ s.on = c.on /\ Operands(c.kind, c.on)
  /\ s.kind = "graph" => c.kind = "run" /\ s.on = c.on /\ c.on \in DOMAIN Graphs
  /\ s.kind = "prepared" => c.kind = "execute" /\ s.on = c.on /\ c.on \in DOMAIN Dispatches \ Uploading
  /\ s.kind = "slot" => c.kind = "execute_upload" /\ s.on = c.on /\ c.on \in Uploading /\ s.slot \in Slots(c.on)

LEMMA PartFacts ==
  ASSUME NEW t \in Threads, NEW c \in Uses[t], NEW s \in Parts(c)
  PROVE  Fits(c, s)
<1>1. /\ c.kind = "run" => c.on \in DOMAIN Graphs
      /\ c.kind = "download" => c.on \in DOMAIN Buffers
      /\ c.kind \in {"execute", "execute_upload"} =>
            /\ c.on \in DOMAIN Dispatches
            /\ (c.kind = "execute_upload") = (Dispatches[c.on].kind = "upload")
      /\ c.kind \notin {"run", "download", "execute", "execute_upload"} => Operands(c.kind, c.on)
  BY CallsAssumption
<1>2. CASE c.kind = "run"
  <2>1. c.on \in DOMAIN Graphs
    BY <1>1, <1>2
  <2>2. /\ 0 .. Graphs[c.on].inputs - 1 \subseteq Allocated(Graphs[c.on])
        /\ Graphs[c.on].output \in Allocated(Graphs[c.on])
    BY ONLY <2>1, GraphSpace
  <2>3. \/ \E v \in 0 .. Graphs[c.on].inputs - 1 : s = [kind |-> "fill", on |-> ValueOf(c.on, v)]
        \/ s = [kind |-> "graph", on |-> c.on]
        \/ s = [kind |-> "read", on |-> ValueOf(c.on, Graphs[c.on].output)]
    BY ONLY <1>2, s \in Parts(c) DEF Parts
  <2> QED
    BY ONLY <1>2, <2>1, <2>2, <2>3 DEF Fits, SectionKinds, GraphValues
<1>3. CASE c.kind = "download"
  <2>1. s = [kind |-> "read", on |-> c.on]
    BY ONLY <1>3, s \in Parts(c) DEF Parts
  <2> QED
    BY ONLY <1>1, <1>3, <2>1 DEF Fits, SectionKinds
<1>4. CASE c.kind = "execute"
  <2>1. s = [kind |-> "prepared", on |-> c.on]
    BY ONLY <1>4, s \in Parts(c) DEF Parts
  <2> QED
    BY ONLY <1>1, <1>4, <2>1 DEF Fits, SectionKinds, Uploading
<1>5. CASE c.kind = "execute_upload"
  <2>1. \E k \in Slots(c.on) : s = [kind |-> "slot", on |-> c.on, slot |-> k]
    BY ONLY <1>5, s \in Parts(c) DEF Parts
  <2> QED
    BY ONLY <1>1, <1>5, <2>1 DEF Fits, SectionKinds, Uploading
<1>6. CASE c.kind \notin Calls
  <2>1. s = [kind |-> "kernel", on |-> c.on]
    BY ONLY <1>6, s \in Parts(c) DEF Parts, Calls
  <2> QED
    BY ONLY <1>1, <1>6, <2>1 DEF Fits, SectionKinds, Calls
<1> QED
  BY <1>2, <1>3, <1>4, <1>5, <1>6 DEF Calls

LEMMA OperandsAre ==
  ASSUME NEW kind, NEW args, Operands(kind, args)
  PROVE  /\ args \in Seq(Handles) /\ Len(args) > 1 /\ Different(kind, args)
         /\ args \in Seq(DOMAIN Buffers)
         /\ Range(args) \subseteq DOMAIN Buffers
<1>1. args \in Seq(DOMAIN Buffers) /\ Len(args) > 1
  BY DEF Operands
<1>2. DOMAIN Buffers \subseteq Handles
  BY DEF Handles
<1>3. args \in Seq(Handles)
  BY <1>1, <1>2
<1>4. \A i \in 1 .. Len(args) : args[i] \in DOMAIN Buffers
  BY <1>1
<1>5. \A h \in DOMAIN Buffers : Res(h) = Buffers[h].res
  BY HandleSpace
<1>6. Different(kind, args)
  BY <1>4, <1>5 DEF Different, Operands
<1> QED
  BY <1>1, <1>3, <1>4, <1>6 DEF Range

LEMMA EnteredInside ==
  ASSUME NEW kind, NEW args, Operands(kind, args)
  PROVE  Range(Entered(kind, args)) \cup {Last(args)} \subseteq Range(args)
<1>1. args \in Seq(Handles) /\ Len(args) > 1 /\ Different(kind, args)
  BY OperandsAre
<1>2. /\ Entered(kind, args) \in Seq(Handles) /\ EachOnce(Entered(kind, args), Front(args))
  BY ONLY <1>1, EnteredIs
<1>3. /\ Front(args) \in Seq(Handles) /\ Range(args) = Range(Front(args)) \cup {Last(args)}
  BY ONLY <1>1, FrontLast
<1> DEFINE e == Entered(kind, args)
           f == Front(args)
<1>4. \A h \in Range(e) : \E i \in 1 .. Len(e) : h = e[i]
  BY <1>2 DEF Range
<1>5. \A i \in 1 .. Len(e) : \E j \in 1 .. Len(f) : e[i] = f[j]
  BY <1>2 DEF EachOnce
<1>6. \A j \in 1 .. Len(f) : f[j] \in Range(f)
  BY <1>3 DEF Range
<1> QED
  BY ONLY <1>3, <1>4, <1>5, <1>6

\* The section a thread is in.
LEMMA SectionIn ==
  ASSUME NEW t \in Threads, InCall(t), pc[t] \in Inside
  PROVE  /\ call[t] \in Uses[t] /\ Holds(t) /\ todo[t] \in Seq(Parts(call[t])) /\ todo[t] # <<>>
         /\ Len(todo[t]) > 0
         /\ Head(todo[t]) \in Parts(call[t]) /\ Fits(call[t], Head(todo[t]))
<1>1. /\ call[t] \in Uses[t] /\ Holds(t) /\ todo[t] \in Seq(Parts(call[t])) /\ todo[t] # <<>>
  BY DEF InCall, Inside
<1>2. Head(todo[t]) \in Parts(call[t]) /\ Len(todo[t]) > 0
  BY <1>1
<1> QED
  BY <1>1, <1>2, PartFacts

LEMMA GraphValuesHandles ==
  ASSUME NEW g \in DOMAIN Graphs
  PROVE  GraphValues(g) \subseteq Handles
BY DEF Handles, Owned

LEMMA TurnedSpace ==
  ASSUME NEW t \in Threads, Fits(call[t], Head(todo[t]))
  PROVE  Turned(t) \subseteq Handles
<1> DEFINE s == Head(todo[t])
<1>1. CASE s.kind \in {"fill", "read"}
  <2>1. s.on \in Handles
    BY <1>1, GraphValuesHandles DEF Fits, Handles
  <2> QED
    BY <1>1, <2>1 DEF Turned
<1>2. CASE s.kind = "kernel"
  <2>1. Operands(call[t].kind, s.on)
    BY <1>2 DEF Fits
  <2>2. Range(Entered(call[t].kind, s.on)) \cup {Last(s.on)} \subseteq Range(s.on)
        /\ Range(s.on) \subseteq DOMAIN Buffers
    BY ONLY <2>1, EnteredInside, OperandsAre
  <2> QED
    BY <1>2, <2>2 DEF Turned, Handles
<1> QED
  BY <1>1, <1>2 DEF Turned

LEMMA LiveHas ==
  ASSUME Shapes
  PROVE  /\ Live \subseteq Nat
         /\ \A h \in DOMAIN Buffers : Res(h) \in Live
         /\ \A t \in Threads : CallHeap(t) \in Live /\ CallHeap(t) \in Nat
         /\ \A g \in DOMAIN Graphs : graph[g].there => GraphValues(g) \subseteq Live
         /\ \A d \in DOMAIN Dispatches : disp[d].there => InputOf(d) \in Live /\ SlotHeap(d) \in Live
<1> DEFINE B == {Buffers[h].res : h \in DOMAIN Buffers}
           H == {CallHeap(t) : t \in Threads}
           G == UNION {GraphValues(g) : g \in {x \in DOMAIN Graphs : graph[x].there}}
           D == UNION {{InputOf(d), SlotHeap(d)} : d \in {x \in DOMAIN Dispatches : disp[x].there}}
<1>1. Live = B \cup H \cup G \cup D
  BY DEF Live
<1>2. B \subseteq Nat /\ \A h \in DOMAIN Buffers : Res(h) \in B
  BY HandleSpace
<1>3. H \subseteq Nat /\ \A t \in Threads : CallHeap(t) \in H /\ CallHeap(t) \in Nat
  BY NativeAssumption DEF CallHeap
<1>4. \A g \in DOMAIN Graphs : graph[g].there => GraphValues(g) \subseteq G
  OBVIOUS
<1>5. \A g \in DOMAIN Graphs : GraphValues(g) \subseteq Owned
  BY DEF Owned
<1>6. G \subseteq Nat
  <2>1. G \subseteq Owned
    BY <1>5
  <2>2. Owned \subseteq Nat
    BY HandleSpace
  <2> QED
    BY ONLY <2>1, <2>2
<1>7. D \subseteq Nat
  BY NativeAssumption DEF InputOf, SlotHeap
<1>8. \A d \in DOMAIN Dispatches : disp[d].there => InputOf(d) \in D /\ SlotHeap(d) \in D
  OBVIOUS
<1> HIDE DEF B, H, G, D
<1> QED
  BY <1>1, <1>2, <1>3, <1>4, <1>6, <1>7, <1>8

\* A list of dispatch d in the queue.
OfDispatch(item, d) ==
  /\ item.cmds = DispatchList(d, Common)
  /\ d \in Uploading => \E k \in Slots(d) : item.ring = <<d, k>> /\ slots[d][k] \in [1 .. Width -> Nat]
  /\ d \notin Uploading => item.ring = <<>>

LEMMA DispatchRuns ==
  ASSUME NEW d \in DOMAIN Dispatches, NEW args, args = Dispatches[d].args,
         NEW item, OfDispatch(item, d), NEW cmds, cmds = Loaded(item)
  PROVE  /\ Clean(cmds, TRUE)
         /\ d \notin Uploading => /\ Makes(cmds, InCells(args), OutCells(args))
                                  /\ AllTouched(cmds) \subseteq {Res(h) : h \in Range(args)}
         /\ d \in Uploading =>
              /\ Keeps(cmds, OutCells(args) \cup Elements(InputOf(d)))
              /\ AllTouched(cmds) \subseteq {Res(h) : h \in Range(args)} \cup {InputOf(d), SlotHeap(d)}
              /\ \E k \in Slots(d) :
                   /\ item.ring = <<d, k>>
                   /\ Uploads(cmds, Elements(InputOf(d)), InCells(args), OutCells(args), slots[d][k])
<1>1. Operands(Dispatches[d].kind, args)
  BY CallsAssumption
<1>2. CASE d \in Uploading
  <2>1. PICK k \in Slots(d) : item.ring = <<d, k>> /\ slots[d][k] \in [1 .. Width -> Nat]
    BY <1>2 DEF OfDispatch
  <2>2. item.cmds = UploadConvList(d)
    BY <1>2 DEF OfDispatch, DispatchList, Uploading
  <2>3. item.ring # <<>> /\ item.ring[1] = d /\ item.ring[2] = k
    BY ONLY <2>1
  <2>4. cmds = Load(UploadConvList(d), slots[d][k])
    BY <2>2, <2>3, LoadedIs
  <2>5. /\ Clean(cmds, TRUE) /\ Keeps(cmds, OutCells(args) \cup Elements(InputOf(d)))
        /\ AllTouched(cmds) \subseteq {Res(h) : h \in Range(args)} \cup {InputOf(d), SlotHeap(d)}
        /\ Uploads(cmds, Elements(InputOf(d)), InCells(args), OutCells(args), slots[d][k])
    BY ONLY <1>2, args = Dispatches[d].args, <2>1, <2>4, UploadListRuns
  <2> QED
    BY ONLY <1>2, <2>1, <2>5
<1>3. CASE d \notin Uploading
  <2>1. item.ring = <<>> /\ item.cmds = DispatchList(d, Common)
    BY <1>3 DEF OfDispatch
  <2>2. cmds = KernelList(Dispatches[d].kind, args, Common)
    BY <1>3, <2>1, LoadedIs DEF DispatchList, Uploading
  <2>3. args \in Seq(Handles) /\ Len(args) > 1 /\ Different(Dispatches[d].kind, args)
    BY ONLY <1>1, OperandsAre
  <2>4. Range(Entered(Dispatches[d].kind, args)) \cup {Last(args)} \subseteq Handles
    <3>1. Range(Entered(Dispatches[d].kind, args)) \cup {Last(args)} \subseteq Range(args)
      BY ONLY <1>1, EnteredInside
    <3>2. Range(args) \subseteq Handles
      BY <2>3 DEF Range
    <3> QED
      BY <3>1, <3>2
  <2>5. Common[Last(args)] = "COMMON" /\ \A h \in Range(Entered(Dispatches[d].kind, args)) : Common[h] = "COMMON"
    BY <2>4, CommonStates
  <2>6. /\ Clean(cmds, TRUE) /\ Makes(cmds, InCells(args), OutCells(args))
        /\ AllTouched(cmds) \subseteq {Res(h) : h \in Range(args)}
    BY ONLY <2>2, <2>3, <2>5, KernelListRuns
  <2> QED
    BY ONLY <1>3, <2>6
<1> QED
  BY ONLY <1>2, <1>3

\* A list that may be executed.
Fine(cmds) == Clean(cmds, ~\E g \in DOMAIN Graphs : Doubled(g)) /\ AllTouched(cmds) \subseteq Live

LEMMA DispatchFine ==
  ASSUME Shapes, NEW d \in DOMAIN Dispatches, disp[d].there, NEW item, OfDispatch(item, d)
  PROVE  Fine(Loaded(item))
<1> DEFINE args == Dispatches[d].args
<1>1. Operands(Dispatches[d].kind, args)
  BY CallsAssumption
<1>2. Range(args) \subseteq DOMAIN Buffers
  BY ONLY <1>1, OperandsAre
<1>3. {Res(h) : h \in Range(args)} \cup {InputOf(d), SlotHeap(d)} \subseteq Live
  BY <1>2, LiveHas
<1>4. /\ Clean(Loaded(item), TRUE)
      /\ AllTouched(Loaded(item)) \subseteq {Res(h) : h \in Range(args)} \cup {InputOf(d), SlotHeap(d)}
  BY DispatchRuns
<1> QED
  BY <1>3, <1>4 DEF Fine, Clean

\* What the list of a section that is not of a dispatch does.
SectionDoes(s, c, cmds) ==
  /\ s.kind = "fill" => /\ Clean(cmds, TRUE) /\ Makes(cmds, {}, Elements(s.on))
                        /\ {x \in Range(cmds) : x.op = "read"} = {}
  /\ s.kind = "read" => /\ Clean(cmds, TRUE) /\ Keeps(cmds, {})
                        /\ CopiedCells(cmds) = Elements(s.on)
  /\ s.kind = "kernel" => /\ Clean(cmds, TRUE) /\ Makes(cmds, InCells(s.on), OutCells(s.on))
  /\ s.kind = "graph" => /\ Clean(cmds, ~Doubled(s.on)) /\ Keeps(cmds, GraphCells(s.on))
                         /\ Reliable(s.on) => Carries(cmds, s.on)

LEMMA SubmittedFields ==
  ASSUME NEW t \in Threads, NEW f, NEW item, item = Submitted(t, f)
  PROVE  /\ item.cmds = SectionList(t) /\ item.by = id[t] /\ item.who = t /\ item.fence = f
         /\ item.device = OnDeviceList(Head(todo[t]))
         /\ item.ring = IF Head(todo[t]).kind = "slot" THEN <<Head(todo[t]).on, Head(todo[t]).slot>> ELSE <<>>
BY DEF Submitted

LEMMA SectionRuns ==
  ASSUME Shapes, Recorded, NEW t \in Threads, NEW s, s = Head(todo[t]), Fits(call[t], s), Holds(t),
         before[t] = [h \in Turned(t) |-> "COMMON"],
         NEW f, NEW item, item = Submitted(t, f), s.kind \notin {"prepared", "slot"}
  PROVE  Fine(Loaded(item)) /\ SectionDoes(s, call[t], Loaded(item))
<1>0. item.cmds = SectionList(t) /\ item.ring = IF s.kind = "slot" THEN <<s.on, s.slot>> ELSE <<>>
  BY ONLY t \in Threads, s = Head(todo[t]), item = Submitted(t, f), SubmittedFields
<1>1. Loaded(item) = SectionList(t)
  <2>1. item.ring = <<>>
    BY ONLY <1>0, s.kind \notin {"prepared", "slot"}
  <2> QED
    BY <1>0, <2>1, LoadedIs
<1> DEFINE cmds == SectionList(t)
           c == call[t]
<1>2. CallHeap(t) \in Nat /\ CallHeap(t) \in Live
  BY LiveHas
<1>3. CASE s.kind = "fill"
  <2>1. Turned(t) = {s.on}
    BY <1>3 DEF Turned
  <2>2. before[t][s.on] = "COMMON"
    BY <2>1
  <2>3. cmds = FillList(s.on, CallHeap(t), before[t][s.on])
    BY <1>3 DEF SectionList
  <2>4. s.on \in GraphValues(c.on) /\ c.on \in DOMAIN Graphs /\ graph[c.on].there
    BY <1>3 DEF Fits, Holds
  <2>5. s.on \in Handles
    BY ONLY <2>4, GraphValuesHandles
  <2>6. /\ Clean(cmds, TRUE) /\ Makes(cmds, {}, Elements(s.on))
        /\ AllTouched(cmds) \subseteq {Res(s.on), CallHeap(t)}
    BY ONLY <1>2, <2>2, <2>3, <2>5, FillListRuns
  <2>7. Res(s.on) \in Live
    <3>1. s.on \in Live
      BY <2>4, LiveHas
    <3>2. s.on \in Owned
      BY <2>4 DEF Owned
    <3> QED
      BY <3>1, <3>2, HandleSpace
  <2>8. {x \in Range(cmds) : x.op = "read"} = {}
    BY <2>2, <2>3 DEF FillList, CopyList, Fill, Barrier, Range
  <2>9. Fine(cmds)
    BY <1>2, <2>6, <2>7 DEF Fine, Clean
  <2>10. SectionDoes(s, c, cmds)
    BY <1>3, <2>6, <2>8 DEF SectionDoes
  <2> QED
    BY <1>1, <2>9, <2>10
<1>4. CASE s.kind = "read"
  <2>1. Turned(t) = {s.on}
    BY <1>4 DEF Turned
  <2>2. before[t][s.on] = "COMMON"
    BY <2>1
  <2>3. cmds = ReadList(s.on, CallHeap(t), before[t][s.on])
    BY <1>4 DEF SectionList
  <2>4. \/ s.on \in DOMAIN Buffers
        \/ s.on \in GraphValues(c.on) /\ c.on \in DOMAIN Graphs /\ graph[c.on].there
    BY <1>4 DEF Fits, Holds
  <2>5. s.on \in Handles
    BY <2>4, GraphValuesHandles DEF Handles
  <2>6. /\ Clean(cmds, TRUE) /\ Keeps(cmds, {})
        /\ AllTouched(cmds) \subseteq {Res(s.on), CallHeap(t)}
        /\ CopiedCells(cmds) = Elements(s.on)
    <3>1. PICK h, p, l : h = s.on /\ p = CallHeap(t) /\ l = cmds
      OBVIOUS
    <3>2. h \in Handles /\ p \in Nat /\ l = ReadList(h, p, "COMMON")
      BY <1>2, <2>2, <2>3, <2>5, <3>1
    <3>3. /\ Clean(l, TRUE) /\ Keeps(l, {}) /\ AllTouched(l) \subseteq {Res(h), p}
          /\ CopiedCells(l) = Elements(h)
      BY ONLY <3>2, ReadListRuns
    <3> QED
      BY <3>1, <3>3
  <2>7. Res(s.on) \in Live
    <3>1. CASE s.on \in DOMAIN Buffers
      BY <3>1, LiveHas
    <3>2. CASE s.on \in GraphValues(c.on) /\ c.on \in DOMAIN Graphs /\ graph[c.on].there
      <4>1. s.on \in Live
        BY <3>2, LiveHas
      <4>2. s.on \in Owned
        BY <3>2 DEF Owned
      <4> QED
        BY <4>1, <4>2, HandleSpace
    <3> QED
      BY <2>4, <3>1, <3>2
  <2>8. Fine(cmds)
    BY <1>2, <2>6, <2>7 DEF Fine, Clean
  <2>9. SectionDoes(s, c, cmds)
    BY <1>4, <2>6 DEF SectionDoes
  <2> QED
    BY <1>1, <2>8, <2>9
<1>5. CASE s.kind = "kernel"
  <2>1. Operands(c.kind, s.on)
    BY <1>5 DEF Fits
  <2>2. Turned(t) = Range(Entered(c.kind, s.on)) \cup {Last(s.on)}
    BY <1>5 DEF Turned
  <2>3. before[t][Last(s.on)] = "COMMON" /\ \A h \in Range(Entered(c.kind, s.on)) : before[t][h] = "COMMON"
    BY <2>2
  <2>4. cmds = KernelList(c.kind, s.on, before[t])
    BY <1>5 DEF SectionList
  <2>5. s.on \in Seq(Handles) /\ Len(s.on) > 1 /\ Different(c.kind, s.on) /\ Range(s.on) \subseteq DOMAIN Buffers
    BY ONLY <2>1, OperandsAre
  <2>6. /\ Clean(cmds, TRUE) /\ Makes(cmds, InCells(s.on), OutCells(s.on))
        /\ AllTouched(cmds) \subseteq {Res(h) : h \in Range(s.on)}
    BY ONLY <2>3, <2>4, <2>5, KernelListRuns
  <2>7. {Res(h) : h \in Range(s.on)} \subseteq Live
    BY <2>5, LiveHas
  <2>8. Fine(cmds)
    BY <2>6, <2>7 DEF Fine, Clean
  <2>9. SectionDoes(s, c, cmds)
    BY <1>5, <2>6 DEF SectionDoes
  <2> QED
    BY <1>1, <2>8, <2>9
<1>6. CASE s.kind = "graph"
  <2>1. s.on \in DOMAIN Graphs /\ graph[s.on].there
    BY <1>6 DEF Fits, Holds
  <2>2. cmds = CompiledList(s.on)
    BY <1>6, <2>1 DEF SectionList, Recorded
  <2>3. /\ Clean(cmds, ~Doubled(s.on)) /\ Keeps(cmds, GraphCells(s.on))
        /\ AllTouched(cmds) \subseteq GraphValues(s.on)
        /\ Reliable(s.on) => Carries(cmds, s.on)
    BY ONLY <2>1, <2>2, CompiledListRuns
  <2>4. GraphValues(s.on) \subseteq Live
    BY <2>1, LiveHas
  <2>5. Clean(cmds, ~\E g \in DOMAIN Graphs : Doubled(g))
    BY <2>1, <2>3 DEF Clean
  <2>6. Fine(cmds)
    BY <2>3, <2>4, <2>5 DEF Fine
  <2>7. SectionDoes(s, c, cmds)
    BY <1>6, <2>3 DEF SectionDoes
  <2> QED
    BY <1>1, <2>6, <2>7
<1> QED
  BY <1>3, <1>4, <1>5, <1>6 DEF Fits, SectionKinds

\* A section of a dispatch submits the dispatch's list.
LEMMA SectionOfDispatch ==
  ASSUME Shapes, Recorded, NEW t \in Threads, NEW s, s = Head(todo[t]), Fits(call[t], s), Holds(t),
         NEW f, NEW item, item = Submitted(t, f), s.kind \in {"prepared", "slot"}
  PROVE  /\ s.on \in DOMAIN Dispatches /\ disp[s.on].there /\ ~item.device /\ item.cmds = disp[s.on].cmds
         /\ s.on \in Uploading => s.slot \in Slots(s.on) /\ item.ring = <<s.on, s.slot>>
         /\ s.on \notin Uploading => item.ring = <<>>
         /\ OfDispatch(item, s.on)
<1>1. /\ s.on \in DOMAIN Dispatches /\ disp[s.on].there
      /\ s.kind = "slot" => s.on \in Uploading /\ s.slot \in Slots(s.on)
      /\ s.kind = "prepared" => s.on \notin Uploading
  BY DEF Fits, Holds, Uploading
<1>0. item.cmds = SectionList(t) /\ item.ring = (IF s.kind = "slot" THEN <<s.on, s.slot>> ELSE <<>>)
      /\ item.device = OnDeviceList(s)
  BY ONLY t \in Threads, s = Head(todo[t]), item = Submitted(t, f), SubmittedFields
<1>2. item.cmds = disp[s.on].cmds
  BY <1>0 DEF SectionList
<1>3. item.ring = IF s.kind = "slot" THEN <<s.on, s.slot>> ELSE <<>>
  BY <1>0
<1>4. ~item.device
  BY <1>0 DEF OnDeviceList
<1>5. disp[s.on].cmds = DispatchList(s.on, Common)
  BY <1>1 DEF Recorded
<1>6. s.kind = "slot" => slots[s.on][s.slot] \in [1 .. Width -> Nat]
  <2>1. s.on \in DOMAIN Dispatches => slots[s.on] \in [Slots(s.on) -> [1 .. Width -> Nat]]
    BY DEF Shapes
  <2> QED
    BY ONLY <1>1, <2>1
<1> QED
  BY <1>1, <1>2, <1>3, <1>4, <1>5, <1>6 DEF OfDispatch

\* Whatever is first in the queue may be executed.
LEMMA ItemRuns ==
  ASSUME ListInv, queue # <<>>, NEW item, item = Head(queue)
  PROVE  Fine(Loaded(item)) /\ item.by \in Nat /\ item.who \in Threads /\ (item.device => StillHeld(item))
<1>1. 1 \in 1 .. Len(queue) /\ item = queue[1]
  BY DEF ListInv, Shapes
<1>2. CASE LeftBehind(1)
  <2>1. PICK d \in DOMAIN Dispatches : IsListOf(1, d)
    BY <1>2 DEF LeftBehind
  <2>2. disp[d].there /\ item.cmds = disp[d].cmds
        /\ (d \in Uploading => \E k \in Slots(d) : item.ring = <<d, k>>)
        /\ (d \notin Uploading => item.ring = <<>>)
    BY <1>1, <2>1 DEF IsListOf
  <2>3. disp[d].cmds = DispatchList(d, Common) /\ slots[d] \in [Slots(d) -> [1 .. Width -> Nat]]
    BY <2>2 DEF ListInv, Recorded, Shapes
  <2>4. OfDispatch(item, d)
    BY <2>2, <2>3 DEF OfDispatch
  <2>5. Fine(Loaded(item))
    BY <2>2, <2>4, DispatchFine DEF ListInv
  <2> QED
    BY <1>1, <1>2, <2>5 DEF LeftBehind
<1>3. CASE \E t \in Threads : Awaited(1, t)
  <2>1. PICK t \in Threads : pc[t] = "waiting" /\ item = Submitted(t, awaits[t])
    BY <1>1, <1>3 DEF Awaited
  <2>2. InCall(t) /\ Locked(t) /\ Shapes /\ Recorded
    BY DEF ListInv
  <2>3. Fits(call[t], Head(todo[t])) /\ Holds(t)
    BY <2>1, <2>2, SectionIn DEF Inside
  <2>4. before[t] = [h \in Turned(t) |-> "COMMON"]
    BY <2>1, <2>2 DEF Locked
  <2>5. Fine(Loaded(item))
    <3>1. CASE Head(todo[t]).kind \in {"prepared", "slot"}
      <4>1. /\ Head(todo[t]).on \in DOMAIN Dispatches /\ disp[Head(todo[t]).on].there
            /\ OfDispatch(item, Head(todo[t]).on)
        BY <2>1, <2>2, <2>3, <3>1, SectionOfDispatch
      <4> QED
        BY <2>2, <4>1, DispatchFine
    <3>2. CASE Head(todo[t]).kind \notin {"prepared", "slot"}
      BY <2>1, <2>2, <2>3, <2>4, <3>2, SectionRuns
    <3> QED
      BY <3>1, <3>2
  <2>6. item.by = id[t] /\ item.who = t /\ item.fence = awaits[t]
    BY ONLY <2>1 DEF Submitted
  <2>7. id[t] \in Nat
    BY <2>2 DEF Shapes
  <2> QED
    BY <2>1, <2>5, <2>6, <2>7 DEF StillHeld
<1> QED
  BY <1>1, <1>2, <1>3 DEF ListInv, Lined

------------------------------------------------------------------------------
(* What steps leave alone                                                     *)

LEMMA TurnedSame ==
  ASSUME NEW t, call'[t] = call[t], todo'[t] = todo[t]
  PROVE  Turned(t)' = Turned(t)
BY DEF Turned

\* A thread stays where it is in its call.
Still(t) ==
  /\ call'[t] = call[t] /\ todo'[t] = todo[t] /\ before'[t] = before[t] /\ id'[t] = id[t]
  /\ pc'[t] = pc[t] /\ awaits'[t] = awaits[t]

\* Graphs that run and dispatches that are there stay what they are.
NothingLost ==
  /\ \A u \in Threads : pc[u] # "idle" /\ call[u].kind = "run" => graph'[call[u].on] = graph[call[u].on]
  /\ \A d \in DOMAIN Dispatches : disp[d].there => disp'[d] = disp[d]

LEMMA AwaitedSame ==
  ASSUME NEW t \in Threads, Still(t), NothingLost, InCall(t), NEW i, NEW j, queue'[i] = queue[j]
  PROVE  Awaited(i, t)' <=> Awaited(j, t)
<1>1. CASE pc[t] # "waiting"
  BY <1>1 DEF Awaited, Still
<1>2. CASE pc[t] = "waiting"
  <2> DEFINE s == Head(todo[t])
  <2>1. Fits(call[t], s) /\ Holds(t)
    BY <1>2, SectionIn DEF Inside
  <2>2. s.kind = "graph" => graph'[s.on] = graph[s.on]
    BY <1>2, <2>1 DEF NothingLost, Fits
  <2>3. s.kind \in {"prepared", "slot"} => disp'[s.on] = disp[s.on]
    BY <2>1 DEF NothingLost, Fits, Holds, Uploading
  <2>4. SectionList(t)' = SectionList(t)
    BY <2>2, <2>3 DEF SectionList, Still
  <2>5. Head(todo'[t]) = Head(todo[t]) /\ id'[t] = id[t]
    BY DEF Still
  <2>6. Submitted(t, awaits[t])' = Submitted(t, awaits[t])
    BY <2>4, <2>5 DEF Submitted, OnDeviceList, Still
  <2> QED
    BY <1>2, <2>6 DEF Awaited, Still
<1> QED
  BY <1>1, <1>2

LEMMA LeftBehindSame ==
  ASSUME NEW i, NEW j, queue'[i] = queue[j], LeftBehind(j),
         \A d \in DOMAIN Dispatches : disp[d].there => disp'[d] = disp[d]
  PROVE  LeftBehind(i)'
<1>1. PICK d \in DOMAIN Dispatches : IsListOf(j, d)
  BY DEF LeftBehind
<1>2. IsListOf(i, d)'
  BY <1>1 DEF IsListOf
<1> QED
  BY <1>1, <1>2 DEF LeftBehind

LEMMA InCallSame ==
  ASSUME NEW t \in Threads, Still(t), NothingLost, InCall(t)
  PROVE  InCall(t)'
<1>1. pc[t] # "idle" => Holds(t)'
  <2>1. pc[t] # "idle" => call[t] \in Uses[t] /\ Holds(t)
    BY DEF InCall
  <2>2. pc[t] # "idle" /\ call[t].kind \in {"execute", "execute_upload"} => call[t].on \in DOMAIN Dispatches
    BY <2>1, CallsAssumption
  <2> QED
    BY <2>1, <2>2 DEF NothingLost, Still, Holds
<1> QED
  BY <1>1 DEF InCall, Still

\* One thread moves and the others stay.
Moving(t) ==
  /\ \A u \in Threads \ {t} : Still(u)
  /\ mutex' = mutex \/ mutex \in {t, NoOne}

LEMMA OthersKeep ==
  ASSUME ListInv, NEW t \in Threads, Moving(t), NothingLost, NEW u \in Threads \ {t}
  PROVE  /\ InCall(u)' /\ Locked(u)' /\ Turned(u)' = Turned(u) /\ Still(u) /\ InCall(u)
<1>1. InCall(u) /\ Locked(u) /\ Still(u)
  BY DEF ListInv, Moving
<1>2. Turned(u)' = Turned(u)
  BY <1>1, TurnedSame DEF Still
<1>3. InCall(u)'
  BY <1>1, InCallSame
<1>4. Locked(u)'
  <2>1. CASE mutex' = mutex
    BY <1>1, <1>2, <2>1 DEF Locked, Still
  <2>2. CASE mutex \in {t, NoOne}
    <3>1. mutex # u
      BY <2>2, NativeAssumption DEF NoOne
    <3> QED
      BY <1>1, <3>1 DEF Locked, Still
  <2> QED
    BY <2>1, <2>2 DEF Moving
<1> QED
  BY <1>1, <1>2, <1>3, <1>4

\* The queue is as it was, and so is what is awaited.
LEMMA QueueKeeps ==
  ASSUME ListInv, NEW t \in Threads, Moving(t), NothingLost,
         UNCHANGED <<queue, issued, completed>>, pc[t] # "waiting", pc'[t] # "waiting"
  PROVE  Lined' /\ Ordered'
<1>1. Lined /\ Ordered
  BY DEF ListInv
<1>2. \A i : LeftBehind(i) => LeftBehind(i)'
  BY LeftBehindSame DEF NothingLost
<1>3. \A u \in Threads \ {t} : \A i : Awaited(i, u)' <=> Awaited(i, u)
  BY OthersKeep, AwaitedSame
<1>4. \A i : ~Awaited(i, t) /\ ~Awaited(i, t)'
  BY DEF Awaited
<1>5. \A u \in Threads : \A i : Awaited(i, u)' <=> Awaited(i, u)
  BY <1>3, <1>4
<1>6. \A u \in Threads : pc'[u] = "waiting" => pc[u] = "waiting" /\ awaits'[u] = awaits[u]
  BY DEF Moving, Still
<1>7. Lined'
  BY <1>1, <1>2, <1>5, <1>6 DEF Lined
<1>8. Ordered'
  BY <1>1 DEF Ordered
<1> QED
  BY <1>7, <1>8

LEMMA RestsKeep ==
  ASSUME ListInv, UNCHANGED gpu, faults' = faults
  PROVE  Resting' /\ Blameless'
BY DEF ListInv, Resting, Blameless

\* Tracked states that nobody turns stay.
LEMMA StatesKeep ==
  ASSUME ListInv, NEW t \in Threads, Moving(t), NothingLost, UNCHANGED state,
         pc[t] # "recording"
  PROVE  Settled'
<1>1. Settled
  BY DEF ListInv
<1>2. \A u \in Threads : pc[u] = "recording" => pc'[u] = "recording" /\ Turned(u)' = Turned(u)
  BY OthersKeep DEF Still
<1> QED
  BY <1>1, <1>2 DEF Settled

------------------------------------------------------------------------------
(* The GPU                                                                    *)

Ahead == [state |-> gpu, mem |-> mem, dirty |-> {}, faults |-> faults, live |-> Live]

LEMMA Drained ==
  ASSUME NEW a, NEW b, NEW c, NEW e, NEW f,
         NEW n, n = [state |-> a, mem |-> b, dirty |-> c, faults |-> e, live |-> f]
  PROVE  [n EXCEPT !.dirty = {}] = [state |-> a, mem |-> b, dirty |-> {}, faults |-> e, live |-> f]
OBVIOUS

\* What a list leaves in the readback of its thread.
Got(item, bytes) ==
  IF CopiedCells(item.cmds) = {} THEN readback[item.who] ELSE UNION {bytes[x] : x \in CopiedCells(item.cmds)}

LEMMA GpuRan ==
  ASSUME ListInv, GpuExecute, NEW item, item = Head(queue), NEW cmds, cmds = Loaded(item)
  PROVE  /\ Ready(Ahead) /\ item.by \in Nat /\ Fine(cmds)
         /\ \E n : /\ n = Ran(Ahead, cmds, item.by) /\ Ready(n)
                   /\ gpu' = n.state /\ mem' = n.mem /\ faults' = n.faults
                   /\ readback' = [readback EXCEPT ![item.who] = Got(item, n.mem)]
         /\ completed' = (IF item.fence = 0 THEN completed ELSE item.fence)
         /\ queue # <<>> /\ queue' = Tail(queue)
<1>1. queue # <<>>
  BY DEF GpuExecute
<1>2. Fine(cmds) /\ item.by \in Nat /\ item.who \in Threads /\ (item.device => StillHeld(item))
  BY <1>1, ItemRuns
<1>3. Shapes /\ Resting
  BY DEF ListInv
<1>4. gpu \in [Resources -> {"COMMON"}] /\ mem \in [Cells -> SUBSET Nat] /\ faults \subseteq Wrongs /\ Live \subseteq Nat
  BY <1>3, LiveHas DEF Shapes, Resting
<1>5. Ready(Ahead)
  BY <1>4 DEF Ahead, Ready, Machine, AtRest, States
<1>6. PICK n : n = Ran(Ahead, cmds, item.by)
  OBVIOUS
<1>7. Ready(n)
  BY <1>2, <1>5, <1>6 DEF Fine, Clean
<1>8. Execute(Ahead, cmds, item.by) = [n EXCEPT !.dirty = {}]
  <2>1. AllTouched(cmds) \subseteq Ahead.live
    BY <1>2 DEF Fine, Ahead
  <2>2. Fault(Ahead, "freed", ~(AllTouched(cmds) \subseteq Ahead.live)) = Ahead
    BY <2>1 DEF Fault
  <2> QED
    BY ONLY <1>6, <2>2 DEF Execute, Ran
<1>9. PICK m : m = [n EXCEPT !.dirty = {}]
  OBVIOUS
<1>10. m.state = n.state /\ m.mem = n.mem /\ m.faults = n.faults
  <2>1. n \in Machine(Resources, Cells)
    BY <1>7 DEF Ready
  <2> QED
    BY ONLY <1>9, <2>1 DEF Machine
<1>11. /\ gpu' = m.state /\ mem' = m.mem
       /\ faults' = m.faults \cup (IF item.device /\ ~StillHeld(item) THEN {"freed"} ELSE {})
       /\ readback' = [readback EXCEPT ![item.who] = Got(item, m.mem)]
       /\ completed' = (IF item.fence = 0 THEN completed ELSE item.fence)
       /\ queue' = Tail(queue)
  <2>1. m = Execute([state |-> gpu, mem |-> mem, dirty |-> {}, faults |-> faults, live |-> Live], Loaded(item), item.by)
    BY <1>8, <1>9 DEF Ahead
  <2>2. PICK it \in {Head(queue)} :
          \E k \in {Execute([state |-> gpu, mem |-> mem, dirty |-> {}, faults |-> faults, live |-> Live], Loaded(it), it.by)} :
             /\ gpu' = k.state /\ mem' = k.mem
             /\ faults' = k.faults \cup (IF it.device /\ ~StillHeld(it) THEN {"freed"} ELSE {})
             /\ readback' = [readback EXCEPT ![it.who] = Got(it, k.mem)]
             /\ completed' = (IF it.fence = 0 THEN completed ELSE it.fence)
             /\ queue' = Tail(queue)
    BY ONLY GpuExecute DEF GpuExecute, CopiedCells, Got
  <2> QED
    BY ONLY <2>1, <2>2, item = Head(queue)
<1>12. faults' = n.faults
  BY <1>2, <1>10, <1>11
<1>13. readback' = [readback EXCEPT ![item.who] = Got(item, n.mem)]
  BY <1>10, <1>11
<1> QED
  BY ONLY <1>1, <1>2, <1>5, <1>6, <1>7, <1>10, <1>11, <1>12, <1>13

LEMMA TailIs ==
  ASSUME NEW q, q \in Seq(Range(q)), q # <<>>
  PROVE  /\ Tail(q) \in Seq(Range(Tail(q))) /\ Len(Tail(q)) = Len(q) - 1 /\ Len(q) \in Nat \ {0}
         /\ \A i \in 1 .. Len(Tail(q)) : i + 1 \in 1 .. Len(q) /\ Tail(q)[i] = q[i + 1]
<1>1. Len(q) \in Nat \ {0} /\ Tail(q) \in Seq(Range(q)) /\ Len(Tail(q)) = Len(q) - 1
  OBVIOUS
<1>2. \A i \in 1 .. Len(Tail(q)) : i + 1 \in 1 .. Len(q) /\ Tail(q)[i] = q[i + 1]
  BY <1>1
<1>3. DOMAIN Tail(q) = 1 .. Len(Tail(q)) /\ Tail(q) \in [1 .. Len(Tail(q)) -> Range(q)]
  BY <1>1, LenProperties
<1>4. \A i \in 1 .. Len(Tail(q)) : Tail(q)[i] \in Range(Tail(q))
  BY <1>3 DEF Range
<1>5. Tail(q) \in Seq(Range(Tail(q)))
  <2>1. Tail(q) \in [1 .. Len(Tail(q)) -> Range(Tail(q))]
    BY <1>3, <1>4
  <2>2. Len(Tail(q)) \in Nat
    BY <1>1
  <2> QED
    BY ONLY <2>1, <2>2, Mapped
<1> QED
  BY <1>1, <1>2, <1>5

LEMMA GpuKeepsLists ==
  ASSUME ListInv, GpuExecute
  PROVE  ListInv'
<1> DEFINE item == Head(queue)
<1>1. queue # <<>> /\ queue' = Tail(queue) /\ completed' = IF item.fence = 0 THEN completed ELSE item.fence
  BY GpuRan
<1>2. PICK n : /\ Ready(n) /\ gpu' = n.state /\ mem' = n.mem /\ faults' = n.faults
               /\ n = Ran(Ahead, Loaded(item), item.by)
               /\ readback' = [readback EXCEPT ![item.who] = Got(item, n.mem)]
  BY GpuRan
<1>3. /\ UNCHANGED <<state, graph, disp, slots, next, mutex, pc, call, id, todo, before, issued, awaits>>
      /\ UNCHANGED <<spec, answers, calls>>
  BY DEF GpuExecute, objects, rings, local
<1>4. Shapes /\ Lined /\ Ordered
  BY DEF ListInv
<1>5. /\ queue' \in Seq(Range(queue')) /\ Len(queue') = Len(queue) - 1 /\ Len(queue) \in Nat \ {0}
      /\ \A i \in 1 .. Len(queue') : i + 1 \in 1 .. Len(queue) /\ queue'[i] = queue[i + 1]
  BY <1>1, <1>4, TailIs DEF Shapes
<1>6. item = queue[1]
  BY <1>1, <1>4 DEF Shapes
<1>7. \A t : Still(t) /\ Turned(t)' = Turned(t)
  BY <1>3, TurnedSame DEF Still
<1>8. Shapes'
  <2>1. mem' \in [Cells -> SUBSET Nat] /\ faults' \subseteq Wrongs
    BY <1>2 DEF Ready, Machine
  <2>2. completed' \in Nat
    <3>1. item.fence \in Nat /\ completed \in Nat
      <4>1. 1 \in 1 .. Len(queue) /\ issued \in Nat /\ completed \in Nat
        BY <1>4, <1>5 DEF Shapes
      <4>2. queue[1].fence \in 0 .. issued
        BY <1>4, <4>1 DEF Ordered
      <4> QED
        BY <1>6, <4>1, <4>2
    <3> QED
      BY <1>1, <3>1
  <2>3. DOMAIN readback' = DOMAIN readback
    BY <1>2
  <2> QED
    BY <1>3, <1>4, <1>5, <2>1, <2>2, <2>3 DEF Shapes
<1>9. NothingLost /\ \A t \in Threads : InCall(t)'
  <2>1. NothingLost
    BY <1>3 DEF NothingLost
  <2>2. \A t \in Threads : InCall(t)
    BY DEF ListInv
  <2> QED
    BY <1>7, <2>1, <2>2, InCallSame
<1>10. \A t \in Threads : Locked(t)'
  <2>1. \A t \in Threads : Locked(t)
    BY DEF ListInv
  <2> QED
    BY <1>3, <1>7, <2>1 DEF Locked
<1>11. Settled'
  <2>1. Settled
    BY DEF ListInv
  <2> QED
    BY <1>3, <1>7, <2>1 DEF Settled
<1>12. Recorded'
  BY <1>3 DEF ListInv, Recorded
<1>13. Lined'
  <2>1. ASSUME NEW i \in 1 .. Len(queue')
        PROVE  LeftBehind(i)' \/ (i = Len(queue') /\ \E t \in Threads : Awaited(i, t)')
    <3>1. i + 1 \in 1 .. Len(queue) /\ queue'[i] = queue[i + 1]
      BY <1>5
    <3>2. CASE LeftBehind(i + 1)
      BY <1>3, <3>1, <3>2, LeftBehindSame
    <3>3. CASE i + 1 = Len(queue) /\ \E t \in Threads : Awaited(i + 1, t)
      <4>1. PICK t \in Threads : Awaited(i + 1, t)
        BY <3>3
      <4>2. Awaited(i, t)'
        BY <1>7, <1>9, <3>1, <4>1, AwaitedSame DEF ListInv
      <4> QED
        BY <1>5, <3>3, <4>2
    <3> QED
      BY <1>4, <3>1, <3>2, <3>3 DEF Lined
  <2>2. ASSUME NEW t \in Threads, pc'[t] = "waiting"
        PROVE  awaits'[t] # 0 /\ \A i \in 1 .. Len(queue') : i = Len(queue') => Awaited(i, t)'
    <3>1. awaits[t] # 0 /\ \A i \in 1 .. Len(queue) : i = Len(queue) => Awaited(i, t)
      BY <1>3, <1>4, <2>2 DEF Lined
    <3>2. ASSUME NEW i \in 1 .. Len(queue'), i = Len(queue')
          PROVE  Awaited(i, t)'
      <4>1. queue'[i] = queue[i + 1] /\ Awaited(i + 1, t)
        BY <1>5, <3>1, <3>2
      <4> QED
        BY <1>7, <1>9, <4>1, AwaitedSame DEF ListInv
    <3> QED
      BY <1>3, <3>1, <3>2
  <2> QED
    BY <2>1, <2>2 DEF Lined
<1>14. Ordered'
  <2>1. item.fence \in 0 .. issued /\ completed \in Nat /\ issued \in Nat /\ completed <= issued
    BY <1>4, <1>5, <1>6 DEF Ordered, Shapes
  <2>2. completed' <= issued
    BY <1>1, <2>1
  <2>3. ASSUME NEW i \in 1 .. Len(queue')
        PROVE  /\ queue'[i].fence \in 0 .. issued
               /\ queue'[i].fence # 0 =>
                    /\ completed' < queue'[i].fence
                    /\ \A j \in 1 .. i - 1 : queue'[j].fence < queue'[i].fence
    <3>1. i + 1 \in 1 .. Len(queue) /\ queue'[i] = queue[i + 1] /\ 1 \in 1 .. (i + 1) - 1
      BY <1>5
    <3>2. /\ queue[i + 1].fence \in 0 .. issued
          /\ queue[i + 1].fence # 0 =>
               /\ completed < queue[i + 1].fence
               /\ \A j \in 1 .. (i + 1) - 1 : queue[j].fence < queue[i + 1].fence
      BY <1>4, <3>1 DEF Ordered
    <3>3. \A j \in 1 .. i - 1 : queue'[j] = queue[j + 1] /\ j + 1 \in 1 .. (i + 1) - 1
      BY <1>5
    <3> QED
      BY <1>1, <1>6, <2>1, <3>1, <3>2, <3>3
  <2> QED
    BY <1>3, <2>2, <2>3 DEF Ordered
<1>15. Resting'
  BY <1>2 DEF Ready, Machine, AtRest, Resting
<1>16. Blameless'
  <2>1. Blameless /\ Ready(Ahead) /\ item.by \in Nat /\ Fine(Loaded(item))
    BY GpuRan DEF ListInv
  <2>2. /\ n.faults \subseteq Ahead.faults \cup {"misstated", "misuse"}
        /\ (~\E g \in DOMAIN Graphs : Doubled(g)) => n.faults = Ahead.faults
    BY <1>2, <2>1 DEF Fine, Clean
  <2>3. Ahead.faults = faults
    BY DEF Ahead
  <2> QED
    BY <1>2, <2>1, <2>2, <2>3 DEF Blameless
<1> QED
  BY <1>8, <1>9, <1>10, <1>11, <1>12, <1>13, <1>14, <1>15, <1>16 DEF ListInv

------------------------------------------------------------------------------
(* The steps of a thread                                                      *)

LEMMA SectionsAre ==
  ASSUME NEW t \in Threads, NEW c \in Uses[t], c.kind # "execute_upload"
  PROVE  SectionsOf(c) \in Seq(Parts(c)) /\ SectionsOf(c) # <<>>
<1>1. CASE c.kind = "run"
  <2> DEFINE d == Graphs[c.on]
             f == [i \in 1 .. d.inputs |-> [kind |-> "fill", on |-> ValueOf(c.on, i - 1)]]
             g == <<[kind |-> "graph", on |-> c.on], [kind |-> "read", on |-> ValueOf(c.on, d.output)]>>
  <2>1. c.on \in DOMAIN Graphs
    BY <1>1, CallsAssumption
  <2>2. d.inputs \in Nat
    BY <2>1, NativeAssumption
  <2>3. \A i \in 1 .. d.inputs : f[i] \in Parts(c)
    <3>1. ASSUME NEW i \in 1 .. d.inputs
          PROVE  f[i] \in Parts(c)
      <4>1. i - 1 \in 0 .. d.inputs - 1 /\ f[i] = [kind |-> "fill", on |-> ValueOf(c.on, i - 1)]
        BY <2>2
      <4> QED
        BY <1>1, <4>1 DEF Parts
    <3> QED
      BY <3>1
  <2>4. f \in [1 .. d.inputs -> Parts(c)]
    BY <2>3
  <2>5. f \in Seq(Parts(c))
    BY ONLY <2>2, <2>4, Mapped
  <2>6. g \in Seq(Parts(c)) /\ Len(g) = 2
    BY <1>1 DEF Parts
  <2>7. SectionsOf(c) = f \o g
    BY <1>1 DEF SectionsOf
  <2> HIDE DEF f, g
  <2> QED
    BY <2>5, <2>6, <2>7
<1>2. CASE c.kind = "download"
  BY <1>2 DEF SectionsOf, Parts
<1>3. CASE c.kind = "execute"
  BY <1>3 DEF SectionsOf, Parts
<1>4. CASE c.kind \notin Calls
  BY <1>4 DEF SectionsOf, Parts, Calls
<1> QED
  BY <1>1, <1>2, <1>3, <1>4 DEF Calls

LEMMA CallKeepsLists ==
  ASSUME ListInv, NEW t \in Threads, NEW c \in Uses[t], Call(t, c)
  PROVE  ListInv'
<1>1. /\ pc[t] = "idle" /\ MayCall(c) /\ calls' = calls + 1 /\ id' = [id EXCEPT ![t] = calls + 1]
      /\ call' = [call EXCEPT ![t] = c] /\ todo' = [todo EXCEPT ![t] = SectionsOf(c)]
      /\ pc' = [pc EXCEPT ![t] = IF c.kind = "execute_upload" THEN "filling" ELSE "ready"]
      /\ UNCHANGED <<state, graph, disp, slots, next, mutex, before, issued, completed, awaits>>
      /\ UNCHANGED <<queue, readback, gpu, mem, faults, spec, answers>>
  BY DEF Call, objects, rings, fences, gpuVars
<1>2. Shapes
  BY DEF ListInv
<1>3. Moving(t) /\ NothingLost
  BY <1>1, <1>2 DEF Moving, Still, NothingLost, Shapes
<1>4. pc'[t] = (IF c.kind = "execute_upload" THEN "filling" ELSE "ready")
      /\ call'[t] = c /\ todo'[t] = SectionsOf(c)
  BY <1>1, <1>2 DEF Shapes
<1>5. Shapes'
  <2>1. id' \in [Threads -> Nat] /\ calls' \in Nat
    BY <1>1, <1>2 DEF Shapes
  <2>2. pc' \in [Threads -> Inside \cup {"idle", "filling", "bumping"}]
    BY <1>1, <1>2 DEF Shapes, Inside
  <2>3. DOMAIN call' = Threads /\ DOMAIN todo' = Threads
    BY <1>1, <1>2 DEF Shapes
  <2> QED
    BY <1>1, <1>2, <2>1, <2>2, <2>3 DEF Shapes
<1>6. \A u \in Threads : InCall(u)'
  <2>1. InCall(t)'
    <3>1. Holds(t)'
      BY <1>1, <1>4 DEF Holds, MayCall
    <3>2. c.kind # "execute_upload" => SectionsOf(c) \in Seq(Parts(c)) /\ SectionsOf(c) # <<>>
      BY SectionsAre
    <3> QED
      BY <1>4, <3>1, <3>2 DEF InCall, Inside
  <2> QED
    BY <1>3, <2>1, OthersKeep
<1>7. \A u \in Threads : Locked(u)'
  <2>1. Locked(t)'
    BY <1>4 DEF Locked
  <2> QED
    BY <1>3, <2>1, OthersKeep
<1>8. Settled'
  BY <1>1, <1>3, StatesKeep
<1>9. Recorded'
  BY <1>1 DEF ListInv, Recorded
<1>10. Lined' /\ Ordered'
  BY <1>1, <1>3, <1>4, QueueKeeps
<1>11. Resting' /\ Blameless'
  BY <1>1, RestsKeep
<1> QED
  BY <1>5, <1>6, <1>7, <1>8, <1>9, <1>10, <1>11 DEF ListInv

LEMMA NextSlotIs ==
  ASSUME Shapes, NEW d \in DOMAIN Dispatches
  PROVE  NextSlot(d) \in Slots(d) /\ NextSlot(d) = next[d] % Dispatches[d].ring
<1>1. next[d] \in Nat
  BY DEF Shapes
<1>2. Dispatches[d].ring \in 1 .. 8
  BY NativeAssumption
<1>3. next[d] % Dispatches[d].ring \in 0 .. Dispatches[d].ring - 1
  BY <1>1, <1>2
<1> QED
  BY <1>3 DEF NextSlot, Slots

LEMMA FillSlotKeepsLists ==
  ASSUME ListInv, NEW t \in Threads, FillSlot(t)
  PROVE  ListInv'
<1> DEFINE d == call[t].on
           k == NextSlot(d)
<1>0. Shapes /\ InCall(t) /\ pc[t] = "filling"
  BY DEF ListInv, FillSlot
<1>1. call[t] \in Uses[t] /\ Holds(t) /\ call[t].kind = "execute_upload" /\ d \in DOMAIN Dispatches
  BY <1>0, CallsAssumption DEF InCall
<1>2. k \in Slots(d) /\ k = next[d] % Dispatches[d].ring
  BY <1>0, <1>1, NextSlotIs
<1> HIDE DEF d, k
<1>3. PICK n \in Lengths : slots' = [slots EXCEPT ![d][k] = [i \in 1 .. Width |-> IF i <= n THEN id[t] ELSE @[i]]]
  BY <1>2 DEF FillSlot, d
<1>4. /\ todo' = [todo EXCEPT ![t] = <<[kind |-> "slot", on |-> d, slot |-> k]>>]
      /\ pc' = [pc EXCEPT ![t] = "ready"]
      /\ UNCHANGED <<state, graph, disp, next, mutex, call, id, before, issued, completed, awaits>>
      /\ UNCHANGED <<queue, readback, gpu, mem, faults, spec, answers, calls>>
  BY DEF FillSlot, objects, fences, gpuVars, d, k
<1>5. Moving(t) /\ NothingLost
  BY <1>0, <1>4 DEF Moving, Still, NothingLost, Shapes
<1>6. pc'[t] = "ready" /\ todo'[t] = <<[kind |-> "slot", on |-> d, slot |-> k]>> /\ call'[t] = call[t]
  BY <1>0, <1>4 DEF Shapes
<1>7. \A e \in DOMAIN Dispatches : slots'[e] \in [Slots(e) -> [1 .. Width -> Nat]]
  <2>1. DOMAIN slots = DOMAIN Dispatches /\ id[t] \in Nat
        /\ \A e \in DOMAIN Dispatches : slots[e] \in [Slots(e) -> [1 .. Width -> Nat]]
    BY <1>0 DEF Shapes
  <2>2. \A e \in DOMAIN Dispatches : e # d => slots'[e] = slots[e]
    BY <1>3, <2>1
  <2> DEFINE w == [i \in 1 .. Width |-> IF i <= n THEN id[t] ELSE slots[d][k][i]]
  <2>3. slots'[d] = [slots[d] EXCEPT ![k] = w]
    BY <1>1, <1>3, <2>1
  <2>4. w \in [1 .. Width -> Nat]
    <3>1. slots[d][k] \in [1 .. Width -> Nat]
      BY <1>1, <1>2, <2>1
    <3> QED
      BY <2>1, <3>1
  <2> HIDE DEF w
  <2>5. slots'[d] \in [Slots(d) -> [1 .. Width -> Nat]]
    BY <1>1, <2>1, <2>3, <2>4
  <2> QED
    BY <2>1, <2>2, <2>5
<1>8. Shapes'
  <2>1. DOMAIN slots' = DOMAIN Dispatches
    BY <1>0, <1>3 DEF Shapes
  <2>2. pc' \in [Threads -> Inside \cup {"idle", "filling", "bumping"}] /\ DOMAIN todo' = Threads
    BY <1>0, <1>4 DEF Shapes, Inside
  <2> QED
    BY <1>0, <1>4, <1>7, <2>1, <2>2 DEF Shapes
<1>9. \A u \in Threads : InCall(u)'
  <2>1. InCall(t)'
    <3>1. Holds(t)'
      BY <1>1, <1>4 DEF Holds
    <3>2. [kind |-> "slot", on |-> d, slot |-> k] \in Parts(call[t])
      BY <1>1, <1>2 DEF Parts, d
    <3> QED
      BY <1>1, <1>6, <3>1, <3>2 DEF InCall, Inside
  <2> QED
    BY <1>5, <2>1, OthersKeep
<1>10. \A u \in Threads : Locked(u)'
  <2>1. Locked(t)'
    BY <1>6 DEF Locked
  <2> QED
    BY <1>5, <2>1, OthersKeep
<1>11. Settled'
  BY <1>0, <1>4, <1>5, StatesKeep
<1>12. Recorded'
  BY <1>4 DEF ListInv, Recorded
<1>13. Lined' /\ Ordered'
  BY <1>0, <1>4, <1>5, <1>6, QueueKeeps
<1>14. Resting' /\ Blameless'
  BY <1>4, RestsKeep
<1> QED
  BY <1>8, <1>9, <1>10, <1>11, <1>12, <1>13, <1>14 DEF ListInv

LEMMA TurnedToSpace ==
  ASSUME Shapes, NEW t \in Threads, Fits(call[t], Head(todo[t]))
  PROVE  TurnedTo(t) \in [Handles -> States]
<1> DEFINE s == Head(todo[t])
<1>1. \A h : Wanted(h, Last(s.on)) \in States
  BY DEF Wanted, States
<1>2. state \in [Handles -> States] /\ "COPY_DEST" \in States /\ "COPY_SOURCE" \in States
  BY DEF Shapes, States
<1> QED
  BY <1>1, <1>2 DEF TurnedTo

\* While one thread is inside a section, no other is.
LEMMA OneInside ==
  ASSUME ListInv, NEW t \in Threads, mutex \in {t, NoOne}
  PROVE  /\ \A u \in Threads \ {t} : pc[u] \notin {"recording", "waiting"}
         /\ mutex = NoOne => pc[t] \notin {"recording", "waiting"}
<1>1. \A u \in Threads : Locked(u) /\ u # NoOne
  BY NativeAssumption DEF ListInv, NoOne
<1> QED
  BY <1>1 DEF Locked

LEMMA OnlyLeftBehind ==
  ASSUME ListInv, \A u \in Threads : pc[u] # "waiting"
  PROVE  \A i \in 1 .. Len(queue) : LeftBehind(i)
BY DEF ListInv, Lined, Awaited

LEMMA RecordKeepsLists ==
  ASSUME ListInv, NEW t \in Threads, Record(t)
  PROVE  ListInv'
<1>0. Shapes /\ InCall(t) /\ pc[t] = "ready" /\ mutex = NoOne /\ mutex' = t
  BY DEF ListInv, Record
<1>1. /\ before' = [before EXCEPT ![t] = [h \in Turned(t) |-> state[h]]] /\ state' = TurnedTo(t)
      /\ pc' = [pc EXCEPT ![t] = "recording"]
      /\ UNCHANGED <<graph, disp, slots, next, call, id, todo, issued, completed, awaits>>
      /\ UNCHANGED <<queue, readback, gpu, mem, spec, answers, calls>>
  BY DEF Record, objects, rings, fences
<1>2. Fits(call[t], Head(todo[t]))
  BY <1>0, SectionIn DEF Inside
<1>3. \A u \in Threads : pc[u] \notin {"recording", "waiting"}
  BY <1>0, OneInside
<1>4. faults' = faults
  <2>1. \A i \in 1 .. Len(queue) : ~queue[i].device
    BY <1>3, OnlyLeftBehind DEF LeftBehind
  <2>2. ~\E i \in DOMAIN queue : queue[i].device
    BY <1>0, <2>1 DEF Shapes
  <2> QED
    BY <2>2 DEF Record
<1>5. \A h \in Handles : state[h] = "COMMON"
  BY <1>3 DEF ListInv, Settled
<1>6. Moving(t) /\ NothingLost
  BY <1>0, <1>1 DEF Moving, Still, NothingLost, Shapes
<1>7. pc'[t] = "recording" /\ before'[t] = [h \in Turned(t) |-> state[h]] /\ Turned(t)' = Turned(t)
  BY <1>0, <1>1, TurnedSame DEF Shapes
<1>8. Turned(t) \subseteq Handles
  BY <1>2, TurnedSpace
<1>9. Shapes'
  <2>1. state' \in [Handles -> States]
    BY <1>0, <1>1, <1>2, TurnedToSpace
  <2>2. pc' \in [Threads -> Inside \cup {"idle", "filling", "bumping"}] /\ DOMAIN before' = Threads
    BY <1>0, <1>1 DEF Shapes, Inside
  <2> QED
    BY <1>0, <1>1, <1>4, <2>1, <2>2 DEF Shapes
<1>10. \A u \in Threads : InCall(u)'
  <2>1. InCall(t)'
    BY <1>0, <1>1, <1>7 DEF InCall, Inside, Holds
  <2> QED
    BY <1>6, <2>1, OthersKeep
<1>11. \A u \in Threads : Locked(u)'
  <2>1. Locked(t)'
    BY <1>0, <1>5, <1>7, <1>8 DEF Locked
  <2> QED
    BY <1>6, <2>1, OthersKeep
<1>12. Settled'
  <2>1. \A h \in Handles : h \notin Turned(t) => state'[h] = "COMMON"
    BY <1>1, <1>5 DEF TurnedTo
  <2> QED
    BY <1>7, <2>1 DEF Settled
<1>13. Recorded'
  BY <1>1 DEF ListInv, Recorded
<1>14. Lined' /\ Ordered'
  BY <1>0, <1>1, <1>6, <1>7, QueueKeeps
<1>15. Resting' /\ Blameless'
  BY <1>1, <1>4, RestsKeep
<1> QED
  BY <1>9, <1>10, <1>11, <1>12, <1>13, <1>14, <1>15 DEF ListInv

LEMMA AppendIs ==
  ASSUME NEW q, q \in Seq(Range(q)), NEW e
  PROVE  /\ Append(q, e) \in Seq(Range(Append(q, e))) /\ Len(q) \in Nat
         /\ Len(Append(q, e)) = Len(q) + 1 /\ Append(q, e)[Len(q) + 1] = e
         /\ \A i \in 1 .. Len(q) : Append(q, e)[i] = q[i]
<1> DEFINE T == Range(q) \cup {e}
           a == Append(q, e)
<1>1. q \in Seq(T)
  OBVIOUS
<1>2. a \in Seq(T) /\ Len(q) \in Nat /\ Len(a) = Len(q) + 1 /\ a[Len(q) + 1] = e
      /\ \A i \in 1 .. Len(q) : a[i] = q[i]
  BY <1>1
<1>3. a \in [1 .. Len(a) -> T]
  BY <1>2, LenProperties
<1>4. \A i \in 1 .. Len(a) : a[i] \in Range(a)
  BY <1>3 DEF Range
<1>5. a \in [1 .. Len(a) -> Range(a)]
  BY <1>3, <1>4
<1>6. a \in Seq(Range(a))
  <2>1. Len(a) \in Nat
    BY <1>2
  <2> QED
    BY ONLY <1>5, <2>1, Mapped
<1> QED
  BY <1>2, <1>6

\* The states a section leaves behind are those it found, or COMMON.
LEMMA LeavesCommon ==
  ASSUME ListInv, NEW t \in Threads, pc[t] = "recording"
  PROVE  /\ mutex = t /\ \A h \in Handles : LeftIn(t)[h] = "COMMON"
         /\ LeftIn(t) \in [Handles -> States]
         /\ \A u \in Threads : pc[u] # "waiting"
         /\ \A u \in Threads \ {t} : pc[u] # "recording"
<1>1. mutex = t /\ before[t] = [h \in Turned(t) |-> "COMMON"]
  BY DEF ListInv, Locked
<1>2. \A u \in Threads \ {t} : pc[u] \notin {"recording", "waiting"}
  BY <1>1, OneInside
<1>3. \A h \in Handles : h \notin Turned(t) => state[h] = "COMMON"
  BY <1>2 DEF ListInv, Settled
<1>4. \A h \in Handles : LeftIn(t)[h] = "COMMON"
  BY <1>1, <1>3 DEF LeftIn
<1>5. LeftIn(t) \in [Handles -> States]
  <2>1. LeftIn(t) = [h \in Handles |-> LeftIn(t)[h]]
    BY DEF LeftIn
  <2> QED
    BY <1>4, <2>1 DEF States
<1> QED
  BY <1>1, <1>2, <1>4, <1>5

LEMMA AwaitedNow ==
  ASSUME NEW t \in Threads, NEW f, NEW i, queue'[i] = Submitted(t, f),
         call'[t] = call[t], todo'[t] = todo[t], before'[t] = before[t], id'[t] = id[t],
         UNCHANGED <<graph, disp>>, pc'[t] = "waiting", awaits'[t] = f
  PROVE  Awaited(i, t)'
<1>1. SectionList(t)' = SectionList(t)
  BY DEF SectionList
<1>2. Submitted(t, awaits[t])' = Submitted(t, f)
  BY <1>1 DEF Submitted, OnDeviceList
<1> QED
  BY <1>2 DEF Awaited

LEMMA EffectSpace ==
  ASSUME NEW t \in Threads, Fits(call[t], Head(todo[t]))
  PROVE  SectionEffect(t).in \subseteq Cells /\ SectionEffect(t).out \subseteq Cells
<1> DEFINE s == Head(todo[t])
<1>1. ASSUME NEW kind, NEW a, Operands(kind, a), SectionEffect(t) = Effect(Range(Front(a)), Last(a))
      PROVE  SectionEffect(t).in \subseteq Cells /\ SectionEffect(t).out \subseteq Cells
  <2>1. a \in Seq(Handles) /\ Len(a) > 1
    BY ONLY <1>1, OperandsAre
  <2>2. InCells(a) \in SUBSET Cells /\ OutCells(a) \in SUBSET Cells
    BY ONLY <2>1, OperandCells
  <2>3. SectionEffect(t) = [in |-> InCells(a), out |-> OutCells(a)]
    BY <1>1 DEF Effect, InCells, OutCells
  <2> QED
    BY ONLY <2>2, <2>3
<1>2. CASE s.kind = "fill"
  <2>1. SectionEffect(t) = [in |-> UNION {Elements(h) : h \in {}}, out |-> Elements(s.on)]
    BY <1>2 DEF SectionEffect, Effect
  <2>2. Elements(s.on) \subseteq Cells
    BY <1>2, GraphValuesHandles, CellSpace DEF Fits
  <2> QED
    BY ONLY <2>1, <2>2
<1>3. CASE s.kind = "kernel"
  <2>1. Operands(call[t].kind, s.on)
    BY <1>3 DEF Fits
  <2>2. SectionEffect(t) = Effect(Range(Front(s.on)), Last(s.on))
    BY <1>3 DEF SectionEffect
  <2> QED
    BY ONLY <1>1, <2>1, <2>2
<1>4. CASE s.kind \in {"prepared", "slot"}
  <2>1. s.on \in DOMAIN Dispatches
    BY <1>4 DEF Fits, Uploading
  <2>2. Operands(Dispatches[s.on].kind, Dispatches[s.on].args)
    BY <2>1, CallsAssumption
  <2>3. SectionEffect(t) = Effect(Range(Front(Dispatches[s.on].args)), Last(Dispatches[s.on].args))
    BY <1>4 DEF SectionEffect
  <2> QED
    BY ONLY <1>1, <2>2, <2>3
<1>5. CASE s.kind \notin {"fill", "kernel", "prepared", "slot"}
  <2>1. SectionEffect(t) = NoEffect
    BY <1>5 DEF SectionEffect
  <2> QED
    BY ONLY <2>1 DEF NoEffect
<1> QED
  BY <1>2, <1>3, <1>4, <1>5

LEMMA AfterSpace ==
  ASSUME NEW m \in [Cells -> SUBSET Nat], NEW e, e.in \subseteq Cells, NEW by \in Nat
  PROVE  After(m, e, by) \in [Cells -> SUBSET Nat]
<1>1. (UNION {m[x] : x \in e.in}) \cup {by} \in SUBSET Nat
  OBVIOUS
<1> QED
  BY <1>1 DEF After

LEMMA OrderedAppend ==
  ASSUME ListInv, NEW f \in {0, issued + 1}, NEW e, e.fence = f, queue' = Append(queue, e),
         issued' = issued + 1, completed' = completed
  PROVE  Ordered'
<1>1. /\ Len(queue') = Len(queue) + 1 /\ queue'[Len(queue) + 1] = e /\ Len(queue) \in Nat
      /\ \A i \in 1 .. Len(queue) : queue'[i] = queue[i]
  BY AppendIs DEF ListInv, Shapes
<1>2. issued \in Nat /\ completed \in Nat /\ completed <= issued
  BY DEF ListInv, Shapes, Ordered
<1>3. \A i \in 1 .. Len(queue) :
       /\ queue[i].fence \in 0 .. issued
       /\ queue[i].fence # 0 =>
            /\ completed < queue[i].fence
            /\ \A j \in 1 .. i - 1 : queue[j].fence < queue[i].fence
  BY DEF ListInv, Ordered
<1>4. ASSUME NEW i \in 1 .. Len(queue')
      PROVE  /\ queue'[i].fence \in 0 .. issued'
             /\ queue'[i].fence # 0 =>
                  /\ completed' < queue'[i].fence
                  /\ \A j \in 1 .. i - 1 : queue'[j].fence < queue'[i].fence
  <2>1. CASE i \in 1 .. Len(queue)
    <3>1. queue'[i] = queue[i] /\ \A j \in 1 .. i - 1 : queue'[j] = queue[j]
      BY <1>1, <2>1
    <3> QED
      BY <1>2, <1>3, <2>1, <3>1
  <2>2. CASE i = Len(queue) + 1
    <3>1. queue'[i].fence = f
      BY <1>1, <2>2
    <3>2. \A j \in 1 .. i - 1 : queue'[j] = queue[j] /\ j \in 1 .. Len(queue)
      BY <1>1, <2>2
    <3>3. \A j \in 1 .. i - 1 : queue'[j].fence \in 0 .. issued
      BY <1>3, <3>2
    <3> QED
      BY <1>2, <3>1, <3>3
  <2> QED
    BY <1>1, <2>1, <2>2
<1> QED
  BY <1>2, <1>4 DEF Ordered

LEMMA SubmitKeepsLists ==
  ASSUME ListInv, NEW t \in Threads, Submit(t)
  PROVE  ListInv'
<1>0. Shapes /\ InCall(t) /\ pc[t] = "recording" /\ Locked(t)
  BY DEF ListInv, Submit
<1>1. PICK f : f = issued + 1
  OBVIOUS
<1>2. /\ queue' = Append(queue, Submitted(t, f)) /\ issued' = f /\ awaits' = [awaits EXCEPT ![t] = f]
      /\ state' = LeftIn(t) /\ spec' = Meant(t, id[t]) /\ pc' = [pc EXCEPT ![t] = "waiting"]
      /\ UNCHANGED <<graph, disp, slots, next, mutex, call, id, todo, before, completed>>
      /\ UNCHANGED <<readback, gpu, mem, faults, answers, calls>>
  BY <1>1 DEF Submit, objects, rings, gpuVars
<1>3. /\ mutex = t /\ \A h \in Handles : LeftIn(t)[h] = "COMMON"
      /\ LeftIn(t) \in [Handles -> States]
      /\ \A u \in Threads : pc[u] # "waiting"
      /\ \A u \in Threads \ {t} : pc[u] # "recording"
  BY <1>0, LeavesCommon
<1>4. Moving(t) /\ NothingLost
  BY <1>0, <1>2 DEF Moving, Still, NothingLost, Shapes
<1>5. pc'[t] = "waiting" /\ awaits'[t] = f
  BY <1>0, <1>2 DEF Shapes
<1>6. f \in Nat /\ f # 0 /\ issued \in Nat
  BY <1>0, <1>1 DEF Shapes
<1>7. /\ queue' \in Seq(Range(queue')) /\ Len(queue') = Len(queue) + 1 /\ Len(queue) \in Nat
      /\ queue'[Len(queue) + 1] = Submitted(t, f)
      /\ \A i \in 1 .. Len(queue) : queue'[i] = queue[i]
  BY <1>0, <1>2, AppendIs DEF Shapes
<1>8. spec' \in [Cells -> SUBSET Nat]
  <2>1. spec \in [Cells -> SUBSET Nat] /\ id[t] \in Nat
    BY <1>0 DEF Shapes
  <2>2. Fits(call[t], Head(todo[t]))
    BY <1>0, SectionIn DEF Inside
  <2>3. SectionEffect(t).in \subseteq Cells
    BY <2>2, EffectSpace
  <2> QED
    BY <1>2, <2>1, <2>3, AfterSpace DEF Meant
<1>9. Shapes'
  <2>1. pc' \in [Threads -> Inside \cup {"idle", "filling", "bumping"}]
    BY <1>0, <1>2 DEF Shapes, Inside
  <2>2. awaits' \in [Threads -> Nat]
    BY <1>0, <1>2, <1>6 DEF Shapes
  <2> QED
    BY <1>0, <1>2, <1>3, <1>6, <1>7, <1>8, <2>1, <2>2 DEF Shapes
<1>10. \A u \in Threads : InCall(u)'
  <2>1. InCall(t)'
    BY <1>0, <1>2, <1>5 DEF InCall, Inside, Holds
  <2> QED
    BY <1>4, <2>1, OthersKeep
<1>11. \A u \in Threads : Locked(u)'
  <2>1. Turned(t)' = Turned(t)
    BY <1>2, TurnedSame
  <2>2. Locked(t)'
    BY <1>0, <1>2, <1>3, <2>1 DEF Locked
  <2> QED
    BY <1>4, <2>2, OthersKeep
<1>12. Settled'
  BY <1>2, <1>3 DEF Settled
<1>13. Recorded'
  BY <1>2 DEF ListInv, Recorded
<1>14. Lined'
  <2>1. ASSUME NEW i, i = Len(queue) + 1
        PROVE  Awaited(i, t)'
    <3>1. queue'[i] = Submitted(t, f)
      BY <1>7, <2>1
    <3> QED
      BY <1>2, <1>5, <3>1, AwaitedNow
  <2>2. \A i \in 1 .. Len(queue) : LeftBehind(i)'
    <3>1. ASSUME NEW i \in 1 .. Len(queue)
          PROVE  LeftBehind(i)'
      <4>1. LeftBehind(i) /\ queue'[i] = queue[i]
        BY <1>3, <1>7, OnlyLeftBehind
      <4> QED
        BY <1>4, <4>1, LeftBehindSame DEF NothingLost
    <3> QED
      BY <3>1
  <2>3. \A u \in Threads : pc'[u] = "waiting" => u = t
    BY <1>3, <1>4 DEF Moving, Still
  <2>4. ASSUME NEW i \in 1 .. Len(queue')
        PROVE  i \in 1 .. Len(queue) \/ (i = Len(queue) + 1 /\ i = Len(queue'))
    BY <1>7
  <2> QED
    BY <1>5, <1>6, <1>7, <2>1, <2>2, <2>3, <2>4 DEF Lined
<1>15. Ordered'
  <2>1. PICK e : e = Submitted(t, f)
    OBVIOUS
  <2>2. e.fence = f
    BY <2>1 DEF Submitted
  <2> QED
    BY <1>1, <1>2, <2>1, <2>2, OrderedAppend
<1>16. Resting' /\ Blameless'
  BY <1>2, RestsKeep
<1> QED
  BY <1>9, <1>10, <1>11, <1>12, <1>13, <1>14, <1>15, <1>16 DEF ListInv

LEMMA FailWaitKeepsLists ==
  ASSUME ListInv, FailingWaits \subseteq {"prepared", "slot"}, NEW t \in Threads, FailWait(t)
  PROVE  ListInv'
<1>0. Shapes /\ InCall(t) /\ pc[t] = "recording" /\ Locked(t) /\ Recorded
  BY DEF ListInv, FailWait
<1>1. PICK f \in {0, issued + 1} : queue' = Append(queue, Submitted(t, f))
  BY DEF FailWait
<1>2. /\ issued' = issued + 1 /\ state' = LeftIn(t) /\ spec' = Meant(t, Unknown) /\ mutex' = NoOne
      /\ pc' = [pc EXCEPT ![t] = "idle"] /\ todo' = [todo EXCEPT ![t] = <<>>]
      /\ call' = [call EXCEPT ![t] = NoCall] /\ id' = [id EXCEPT ![t] = 0] /\ before' = [before EXCEPT ![t] = <<>>]
      /\ UNCHANGED <<graph, disp, slots, next, completed, awaits>>
      /\ UNCHANGED <<readback, gpu, mem, faults, answers, calls>>
      /\ Head(todo[t]).kind \in FailingWaits
  BY DEF FailWait, Return, objects, rings, gpuVars
<1>3. /\ mutex = t /\ \A h \in Handles : LeftIn(t)[h] = "COMMON"
      /\ LeftIn(t) \in [Handles -> States]
      /\ \A u \in Threads : pc[u] # "waiting"
      /\ \A u \in Threads \ {t} : pc[u] # "recording"
  BY <1>0, LeavesCommon
<1>4. Moving(t) /\ NothingLost
  BY <1>0, <1>2, <1>3 DEF Moving, Still, NothingLost, Shapes
<1>5. pc'[t] = "idle"
  BY <1>0, <1>2 DEF Shapes
<1>6. issued \in Nat
  BY <1>0 DEF Shapes
<1>7. /\ queue' \in Seq(Range(queue')) /\ Len(queue') = Len(queue) + 1 /\ Len(queue) \in Nat
      /\ queue'[Len(queue) + 1] = Submitted(t, f)
      /\ \A i \in 1 .. Len(queue) : queue'[i] = queue[i]
  BY <1>0, <1>1, AppendIs DEF Shapes
<1>8. Fits(call[t], Head(todo[t])) /\ Holds(t)
  BY <1>0, SectionIn DEF Inside
<1>9. spec' \in [Cells -> SUBSET Nat]
  <2>1. spec \in [Cells -> SUBSET Nat] /\ Unknown \in Nat
    BY <1>0, NativeAssumption DEF Shapes, Unknown
  <2>2. SectionEffect(t).in \subseteq Cells
    BY <1>8, EffectSpace
  <2> QED
    BY <1>2, <2>1, <2>2, AfterSpace DEF Meant
<1>10. Shapes'
  <2>1. pc' \in [Threads -> Inside \cup {"idle", "filling", "bumping"}]
    BY <1>0, <1>2 DEF Shapes, Inside
  <2>2. id' \in [Threads -> Nat] /\ DOMAIN call' = Threads /\ DOMAIN todo' = Threads /\ DOMAIN before' = Threads
    BY <1>0, <1>2 DEF Shapes
  <2> QED
    BY <1>0, <1>2, <1>3, <1>6, <1>7, <1>9, <2>1, <2>2 DEF Shapes
<1>11. \A u \in Threads : InCall(u)'
  <2>1. InCall(t)'
    BY <1>5 DEF InCall, Inside
  <2> QED
    BY <1>4, <2>1, OthersKeep
<1>12. \A u \in Threads : Locked(u)'
  <2>1. Locked(t)'
    BY <1>5 DEF Locked
  <2> QED
    BY <1>4, <2>1, OthersKeep
<1>13. Settled'
  BY <1>2, <1>3 DEF Settled
<1>14. Recorded'
  BY <1>0, <1>2 DEF Recorded
<1>15. Lined'
  <2>1. ASSUME NEW i, i = Len(queue) + 1
        PROVE  LeftBehind(i)'
    <3>1. queue'[i] = Submitted(t, f)
      BY <1>7, <2>1
    <3>2. PICK e : e = Submitted(t, f)
      OBVIOUS
    <3>3. PICK d : d = Head(todo[t]).on
      OBVIOUS
    <3>4. /\ d \in DOMAIN Dispatches /\ disp[d].there /\ ~e.device /\ e.cmds = disp[d].cmds
          /\ d \in Uploading => \E k \in Slots(d) : e.ring = <<d, k>>
          /\ d \notin Uploading => e.ring = <<>>
      <4>1. Head(todo[t]).kind \in {"prepared", "slot"}
        BY <1>2
      <4> QED
        BY <1>0, <1>8, <3>2, <3>3, <4>1, SectionOfDispatch
    <3>5. e.by = id[t] /\ e.who = t
      BY <3>2 DEF Submitted
    <3>6. IsListOf(i, d)'
      BY <1>2, <3>1, <3>2, <3>4 DEF IsListOf
    <3>7. id[t] \in Nat
      BY <1>0 DEF Shapes
    <3> QED
      BY <3>1, <3>2, <3>4, <3>5, <3>6, <3>7 DEF LeftBehind
  <2>2. \A i \in 1 .. Len(queue) : LeftBehind(i)'
    <3>1. ASSUME NEW i \in 1 .. Len(queue)
          PROVE  LeftBehind(i)'
      <4>1. LeftBehind(i) /\ queue'[i] = queue[i]
        BY <1>3, <1>7, OnlyLeftBehind
      <4> QED
        BY <1>4, <4>1, LeftBehindSame DEF NothingLost
    <3> QED
      BY <3>1
  <2>3. \A u \in Threads : pc'[u] # "waiting"
    BY <1>3, <1>4, <1>5 DEF Moving, Still
  <2>4. ASSUME NEW i \in 1 .. Len(queue')
        PROVE  i \in 1 .. Len(queue) \/ i = Len(queue) + 1
    BY <1>7
  <2> QED
    BY <1>7, <2>1, <2>2, <2>3, <2>4 DEF Lined
<1>16. Ordered'
  <2>1. PICK e : e = Submitted(t, f)
    OBVIOUS
  <2>2. e.fence = f
    BY <2>1 DEF Submitted
  <2> QED
    BY <1>1, <1>2, <2>1, <2>2, OrderedAppend
<1>17. Resting' /\ Blameless'
  BY <1>2, RestsKeep
<1> QED
  BY <1>10, <1>11, <1>12, <1>13, <1>14, <1>15, <1>16, <1>17 DEF ListInv

\* When a thread wakes its list was the last.
LEMMA WokenQueue ==
  ASSUME ListInv, NEW t \in Threads, pc[t] = "waiting", Reached(t)
  PROVE  queue = <<>> /\ mutex = t /\ \A u \in Threads \ {t} : pc[u] \notin {"recording", "waiting"}
<1>1. Shapes /\ Lined /\ Ordered
  BY DEF ListInv
<1>2. Len(queue) = 0
  <2> SUFFICES ASSUME Len(queue) # 0
               PROVE  FALSE
    OBVIOUS
  <2>1. PICK i : i = Len(queue)
    OBVIOUS
  <2>2. i \in 1 .. Len(queue)
    BY <1>1, <2>1 DEF Shapes
  <2>3. Awaited(i, t) /\ awaits[t] # 0
    BY <1>1, <2>1, <2>2 DEF Lined
  <2>4. queue[i].fence = awaits[t]
    BY <2>3 DEF Awaited, Submitted
  <2>5. completed < awaits[t] /\ queue[i].fence \in 0 .. issued
    BY <1>1, <2>2, <2>3, <2>4 DEF Ordered
  <2>6. completed \in Nat /\ awaits[t] \in Nat
    BY <1>1 DEF Shapes
  <2> QED
    BY <2>5, <2>6 DEF Reached
<1>3. mutex = t
  BY DEF ListInv, Locked
<1> QED
  BY <1>1, <1>2, <1>3, OneInside DEF Shapes

LEMMA TailOf ==
  ASSUME NEW T, NEW s \in Seq(T), Len(s) > 1
  PROVE  Tail(s) \in Seq(T) /\ Tail(s) # <<>> /\ Len(Tail(s)) = Len(s) - 1
         /\ \A i \in 1 .. Len(Tail(s)) : i + 1 \in 1 .. Len(s) /\ Tail(s)[i] = s[i + 1]
<1>1. Tail(s) \in Seq(T) /\ Len(Tail(s)) = Len(s) - 1 /\ Len(s) \in Nat
  OBVIOUS
<1>2. Len(Tail(s)) # 0
  BY <1>1
<1>3. Tail(s) # <<>>
  <2>1. \A q : q = <<>> => Len(q) = 0
    OBVIOUS
  <2> QED
    BY ONLY <1>2, <2>1
<1> QED
  BY <1>1, <1>3

LEMMA WakeKeepsLists ==
  ASSUME ListInv, NEW t \in Threads, Wake(t)
  PROVE  ListInv'
<1>0. Shapes /\ InCall(t) /\ pc[t] = "waiting" /\ Reached(t) /\ mutex' = NoOne
  BY DEF ListInv, Wake
<1>1. queue = <<>> /\ mutex = t /\ \A u \in Threads \ {t} : pc[u] \notin {"recording", "waiting"}
  BY <1>0, WokenQueue
<1>2. /\ UNCHANGED <<state, graph, disp, slots, next, issued, completed, awaits>>
      /\ UNCHANGED <<queue, readback, gpu, mem, faults, spec, calls>>
  BY DEF Wake, objects, rings, fences, gpuVars
<1>3. /\ call[t] \in Uses[t] /\ Holds(t) /\ todo[t] \in Seq(Parts(call[t])) /\ todo[t] # <<>>
      /\ Len(todo[t]) > 0 /\ Fits(call[t], Head(todo[t]))
  BY <1>0, SectionIn DEF Inside
<1>4. \/ /\ Len(todo[t]) > 1 /\ todo' = [todo EXCEPT ![t] = Tail(@)] /\ pc' = [pc EXCEPT ![t] = "ready"]
         /\ UNCHANGED <<call, id, before>>
      \/ /\ Head(todo[t]).kind = "slot" /\ pc' = [pc EXCEPT ![t] = "bumping"]
         /\ UNCHANGED <<call, id, todo, before>>
      \/ Return(t, [pc EXCEPT ![t] = "idle"])
  BY DEF Wake
<1>5. Moving(t) /\ NothingLost
  <2>1. \A u \in Threads \ {t} : Still(u)
    BY <1>0, <1>2, <1>4 DEF Still, Return, Shapes
  <2> QED
    BY <1>1, <1>2, <2>1 DEF Moving, NothingLost
<1>6. pc'[t] \in {"ready", "bumping", "idle"}
  BY <1>0, <1>4 DEF Return, Shapes
<1>7. Shapes'
  <2>1. pc' \in [Threads -> Inside \cup {"idle", "filling", "bumping"}]
    BY <1>0, <1>4 DEF Return, Shapes, Inside
  <2>2. id' \in [Threads -> Nat] /\ DOMAIN call' = Threads /\ DOMAIN todo' = Threads /\ DOMAIN before' = Threads
    BY <1>0, <1>4 DEF Return, Shapes
  <2> QED
    BY <1>0, <1>2, <2>1, <2>2 DEF Shapes
<1>8. \A u \in Threads : InCall(u)'
  <2>1. InCall(t)'
    <3>1. CASE Len(todo[t]) > 1 /\ todo' = [todo EXCEPT ![t] = Tail(@)] /\ pc' = [pc EXCEPT ![t] = "ready"]
               /\ UNCHANGED <<call, id, before>>
      <4>1. todo'[t] = Tail(todo[t]) /\ pc'[t] = "ready"
        BY <1>0, <3>1 DEF Shapes
      <4>2. Tail(todo[t]) \in Seq(Parts(call[t])) /\ Tail(todo[t]) # <<>>
        <5>1. PICK s, T : s = todo[t] /\ T = Parts(call[t])
          OBVIOUS
        <5>2. s \in Seq(T) /\ Len(s) > 1
          BY <1>3, <3>1, <5>1
        <5>3. Tail(s) \in Seq(T) /\ Tail(s) # <<>>
          BY ONLY <5>2, TailOf
        <5> QED
          BY <5>1, <5>3
      <4> QED
        BY <1>2, <1>3, <3>1, <4>1, <4>2 DEF InCall, Holds
    <3>2. CASE Head(todo[t]).kind = "slot" /\ pc' = [pc EXCEPT ![t] = "bumping"] /\ UNCHANGED <<call, id, todo, before>>
      <4>1. pc'[t] = "bumping" /\ call[t].kind = "execute_upload"
        BY <1>0, <1>3, <3>2 DEF Shapes, Fits
      <4> QED
        BY <1>2, <1>3, <3>2, <4>1 DEF InCall, Inside, Holds
    <3>3. CASE Return(t, [pc EXCEPT ![t] = "idle"])
      <4>1. pc'[t] = "idle"
        BY <1>0, <3>3 DEF Return, Shapes
      <4> QED
        BY <4>1 DEF InCall, Inside
    <3> QED
      BY <1>4, <3>1, <3>2, <3>3
  <2> QED
    BY <1>5, <2>1, OthersKeep
<1>9. \A u \in Threads : Locked(u)'
  <2>1. Locked(t)'
    BY <1>6 DEF Locked
  <2> QED
    BY <1>5, <2>1, OthersKeep
<1>10. Settled'
  BY <1>0, <1>2, <1>5, StatesKeep
<1>11. Recorded'
  BY <1>2 DEF ListInv, Recorded
<1>12. Lined' /\ Ordered'
  <2>1. \A u \in Threads : pc'[u] # "waiting"
    BY <1>1, <1>5, <1>6 DEF Moving, Still
  <2>2. queue' = <<>>
    BY <1>1, <1>2
  <2>3. completed' <= issued'
    BY <1>2 DEF ListInv, Ordered
  <2> QED
    BY <2>1, <2>2, <2>3 DEF Lined, Ordered
<1>13. Resting' /\ Blameless'
  BY <1>2, RestsKeep
<1> QED
  BY <1>7, <1>8, <1>9, <1>10, <1>11, <1>12, <1>13 DEF ListInv

LEMMA BumpKeepsLists ==
  ASSUME ListInv, NEW t \in Threads, Bump(t)
  PROVE  ListInv'
<1> DEFINE d == call[t].on
<1>0. Shapes /\ InCall(t) /\ pc[t] = "bumping"
  BY DEF ListInv, Bump
<1>1. d \in DOMAIN Dispatches
  BY <1>0, CallsAssumption DEF InCall
<1>2. /\ next' = [next EXCEPT ![d] = (@ + 1) % Dispatches[d].ring]
      /\ pc' = [pc EXCEPT ![t] = "idle"] /\ todo' = [todo EXCEPT ![t] = <<>>]
      /\ call' = [call EXCEPT ![t] = NoCall] /\ id' = [id EXCEPT ![t] = 0] /\ before' = [before EXCEPT ![t] = <<>>]
      /\ UNCHANGED <<state, graph, disp, slots, mutex, issued, completed, awaits>>
      /\ UNCHANGED <<queue, readback, gpu, mem, faults, spec, answers, calls>>
  BY DEF Bump, Return, objects, fences, gpuVars
<1>3. Moving(t) /\ NothingLost
  BY <1>0, <1>2 DEF Moving, Still, NothingLost, Shapes
<1>4. pc'[t] = "idle"
  BY <1>0, <1>2 DEF Shapes
<1>5. Shapes'
  <2>1. next' \in [DOMAIN Dispatches -> Nat]
    <3>1. next[d] \in Nat /\ Dispatches[d].ring \in Nat \ {0}
      <4> HIDE DEF d
      <4>1. next[d] \in Nat
        BY <1>0, <1>1 DEF Shapes
      <4>2. Dispatches[d].ring \in 1 .. 8
        BY <1>1, NativeAssumption
      <4> QED
        BY ONLY <4>1, <4>2
    <3>2. (next[d] + 1) % Dispatches[d].ring \in Nat
      BY <3>1
    <3> QED
      BY <1>0, <1>2, <3>2 DEF Shapes
  <2>2. pc' \in [Threads -> Inside \cup {"idle", "filling", "bumping"}] /\ id' \in [Threads -> Nat]
        /\ DOMAIN call' = Threads /\ DOMAIN todo' = Threads /\ DOMAIN before' = Threads
    BY <1>0, <1>2 DEF Shapes, Inside
  <2> QED
    BY <1>0, <1>2, <2>1, <2>2 DEF Shapes
<1>6. \A u \in Threads : InCall(u)' /\ Locked(u)'
  <2>1. InCall(t)' /\ Locked(t)'
    BY <1>4 DEF InCall, Locked, Inside
  <2> QED
    BY <1>3, <2>1, OthersKeep
<1>7. Settled'
  BY <1>0, <1>2, <1>3, StatesKeep
<1>8. Recorded'
  BY <1>2 DEF ListInv, Recorded
<1>9. Lined' /\ Ordered'
  BY <1>0, <1>2, <1>3, <1>4, QueueKeeps
<1>10. Resting' /\ Blameless'
  BY <1>2, RestsKeep
<1> QED
  BY <1>5, <1>6, <1>7, <1>8, <1>9, <1>10 DEF ListInv

------------------------------------------------------------------------------
(* Without the mutex                                                          *)

\* Objects come and go beside the sections.
LEMMA ObjectsKeep ==
  ASSUME ListInv, NEW t \in Threads, pc[t] = "idle", NothingLost,
         UNCHANGED <<state, mutex, pc, call, id, todo, before, queue, issued, completed, awaits>>,
         UNCHANGED <<gpu, faults>>
  PROVE  /\ \A u \in Threads : InCall(u)' /\ Locked(u)'
         /\ Settled' /\ Lined' /\ Ordered' /\ Resting' /\ Blameless'
<1>1. Moving(t)
  BY DEF Moving, Still
<1>2. InCall(t)' /\ Locked(t)'
  BY DEF InCall, Locked, Inside
<1>3. \A u \in Threads : InCall(u)' /\ Locked(u)'
  BY <1>1, <1>2, OthersKeep
<1>4. Settled' /\ Lined' /\ Ordered'
  BY <1>1, StatesKeep, QueueKeeps
<1> QED
  BY <1>3, <1>4, RestsKeep

LEMMA TransitionsAgree ==
  ASSUME NEW hs, NEW st, NEW nu, \A i \in DOMAIN hs : st[hs[i]] = nu[hs[i]], NEW use
  PROVE  Transitions(hs, st, use) = Transitions(hs, nu, use) /\ Transitions(hs, use, st) = Transitions(hs, use, nu)
<1>1. [i \in DOMAIN hs |-> IF st[hs[i]] = use[hs[i]] THEN <<>> ELSE <<Barrier(Res(hs[i]), st[hs[i]], use[hs[i]])>>]
      = [i \in DOMAIN hs |-> IF nu[hs[i]] = use[hs[i]] THEN <<>> ELSE <<Barrier(Res(hs[i]), nu[hs[i]], use[hs[i]])>>]
  OBVIOUS
<1>2. [i \in DOMAIN hs |-> IF use[hs[i]] = st[hs[i]] THEN <<>> ELSE <<Barrier(Res(hs[i]), use[hs[i]], st[hs[i]])>>]
      = [i \in DOMAIN hs |-> IF use[hs[i]] = nu[hs[i]] THEN <<>> ELSE <<Barrier(Res(hs[i]), use[hs[i]], nu[hs[i]])>>]
  OBVIOUS
<1> QED
  BY <1>1, <1>2 DEF Transitions

\* A list only depends on the states of its operands.
LEMMA KernelListsAgree ==
  ASSUME NEW kind, NEW args, Operands(kind, args), NEW st, NEW nu, \A h \in Range(args) : st[h] = nu[h]
  PROVE  KernelList(kind, args, st) = KernelList(kind, args, nu)
<1> DEFINE y   == Last(args)
           ins == Entered(kind, args)
           use == [h \in Range(args) |-> Wanted(h, y)]
<1>1. Range(ins) \cup {y} \subseteq Range(args)
  BY EnteredInside
<1>2. args \in Seq(Handles) /\ Len(args) > 1 /\ Different(kind, args)
  BY OperandsAre
<1>3. ins \in Seq(Handles)
  BY <1>2, EnteredIs
<1>4. \A i \in DOMAIN ins : ins[i] \in Range(ins)
  BY DEF Range
<1>5. /\ Reverse(ins) \in Seq(Handles) /\ Len(Reverse(ins)) = Len(ins)
      /\ \A i \in 1 .. Len(ins) : Reverse(ins)[i] = ins[(Len(ins) - i) + 1] /\ (Len(ins) - i) + 1 \in 1 .. Len(ins)
  BY <1>3, ReverseIs
<1> HIDE DEF ins, y, use
<1>6. \A i \in DOMAIN ins : st[ins[i]] = nu[ins[i]]
  BY <1>1, <1>4
<1>7. \A i \in DOMAIN Reverse(ins) : st[Reverse(ins)[i]] = nu[Reverse(ins)[i]]
  <2>1. DOMAIN Reverse(ins) = 1 .. Len(ins) /\ DOMAIN ins = 1 .. Len(ins)
    BY <1>3, <1>5
  <2>2. ASSUME NEW i \in 1 .. Len(ins)
        PROVE  st[Reverse(ins)[i]] = nu[Reverse(ins)[i]]
    <3>1. PICK j \in 1 .. Len(ins) : Reverse(ins)[i] = ins[j]
      BY <1>5
    <3> QED
      BY <1>6, <2>1, <3>1
  <2> QED
    BY <2>1, <2>2
<1>8. \A i \in DOMAIN <<y>> : st[<<y>>[i]] = nu[<<y>>[i]]
  BY <1>1
<1>9. Transitions(ins, st, use) = Transitions(ins, nu, use)
  BY ONLY <1>6, TransitionsAgree
<1>10. Transitions(Reverse(ins), use, st) = Transitions(Reverse(ins), use, nu)
  <2>1. PICK r : r = Reverse(ins)
    OBVIOUS
  <2> QED
    BY ONLY <1>7, <2>1, TransitionsAgree
<1>11. Transitions(<<y>>, st, use) = Transitions(<<y>>, nu, use) /\ Transitions(<<y>>, use, st) = Transitions(<<y>>, use, nu)
  <2>1. PICK r : r = <<y>>
    OBVIOUS
  <2> QED
    BY ONLY <1>8, <2>1, TransitionsAgree
<1> QED
  BY ONLY <1>9, <1>10, <1>11 DEF KernelList, ins, y, use

LEMMA PrepareKeepsLists ==
  ASSUME ListInv, Apart, NEW t \in Threads, NEW d \in DOMAIN Dispatches, Prepare(t, d)
  PROVE  ListInv'
<1>0. Shapes /\ pc[t] = "idle" /\ ~disp[d].there
  BY DEF ListInv, Prepare
<1>1. /\ disp' = [disp EXCEPT ![d] = [there |-> TRUE, cmds |-> DispatchList(d, state)]]
      /\ UNCHANGED <<state, graph, slots, next, mutex, pc, call, id, todo, before, queue, issued, completed, awaits>>
      /\ UNCHANGED <<readback, gpu, mem, faults, spec, answers, calls>>
  BY DEF Prepare, rings, local, fences, gpuVars
<1>2. NothingLost
  BY <1>0, <1>1 DEF NothingLost, Shapes
<1>3. DispatchList(d, state) = DispatchList(d, Common)
  <2>1. CASE Dispatches[d].kind = "upload"
    BY <2>1 DEF DispatchList
  <2>2. CASE Dispatches[d].kind # "upload"
    <3> DEFINE args == Dispatches[d].args
    <3>1. Operands(Dispatches[d].kind, args)
      BY CallsAssumption
    <3>2. Observed(d) = Range(args)
      BY <2>2 DEF Observed
    <3>3. Range(args) \subseteq Handles
      BY <3>1, OperandsAre DEF Handles
    <3>4. \A u \in Threads : pc[u] = "recording" => Turned(u) \cap Range(args) = {}
      BY <3>2 DEF Prepare, MayPrepare
    <3>5. \A h \in Range(args) : state[h] = Common[h]
      BY <3>3, <3>4, CommonStates DEF ListInv, Settled
    <3>6. KernelList(Dispatches[d].kind, args, state) = KernelList(Dispatches[d].kind, args, Common)
      BY ONLY <3>1, <3>5, KernelListsAgree
    <3> QED
      BY <2>2, <3>6 DEF DispatchList
  <2> QED
    BY <2>1, <2>2
<1>4. Recorded'
  <2>1. \A e \in DOMAIN Dispatches : e # d => disp'[e] = disp[e]
    BY <1>0, <1>1 DEF Shapes
  <2>2. disp'[d].cmds = DispatchList(d, Common)
    BY <1>0, <1>1, <1>3 DEF Shapes
  <2>3. Recorded
    BY DEF ListInv
  <2> QED
    BY <1>1, <2>1, <2>2, <2>3 DEF Recorded
<1>5. Shapes'
  BY <1>0, <1>1 DEF Shapes
<1>6. /\ \A u \in Threads : InCall(u)' /\ Locked(u)'
      /\ Settled' /\ Lined' /\ Ordered' /\ Resting' /\ Blameless'
  BY <1>0, <1>1, <1>2, ObjectsKeep
<1> QED
  BY <1>4, <1>5, <1>6 DEF ListInv

LEMMA CompileKeepsLists ==
  ASSUME ListInv, NEW t \in Threads, NEW g \in DOMAIN Graphs, Compile(t, g)
  PROVE  ListInv'
<1>0. Shapes /\ pc[t] = "idle" /\ ~graph[g].there
  BY DEF ListInv, Compile
<1>1. /\ graph' = [graph EXCEPT ![g] = [there |-> TRUE, cmds |-> CompiledList(g)]]
      /\ mem' = [c \in Cells |-> IF c[1] \in GraphValues(g) THEN {Blank} ELSE mem[c]]
      /\ UNCHANGED <<state, disp, slots, next, mutex, pc, call, id, todo, before, queue, issued, completed, awaits>>
      /\ UNCHANGED <<readback, gpu, faults, spec, answers, calls>>
  BY DEF Compile, rings, local, fences
<1>2. NothingLost
  <2>1. ASSUME NEW u \in Threads, pc[u] # "idle", call[u].kind = "run"
        PROVE  graph'[call[u].on] = graph[call[u].on]
    <3>1. call[u] \in Uses[u] /\ Holds(u)
      BY <2>1 DEF ListInv, InCall
    <3>2. graph[call[u].on].there /\ call[u].on \in DOMAIN Graphs
      BY <2>1, <3>1, CallsAssumption DEF Holds
    <3> QED
      BY <1>0, <1>1, <3>2 DEF Shapes
  <2> QED
    BY <1>1, <2>1 DEF NothingLost
<1>3. Recorded'
  <2>1. \A e \in DOMAIN Graphs : e # g => graph'[e] = graph[e]
    BY <1>0, <1>1 DEF Shapes
  <2>2. graph'[g].cmds = CompiledList(g)
    BY <1>0, <1>1 DEF Shapes
  <2>3. Recorded
    BY DEF ListInv
  <2> QED
    BY <1>1, <2>1, <2>2, <2>3 DEF Recorded
<1>4. Shapes'
  <2>1. Blank \in Nat
    BY NativeAssumption DEF Blank
  <2>2. mem' \in [Cells -> SUBSET Nat]
    BY <1>0, <1>1, <2>1 DEF Shapes
  <2>3. DOMAIN graph' = DOMAIN Graphs
    BY <1>0, <1>1 DEF Shapes
  <2> QED
    BY <1>0, <1>1, <2>2, <2>3 DEF Shapes
<1>5. /\ \A u \in Threads : InCall(u)' /\ Locked(u)'
      /\ Settled' /\ Lined' /\ Ordered' /\ Resting' /\ Blameless'
  BY <1>0, <1>1, <1>2, ObjectsKeep
<1> QED
  BY <1>3, <1>4, <1>5 DEF ListInv

LEMMA DestroyKeepsLists ==
  ASSUME ListInv, NEW t \in Threads, NEW g \in DOMAIN Graphs, Destroy(t, g)
  PROVE  ListInv'
<1>0. /\ Shapes /\ pc[t] = "idle" /\ \A u \in Threads : ~(call[u].kind = "run" /\ call[u].on = g)
  BY DEF ListInv, Destroy
<1>1. /\ graph' = [graph EXCEPT ![g] = NoList]
      /\ UNCHANGED <<state, disp, slots, next, mutex, pc, call, id, todo, before, queue, issued, completed, awaits>>
      /\ UNCHANGED <<readback, gpu, mem, faults, spec, answers, calls>>
  BY DEF Destroy, rings, local, fences, gpuVars
<1>2. NothingLost
  <2>1. ASSUME NEW u \in Threads, pc[u] # "idle", call[u].kind = "run"
        PROVE  graph'[call[u].on] = graph[call[u].on]
    <3>1. call[u].on # g
      BY <1>0, <2>1
    <3>2. call[u] \in Uses[u]
      BY <2>1 DEF ListInv, InCall
    <3>3. call[u].on \in DOMAIN Graphs
      BY <2>1, <3>2, CallsAssumption
    <3> QED
      BY <1>0, <1>1, <3>1, <3>3 DEF Shapes
  <2> QED
    BY <1>1, <2>1 DEF NothingLost
<1>3. Recorded'
  <2>1. \A e \in DOMAIN Graphs : graph'[e] = IF e = g THEN NoList ELSE graph[e]
    BY <1>0, <1>1 DEF Shapes
  <2>2. Recorded
    BY DEF ListInv
  <2> QED
    BY <1>1, <2>1, <2>2 DEF Recorded, NoList
<1>4. Shapes'
  BY <1>0, <1>1 DEF Shapes
<1>5. /\ \A u \in Threads : InCall(u)' /\ Locked(u)'
      /\ Settled' /\ Lined' /\ Ordered' /\ Resting' /\ Blameless'
  BY <1>0, <1>1, <1>2, ObjectsKeep
<1> QED
  BY <1>3, <1>4, <1>5 DEF ListInv

------------------------------------------------------------------------------
(* Lists run clean                                                            *)

LEMMA InitLists ==
  ASSUME Init
  PROVE  ListInv
<1>1. Shapes
  <2>1. Blank \in Nat
    BY NativeAssumption DEF Blank
  <2>2. mem \in [Cells -> SUBSET Nat]
    BY <2>1 DEF Init
  <2>3. \A d \in DOMAIN Dispatches : slots[d] \in [Slots(d) -> [1 .. Width -> Nat]]
    BY <2>1 DEF Init
  <2>4. queue \in Seq(Range(queue))
    <3>1. queue = <<>>
      BY DEF Init
    <3> QED
      BY ONLY <3>1
  <2>5. state \in [Handles -> States]
    BY DEF Init, States
  <2>6. pc \in [Threads -> Inside \cup {"idle", "filling", "bumping"}]
    BY DEF Init
  <2> QED
    BY <2>2, <2>3, <2>4, <2>5, <2>6 DEF Init, Shapes
<1>2. \A t \in Threads : InCall(t) /\ Locked(t)
  BY DEF Init, InCall, Locked, Inside
<1>3. Settled /\ Recorded /\ Resting /\ Blameless
  BY DEF Init, Settled, Recorded, Resting, Blameless, NoList
<1>4. Lined /\ Ordered
  BY DEF Init, Lined, Ordered
<1> QED
  BY <1>1, <1>2, <1>3, <1>4 DEF ListInv

LEMMA ListsStep ==
  ASSUME ListInv, Apart, FailingWaits \subseteq {"prepared", "slot"}, [Next]_vars
  PROVE  ListInv'
<1>1. ASSUME NEW t \in Threads, FillSlot(t) PROVE ListInv'
  BY <1>1, FillSlotKeepsLists
<1>2. ASSUME NEW t \in Threads, Record(t) PROVE ListInv'
  BY <1>2, RecordKeepsLists
<1>3. ASSUME NEW t \in Threads, Submit(t) PROVE ListInv'
  BY <1>3, SubmitKeepsLists
<1>4. ASSUME NEW t \in Threads, Wake(t) PROVE ListInv'
  BY <1>4, WakeKeepsLists
<1>5. ASSUME NEW t \in Threads, Bump(t) PROVE ListInv'
  BY <1>5, BumpKeepsLists
<1>6. ASSUME NEW t \in Threads, FailWait(t) PROVE ListInv'
  BY <1>6, FailWaitKeepsLists
<1>7. ASSUME NEW t \in Threads, NEW c \in Uses[t], Call(t, c) PROVE ListInv'
  BY <1>7, CallKeepsLists
<1>8. ASSUME NEW t \in Threads, NEW d \in DOMAIN Dispatches, Prepare(t, d) PROVE ListInv'
  BY <1>8, PrepareKeepsLists
<1>9. ASSUME NEW t \in Threads, NEW g \in DOMAIN Graphs, Compile(t, g) PROVE ListInv'
  BY <1>9, CompileKeepsLists
<1>10. ASSUME NEW t \in Threads, NEW g \in DOMAIN Graphs, Destroy(t, g) PROVE ListInv'
  BY <1>10, DestroyKeepsLists
<1>11. CASE GpuExecute
  BY <1>11, GpuKeepsLists
<1>12. CASE UNCHANGED vars
  <2>1. /\ UNCHANGED <<state, graph, disp, slots, next, mutex, pc, call, id, todo, before, queue, issued, completed, awaits>>
        /\ UNCHANGED <<readback, gpu, mem, faults, spec, answers, calls>>
    BY <1>12 DEF vars, objects, rings, local, fences, gpuVars
  <2>2. NothingLost /\ \A t \in Threads : Still(t) /\ Turned(t)' = Turned(t)
    BY <2>1, TurnedSame DEF NothingLost, Still
  <2>3. \A t \in Threads : InCall(t)' /\ Locked(t)'
    BY <2>1, <2>2, InCallSame DEF ListInv, Locked
  <2>4. Settled'
    BY <2>1, <2>2 DEF ListInv, Settled
  <2>5. \A i : (LeftBehind(i) => LeftBehind(i)') /\ \A t \in Threads : Awaited(i, t)' <=> Awaited(i, t)
    BY <2>1, <2>2, LeftBehindSame, AwaitedSame DEF ListInv
  <2>6. Lined' /\ Ordered'
    BY <2>1, <2>5 DEF ListInv, Lined, Ordered
  <2>7. Shapes' /\ Recorded' /\ Resting' /\ Blameless'
    BY <2>1 DEF ListInv, Shapes, Recorded, Resting, Blameless
  <2> QED
    BY <2>3, <2>4, <2>6, <2>7 DEF ListInv
<1> QED
  BY <1>1, <1>2, <1>3, <1>4, <1>5, <1>6, <1>7, <1>8, <1>9, <1>10, <1>11, <1>12 DEF Next, Step

\* The inductive invariant of the lists: one thread is in a section, the queue ends
\* with its list and holds lists of dispatches otherwise, and with nothing running
\* every resource rests in COMMON, whichever thread calls what in which order.
THEOREM ListInvariant ==
  ASSUME Apart, FailingWaits \subseteq {"prepared", "slot"}
  PROVE  Spec => []ListInv
<1>1. Init => ListInv
  BY InitLists
<1>2. ListInv /\ [Next]_vars => ListInv'
  BY ListsStep
<1> QED
  BY <1>1, <1>2, PTL DEF Spec

\* No list of any section is reset while it runs, misses a barrier, names what is
\* gone or finds a state it was not recorded for, but for graphs that name an
\* operand twice.
THEOREM ListsAreClean ==
  ASSUME Apart, FailingWaits \subseteq {"prepared", "slot"}
  PROVE  Spec => []ListsRunClean
<1>1. ListInv => ListsRunClean
  BY DEF ListInv, Blameless, ListsRunClean
<1>2. Spec => []ListInv
  BY ListInvariant
<1> QED
  BY <1>1, <1>2, PTL

------------------------------------------------------------------------------
(* What the GPU leaves in memory                                              *)

BufferCells == {c \in Cells : c[1] \in {Buffers[h].res : h \in DOMAIN Buffers}}

\* Item i of the queue does not write cell c.
Spares(i, c) ==
  \/ \E d \in DOMAIN Dispatches : IsListOf(i, d) /\ c \notin OutCells(Dispatches[d].args)
  \/ i = Len(queue) /\ \E t \in Threads : Awaited(i, t) /\ c \notin SectionEffect(t).out

\* The list that thread t waits for is the last and will write what is meant.
DueFrom(c, t) ==
  /\ queue # <<>> /\ pc[t] = "waiting"
  /\ c \in SectionEffect(t).out
  /\ spec[c] = (UNION {spec[x] : x \in SectionEffect(t).in}) \cup {id[t]}

\* A cell of a buffer holds what is meant and stays, or it is about to.
Faithful ==
  \A c \in BufferCells : Unknown \notin spec[c] =>
    \/ mem[c] = spec[c] /\ \A i \in 1 .. Len(queue) : Spares(i, c)
    \/ \E t \in Threads : DueFrom(c, t)

\* The slot of an upload holds the bytes of its call, which is its only section.
Filled(t) ==
  pc[t] \in Inside /\ call[t].kind = "execute_upload" =>
    /\ Len(todo[t]) = 1
    /\ slots[call[t].on][Head(todo[t]).slot] = [i \in 1 .. Width |-> id[t]]

MemoryInv == Faithful /\ \A t \in Threads : Filled(t)

LEMMA EffectSame ==
  ASSUME NEW t, todo'[t] = todo[t]
  PROVE  SectionEffect(t)' = SectionEffect(t)
BY DEF SectionEffect

LEMMA SparesSame ==
  ASSUME ListInv, NothingLost, NEW i, NEW j, queue'[i] = queue[j], NEW c, Spares(j, c),
         i = Len(queue') <=> j = Len(queue),
         \A u \in Threads : Awaited(j, u) => Still(u)
  PROVE  Spares(i, c)'
<1>1. CASE \E d \in DOMAIN Dispatches : IsListOf(j, d) /\ c \notin OutCells(Dispatches[d].args)
  <2>1. PICK d \in DOMAIN Dispatches : IsListOf(j, d) /\ c \notin OutCells(Dispatches[d].args)
    BY <1>1
  <2>2. disp'[d] = disp[d]
    BY <2>1 DEF IsListOf, NothingLost
  <2>3. IsListOf(i, d)'
    BY <2>1, <2>2 DEF IsListOf
  <2> QED
    BY <2>1, <2>3 DEF Spares
<1>2. CASE j = Len(queue) /\ \E t \in Threads : Awaited(j, t) /\ c \notin SectionEffect(t).out
  <2>1. PICK t \in Threads : Awaited(j, t) /\ c \notin SectionEffect(t).out
    BY <1>2
  <2>2. Still(t) /\ InCall(t)
    BY <2>1 DEF ListInv
  <2>3. Awaited(i, t)'
    BY <2>1, <2>2, AwaitedSame
  <2>4. SectionEffect(t)' = SectionEffect(t)
    BY <2>2, EffectSame DEF Still
  <2> QED
    BY <1>2, <2>1, <2>3, <2>4 DEF Spares
<1> QED
  BY <1>1, <1>2 DEF Spares

LEMMA DueSame ==
  ASSUME NEW u \in Threads, Still(u), queue' # <<>>, UNCHANGED spec, NEW c, DueFrom(c, u)
  PROVE  DueFrom(c, u)'
<1>1. SectionEffect(u)' = SectionEffect(u)
  BY EffectSame DEF Still
<1> QED
  BY <1>1 DEF DueFrom, Still

\* Steps beside the queue.
LEMMA FaithfulKeeps ==
  ASSUME ListInv, Faithful, NEW t \in Threads, Moving(t), NothingLost, UNCHANGED <<queue, spec>>,
         pc[t] # "waiting", \A c \in BufferCells : mem'[c] = mem[c]
  PROVE  Faithful'
<1>1. \A u \in Threads : pc[u] = "waiting" => Still(u)
  BY DEF Moving
<1>2. \A i : \A u \in Threads : Awaited(i, u) => Still(u)
  BY <1>1 DEF Awaited
<1>3. \A c : \A u \in Threads : DueFrom(c, u) => DueFrom(c, u)'
  <2>1. ASSUME NEW c, NEW u \in Threads, DueFrom(c, u)
        PROVE  DueFrom(c, u)'
    BY <1>1, <2>1, DueSame DEF DueFrom
  <2> QED
    BY <2>1
<1>4. \A i, c : Spares(i, c) => Spares(i, c)'
  BY <1>2, SparesSame
<1> QED
  BY <1>3, <1>4 DEF Faithful

\* A thread's slot stays while others fill theirs.
LEMMA FilledSame ==
  ASSUME NEW t \in Threads, Still(t), Filled(t),
         call[t].kind = "execute_upload" => slots'[call[t].on] = slots[call[t].on]
  PROVE  Filled(t)'
BY DEF Filled, Still

LEMMA OperandsApart ==
  ASSUME NEW kind, NEW args, Operands(kind, args)
  PROVE  InCells(args) \cap OutCells(args) = {} /\ InCells(args) \subseteq BufferCells
<1>1. args \in Seq(Handles) /\ args \in Seq(DOMAIN Buffers) /\ Len(args) > 1 /\ Different(kind, args)
  BY OperandsAre
<1>2. /\ Front(args) \in Seq(Handles) /\ Len(Front(args)) = Len(args) - 1
      /\ \A i \in 1 .. Len(args) - 1 : Front(args)[i] = args[i]
      /\ Last(args) = args[Len(args)]
  BY ONLY <1>1, FrontLast
<1>3. \A h \in Range(Front(args)) : h \in DOMAIN Buffers /\ Res(h) # Res(Last(args))
  <2>1. ASSUME NEW h \in Range(Front(args))
        PROVE  h \in DOMAIN Buffers /\ Res(h) # Res(Last(args))
    <3>1. PICK i \in 1 .. Len(args) - 1 : h = args[i]
      BY <1>1, <1>2 DEF Range
    <3>2. i \in 1 .. Len(args) /\ Len(args) \in 1 .. Len(args) /\ i < Len(args)
      BY <1>1
    <3>3. Res(args[i]) # Res(args[Len(args)])
      BY <3>2, <1>1 DEF Different
    <3> QED
      BY <1>1, <1>2, <3>1, <3>2, <3>3
  <2> QED
    BY <2>1
<1>4. \A h \in DOMAIN Buffers : h \in Handles /\ Elements(h) \subseteq Cells /\ \A x \in Elements(h) : x[1] = Res(h)
  BY CellSpace DEF Handles
<1>5. \A h \in DOMAIN Buffers : Elements(h) \subseteq BufferCells
  BY <1>4, HandleSpace DEF BufferCells
<1>6. Last(args) \in DOMAIN Buffers
  BY <1>1, <1>2
<1>7. \A x \in InCells(args) : \E h \in Range(Front(args)) : x \in Elements(h)
  BY DEF InCells
<1>8. InCells(args) \subseteq BufferCells
  BY <1>3, <1>5, <1>7
<1>9. \A x \in InCells(args) : x \notin OutCells(args)
  BY <1>3, <1>4, <1>6, <1>7 DEF OutCells
<1> QED
  BY <1>8, <1>9

\* A section writes other cells than it reads.
LEMMA EffectApart ==
  ASSUME NEW t \in Threads, Fits(call[t], Head(todo[t]))
  PROVE  /\ SectionEffect(t).in \cap SectionEffect(t).out = {}
         /\ SectionEffect(t).in \subseteq BufferCells
<1> DEFINE s == Head(todo[t])
<1>1. ASSUME NEW kind, NEW a, Operands(kind, a), SectionEffect(t) = Effect(Range(Front(a)), Last(a))
      PROVE  SectionEffect(t).in \cap SectionEffect(t).out = {} /\ SectionEffect(t).in \subseteq BufferCells
  <2>1. InCells(a) \cap OutCells(a) = {} /\ InCells(a) \subseteq BufferCells
    BY ONLY <1>1, OperandsApart
  <2>2. SectionEffect(t) = [in |-> InCells(a), out |-> OutCells(a)]
    BY <1>1 DEF Effect, InCells, OutCells
  <2> QED
    BY ONLY <2>1, <2>2
<1>2. CASE s.kind = "fill"
  <2>1. SectionEffect(t) = [in |-> UNION {Elements(h) : h \in {}}, out |-> Elements(s.on)]
    BY <1>2 DEF SectionEffect, Effect
  <2> QED
    BY ONLY <2>1
<1>3. CASE s.kind = "kernel"
  <2>1. Operands(call[t].kind, s.on) /\ SectionEffect(t) = Effect(Range(Front(s.on)), Last(s.on))
    BY <1>3 DEF Fits, SectionEffect
  <2> QED
    BY ONLY <1>1, <2>1
<1>4. CASE s.kind \in {"prepared", "slot"}
  <2>1. s.on \in DOMAIN Dispatches
    BY <1>4 DEF Fits, Uploading
  <2>2. Operands(Dispatches[s.on].kind, Dispatches[s.on].args)
    BY <2>1, CallsAssumption
  <2>3. SectionEffect(t) = Effect(Range(Front(Dispatches[s.on].args)), Last(Dispatches[s.on].args))
    BY <1>4 DEF SectionEffect
  <2> QED
    BY ONLY <1>1, <2>2, <2>3
<1>5. CASE s.kind \notin {"fill", "kernel", "prepared", "slot"}
  <2>1. SectionEffect(t) = NoEffect
    BY <1>5 DEF SectionEffect
  <2> QED
    BY ONLY <2>1 DEF NoEffect
<1> QED
  BY <1>2, <1>3, <1>4, <1>5

\* What is appended to the queue while nobody waits leaves the rest as it was.
LEMMA AppendSpares ==
  ASSUME ListInv, \A u \in Threads : pc[u] # "waiting", UNCHANGED disp,
         NEW e, queue' = Append(queue, e), NEW c, NEW i \in 1 .. Len(queue), Spares(i, c)
  PROVE  Spares(i, c)'
<1>1. queue'[i] = queue[i]
  BY AppendIs DEF ListInv, Shapes
<1>2. PICK d \in DOMAIN Dispatches : IsListOf(i, d) /\ c \notin OutCells(Dispatches[d].args)
  BY DEF Spares, Awaited
<1>3. IsListOf(i, d)'
  BY <1>1, <1>2 DEF IsListOf
<1> QED
  BY <1>2, <1>3 DEF Spares

LEMMA SubmitKeepsMemory ==
  ASSUME ListInv, MemoryInv, NEW t \in Threads, Submit(t)
  PROVE  MemoryInv'
<1>0. Shapes /\ InCall(t) /\ pc[t] = "recording"
  BY DEF ListInv, Submit
<1>1. PICK f : f = issued + 1
  OBVIOUS
<1>2. /\ queue' = Append(queue, Submitted(t, f)) /\ awaits' = [awaits EXCEPT ![t] = f]
      /\ spec' = Meant(t, id[t]) /\ pc' = [pc EXCEPT ![t] = "waiting"]
      /\ UNCHANGED <<graph, disp, slots, mutex, call, id, todo, before, mem>>
  BY <1>1 DEF Submit, objects, rings, gpuVars
<1>3. \A u \in Threads : pc[u] # "waiting"
  BY <1>0, LeavesCommon
<1>4. Moving(t) /\ NothingLost
  BY <1>0, <1>2 DEF Moving, Still, NothingLost, Shapes
<1>5. pc'[t] = "waiting" /\ awaits'[t] = f
  BY <1>0, <1>2 DEF Shapes
<1>6. /\ Len(queue') = Len(queue) + 1 /\ Len(queue) \in Nat
      /\ queue'[Len(queue) + 1] = Submitted(t, f) /\ queue' # <<>>
  <2>1. Len(queue') = Len(queue) + 1 /\ Len(queue) \in Nat /\ queue'[Len(queue) + 1] = Submitted(t, f)
    BY <1>0, <1>2, AppendIs DEF Shapes
  <2>2. \A q : q = <<>> => Len(q) = 0
    OBVIOUS
  <2> QED
    BY <2>1, <2>2
<1>7. Fits(call[t], Head(todo[t]))
  BY <1>0, SectionIn DEF Inside
<1>8. PICK e : e = SectionEffect(t)
  OBVIOUS
<1>9. e.in \cap e.out = {} /\ e.in \subseteq Cells /\ e.out \subseteq Cells
  BY <1>7, <1>8, EffectApart, EffectSpace
<1>10. SectionEffect(t)' = e
  BY <1>2, <1>8, EffectSame
<1>11. \A c \in Cells : spec'[c] = IF c \in e.out THEN (UNION {spec[x] : x \in e.in}) \cup {id[t]} ELSE spec[c]
  BY <1>2, <1>8 DEF Meant, After
<1>12. \A i : i = Len(queue) + 1 => Awaited(i, t)'
  <2>1. ASSUME NEW i, i = Len(queue) + 1
        PROVE  Awaited(i, t)'
    <3>1. queue'[i] = Submitted(t, f)
      BY <1>6, <2>1
    <3> QED
      BY <1>2, <1>5, <3>1, AwaitedNow
  <2> QED
    BY <2>1
<1>13. ASSUME NEW c \in BufferCells, Unknown \notin spec'[c]
       PROVE  \/ mem'[c] = spec'[c] /\ \A i \in 1 .. Len(queue') : Spares(i, c)'
              \/ DueFrom(c, t)'
  <2>0. c \in Cells
    BY DEF BufferCells
  <2>1. CASE c \in e.out
    <3>1. \A x \in e.in : spec'[x] = spec[x]
      BY <1>9, <1>11
    <3>2. UNION {spec'[x] : x \in e.in} = UNION {spec[x] : x \in e.in}
      BY <3>1
    <3>3. spec'[c] = (UNION {spec'[x] : x \in e.in}) \cup {id[t]}
      BY <1>11, <2>0, <2>1, <3>2
    <3>4. DueFrom(c, t)'
      BY <1>2, <1>5, <1>6, <1>10, <2>1, <3>3 DEF DueFrom
    <3> QED
      BY <3>4
  <2>2. CASE c \notin e.out
    <3>1. spec'[c] = spec[c]
      BY <1>11, <2>0, <2>2
    <3>2. mem[c] = spec[c] /\ \A i \in 1 .. Len(queue) : Spares(i, c)
      BY <1>3, <1>13, <3>1 DEF MemoryInv, Faithful, DueFrom
    <3>3. \A i \in 1 .. Len(queue) : Spares(i, c)'
      BY <1>2, <1>3, <3>2, AppendSpares
    <3>4. \A i : i = Len(queue) + 1 => Spares(i, c)'
      BY <1>6, <1>10, <1>12, <2>2 DEF Spares
    <3>5. \A i \in 1 .. Len(queue') : i \in 1 .. Len(queue) \/ i = Len(queue) + 1
      BY <1>6
    <3> QED
      BY <1>2, <3>1, <3>2, <3>3, <3>4, <3>5
  <2> QED
    BY <2>1, <2>2
<1>14. Faithful'
  BY <1>13 DEF Faithful
<1>15. \A u \in Threads : Filled(u)'
  <2>1. Filled(t)'
    BY <1>0, <1>2 DEF MemoryInv, Filled, Inside
  <2>2. \A u \in Threads \ {t} : Filled(u)'
    BY <1>2, <1>4, FilledSame DEF MemoryInv, Moving
  <2> QED
    BY <2>1, <2>2
<1> QED
  BY <1>14, <1>15 DEF MemoryInv

LEMMA FailWaitKeepsMemory ==
  ASSUME ListInv, MemoryInv, FailingWaits \subseteq {"prepared", "slot"}, NEW t \in Threads, FailWait(t)
  PROVE  MemoryInv'
<1>0. Shapes /\ InCall(t) /\ pc[t] = "recording" /\ Recorded
  BY DEF ListInv, FailWait
<1>1. PICK f \in {0, issued + 1} : queue' = Append(queue, Submitted(t, f))
  BY DEF FailWait
<1>2. /\ spec' = Meant(t, Unknown) /\ mutex' = NoOne
      /\ pc' = [pc EXCEPT ![t] = "idle"] /\ todo' = [todo EXCEPT ![t] = <<>>]
      /\ call' = [call EXCEPT ![t] = NoCall] /\ id' = [id EXCEPT ![t] = 0] /\ before' = [before EXCEPT ![t] = <<>>]
      /\ UNCHANGED <<graph, disp, slots, awaits, mem>>
      /\ Head(todo[t]).kind \in {"prepared", "slot"}
  BY DEF FailWait, Return, objects, rings, gpuVars
<1>3. mutex = t /\ \A u \in Threads : pc[u] # "waiting"
  BY <1>0, LeavesCommon
<1>4. Moving(t) /\ NothingLost
  BY <1>0, <1>2, <1>3 DEF Moving, Still, NothingLost, Shapes
<1>5. pc'[t] = "idle"
  BY <1>0, <1>2 DEF Shapes
<1>6. /\ Len(queue') = Len(queue) + 1 /\ Len(queue) \in Nat
      /\ queue'[Len(queue) + 1] = Submitted(t, f)
  BY <1>0, <1>1, AppendIs DEF Shapes
<1>7. Fits(call[t], Head(todo[t])) /\ Holds(t)
  BY <1>0, SectionIn DEF Inside
<1>8. PICK d : d = Head(todo[t]).on
  OBVIOUS
<1>9. /\ d \in DOMAIN Dispatches /\ disp[d].there /\ SectionEffect(t).out = OutCells(Dispatches[d].args)
  BY <1>2, <1>7, <1>8 DEF Fits, Holds, Uploading, SectionEffect, Effect, OutCells
<1>10. \A i : i = Len(queue) + 1 => IsListOf(i, d)'
  <2>1. PICK e : e = Submitted(t, f)
    OBVIOUS
  <2>2. /\ e.cmds = disp[d].cmds
        /\ d \in Uploading => \E k \in Slots(d) : e.ring = <<d, k>>
        /\ d \notin Uploading => e.ring = <<>>
    BY <1>0, <1>2, <1>7, <1>8, <2>1, SectionOfDispatch
  <2> QED
    BY <1>2, <1>6, <1>9, <2>1, <2>2 DEF IsListOf
<1>11. ASSUME NEW c \in BufferCells, Unknown \notin spec'[c]
       PROVE  mem'[c] = spec'[c] /\ \A i \in 1 .. Len(queue') : Spares(i, c)'
  <2>0. c \in Cells
    BY DEF BufferCells
  <2>1. c \notin SectionEffect(t).out /\ spec'[c] = spec[c]
    BY <1>2, <1>11, <2>0 DEF Meant, After
  <2>2. mem[c] = spec[c] /\ \A i \in 1 .. Len(queue) : Spares(i, c)
    BY <1>3, <1>11, <2>1 DEF MemoryInv, Faithful, DueFrom
  <2>3. \A i \in 1 .. Len(queue) : Spares(i, c)'
    BY <1>1, <1>2, <1>3, <2>2, AppendSpares
  <2>4. \A i : i = Len(queue) + 1 => Spares(i, c)'
    BY <1>9, <1>10, <2>1 DEF Spares
  <2>5. \A i \in 1 .. Len(queue') : i \in 1 .. Len(queue) \/ i = Len(queue) + 1
    BY <1>6
  <2> QED
    BY <1>2, <2>1, <2>2, <2>3, <2>4, <2>5
<1>12. Faithful'
  BY <1>11 DEF Faithful
<1>13. \A u \in Threads : Filled(u)'
  <2>1. Filled(t)'
    BY <1>5 DEF Filled, Inside
  <2>2. \A u \in Threads \ {t} : Filled(u)'
    BY <1>2, <1>4, FilledSame DEF MemoryInv, Moving
  <2> QED
    BY <2>1, <2>2
<1> QED
  BY <1>12, <1>13 DEF MemoryInv

LEMMA WakeKeepsMemory ==
  ASSUME ListInv, MemoryInv, NEW t \in Threads, Wake(t)
  PROVE  MemoryInv'
<1>0. Shapes /\ pc[t] = "waiting" /\ Reached(t)
  BY DEF ListInv, Wake
<1>1. queue = <<>> /\ mutex = t
  BY <1>0, WokenQueue
<1>2. UNCHANGED <<slots, queue, mem, spec, graph, disp, awaits>>
  BY DEF Wake, objects, rings, fences, gpuVars
<1>3. \/ /\ Len(todo[t]) > 1 /\ UNCHANGED <<call, id, before>>
         /\ pc' = [pc EXCEPT ![t] = "ready"] /\ todo' = [todo EXCEPT ![t] = Tail(@)]
      \/ /\ pc' = [pc EXCEPT ![t] = "bumping"] /\ UNCHANGED <<call, id, todo, before>>
      \/ Return(t, [pc EXCEPT ![t] = "idle"])
  BY DEF Wake
<1>4. Faithful'
  BY <1>1, <1>2 DEF MemoryInv, Faithful, DueFrom
<1>5. \A u \in Threads \ {t} : Still(u)
  BY <1>0, <1>2, <1>3 DEF Still, Return, Shapes
<1>6. Filled(t)'
  <2>1. CASE Len(todo[t]) > 1 /\ UNCHANGED <<call, id, before>>
    <3>1. call[t].kind # "execute_upload"
      <4>1. PICK n : n = Len(todo[t])
        OBVIOUS
      <4>2. call[t].kind = "execute_upload" => n = 1
        BY <1>0, <4>1 DEF MemoryInv, Filled, Inside
      <4>3. n > 1
        BY <2>1, <4>1
      <4> QED
        BY ONLY <4>2, <4>3
    <3> QED
      BY <2>1, <3>1 DEF Filled
  <2>2. CASE pc' = [pc EXCEPT ![t] = "bumping"] \/ Return(t, [pc EXCEPT ![t] = "idle"])
    <3>1. pc'[t] \in {"bumping", "idle"}
      BY <1>0, <2>2 DEF Return, Shapes
    <3> QED
      BY <3>1 DEF Filled, Inside
  <2> QED
    BY <1>3, <2>1, <2>2
<1>7. \A u \in Threads \ {t} : Filled(u)'
  BY <1>2, <1>5, FilledSame DEF MemoryInv
<1> QED
  BY <1>4, <1>6, <1>7 DEF MemoryInv

\* What an item that spares a cell does to it.
LEMMA SparedCell ==
  ASSUME ListInv, queue # <<>>, NEW item, item = Head(queue), NEW c \in BufferCells, Spares(1, c),
         NEW m, Ready(m), NEW n, n = Ran(m, Loaded(item), item.by)
  PROVE  n.mem[c] = m.mem[c]
<1>1. item = queue[1] /\ item.by \in Nat /\ Shapes /\ Recorded
  BY ItemRuns DEF ListInv, Shapes
<1>2. c \in Cells /\ c[1] \in DOMAIN Buffers
  BY HandleSpace DEF BufferCells
<1>3. PICK cmds : cmds = Loaded(item)
  OBVIOUS
<1>4. n = Ran(m, cmds, item.by)
  BY <1>3
<1>5. \A in, out : Makes(cmds, in, out) /\ c \notin out => n.mem[c] = m.mem[c]
  <2>1. ASSUME NEW in, NEW out, Makes(cmds, in, out), c \notin out
        PROVE  n.mem[c] = m.mem[c]
    <3>1. n.mem = Computed(Cells, m.mem, in, out, item.by)
      BY <1>1, <1>4, <2>1 DEF Makes
    <3> QED
      BY <1>2, <2>1, <3>1 DEF Computed
  <2> QED
    BY <2>1
<1>6. \A cells : Keeps(cmds, cells) /\ c \notin cells => n.mem[c] = m.mem[c]
  BY <1>1, <1>2, <1>4 DEF Keeps
<1>7. ASSUME NEW d \in DOMAIN Dispatches, OfDispatch(item, d), c \notin OutCells(Dispatches[d].args)
      PROVE  n.mem[c] = m.mem[c]
  <2>1. PICK args : args = Dispatches[d].args
    OBVIOUS
  <2>2. CASE d \in Uploading
    <3>1. Keeps(cmds, OutCells(args) \cup Elements(InputOf(d)))
      BY <1>3, <1>7, <2>1, <2>2, DispatchRuns
    <3>2. c \notin Elements(InputOf(d))
      <4>1. /\ Elements(InputOf(d)) = {InputOf(d)} \X (0 .. Width - 1) /\ InputOf(d) \notin DOMAIN Buffers
        BY <2>2, InputSpace
      <4> QED
        BY <1>2, <4>1
    <3>3. c \notin OutCells(args) \cup Elements(InputOf(d))
      BY <1>7, <2>1, <3>2
    <3> QED
      BY <1>6, <3>1, <3>3
  <2>3. CASE d \notin Uploading
    <3>1. Makes(cmds, InCells(args), OutCells(args))
      BY <1>3, <1>7, <2>1, <2>3, DispatchRuns
    <3> QED
      BY <1>5, <1>7, <2>1, <3>1
  <2> QED
    BY <2>2, <2>3
<1>8. CASE \E d \in DOMAIN Dispatches : IsListOf(1, d) /\ c \notin OutCells(Dispatches[d].args)
  <2>1. PICK d \in DOMAIN Dispatches : IsListOf(1, d) /\ c \notin OutCells(Dispatches[d].args)
    BY <1>8
  <2>2. disp[d].there /\ item.cmds = disp[d].cmds
        /\ (d \in Uploading => \E k \in Slots(d) : item.ring = <<d, k>>)
        /\ (d \notin Uploading => item.ring = <<>>)
    BY <1>1, <2>1 DEF IsListOf
  <2>3. disp[d].cmds = DispatchList(d, Common) /\ slots[d] \in [Slots(d) -> [1 .. Width -> Nat]]
    BY <1>1, <2>2 DEF Recorded, Shapes
  <2>4. OfDispatch(item, d)
    BY <2>2, <2>3 DEF OfDispatch
  <2> QED
    BY <1>7, <2>1, <2>4
<1>9. CASE \E t \in Threads : Awaited(1, t) /\ c \notin SectionEffect(t).out
  <2>1. PICK t \in Threads : Awaited(1, t) /\ c \notin SectionEffect(t).out
    BY <1>9
  <2>2. pc[t] = "waiting" /\ item = Submitted(t, awaits[t])
    BY <1>1, <2>1 DEF Awaited
  <2>3. InCall(t) /\ Locked(t)
    BY DEF ListInv
  <2>4. PICK s : s = Head(todo[t])
    OBVIOUS
  <2>5. Fits(call[t], s) /\ Holds(t) /\ before[t] = [h \in Turned(t) |-> "COMMON"]
    BY <2>2, <2>3, <2>4, SectionIn DEF Inside, Locked
  <2>6. CASE s.kind \in {"prepared", "slot"}
    <3>1. s.on \in DOMAIN Dispatches /\ OfDispatch(item, s.on)
      BY <1>1, <2>2, <2>4, <2>5, <2>6, SectionOfDispatch
    <3>2. SectionEffect(t).out = OutCells(Dispatches[s.on].args)
      BY <2>4, <2>6 DEF SectionEffect, Effect, OutCells
    <3> QED
      BY <1>7, <2>1, <3>1, <3>2
  <2>7. CASE s.kind \notin {"prepared", "slot"}
    <3>1. SectionDoes(s, call[t], cmds)
      BY <1>1, <1>3, <2>2, <2>4, <2>5, <2>7, SectionRuns
    <3>2. CASE s.kind = "fill"
      <4>1. SectionEffect(t).out = Elements(s.on)
        BY <2>4, <3>2 DEF SectionEffect, Effect
      <4>2. Makes(cmds, {}, Elements(s.on))
        BY <3>1, <3>2 DEF SectionDoes
      <4> QED
        BY <1>5, <2>1, <4>1, <4>2
    <3>3. CASE s.kind = "read"
      <4>1. Keeps(cmds, {})
        BY <3>1, <3>3 DEF SectionDoes
      <4> QED
        BY <1>6, <4>1
    <3>4. CASE s.kind = "kernel"
      <4>1. SectionEffect(t).out = OutCells(s.on)
        BY <2>4, <3>4 DEF SectionEffect, Effect, OutCells
      <4>2. Makes(cmds, InCells(s.on), OutCells(s.on))
        BY <3>1, <3>4 DEF SectionDoes
      <4> QED
        BY <1>5, <2>1, <4>1, <4>2
    <3>5. CASE s.kind = "graph"
      <4>1. Keeps(cmds, GraphCells(s.on))
        BY <3>1, <3>5 DEF SectionDoes
      <4>2. c \notin GraphCells(s.on)
        <5>1. s.on \in DOMAIN Graphs
          BY <2>5, <3>5 DEF Fits
        <5>2. \A v \in Allocated(Graphs[s.on]) : ValueOf(s.on, v) \notin DOMAIN Buffers
                 /\ \A x \in At(s.on, v) : x[1] = ValueOf(s.on, v)
          BY ONLY <5>1, ValueSpace
        <5> QED
          BY <1>2, <5>2 DEF GraphCells
      <4> QED
        BY <1>6, <4>1, <4>2
    <3> QED
      BY <2>5, <2>7, <3>2, <3>3, <3>4, <3>5 DEF Fits, SectionKinds
  <2> QED
    BY <2>6, <2>7
<1> QED
  BY <1>8, <1>9 DEF Spares

\* The item a thread waits for writes what is meant.
LEMMA DueCell ==
  ASSUME ListInv, MemoryInv, Len(queue) = 1, NEW item, item = Head(queue),
         NEW c \in BufferCells, Unknown \notin spec[c], NEW t \in Threads, DueFrom(c, t),
         NEW m, Ready(m), m.mem = mem, NEW n, n = Ran(m, Loaded(item), item.by)
  PROVE  n.mem[c] = spec[c]
<1>1. item = queue[1] /\ item.by \in Nat /\ Shapes /\ Recorded /\ queue # <<>>
  <2>1. queue # <<>>
    BY DEF DueFrom
  <2> QED
    BY <2>1, ItemRuns DEF ListInv, Shapes
<1>2. c \in Cells /\ c[1] \in DOMAIN Buffers
  BY HandleSpace DEF BufferCells
<1>3. PICK cmds : cmds = Loaded(item)
  OBVIOUS
<1>4. n = Ran(m, cmds, item.by)
  BY <1>3
<1>5. pc[t] = "waiting" /\ InCall(t) /\ Locked(t)
  BY DEF ListInv, DueFrom
<1>6. Awaited(1, t)
  BY <1>5 DEF ListInv, Lined
<1>7. item = Submitted(t, awaits[t])
  BY <1>1, <1>6 DEF Awaited
<1>8. item.by = id[t]
  BY <1>7 DEF Submitted
<1>9. PICK s : s = Head(todo[t])
  OBVIOUS
<1>10. Fits(call[t], s) /\ Holds(t) /\ before[t] = [h \in Turned(t) |-> "COMMON"]
  BY <1>5, <1>9, SectionIn DEF Inside, Locked
<1>11. PICK e : e = SectionEffect(t)
  OBVIOUS
<1>12. e.in \cap e.out = {} /\ e.in \subseteq BufferCells
  BY <1>9, <1>10, <1>11, EffectApart
<1>13. c \in e.out /\ spec[c] = (UNION {spec[x] : x \in e.in}) \cup {id[t]}
  BY <1>11 DEF DueFrom
<1>14. \A x \in e.in : mem[x] = spec[x]
  <2>1. ASSUME NEW x \in e.in
        PROVE  mem[x] = spec[x]
    <3>1. x \in BufferCells /\ Unknown \notin spec[x]
      BY <1>12, <1>13
    <3>2. \A u \in Threads : pc[u] = "waiting" => u = t
      <4>1. mutex = t
        BY <1>5 DEF Locked
      <4> QED
        BY <4>1, OneInside
    <3>3. \A u \in Threads : ~DueFrom(x, u)
      BY <1>11, <1>12, <3>2 DEF DueFrom
    <3> QED
      BY <3>1, <3>3 DEF MemoryInv, Faithful
  <2> QED
    BY <2>1
<1>15. UNION {m.mem[x] : x \in e.in} = UNION {spec[x] : x \in e.in}
  BY <1>14
<1>16. Makes(cmds, e.in, e.out) => n.mem[c] = spec[c]
  <2>1. ASSUME Makes(cmds, e.in, e.out)
        PROVE  n.mem = Computed(Cells, m.mem, e.in, e.out, item.by)
    BY <1>1, <1>4, <2>1 DEF Makes
  <2> QED
    BY <1>2, <1>8, <1>13, <1>15, <2>1 DEF Computed
<1>17. CASE s.kind \in {"prepared", "slot"}
  <2>1. PICK d, args : d = s.on /\ args = Dispatches[d].args
    OBVIOUS
  <2>2. d \in DOMAIN Dispatches /\ OfDispatch(item, d) /\ (d \in Uploading => item.ring = <<d, s.slot>>)
    BY <1>1, <1>7, <1>9, <1>10, <1>17, <2>1, SectionOfDispatch
  <2>3. e = [in |-> InCells(args), out |-> OutCells(args)]
    BY <1>9, <1>11, <1>17, <2>1 DEF SectionEffect, Effect, InCells, OutCells
  <2>4. CASE d \notin Uploading
    <3>1. Makes(cmds, InCells(args), OutCells(args))
      BY <1>3, <2>1, <2>2, <2>4, DispatchRuns
    <3> QED
      BY <1>16, <2>3, <3>1
  <2>5. CASE d \in Uploading
    <3>1. PICK k \in Slots(d) :
            /\ item.ring = <<d, k>>
            /\ Uploads(cmds, Elements(InputOf(d)), InCells(args), OutCells(args), slots[d][k])
      BY <1>3, <2>1, <2>2, <2>5, DispatchRuns
    <3>2. k = s.slot
      BY <2>2, <2>5, <3>1
    <3>3. s.kind = "slot" /\ call[t].kind = "execute_upload" /\ call[t].on = d
      BY <1>10, <1>17, <2>1, <2>5 DEF Fits
    <3>4. slots[d][k] = [i \in 1 .. Width |-> id[t]]
      BY <1>5, <1>9, <3>2, <3>3 DEF MemoryInv, Filled, Inside
    <3>5. \A i \in 1 .. Width : slots[d][k][i] = item.by
      BY <1>8, <3>4
    <3>6. c \notin Elements(InputOf(d))
      <4>1. /\ Elements(InputOf(d)) = {InputOf(d)} \X (0 .. Width - 1) /\ InputOf(d) \notin DOMAIN Buffers
        BY <2>5, InputSpace
      <4> QED
        BY <1>2, <4>1
    <3>7. PICK b : b = slots[d][k]
      OBVIOUS
    <3>8. n.mem[c] = Computed(Cells, m.mem, InCells(args), OutCells(args), item.by)[c]
      BY <1>1, <1>2, <1>4, <3>1, <3>5, <3>6, <3>7 DEF Uploads
    <3> QED
      BY <1>2, <1>8, <1>13, <1>15, <2>3, <3>8 DEF Computed
  <2> QED
    BY <2>4, <2>5
<1>18. CASE s.kind \notin {"prepared", "slot"}
  <2>1. SectionDoes(s, call[t], cmds)
    BY <1>1, <1>3, <1>7, <1>9, <1>10, <1>18, SectionRuns
  <2>2. CASE s.kind = "fill"
    <3>1. e = [in |-> UNION {Elements(h) : h \in {}}, out |-> Elements(s.on)]
      BY <1>9, <1>11, <2>2 DEF SectionEffect, Effect
    <3>2. Makes(cmds, {}, Elements(s.on))
      BY <2>1, <2>2 DEF SectionDoes
    <3>3. e.in = {} /\ e.out = Elements(s.on)
      BY ONLY <3>1
    <3> QED
      BY <1>16, <3>2, <3>3
  <2>3. CASE s.kind = "kernel"
    <3>1. e = [in |-> InCells(s.on), out |-> OutCells(s.on)]
      BY <1>9, <1>11, <2>3 DEF SectionEffect, Effect, InCells, OutCells
    <3>2. Makes(cmds, InCells(s.on), OutCells(s.on))
      BY <2>1, <2>3 DEF SectionDoes
    <3> QED
      BY <1>16, <3>1, <3>2
  <2>4. CASE s.kind \notin {"fill", "kernel"}
    <3>1. e = NoEffect
      BY <1>9, <1>11, <1>18, <2>4 DEF SectionEffect
    <3> QED
      BY <1>13, <3>1 DEF NoEffect
  <2> QED
    BY <2>2, <2>3, <2>4
<1> QED
  BY <1>17, <1>18

LEMMA GpuKeepsMemory ==
  ASSUME ListInv, MemoryInv, GpuExecute
  PROVE  MemoryInv'
<1> DEFINE item == Head(queue)
<1>1. queue # <<>> /\ queue' = Tail(queue) /\ Ready(Ahead)
  BY GpuRan
<1>2. PICK n : mem' = n.mem /\ n = Ran(Ahead, Loaded(item), item.by)
  BY GpuRan
<1>3. UNCHANGED <<graph, disp, slots, mutex, pc, call, id, todo, before, awaits, spec>>
  BY DEF GpuExecute, objects, rings, local
<1>4. /\ Len(queue') = Len(queue) - 1 /\ Len(queue) \in Nat \ {0}
      /\ \A i \in 1 .. Len(queue') : i + 1 \in 1 .. Len(queue) /\ queue'[i] = queue[i + 1]
  BY <1>1, TailIs DEF ListInv, Shapes
<1>5. NothingLost /\ \A t \in Threads : Still(t)
  BY <1>3 DEF NothingLost, Still
<1>6. PICK m : m = Ahead
  OBVIOUS
<1>7. Ready(m) /\ m.mem = mem /\ n = Ran(m, Loaded(item), item.by)
  BY <1>1, <1>2, <1>6 DEF Ahead
<1>8. ASSUME NEW c \in BufferCells, Unknown \notin spec'[c]
      PROVE  \/ mem'[c] = spec'[c] /\ \A i \in 1 .. Len(queue') : Spares(i, c)'
             \/ \E t \in Threads : DueFrom(c, t)'
  <2>1. Unknown \notin spec[c]
    BY <1>3, <1>8
  <2>2. CASE mem[c] = spec[c] /\ \A i \in 1 .. Len(queue) : Spares(i, c)
    <3>1. Spares(1, c)
      BY <1>4, <2>2
    <3>2. n.mem[c] = m.mem[c]
      BY <1>1, <1>7, <3>1, SparedCell
    <3>3. ASSUME NEW i \in 1 .. Len(queue')
          PROVE  Spares(i, c)'
      <4>1. PICK j : j = i + 1
        OBVIOUS
      <4>2. j \in 1 .. Len(queue) /\ queue'[i] = queue[j] /\ (i = Len(queue') <=> j = Len(queue))
        BY <1>4, <4>1
      <4> QED
        BY <1>5, <2>2, <4>2, SparesSame
    <3> QED
      BY <1>2, <1>3, <1>7, <2>2, <3>2, <3>3
  <2>3. CASE \E t \in Threads : DueFrom(c, t)
    <3>1. PICK t \in Threads : DueFrom(c, t)
      BY <2>3
    <3>2. CASE Len(queue) = 1
      <4>1. n.mem[c] = spec[c]
        BY <1>7, <2>1, <3>1, <3>2, DueCell
      <4>2. Len(queue') = 0
        BY <1>4, <3>2
      <4> QED
        BY <1>2, <1>3, <4>1, <4>2
    <3>3. CASE Len(queue) # 1
      <4>1. queue' # <<>>
        <5>1. Len(queue') # 0
          BY <1>4, <3>3
        <5>2. \A q : q = <<>> => Len(q) = 0
          OBVIOUS
        <5> QED
          BY <5>1, <5>2
      <4>2. DueFrom(c, t)'
        BY <1>3, <1>5, <3>1, <4>1, DueSame
      <4> QED
        BY <4>2
    <3> QED
      BY <3>2, <3>3
  <2> QED
    BY <2>1, <2>2, <2>3 DEF MemoryInv, Faithful
<1>9. Faithful'
  BY <1>8 DEF Faithful
<1>10. \A t \in Threads : Filled(t)'
  BY <1>3, <1>5, FilledSame DEF MemoryInv
<1> QED
  BY <1>9, <1>10 DEF MemoryInv

LEMMA FillSlotKeepsMemory ==
  ASSUME ListInv, MemoryInv, OneOwner, Lengths \subseteq {Width}, NEW t \in Threads, FillSlot(t)
  PROVE  MemoryInv'
<1> DEFINE d == call[t].on
           k == NextSlot(d)
<1>0. Shapes /\ InCall(t) /\ pc[t] = "filling"
  BY DEF ListInv, FillSlot
<1>1. call[t] \in Uses[t] /\ call[t].kind = "execute_upload" /\ d \in DOMAIN Dispatches
  BY <1>0, CallsAssumption DEF InCall
<1>2. k \in Slots(d) /\ k = next[d] % Dispatches[d].ring
  BY <1>0, <1>1, NextSlotIs
<1> HIDE DEF d, k
<1>3. PICK n \in Lengths : slots' = [slots EXCEPT ![d][k] = [i \in 1 .. Width |-> IF i <= n THEN id[t] ELSE @[i]]]
  BY <1>2 DEF FillSlot, d
<1>4. /\ todo' = [todo EXCEPT ![t] = <<[kind |-> "slot", on |-> d, slot |-> k]>>]
      /\ pc' = [pc EXCEPT ![t] = "ready"]
      /\ UNCHANGED <<graph, disp, mutex, call, id, before, awaits, queue, mem, spec>>
  BY DEF FillSlot, objects, fences, gpuVars, d, k
<1>5. Moving(t) /\ NothingLost
  BY <1>0, <1>4 DEF Moving, Still, NothingLost, Shapes
<1>6. Faithful'
  BY <1>0, <1>4, <1>5, FaithfulKeeps DEF MemoryInv
<1>7. Filled(t)'
  <2>1. DOMAIN slots = DOMAIN Dispatches /\ slots[d] \in [Slots(d) -> [1 .. Width -> Nat]]
    BY <1>0, <1>1 DEF Shapes
  <2> DEFINE w == [i \in 1 .. Width |-> IF i <= n THEN id[t] ELSE slots[d][k][i]]
  <2>2. slots'[d] = [slots[d] EXCEPT ![k] = w]
    BY <1>1, <1>3, <2>1
  <2>3. n = Width /\ Width \in Nat
    BY NativeAssumption
  <2>4. w = [i \in 1 .. Width |-> id[t]]
    BY <2>3
  <2> HIDE DEF w
  <2>5. slots'[d][k] = [i \in 1 .. Width |-> id[t]]
    BY <1>2, <2>1, <2>2, <2>4
  <2>6. todo'[t] = <<[kind |-> "slot", on |-> d, slot |-> k]>>
    BY <1>0, <1>4 DEF Shapes
  <2>7. Len(todo'[t]) = 1 /\ Head(todo'[t]).slot = k
    BY <2>6
  <2> QED
    BY <1>4, <2>5, <2>7 DEF Filled, d
<1>8. ASSUME NEW u \in Threads \ {t}
      PROVE  Filled(u)'
  <2>1. CASE pc[u] \in Inside /\ call[u].kind = "execute_upload"
    <3>1. call[u] \in Uses[u] /\ call[u].on \in DOMAIN Dispatches
      BY <2>1, CallsAssumption DEF ListInv, InCall, Inside
    <3>2. call[u].on # d
      BY <1>1, <2>1, <3>1 DEF OneOwner, d
    <3>3. slots'[call[u].on] = slots[call[u].on]
      BY <1>0, <1>1, <1>3, <3>1, <3>2 DEF Shapes
    <3> QED
      BY <1>5, <3>3, FilledSame DEF MemoryInv, Moving
  <2>2. CASE ~(pc[u] \in Inside /\ call[u].kind = "execute_upload")
    BY <1>5, <2>2 DEF Filled, Moving, Still
  <2> QED
    BY <2>1, <2>2
<1> QED
  BY <1>6, <1>7, <1>8 DEF MemoryInv

LEMMA CallKeepsMemory ==
  ASSUME ListInv, MemoryInv, NEW t \in Threads, NEW c \in Uses[t], Call(t, c)
  PROVE  MemoryInv'
<1>1. /\ pc[t] = "idle" /\ id' = [id EXCEPT ![t] = calls + 1]
      /\ call' = [call EXCEPT ![t] = c] /\ todo' = [todo EXCEPT ![t] = SectionsOf(c)]
      /\ pc' = [pc EXCEPT ![t] = IF c.kind = "execute_upload" THEN "filling" ELSE "ready"]
      /\ UNCHANGED <<graph, disp, slots, mutex, before, awaits, queue, mem, spec>>
  BY DEF Call, objects, rings, fences, gpuVars
<1>2. Shapes
  BY DEF ListInv
<1>3. Moving(t) /\ NothingLost
  BY <1>1, <1>2 DEF Moving, Still, NothingLost, Shapes
<1>4. pc'[t] = (IF c.kind = "execute_upload" THEN "filling" ELSE "ready") /\ call'[t] = c
  BY <1>1, <1>2 DEF Shapes
<1>5. Faithful'
  BY <1>1, <1>3, FaithfulKeeps DEF MemoryInv
<1>6. Filled(t)'
  BY <1>4 DEF Filled, Inside
<1>7. \A u \in Threads \ {t} : Filled(u)'
  BY <1>1, <1>3, FilledSame DEF MemoryInv, Moving
<1> QED
  BY <1>5, <1>6, <1>7 DEF MemoryInv

LEMMA RecordKeepsMemory ==
  ASSUME ListInv, MemoryInv, NEW t \in Threads, Record(t)
  PROVE  MemoryInv'
<1>1. /\ pc[t] = "ready" /\ mutex = NoOne
      /\ before' = [before EXCEPT ![t] = [h \in Turned(t) |-> state[h]]] /\ pc' = [pc EXCEPT ![t] = "recording"]
      /\ UNCHANGED <<graph, disp, slots, call, id, todo, awaits, queue, mem, spec>>
  BY DEF Record, objects, rings, fences
<1>2. Shapes
  BY DEF ListInv
<1>3. Moving(t) /\ NothingLost
  BY <1>1, <1>2 DEF Moving, Still, NothingLost, Shapes
<1>4. Faithful'
  BY <1>1, <1>3, FaithfulKeeps DEF MemoryInv
<1>5. Filled(t)'
  BY <1>1 DEF MemoryInv, Filled, Inside
<1>6. \A u \in Threads \ {t} : Filled(u)'
  BY <1>1, <1>3, FilledSame DEF MemoryInv, Moving
<1> QED
  BY <1>4, <1>5, <1>6 DEF MemoryInv

LEMMA BumpKeepsMemory ==
  ASSUME ListInv, MemoryInv, NEW t \in Threads, Bump(t)
  PROVE  MemoryInv'
<1>1. /\ pc[t] = "bumping" /\ pc' = [pc EXCEPT ![t] = "idle"] /\ todo' = [todo EXCEPT ![t] = <<>>]
      /\ call' = [call EXCEPT ![t] = NoCall] /\ id' = [id EXCEPT ![t] = 0] /\ before' = [before EXCEPT ![t] = <<>>]
      /\ UNCHANGED <<graph, disp, slots, mutex, awaits, queue, mem, spec>>
  BY DEF Bump, Return, objects, fences, gpuVars
<1>2. Shapes
  BY DEF ListInv
<1>3. Moving(t) /\ NothingLost
  BY <1>1, <1>2 DEF Moving, Still, NothingLost, Shapes
<1>4. pc'[t] = "idle"
  BY <1>1, <1>2 DEF Shapes
<1>5. Faithful'
  BY <1>1, <1>3, FaithfulKeeps DEF MemoryInv
<1>6. Filled(t)'
  BY <1>4 DEF Filled, Inside
<1>7. \A u \in Threads \ {t} : Filled(u)'
  BY <1>1, <1>3, FilledSame DEF MemoryInv, Moving
<1> QED
  BY <1>5, <1>6, <1>7 DEF MemoryInv

\* Objects come and go without touching a buffer.
LEMMA ObjectsKeepMemory ==
  ASSUME ListInv, MemoryInv, NEW t \in Threads, pc[t] = "idle", NothingLost,
         UNCHANGED <<mutex, pc, call, id, todo, before, awaits, queue, slots, spec>>,
         \A c \in BufferCells : mem'[c] = mem[c]
  PROVE  MemoryInv'
<1>1. \A u \in Threads : Still(u)
  BY DEF Still
<1>2. Faithful'
  BY <1>1, FaithfulKeeps DEF MemoryInv, Moving
<1>3. \A u \in Threads : Filled(u)'
  BY <1>1, FilledSame DEF MemoryInv
<1> QED
  BY <1>2, <1>3 DEF MemoryInv

LEMMA ObjectsAside ==
  ASSUME ListInv, NEW t \in Threads,
         \/ \E d \in DOMAIN Dispatches : Prepare(t, d)
         \/ \E g \in DOMAIN Graphs : Compile(t, g) \/ Destroy(t, g)
  PROVE  /\ pc[t] = "idle" /\ NothingLost
         /\ UNCHANGED <<mutex, pc, call, id, todo, before, awaits, queue, slots, spec, readback, answers>>
         /\ \/ UNCHANGED mem
            \/ \E g \in DOMAIN Graphs :
                 ~graph[g].there /\ \A c \in Cells : c[1] \notin GraphValues(g) => mem'[c] = mem[c]
<1>1. Shapes
  BY DEF ListInv
<1>2. ASSUME NEW u \in Threads, pc[u] # "idle", call[u].kind = "run"
      PROVE  call[u].on \in DOMAIN Graphs /\ graph[call[u].on].there
  <2>1. call[u] \in Uses[u] /\ Holds(u)
    BY <1>2 DEF ListInv, InCall
  <2> QED
    BY <1>2, <2>1, CallsAssumption DEF Holds
<1>3. CASE \E d \in DOMAIN Dispatches : Prepare(t, d)
  <2>1. PICK d \in DOMAIN Dispatches : Prepare(t, d)
    BY <1>3
  <2>2. /\ pc[t] = "idle" /\ ~disp[d].there
        /\ disp' = [disp EXCEPT ![d] = [there |-> TRUE, cmds |-> DispatchList(d, state)]]
        /\ UNCHANGED <<graph, mem, mutex, pc, call, id, todo, before, awaits, queue, slots, spec, readback, answers>>
    BY <2>1 DEF Prepare, rings, local, fences, gpuVars
  <2> QED
    BY <1>1, <2>2 DEF NothingLost, Shapes
<1>4. CASE \E g \in DOMAIN Graphs : Compile(t, g)
  <2>1. PICK g \in DOMAIN Graphs : Compile(t, g)
    BY <1>4
  <2>2. /\ pc[t] = "idle" /\ ~graph[g].there
        /\ graph' = [graph EXCEPT ![g] = [there |-> TRUE, cmds |-> CompiledList(g)]]
        /\ mem' = [c \in Cells |-> IF c[1] \in GraphValues(g) THEN {Blank} ELSE mem[c]]
        /\ UNCHANGED <<disp, mutex, pc, call, id, todo, before, awaits, queue, slots, spec, readback, answers>>
    BY <2>1 DEF Compile, rings, local, fences
  <2> QED
    BY <1>1, <1>2, <2>2 DEF NothingLost, Shapes
<1>5. CASE \E g \in DOMAIN Graphs : Destroy(t, g)
  <2>1. PICK g \in DOMAIN Graphs : Destroy(t, g)
    BY <1>5
  <2>2. /\ pc[t] = "idle" /\ \A u \in Threads : ~(call[u].kind = "run" /\ call[u].on = g)
        /\ graph' = [graph EXCEPT ![g] = NoList]
        /\ UNCHANGED <<mem, disp, mutex, pc, call, id, todo, before, awaits, queue, slots, spec, readback, answers>>
    BY <2>1 DEF Destroy, rings, local, fences, gpuVars
  <2> QED
    BY <1>1, <1>2, <2>2 DEF NothingLost, Shapes
<1> QED
  BY <1>3, <1>4, <1>5

LEMMA AsideKeepsMemory ==
  ASSUME ListInv, MemoryInv, NEW t \in Threads,
         \/ \E d \in DOMAIN Dispatches : Prepare(t, d)
         \/ \E g \in DOMAIN Graphs : Compile(t, g) \/ Destroy(t, g)
  PROVE  MemoryInv'
<1>1. /\ pc[t] = "idle" /\ NothingLost
      /\ UNCHANGED <<mutex, pc, call, id, todo, before, awaits, queue, slots, spec>>
      /\ \/ UNCHANGED mem
         \/ \E g \in DOMAIN Graphs :
              ~graph[g].there /\ \A c \in Cells : c[1] \notin GraphValues(g) => mem'[c] = mem[c]
  BY ObjectsAside
<1>2. \A g \in DOMAIN Graphs : \A c \in BufferCells : c \in Cells /\ c[1] \notin GraphValues(g)
  <2>1. \A g \in DOMAIN Graphs : GraphValues(g) \subseteq Owned
    BY DEF Owned
  <2>2. \A c \in BufferCells : c \in Cells /\ c[1] \in DOMAIN Buffers
    BY HandleSpace DEF BufferCells
  <2> QED
    BY <2>1, <2>2, HandleSpace
<1>3. \A c \in BufferCells : mem'[c] = mem[c]
  BY <1>1, <1>2
<1> QED
  BY <1>1, <1>3, ObjectsKeepMemory

LEMMA MemoryStep ==
  ASSUME ListInv, MemoryInv, FailingWaits \subseteq {"prepared", "slot"}, OneOwner, Lengths \subseteq {Width},
         [Next]_vars
  PROVE  MemoryInv'
<1>1. ASSUME NEW t \in Threads, FillSlot(t) PROVE MemoryInv'
  BY <1>1, FillSlotKeepsMemory
<1>2. ASSUME NEW t \in Threads, Record(t) PROVE MemoryInv'
  BY <1>2, RecordKeepsMemory
<1>3. ASSUME NEW t \in Threads, Submit(t) PROVE MemoryInv'
  BY <1>3, SubmitKeepsMemory
<1>4. ASSUME NEW t \in Threads, Wake(t) PROVE MemoryInv'
  BY <1>4, WakeKeepsMemory
<1>5. ASSUME NEW t \in Threads, Bump(t) PROVE MemoryInv'
  BY <1>5, BumpKeepsMemory
<1>6. ASSUME NEW t \in Threads, FailWait(t) PROVE MemoryInv'
  BY <1>6, FailWaitKeepsMemory
<1>7. ASSUME NEW t \in Threads, NEW c \in Uses[t], Call(t, c) PROVE MemoryInv'
  BY <1>7, CallKeepsMemory
<1>8. ASSUME NEW t \in Threads,
             \/ \E d \in DOMAIN Dispatches : Prepare(t, d)
             \/ \E g \in DOMAIN Graphs : Compile(t, g) \/ Destroy(t, g)
      PROVE MemoryInv'
  BY <1>8, AsideKeepsMemory
<1>9. CASE GpuExecute
  BY <1>9, GpuKeepsMemory
<1>10. CASE UNCHANGED vars
  <2>1. UNCHANGED <<graph, disp, slots, mutex, pc, call, id, todo, before, awaits, queue, mem, spec>>
    BY <1>10 DEF vars, objects, rings, local, fences, gpuVars
  <2>2. NothingLost /\ \A t \in Threads : Still(t)
    BY <2>1 DEF NothingLost, Still
  <2>3. \A t \in Threads : Filled(t)'
    BY <2>1, <2>2, FilledSame DEF MemoryInv
  <2>4. \A i, c : Spares(i, c) => Spares(i, c)'
    BY <2>1, <2>2, SparesSame
  <2>5. \A c : \A t \in Threads : DueFrom(c, t) => DueFrom(c, t)'
    <3>1. ASSUME NEW c, NEW t \in Threads, DueFrom(c, t)
          PROVE  DueFrom(c, t)'
      <4>1. queue' # <<>>
        BY <2>1, <3>1 DEF DueFrom
      <4> QED
        BY <2>1, <2>2, <3>1, <4>1, DueSame
    <3> QED
      BY <3>1
  <2>6. Faithful'
    BY <2>1, <2>4, <2>5 DEF MemoryInv, Faithful
  <2> QED
    BY <2>3, <2>6 DEF MemoryInv
<1> QED
  BY <1>1, <1>2, <1>3, <1>4, <1>5, <1>6, <1>7, <1>8, <1>9, <1>10 DEF Next, Step

LEMMA InitMemory ==
  ASSUME Init
  PROVE  MemoryInv
<1>1. Faithful
  BY DEF Init, Faithful, BufferCells
<1>2. \A t \in Threads : Filled(t)
  BY DEF Init, Filled, Inside
<1> QED
  BY <1>1, <1>2 DEF MemoryInv

LEMMA MemoryInvariant ==
  ASSUME Apart, FailingWaits \subseteq {"prepared", "slot"}, OneOwner, Lengths \subseteq {Width}
  PROVE  Spec => []MemoryInv
<1>1. Spec => []ListInv
  BY ListInvariant
<1>2. Init => MemoryInv
  BY InitMemory
<1>3. ListInv /\ MemoryInv /\ [Next]_vars => MemoryInv'
  BY MemoryStep
<1> QED
  BY <1>1, <1>2, <1>3, PTL DEF Spec

\* Buffers hold what their callers mean, each call taking effect at once in the
\* order of submission, when whole inputs are uploaded and each graph and each
\* upload ring is used by one thread.
THEOREM MemoryAsMeant ==
  ASSUME Apart, FailingWaits \subseteq {"prepared", "slot"}, OneOwner, Lengths \subseteq {Width}
  PROVE  Spec => []MemoryIsSequential
<1>1. Spec => []MemoryInv
  BY MemoryInvariant
<1>2. MemoryInv => MemoryIsSequential
  BY DEF MemoryInv, Faithful, DueFrom, MemoryIsSequential, BufferCells
<1> QED
  BY <1>1, <1>2, PTL

------------------------------------------------------------------------------
(* What calls return                                                          *)

\* The number of sections of the call of thread t that the GPU has done.
Done(t) ==
  (Len(SectionsOf(call[t])) - Len(todo[t])) + IF pc[t] = "waiting" /\ queue = <<>> THEN 1 ELSE 0

\* A thread goes through the sections of its call in order.
InOrder(t) ==
  pc[t] \in Inside /\ call[t].kind = "run" =>
    LET S == SectionsOf(call[t])
    IN  /\ Len(todo[t]) \in 1 .. Len(S)
        /\ \A i \in 1 .. Len(todo[t]) : todo[t][i] = S[(Len(S) - Len(todo[t])) + i]

\* The inputs that are filled, and the output once it is made, are of the call.
Running(t) ==
  pc[t] \in Inside /\ call[t].kind = "run" =>
    LET g == call[t].on
        n == Graphs[g].inputs
    IN  /\ \A v \in 0 .. n - 1 : v < Done(t) /\ Done(t) <= n => \A x \in At(g, v) : mem[x] = {id[t]}
        /\ Reliable(g) /\ Done(t) > n => \A x \in At(g, Graphs[g].output) : mem[x] = {id[t]}

\* A download that was executed has what is in the buffer.
Copying(t) ==
  pc[t] = "waiting" /\ queue = <<>> /\ Head(todo[t]).kind = "read" =>
    readback[t] = UNION {mem[x] : x \in Elements(Head(todo[t]).on)}

OnCourse(t) == InOrder(t) /\ Running(t) /\ Copying(t)

AnswerInv == (\A t \in Threads : OnCourse(t)) /\ AnswersAreOfTheCall

\* A handle has elements.
LEMMA HasElements ==
  ASSUME NEW h \in Handles
  PROVE  Elements(h) # {}
<1>1. CASE h \in Owned
  <2>1. 0 \in 0 .. Width - 1
    BY NativeAssumption
  <2>2. <<h, 0>> \in Elements(h)
    BY <1>1, <2>1 DEF Elements
  <2> QED
    BY <2>2
<1>2. CASE h \notin Owned
  <2>1. Buffers[h].lo \in Buffers[h].lo .. Buffers[h].lo + Buffers[h].n - 1
    BY <1>2, NativeAssumption DEF Handles
  <2>2. <<Buffers[h].res, Buffers[h].lo>> \in Elements(h)
    BY <1>2, <2>1 DEF Elements
  <2> QED
    BY <2>2
<1> QED
  BY <1>1, <1>2

\* A run fills its inputs, executes its graph and downloads the output.
LEMMA RunSections ==
  ASSUME NEW c, c.kind = "run", c.on \in DOMAIN Graphs, NEW g, g = c.on, NEW n, n = Graphs[g].inputs,
         NEW S, S = SectionsOf(c)
  PROVE  /\ n \in 1 .. 10 /\ Len(S) = n + 2
         /\ \A i \in 1 .. n : S[i] = [kind |-> "fill", on |-> ValueOf(g, i - 1)]
         /\ S[n + 1] = [kind |-> "graph", on |-> g]
         /\ S[n + 2] = [kind |-> "read", on |-> ValueOf(g, Graphs[g].output)]
<1> DEFINE a == [i \in 1 .. n |-> [kind |-> "fill", on |-> ValueOf(g, i - 1)]]
           x == [kind |-> "graph", on |-> g]
           y == [kind |-> "read", on |-> ValueOf(g, Graphs[g].output)]
           T == Range(a) \cup {x, y}
<1>1. n \in 1 .. 10
  BY NativeAssumption
<1>2. S = a \o <<x, y>>
  BY DEF SectionsOf
<1>3. a \in [1 .. n -> T]
  BY DEF Range
<1>4. \A i \in 1 .. n : a[i] = [kind |-> "fill", on |-> ValueOf(g, i - 1)]
  OBVIOUS
<1> HIDE DEF a, T
<1>5. a \in Seq(T) /\ Len(a) = n
  BY <1>1, <1>3, Mapped
<1>6. <<x, y>> \in Seq(T)
  BY DEF T
<1> HIDE DEF x, y
<1>7. Len(<<x, y>>) = 2 /\ <<x, y>>[1] = x /\ <<x, y>>[2] = y
  OBVIOUS
<1>8. PICK b : b = <<x, y>>
  OBVIOUS
<1>9. /\ Len(a \o b) = n + 2 /\ (\A i \in 1 .. n : (a \o b)[i] = a[i])
      /\ (a \o b)[n + 1] = b[1] /\ (a \o b)[n + 2] = b[2]
  <2>1. Adjoined(a, b, a \o b)
    BY <1>5, <1>6, <1>8, Joined
  <2>2. Len(b) = 2 /\ 1 \in 1 .. Len(b) /\ 2 \in 1 .. Len(b)
    BY <1>7, <1>8
  <2>3. Len(a \o b) = n + 2 /\ \A i \in 1 .. n : (a \o b)[i] = a[i]
    BY ONLY <1>1, <1>5, <2>1, <2>2 DEF Adjoined
  <2>4. (a \o b)[n + 1] = b[1] /\ (a \o b)[n + 2] = b[2]
    BY ONLY <1>1, <1>5, <2>1, <2>2 DEF Adjoined
  <2> QED
    BY <2>3, <2>4
<1> QED
  BY <1>1, <1>2, <1>4, <1>7, <1>8, <1>9 DEF x, y

\* The sections of a run: fills, the graph, a read.
RunForm(g, n, S) ==
  /\ n \in 1 .. 10 /\ Len(S) = n + 2
  /\ \A i \in 1 .. n : S[i] = [kind |-> "fill", on |-> ValueOf(g, i - 1)]
  /\ S[n + 1] = [kind |-> "graph", on |-> g]
  /\ S[n + 2] = [kind |-> "read", on |-> ValueOf(g, Graphs[g].output)]

LEMMA RunForms ==
  ASSUME NEW c, c.kind = "run", c.on \in DOMAIN Graphs
  PROVE  RunForm(c.on, Graphs[c.on].inputs, SectionsOf(c))
BY RunSections DEF RunForm

\* Where a run is: thread t is at section p of its call.
Place(t) == (Graphs[call[t].on].inputs + 3) - Len(todo[t])

LEMMA RunPlace ==
  ASSUME NEW t \in Threads, InCall(t), OnCourse(t), pc[t] \in Inside, call[t].kind = "run",
         NEW g, g = call[t].on, NEW n, n = Graphs[g].inputs, NEW p, p = Place(t),
         NEW s, s = Head(todo[t])
  PROVE  /\ g \in DOMAIN Graphs /\ n \in 1 .. 10 /\ p \in 1 .. n + 2
         /\ Done(t) = (p - 1) + (IF pc[t] = "waiting" /\ queue = <<>> THEN 1 ELSE 0)
         /\ p <= n => s = [kind |-> "fill", on |-> ValueOf(g, p - 1)]
         /\ p = n + 1 => s = [kind |-> "graph", on |-> g]
         /\ p = n + 2 => s = [kind |-> "read", on |-> ValueOf(g, Graphs[g].output)]
<1>1. g \in DOMAIN Graphs
  BY CallsAssumption DEF InCall, Inside
<1>2. PICK c, S : c = call[t] /\ S = SectionsOf(c)
  OBVIOUS
<1>3. /\ n \in 1 .. 10 /\ Len(S) = n + 2
      /\ \A i \in 1 .. n : S[i] = [kind |-> "fill", on |-> ValueOf(g, i - 1)]
      /\ S[n + 1] = [kind |-> "graph", on |-> g]
      /\ S[n + 2] = [kind |-> "read", on |-> ValueOf(g, Graphs[g].output)]
  BY <1>1, <1>2, RunSections
<1>4. PICK q : q = todo[t]
  OBVIOUS
<1>5. Len(q) \in 1 .. n + 2 /\ \A i \in 1 .. Len(q) : q[i] = S[((n + 2) - Len(q)) + i]
  BY <1>2, <1>3, <1>4 DEF OnCourse, InOrder
<1>6. s = q[1] /\ p = (n + 3) - Len(q)
  BY <1>4 DEF Place
<1>7. p \in 1 .. n + 2 /\ s = S[p]
  <2>1. ((n + 2) - Len(q)) + 1 = p
    BY <1>3, <1>5, <1>6
  <2>2. 1 \in 1 .. Len(q) /\ p \in 1 .. n + 2
    <3>1. PICK k : k = Len(q)
      OBVIOUS
    <3>2. k \in 1 .. n + 2 /\ n \in 1 .. 10 /\ p = (n + 3) - k
      BY <1>3, <1>5, <1>6, <3>1
    <3>3. 1 \in 1 .. k /\ p \in 1 .. n + 2
      BY ONLY <3>2
    <3> QED
      BY ONLY <3>1, <3>3
  <2>3. q[1] = S[((n + 2) - Len(q)) + 1]
    BY <1>5, <2>2
  <2> QED
    BY <1>6, <2>1, <2>2, <2>3
<1>8. Done(t) = (p - 1) + (IF pc[t] = "waiting" /\ queue = <<>> THEN 1 ELSE 0)
  BY <1>2, <1>3, <1>4, <1>5, <1>6 DEF Done
<1>9. p <= n => s = [kind |-> "fill", on |-> ValueOf(g, p - 1)]
  <2>1. p <= n => p \in 1 .. n
    BY ONLY <1>3, <1>7
  <2> QED
    BY ONLY <1>3, <1>7, <2>1
<1>10. /\ p = n + 1 => s = [kind |-> "graph", on |-> g]
       /\ p = n + 2 => s = [kind |-> "read", on |-> ValueOf(g, Graphs[g].output)]
  BY ONLY <1>3, <1>7
<1>11. n \in 1 .. 10 /\ p \in 1 .. n + 2
  BY ONLY <1>3, <1>7
<1> QED
  BY ONLY <1>1, <1>8, <1>9, <1>10, <1>11

\* The cells a call relies on between its sections.
Relied(t) == IF call[t].kind = "run" THEN GraphCells(call[t].on) ELSE BufferCells

\* A value of a graph that is an input or the output is one of its cells.
LEMMA RunCells ==
  ASSUME NEW g \in DOMAIN Graphs
  PROVE  /\ \A v \in 0 .. Graphs[g].inputs - 1 : At(g, v) \subseteq GraphCells(g)
         /\ At(g, Graphs[g].output) \subseteq GraphCells(g)
<1>1. PICK d : d = Graphs[g]
  OBVIOUS
<1>2. 0 .. d.inputs - 1 \subseteq Allocated(d) /\ d.output \in Allocated(d)
  BY <1>1, GraphSpace
<1> QED
  BY <1>1, <1>2 DEF GraphCells

LEMMA ReadCells ==
  ASSUME NEW t \in Threads, NEW s, Fits(call[t], s), s.kind = "read"
  PROVE  Elements(s.on) \subseteq Relied(t) /\ s.on \in Handles
<1>1. CASE call[t].kind = "download"
  <2>1. s.on \in DOMAIN Buffers
    BY <1>1 DEF Fits
  <2>2. Elements(s.on) \subseteq Cells /\ (\A x \in Elements(s.on) : x[1] = Res(s.on)) /\ s.on \in Handles
    BY <2>1, CellSpace DEF Handles
  <2>3. Res(s.on) = Buffers[s.on].res
    BY <2>1, HandleSpace
  <2> QED
    BY <1>1, <2>1, <2>2, <2>3 DEF Relied, BufferCells
<1>2. CASE call[t].kind # "download"
  <2>1. PICK g : g = call[t].on
    OBVIOUS
  <2>2. call[t].kind = "run" /\ g \in DOMAIN Graphs /\ s.on = ValueOf(g, Graphs[g].output) /\ s.on \in GraphValues(g)
    BY <1>2, <2>1 DEF Fits
  <2>3. Elements(s.on) \subseteq GraphCells(g)
    BY <2>2, RunCells DEF At
  <2> QED
    BY <2>1, <2>2, <2>3, GraphValuesHandles DEF Relied
<1> QED
  BY <1>1, <1>2

\* A thread that does not move stays on course while its cells do.
LEMMA CourseSame ==
  ASSUME NEW t \in Threads, InCall(t), OnCourse(t), Still(t),
         pc[t] = "waiting" => UNCHANGED queue, readback'[t] = readback[t],
         pc[t] # "idle" => \A x \in Relied(t) : mem'[x] = mem[x]
  PROVE  OnCourse(t)'
<1>1. InOrder(t)'
  BY DEF OnCourse, InOrder, Still
<1>2. Running(t)'
  <2>1. CASE pc[t] \in Inside /\ call[t].kind = "run"
    <3>1. PICK g : g = call[t].on
      OBVIOUS
    <3>2. g \in DOMAIN Graphs
      BY <2>1, <3>1, CallsAssumption DEF InCall, Inside
    <3>3. \A x \in GraphCells(g) : mem'[x] = mem[x]
      BY <2>1, <3>1 DEF Relied, Inside
    <3>4. Done(t)' = Done(t)
      BY DEF Done, Still
    <3>5. PICK n : n = Done(t)
      OBVIOUS
    <3>6. /\ \A v \in 0 .. Graphs[g].inputs - 1 :
                v < n /\ n <= Graphs[g].inputs => \A x \in At(g, v) : mem[x] = {id[t]}
          /\ Reliable(g) /\ n > Graphs[g].inputs => \A x \in At(g, Graphs[g].output) : mem[x] = {id[t]}
      BY <2>1, <3>1, <3>5 DEF OnCourse, Running
    <3>7. /\ \A v \in 0 .. Graphs[g].inputs - 1 :
                v < n /\ n <= Graphs[g].inputs => \A x \in At(g, v) : mem'[x] = {id'[t]}
          /\ Reliable(g) /\ n > Graphs[g].inputs => \A x \in At(g, Graphs[g].output) : mem'[x] = {id'[t]}
      BY <3>2, <3>3, <3>6, RunCells DEF Still
    <3> QED
      BY <3>1, <3>4, <3>5, <3>7 DEF Running, Still
  <2>2. CASE ~(pc[t] \in Inside /\ call[t].kind = "run")
    BY <2>2 DEF Running, Still
  <2> QED
    BY <2>1, <2>2
<1>3. Copying(t)'
  <2>1. CASE pc[t] = "waiting" /\ queue = <<>> /\ Head(todo[t]).kind = "read"
    <3>1. PICK s : s = Head(todo[t])
      OBVIOUS
    <3>2. Fits(call[t], s)
      BY <2>1, <3>1, SectionIn DEF Inside
    <3>3. Elements(s.on) \subseteq Relied(t)
      BY <2>1, <3>1, <3>2, ReadCells
    <3>4. readback[t] = UNION {mem[x] : x \in Elements(s.on)}
      BY <2>1, <3>1 DEF OnCourse, Copying
    <3>5. \A x \in Elements(s.on) : mem'[x] = mem[x]
      BY <2>1, <3>3
    <3>6. {mem'[x] : x \in Elements(s.on)} = {mem[x] : x \in Elements(s.on)}
      BY <3>5
    <3> QED
      BY <3>1, <3>4, <3>6 DEF Copying, Still
  <2>2. CASE ~(pc[t] = "waiting" /\ queue = <<>> /\ Head(todo[t]).kind = "read")
    BY <2>2 DEF Copying, Still
  <2> QED
    BY <2>1, <2>2
<1> QED
  BY <1>1, <1>2, <1>3 DEF OnCourse

\* The cells of different graphs are different, and no buffer's and no upload's.
LEMMA GraphCellSpace ==
  ASSUME NEW g \in DOMAIN Graphs, NEW x \in GraphCells(g)
  PROVE  /\ x \in Cells /\ x[1] \in GraphValues(g) /\ x \notin BufferCells /\ x[1] \notin DOMAIN Buffers
         /\ \A o \in DOMAIN Graphs : o # g => x[1] \notin GraphValues(o) /\ x \notin GraphCells(o)
         /\ \A d \in Uploading : x \notin Elements(InputOf(d))
<1>1. PICK v \in Allocated(Graphs[g]) : x \in At(g, v)
  BY DEF GraphCells
<1>2. /\ ValueOf(g, v) \in GraphValues(g) /\ ValueOf(g, v) \notin DOMAIN Buffers
      /\ x \in Cells /\ x[1] = ValueOf(g, v)
  BY <1>1, ValueSpace
<1>3. v \in 0 .. 9
  <2>1. PICK d : d = Graphs[g]
    OBVIOUS
  <2>2. Allocated(d) \subseteq 0 .. 9
    BY <2>1, GraphSpace
  <2> QED
    BY <1>1, <2>1, <2>2
<1>4. g \in 1 .. 8
  BY NativeAssumption
<1>5. ASSUME NEW o \in DOMAIN Graphs, o # g
      PROVE  x[1] \notin GraphValues(o) /\ x \notin GraphCells(o)
  <2>1. PICK d : d = Graphs[o]
    OBVIOUS
  <2>2. Allocated(d) \subseteq 0 .. 9 /\ o \in 1 .. 8
    BY <2>1, GraphSpace, NativeAssumption
  <2>3. \A w \in Allocated(d) : ValueOf(o, w) # ValueOf(g, v)
    BY <1>3, <1>4, <1>5, <2>2 DEF ValueOf
  <2>4. \A w \in Allocated(d) : \A y \in At(o, w) : y[1] = ValueOf(o, w)
    BY <2>1, ValueSpace
  <2> QED
    BY <1>2, <2>1, <2>3, <2>4 DEF GraphValues, GraphCells
<1>6. ASSUME NEW d \in Uploading
      PROVE  x \notin Elements(InputOf(d))
  <2>1. Elements(InputOf(d)) = {InputOf(d)} \X (0 .. Width - 1)
    BY InputSpace
  <2>2. d \in 1 .. 9
    BY NativeAssumption DEF Uploading
  <2>3. ValueOf(g, v) # InputOf(d)
    BY <1>3, <1>4, <2>2 DEF ValueOf, InputOf
  <2> QED
    BY <1>2, <2>1, <2>3
<1>7. \A c \in BufferCells : c[1] \in DOMAIN Buffers
  BY HandleSpace DEF BufferCells
<1> QED
  BY <1>2, <1>5, <1>6, <1>7

\* The list of a dispatch does not touch a graph.
LEMMA DispatchSparesGraphs ==
  ASSUME NEW d \in DOMAIN Dispatches, NEW item, OfDispatch(item, d), item.by \in Nat,
         NEW g \in DOMAIN Graphs, NEW x \in GraphCells(g),
         NEW m, Ready(m), NEW n, n = Ran(m, Loaded(item), item.by)
  PROVE  n.mem[x] = m.mem[x]
<1>1. PICK cmds, args : cmds = Loaded(item) /\ args = Dispatches[d].args
  OBVIOUS
<1>2. x \in Cells /\ x \notin BufferCells /\ x[1] \notin DOMAIN Buffers
  BY GraphCellSpace
<1>3. x \notin OutCells(args)
  <2>1. Operands(Dispatches[d].kind, args)
    BY <1>1, CallsAssumption
  <2>2. args \in Seq(DOMAIN Buffers) /\ Len(args) > 1
    BY <2>1 DEF Operands
  <2>3. Last(args) \in DOMAIN Buffers
    BY <2>2, FrontLast
  <2>4. \A y \in OutCells(args) : y[1] = Res(Last(args))
    BY <2>3, CellSpace DEF OutCells, Handles
  <2>5. Res(Last(args)) \in DOMAIN Buffers
    BY <2>3, HandleSpace
  <2> QED
    BY <1>2, <2>4, <2>5
<1>4. CASE d \in Uploading
  <2>1. Keeps(cmds, OutCells(args) \cup Elements(InputOf(d)))
    BY <1>1, <1>4, DispatchRuns
  <2>2. x \notin Elements(InputOf(d))
    BY <1>4, GraphCellSpace
  <2> QED
    BY <1>1, <1>2, <1>3, <2>1, <2>2 DEF Keeps
<1>5. CASE d \notin Uploading
  <2>1. Makes(cmds, InCells(args), OutCells(args))
    BY <1>1, <1>5, DispatchRuns
  <2>2. n.mem = Computed(Cells, m.mem, InCells(args), OutCells(args), item.by)
    BY <1>1, <2>1 DEF Makes
  <2> QED
    BY <1>2, <1>3, <2>2 DEF Computed
<1> QED
  BY <1>4, <1>5

\* Nor does a list another thread waits for touch the graph of a run.
LEMMA OthersSpareGraphs ==
  ASSUME ListInv, OneOwner, queue # <<>>, NEW item, item = Head(queue),
         NEW u \in Threads, pc[u] \in Inside, call[u].kind = "run", NEW g, g = call[u].on,
         LeftBehind(1) \/ \E t \in Threads \ {u} : Awaited(1, t),
         NEW x \in GraphCells(g),
         NEW m, Ready(m), NEW n, n = Ran(m, Loaded(item), item.by)
  PROVE  n.mem[x] = m.mem[x]
<1>1. item = queue[1] /\ item.by \in Nat /\ Shapes /\ Recorded
  BY ItemRuns DEF ListInv, Shapes
<1>2. g \in DOMAIN Graphs /\ call[u] \in Uses[u]
  BY CallsAssumption DEF ListInv, InCall, Inside
<1>3. ASSUME NEW d \in DOMAIN Dispatches, OfDispatch(item, d)
      PROVE  n.mem[x] = m.mem[x]
  BY <1>1, <1>2, <1>3, DispatchSparesGraphs
<1>4. CASE LeftBehind(1)
  <2>1. PICK d \in DOMAIN Dispatches : IsListOf(1, d)
    BY <1>4 DEF LeftBehind
  <2>2. disp[d].there /\ item.cmds = disp[d].cmds
        /\ (d \in Uploading => \E k \in Slots(d) : item.ring = <<d, k>>)
        /\ (d \notin Uploading => item.ring = <<>>)
    BY <1>1, <2>1 DEF IsListOf
  <2>3. disp[d].cmds = DispatchList(d, Common) /\ slots[d] \in [Slots(d) -> [1 .. Width -> Nat]]
    BY <1>1, <2>2 DEF Recorded, Shapes
  <2>4. OfDispatch(item, d)
    BY <2>2, <2>3 DEF OfDispatch
  <2> QED
    BY <1>3, <2>4
<1>5. CASE \E t \in Threads \ {u} : Awaited(1, t)
  <2>1. PICK t \in Threads \ {u} : Awaited(1, t)
    BY <1>5
  <2>2. pc[t] = "waiting" /\ item = Submitted(t, awaits[t])
    BY <1>1, <2>1 DEF Awaited
  <2>3. InCall(t) /\ Locked(t)
    BY <2>1 DEF ListInv
  <2>4. PICK s : s = Head(todo[t])
    OBVIOUS
  <2>5. Fits(call[t], s) /\ Holds(t) /\ before[t] = [h \in Turned(t) |-> "COMMON"] /\ call[t] \in Uses[t]
    BY <2>1, <2>2, <2>3, <2>4, SectionIn DEF Inside, Locked
  <2>6. CASE s.kind \in {"prepared", "slot"}
    <3>1. s.on \in DOMAIN Dispatches /\ OfDispatch(item, s.on)
      BY <1>1, <2>1, <2>2, <2>4, <2>5, <2>6, SectionOfDispatch
    <3> QED
      BY <1>3, <3>1
  <2>7. CASE s.kind \notin {"prepared", "slot"}
    <3>0. PICK cmds : cmds = Loaded(item)
      OBVIOUS
    <3>1. SectionDoes(s, call[t], cmds)
      BY <1>1, <2>1, <2>2, <2>4, <2>5, <2>7, <3>0, SectionRuns
    <3>2. call[t].kind = "run" => call[t].on # g
      BY <1>2, <2>1, <2>5 DEF OneOwner
    <3>3. x \in Cells /\ x[1] \notin DOMAIN Buffers
          /\ \A o \in DOMAIN Graphs : o # g => x[1] \notin GraphValues(o) /\ x \notin GraphCells(o)
      BY <1>2, GraphCellSpace
    <3>4. \A in, out : Makes(cmds, in, out) /\ x \notin out => n.mem[x] = m.mem[x]
      <4>1. ASSUME NEW in, NEW out, Makes(cmds, in, out), x \notin out
            PROVE  n.mem[x] = m.mem[x]
        <5>1. n.mem = Computed(Cells, m.mem, in, out, item.by)
          BY <1>1, <3>0, <4>1 DEF Makes
        <5> QED
          BY <3>3, <4>1, <5>1 DEF Computed
      <4> QED
        BY <4>1
    <3>5. \A cells : Keeps(cmds, cells) /\ x \notin cells => n.mem[x] = m.mem[x]
      BY <1>1, <3>0, <3>3 DEF Keeps
    <3>6. CASE s.kind = "fill"
      <4>1. call[t].on \in DOMAIN Graphs /\ s.on \in GraphValues(call[t].on) /\ call[t].kind = "run"
        BY <2>5, <3>6 DEF Fits
      <4>2. s.on \in Handles /\ Res(s.on) = s.on
        BY <4>1, GraphValuesHandles, HandleSpace DEF Owned
      <4>3. x \notin Elements(s.on)
        BY <3>2, <3>3, <4>1, <4>2, CellSpace
      <4> QED
        BY <3>1, <3>4, <3>6, <4>3 DEF SectionDoes
    <3>7. CASE s.kind = "read"
      <4>1. Keeps(cmds, {})
        BY <3>1, <3>7 DEF SectionDoes
      <4> QED
        BY <3>5, <4>1
    <3>8. CASE s.kind = "kernel"
      <4>1. Operands(call[t].kind, s.on)
        BY <2>5, <3>8 DEF Fits
      <4>2. s.on \in Seq(DOMAIN Buffers) /\ Len(s.on) > 1
        BY <4>1 DEF Operands
      <4>3. Last(s.on) \in DOMAIN Buffers
        BY <4>2, FrontLast
      <4>4. \A y \in OutCells(s.on) : y[1] \in DOMAIN Buffers
        BY <4>3, CellSpace, HandleSpace DEF OutCells, Handles
      <4> QED
        BY <3>1, <3>3, <3>4, <3>8, <4>4 DEF SectionDoes
    <3>9. CASE s.kind = "graph"
      <4>1. s.on = call[t].on /\ call[t].kind = "run" /\ s.on \in DOMAIN Graphs
        BY <2>5, <3>9 DEF Fits
      <4> QED
        BY <3>1, <3>2, <3>3, <3>5, <3>9, <4>1 DEF SectionDoes
    <3> QED
      BY <2>5, <2>7, <3>6, <3>7, <3>8, <3>9 DEF Fits, SectionKinds
  <2> QED
    BY <2>6, <2>7
<1> QED
  BY <1>4, <1>5

\* The section a run waits for brings it on.
LEMMA RunAdvances ==
  ASSUME ListInv, NEW t \in Threads, OnCourse(t), pc[t] = "waiting", call[t].kind = "run",
         Len(queue) = 1, NEW item, item = Head(queue),
         NEW g, g = call[t].on, NEW k, k = Graphs[g].inputs, NEW p, p = Place(t),
         NEW m, Ready(m), m.mem = mem, NEW n, n = Ran(m, Loaded(item), item.by)
  PROVE  /\ \A v \in 0 .. k - 1 : v < p /\ p <= k => \A x \in At(g, v) : n.mem[x] = {id[t]}
         /\ Reliable(g) /\ p > k => \A x \in At(g, Graphs[g].output) : n.mem[x] = {id[t]}
<1>1. queue # <<>> /\ item = queue[1]
  <2>2. queue # <<>>
    <3>1. ASSUME queue = <<>>
          PROVE  Len(queue) = 0
      BY ONLY <3>1
    <3> QED
      BY <3>1
  <2>3. queue \in Seq(Range(queue))
    BY DEF ListInv, Shapes
  <2> QED
    BY <2>2, <2>3
<1>2. item.by \in Nat /\ Shapes /\ Recorded
  BY <1>1, ItemRuns DEF ListInv
<1>3. InCall(t) /\ Locked(t) /\ Awaited(1, t)
  BY DEF ListInv, Lined
<1>4. item = Submitted(t, awaits[t])
  BY <1>1, <1>3 DEF Awaited
<1>5. item.by = id[t]
  BY <1>4 DEF Submitted
<1>6. PICK s, cmds : s = Head(todo[t]) /\ cmds = Loaded(item)
  OBVIOUS
<1>7. Fits(call[t], s) /\ Holds(t) /\ before[t] = [h \in Turned(t) |-> "COMMON"]
  BY <1>3, <1>6, SectionIn DEF Inside, Locked
<1>8. /\ g \in DOMAIN Graphs /\ k \in 1 .. 10 /\ p \in 1 .. k + 2
      /\ Done(t) = (p - 1) + (IF pc[t] = "waiting" /\ queue = <<>> THEN 1 ELSE 0)
      /\ p <= k => s = [kind |-> "fill", on |-> ValueOf(g, p - 1)]
      /\ p = k + 1 => s = [kind |-> "graph", on |-> g]
      /\ p = k + 2 => s = [kind |-> "read", on |-> ValueOf(g, Graphs[g].output)]
  BY <1>3, <1>6, RunPlace DEF Inside
<1>9. Done(t) = p - 1
  BY <1>1, <1>8
<1>10. /\ \A v \in 0 .. k - 1 : v < p - 1 /\ p - 1 <= k => \A x \in At(g, v) : mem[x] = {id[t]}
       /\ Reliable(g) /\ p - 1 > k => \A x \in At(g, Graphs[g].output) : mem[x] = {id[t]}
  BY <1>9 DEF OnCourse, Running, Inside
<1>11. s.kind \notin {"prepared", "slot"} => SectionDoes(s, call[t], cmds)
  BY <1>2, <1>4, <1>6, <1>7, SectionRuns
<1>12. n = Ran(m, cmds, id[t]) /\ id[t] \in Nat
  BY <1>2, <1>5, <1>6
<1>13. (\A v \in 0 .. k - 1 : At(g, v) \subseteq Cells) /\ At(g, Graphs[g].output) \subseteq Cells
  BY <1>8, RunCells, GraphCellSpace
<1>14. CASE p <= k
  <2>1. s.kind = "fill" /\ Elements(s.on) = At(g, p - 1)
    BY <1>8, <1>14 DEF At
  <2>2. Makes(cmds, {}, At(g, p - 1))
    BY <1>11, <2>1 DEF SectionDoes
  <2>3. n.mem = Computed(Cells, m.mem, {}, At(g, p - 1), id[t])
    BY <1>12, <2>2 DEF Makes
  <2>4. \A x \in Cells \cap At(g, p - 1) : n.mem[x] = {id[t]}
    BY <2>3 DEF Computed
  <2>5. \A x \in Cells \ At(g, p - 1) : n.mem[x] = mem[x]
    BY <2>3 DEF Computed
  <2>6. ASSUME NEW v \in 0 .. k - 1, v < p, NEW x \in At(g, v)
        PROVE  n.mem[x] = {id[t]}
    <3>1. x \in Cells
      BY <1>13, <2>6
    <3>2. CASE x \in At(g, p - 1)
      BY <2>4, <3>1, <3>2
    <3>3. CASE x \notin At(g, p - 1)
      <4>1. v < p - 1
        <5>1. v # p - 1
          BY <2>6, <3>3
        <5> QED
          BY ONLY <1>8, <2>6, <5>1
      <4>2. p - 1 <= k
        BY ONLY <1>8, <1>14
      <4>3. mem[x] = {id[t]}
        BY <1>10, <2>6, <4>1, <4>2
      <4> QED
        BY <2>5, <3>1, <3>3, <4>3
    <3> QED
      BY <3>2, <3>3
  <2>7. ~(p > k)
    BY ONLY <1>8, <1>14
  <2> QED
    BY <2>6, <2>7
<1>15. CASE p = k + 1
  <2>1. s.kind = "graph" /\ s.on = g
    BY <1>8, <1>15
  <2>2. Reliable(g) => Carries(cmds, g)
    BY <1>11, <2>1 DEF SectionDoes
  <2>3. \A v \in 0 .. k - 1 : \A x \in At(g, v) : m.mem[x] = {id[t]}
    <3>1. \A v \in 0 .. k - 1 : v < p - 1 /\ p - 1 <= k
      BY ONLY <1>8, <1>15
    <3> QED
      BY <1>10, <3>1
  <2>4. Reliable(g) => \A x \in At(g, Graphs[g].output) : n.mem[x] = {id[t]}
    BY <1>12, <2>2, <2>3 DEF Carries
  <2>5. ~(p <= k)
    BY ONLY <1>8, <1>15
  <2> QED
    BY <2>4, <2>5
<1>16. CASE p = k + 2
  <2>1. s.kind = "read"
    BY <1>8, <1>16
  <2>2. Keeps(cmds, {})
    BY <1>11, <2>1 DEF SectionDoes
  <2>3. \A x \in Cells : n.mem[x] = mem[x]
    BY <1>12, <2>2 DEF Keeps
  <2>4. p - 1 > k /\ ~(p <= k)
    BY ONLY <1>8, <1>16
  <2> QED
    BY <1>10, <1>13, <2>3, <2>4
<1>17. p <= k \/ p = k + 1 \/ p = k + 2
  BY ONLY <1>8
<1> QED
  BY <1>14, <1>15, <1>16, <1>17

LEMMA GpuKeepsAnswers ==
  ASSUME ListInv, OneOwner, AnswerInv, GpuExecute
  PROVE  AnswerInv'
<1> DEFINE item == Head(queue)
<1>1. queue # <<>> /\ queue' = Tail(queue) /\ Ready(Ahead) /\ item = queue[1]
  BY GpuRan DEF ListInv, Shapes
<1>2. PICK n : /\ mem' = n.mem /\ n = Ran(Ahead, Loaded(item), item.by)
               /\ readback' = [readback EXCEPT ![item.who] = Got(item, n.mem)]
  BY GpuRan
<1>3. UNCHANGED <<graph, disp, slots, mutex, pc, call, id, todo, before, awaits, spec, answers>>
  BY DEF GpuExecute, objects, rings, local
<1>4. Len(queue') = Len(queue) - 1 /\ Len(queue) \in Nat \ {0}
  BY <1>1, TailIs DEF ListInv, Shapes
<1>5. NothingLost /\ \A t \in Threads : Still(t)
  BY <1>3 DEF NothingLost, Still
<1>6. PICK m : m = Ahead
  OBVIOUS
<1>7. Ready(m) /\ m.mem = mem /\ n = Ran(m, Loaded(item), item.by)
  BY <1>1, <1>2, <1>6 DEF Ahead
<1>8. Shapes
  BY DEF ListInv
<1> HIDE DEF item
<1>9. Len(queue) # 1 => queue' # <<>>
  <2>1. Len(queue) # 1 => Len(queue') # 0
    BY <1>4
  <2>2. \A q : q = <<>> => Len(q) = 0
    OBVIOUS
  <2> QED
    BY <2>1, <2>2
<1>10. ASSUME NEW t \in Threads
       PROVE  OnCourse(t)'
  <2>0. InCall(t) /\ OnCourse(t) /\ Still(t)
    BY <1>5 DEF ListInv, AnswerInv
  <2>1. InOrder(t)'
    BY <2>0 DEF OnCourse, InOrder, Still
  <2>2. Running(t)'
    <3>1. CASE pc[t] \in Inside /\ call[t].kind = "run"
      <4>1. PICK g, k, p : g = call[t].on /\ k = Graphs[g].inputs /\ p = Place(t)
        OBVIOUS
      <4>2. g \in DOMAIN Graphs /\ Done(t) = (p - 1) + (IF pc[t] = "waiting" /\ queue = <<>> THEN 1 ELSE 0)
            /\ k \in 1 .. 10 /\ p \in 1 .. k + 2
        BY <2>0, <3>1, <4>1, RunPlace
      <4>3. CASE pc[t] = "waiting" /\ Len(queue) = 1
        <5>1. /\ \A v \in 0 .. k - 1 : v < p /\ p <= k => \A x \in At(g, v) : n.mem[x] = {id[t]}
              /\ Reliable(g) /\ p > k => \A x \in At(g, Graphs[g].output) : n.mem[x] = {id[t]}
          BY <1>7, <2>0, <3>1, <4>1, <4>3, RunAdvances DEF item
        <5>2. Done(t)' = p
          <6>1. queue' = <<>>
            BY <1>1, <4>3, <1>8 DEF Shapes
          <6>2. Done(t) = p - 1
            BY <1>1, <4>2
          <6>3. Done(t)' = Done(t) + 1
            BY <1>1, <2>0, <4>3, <6>1, <4>2, <6>2 DEF Done, Still
          <6> QED
            BY ONLY <4>2, <6>2, <6>3
        <5> QED
          BY <1>2, <1>3, <4>1, <5>1, <5>2 DEF Running
      <4>4. CASE ~(pc[t] = "waiting" /\ Len(queue) = 1)
        <5>1. LeftBehind(1) \/ \E u \in Threads \ {t} : Awaited(1, u)
          <6>1. 1 \in 1 .. Len(queue)
            BY <1>4
          <6>2. LeftBehind(1) \/ (1 = Len(queue) /\ \E u \in Threads : Awaited(1, u))
            BY <6>1 DEF ListInv, Lined
          <6> QED
            BY <4>4, <6>2 DEF Awaited
        <5>2. \A x \in GraphCells(g) : n.mem[x] = mem[x]
          BY <1>1, <1>7, <3>1, <4>1, <5>1, OthersSpareGraphs DEF item
        <5>3. Done(t)' = Done(t)
          BY <1>1, <1>9, <2>0, <4>4 DEF Done, Still
        <5>4. PICK j : j = Done(t)
          OBVIOUS
        <5>5. /\ \A v \in 0 .. k - 1 : v < j /\ j <= k => \A x \in At(g, v) : mem[x] = {id[t]}
              /\ Reliable(g) /\ j > k => \A x \in At(g, Graphs[g].output) : mem[x] = {id[t]}
          BY <2>0, <3>1, <4>1, <5>4 DEF OnCourse, Running
        <5>6. /\ \A v \in 0 .. k - 1 : v < j /\ j <= k => \A x \in At(g, v) : n.mem[x] = {id[t]}
              /\ Reliable(g) /\ j > k => \A x \in At(g, Graphs[g].output) : n.mem[x] = {id[t]}
          BY <4>1, <4>2, <5>2, <5>5, RunCells
        <5> QED
          BY <1>2, <1>3, <4>1, <5>3, <5>4, <5>6 DEF Running
      <4> QED
        BY <4>3, <4>4
    <3>2. CASE ~(pc[t] \in Inside /\ call[t].kind = "run")
      BY <2>0, <3>2 DEF Running, Still
    <3> QED
      BY <3>1, <3>2
  <2>3. Copying(t)'
    <3>1. CASE pc[t] = "waiting" /\ Len(queue) = 1 /\ Head(todo[t]).kind = "read"
      <4>1. PICK s, e : s = Head(todo[t]) /\ e = item
        OBVIOUS
      <4>2. Awaited(1, t) /\ Locked(t) /\ Recorded
        BY <3>1 DEF ListInv, Lined
      <4>3. e = Submitted(t, awaits[t])
        BY <1>1, <4>1, <4>2 DEF Awaited, item
      <4>4. Fits(call[t], s) /\ Holds(t) /\ before[t] = [h \in Turned(t) |-> "COMMON"]
        BY <2>0, <3>1, <4>1, <4>2, SectionIn DEF Inside, Locked
      <4>5. e.who = t /\ e.ring = <<>>
        <5>1. PICK f : f = awaits[t]
          OBVIOUS
        <5>2. e.who = t /\ e.ring = IF s.kind = "slot" THEN <<s.on, s.slot>> ELSE <<>>
          BY <4>1, <4>3, <5>1, SubmittedFields
        <5> QED
          BY <3>1, <4>1, <5>2
      <4>6. PICK cmds : cmds = Loaded(e)
        OBVIOUS
      <4>7. SectionDoes(s, call[t], cmds)
        BY <1>8, <3>1, <4>1, <4>2, <4>3, <4>4, <4>6, SectionRuns
      <4>8. cmds = e.cmds
        BY <4>5, <4>6, LoadedIs
      <4>9. CopiedCells(e.cmds) = Elements(s.on)
        BY <3>1, <4>1, <4>7, <4>8 DEF SectionDoes
      <4>10. Elements(s.on) # {}
        BY <3>1, <4>1, <4>4, ReadCells, HasElements
      <4>11. Got(e, n.mem) = UNION {n.mem[x] : x \in Elements(s.on)}
        BY <4>9, <4>10 DEF Got
      <4>12. readback'[t] = UNION {n.mem[x] : x \in Elements(s.on)}
        BY <1>2, <1>8, <4>1, <4>5, <4>11 DEF Shapes
      <4> QED
        BY <1>2, <1>3, <4>1, <4>12 DEF Copying
    <3>2. CASE ~(pc[t] = "waiting" /\ Len(queue) = 1 /\ Head(todo[t]).kind = "read")
      BY <1>9, <2>0, <3>2 DEF Copying, Still
    <3> QED
      BY <3>1, <3>2
  <2> QED
    BY <2>1, <2>2, <2>3 DEF OnCourse
<1>11. AnswersAreOfTheCall'
  BY <1>3 DEF AnswerInv, AnswersAreOfTheCall
<1> QED
  BY <1>10, <1>11 DEF AnswerInv

\* Threads that do not move, while memory, what was read and answers stay.
LEMMA OthersOnCourse ==
  ASSUME ListInv, AnswerInv, NEW t \in Threads, Moving(t), UNCHANGED <<mem, readback, answers>>,
         \A u \in Threads \ {t} : pc[u] = "waiting" => UNCHANGED queue,
         OnCourse(t)'
  PROVE  AnswerInv'
<1>1. \A u \in Threads \ {t} : OnCourse(u)'
  BY CourseSame DEF ListInv, AnswerInv, Moving
<1>2. AnswersAreOfTheCall'
  BY DEF AnswerInv, AnswersAreOfTheCall
<1> QED
  BY <1>1, <1>2 DEF AnswerInv

\* A thread outside its sections is on course.
LEMMA OffCourse ==
  ASSUME NEW t \in Threads, pc'[t] \notin Inside \/ (pc'[t] # "waiting" /\ call'[t].kind # "run")
  PROVE  OnCourse(t)'
BY DEF OnCourse, InOrder, Running, Copying, Inside

LEMMA CallKeepsAnswers ==
  ASSUME ListInv, AnswerInv, NEW t \in Threads, NEW c \in Uses[t], Call(t, c)
  PROVE  AnswerInv'
<1>1. /\ pc[t] = "idle" /\ id' = [id EXCEPT ![t] = calls + 1]
      /\ call' = [call EXCEPT ![t] = c] /\ todo' = [todo EXCEPT ![t] = SectionsOf(c)]
      /\ pc' = [pc EXCEPT ![t] = IF c.kind = "execute_upload" THEN "filling" ELSE "ready"]
      /\ UNCHANGED <<graph, disp, mutex, before, awaits, queue, mem, readback, answers>>
  BY DEF Call, objects, rings, fences, gpuVars
<1>2. Shapes
  BY DEF ListInv
<1>3. Moving(t)
  BY <1>1, <1>2 DEF Moving, Still, Shapes
<1>4. pc'[t] # "waiting" /\ call'[t] = c /\ todo'[t] = SectionsOf(c)
  BY <1>1, <1>2 DEF Shapes
<1>5. OnCourse(t)'
  <2>1. CASE c.kind = "run"
    <3>1. PICK g, n, S : g = c.on /\ n = Graphs[g].inputs /\ S = SectionsOf(c)
      OBVIOUS
    <3>2. g \in DOMAIN Graphs /\ n \in 1 .. 10 /\ Len(S) = n + 2
      <4>1. c.on \in DOMAIN Graphs
        BY <2>1, CallsAssumption
      <4>2. g = c.on /\ n = Graphs[g].inputs /\ S = SectionsOf(c)
        BY <3>1
      <4>3. /\ n \in 1 .. 10 /\ Len(S) = n + 2
            /\ \A i \in 1 .. n : S[i] = [kind |-> "fill", on |-> ValueOf(g, i - 1)]
            /\ S[n + 1] = [kind |-> "graph", on |-> g]
            /\ S[n + 2] = [kind |-> "read", on |-> ValueOf(g, Graphs[g].output)]
        BY ONLY <2>1, <4>1, <4>2, RunSections
      <4> QED
        BY <3>1, <4>1, <4>3
    <3>3. InOrder(t)'
      <4>1. todo'[t] = S /\ call'[t] = c
        BY <1>4, <3>1
      <4>2. Len(S) \in 1 .. Len(S) /\ \A i \in 1 .. Len(S) : S[i] = S[(Len(S) - Len(S)) + i]
        BY <3>2
      <4> QED
        BY <3>1, <4>1, <4>2 DEF InOrder
    <3>4. Done(t)' = 0
      BY <1>4, <3>1, <3>2 DEF Done
    <3>5. Running(t)'
      <4>1. \A v \in 0 .. n - 1 : ~(v < 0)
        BY <3>2
      <4>2. ~(0 > n)
        BY <3>2
      <4> QED
        BY <1>4, <3>1, <3>4, <4>1, <4>2 DEF Running
    <3> QED
      BY <1>4, <3>3, <3>5 DEF OnCourse, Copying
  <2>2. CASE c.kind # "run"
    BY <1>4, <2>2, OffCourse
  <2> QED
    BY <2>1, <2>2
<1> QED
  BY <1>1, <1>3, <1>5, OthersOnCourse

LEMMA FillSlotKeepsAnswers ==
  ASSUME ListInv, AnswerInv, NEW t \in Threads, FillSlot(t)
  PROVE  AnswerInv'
<1>1. /\ pc[t] = "filling" /\ pc' = [pc EXCEPT ![t] = "ready"]
      /\ \E q : todo' = [todo EXCEPT ![t] = q]
      /\ UNCHANGED <<mutex, call, id, before, awaits, queue, mem, readback, answers>>
  BY DEF FillSlot, objects, fences, gpuVars
<1>2. Shapes /\ call[t].kind = "execute_upload"
  BY <1>1 DEF ListInv, InCall
<1>3. Moving(t)
  BY <1>1, <1>2 DEF Moving, Still, Shapes
<1>4. OnCourse(t)'
  BY <1>1, <1>2, OffCourse DEF Shapes
<1> QED
  BY <1>1, <1>3, <1>4, OthersOnCourse

LEMMA RecordKeepsAnswers ==
  ASSUME ListInv, AnswerInv, NEW t \in Threads, Record(t)
  PROVE  AnswerInv'
<1>1. /\ pc[t] = "ready" /\ mutex = NoOne /\ pc' = [pc EXCEPT ![t] = "recording"]
      /\ \E q : before' = [before EXCEPT ![t] = q]
      /\ UNCHANGED <<call, id, todo, awaits, queue, mem, readback, answers>>
  BY DEF Record, objects, rings, fences
<1>2. Shapes
  BY DEF ListInv
<1>3. Moving(t)
  BY <1>1, <1>2 DEF Moving, Still, Shapes
<1>4. pc'[t] = "recording"
  BY <1>1, <1>2 DEF Shapes
<1>5. InOrder(t) /\ Running(t)
  BY DEF AnswerInv, OnCourse
<1>6. Done(t)' = Done(t)
  BY <1>1, <1>4 DEF Done
<1>7. InOrder(t)' /\ Running(t)' /\ Copying(t)'
  BY <1>1, <1>4, <1>5, <1>6 DEF InOrder, Running, Copying, Inside
<1> QED
  BY <1>1, <1>3, <1>7, OthersOnCourse DEF OnCourse

LEMMA SubmitKeepsAnswers ==
  ASSUME ListInv, AnswerInv, NEW t \in Threads, Submit(t)
  PROVE  AnswerInv'
<1>1. /\ pc[t] = "recording" /\ pc' = [pc EXCEPT ![t] = "waiting"]
      /\ \E e : queue' = Append(queue, e)
      /\ \E f : awaits' = [awaits EXCEPT ![t] = f]
      /\ UNCHANGED <<mutex, call, id, todo, before, mem, readback, answers>>
  BY DEF Submit, objects, rings, gpuVars
<1>2. Shapes
  BY DEF ListInv
<1>3. mutex = t /\ \A u \in Threads : pc[u] # "waiting"
  BY <1>1, LeavesCommon
<1>4. Moving(t)
  BY <1>1, <1>2, <1>3 DEF Moving, Still, Shapes
<1>5. queue' # <<>>
  <2>1. Len(queue') # 0
    <3>1. PICK e : queue' = Append(queue, e)
      BY <1>1
    <3>2. queue \in Seq(Range(queue))
      BY <1>2 DEF Shapes
    <3>3. Len(Append(queue, e)) = Len(queue) + 1 /\ Len(queue) \in Nat
      BY <3>2, AppendIs
    <3> QED
      BY <3>1, <3>3
  <2>2. \A q : q = <<>> => Len(q) = 0
    OBVIOUS
  <2> QED
    BY <2>1, <2>2
<1>6. pc'[t] = "waiting"
  BY <1>1, <1>2 DEF Shapes
<1>7. InOrder(t) /\ Running(t)
  BY DEF AnswerInv, OnCourse
<1>8. Done(t)' = Done(t)
  BY <1>1, <1>5 DEF Done
<1>9. InOrder(t)' /\ Running(t)' /\ Copying(t)'
  BY <1>1, <1>5, <1>6, <1>7, <1>8 DEF InOrder, Running, Copying, Inside
<1> QED
  BY <1>1, <1>3, <1>4, <1>9, OthersOnCourse DEF OnCourse

LEMMA LeavingKeepsAnswers ==
  ASSUME ListInv, AnswerInv, NEW t \in Threads, FailWait(t) \/ Bump(t)
  PROVE  AnswerInv'
<1>1. /\ pc[t] \in {"recording", "bumping"} /\ Return(t, [pc EXCEPT ![t] = "idle"])
      /\ pc[t] = "recording" => mutex' = NoOne
      /\ pc[t] = "bumping" => UNCHANGED <<mutex, queue>>
      /\ UNCHANGED <<awaits, mem, readback, answers>>
  BY DEF FailWait, Bump, objects, rings, fences, gpuVars
<1>2. Shapes
  BY DEF ListInv
<1>3. pc[t] = "recording" => mutex = t /\ \A u \in Threads : pc[u] # "waiting"
  BY LeavesCommon
<1>4. Moving(t) /\ pc'[t] = "idle"
  BY <1>1, <1>2, <1>3 DEF Moving, Still, Return, Shapes
<1>5. OnCourse(t)'
  BY <1>4, OffCourse DEF Inside
<1>6. \A u \in Threads \ {t} : pc[u] = "waiting" => UNCHANGED queue
  BY <1>1, <1>3
<1> QED
  BY <1>1, <1>4, <1>5, <1>6, OthersOnCourse

\* What a download hands to its caller.
LEMMA AnswerIs ==
  ASSUME ListInv, MemoryInv, NEW t \in Threads, OnCourse(t), pc[t] = "waiting", queue = <<>>,
         Head(todo[t]).kind = "read", NEW a, a = Answer(t)
  PROVE  Unknown \in a.want \/ (a.of.kind = "run" /\ ~Reliable(a.of.on)) \/ a.got = a.want
<1>1. InCall(t)
  BY DEF ListInv
<1>2. PICK s, c : s = Head(todo[t]) /\ c = call[t]
  OBVIOUS
<1>3. Fits(c, s) /\ s.kind = "read"
  BY <1>1, <1>2, SectionIn DEF Inside
<1>4. /\ a.of = c /\ a.got = readback[t]
      /\ c.kind = "run" => a.want = {id[t]}
      /\ c.kind # "run" => a.want = UNION {spec[x] : x \in Elements(c.on)}
  BY <1>2 DEF Answer
<1>5. readback[t] = UNION {mem[x] : x \in Elements(s.on)}
  BY <1>2, <1>3 DEF OnCourse, Copying
<1>6. CASE c.kind = "run"
  <2>1. PICK g, n, p : g = c.on /\ n = Graphs[g].inputs /\ p = Place(t)
    OBVIOUS
  <2>2. /\ g \in DOMAIN Graphs /\ n \in 1 .. 10 /\ p \in 1 .. n + 2
        /\ Done(t) = (p - 1) + (IF pc[t] = "waiting" /\ queue = <<>> THEN 1 ELSE 0)
        /\ p <= n => s = [kind |-> "fill", on |-> ValueOf(g, p - 1)]
        /\ p = n + 1 => s = [kind |-> "graph", on |-> g]
        /\ p = n + 2 => s = [kind |-> "read", on |-> ValueOf(g, Graphs[g].output)]
    BY <1>1, <1>2, <1>6, <2>1, RunPlace DEF Inside
  <2>3. p = n + 2
    <3>1. ~(p <= n) /\ p # n + 1
      BY <1>3, <2>2
    <3> QED
      BY ONLY <2>2, <3>1
  <2>4. Done(t) > n
    BY <2>2, <2>3
  <2>5. Elements(s.on) = At(g, Graphs[g].output) /\ Elements(s.on) # {}
    <3>1. s.on \in Handles
      BY <1>2, <1>3, ReadCells
    <3> QED
      BY <2>2, <2>3, <3>1, HasElements DEF At
  <2>6. Reliable(g) => \A x \in Elements(s.on) : mem[x] = {id[t]}
    BY <1>2, <1>6, <2>1, <2>4, <2>5 DEF OnCourse, Running, Inside
  <2>7. Reliable(g) => UNION {mem[x] : x \in Elements(s.on)} = {id[t]}
    BY <2>5, <2>6
  <2> QED
    BY <1>4, <1>5, <1>6, <2>1, <2>7
<1>7. CASE c.kind # "run"
  <2>1. s.on = c.on /\ c.on \in DOMAIN Buffers
    BY <1>3, <1>7 DEF Fits
  <2>2. Elements(c.on) \subseteq BufferCells
    BY <1>2, <1>3, <1>7, <2>1, ReadCells DEF Relied
  <2>3. ASSUME Unknown \notin a.want
        PROVE  a.got = a.want
    <3>1. \A x \in Elements(c.on) : Unknown \notin spec[x]
      BY <1>4, <1>7, <2>3
    <3>2. \A x \in Elements(c.on) : mem[x] = spec[x]
      BY <2>2, <3>1 DEF MemoryInv, Faithful, DueFrom
    <3>3. {mem[x] : x \in Elements(c.on)} = {spec[x] : x \in Elements(c.on)}
      BY <3>2
    <3> QED
      BY <1>4, <1>5, <1>7, <2>1, <3>3
  <2> QED
    BY <2>3
<1> QED
  BY <1>6, <1>7

LEMMA WakeKeepsAnswers ==
  ASSUME ListInv, MemoryInv, AnswerInv, NEW t \in Threads, Wake(t)
  PROVE  AnswerInv'
<1>0. Shapes /\ pc[t] = "waiting" /\ Reached(t) /\ InCall(t) /\ OnCourse(t)
  BY DEF ListInv, AnswerInv, Wake
<1>1. queue = <<>> /\ mutex = t
  BY <1>0, WokenQueue
<1>2. /\ UNCHANGED <<queue, mem, readback, awaits>>
      /\ answers' = answers \cup IF Head(todo[t]).kind = "read" THEN {Answer(t)} ELSE {}
  BY DEF Wake, fences, gpuVars
<1>3. \/ /\ Len(todo[t]) > 1 /\ UNCHANGED <<call, id, before>>
         /\ pc' = [pc EXCEPT ![t] = "ready"] /\ todo' = [todo EXCEPT ![t] = Tail(@)]
      \/ /\ pc' = [pc EXCEPT ![t] = "bumping"] /\ UNCHANGED <<call, id, todo, before>>
      \/ Return(t, [pc EXCEPT ![t] = "idle"])
  BY DEF Wake
<1>4. \A u \in Threads \ {t} : Still(u)
  BY <1>0, <1>2, <1>3 DEF Still, Return, Shapes
<1>5. \A u \in Threads \ {t} : OnCourse(u)'
  BY <1>2, <1>4, CourseSame DEF ListInv, AnswerInv
<1>6. OnCourse(t)'
  <2>1. CASE Len(todo[t]) > 1 /\ UNCHANGED <<call, id, before>>
             /\ pc' = [pc EXCEPT ![t] = "ready"] /\ todo' = [todo EXCEPT ![t] = Tail(@)]
    <3>1. pc'[t] = "ready" /\ todo'[t] = Tail(todo[t])
      BY <1>0, <2>1 DEF Shapes
    <3>2. CASE call[t].kind = "run"
      <4>1. PICK c, S, q, r : c = call[t] /\ S = SectionsOf(c) /\ q = todo[t] /\ r = Tail(q)
        OBVIOUS
      <4>2. PICK g, n : g = c.on /\ n = Graphs[g].inputs
        OBVIOUS
      <4>3. g \in DOMAIN Graphs
        BY <1>0, <3>2, <4>1, <4>2, CallsAssumption DEF InCall
      <4>4. n \in 1 .. 10 /\ Len(S) = n + 2
        <5>1. c.kind = "run" /\ c.on \in DOMAIN Graphs /\ S = SectionsOf(c) /\ g = c.on /\ n = Graphs[g].inputs
          BY <3>2, <4>1, <4>2, <4>3
        <5>2. /\ n \in 1 .. 10 /\ Len(S) = n + 2
              /\ \A i \in 1 .. n : S[i] = [kind |-> "fill", on |-> ValueOf(g, i - 1)]
              /\ S[n + 1] = [kind |-> "graph", on |-> g]
              /\ S[n + 2] = [kind |-> "read", on |-> ValueOf(g, Graphs[g].output)]
          <6>1. RunForm(c.on, Graphs[c.on].inputs, SectionsOf(c))
            BY ONLY <5>1, RunForms
          <6>2. RunForm(g, n, S)
            BY ONLY <5>1, <6>1
          <6> QED
            BY ONLY <6>2 DEF RunForm
        <5> QED
          BY ONLY <5>2
      <4>5. q \in Seq(Parts(c)) /\ Len(q) > 1
        BY <1>0, <2>1, <4>1 DEF InCall, Inside
      <4>6. Len(r) = Len(q) - 1 /\ \A i \in 1 .. Len(r) : i + 1 \in 1 .. Len(q) /\ r[i] = q[i + 1]
        BY <4>1, <4>5, TailOf
      <4>7. Len(q) \in 1 .. Len(S) /\ \A i \in 1 .. Len(q) : q[i] = S[(Len(S) - Len(q)) + i]
        BY <1>0, <3>2, <4>1 DEF OnCourse, InOrder, Inside
      <4>8. Len(r) \in 1 .. Len(S)
        BY <4>4, <4>5, <4>6, <4>7
      <4>9. ASSUME NEW i \in 1 .. Len(r)
            PROVE  r[i] = S[(Len(S) - Len(r)) + i]
        <5>1. r[i] = q[i + 1] /\ i + 1 \in 1 .. Len(q)
          BY <4>6
        <5>2. q[i + 1] = S[(Len(S) - Len(q)) + (i + 1)]
          BY <4>7, <5>1
        <5>3. (Len(S) - Len(q)) + (i + 1) = (Len(S) - Len(r)) + i
          BY <4>4, <4>6, <4>7
        <5> QED
          BY <5>1, <5>2, <5>3
      <4>10. call'[t] = c /\ todo'[t] = r
        BY <2>1, <3>1, <4>1
      <4>11. InOrder(t)'
        BY <4>1, <4>8, <4>9, <4>10 DEF InOrder
      <4>12. Done(t) = (Len(S) - Len(q)) + 1 /\ Done(t)' = Len(S) - Len(r)
        BY <1>0, <1>1, <3>1, <4>1, <4>4, <4>6, <4>7, <4>10 DEF Done
      <4>13. Done(t)' = Done(t)
        BY <4>4, <4>6, <4>7, <4>12
      <4>14. PICK j : j = Done(t)
        OBVIOUS
      <4>15. /\ \A v \in 0 .. n - 1 : v < j /\ j <= n => \A x \in At(g, v) : mem[x] = {id[t]}
             /\ Reliable(g) /\ j > n => \A x \in At(g, Graphs[g].output) : mem[x] = {id[t]}
        BY <1>0, <3>2, <4>1, <4>2, <4>14 DEF OnCourse, Running, Inside
      <4>16. Running(t)'
        BY <1>2, <2>1, <4>1, <4>2, <4>10, <4>13, <4>14, <4>15 DEF Running
      <4> QED
        BY <3>1, <4>11, <4>16 DEF OnCourse, Copying
    <3>3. CASE call[t].kind # "run"
      BY <2>1, <3>1, <3>3, OffCourse
    <3> QED
      BY <3>2, <3>3
  <2>2. CASE pc' = [pc EXCEPT ![t] = "bumping"] \/ Return(t, [pc EXCEPT ![t] = "idle"])
    <3>1. pc'[t] \in {"bumping", "idle"}
      BY <1>0, <2>2 DEF Return, Shapes
    <3> QED
      BY <3>1, OffCourse DEF Inside
  <2> QED
    BY <1>3, <2>1, <2>2
<1>7. ASSUME NEW a \in answers'
      PROVE  Unknown \in a.want \/ (a.of.kind = "run" /\ ~Reliable(a.of.on)) \/ a.got = a.want
  <2>1. CASE a \in answers
    BY <2>1 DEF AnswerInv, AnswersAreOfTheCall
  <2>2. CASE a \notin answers
    <3>1. Head(todo[t]).kind = "read" /\ a = Answer(t)
      BY <1>2, <2>2
    <3> QED
      BY <1>0, <1>1, <3>1, AnswerIs
  <2> QED
    BY <2>1, <2>2
<1>8. AnswersAreOfTheCall'
  BY <1>7 DEF AnswersAreOfTheCall
<1> QED
  BY <1>5, <1>6, <1>8 DEF AnswerInv

\* Objects come and go away from the cells that calls rely on.
LEMMA AsideKeepsAnswers ==
  ASSUME ListInv, AnswerInv, NEW t \in Threads,
         \/ \E d \in DOMAIN Dispatches : Prepare(t, d)
         \/ \E g \in DOMAIN Graphs : Compile(t, g) \/ Destroy(t, g)
  PROVE  AnswerInv'
<1>1. /\ UNCHANGED <<pc, call, id, todo, before, awaits, queue, readback, answers>>
      /\ \/ UNCHANGED mem
         \/ \E g \in DOMAIN Graphs :
              ~graph[g].there /\ \A c \in Cells : c[1] \notin GraphValues(g) => mem'[c] = mem[c]
  BY ObjectsAside
<1>2. ASSUME NEW u \in Threads, pc[u] # "idle", NEW x \in Relied(u)
      PROVE  mem'[x] = mem[x]
  <2>1. call[u] \in Uses[u] /\ Holds(u)
    BY <1>2 DEF ListInv, InCall
  <2>2. CASE call[u].kind = "run"
    <3>1. PICK o : o = call[u].on
      OBVIOUS
    <3>2. o \in DOMAIN Graphs /\ graph[o].there /\ x \in GraphCells(o)
      BY <1>2, <2>1, <2>2, <3>1, CallsAssumption DEF Holds, Relied
    <3>3. x \in Cells /\ \A g \in DOMAIN Graphs : g # o => x[1] \notin GraphValues(g)
      BY <3>2, GraphCellSpace
    <3> QED
      BY <1>1, <3>2, <3>3
  <2>3. CASE call[u].kind # "run"
    <3>1. x \in BufferCells
      BY <1>2, <2>3 DEF Relied
    <3>2. x \in Cells /\ x[1] \in DOMAIN Buffers
      BY <3>1, HandleSpace DEF BufferCells
    <3>3. \A g \in DOMAIN Graphs : x[1] \notin GraphValues(g)
      BY <3>2, HandleSpace DEF Owned
    <3> QED
      BY <1>1, <3>2, <3>3
  <2> QED
    BY <2>2, <2>3
<1>3. \A u \in Threads : OnCourse(u)'
  BY <1>1, <1>2, CourseSame DEF ListInv, AnswerInv, Still
<1>4. AnswersAreOfTheCall'
  BY <1>1 DEF AnswerInv, AnswersAreOfTheCall
<1> QED
  BY <1>3, <1>4 DEF AnswerInv

LEMMA AnswersStep ==
  ASSUME ListInv, MemoryInv, AnswerInv, OneOwner, [Next]_vars
  PROVE  AnswerInv'
<1>1. ASSUME NEW t \in Threads, FillSlot(t) PROVE AnswerInv'
  BY <1>1, FillSlotKeepsAnswers
<1>2. ASSUME NEW t \in Threads, Record(t) PROVE AnswerInv'
  BY <1>2, RecordKeepsAnswers
<1>3. ASSUME NEW t \in Threads, Submit(t) PROVE AnswerInv'
  BY <1>3, SubmitKeepsAnswers
<1>4. ASSUME NEW t \in Threads, Wake(t) PROVE AnswerInv'
  BY <1>4, WakeKeepsAnswers
<1>5. ASSUME NEW t \in Threads, Bump(t) \/ FailWait(t) PROVE AnswerInv'
  BY <1>5, LeavingKeepsAnswers
<1>6. ASSUME NEW t \in Threads, NEW c \in Uses[t], Call(t, c) PROVE AnswerInv'
  BY <1>6, CallKeepsAnswers
<1>7. ASSUME NEW t \in Threads,
             \/ \E d \in DOMAIN Dispatches : Prepare(t, d)
             \/ \E g \in DOMAIN Graphs : Compile(t, g) \/ Destroy(t, g)
      PROVE AnswerInv'
  BY <1>7, AsideKeepsAnswers
<1>8. CASE GpuExecute
  BY <1>8, GpuKeepsAnswers
<1>9. CASE UNCHANGED vars
  <2>1. UNCHANGED <<pc, call, id, todo, before, awaits, queue, readback, mem, answers>>
    BY <1>9 DEF vars, objects, rings, local, fences, gpuVars
  <2>2. \A t \in Threads : OnCourse(t)'
    BY <2>1, CourseSame DEF ListInv, AnswerInv, Still
  <2>3. AnswersAreOfTheCall'
    BY <2>1 DEF AnswerInv, AnswersAreOfTheCall
  <2> QED
    BY <2>2, <2>3 DEF AnswerInv
<1> QED
  BY <1>1, <1>2, <1>3, <1>4, <1>5, <1>6, <1>7, <1>8, <1>9 DEF Next, Step

LEMMA InitAnswers ==
  ASSUME Init
  PROVE  AnswerInv
BY DEF Init, AnswerInv, OnCourse, InOrder, Running, Copying, Inside, AnswersAreOfTheCall

\* A call returns what was computed from its own inputs, or for a download what the
\* calls submitted before left in the buffer, whatever other threads do between its
\* sections, when whole inputs are uploaded and each graph and each upload ring is
\* used by one thread.
THEOREM AnswersAreTheCalls ==
  ASSUME Apart, FailingWaits \subseteq {"prepared", "slot"}, OneOwner, Lengths \subseteq {Width}
  PROVE  Spec => []AnswersAreOfTheCall
<1>1. Spec => [](ListInv /\ MemoryInv)
  BY ListInvariant, MemoryInvariant
<1>2. Init => AnswerInv
  BY InitAnswers
<1>3. ListInv /\ MemoryInv /\ AnswerInv /\ [Next]_vars => AnswerInv'
  BY AnswersStep
<1>4. AnswerInv => AnswersAreOfTheCall
  BY DEF AnswerInv
<1>5. Spec => Init /\ [][Next]_vars
  BY DEF Spec
<1> QED
  BY <1>1, <1>2, <1>3, <1>4, <1>5, PTL

================================================================================
