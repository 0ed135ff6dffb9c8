--------------------------- MODULE DeviceBatchProofs ---------------------------
(***************************************************************************)
(* Theorems about DeviceBatch, for any buffers, views, operands and order  *)
(* of calls: states rest in COMMON between calls, no executed list names a *)
(* resource that is gone or lacks a barrier, and memory is what the calls, *)
(* one after the other, make of it.                                        *)
(***************************************************************************)
EXTENDS DeviceBatch, GpuCommandsProofs

------------------------------------------------------------------------------
(* Handles and commands                                                       *)

\* What buf says of handles.
BufOk ==
  /\ DOMAIN buf \subseteq Handles
  /\ \A h \in DOMAIN buf :
       /\ buf[h].res \in Handles /\ buf[h].lo \in Nat /\ buf[h].n \in Nat
       /\ buf[h].lo + buf[h].n <= Width

\* Handles that have a resource.
Known == DOMAIN buf \cup Owned

\* The handles of callers, the handles that dispatches own and what is built from them.
LEMMA HandleSpace ==
  /\ Handles \subseteq 1 .. 19 /\ Owned = {20, 21, 22} /\ Resources = Handles \cup Owned
  /\ Resources \subseteq Nat /\ Handles \cap Owned = {} /\ Width \in Nat \ {0}
<1>1. Arena[0] = 21 /\ Arena[1] = 22
  BY DEF Arena
<1> QED
  BY <1>1, BatchAssumption DEF Owned, ChainIn, Resources

\* The elements of a handle are cells of its resource, from its offset or from the start.
LEMMA CellSpace ==
  ASSUME BufOk, NEW h \in Known
  PROVE  /\ h \in Resources /\ Res(h) \in Resources
         /\ Elements(h) \subseteq Cells /\ FromStart(h) \subseteq Cells
         /\ ResourcesOf(Elements(h)) \subseteq {Res(h)} /\ ResourcesOf(FromStart(h)) \subseteq {Res(h)}
<1>1. h \in Resources /\ Res(h) \in Resources
  BY HandleSpace DEF Known, BufOk, Res
<1>2. CASE h \in Owned
  <2>1. /\ Elements(h) = {Res(h)} \X (0 .. Width - 1)
        /\ FromStart(h) = {Res(h)} \X (0 .. Width - 1)
    BY <1>2 DEF Elements, FromStart, Res, Size
  <2> QED
    BY <1>1, <2>1 DEF Cells, ResourcesOf
<1>3. CASE h \notin Owned
  <2>1. h \in DOMAIN buf
    BY <1>3 DEF Known
  <2>2. PICK l, n : l = buf[h].lo /\ n = buf[h].n /\ l \in Nat /\ n \in Nat /\ l + n <= Width
    BY <2>1 DEF BufOk
  <2>3. l .. l + n - 1 \subseteq 0 .. Width - 1 /\ 0 .. n - 1 \subseteq 0 .. Width - 1
    BY <2>2, HandleSpace
  <2>4. /\ Elements(h) = {Res(h)} \X (l .. l + n - 1)
        /\ FromStart(h) = {Res(h)} \X (0 .. n - 1)
    BY <1>3, <2>2 DEF Elements, FromStart, Res, Size
  <2> QED
    BY <1>1, <2>3, <2>4 DEF Cells, ResourcesOf
<1> QED
  BY <1>1, <1>2, <1>3

\* Commands whose heaps and resources are in X.
BatchCommands(X) ==
  {c \in Commands(Resources, Cells) \cup {UavBarrier(r) : r \in Resources} : Touched(c) \subseteq X}

\* Lists that touch less are lists that touch more.
LEMMA CommandsIn ==
  ASSUME NEW X, NEW Y, X \subseteq Y, NEW s \in Seq(BatchCommands(X))
  PROVE  s \in Seq(BatchCommands(Y))
<1>1. BatchCommands(X) \subseteq BatchCommands(Y)
  BY DEF BatchCommands
<1> QED
  BY <1>1, SeqMonotonic

\* What a list touches as a whole.
LEMMA TouchedAll ==
  ASSUME NEW X, NEW s \in Seq(BatchCommands(X))
  PROVE  AllTouched(s) \subseteq X
<1>1. \A i \in DOMAIN s : s[i] \in BatchCommands(X)
  BY ElementOfSeq
<1> QED
  BY <1>1 DEF AllTouched, BatchCommands

\* A UAV barrier and the states of a machine.
LEMMA UavStep ==
  ASSUME NEW R, NEW C, NEW m \in Machine(R, C), NEW r, NEW by, NEW n, n = ExecCommand(m, UavBarrier(r), by)
  PROVE  /\ n \in Machine(R, C) /\ n.state = m.state /\ n.mem = m.mem /\ n.live = m.live
         /\ n.faults = m.faults /\ n.dirty = {x \in m.dirty : x[1] # r}
<1>1. UavBarrier(r).op = "uav" /\ UavBarrier(r).res = r
  BY DEF UavBarrier
<1>2. n = [m EXCEPT !.dirty = {c \in @ : c[1] # r}]
  BY <1>1 DEF ExecCommand, Synced
<1> QED
  BY <1>2 DEF Machine

\* What no command does: machines stay machines, and only transitions turn states.
Stays(m, c, n) ==
  /\ n \in Machine(Resources, Cells) /\ n.live = m.live
  /\ n.faults \subseteq m.faults \cup {"misstated", "misuse", "race"}
  /\ c.op # "transition" => n.state = m.state

\* One command of any kind, on any machine.
LEMMA AnyStep ==
  ASSUME NEW X, NEW c \in BatchCommands(X), NEW m \in Machine(Resources, Cells), NEW by \in Nat,
         NEW n, n = ExecCommand(m, c, by)
  PROVE  Stays(m, c, n)
<1> SUFFICES /\ n \in Machine(Resources, Cells) /\ n.live = m.live
             /\ n.faults \subseteq m.faults \cup {"misstated", "misuse", "race"}
             /\ c.op # "transition" => n.state = m.state
  BY DEF Stays
<1>1. CASE c \in TransitionsOn(Resources)
  <2>1. n = [state  |-> [m.state EXCEPT ![c.res] = c.to], mem |-> m.mem,
             dirty  |-> {x \in m.dirty : x[1] # c.res},
             faults |-> IF m.state[c.res] # c.from THEN m.faults \cup {"misstated"} ELSE m.faults,
             live   |-> m.live]
    BY <1>1, TransitionStep
  <2>2. c.op = "transition" /\ c.res \in Resources /\ c.to \in States
    BY <1>1 DEF TransitionsOn, Barrier
  <2>3. "misstated" \in Wrongs
    BY DEF Wrongs, FaultKinds
  <2> QED
    BY <2>1, <2>2, <2>3 DEF Machine
<1>2. CASE c \in FillsOf(Cells)
  <2>1. /\ n \in Machine(Resources, Cells) /\ n.state = m.state /\ n.live = m.live /\ n.dirty = m.dirty
        /\ n.mem = [x \in Cells |-> IF x \in c.out THEN {Caller(c, by)} ELSE m.mem[x]]
        /\ n.faults \subseteq m.faults \cup {"misuse"}
        /\ AllIn(m, c.out, "COPY_DEST") => n.faults = m.faults
    BY ONLY <1>2, m \in Machine(Resources, Cells), by \in Nat, n = ExecCommand(m, c, by), FillStep
  <2> QED
    BY ONLY <2>1
<1>3. CASE c \in RunsOf(Cells)
  BY <1>3, RunStep DEF RunDone
<1>4. CASE c \in ReadsOf(Cells)
  <2>1. PICK h \in Nat, in \in SUBSET Cells : c = ReadBack(h, in)
    BY <1>4 DEF ReadsOf
  <2> QED
    BY <2>1, ReadStep
<1>5. CASE \E r \in Resources : c = UavBarrier(r)
  BY <1>5, UavStep
<1> QED
  BY <1>1, <1>2, <1>3, <1>4, <1>5 DEF BatchCommands, Commands

\* A list with one more command.
LEMMA RanAppend ==
  ASSUME NEW T, NEW a \in Seq(T), NEW c \in T, NEW m, NEW by
  PROVE  Append(a, c) \in Seq(T) /\ Ran(m, Append(a, c), by) = ExecCommand(Ran(m, a, by), c, by)
<1>1. Append(a, c) = a \o <<c>> /\ <<c>> \in Seq(T) /\ Append(a, c) \in Seq(T)
  OBVIOUS
<1>2. PICK b : b = <<c>>
  OBVIOUS
<1>3. b \in Seq(T) /\ Append(a, c) = a \o b
  BY ONLY <1>1, <1>2
<1>4. Ran(m, a \o b, by) = Ran(Ran(m, a, by), b, by)
  BY ONLY <1>3, a \in Seq(T), RanConcat
<1>5. Ran(Ran(m, a, by), b, by) = ExecCommand(Ran(m, a, by), c, by)
  BY ONLY <1>2, RanOne
<1> QED
  BY ONLY <1>1, <1>3, <1>4, <1>5

\* What any list does to any machine.
LEMMA AnyRun ==
  ASSUME NEW X, NEW s \in Seq(BatchCommands(X)), NEW m \in Machine(Resources, Cells), NEW by \in Nat,
         NEW n, n = Ran(m, s, by)
  PROVE  /\ n \in Machine(Resources, Cells) /\ n.live = m.live
         /\ n.faults \subseteq m.faults \cup {"misstated", "misuse", "race"}
         /\ (\A i \in 1 .. Len(s) : s[i].op # "transition") => n.state = m.state
<1> DEFINE Same(i) == \A j \in 1 .. i : s[j].op # "transition"
           Q(i) == {p \in Machine(Resources, Cells) :
                      /\ p.live = m.live /\ p.faults \subseteq m.faults \cup {"misstated", "misuse", "race"}
                      /\ Same(i) => p.state = m.state}
           P == [i \in 0 .. Len(s) |-> Q(i)]
<1>1. Len(s) \in Nat /\ \A i \in 1 .. Len(s) : s[i] \in BatchCommands(X)
  BY LenProperties, ElementOfSeq
<1>2. m \in P[0]
  BY <1>1
<1>3. ASSUME NEW i \in 1 .. Len(s), NEW p \in P[i - 1] PROVE ExecCommand(p, s[i], by) \in P[i]
  <2>1. i - 1 \in 0 .. Len(s) /\ i \in 0 .. Len(s) /\ (\A j \in 1 .. i - 1 : j \in 1 .. i) /\ i \in 1 .. i
    BY <1>1
  <2>2. p \in Q(i - 1)
    BY <1>3, <2>1
  <2>3. PICK q : q = ExecCommand(p, s[i], by)
    OBVIOUS
  <2>4. /\ q \in Machine(Resources, Cells) /\ q.live = p.live
        /\ q.faults \subseteq p.faults \cup {"misstated", "misuse", "race"}
        /\ s[i].op # "transition" => q.state = p.state
    <3>1. PICK c : c = s[i]
      OBVIOUS
    <3>2. c \in BatchCommands(X) /\ p \in Machine(Resources, Cells) /\ q = ExecCommand(p, c, by)
      BY <1>1, <2>2, <2>3, <3>1
    <3>3. Stays(p, c, q)
      BY ONLY <3>2, by \in Nat, AnyStep
    <3> QED
      BY ONLY <3>1, <3>3 DEF Stays
  <2>5. q \in Q(i)
    BY <2>1, <2>2, <2>4
  <2> QED
    BY <2>1, <2>3, <2>5
<1>4. n \in P[Len(s)]
  <2> HIDE DEF P
  <2> QED
    BY <1>1, <1>2, <1>3, Stages
<1>5. n \in Q(Len(s))
  BY <1>1, <1>4
<1> QED
  BY <1>5

------------------------------------------------------------------------------
(* Recorders                                                                  *)

\* A recorder whose commands touch what is in X.
Recorder(X) == [cmds: Seq(BatchCommands(X)), st: [Resources -> States], heaps: SUBSET Nat]

\* Every resource is in COMMON.
Rested(m) == \A r \in Resources : m.state[r] = "COMMON"

\* A resource that is not in COMMON has a handle that says so.
Follows(f, st) ==
  \A r \in Resources : f[r] # "COMMON" => \E h \in Known : Res(h) = r /\ st[h] # "COMMON"

\* What is recorded turns the resources as the handles say.
Tracks(r) ==
  \A m, by : m \in Machine(Resources, Cells) /\ by \in Nat /\ Rested(m)
    => Follows(Ran(m, r.cmds, by).state, r.st)

\* The transitions of handles hs from st to to: each is of a handle that has to turn.
TurnedBy(hs, st, to, bs, g) ==
  /\ \A k \in 1 .. Len(bs) :
       /\ g[k] \in 1 .. Len(hs) /\ st[hs[g[k]]] # to[hs[g[k]]]
       /\ bs[k].res = Res(hs[g[k]]) /\ bs[k].from = st[hs[g[k]]] /\ bs[k].to = to[hs[g[k]]]
       /\ \A j \in 1 .. k - 1 : g[j] < g[k]
  /\ \A i \in 1 .. Len(hs) : st[hs[i]] = to[hs[i]] \/ \E k \in 1 .. Len(bs) : g[k] = i

\* Turn leaves out the handles that are in their state already.
LEMMA TurnList ==
  ASSUME BufOk, NEW hs \in Seq(Known), NEW st \in [Resources -> States], NEW to \in [Resources -> States],
         NEW bs, bs = FlattenSeq([i \in DOMAIN hs |-> Transition(hs[i], st[hs[i]], to[hs[i]])])
  PROVE  bs \in Seq(TransitionsOn(Resources)) /\ \E g : TurnedBy(hs, st, to, bs, g)
<1> DEFINE n == Len(hs)
           v == [i \in 1 .. n |-> Barrier(Res(hs[i]), st[hs[i]], to[hs[i]])]
           D == {i \in 1 .. n : st[hs[i]] = to[hs[i]]}
           s == [i \in 1 .. n |-> IF i \in D THEN <<>> ELSE <<v[i]>>]
<1>1. n \in Nat /\ DOMAIN hs = 1 .. n /\ \A i \in 1 .. n : hs[i] \in Known
  BY LenProperties, ElementOfSeq
<1>2. bs = FlattenSeq(s)
  <2>1. [i \in DOMAIN hs |-> Transition(hs[i], st[hs[i]], to[hs[i]])] = s
    BY <1>1 DEF Transition
  <2> QED
    BY <2>1
<1>3. \A i \in 1 .. n : v[i] \in TransitionsOn(Resources)
  <2>1. ASSUME NEW i \in 1 .. n PROVE v[i] \in TransitionsOn(Resources)
    <3>1. hs[i] \in Resources /\ Res(hs[i]) \in Resources
      BY <1>1, CellSpace
    <3>2. st[hs[i]] \in States /\ to[hs[i]] \in States
      BY <3>1
    <3> QED
      BY <3>1, <3>2 DEF TransitionsOn
  <2> QED
    BY <2>1
<1>4. bs \in Seq(TransitionsOn(Resources)) /\ \E g : Picked(v, D, n, bs, g)
  <2> DEFINE T == TransitionsOn(Resources)
  <2>1. PICK w, E, z : w = v /\ E = D /\ z = s
    OBVIOUS
  <2>2. (\A i \in 1 .. n : w[i] \in T) /\ z = [i \in 1 .. n |-> IF i \in E THEN <<>> ELSE <<w[i]>>]
    BY <1>3, <2>1
  <2> HIDE DEF v, D, s, T, n
  <2>3. FlattenSeq(z) \in Seq(T) /\ \E g : Picked(w, E, n, FlattenSeq(z), g)
    BY <1>1, <2>2, Picks
  <2> QED
    BY <1>2, <2>1, <2>3 DEF T
<1>5. PICK g : Picked(v, D, n, bs, g)
  BY <1>4
<1>6. TurnedBy(hs, st, to, bs, g)
  <2>1. ASSUME NEW k \in 1 .. Len(bs)
        PROVE  /\ g[k] \in 1 .. n /\ st[hs[g[k]]] # to[hs[g[k]]]
               /\ bs[k].res = Res(hs[g[k]]) /\ bs[k].from = st[hs[g[k]]] /\ bs[k].to = to[hs[g[k]]]
    <3>1. g[k] \in 1 .. n /\ g[k] \notin D /\ bs[k] = v[g[k]]
      <4> HIDE DEF n, v, D
      <4> QED
        BY <1>5, <2>1 DEF Picked
    <3>2. PICK i : i = g[k]
      OBVIOUS
    <3>3. i \in 1 .. n /\ i \notin D /\ bs[k] = Barrier(Res(hs[i]), st[hs[i]], to[hs[i]])
      BY <3>1, <3>2
    <3>4. bs[k].res = Res(hs[i]) /\ bs[k].from = st[hs[i]] /\ bs[k].to = to[hs[i]]
      BY <3>3 DEF Barrier
    <3> QED
      BY <3>2, <3>3, <3>4
  <2>2. \A k \in 1 .. Len(bs) : \A j \in 1 .. k - 1 : g[j] < g[k]
    BY <1>5 DEF Picked
  <2>3. \A i \in 1 .. n : st[hs[i]] = to[hs[i]] \/ \E k \in 1 .. Len(bs) : g[k] = i
    BY <1>5 DEF Picked
  <2> QED
    BY <2>1, <2>2, <2>3 DEF TurnedBy
<1> QED
  BY <1>4, <1>6

\* Transitions are commands on the resources they name.
LEMMA TransitionCommands ==
  ASSUME NEW X, NEW bs \in Seq(TransitionsOn(Resources)), \A k \in 1 .. Len(bs) : bs[k].res \in X
  PROVE  bs \in Seq(BatchCommands(X))
<1>1. Len(bs) \in Nat /\ DOMAIN bs = 1 .. Len(bs) /\ \A k \in 1 .. Len(bs) : bs[k] \in TransitionsOn(Resources)
  BY LenProperties, ElementOfSeq
<1>2. ASSUME NEW k \in 1 .. Len(bs) PROVE bs[k] \in BatchCommands(X)
  <2>1. bs[k] \in TransitionsOn(Resources) /\ bs[k].op = "transition"
    BY <1>1 DEF TransitionsOn, Barrier
  <2> QED
    BY <2>1 DEF BatchCommands, Commands, Touched
<1> QED
  BY <1>1, <1>2

\* What Turn does to a recorder.
TurnDone(r, hs, to, q) ==
  /\ q.heaps = r.heaps
  /\ q.st = [h \in Resources |-> IF h \in Range(hs) THEN to[h] ELSE r.st[h]]
  /\ \E bs, g : /\ bs \in Seq(TransitionsOn(Resources)) /\ TurnedBy(hs, r.st, to, bs, g)
                /\ q.cmds = r.cmds \o bs

\* Turn by the definition.
LEMMA TurnStep ==
  ASSUME BufOk, NEW X, NEW r \in Recorder(X), NEW hs \in Seq(Known), NEW to \in [Resources -> States],
         \A i \in 1 .. Len(hs) : Res(hs[i]) \in X,
         NEW q, q = Turn(r, hs, to)
  PROVE  q \in Recorder(X) /\ TurnDone(r, hs, to, q)
<1>1. r.st \in [Resources -> States] /\ r.cmds \in Seq(BatchCommands(X)) /\ r.heaps \in SUBSET Nat
  BY DEF Recorder
<1>2. PICK bs : bs = FlattenSeq([i \in DOMAIN hs |-> Transition(hs[i], r.st[hs[i]], to[hs[i]])])
  OBVIOUS
<1>3. bs \in Seq(TransitionsOn(Resources)) /\ \E g : TurnedBy(hs, r.st, to, bs, g)
  BY <1>1, <1>2, TurnList
<1>4. PICK g : TurnedBy(hs, r.st, to, bs, g)
  BY <1>3
<1>5. bs \in Seq(BatchCommands(X))
  <2>1. \A k \in 1 .. Len(bs) : bs[k].res \in X
    BY <1>4 DEF TurnedBy
  <2> QED
    BY <1>3, <2>1, TransitionCommands
<1>6. DOMAIN r.st = Resources
  BY <1>1
<1> DEFINE new == [h \in Resources |-> IF h \in Range(hs) THEN to[h] ELSE r.st[h]]
<1>7. q = [cmds |-> r.cmds \o bs, st |-> new, heaps |-> r.heaps]
  <2>1. q = [r EXCEPT !.cmds = @ \o bs, !.st = new]
    BY <1>2, <1>6 DEF Turn
  <2> HIDE DEF new
  <2> QED
    BY <2>1 DEF Recorder
<1>8. new \in [Resources -> States]
  BY <1>1
<1>9. r.cmds \o bs \in Seq(BatchCommands(X))
  BY <1>1, <1>5, ConcatProperties
<1> HIDE DEF new
<1>10. q \in Recorder(X)
  BY <1>1, <1>7, <1>8, <1>9 DEF Recorder
<1>11. TurnDone(r, hs, to, q)
  <2>1. q.heaps = r.heaps /\ q.st = new /\ q.cmds = r.cmds \o bs
    BY <1>7
  <2> QED
    BY <1>3, <1>4, <2>1 DEF TurnDone, new
<1> QED
  BY <1>10, <1>11

\* Turn keeps the handles true: the last transition of a resource is of a handle that says so.
LEMMA TurnTracks ==
  ASSUME BufOk, NEW X, NEW r \in Recorder(X), NEW hs \in Seq(Known), NEW to \in [Resources -> States],
         NEW q, TurnDone(r, hs, to, q), Tracks(r)
  PROVE  Tracks(q)
<1>1. PICK bs, g : /\ bs \in Seq(TransitionsOn(Resources)) /\ TurnedBy(hs, r.st, to, bs, g)
                   /\ q.cmds = r.cmds \o bs
  BY DEF TurnDone
<1>2. q.st = [h \in Resources |-> IF h \in Range(hs) THEN to[h] ELSE r.st[h]]
  BY DEF TurnDone
<1>0. r.cmds \in Seq(BatchCommands(X))
  BY DEF Recorder
<1> SUFFICES ASSUME NEW m, NEW by, m \in Machine(Resources, Cells) /\ by \in Nat /\ Rested(m)
             PROVE  Follows(Ran(m, q.cmds, by).state, q.st)
  BY DEF Tracks
<1>3. PICK p : p = Ran(m, r.cmds, by)
  OBVIOUS
<1>4. PICK n : n = Ran(p, bs, by)
  OBVIOUS
<1>5. Ran(m, q.cmds, by) = n
  <2> DEFINE T == BatchCommands(X) \cup TransitionsOn(Resources)
  <2>1. r.cmds \in Seq(T) /\ bs \in Seq(T)
    BY <1>0, <1>1, SeqMonotonic
  <2> HIDE DEF T
  <2> QED
    BY <1>1, <1>3, <1>4, <2>1, RanConcat
<1>6. p \in Machine(Resources, Cells) /\ Follows(p.state, r.st)
  BY <1>0, <1>3, AnyRun DEF Tracks
<1>7. /\ \A x \in Resources \ Barred(bs) : n.state[x] = p.state[x]
      /\ \A x \in Barred(bs) : \E i \in 1 .. Len(bs) : bs[i].res = x /\ n.state[x] = bs[i].to
  BY ONLY <1>1, <1>4, <1>6, BarriersRun
<1>8. \A k \in 1 .. Len(bs) : /\ bs[k].res = Res(hs[g[k]]) /\ bs[k].to = to[hs[g[k]]]
                              /\ hs[g[k]] \in Known /\ hs[g[k]] \in Resources /\ hs[g[k]] \in Range(hs)
  <2>1. \A k \in 1 .. Len(hs) : hs[k] \in Known /\ hs[k] \in Range(hs)
    BY ElementOfSeq, LenProperties DEF Range
  <2>2. Known \subseteq Resources
    BY CellSpace
  <2> QED
    BY <1>1, <2>1, <2>2 DEF TurnedBy
<1>9. ASSUME NEW x \in Resources, n.state[x] # "COMMON"
      PROVE  \E h \in Known : Res(h) = x /\ q.st[h] # "COMMON"
  <2>1. CASE x \in Barred(bs)
    <3>1. PICK i \in 1 .. Len(bs) : bs[i].res = x /\ n.state[x] = bs[i].to
      BY <1>7, <2>1
    <3>2. q.st[hs[g[i]]] = bs[i].to
      BY <1>2, <1>8
    <3> QED
      BY <1>8, <1>9, <3>1, <3>2
  <2>2. CASE x \notin Barred(bs)
    <3>1. p.state[x] # "COMMON"
      BY <1>7, <1>9, <2>2
    <3>2. PICK h \in Known : Res(h) = x /\ r.st[h] # "COMMON"
      BY <1>6, <3>1 DEF Follows
    <3>3. h \in Resources
      BY CellSpace
    <3>4. CASE h \in Range(hs)
      <4>1. PICK i \in 1 .. Len(hs) : h = hs[i]
        BY <3>4, LenProperties DEF Range
      <4>2. ~ \E k \in 1 .. Len(bs) : g[k] = i
        BY <1>8, <2>2, <3>2, <4>1 DEF Barred
      <4>3. r.st[h] = to[h]
        BY <1>1, <4>1, <4>2 DEF TurnedBy
      <4> QED
        BY <1>2, <3>2, <3>3, <3>4, <4>3
    <3>5. CASE h \notin Range(hs)
      BY <1>2, <3>2, <3>3, <3>5
    <3> QED
      BY <3>4, <3>5
  <2> QED
    BY <2>1, <2>2
<1> QED
  BY <1>5, <1>9 DEF Follows

\* The handles, all at rest.
Resting == [h \in Resources |-> "COMMON"]

\* The handles whose resources are in Y.
Near(Y) == {h \in Known : Res(h) \in Y}

\* A recorder whose commands touch what is in Y and the heaps it keeps, and
\* whose handles outside S are at rest.
Records(r, Y, S) ==
  /\ r \in Recorder(Y \cup r.heaps) /\ Tracks(r)
  /\ \A h \in Resources \ S : r.st[h] = "COMMON"

\* More handles may be away from COMMON.
LEMMA RecordsLess ==
  ASSUME NEW r, NEW Y, NEW S, Records(r, Y, S), NEW S2, S \cap Resources \subseteq S2
  PROVE  Records(r, Y, S2)
BY DEF Records

\* None may.
LEMMA RecordsRested ==
  ASSUME NEW r, NEW Y, Records(r, Y, {})
  PROVE  r.st = Resting
BY DEF Records, Recorder, Resting

\* A sequence of handles near Y, taken apart.
LEMMA NearKnown ==
  ASSUME BufOk, NEW Y, NEW hs \in Seq(Near(Y))
  PROVE  /\ hs \in Seq(Known) /\ Len(hs) \in Nat /\ DOMAIN hs = 1 .. Len(hs)
         /\ \A i \in 1 .. Len(hs) : hs[i] \in Known /\ Res(hs[i]) \in Y /\ hs[i] \in Resources
         /\ Range(hs) \subseteq Near(Y)
<1>1. /\ hs \in Seq(Known) /\ Len(hs) \in Nat /\ DOMAIN hs = 1 .. Len(hs)
      /\ \A i \in 1 .. Len(hs) : hs[i] \in Near(Y)
  <2>1. Near(Y) \subseteq Known
    BY DEF Near
  <2> QED
    BY <2>1, SeqMonotonic, ElementOfSeq, LenProperties
<1>2. \A i \in 1 .. Len(hs) : hs[i] \in Known /\ Res(hs[i]) \in Y
  BY <1>1 DEF Near
<1>3. \A h \in Known : h \in Resources
  BY CellSpace
<1> QED
  BY <1>1, <1>2, <1>3 DEF Range

\* What a turn of the handles hs leaves: those that turn to COMMON rest, the
\* others may not.
Turned(r, q, Y, S, hs, to) ==
  /\ q.heaps = r.heaps /\ Records(q, Y, S \cup Range(hs))
  /\ to = Resting => Records(q, Y, S \ Range(hs))

\* Turn from any state to any state, or back to COMMON.
LEMMA TurnRecords ==
  ASSUME BufOk, NEW r, NEW Y, NEW S, Records(r, Y, S), NEW hs \in Seq(Near(Y)),
         NEW to \in [Resources -> States], NEW q, q = Turn(r, hs, to)
  PROVE  Turned(r, q, Y, S, hs, to)
<1>1. /\ hs \in Seq(Known) /\ \A i \in 1 .. Len(hs) : Res(hs[i]) \in Y \cup r.heaps
  BY NearKnown
<1>2. r \in Recorder(Y \cup r.heaps) /\ Tracks(r)
  BY DEF Records
<1>3. q \in Recorder(Y \cup r.heaps) /\ TurnDone(r, hs, to, q)
  <2>1. PICK X : X = Y \cup r.heaps
    OBVIOUS
  <2>2. r \in Recorder(X) /\ \A i \in 1 .. Len(hs) : Res(hs[i]) \in X
    BY <1>1, <1>2, <2>1
  <2>3. q \in Recorder(X) /\ TurnDone(r, hs, to, q)
    BY ONLY <1>1, <2>2, BufOk, to \in [Resources -> States], q = Turn(r, hs, to), TurnStep
  <2> QED
    BY <2>1, <2>3
<1>4. Tracks(q)
  BY <1>1, <1>2, <1>3, TurnTracks
<1>5. /\ q.heaps = r.heaps
      /\ q.st = [h \in Resources |-> IF h \in Range(hs) THEN to[h] ELSE r.st[h]]
  BY <1>3 DEF TurnDone
<1>6. \A h \in Resources \ (S \cup Range(hs)) : q.st[h] = "COMMON"
  BY <1>5 DEF Records
<1>7. ASSUME to = Resting PROVE \A h \in Resources \ (S \ Range(hs)) : q.st[h] = "COMMON"
  BY <1>5, <1>7 DEF Records, Resting
<1>8. q \in Recorder(Y \cup q.heaps)
  BY <1>3, <1>5
<1> QED
  BY <1>4, <1>5, <1>6, <1>7, <1>8 DEF Records, Turned

\* A recorder after something that keeps no further heap.
Kept(r, q, Y, S) == q.heaps = r.heaps /\ Records(q, Y, S)

\* Handles enter a state: these may now be away from COMMON.
LEMMA EnterRecords ==
  ASSUME BufOk, NEW r, NEW Y, NEW S, Records(r, Y, S), NEW hs \in Seq(Near(Y)), NEW s \in States,
         NEW q, q = EnterAll(r, hs, s)
  PROVE  Kept(r, q, Y, S \cup Range(hs))
<1>1. DOMAIN r.st = Resources
  BY DEF Records, Recorder
<1>2. PICK to : to = [h \in Resources |-> s]
  OBVIOUS
<1>3. to \in [Resources -> States] /\ q = Turn(r, hs, to)
  BY <1>1, <1>2 DEF EnterAll
<1>4. Turned(r, q, Y, S, hs, to)
  BY <1>3, TurnRecords
<1> QED
  BY ONLY <1>4 DEF Turned, Kept

\* Handles go back to COMMON, where they were before: these no longer are.
LEMMA RestoreRecords ==
  ASSUME BufOk, NEW r, NEW Y, NEW S, Records(r, Y, S), NEW hs \in Seq(Near(Y)),
         NEW before, before = Resting, NEW q, q = Restore(r, hs, before)
  PROVE  Kept(r, q, Y, S \ Range(hs))
<1>1. before \in [Resources -> States] /\ q = Turn(r, hs, before)
  BY DEF Resting, States, Restore
<1>2. Turned(r, q, Y, S, hs, before)
  BY <1>1, TurnRecords
<1> QED
  BY ONLY <1>2, before = Resting DEF Turned, Kept

\* Commands that turn no state.
Others(X) == {c \in BatchCommands(X) : c.op # "transition"}

\* What cs and the heaps H add to a recorder.
Grown(r, q, Y, S, H) == q.heaps = r.heaps \cup H /\ Records(q, Y, S)

\* Commands other than transitions leave what is recorded true.
LEMMA MoreRecords ==
  ASSUME NEW r, NEW Y, NEW S, Records(r, Y, S), NEW H \in SUBSET Nat,
         NEW cs \in Seq(Others(Y \cup r.heaps \cup H)),
         NEW q, q = [r EXCEPT !.cmds = @ \o cs, !.heaps = @ \cup H]
  PROVE  Grown(r, q, Y, S, H)
<1> DEFINE X == Y \cup r.heaps \cup H
<1>1. /\ r.cmds \in Seq(BatchCommands(Y \cup r.heaps)) /\ r.st \in [Resources -> States]
      /\ r.heaps \in SUBSET Nat /\ r = [cmds |-> r.cmds, st |-> r.st, heaps |-> r.heaps]
  BY DEF Records, Recorder
<1>2. r.cmds \in Seq(BatchCommands(X))
  BY <1>1, CommandsIn
<1>3. cs \in Seq(BatchCommands(X)) /\ \A i \in 1 .. Len(cs) : cs[i].op # "transition"
  <2>1. Others(X) \subseteq BatchCommands(X)
    BY DEF Others
  <2>2. \A i \in 1 .. Len(cs) : cs[i] \in Others(X)
    BY ElementOfSeq, LenProperties
  <2>3. cs \in Seq(BatchCommands(X))
    <3>1. cs \in Seq(Others(X))
      OBVIOUS
    <3> HIDE DEF X
    <3> QED
      BY <2>1, <3>1, SeqMonotonic
  <2> QED
    BY <2>2, <2>3 DEF Others
<1>4. q.cmds = r.cmds \o cs /\ q.st = r.st /\ q.heaps = r.heaps \cup H
      /\ q = [cmds |-> q.cmds, st |-> q.st, heaps |-> q.heaps]
  BY <1>1
<1>5. q.cmds \in Seq(BatchCommands(X))
  BY <1>2, <1>3, <1>4, ConcatProperties
<1>6. q \in Recorder(Y \cup q.heaps)
  BY <1>1, <1>4, <1>5 DEF Recorder
<1>7. Tracks(q)
  <2> SUFFICES ASSUME NEW m, NEW by, m \in Machine(Resources, Cells) /\ by \in Nat /\ Rested(m)
               PROVE  Follows(Ran(m, q.cmds, by).state, q.st)
    BY DEF Tracks
  <2>1. PICK p : p = Ran(m, r.cmds, by)
    OBVIOUS
  <2>2. PICK n : n = Ran(p, cs, by)
    OBVIOUS
  <2>3. Ran(m, q.cmds, by) = n
    <3> HIDE DEF X
    <3> QED
      BY <1>2, <1>3, <1>4, <2>1, <2>2, RanConcat
  <2>4. p \in Machine(Resources, Cells)
    BY <1>2, <2>1, AnyRun
  <2>5. n.state = p.state
    <3>1. cs \in Seq(BatchCommands(X)) /\ \A i \in 1 .. Len(cs) : cs[i].op # "transition"
      BY <1>3
    <3> HIDE DEF X
    <3> QED
      BY <2>2, <2>4, <3>1, AnyRun
  <2>6. Follows(p.state, r.st)
    BY <2>1 DEF Records, Tracks
  <2> QED
    BY <1>4, <2>3, <2>5, <2>6
<1> QED
  BY <1>4, <1>6, <1>7 DEF Records, Grown

\* The same for one command.
LEMMA AddRecords ==
  ASSUME NEW r, NEW Y, NEW S, Records(r, Y, S), NEW c \in Others(Y \cup r.heaps),
         NEW q, q = Add(r, c)
  PROVE  Kept(r, q, Y, S)
<1>1. PICK H : H = {}
  OBVIOUS
<1>2. Y \cup r.heaps \cup H = Y \cup r.heaps /\ r.heaps \cup H = r.heaps
  BY <1>1
<1>3. PICK cs : cs = <<c>>
  OBVIOUS
<1>4. cs \in Seq(Others(Y \cup r.heaps \cup H)) /\ H \in SUBSET Nat
  BY <1>1, <1>2, <1>3
<1>5. r.cmds \in Seq(BatchCommands(Y \cup r.heaps)) /\ r = [cmds |-> r.cmds, st |-> r.st, heaps |-> r.heaps]
  BY DEF Records, Recorder
<1>6. q = [r EXCEPT !.cmds = @ \o cs, !.heaps = @ \cup H]
  <2>1. Append(r.cmds, c) = r.cmds \o cs
    BY <1>3, <1>5
  <2> QED
    BY <1>1, <1>5, <2>1 DEF Add
<1>7. Grown(r, q, Y, S, H)
  BY <1>4, <1>6, MoreRecords
<1> QED
  BY <1>2, <1>7 DEF Grown, Kept

\* A dispatch is a command on the resources it reads and writes,
LEMMA RunOther ==
  ASSUME NEW X, NEW by \in Nat, NEW in \in SUBSET Cells, NEW out \in SUBSET Cells,
         ResourcesOf(in) \subseteq X, ResourcesOf(out) \subseteq X
  PROVE  Run(by, in, out) \in Others(X)
<1>1. PICK c : c = Run(by, in, out)
  OBVIOUS
<1>2. c.op = "run" /\ c.in = in /\ c.out = out
  BY <1>1 DEF Run
<1>3. c \in Commands(Resources, Cells)
  BY <1>1 DEF Commands, RunsOf
<1>4. Touched(c) \subseteq X
  BY <1>2 DEF Touched, ResourcesOf
<1> QED
  BY <1>1, <1>2, <1>3, <1>4 DEF Others, BatchCommands

\* a copy from a heap one on the heap and what it fills,
LEMMA FillOther ==
  ASSUME NEW X, NEW by \in Nat, NEW heap \in Nat, heap \in X, NEW out \in SUBSET Cells, ResourcesOf(out) \subseteq X
  PROVE  Fill(by, heap, out) \in Others(X)
<1>1. PICK c : c = Fill(by, heap, out)
  OBVIOUS
<1>2. c.op = "fill" /\ c.heap = heap /\ c.out = out
  BY <1>1 DEF Fill
<1>3. c \in Commands(Resources, Cells)
  BY <1>1 DEF Commands, FillsOf
<1>4. Touched(c) \subseteq X
  BY <1>2 DEF Touched
<1> QED
  BY <1>1, <1>2, <1>3, <1>4 DEF Others, BatchCommands

\* a copy to a heap one on the heap and what it reads,
LEMMA ReadOther ==
  ASSUME NEW X, NEW heap \in Nat, heap \in X, NEW in \in SUBSET Cells, ResourcesOf(in) \subseteq X
  PROVE  ReadBack(heap, in) \in Others(X)
<1>1. PICK c : c = ReadBack(heap, in)
  OBVIOUS
<1>2. c.op = "read" /\ c.heap = heap /\ c.in = in
  BY <1>1 DEF ReadBack
<1>3. c \in Commands(Resources, Cells)
  BY <1>1 DEF Commands, ReadsOf
<1>4. Touched(c) \subseteq X
  BY <1>2 DEF Touched
<1> QED
  BY <1>1, <1>2, <1>3, <1>4 DEF Others, BatchCommands

\* a UAV barrier one on its resource.
LEMMA UavOther ==
  ASSUME NEW X, NEW x \in Resources, x \in X
  PROVE  UavBarrier(x) \in Others(X)
<1>1. PICK c : c = UavBarrier(x)
  OBVIOUS
<1>2. c.op = "uav" /\ c.res = x
  BY <1>1 DEF UavBarrier
<1>3. Touched(c) \subseteq X
  BY <1>2 DEF Touched
<1> QED
  BY <1>1, <1>2, <1>3 DEF Others, BatchCommands

\* Cells of resources in X.
CellsIn(X) == {c \in Cells : c[1] \in X}

\* A dispatch over cells of resources in Y.
LEMMA CellsInRun ==
  ASSUME NEW r, NEW Y, NEW S, Records(r, Y, S), NEW by \in Nat, NEW in, in \subseteq CellsIn(Y),
         NEW out, out \subseteq CellsIn(Y), NEW q, q = Add(r, Run(by, in, out))
  PROVE  Kept(r, q, Y, S)
<1>1. /\ in \in SUBSET Cells /\ out \in SUBSET Cells
      /\ ResourcesOf(in) \subseteq Y \cup r.heaps /\ ResourcesOf(out) \subseteq Y \cup r.heaps
  BY DEF CellsIn, ResourcesOf
<1>2. PICK c : c = Run(by, in, out)
  OBVIOUS
<1>3. c \in Others(Y \cup r.heaps)
  BY <1>1, <1>2, RunOther
<1> QED
  BY <1>2, <1>3, AddRecords

\* Descriptors of handles near Y are of cells of resources in Y.
LEMMA NearCells ==
  ASSUME BufOk, NEW Y, NEW h \in Near(Y)
  PROVE  Elements(h) \subseteq CellsIn(Y) /\ FromStart(h) \subseteq CellsIn(Y)
<1>1. h \in Known /\ Res(h) \in Y
  BY DEF Near
<1>2. /\ Elements(h) \subseteq Cells /\ FromStart(h) \subseteq Cells
      /\ ResourcesOf(Elements(h)) \subseteq {Res(h)} /\ ResourcesOf(FromStart(h)) \subseteq {Res(h)}
  BY <1>1, CellSpace
<1> QED
  BY <1>1, <1>2 DEF CellsIn, ResourcesOf

\* A dispatch over handles near Y.
LEMMA DispatchRecords ==
  ASSUME BufOk, NEW r, NEW Y, NEW S, Records(r, Y, S), NEW by \in Nat, NEW in \in SUBSET Near(Y),
         NEW out \in SUBSET Near(Y), NEW q, q = Dispatch(r, by, in, out)
  PROVE  Kept(r, q, Y, S)
<1>1. PICK a, b : a = UNION {Elements(h) : h \in in} /\ b = UNION {Elements(h) : h \in out}
  OBVIOUS
<1>2. a \subseteq CellsIn(Y) /\ b \subseteq CellsIn(Y)
  BY <1>1, NearCells
<1>3. q = Add(r, Run(by, a, b))
  BY <1>1 DEF Dispatch
<1> QED
  BY <1>2, <1>3, CellsInRun

------------------------------------------------------------------------------
(* The dispatches                                                             *)

\* What is recorded for a call leaves the handles at rest.
Recording(r, q, Y) == r.heaps \subseteq q.heaps /\ Records(q, Y, {})

\* Handles written out as a sequence.
LEMMA SmallSeq ==
  ASSUME NEW T
  PROVE  /\ \A x \in T : <<x>> \in Seq(T) /\ Range(<<x>>) = {x}
         /\ \A x, y \in T : <<x, y>> \in Seq(T) /\ Range(<<x, y>>) = {x, y}
         /\ \A x, y, z \in T : <<x, y, z>> \in Seq(T) /\ Range(<<x, y, z>>) = {x, y, z}
<1>1. \A x \in T : <<x>> \in Seq(T) /\ Range(<<x>>) = {x}
  <2>1. ASSUME NEW x \in T PROVE <<x>> \in Seq(T) /\ Range(<<x>>) = {x}
    <3>1. <<x>> \in Seq(T) /\ DOMAIN <<x>> = {1} /\ <<x>>[1] = x
      OBVIOUS
    <3> QED
      BY <3>1 DEF Range
  <2> QED
    BY <2>1
<1>2. \A x, y \in T : <<x, y>> \in Seq(T) /\ Range(<<x, y>>) = {x, y}
  <2>1. ASSUME NEW x \in T, NEW y \in T PROVE <<x, y>> \in Seq(T) /\ Range(<<x, y>>) = {x, y}
    <3>1. <<x, y>> \in Seq(T) /\ DOMAIN <<x, y>> = {1, 2} /\ <<x, y>>[1] = x /\ <<x, y>>[2] = y
      OBVIOUS
    <3> QED
      BY <3>1 DEF Range
  <2> QED
    BY <2>1
<1>3. \A x, y, z \in T : <<x, y, z>> \in Seq(T) /\ Range(<<x, y, z>>) = {x, y, z}
  <2>1. ASSUME NEW x \in T, NEW y \in T, NEW z \in T PROVE <<x, y, z>> \in Seq(T) /\ Range(<<x, y, z>>) = {x, y, z}
    <3>1. /\ <<x, y, z>> \in Seq(T) /\ DOMAIN <<x, y, z>> = {1, 2, 3}
          /\ <<x, y, z>>[1] = x /\ <<x, y, z>>[2] = y /\ <<x, y, z>>[3] = z
      OBVIOUS
    <3> QED
      BY <3>1 DEF Range
  <2> QED
    BY <2>1
<1> QED
  BY <1>1, <1>2, <1>3

\* A reversed sequence has the same handles.
LEMMA ReverseRange ==
  ASSUME NEW T, NEW s \in Seq(T)
  PROVE  Reverse(s) \in Seq(T) /\ Range(Reverse(s)) = Range(s)
<1>1. PICK z : z = Reverse(s)
  OBVIOUS
<1>2. PICK n : n = Len(s) /\ n \in Nat
  BY LenProperties
<1>3. /\ z \in Seq(T) /\ Len(z) = n
      /\ \A i \in 1 .. n : z[i] = s[(n - i) + 1] /\ (n - i) + 1 \in 1 .. n
  BY <1>1, <1>2, ReverseIs
<1>4. DOMAIN s = 1 .. n /\ DOMAIN z = 1 .. n
  BY <1>2, <1>3, LenProperties
<1>5. ASSUME NEW i \in 1 .. n PROVE \E j \in 1 .. n : z[j] = s[i]
  <2>1. PICK j : j = (n - i) + 1
    OBVIOUS
  <2>2. j \in 1 .. n /\ (n - j) + 1 = i
    BY ONLY <1>2, <2>1, i \in 1 .. n
  <2> QED
    BY <1>3, <2>2
<1>6. \A x : x \in Range(z) => x \in Range(s)
  BY <1>3, <1>4 DEF Range
<1>7. \A x : x \in Range(s) => x \in Range(z)
  BY <1>4, <1>5 DEF Range
<1>8. Range(z) = Range(s)
  BY ONLY <1>6, <1>7
<1> QED
  BY ONLY <1>1, <1>3, <1>8

\* A dispatch that writes y, the transitions before and after: a has entered what
\* back leaves.
LEMMA BetweenRecords ==
  ASSUME BufOk, NEW r, NEW Y, NEW a, NEW S, Kept(r, a, Y, S), NEW by \in Nat,
         NEW in \in SUBSET Near(Y), NEW y \in Near(Y), NEW back \in Seq(Near(Y)), S \subseteq Range(back),
         NEW b, b = Enter(a, y, "UAV"), NEW c, c = Dispatch(b, by, in, {y}),
         NEW d, d = Restore(c, <<y>>, Resting), NEW q, q = Restore(d, back, Resting)
  PROVE  Kept(r, q, Y, {})
<1>1. PICK one : one = <<y>>
  OBVIOUS
<1>2. one \in Seq(Near(Y)) /\ Range(one) = {y}
  BY <1>1, SmallSeq
<1>3. Kept(a, b, Y, S \cup {y})
  <2>1. Records(a, Y, S)
    BY DEF Kept
  <2>2. b = EnterAll(a, one, "UAV") /\ "UAV" \in States
    BY <1>1 DEF Enter, States
  <2>3. Kept(a, b, Y, S \cup Range(one))
    BY <1>2, <2>1, <2>2, EnterRecords
  <2> QED
    BY <1>2, <2>3
<1>4. Kept(b, c, Y, S \cup {y})
  <2>1. Records(b, Y, S \cup {y})
    BY <1>3 DEF Kept
  <2> QED
    BY <2>1, DispatchRecords
<1>5. Kept(c, d, Y, (S \cup {y}) \ Range(one))
  <2>1. Records(c, Y, S \cup {y})
    BY <1>4 DEF Kept
  <2>2. d = Restore(c, one, Resting)
    BY <1>1
  <2> QED
    BY <1>2, <2>1, <2>2, RestoreRecords
<1>6. Kept(d, q, Y, ((S \cup {y}) \ Range(one)) \ Range(back))
  <2>1. Records(d, Y, (S \cup {y}) \ Range(one))
    BY <1>5 DEF Kept
  <2> QED
    BY <2>1, RestoreRecords
<1>7. ((S \cup {y}) \ Range(one)) \ Range(back) = {}
  BY <1>2
<1> QED
  BY <1>3, <1>4, <1>5, <1>6, <1>7 DEF Kept

\* The common shape of a binding: enter, dispatch, back in the opposite order.
LEMMA PlainRecords ==
  ASSUME BufOk, NEW r, NEW Y, Records(r, Y, {}), NEW by \in Nat, NEW ins \in Seq(Near(Y)), NEW y \in Near(Y),
         NEW q, q = Plain(r, by, ins, y)
  PROVE  Kept(r, q, Y, {})
<1> DEFINE S == Range(ins)
<1>1. r.st = Resting
  BY RecordsRested
<1>2. S \in SUBSET Near(Y)
  BY NearKnown
<1>3. PICK a : a = EnterAll(r, ins, "SRV")
  OBVIOUS
<1>4. PICK b : b = Enter(a, y, "UAV")
  OBVIOUS
<1>5. PICK c : c = Dispatch(b, by, S, {y})
  OBVIOUS
<1>6. PICK d : d = Restore(c, <<y>>, Resting)
  OBVIOUS
<1>7. PICK back : back = Reverse(ins)
  OBVIOUS
<1>8. q = Restore(d, back, Resting)
  BY <1>1, <1>3, <1>4, <1>5, <1>6, <1>7 DEF Plain, Enter
<1>9. back \in Seq(Near(Y)) /\ S \subseteq Range(back)
  BY <1>7, ReverseRange
<1>10. Kept(r, a, Y, {} \cup S)
  <2>1. "SRV" \in States
    BY DEF States
  <2> QED
    BY <1>3, <2>1, EnterRecords
<1>11. {} \cup S \subseteq Range(back)
  BY <1>9
<1> HIDE DEF S
<1> QED
  BY <1>2, <1>4, <1>5, <1>6, <1>8, <1>9, <1>10, <1>11, BetweenRecords

\* FirstOfHandle keeps every handle.
LEMMA FirstOfHandleIs ==
  ASSUME NEW T, NEW hs \in Seq(T), NEW q, q = FirstOfHandle(hs)
  PROVE  q \in Seq(T) /\ Range(q) = Range(hs)
<1> DEFINE D == {i \in 1 .. Len(hs) : \E j \in 1 .. i - 1 : hs[j] = hs[i]}
<1>1. PICK n : n = Len(hs) /\ n \in Nat
  BY LenProperties
<1>2. DOMAIN hs = 1 .. n /\ \A i \in 1 .. n : hs[i] \in T
  BY <1>1, LenProperties, ElementOfSeq
<1>3. PICK s : s = [i \in 1 .. n |-> IF i \in D THEN <<>> ELSE <<hs[i]>>]
  OBVIOUS
<1>4. q = FlattenSeq(s)
  <2>1. [i \in DOMAIN hs |-> IF \E j \in 1 .. i - 1 : hs[j] = hs[i] THEN <<>> ELSE <<hs[i]>>] = s
    BY <1>1, <1>2, <1>3
  <2> QED
    BY <2>1 DEF FirstOfHandle
<1>5. q \in Seq(T) /\ \E g : Picked(hs, D, n, q, g)
  <2>1. PICK E : E = D
    OBVIOUS
  <2>2. (\A i \in 1 .. n : hs[i] \in T) /\ s = [i \in 1 .. n |-> IF i \in E THEN <<>> ELSE <<hs[i]>>]
    BY <1>2, <1>3, <2>1
  <2> HIDE DEF D
  <2>3. FlattenSeq(s) \in Seq(T) /\ \E g : Picked(hs, E, n, FlattenSeq(s), g)
    BY <1>1, <2>2, Picks
  <2> QED
    BY <1>4, <2>1, <2>3
<1>6. PICK g : Picked(hs, D, n, q, g)
  BY <1>5
<1>7. DOMAIN q = 1 .. Len(q)
  BY <1>5, LenProperties
<1>8. Range(q) \subseteq Range(hs)
  BY <1>2, <1>6, <1>7 DEF Picked, Range
<1>9. ASSUME NEW i \in 1 .. n PROVE hs[i] \in Range(q)
  <2> DEFINE E == {j \in 1 .. n : hs[j] = hs[i]}
  <2>1. E \subseteq Nat /\ E # {}
    BY <1>1
  <2>2. PICK k \in E : \A j \in E : k <= j
    <3> HIDE DEF E
    <3> QED
      BY <2>1, Least
  <2>3. k \notin D
    <3>1. ASSUME NEW j \in 1 .. k - 1, hs[j] = hs[k] PROVE FALSE
      <4>1. j \in E
        BY <1>1, <3>1
      <4>2. k <= j /\ k \in Nat /\ j \in Nat
        BY <2>1, <2>2, <4>1
      <4> QED
        BY <3>1, <4>2
    <3> QED
      BY <3>1
  <2>4. PICK m \in 1 .. Len(q) : g[m] = k
    BY <1>6, <2>2, <2>3 DEF Picked
  <2>5. q[m] = hs[k]
    BY <1>6, <2>4 DEF Picked
  <2> QED
    BY <1>7, <2>2, <2>4, <2>5 DEF Range
<1>10. Range(hs) \subseteq Range(q)
  BY <1>2, <1>9 DEF Range
<1> QED
  BY <1>5, <1>8, <1>10

\* FirstOfResource keeps a handle of every resource.
LEMMA FirstOfResourceIs ==
  ASSUME NEW T, NEW hs \in Seq(T), NEW q, q = FirstOfResource(hs)
  PROVE  q \in Seq(T) /\ \A h \in Range(hs) : \E g \in Range(q) : Res(g) = Res(h)
<1> DEFINE D == {i \in 1 .. Len(hs) : \E j \in 1 .. i - 1 : Res(hs[j]) = Res(hs[i])}
<1>1. PICK n : n = Len(hs) /\ n \in Nat
  BY LenProperties
<1>2. DOMAIN hs = 1 .. n /\ \A i \in 1 .. n : hs[i] \in T
  BY <1>1, LenProperties, ElementOfSeq
<1>3. PICK s : s = [i \in 1 .. n |-> IF i \in D THEN <<>> ELSE <<hs[i]>>]
  OBVIOUS
<1>4. q = FlattenSeq(s)
  <2>1. [i \in DOMAIN hs |-> IF \E j \in 1 .. i - 1 : Res(hs[j]) = Res(hs[i]) THEN <<>> ELSE <<hs[i]>>] = s
    BY <1>1, <1>2, <1>3
  <2> QED
    BY <2>1 DEF FirstOfResource
<1>5. q \in Seq(T) /\ \E g : Picked(hs, D, n, q, g)
  <2>1. PICK E : E = D
    OBVIOUS
  <2>2. (\A i \in 1 .. n : hs[i] \in T) /\ s = [i \in 1 .. n |-> IF i \in E THEN <<>> ELSE <<hs[i]>>]
    BY <1>2, <1>3, <2>1
  <2> HIDE DEF D
  <2>3. FlattenSeq(s) \in Seq(T) /\ \E g : Picked(hs, E, n, FlattenSeq(s), g)
    BY <1>1, <2>2, Picks
  <2> QED
    BY <1>4, <2>1, <2>3
<1>6. PICK g : Picked(hs, D, n, q, g)
  BY <1>5
<1>7. DOMAIN q = 1 .. Len(q)
  BY <1>5, LenProperties
<1>8. ASSUME NEW i \in 1 .. n PROVE \E f \in Range(q) : Res(f) = Res(hs[i])
  <2> DEFINE E == {j \in 1 .. n : Res(hs[j]) = Res(hs[i])}
  <2>1. E \subseteq Nat /\ E # {}
    BY <1>1
  <2>2. PICK k \in E : \A j \in E : k <= j
    <3> HIDE DEF E
    <3> QED
      BY <2>1, Least
  <2>3. k \notin D
    <3>1. ASSUME NEW j \in 1 .. k - 1, Res(hs[j]) = Res(hs[k]) PROVE FALSE
      <4>1. j \in E
        BY <1>1, <3>1
      <4>2. k <= j /\ k \in Nat /\ j \in Nat
        BY <2>1, <2>2, <4>1
      <4> QED
        BY <3>1, <4>2
    <3> QED
      BY <3>1
  <2>4. PICK m \in 1 .. Len(q) : g[m] = k
    BY <1>6, <2>2, <2>3 DEF Picked
  <2>5. q[m] = hs[k]
    BY <1>6, <2>4 DEF Picked
  <2> QED
    BY <1>7, <2>2, <2>4, <2>5 DEF Range
<1> QED
  BY <1>2, <1>5, <1>8 DEF Range

\* Handles that are entered one by one, repeated or not.
LEMMA StepwiseRecords ==
  ASSUME BufOk, NEW r, NEW Y, Records(r, Y, {}), NEW by \in Nat, NEW ins \in Seq(Near(Y)), NEW y \in Near(Y),
         NEW q, q = Stepwise(r, by, ins, y)
  PROVE  Recording(r, q, Y)
<1> DEFINE S == Range(ins)
<1>1. r.st = Resting
  BY RecordsRested
<1>2. S \in SUBSET Near(Y)
  BY NearKnown
<1>3. PICK once : once = FirstOfHandle(ins)
  OBVIOUS
<1>4. PICK a : a = EnterAll(r, once, "SRV")
  OBVIOUS
<1>5. PICK b : b = Enter(a, y, "UAV")
  OBVIOUS
<1>6. PICK c : c = Dispatch(b, by, S, {y})
  OBVIOUS
<1>7. PICK d : d = Restore(c, <<y>>, Resting)
  OBVIOUS
<1>8. q = Restore(d, ins, Resting)
  BY <1>1, <1>3, <1>4, <1>5, <1>6, <1>7 DEF Stepwise, EnterEach
<1>9. once \in Seq(Near(Y)) /\ Range(once) = S
  BY <1>3, FirstOfHandleIs
<1>10. Kept(r, a, Y, {} \cup S)
  <2>1. "SRV" \in States
    BY DEF States
  <2>2. Kept(r, a, Y, {} \cup Range(once))
    BY <1>4, <1>9, <2>1, EnterRecords
  <2> QED
    BY <1>9, <2>2
<1>11. {} \cup S \subseteq Range(ins)
  OBVIOUS
<1> HIDE DEF S
<1>12. Kept(r, q, Y, {})
  BY <1>2, <1>5, <1>6, <1>7, <1>8, <1>10, <1>11, BetweenRecords
<1> QED
  BY <1>12 DEF Kept, Recording

\* One transition for each resource: the handles that were left out get a state too.
LEMMA PerResourceRecords ==
  ASSUME BufOk, NEW r, NEW Y, Records(r, Y, {}), NEW by \in Nat, NEW ins \in Seq(Near(Y)), NEW y \in Near(Y),
         NEW q, q = PerResource(r, by, ins, y)
  PROVE  Recording(r, q, Y)
<1>1. r.st = Resting
  BY RecordsRested
<1>2. Range(ins) \in SUBSET Near(Y)
  BY NearKnown
<1>3. PICK once : once = FirstOfResource(ins)
  OBVIOUS
<1>4. PICK a : a = EnterAll(r, once, "SRV")
  OBVIOUS
<1>5. PICK b : b = Enter(a, y, "UAV")
  OBVIOUS
<1>6. PICK c : c = Dispatch(b, by, Range(ins), {y})
  OBVIOUS
<1>7. PICK d : d = Restore(c, <<y>>, Resting)
  OBVIOUS
<1>8. PICK back : back = Restore(d, once, Resting)
  OBVIOUS
<1>9. once \in Seq(Near(Y)) /\ \A h \in Range(ins) : \E g \in Range(once) : Res(g) = Res(h)
  BY <1>3, FirstOfResourceIs
<1>10. Kept(r, a, Y, {} \cup Range(once))
  <2>1. "SRV" \in States
    BY DEF States
  <2> QED
    BY <1>4, <1>9, <2>1, EnterRecords
<1>11. {} \cup Range(once) \subseteq Range(once)
  OBVIOUS
<1>12. Kept(r, back, Y, {})
  BY <1>2, <1>5, <1>6, <1>7, <1>8, <1>9, <1>10, <1>11, BetweenRecords
<1>13. back.st = Resting
  BY <1>12, RecordsRested DEF Kept
<1>14. q = back
  <2> DEFINE same(h) == CHOOSE g \in Range(once) : Res(g) = Res(h)
  <2>1. q = [back EXCEPT !.st = [h \in DOMAIN @ |-> IF h \in Range(ins) THEN r.st[same(h)] ELSE @[h]]]
    BY <1>1, <1>3, <1>4, <1>5, <1>6, <1>7, <1>8 DEF PerResource
  <2>2. ASSUME NEW h \in Range(ins) PROVE same(h) \in Resources
    <3>1. \E g \in Range(once) : Res(g) = Res(h)
      BY <1>9
    <3>2. same(h) \in Range(once)
      BY <3>1
    <3>3. Range(once) \subseteq Near(Y) /\ \A g \in Near(Y) : g \in Resources
      BY <1>9, NearKnown, CellSpace DEF Near
    <3> QED
      BY <3>2, <3>3
  <2>3. \A h \in Range(ins) : r.st[same(h)] = "COMMON"
    BY <1>1, <2>2 DEF Resting
  <2> HIDE DEF same
  <2>4. DOMAIN back.st = Resources /\ \A h \in Resources : back.st[h] = "COMMON"
    BY <1>13 DEF Resting
  <2>5. [h \in DOMAIN back.st |-> IF h \in Range(ins) THEN r.st[same(h)] ELSE back.st[h]] = back.st
    BY <1>13, <2>3, <2>4 DEF Resting
  <2>6. back = [cmds |-> back.cmds, st |-> back.st, heaps |-> back.heaps]
    BY <1>12 DEF Kept, Records, Recorder
  <2> QED
    BY <2>1, <2>5, <2>6
<1> QED
  BY <1>12, <1>14 DEF Kept, Recording

\* A recorder on the way: its heaps include H.
Upon(H, q, Y, S) == H \subseteq q.heaps /\ Records(q, Y, S)

\* On the way, handles enter a state,
LEMMA UponEnter ==
  ASSUME BufOk, NEW H, NEW r, NEW Y, NEW S, Upon(H, r, Y, S), NEW hs \in Seq(Near(Y)), NEW s \in States,
         NEW q, q = EnterAll(r, hs, s)
  PROVE  Upon(H, q, Y, S \cup Range(hs))
<1>1. Kept(r, q, Y, S \cup Range(hs))
  BY EnterRecords DEF Upon
<1> QED
  BY <1>1 DEF Upon, Kept

\* go back,
LEMMA UponRestore ==
  ASSUME BufOk, NEW H, NEW r, NEW Y, NEW S, Upon(H, r, Y, S), NEW hs \in Seq(Near(Y)),
         NEW q, q = Restore(r, hs, Resting)
  PROVE  Upon(H, q, Y, S \ Range(hs))
<1>1. Kept(r, q, Y, S \ Range(hs))
  BY RestoreRecords DEF Upon
<1> QED
  BY <1>1 DEF Upon, Kept

\* a dispatch is recorded,
LEMMA UponRun ==
  ASSUME NEW H, NEW r, NEW Y, NEW S, Upon(H, r, Y, S), NEW by \in Nat, NEW in, in \subseteq CellsIn(Y),
         NEW out, out \subseteq CellsIn(Y), NEW q, q = Add(r, Run(by, in, out))
  PROVE  Upon(H, q, Y, S)
<1>1. Kept(r, q, Y, S)
  BY CellsInRun DEF Upon
<1> QED
  BY <1>1 DEF Upon, Kept

\* a UAV barrier is recorded.
LEMMA UponUav ==
  ASSUME BufOk, NEW H, NEW r, NEW Y, NEW S, Upon(H, r, Y, S), NEW h \in Near(Y),
         NEW q, q = Add(r, UavBarrier(Res(h)))
  PROVE  Upon(H, q, Y, S)
<1>1. PICK x : x = Res(h)
  OBVIOUS
<1>2. x \in Resources /\ x \in Y \cup r.heaps
  BY <1>1, CellSpace DEF Near
<1>3. PICK c : c = UavBarrier(x)
  OBVIOUS
<1>4. c \in Others(Y \cup r.heaps)
  BY <1>2, <1>3, UavOther
<1>5. q = Add(r, c)
  BY <1>1, <1>3
<1>6. Kept(r, q, Y, S)
  BY <1>4, <1>5, AddRecords DEF Upon
<1> QED
  BY <1>6 DEF Upon, Kept

\* Zeros into counters.
LEMMA UponZeros ==
  ASSUME BufOk, NEW H, NEW r, NEW Y, NEW S, Upon(H, r, Y, S), NEW by \in Nat, NEW k \in Nat,
         NEW hs \in Seq(Near(Y)), NEW q, q = ZeroCounters(r, by, k, hs)
  PROVE  Upon(H, q, Y, S \cup Range(hs))
<1>1. PICK a : a = EnterAll(r, hs, "COPY_DEST")
  OBVIOUS
<1>2. Upon(H, a, Y, S \cup Range(hs))
  <2>1. "COPY_DEST" \in States
    BY DEF States
  <2> QED
    BY <1>1, <2>1, UponEnter
<1>3. Records(a, Y, S \cup Range(hs)) /\ H \subseteq a.heaps
  BY <1>2 DEF Upon
<1>4. PICK z : z = ZeroHeap(k)
  OBVIOUS
<1>5. z \in Nat
  BY <1>4 DEF ZeroHeap
<1>6. PICK cs : cs = [i \in DOMAIN hs |-> Fill(by, z, FromStart(hs[i]))]
  OBVIOUS
<1>7. PICK Z : Z = {z}
  OBVIOUS
<1>8. q = [a EXCEPT !.cmds = @ \o cs, !.heaps = @ \cup Z]
  BY <1>1, <1>4, <1>6, <1>7 DEF ZeroCounters
<1> DEFINE X == Y \cup a.heaps \cup Z
<1>9. DOMAIN hs = 1 .. Len(hs) /\ Len(hs) \in Nat /\ \A i \in 1 .. Len(hs) : hs[i] \in Near(Y)
  BY LenProperties, ElementOfSeq
<1>10. ASSUME NEW i \in 1 .. Len(hs) PROVE Fill(by, z, FromStart(hs[i])) \in Others(X)
  <2>1. PICK f : f = FromStart(hs[i])
    OBVIOUS
  <2>2. f \subseteq CellsIn(Y)
    BY <1>9, <2>1, NearCells
  <2>3. f \in SUBSET Cells /\ ResourcesOf(f) \subseteq X /\ z \in X
    BY <1>7, <2>2 DEF CellsIn, ResourcesOf
  <2> HIDE DEF X
  <2>4. Fill(by, z, f) \in Others(X)
    BY <1>5, <2>3, FillOther
  <2> QED
    BY <2>1, <2>4
<1>11. cs \in Seq(Others(X))
  <2>1. cs \in [1 .. Len(hs) -> Others(X)]
    <3> HIDE DEF X
    <3> QED
      BY <1>6, <1>9, <1>10
  <2> HIDE DEF X
  <2> QED
    BY <1>9, <2>1, Mapped
<1>12. Z \in SUBSET Nat
  BY <1>5, <1>7
<1>13. Grown(a, q, Y, S \cup Range(hs), Z)
  BY <1>3, <1>8, <1>11, <1>12, MoreRecords
<1> QED
  BY <1>3, <1>13 DEF Grown, Upon

\* relu: its output ends in COMMON, whatever it was in.
LEMMA ReluRecords ==
  ASSUME BufOk, NEW r, NEW Y, Records(r, Y, {}), NEW by \in Nat, NEW x \in Near(Y), NEW y \in Near(Y),
         NEW a, a[1] = x, a[2] = y, NEW q, q = ReluInto(r, by, a)
  PROVE  Recording(r, q, Y)
<1>1. r.st = Resting
  BY RecordsRested
<1>2. PICK xs, ys : xs = <<x>> /\ ys = <<y>>
  OBVIOUS
<1>3. xs \in Seq(Near(Y)) /\ ys \in Seq(Near(Y)) /\ Range(xs) = {x} /\ Range(ys) = {y}
  BY <1>2, SmallSeq
<1>4. x \in Resources /\ {x} \in SUBSET Near(Y) /\ {y} \in SUBSET Near(Y)
  BY CellSpace DEF Near
<1>5. PICK b : b = EnterAll(r, xs, "SRV")
  OBVIOUS
<1>6. PICK c : c = EnterAll(b, ys, "UAV")
  OBVIOUS
<1>7. PICK d : d = Dispatch(c, by, {x}, {y})
  OBVIOUS
<1>8. PICK e : e = EnterAll(d, ys, "COMMON")
  OBVIOUS
<1>9. q = EnterAll(e, xs, "COMMON")
  BY <1>1, <1>2, <1>4, <1>5, <1>6, <1>7, <1>8 DEF ReluInto, Enter, Resting
<1>10. "SRV" \in States /\ "UAV" \in States
  BY DEF States
<1>11. Upon(r.heaps, r, Y, {})
  BY DEF Upon
<1>12. Upon(r.heaps, b, Y, {} \cup Range(xs))
  BY <1>3, <1>5, <1>10, <1>11, UponEnter
<1>13. Upon(r.heaps, c, Y, ({} \cup Range(xs)) \cup Range(ys))
  BY <1>3, <1>6, <1>10, <1>12, UponEnter
<1>14. Upon(r.heaps, d, Y, ({} \cup Range(xs)) \cup Range(ys))
  <2>1. Records(c, Y, ({} \cup Range(xs)) \cup Range(ys))
    BY <1>13 DEF Upon
  <2>2. Kept(c, d, Y, ({} \cup Range(xs)) \cup Range(ys))
    BY <1>4, <1>7, <2>1, DispatchRecords
  <2> QED
    BY <1>13, <2>2 DEF Upon, Kept
<1>15. e = Restore(d, ys, Resting)
  <2>1. DOMAIN d.st = Resources
    BY <1>14 DEF Upon, Records, Recorder
  <2> QED
    BY <1>8, <2>1 DEF EnterAll, Restore, Resting
<1>16. Upon(r.heaps, e, Y, (({} \cup Range(xs)) \cup Range(ys)) \ Range(ys))
  BY <1>3, <1>14, <1>15, UponRestore
<1>17. q = Restore(e, xs, Resting)
  <2>1. DOMAIN e.st = Resources
    BY <1>16 DEF Upon, Records, Recorder
  <2> QED
    BY <1>9, <2>1 DEF EnterAll, Restore, Resting
<1>18. Upon(r.heaps, q, Y, ((({} \cup Range(xs)) \cup Range(ys)) \ Range(ys)) \ Range(xs))
  BY <1>3, <1>16, <1>17, UponRestore
<1>19. ((({} \cup Range(xs)) \cup Range(ys)) \ Range(ys)) \ Range(xs) = {}
  OBVIOUS
<1> QED
  BY <1>18, <1>19 DEF Upon, Recording

\* NmsAndTopK with the cells of its two dispatches given.
NmsOver(r, by, c, i1, o1, i2, o2) ==
  LET s1 == Add(Add(r, UavBarrier(Res(c[1]))), UavBarrier(Res(c[2])))
      s2 == EnterAll(EnterAll(s1, <<c[1], c[2]>>, "SRV"), <<c[3]>>, "UAV")
      s3 == Add(s2, Run(by, i1, o1))
      s4 == EnterAll(EnterAll(Add(s3, UavBarrier(Res(c[3]))), <<c[3]>>, "SRV"), <<c[4], c[5]>>, "UAV")
      s5 == Add(s4, Run(by, i2, o2))
  IN  Restore(s5, Reverse(c), Resting)

\* Mark and compact: its five buffers, entered one after the other, are all brought back.
LEMMA NmsRecords ==
  ASSUME BufOk, NEW H, NEW r, NEW Y, NEW S, Upon(H, r, Y, S), NEW by \in Nat,
         NEW c \in Seq(Near(Y)), Len(c) = 5,
         NEW i1, i1 \subseteq CellsIn(Y), NEW o1, o1 \subseteq CellsIn(Y),
         NEW i2, i2 \subseteq CellsIn(Y), NEW o2, o2 \subseteq CellsIn(Y),
         NEW q, q = NmsOver(r, by, c, i1, o1, i2, o2)
  PROVE  Upon(H, q, Y, S \ Range(c))
<1>1. PICK c1, c2, c3, c4, c5 : c1 = c[1] /\ c2 = c[2] /\ c3 = c[3] /\ c4 = c[4] /\ c5 = c[5]
  OBVIOUS
<1>2. /\ c1 \in Near(Y) /\ c2 \in Near(Y) /\ c3 \in Near(Y) /\ c4 \in Near(Y) /\ c5 \in Near(Y)
      /\ {c1, c2, c3, c4, c5} \subseteq Range(c)
  <2>1. DOMAIN c = 1 .. 5 /\ \A i \in 1 .. 5 : c[i] \in Near(Y)
    BY ElementOfSeq, LenProperties
  <2> QED
    BY <1>1, <2>1 DEF Range
<1>3. PICK u, v, w : u = <<c1, c2>> /\ v = <<c3>> /\ w = <<c4, c5>>
  OBVIOUS
<1>4. /\ u \in Seq(Near(Y)) /\ v \in Seq(Near(Y)) /\ w \in Seq(Near(Y))
      /\ Range(u) = {c1, c2} /\ Range(v) = {c3} /\ Range(w) = {c4, c5}
  BY <1>2, <1>3, SmallSeq
<1>5. PICK s0 : s0 = Add(r, UavBarrier(Res(c1)))
  OBVIOUS
<1>6. PICK s1 : s1 = Add(s0, UavBarrier(Res(c2)))
  OBVIOUS
<1>7. PICK t1 : t1 = EnterAll(s1, u, "SRV")
  OBVIOUS
<1>8. PICK s2 : s2 = EnterAll(t1, v, "UAV")
  OBVIOUS
<1>9. PICK s3 : s3 = Add(s2, Run(by, i1, o1))
  OBVIOUS
<1>10. PICK t3 : t3 = Add(s3, UavBarrier(Res(c3)))
  OBVIOUS
<1>11. PICK t4 : t4 = EnterAll(t3, v, "SRV")
  OBVIOUS
<1>12. PICK s4 : s4 = EnterAll(t4, w, "UAV")
  OBVIOUS
<1>13. PICK s5 : s5 = Add(s4, Run(by, i2, o2))
  OBVIOUS
<1>14. PICK back : back = Reverse(c)
  OBVIOUS
<1>15. q = Restore(s5, back, Resting)
  BY <1>1, <1>3, <1>5, <1>6, <1>7, <1>8, <1>9, <1>10, <1>11, <1>12, <1>13, <1>14 DEF NmsOver
<1>16. "SRV" \in States /\ "UAV" \in States
  BY DEF States
<1>17. Upon(H, s0, Y, S)
  BY <1>2, <1>5, UponUav
<1>18. Upon(H, s1, Y, S)
  BY <1>2, <1>6, <1>17, UponUav
<1>19. Upon(H, t1, Y, S \cup Range(u))
  BY <1>4, <1>7, <1>16, <1>18, UponEnter
<1>20. Upon(H, s2, Y, (S \cup Range(u)) \cup Range(v))
  BY <1>4, <1>8, <1>16, <1>19, UponEnter
<1>21. Upon(H, s3, Y, (S \cup Range(u)) \cup Range(v))
  BY <1>9, <1>20, UponRun
<1>22. Upon(H, t3, Y, (S \cup Range(u)) \cup Range(v))
  BY <1>2, <1>10, <1>21, UponUav
<1>23. Upon(H, t4, Y, ((S \cup Range(u)) \cup Range(v)) \cup Range(v))
  BY <1>4, <1>11, <1>16, <1>22, UponEnter
<1>24. Upon(H, s4, Y, (((S \cup Range(u)) \cup Range(v)) \cup Range(v)) \cup Range(w))
  BY <1>4, <1>12, <1>16, <1>23, UponEnter
<1>25. Upon(H, s5, Y, (((S \cup Range(u)) \cup Range(v)) \cup Range(v)) \cup Range(w))
  BY <1>13, <1>24, UponRun
<1>26. back \in Seq(Near(Y)) /\ Range(back) = Range(c)
  BY <1>14, ReverseRange
<1>27. Upon(H, q, Y, ((((S \cup Range(u)) \cup Range(v)) \cup Range(v)) \cup Range(w)) \ Range(back))
  BY <1>15, <1>25, <1>26, UponRestore
<1>28. ((((S \cup Range(u)) \cup Range(v)) \cup Range(v)) \cup Range(w)) \ Range(back) \subseteq S \ Range(c)
  BY <1>2, <1>4, <1>26
<1> QED
  BY <1>27, <1>28, RecordsLess DEF Upon

\* The zeros of the counters zs, then the states of a decode.
LEMMA DecodeEnters ==
  ASSUME BufOk, NEW H, NEW r, NEW Y, NEW S, Upon(H, r, Y, S), NEW by \in Nat, NEW k \in Nat,
         NEW zs \in Seq(Near(Y)), NEW xs \in Seq(Near(Y)), NEW ys \in Seq(Near(Y)),
         NEW in, in \subseteq CellsIn(Y), NEW out, out \subseteq CellsIn(Y),
         NEW q, q = Add(EnterAll(EnterAll(ZeroCounters(r, by, k, zs), xs, "SRV"), ys, "UAV"), Run(by, in, out))
  PROVE  Upon(H, q, Y, S \cup Range(zs) \cup Range(xs) \cup Range(ys))
<1>1. PICK z : z = ZeroCounters(r, by, k, zs)
  OBVIOUS
<1>2. PICK a : a = EnterAll(z, xs, "SRV")
  OBVIOUS
<1>3. PICK b : b = EnterAll(a, ys, "UAV")
  OBVIOUS
<1>4. "SRV" \in States /\ "UAV" \in States
  BY DEF States
<1>5. Upon(H, z, Y, S \cup Range(zs))
  BY <1>1, UponZeros
<1>6. Upon(H, a, Y, S \cup Range(zs) \cup Range(xs))
  BY <1>2, <1>4, <1>5, UponEnter
<1>7. Upon(H, b, Y, S \cup Range(zs) \cup Range(xs) \cup Range(ys))
  BY <1>3, <1>4, <1>6, UponEnter
<1>8. q = Add(b, Run(by, in, out))
  BY <1>1, <1>2, <1>3
<1> QED
  BY <1>7, <1>8, UponRun

\* The operands of a call that takes k.
LEMMA Operands ==
  ASSUME NEW T, NEW a \in Seq(T), NEW k \in Nat, Len(a) = k
  PROVE  (\A i \in 1 .. k : a[i] \in T) /\ DOMAIN a = 1 .. k /\ (k # 0 => a # <<>>)
<1>1. \A i \in 1 .. k : a[i] \in T
  BY ElementOfSeq
<1>2. DOMAIN a = 1 .. k
  BY LenProperties
<1>3. ASSUME k # 0, a = <<>> PROVE FALSE
  <2>1. Len(<<>>) = 0
    OBVIOUS
  <2> QED
    BY ONLY <1>3, <2>1, Len(a) = k
<1> QED
  BY <1>1, <1>2, <1>3

\* The decode with a filter.
LEMMA DecodeFilterRecords ==
  ASSUME BufOk, NEW r, NEW Y, Records(r, Y, {}), NEW by \in Nat, NEW k \in Nat,
         NEW a \in Seq(Near(Y)), Len(a) = 3, NEW q, q = DecodeFilter(r, by, k, a)
  PROVE  Recording(r, q, Y)
<1>1. r.st = Resting
  BY RecordsRested
<1>2. PICK a1, a2, a3 : a1 = a[1] /\ a2 = a[2] /\ a3 = a[3]
  OBVIOUS
<1>3. a1 \in Near(Y) /\ a2 \in Near(Y) /\ a3 \in Near(Y)
  <2>1. \A i \in 1 .. 3 : a[i] \in Near(Y)
    BY Operands
  <2> QED
    BY <1>2, <2>1
<1>4. PICK zs, xs, ys, back : zs = <<a3>> /\ xs = <<a1>> /\ ys = <<a2, a3>> /\ back = <<a3, a2, a1>>
  OBVIOUS
<1>5. /\ zs \in Seq(Near(Y)) /\ xs \in Seq(Near(Y)) /\ ys \in Seq(Near(Y)) /\ back \in Seq(Near(Y))
      /\ Range(zs) = {a3} /\ Range(xs) = {a1} /\ Range(ys) = {a2, a3} /\ Range(back) = {a3, a2, a1}
  BY <1>3, <1>4, SmallSeq
<1>6. PICK in, out : in = FromStart(a1) /\ out = FromStart(a2) \cup FromStart(a3)
  OBVIOUS
<1>7. in \subseteq CellsIn(Y) /\ out \subseteq CellsIn(Y)
  BY <1>3, <1>6, NearCells
<1>8. PICK d : d = Add(EnterAll(EnterAll(ZeroCounters(r, by, k, zs), xs, "SRV"), ys, "UAV"), Run(by, in, out))
  OBVIOUS
<1>9. q = Restore(d, back, Resting)
  BY <1>1, <1>2, <1>4, <1>6, <1>8 DEF DecodeFilter
<1>10. PICK H, S : H = r.heaps /\ S = {}
  OBVIOUS
<1>11. Upon(H, r, Y, S)
  BY <1>10 DEF Upon
<1>12. Upon(H, d, Y, S \cup Range(zs) \cup Range(xs) \cup Range(ys))
  BY <1>5, <1>7, <1>8, <1>11, DecodeEnters
<1>13. Upon(H, q, Y, (S \cup Range(zs) \cup Range(xs) \cup Range(ys)) \ Range(back))
  BY <1>5, <1>9, <1>12, UponRestore
<1>14. (S \cup Range(zs) \cup Range(xs) \cup Range(ys)) \ Range(back) = {}
  BY <1>5, <1>10
<1> QED
  BY <1>10, <1>13, <1>14 DEF Upon, Recording

\* The decode with suppression.
LEMMA DecodeNmsRecords ==
  ASSUME BufOk, NEW r, NEW Y, Records(r, Y, {}), NEW by \in Nat, NEW k \in Nat,
         NEW a \in Seq(Near(Y)), Len(a) = 6, NEW q, q = DecodeNms(r, by, k, a)
  PROVE  Recording(r, q, Y)
<1>1. r.st = Resting
  BY RecordsRested
<1>2. PICK a1, a2, a3, a6 : a1 = a[1] /\ a2 = a[2] /\ a3 = a[3] /\ a6 = a[6]
  OBVIOUS
<1>3. a1 \in Near(Y) /\ a2 \in Near(Y) /\ a3 \in Near(Y) /\ a6 \in Near(Y)
  <2>1. \A i \in 1 .. 6 : a[i] \in Near(Y)
    BY Operands
  <2> QED
    BY <1>2, <2>1
<1>4. PICK c : c = Tail(a)
  OBVIOUS
<1>5. /\ c \in Seq(Near(Y)) /\ Len(c) = 5 /\ \A i \in 1 .. 5 : c[i] = a[i + 1] /\ c[i] \in Near(Y)
  <2>1. a # <<>>
    <3>1. Len(<<>>) = 0
      OBVIOUS
    <3> QED
      BY ONLY <3>1, Len(a) = 6
  <2>2. /\ Tail(a) \in Seq(Near(Y)) /\ Len(Tail(a)) = Len(a) - 1
        /\ \A i \in 1 .. Len(Tail(a)) : Tail(a)[i] = a[i + 1]
    BY <2>1, HeadTailProperties
  <2>3. c \in Seq(Near(Y)) /\ Len(c) = 5 /\ \A i \in 1 .. 5 : c[i] = a[i + 1]
    <3>1. Len(c) = Len(a) - 1 /\ \A i \in 1 .. Len(c) : c[i] = a[i + 1]
      BY ONLY <1>4, <2>2
    <3>2. Len(c) = 5
      BY ONLY <3>1, Len(a) = 6
    <3> QED
      BY ONLY <1>4, <2>2, <3>1, <3>2
  <2> QED
    BY <2>3, ElementOfSeq
<1>6. a2 \in Range(c) /\ a3 \in Range(c) /\ a6 \in Range(c)
  <2>1. DOMAIN c = 1 .. 5 /\ c[1] = a2 /\ c[2] = a3 /\ c[5] = a6
    BY <1>2, <1>5, LenProperties
  <2> QED
    BY <2>1 DEF Range
<1>7. PICK zs, xs, ys : zs = <<a3, a6>> /\ xs = <<a1>> /\ ys = <<a2, a3>>
  OBVIOUS
<1>8. /\ zs \in Seq(Near(Y)) /\ xs \in Seq(Near(Y)) /\ ys \in Seq(Near(Y))
      /\ Range(zs) = {a3, a6} /\ Range(xs) = {a1} /\ Range(ys) = {a2, a3}
  BY <1>3, <1>7, SmallSeq
<1>9. PICK in, out : in = FromStart(a1) /\ out = FromStart(a2) \cup FromStart(a3)
  OBVIOUS
<1>10. in \subseteq CellsIn(Y) /\ out \subseteq CellsIn(Y)
  BY <1>3, <1>9, NearCells
<1>11. PICK d : d = Add(EnterAll(EnterAll(ZeroCounters(r, by, k, zs), xs, "SRV"), ys, "UAV"), Run(by, in, out))
  OBVIOUS
<1>12. PICK i1, o1, i2, o2 :
         /\ i1 = FromStart(c[1]) \cup FromStart(c[2]) /\ o1 = FromStart(c[3])
         /\ i2 = UNION {FromStart(c[i]) : i \in {1, 2, 3}} /\ o2 = FromStart(c[4]) \cup FromStart(c[5])
  OBVIOUS
<1>13. i1 \subseteq CellsIn(Y) /\ o1 \subseteq CellsIn(Y) /\ i2 \subseteq CellsIn(Y) /\ o2 \subseteq CellsIn(Y)
  <2>1. \A i \in 1 .. 5 : FromStart(c[i]) \subseteq CellsIn(Y)
    BY <1>5, NearCells
  <2> QED
    BY <1>12, <2>1
<1>14. PICK e : e = NmsOver(d, by, c, i1, o1, i2, o2)
  OBVIOUS
<1>15. q = Restore(e, xs, Resting)
  BY <1>1, <1>2, <1>4, <1>7, <1>9, <1>11, <1>12, <1>14 DEF DecodeNms, NmsAndTopK, NmsOver
<1>16. PICK H, S : H = r.heaps /\ S = {}
  OBVIOUS
<1>17. Upon(H, r, Y, S)
  BY <1>16 DEF Upon
<1>18. Upon(H, d, Y, S \cup Range(zs) \cup Range(xs) \cup Range(ys))
  BY <1>8, <1>10, <1>11, <1>17, DecodeEnters
<1>19. Upon(H, e, Y, (S \cup Range(zs) \cup Range(xs) \cup Range(ys)) \ Range(c))
  BY <1>5, <1>13, <1>14, <1>18, NmsRecords
<1>20. Upon(H, q, Y, ((S \cup Range(zs) \cup Range(xs) \cup Range(ys)) \ Range(c)) \ Range(xs))
  BY <1>8, <1>15, <1>19, UponRestore
<1>21. ((S \cup Range(zs) \cup Range(xs) \cup Range(ys)) \ Range(c)) \ Range(xs) = {}
  BY <1>6, <1>8, <1>16
<1> QED
  BY <1>16, <1>20, <1>21 DEF Upon, Recording

\* A part of the operands.
LEMMA Part ==
  ASSUME NEW T, NEW a \in Seq(T), NEW m \in Nat, NEW n \in Nat, m >= 1, n <= Len(a),
         NEW p, p = SubSeq(a, m, n)
  PROVE  p \in Seq(T) /\ Len(p) = (IF m <= n THEN (n - m) + 1 ELSE 0)
<1>1. DOMAIN a = 1 .. Len(a) /\ Len(a) \in Nat /\ \A i \in 1 .. Len(a) : a[i] \in T
  BY LenProperties, ElementOfSeq
<1>2. \A i \in m .. n : a[i] \in T
  BY <1>1
<1>3. m \in Int /\ n \in Int
  OBVIOUS
<1>4. /\ SubSeq(a, m, n) \in Seq(T)
      /\ Len(SubSeq(a, m, n)) = IF m <= n THEN n - m + 1 ELSE 0
      /\ \A i \in 1 .. n - m + 1 : SubSeq(a, m, n)[i] = a[m + i - 1]
  BY ONLY <1>2, <1>3, SubSeqProperties
<1> QED
  BY <1>4

\* The decode of any number of heads.
LEMMA HeadDecodeNmsRecords ==
  ASSUME BufOk, NEW r, NEW Y, Records(r, Y, {}), NEW by \in Nat, NEW n \in Nat,
         NEW a \in Seq(Near(Y)), Len(a) \in Nat \ (0 .. 5), NEW q, q = HeadDecodeNms(r, by, n, a)
  PROVE  Recording(r, q, Y)
<1>1. r.st = Resting
  BY RecordsRested
<1>2. PICK k : k = Len(a) - 5
  OBVIOUS
<1>3. PICK heads, c : heads = SubSeq(a, 1, k) /\ c = SubSeq(a, k + 1, k + 5)
  OBVIOUS
<1>4. k \in Nat /\ k >= 1 /\ k + 5 = Len(a)
  BY <1>2
<1>5. heads \in Seq(Near(Y)) /\ Len(heads) = k /\ c \in Seq(Near(Y)) /\ Len(c) = 5
  <2>1. PICK l : l = k + 1
    OBVIOUS
  <2>2. PICK u : u = k + 5
    OBVIOUS
  <2>3. l \in Nat /\ u \in Nat /\ l >= 1 /\ u <= Len(a) /\ k <= Len(a) /\ l <= u /\ (u - l) + 1 = 5 /\ (k - 1) + 1 = k
    BY <1>4, <2>1, <2>2
  <2>4. c = SubSeq(a, l, u)
    BY <1>3, <2>1, <2>2
  <2>5. c \in Seq(Near(Y)) /\ Len(c) = (IF l <= u THEN (u - l) + 1 ELSE 0)
    BY <2>3, <2>4, Part
  <2>6. heads \in Seq(Near(Y)) /\ Len(heads) = (IF 1 <= k THEN (k - 1) + 1 ELSE 0)
    BY <1>3, <1>4, <2>3, Part
  <2> QED
    BY <1>4, <2>3, <2>5, <2>6
<1>6. (\A i \in 1 .. k : heads[i] \in Near(Y)) /\ (\A i \in 1 .. 5 : c[i] \in Near(Y)) /\ DOMAIN c = 1 .. 5
  <2>1. \A i \in 1 .. k : heads[i] \in Near(Y)
    BY <1>4, <1>5, Operands
  <2>2. PICK l : l = 5
    OBVIOUS
  <2>3. (\A i \in 1 .. l : c[i] \in Near(Y)) /\ DOMAIN c = 1 .. l
    <3>1. c \in Seq(Near(Y)) /\ l \in Nat /\ Len(c) = l
      BY ONLY <1>5, <2>2
    <3> QED
      BY ONLY <3>1, Operands
  <2> QED
    BY <2>1, <2>2, <2>3
<1>7. PICK once : once = FirstOfHandle(heads)
  OBVIOUS
<1>8. once \in Seq(Near(Y)) /\ Range(once) = Range(heads)
  BY <1>5, <1>7, FirstOfHandleIs
<1>9. PICK b : b = EnterAll(r, once, "SRV")
  OBVIOUS
<1>10. PICK zs, xs : zs = <<c[2], c[5]>> /\ xs = <<c[1], c[2]>>
  OBVIOUS
<1>11. /\ zs \in Seq(Near(Y)) /\ xs \in Seq(Near(Y))
       /\ Range(zs) = {c[2], c[5]} /\ Range(xs) = {c[1], c[2]}
  BY <1>6, <1>10, SmallSeq
<1>12. PICK in, out : in = UNION {Elements(heads[i]) : i \in 1 .. k} /\ out = Elements(c[1]) \cup Elements(c[2])
  OBVIOUS
<1>13. in \subseteq CellsIn(Y) /\ out \subseteq CellsIn(Y)
  BY <1>6, <1>12, NearCells
<1>14. PICK z : z = ZeroCounters(b, by, n, zs)
  OBVIOUS
<1>15. PICK e : e = EnterAll(z, xs, "UAV")
  OBVIOUS
<1>16. PICK d : d = Add(e, Run(by, in, out))
  OBVIOUS
<1>17. PICK i1, o1, i2, o2 :
         /\ i1 = Elements(c[1]) \cup Elements(c[2]) /\ o1 = Elements(c[3])
         /\ i2 = UNION {Elements(c[i]) : i \in {1, 2, 3}} /\ o2 = Elements(c[4]) \cup Elements(c[5])
  OBVIOUS
<1>18. i1 \subseteq CellsIn(Y) /\ o1 \subseteq CellsIn(Y) /\ i2 \subseteq CellsIn(Y) /\ o2 \subseteq CellsIn(Y)
  <2>1. \A i \in 1 .. 5 : Elements(c[i]) \subseteq CellsIn(Y)
    BY <1>6, NearCells
  <2> QED
    BY <1>17, <2>1
<1>19. PICK f : f = NmsOver(d, by, c, i1, o1, i2, o2)
  OBVIOUS
<1>20. q = Restore(f, heads, Resting)
  BY <1>1, <1>2, <1>3, <1>7, <1>9, <1>10, <1>12, <1>14, <1>15, <1>16, <1>17, <1>19
     DEF HeadDecodeNms, EnterEach, NmsAndTopK, NmsOver
<1>21. "SRV" \in States /\ "UAV" \in States
  BY DEF States
<1>22. PICK H, S : H = r.heaps /\ S = {}
  OBVIOUS
<1>23. Upon(H, r, Y, S)
  BY <1>22 DEF Upon
<1>24. Upon(H, b, Y, S \cup Range(once))
  BY <1>8, <1>9, <1>21, <1>23, UponEnter
<1>25. Upon(H, z, Y, (S \cup Range(once)) \cup Range(zs))
  BY <1>11, <1>14, <1>24, UponZeros
<1>26. Upon(H, e, Y, ((S \cup Range(once)) \cup Range(zs)) \cup Range(xs))
  BY <1>11, <1>15, <1>21, <1>25, UponEnter
<1>27. Upon(H, d, Y, ((S \cup Range(once)) \cup Range(zs)) \cup Range(xs))
  BY <1>13, <1>16, <1>26, UponRun
<1>28. Upon(H, f, Y, (((S \cup Range(once)) \cup Range(zs)) \cup Range(xs)) \ Range(c))
  BY <1>5, <1>18, <1>19, <1>27, NmsRecords
<1>29. Upon(H, q, Y, ((((S \cup Range(once)) \cup Range(zs)) \cup Range(xs)) \ Range(c)) \ Range(heads))
  BY <1>5, <1>20, <1>28, UponRestore
<1>30. ((((S \cup Range(once)) \cup Range(zs)) \cup Range(xs)) \ Range(c)) \ Range(heads) = {}
  <2>1. c[1] \in Range(c) /\ c[2] \in Range(c) /\ c[5] \in Range(c)
    BY <1>6 DEF Range
  <2> QED
    BY <1>8, <1>11, <1>22, <2>1
<1> QED
  BY <1>22, <1>29, <1>30 DEF Upon, Recording

\* Inputs and output of a call with at least one input.
LEMMA FrontLast ==
  ASSUME NEW T, NEW a \in Seq(T), Len(a) \in Nat \ {0}
  PROVE  Front(a) \in Seq(T) /\ Last(a) \in T
<1>1. PICK n : n = Len(a) - 1
  OBVIOUS
<1>2. n \in Nat /\ n <= Len(a)
  BY <1>1
<1>3. PICK p : p = Front(a)
  OBVIOUS
<1>4. p = SubSeq(a, 1, n)
  BY <1>1, <1>3 DEF Front
<1>5. p \in Seq(T)
  BY <1>2, <1>4, Part
<1> QED
  BY <1>3, <1>5, Operands DEF Last

\* Whatever is dispatched, the handles rest when it is recorded.
LEMMA RecordedRecords ==
  ASSUME BufOk, NEW r, NEW Y, Records(r, Y, {}), NEW kind, NEW by \in Nat, NEW n \in Nat,
         NEW a \in Seq(Near(Y)), Len(a) \in Arity(kind), NEW q, q = Recorded(r, kind, by, n, a)
  PROVE  Recording(r, q, Y)
<1>1. CASE kind = "relu"
  <2>1. Len(a) = 2
    BY <1>1 DEF Arity
  <2>2. a[1] \in Near(Y) /\ a[2] \in Near(Y)
    BY <2>1, Operands
  <2>3. q = ReluInto(r, by, a)
    BY <1>1 DEF Recorded
  <2> QED
    BY <2>2, <2>3, ReluRecords
<1>2. CASE kind \in {"unary", "table"}
  <2>1. Len(a) = 2
    BY <1>2 DEF Arity
  <2>2. a[1] \in Near(Y) /\ a[2] \in Near(Y)
    BY <2>1, Operands
  <2>3. PICK ins : ins = <<a[1]>>
    OBVIOUS
  <2>4. q = Plain(r, by, ins, a[2])
    BY <1>2, <2>3 DEF Recorded, UnaryInto, TableInto
  <2>5. ins \in Seq(Near(Y))
    BY <2>2, <2>3, SmallSeq
  <2>6. Kept(r, q, Y, {})
    BY <2>2, <2>4, <2>5, PlainRecords
  <2> QED
    BY <2>6 DEF Kept, Recording
<1>3. CASE kind = "binary"
  <2>1. Len(a) = 3
    BY <1>3 DEF Arity
  <2>2. a[1] \in Near(Y) /\ a[2] \in Near(Y) /\ a[3] \in Near(Y)
    BY <2>1, Operands
  <2>3. PICK ins : ins = <<a[1], a[2]>>
    OBVIOUS
  <2>4. q = Plain(r, by, ins, a[3])
    BY <1>3, <2>3 DEF Recorded, BinaryInto
  <2>5. ins \in Seq(Near(Y))
    BY <2>2, <2>3, SmallSeq
  <2>6. Kept(r, q, Y, {})
    BY <2>2, <2>4, <2>5, PlainRecords
  <2> QED
    BY <2>6 DEF Kept, Recording
<1>4. CASE kind \in {"conv2d", "conv_silu"}
  <2>1. Len(a) = 4
    BY <1>4 DEF Arity
  <2>2. a[1] \in Near(Y) /\ a[2] \in Near(Y) /\ a[3] \in Near(Y) /\ a[4] \in Near(Y)
    <3>1. \A i \in 1 .. 4 : a[i] \in Near(Y)
      BY <2>1, Operands
    <3> QED
      BY <3>1
  <2>3. PICK ins : ins = <<a[1], a[2], a[3]>>
    OBVIOUS
  <2>4. q = Plain(r, by, ins, a[4])
    BY <1>4, <2>3 DEF Recorded, Conv2dInto, ConvSiluInto
  <2>5. ins \in Seq(Near(Y))
    BY <2>2, <2>3, SmallSeq
  <2>6. Kept(r, q, Y, {})
    BY <2>2, <2>4, <2>5, PlainRecords
  <2> QED
    BY <2>6 DEF Kept, Recording
<1>5. CASE kind \in {"c2f", "sppf", "concat", "concat_conv", "concat_int8", "concat_residual"}
  <2>1. Len(a) \in Nat \ {0}
    BY <1>5 DEF Arity
  <2>2. PICK ins, y : ins = Front(a) /\ y = Last(a)
    OBVIOUS
  <2>3. ins \in Seq(Near(Y)) /\ y \in Near(Y)
    BY <2>1, <2>2, FrontLast
  <2>4. CASE kind \in {"c2f", "sppf"}
    <3>1. q = Stepwise(r, by, ins, y)
      BY <2>2, <2>4 DEF Recorded, C2fInto, SppfInto
    <3> QED
      BY <2>3, <3>1, StepwiseRecords
  <2>5. CASE kind \notin {"c2f", "sppf"}
    <3>1. q = PerResource(r, by, ins, y)
      BY <1>5, <2>2, <2>5 DEF Recorded, ConcatInto, ConcatConv1x1Into, ConcatConvInt8Into, ConcatResidualInto
    <3> QED
      BY <2>3, <3>1, PerResourceRecords
  <2> QED
    BY <2>4, <2>5
<1>6. CASE kind = "decode_filter"
  <2>1. Len(a) = 3 /\ q = DecodeFilter(r, by, n, a)
    BY <1>6 DEF Arity, Recorded
  <2> QED
    BY <2>1, DecodeFilterRecords
<1>7. CASE kind = "decode_nms"
  <2>1. Len(a) = 6 /\ q = DecodeNms(r, by, n, a)
    BY <1>7 DEF Arity, Recorded
  <2> QED
    BY <2>1, DecodeNmsRecords
<1>8. CASE kind = "head_nms"
  <2>1. Len(a) \in Nat \ (0 .. 5) /\ q = HeadDecodeNms(r, by, n, a)
    BY <1>8 DEF Arity, Recorded
  <2> QED
    BY <2>1, HeadDecodeNmsRecords
<1> QED
  BY <1>1, <1>2, <1>3, <1>4, <1>5, <1>6, <1>7, <1>8 DEF Arity

------------------------------------------------------------------------------
(* Lists                                                                      *)

\* A list that takes resources at rest to resources at rest.
Rests(cmds) ==
  \A m, by : m \in Machine(Resources, Cells) /\ by \in Nat /\ Rested(m) => Rested(Ran(m, cmds, by))

\* Lists that touch what is in X and leave the resources at rest.
RestingLists(X) == {s \in Seq(BatchCommands(X)) : Rests(s)}

\* A list may touch more.
LEMMA ListsIn ==
  ASSUME NEW X, NEW Y, X \subseteq Y, NEW s \in RestingLists(X)
  PROVE  s \in RestingLists(Y)
BY CommandsIn DEF RestingLists

\* What a call has recorded is a list that rests.
LEMMA RecordedList ==
  ASSUME BufOk, NEW r, NEW q, NEW Y, Recording(r, q, Y)
  PROVE  q.cmds \in RestingLists(Y \cup q.heaps) /\ q.st = Resting /\ q.heaps \in SUBSET Nat
<1>1. Records(q, Y, {})
  BY DEF Recording
<1>2. q.st = Resting
  BY <1>1, RecordsRested
<1>3. q.cmds \in Seq(BatchCommands(Y \cup q.heaps)) /\ q.heaps \in SUBSET Nat /\ Tracks(q)
  BY <1>1 DEF Records, Recorder
<1>4. Rests(q.cmds)
  <2> SUFFICES ASSUME NEW m, NEW by, m \in Machine(Resources, Cells) /\ by \in Nat /\ Rested(m)
               PROVE  Rested(Ran(m, q.cmds, by))
    BY DEF Rests
  <2>1. Follows(Ran(m, q.cmds, by).state, q.st)
    BY <1>3 DEF Tracks
  <2>2. \A h \in Known : q.st[h] = "COMMON"
    BY <1>2, CellSpace DEF Resting
  <2> QED
    BY <2>1, <2>2 DEF Follows, Rested
<1> QED
  BY <1>2, <1>3, <1>4 DEF RestingLists

\* The empty list rests,
LEMMA EmptyList ==
  ASSUME NEW X
  PROVE  <<>> \in RestingLists(X)
<1>1. <<>> \in Seq(BatchCommands(X))
  OBVIOUS
<1>2. Rests(<<>>)
  BY RanNone DEF Rests
<1> QED
  BY <1>1, <1>2 DEF RestingLists

\* one list behind another rests,
LEMMA JoinedLists ==
  ASSUME NEW X, NEW s \in RestingLists(X), NEW t \in RestingLists(X)
  PROVE  s \o t \in RestingLists(X)
<1>1. s \in Seq(BatchCommands(X)) /\ t \in Seq(BatchCommands(X)) /\ Rests(s) /\ Rests(t)
  BY DEF RestingLists
<1>2. s \o t \in Seq(BatchCommands(X))
  BY <1>1, ConcatProperties
<1>3. ASSUME NEW m, NEW by, m \in Machine(Resources, Cells), by \in Nat, Rested(m)
      PROVE  Rested(Ran(m, s \o t, by))
  <2>1. PICK p : p = Ran(m, s, by)
    OBVIOUS
  <2>2. p \in Machine(Resources, Cells)
    BY <1>1, <1>3, <2>1, AnyRun
  <2>3. Rested(p)
    BY <1>1, <1>3, <2>1 DEF Rests
  <2>4. Rested(Ran(p, t, by))
    BY <1>1, <1>3, <2>2, <2>3 DEF Rests
  <2>5. Ran(m, s \o t, by) = Ran(p, t, by)
    BY <1>1, <2>1, RanConcat
  <2> QED
    BY <2>4, <2>5
<1>4. Rests(s \o t)
  BY <1>3 DEF Rests
<1> QED
  BY <1>2, <1>4 DEF RestingLists

\* and so does any number of them.
LEMMA FlatLists ==
  ASSUME NEW X, NEW n \in Nat, NEW v \in [1 .. n -> RestingLists(X)]
  PROVE  FlattenSeq(v) \in RestingLists(X)
<1> DEFINE T == BatchCommands(X)
           P == [k \in 0 .. n |-> RestingLists(X)]
<1>1. \A i \in 1 .. n : v[i] \in RestingLists(X) /\ v[i] \in Seq(T)
  BY DEF RestingLists
<1>2. v \in Seq(Seq(T)) /\ Len(v) = n
  <2>1. v \in [1 .. n -> Seq(T)]
    BY <1>1
  <2> HIDE DEF T
  <2> QED
    BY <2>1, Mapped
<1>3. <<>> \in P[0]
  BY EmptyList
<1>4. ASSUME NEW i \in 1 .. Len(v), NEW q \in P[i - 1], q \in Seq(T) PROVE q \o v[i] \in P[i]
  <2>1. i \in 0 .. n /\ i - 1 \in 0 .. n /\ i \in 1 .. n
    BY <1>2, <1>4
  <2>2. q \in RestingLists(X) /\ v[i] \in RestingLists(X)
    BY <1>1, <2>1
  <2>3. q \o v[i] \in RestingLists(X)
    BY <2>2, JoinedLists
  <2> QED
    BY <2>1, <2>3
<1>5. FlattenSeq(v) \in Seq(T) /\ FlattenSeq(v) \in P[Len(v)]
  <2> HIDE DEF P, T
  <2> QED
    BY <1>2, <1>3, <1>4, FlattenStages
<1> QED
  BY <1>2, <1>5

\* A copy of a heap into a resource: to COPY_DEST, the copy, back.
LEMMA CopyList ==
  ASSUME NEW X, NEW x \in Resources, x \in X, NEW by \in Nat, NEW heap \in Nat, heap \in X,
         NEW out \in SUBSET Cells, ResourcesOf(out) \subseteq {x},
         NEW s, s = <<Barrier(x, "COMMON", "COPY_DEST"), Fill(by, heap, out), Barrier(x, "COPY_DEST", "COMMON")>>
  PROVE  s \in RestingLists(X)
<1>1. PICK b, f, e : b = Barrier(x, "COMMON", "COPY_DEST") /\ f = Fill(by, heap, out)
                     /\ e = Barrier(x, "COPY_DEST", "COMMON")
  OBVIOUS
<1>2. b \in TransitionsOn(Resources) /\ e \in TransitionsOn(Resources)
  BY <1>1 DEF TransitionsOn, States
<1>3. b.res = x /\ e.res = x /\ e.to = "COMMON" /\ b.op = "transition" /\ e.op = "transition"
  BY <1>1 DEF Barrier
<1>4. b \in BatchCommands(X) /\ e \in BatchCommands(X)
  BY <1>2, <1>3 DEF BatchCommands, Commands, Touched
<1>5. f \in BatchCommands(X) /\ f.op # "transition"
  BY <1>1, FillOther DEF Others
<1>0. PICK T : T = BatchCommands(X)
  OBVIOUS
<1>6. PICK u, v : u = <<b>> /\ v = Append(u, f)
  OBVIOUS
<1>7. b \in T /\ f \in T /\ e \in T /\ u \in Seq(T) /\ v \in Seq(T) /\ s = Append(v, e) /\ s \in Seq(T)
  <2>1. b \in T /\ f \in T /\ e \in T
    BY <1>0, <1>4, <1>5
  <2>2. u \in Seq(T) /\ v \in Seq(T) /\ s = Append(v, e)
    BY <1>1, <1>6, <2>1
  <2>3. Append(v, e) \in Seq(T)
    BY ONLY <2>1, <2>2
  <2> QED
    BY ONLY <2>1, <2>2, <2>3
<1>8. ASSUME NEW m, NEW k, m \in Machine(Resources, Cells), k \in Nat, Rested(m)
      PROVE  Rested(Ran(m, s, k))
  <2>1. PICK p : p = ExecCommand(m, b, k)
    OBVIOUS
  <2>2. PICK q : q = ExecCommand(p, f, k)
    OBVIOUS
  <2>3. PICK n : n = ExecCommand(q, e, k)
    OBVIOUS
  <2>4. Ran(m, s, k) = n
    <3>1. Ran(m, u, k) = p
      BY <1>6, <2>1, RanOne
    <3>2. Ran(m, v, k) = ExecCommand(Ran(m, u, k), f, k)
      <4>1. Append(u, f) \in Seq(T) /\ Ran(m, Append(u, f), k) = ExecCommand(Ran(m, u, k), f, k)
        BY ONLY <1>7, RanAppend
      <4> QED
        BY ONLY <1>6, <4>1
    <3>3. Ran(m, s, k) = ExecCommand(Ran(m, v, k), e, k)
      BY ONLY <1>7, RanAppend
    <3> QED
      BY <2>2, <2>3, <3>1, <3>2, <3>3
  <2>5. Stays(m, b, p)
    BY <1>4, <1>8, <2>1, AnyStep
  <2>6. Stays(p, f, q)
    <3>1. p \in Machine(Resources, Cells)
      BY <2>5 DEF Stays
    <3> QED
      BY <1>5, <1>8, <2>2, <3>1, AnyStep
  <2>7. p.state = [m.state EXCEPT ![x] = b.to]
    BY <1>2, <1>3, <1>8, <2>1, TransitionStep
  <2>8. n.state = [q.state EXCEPT ![x] = "COMMON"]
    BY <1>2, <1>3, <2>3, <2>6, TransitionStep DEF Stays
  <2>9. q.state = p.state
    BY <1>5, <2>6 DEF Stays
  <2>10. m.state \in [Resources -> States]
    BY <1>8 DEF Machine
  <2> QED
    BY <1>8, <2>4, <2>7, <2>8, <2>9, <2>10 DEF Rested
<1>9. s \in Seq(BatchCommands(X))
  BY <1>0, <1>7
<1> QED
  BY <1>8, <1>9 DEF RestingLists, Rests

------------------------------------------------------------------------------
(* The invariant                                                              *)

\* Resources Python keeps.
PyRes == {buf[h].res : h \in py}

\* What lists may touch: everything, unless callers are careful.
Within(X) == IF Careful THEN X ELSE Nat

\* Every handle Python holds has a buffer, and every handle says COMMON.
HandlesOk == BufOk /\ py \subseteq DOMAIN buf /\ state = Resting

\* Every resource is in COMMON, and nothing that is gone was used by an executed list.
GpuOk ==
  /\ gpu = Resting /\ mem \in [Cells -> SUBSET Nat] /\ faults \subseteq FaultKinds
  /\ Careful => "freed" \notin faults

\* The open list touches what Python or the scope keeps.
ListOk ==
  /\ list = [open |-> list.open, cmds |-> list.cmds, does |-> list.does]
  /\ list.cmds \in RestingLists(Within(PyRes \cup heaps)) /\ heaps \in SUBSET Nat
  /\ saved = Closed /\ (~batch => list = Closed)

\* The prepared graph touches what Python or the graph keeps.
GraphOk == graph.cmds \in RestingLists(Within(PyRes \cup graph.heaps)) /\ graph.heaps \in SUBSET Nat

\* What the prepared dispatch keeps.
DispKeeps == disp.holds \cup (IF disp.kind = "chain" THEN Owned ELSE {})

\* The lists of the prepared dispatch touch what it keeps, and the heap of the call that executes one.
DispOk ==
  /\ disp.holds \in SUBSET Resources /\ slot \in 0 .. Ring - 1
  /\ disp.kind # "none" => \A k \in 0 .. Ring - 1 : disp.lists[k] \in RestingLists(Within(DispKeeps \cup {LocalHeap}))

\* Between calls everything rests, and lists that may still be executed touch
\* what is kept and leave everything at rest.
BatchInv == HandlesOk /\ GpuOk /\ ListOk /\ GraphOk /\ DispOk /\ calls \in Nat

\* Lists within less are lists within more,
LEMMA WithinMore ==
  ASSUME NEW X, NEW Y, X \subseteq Y, X \subseteq Nat, NEW s \in RestingLists(Within(X))
  PROVE  s \in RestingLists(Within(Y))
<1>1. Within(X) \subseteq Within(Y)
  BY DEF Within
<1> QED
  BY <1>1, ListsIn

\* and lists within anything if callers are not careful.
LEMMA WithinLists ==
  ASSUME NEW X, NEW Y, X \subseteq Y, Y \subseteq Nat, NEW s \in RestingLists(X)
  PROVE  s \in RestingLists(Within(Y))
<1>1. X \subseteq Within(Y)
  BY DEF Within
<1> QED
  BY <1>1, ListsIn

\* A list does not touch what it does not name.
LEMMA ListsLess ==
  ASSUME NEW X, NEW s \in RestingLists(X), NEW x, x \notin AllTouched(s)
  PROVE  s \in RestingLists(X \ {x})
<1>1. s \in Seq(BatchCommands(X)) /\ Rests(s)
  BY DEF RestingLists
<1>2. DOMAIN s = 1 .. Len(s) /\ Len(s) \in Nat /\ \A i \in 1 .. Len(s) : s[i] \in BatchCommands(X)
  BY <1>1, LenProperties, ElementOfSeq
<1>3. \A i \in 1 .. Len(s) : s[i] \in BatchCommands(X \ {x})
  <2>1. ASSUME NEW i \in 1 .. Len(s) PROVE s[i] \in BatchCommands(X \ {x})
    <3>1. x \notin Touched(s[i])
      BY <1>2 DEF AllTouched
    <3> QED
      BY <1>2, <3>1 DEF BatchCommands
  <2> QED
    BY <2>1
<1>4. s \in Seq(BatchCommands(X \ {x}))
  <2>1. PICK T : T = BatchCommands(X \ {x})
    OBVIOUS
  <2>2. PICK n : n = Len(s) /\ n \in Nat
    BY <1>2
  <2>3. s \in [1 .. n -> BatchCommands(X)] /\ \A i \in 1 .. n : s[i] \in T
    BY <1>1, <1>3, <2>1, <2>2, LenProperties
  <2>4. s \in [1 .. n -> T]
    BY ONLY <2>3
  <2>5. s \in Seq(T)
    BY ONLY <2>2, <2>4, Mapped
  <2> QED
    BY <2>1, <2>5
<1> QED
  BY <1>1, <1>4 DEF RestingLists

\* What is kept, and by whom.
LEMMA KeptSpace ==
  ASSUME HandlesOk, DispOk
  PROVE  PyRes \subseteq Handles /\ PyRes \subseteq Nat /\ DispKeeps \subseteq Nat /\ Live = PyRes \cup DispKeeps
<1>1. PyRes \subseteq Handles
  BY DEF HandlesOk, BufOk, PyRes
<1>2. DispKeeps \subseteq Resources
  BY HandleSpace DEF DispOk, DispKeeps
<1> QED
  BY <1>1, <1>2, HandleSpace DEF Live, PyRes, DispKeeps

\* The execution of a list that rests and touches what is alive.
LEMMA SubmitStep ==
  ASSUME HandlesOk, GpuOk, DispOk, NEW X, NEW extra \in SUBSET Nat, X \subseteq Live \cup extra, NEW by \in Nat,
         NEW cmds \in RestingLists(Within(X)), Submit(cmds, by, extra)
  PROVE  GpuOk'
<1>1. PICK m : m = Before(extra)
  OBVIOUS
<1>2. /\ m \in Machine(Resources, Cells) /\ Rested(m) /\ m.live = Live \cup extra /\ m.faults = faults
  BY <1>1, KeptSpace DEF Before, Machine, GpuOk, Resting, Rested, Wrongs, States
<1>3. PICK p : p = Fault(m, "freed", ~(AllTouched(cmds) \subseteq m.live))
  OBVIOUS
<1>4. /\ p \in Machine(Resources, Cells) /\ Rested(p)
      /\ p.faults \subseteq FaultKinds /\ (Careful => "freed" \notin p.faults)
  <2>1. CASE Careful
    <3>1. cmds \in Seq(BatchCommands(X))
      BY <2>1 DEF Within, RestingLists
    <3>2. AllTouched(cmds) \subseteq X
      BY <3>1, TouchedAll
    <3>3. p = m
      BY <1>2, <1>3, <3>2 DEF Fault
    <3> QED
      BY <1>2, <3>3 DEF GpuOk
  <2>2. CASE ~Careful
    <3>1. p = m \/ p = [m EXCEPT !.faults = @ \cup {"freed"}]
      BY <1>3 DEF Fault
    <3>2. "freed" \in FaultKinds /\ FaultKinds \subseteq Wrongs
      BY DEF FaultKinds, Wrongs
    <3> QED
      BY <1>2, <2>2, <3>1, <3>2 DEF GpuOk, Machine, Rested
  <2> QED
    BY <2>1, <2>2
<1>5. PICK n : n = Ran(p, cmds, by)
  OBVIOUS
<1>6. cmds \in Seq(BatchCommands(Within(X))) /\ Rests(cmds)
  BY DEF RestingLists
<1>7. PICK Z : Z = Within(X)
  OBVIOUS
<1>8. /\ n \in Machine(Resources, Cells) /\ n.live = p.live
      /\ n.faults \subseteq p.faults \cup {"misstated", "misuse", "race"}
      /\ (\A i \in 1 .. Len(cmds) : cmds[i].op # "transition") => n.state = p.state
  <2>1. cmds \in Seq(BatchCommands(Z)) /\ p \in Machine(Resources, Cells)
    BY <1>4, <1>6, <1>7
  <2> QED
    BY ONLY <1>5, <2>1, by \in Nat, AnyRun
<1>9. Rested(n)
  BY <1>4, <1>5, <1>6 DEF Rests
<1>10. PICK e : e = Execute(m, cmds, by)
  OBVIOUS
<1>11. e = [n EXCEPT !.dirty = {}]
  BY <1>3, <1>5, <1>10 DEF Execute, Ran
<1>12. gpu' = e.state /\ mem' = e.mem /\ faults' = e.faults
  BY <1>1, <1>10 DEF Submit
<1>13. e.state = n.state /\ e.mem = n.mem /\ e.faults = n.faults
  BY <1>8, <1>11 DEF Machine
<1>14. n.state = Resting /\ n.mem \in [Cells -> SUBSET Nat]
  BY <1>8, <1>9 DEF Machine, Rested, Resting
<1>15. n.faults \subseteq FaultKinds /\ (Careful => "freed" \notin n.faults)
  BY <1>4, <1>8 DEF FaultKinds
<1> QED
  BY <1>12, <1>13, <1>14, <1>15 DEF GpuOk

\* Where a call starts to record.
LEMMA Starts ==
  ASSUME HandlesOk, NEW Y
  PROVE  Records(Record0, Y, {}) /\ Record0.heaps = {} /\ Record0.st = Resting
<1>1. PICK r : r = Record0
  OBVIOUS
<1>2. r.cmds = <<>> /\ r.st = Resting /\ r.heaps = {} /\ r = [cmds |-> r.cmds, st |-> r.st, heaps |-> r.heaps]
  BY <1>1 DEF Record0, HandlesOk
<1>3. Resting \in [Resources -> States]
  BY DEF Resting, States
<1>4. <<>> \in Seq(BatchCommands(Y \cup r.heaps))
  OBVIOUS
<1>5. r \in Recorder(Y \cup r.heaps)
  BY <1>2, <1>3, <1>4 DEF Recorder
<1>6. Tracks(r)
  <2> SUFFICES ASSUME NEW m, NEW by, m \in Machine(Resources, Cells) /\ by \in Nat /\ Rested(m)
               PROVE  Follows(Ran(m, r.cmds, by).state, r.st)
    BY DEF Tracks
  <2>1. Ran(m, r.cmds, by) = m
    BY <1>2, RanNone
  <2> QED
    BY <2>1 DEF Follows, Rested
<1> QED
  BY <1>1, <1>2, <1>5, <1>6 DEF Records, Resting

\* Operands that Python holds have resources that Python keeps.
LEMMA OperandsNear ==
  ASSUME HandlesOk, NEW S, NEW a \in Seq(S), Range(a) \subseteq py
  PROVE  a \in Seq(Near(PyRes))
<1>1. DOMAIN a = 1 .. Len(a) /\ Len(a) \in Nat
  BY LenProperties
<1>2. \A h \in py : h \in Near(PyRes)
  BY HandleSpace DEF HandlesOk, BufOk, Near, Known, Res, PyRes
<1>3. \A i \in 1 .. Len(a) : a[i] \in Near(PyRes)
  BY <1>1, <1>2 DEF Range
<1> QED
  BY <1>1, <1>3

\* Operands are as ArgsAssumption says.
LEMMA KnownArgs ==
  ASSUME NEW kind \in DOMAIN Args, NEW a \in Args[kind]
  PROVE  a \in Seq(Handles) /\ Len(a) \in Arity(kind)
BY ArgsAssumption

\* A call outside a scope, and one that joins the list of its scope.
LEMMA InvokeStep ==
  ASSUME BatchInv, NEW kind \in DOMAIN Args, NEW a \in Args[kind], Invoke(kind, a)
  PROVE  BatchInv'
<1>1. HandlesOk /\ GpuOk /\ ListOk /\ GraphOk /\ DispOk /\ calls \in Nat
  BY DEF BatchInv
<1>2. PICK n, by : n = calls + 1 /\ by = (IF prepared THEN 0 ELSE n)
  OBVIOUS
<1>3. n \in Nat /\ by \in Nat
  BY <1>1, <1>2
<1>4. PICK r : r = Recorded(Record0, kind, by, n, a)
  OBVIOUS
<1>5. /\ calls' = n /\ Range(a) \subseteq py /\ state' = r.st
      /\ IF batch THEN Join(r, Meant(kind, a)) ELSE Submit(r.cmds, n, r.heaps) /\ UNCHANGED <<list, heaps>>
      /\ UNCHANGED <<buf, py, saved, batch, graph, disp, slot>>
  BY <1>2, <1>4 DEF Invoke, NextCall
<1>6. Recording(Record0, r, PyRes)
  <2>1. PICK r0 : r0 = Record0
    OBVIOUS
  <2>2. Records(r0, PyRes, {}) /\ BufOk
    BY <1>1, <2>1, Starts DEF HandlesOk
  <2>3. a \in Seq(Near(PyRes)) /\ Len(a) \in Arity(kind)
    BY <1>1, <1>5, KnownArgs, OperandsNear
  <2>4. r = Recorded(r0, kind, by, n, a)
    BY <1>4, <2>1
  <2>5. Recording(r0, r, PyRes)
    BY ONLY <1>3, <2>2, <2>3, <2>4, RecordedRecords
  <2> QED
    BY <2>1, <2>5
<1>7. r.cmds \in RestingLists(PyRes \cup r.heaps) /\ r.st = Resting /\ r.heaps \in SUBSET Nat
  BY <1>1, <1>6, RecordedList DEF HandlesOk
<1>8. /\ PyRes' = PyRes /\ PyRes \subseteq Nat /\ Live = PyRes \cup DispKeeps
  BY <1>1, <1>5, KeptSpace DEF PyRes
<1>9. HandlesOk'
  BY <1>1, <1>5, <1>7 DEF HandlesOk, BufOk
<1>10. GraphOk' /\ DispOk'
  BY <1>1, <1>5, <1>8 DEF GraphOk, DispOk, DispKeeps
<1>11. CASE batch
  <2>1. /\ list' = IF list.open THEN [list EXCEPT !.cmds = @ \o r.cmds,
                                                  !.does = IF prepared THEN @ \o Meant(kind, a) ELSE @]
                   ELSE list
        /\ heaps' = heaps \cup r.heaps /\ UNCHANGED gpuVars
    BY <1>5, <1>11 DEF Join
  <2>2. GpuOk'
    BY <1>1, <2>1 DEF GpuOk, gpuVars
  <2>3. PICK Y : Y = PyRes \cup (heaps \cup r.heaps)
    OBVIOUS
  <2>4. Y \subseteq Nat /\ PyRes \cup heaps \subseteq Y /\ PyRes \cup r.heaps \subseteq Y
    BY <1>1, <1>7, <1>8, <2>3 DEF ListOk
  <2>5. list.cmds \in RestingLists(Within(Y))
    <3>1. list.cmds \in RestingLists(Within(PyRes \cup heaps)) /\ PyRes \cup heaps \subseteq Nat
      BY <1>1, <2>4 DEF ListOk
    <3> QED
      BY <2>4, <3>1, WithinMore
  <2>6. r.cmds \in RestingLists(Within(Y))
    BY <1>7, <2>4, WithinLists
  <2>7. list.cmds \o r.cmds \in RestingLists(Within(Y))
    BY <2>5, <2>6, JoinedLists
  <2>8. /\ list' = [open |-> list'.open, cmds |-> list'.cmds, does |-> list'.does]
        /\ list'.cmds \in {list.cmds, list.cmds \o r.cmds}
    <3>1. list = [open |-> list.open, cmds |-> list.cmds, does |-> list.does]
      BY <1>1 DEF ListOk
    <3>2. CASE list.open
      <4>1. list' = [open |-> list.open, cmds |-> list.cmds \o r.cmds,
                     does |-> IF prepared THEN list.does \o Meant(kind, a) ELSE list.does]
        BY <2>1, <3>1, <3>2
      <4> QED
        BY <4>1
    <3>3. CASE ~list.open
      BY <2>1, <3>1, <3>3
    <3> QED
      BY <3>2, <3>3
  <2>9. ListOk'
    <3>1. list'.cmds \in RestingLists(Within(Y))
      BY <2>5, <2>7, <2>8
    <3>2. Within(PyRes \cup heaps)' = Within(Y)
      BY <1>8, <2>1, <2>3 DEF Within
    <3>3. heaps' \in SUBSET Nat
      BY <1>1, <1>7, <2>1 DEF ListOk
    <3>4. saved' = Closed /\ (~batch' => list' = Closed)
      BY <1>1, <1>5, <1>11 DEF ListOk
    <3> QED
      BY <2>8, <3>1, <3>2, <3>3, <3>4 DEF ListOk
  <2> QED
    BY <1>3, <1>5, <1>9, <1>10, <2>2, <2>9 DEF BatchInv
<1>12. CASE ~batch
  <2>1. Submit(r.cmds, n, r.heaps) /\ UNCHANGED <<list, heaps>>
    BY <1>5, <1>12
  <2>2. GpuOk'
    <3>1. PICK X : X = PyRes \cup r.heaps
      OBVIOUS
    <3>2. X \subseteq Live \cup r.heaps /\ X \subseteq Nat
      BY <1>7, <1>8, <3>1
    <3>3. r.cmds \in RestingLists(Within(X))
      BY <1>7, <3>1, <3>2, WithinLists
    <3> QED
      BY <1>1, <1>3, <1>7, <2>1, <3>2, <3>3, SubmitStep
  <2>3. ListOk'
    BY <1>1, <1>5, <1>8, <2>1 DEF ListOk, Within
  <2> QED
    BY <1>3, <1>5, <1>9, <1>10, <2>2, <2>3 DEF BatchInv
<1> QED
  BY <1>11, <1>12

\* What PyRes keeps, lists may touch: the lists that a step leaves alone.
LEMMA GraphStays ==
  ASSUME HandlesOk, DispOk, GraphOk, UNCHANGED graph, PyRes \subseteq PyRes'
  PROVE  GraphOk'
<1>1. PICK X, Y : X = PyRes \cup graph.heaps /\ Y = PyRes' \cup graph.heaps
  OBVIOUS
<1>2. X \subseteq Y /\ X \subseteq Nat /\ graph.cmds \in RestingLists(Within(X)) /\ graph.heaps \in SUBSET Nat
  BY <1>1, KeptSpace DEF GraphOk
<1>3. graph.cmds \in RestingLists(Within(Y))
  BY <1>2, WithinMore
<1> QED
  BY <1>1, <1>2, <1>3 DEF GraphOk, Within

\* A closed list is empty.
LEMMA ClosedList ==
  ASSUME heaps' \in SUBSET Nat, saved' = Closed, list' = Closed
  PROVE  ListOk'
<1>1. /\ list' = [open |-> FALSE, cmds |-> <<>>, does |-> <<>>]
  BY DEF Closed
<1>2. list'.cmds = <<>> /\ list' = [open |-> list'.open, cmds |-> list'.cmds, does |-> list'.does]
  BY <1>1
<1>3. <<>> \in RestingLists(Within(PyRes \cup heaps))'
  BY EmptyList
<1> QED
  BY <1>2, <1>3 DEF ListOk

\* The open list, when Python keeps no less than before.
LEMMA ListStays ==
  ASSUME HandlesOk, DispOk, ListOk, UNCHANGED <<list, heaps, saved, batch>>, PyRes \subseteq PyRes'
  PROVE  ListOk'
<1>1. PICK X, Y : X = PyRes \cup heaps /\ Y = PyRes' \cup heaps
  OBVIOUS
<1>2. X \subseteq Y /\ X \subseteq Nat /\ list.cmds \in RestingLists(Within(X))
  BY <1>1, KeptSpace DEF ListOk
<1>3. list.cmds \in RestingLists(Within(Y))
  BY <1>2, WithinMore
<1> QED
  BY <1>1, <1>3 DEF ListOk, Within

\* A copy submits what it records, in a scope behind the list of the scope.
LEMMA TransferStep ==
  ASSUME HandlesOk, GpuOk, ListOk, GraphOk, DispOk, NEW r, NEW does, NEW n \in Nat, r.heaps \in SUBSET Nat,
         r.cmds \in RestingLists(PyRes \cup r.heaps), Transfer(r, does, n), PyRes \subseteq PyRes'
  PROVE  GpuOk' /\ ListOk' /\ GraphOk' /\ DispOk'
<1>1. /\ UNCHANGED <<saved, batch, prepared, heaps, graph, disp, slot>>
      /\ IF batch
         THEN IF list.open
              THEN Submit(list.cmds \o r.cmds, n, heaps \cup r.heaps) /\ list' = Closed
              ELSE UNCHANGED <<gpuVars, list>>
         ELSE Submit(r.cmds, n, r.heaps) /\ UNCHANGED list
  BY DEF Transfer
<1>2. PyRes \subseteq Nat /\ Live = PyRes \cup DispKeeps
  BY KeptSpace
<1>3. GraphOk' /\ DispOk'
  BY <1>1, GraphStays DEF DispOk, DispKeeps
<1>4. CASE batch /\ list.open
  <2>1. PICK X, H : X = PyRes \cup (heaps \cup r.heaps) /\ H = heaps \cup r.heaps
    OBVIOUS
  <2>2. /\ X \subseteq Nat /\ X \subseteq Live \cup H /\ H \in SUBSET Nat
        /\ PyRes \cup heaps \subseteq X /\ PyRes \cup r.heaps \subseteq X /\ PyRes \cup heaps \subseteq Nat
    BY <1>2, <2>1 DEF ListOk
  <2>3. list.cmds \in RestingLists(Within(X))
    BY <2>2, WithinMore DEF ListOk
  <2>4. r.cmds \in RestingLists(Within(X))
    BY <2>2, WithinLists
  <2>5. PICK c : c = list.cmds \o r.cmds
    OBVIOUS
  <2>6. c \in RestingLists(Within(X))
    BY <2>3, <2>4, <2>5, JoinedLists
  <2>7. Submit(c, n, H) /\ list' = Closed
    BY <1>1, <1>4, <2>1, <2>5
  <2>8. GpuOk'
    BY <2>2, <2>6, <2>7, SubmitStep
  <2>9. ListOk'
    <3>1. heaps' \in SUBSET Nat /\ saved' = Closed
      BY <1>1 DEF ListOk
    <3> QED
      BY <2>7, <3>1, ClosedList
  <2> QED
    BY <1>3, <2>8, <2>9
<1>5. CASE batch /\ ~list.open
  <2>1. GpuOk'
    BY <1>1, <1>5 DEF GpuOk, gpuVars
  <2>2. ListOk'
    BY <1>1, <1>5, ListStays
  <2> QED
    BY <1>3, <2>1, <2>2
<1>6. CASE ~batch
  <2>1. PICK X, H : X = PyRes \cup r.heaps /\ H = r.heaps
    OBVIOUS
  <2>2. X \subseteq Nat /\ X \subseteq Live \cup H /\ H \in SUBSET Nat
    BY <1>2, <2>1
  <2>3. r.cmds \in RestingLists(Within(X))
    BY <2>1, <2>2, WithinLists
  <2>4. PICK c : c = r.cmds
    OBVIOUS
  <2>5. Submit(c, n, H)
    BY <1>1, <1>6, <2>1, <2>4
  <2>6. GpuOk'
    BY <2>2, <2>3, <2>4, <2>5, SubmitStep
  <2>7. ListOk'
    BY <1>1, <1>6, ListStays
  <2> QED
    BY <1>3, <2>6, <2>7
<1> QED
  BY <1>4, <1>5, <1>6

\* A handle that is copied: to the state s, the copy c, back.
LEMMA CopyRecords ==
  ASSUME BufOk, NEW r, NEW Y, Records(r, Y, {}), NEW h \in Near(Y), NEW s \in States,
         NEW c \in Others(Y \cup r.heaps), NEW q, q = Enter(Add(Enter(r, h, s), c), h, "COMMON")
  PROVE  Kept(r, q, Y, {})
<1>1. PICK one : one = <<h>>
  OBVIOUS
<1>2. one \in Seq(Near(Y)) /\ Range(one) = {h}
  BY <1>1, SmallSeq
<1>3. PICK a : a = EnterAll(r, one, s)
  OBVIOUS
<1>4. PICK b : b = Add(a, c)
  OBVIOUS
<1>5. q = EnterAll(b, one, "COMMON")
  BY <1>1, <1>3, <1>4 DEF Enter
<1>6. Kept(r, a, Y, {} \cup Range(one))
  BY <1>2, <1>3, EnterRecords
<1>7. Kept(a, b, Y, {} \cup Range(one))
  <2>1. Records(a, Y, {} \cup Range(one)) /\ a.heaps = r.heaps
    BY <1>6 DEF Kept
  <2>2. c \in Others(Y \cup a.heaps)
    BY <2>1
  <2> QED
    BY <1>4, <2>1, <2>2, AddRecords
<1>8. q = Restore(b, one, Resting)
  <2>1. DOMAIN b.st = Resources
    BY <1>7 DEF Kept, Records, Recorder
  <2> QED
    BY <1>5, <2>1 DEF EnterAll, Restore, Resting
<1>9. Kept(b, q, Y, ({} \cup Range(one)) \ Range(one))
  <2>1. Records(b, Y, {} \cup Range(one))
    BY <1>7 DEF Kept
  <2> QED
    BY <1>2, <1>8, <2>1, RestoreRecords
<1>10. ({} \cup Range(one)) \ Range(one) = {}
  OBVIOUS
<1> QED
  BY <1>6, <1>7, <1>9, <1>10 DEF Kept

\* Both directions: a list that touches the handle and the heap, and rests.
CopyRests(r) ==
  /\ r.cmds \in RestingLists(PyRes \cup r.heaps) /\ r.st = Resting
  /\ r.heaps = {LocalHeap} /\ r.heaps \in SUBSET Nat

\* It is a list that rests, with one heap.
LEMMA CopiesRest ==
  ASSUME HandlesOk, NEW h \in py, NEW s \in States, NEW c \in Others(PyRes \cup {LocalHeap}),
         NEW r0, r0 = Record0, NEW q, q = Enter(Add(Enter(r0, h, s), c), h, r0.st[h]),
         NEW r, r = [q EXCEPT !.heaps = @ \cup {LocalHeap}]
  PROVE  CopyRests(r)
<1>1. PICK Y : Y = PyRes \cup {LocalHeap}
  OBVIOUS
<1>3. Records(r0, Y, {}) /\ r0.heaps = {} /\ r0.st = Resting /\ BufOk
  BY Starts DEF HandlesOk
<1>4. h \in Near(Y) /\ h \in Resources
  BY <1>1, HandleSpace DEF HandlesOk, BufOk, Near, Known, Res, PyRes
<1>5. q = Enter(Add(Enter(r0, h, s), c), h, "COMMON")
  BY <1>3, <1>4 DEF Resting
<1>6. c \in Others(Y \cup r0.heaps)
  BY <1>1, <1>3
<1>7. Kept(r0, q, Y, {})
  BY <1>3, <1>4, <1>5, <1>6, CopyRecords
<1>8. Recording(r0, q, Y) /\ q.heaps = {}
  BY <1>3, <1>7 DEF Kept, Recording
<1>9. q.cmds \in RestingLists(Y \cup q.heaps) /\ q.st = Resting
  BY <1>3, <1>8, RecordedList
<1>10. q = [cmds |-> q.cmds, st |-> q.st, heaps |-> q.heaps]
  BY <1>8 DEF Recording, Records, Recorder
<1>11. r.cmds = q.cmds /\ r.st = q.st /\ r.heaps = {LocalHeap}
  BY <1>8, <1>10
<1>12. LocalHeap \in Nat
  BY DEF LocalHeap
<1>13. Y \cup q.heaps = PyRes \cup r.heaps
  BY <1>1, <1>8, <1>11
<1> QED
  BY <1>9, <1>11, <1>12, <1>13 DEF CopyRests

\* A copy into a handle.
LEMMA UploadIntoStep ==
  ASSUME BatchInv, NEW h \in Handles, UploadInto(h)
  PROVE  BatchInv'
<1>1. HandlesOk /\ GpuOk /\ ListOk /\ GraphOk /\ DispOk /\ calls \in Nat
  BY DEF BatchInv
<1>2. PICK n, cells, does : n = calls + 1 /\ cells = Elements(h) /\ does = <<Effect({}, h)>>
  OBVIOUS
<1>3. PICK r : r = CopyIn(Record0, h, cells, n)
  OBVIOUS
<1>4. h \in py /\ calls' = n /\ n \in Nat /\ state' = r.st /\ Transfer(r, does, n) /\ UNCHANGED <<buf, py>>
  BY <1>1, <1>2, <1>3 DEF UploadInto, NextCall
<1>5. PICK c : c = Fill(n, LocalHeap, cells)
  OBVIOUS
<1>6. c \in Others(PyRes \cup {LocalHeap})
  <2>1. h \in Near(PyRes) /\ BufOk
    BY <1>1, <1>4, HandleSpace DEF HandlesOk, BufOk, Near, Known, Res, PyRes
  <2>2. cells \subseteq CellsIn(PyRes)
    BY <1>2, <2>1, NearCells
  <2>3. cells \in SUBSET Cells /\ ResourcesOf(cells) \subseteq PyRes \cup {LocalHeap} /\ LocalHeap \in Nat
    BY <2>2 DEF CellsIn, ResourcesOf, LocalHeap
  <2> QED
    BY <1>4, <1>5, <2>3, FillOther
<1>0. PICK r0 : r0 = Record0
  OBVIOUS
<1>7. PICK q : q = Enter(Add(Enter(r0, h, "COPY_DEST"), c), h, r0.st[h])
  OBVIOUS
<1>8. r = [q EXCEPT !.heaps = @ \cup {LocalHeap}]
  BY <1>0, <1>3, <1>5, <1>7 DEF CopyIn
<1>9. /\ r.cmds \in RestingLists(PyRes \cup r.heaps) /\ r.st = Resting
      /\ r.heaps = {LocalHeap} /\ r.heaps \in SUBSET Nat
  <2>1. PICK s : s = "COPY_DEST"
    OBVIOUS
  <2>2. s \in States /\ q = Enter(Add(Enter(r0, h, s), c), h, r0.st[h]) /\ HandlesOk /\ h \in py
    BY <1>1, <1>4, <1>7, <2>1 DEF States
  <2>3. CopyRests(r)
    BY ONLY <1>0, <1>6, <1>8, <2>2, CopiesRest
  <2> QED
    BY ONLY <2>3 DEF CopyRests
<1>10. PyRes' = PyRes
  BY <1>4 DEF PyRes
<1>11. GpuOk' /\ ListOk' /\ GraphOk' /\ DispOk'
  BY <1>1, <1>4, <1>9, <1>10, TransferStep
<1>12. HandlesOk'
  BY <1>1, <1>4, <1>9 DEF HandlesOk, BufOk
<1> QED
  BY <1>4, <1>11, <1>12 DEF BatchInv

\* A copy out of a handle.
LEMMA DownloadStep ==
  ASSUME BatchInv, NEW h \in Handles, Download(h)
  PROVE  BatchInv'
<1>1. HandlesOk /\ GpuOk /\ ListOk /\ GraphOk /\ DispOk /\ calls \in Nat
  BY DEF BatchInv
<1>2. PICK cells, does : cells = Elements(h) /\ does = <<>>
  OBVIOUS
<1>3. PICK r : r = CopyOut(Record0, h, cells)
  OBVIOUS
<1>4. h \in py /\ state' = r.st /\ Transfer(r, does, calls) /\ UNCHANGED <<buf, py, calls>>
  BY <1>1, <1>2, <1>3 DEF Download
<1>5. PICK c : c = ReadBack(LocalHeap, cells)
  OBVIOUS
<1>6. c \in Others(PyRes \cup {LocalHeap})
  <2>1. h \in Near(PyRes) /\ BufOk
    BY <1>1, <1>4, HandleSpace DEF HandlesOk, BufOk, Near, Known, Res, PyRes
  <2>2. cells \subseteq CellsIn(PyRes)
    BY <1>2, <2>1, NearCells
  <2>3. cells \in SUBSET Cells /\ ResourcesOf(cells) \subseteq PyRes \cup {LocalHeap} /\ LocalHeap \in Nat
    BY <2>2 DEF CellsIn, ResourcesOf, LocalHeap
  <2> QED
    BY <1>5, <2>3, ReadOther
<1>0. PICK r0 : r0 = Record0
  OBVIOUS
<1>7. PICK q : q = Enter(Add(Enter(r0, h, "COPY_SOURCE"), c), h, r0.st[h])
  OBVIOUS
<1>8. r = [q EXCEPT !.heaps = @ \cup {LocalHeap}]
  BY <1>0, <1>3, <1>5, <1>7 DEF CopyOut
<1>9. /\ r.cmds \in RestingLists(PyRes \cup r.heaps) /\ r.st = Resting
      /\ r.heaps = {LocalHeap} /\ r.heaps \in SUBSET Nat
  <2>1. PICK s : s = "COPY_SOURCE"
    OBVIOUS
  <2>2. s \in States /\ q = Enter(Add(Enter(r0, h, s), c), h, r0.st[h]) /\ HandlesOk /\ h \in py
    BY <1>1, <1>4, <1>7, <2>1 DEF States
  <2>3. CopyRests(r)
    BY ONLY <1>0, <1>6, <1>8, <2>2, CopiesRest
  <2> QED
    BY ONLY <2>3 DEF CopyRests
<1>10. PyRes' = PyRes
  BY <1>4 DEF PyRes
<1>11. GpuOk' /\ ListOk' /\ GraphOk' /\ DispOk'
  BY <1>1, <1>4, <1>9, <1>10, TransferStep
<1>12. HandlesOk'
  BY <1>1, <1>4, <1>9 DEF HandlesOk, BufOk
<1> QED
  BY <1>1, <1>4, <1>11, <1>12 DEF BatchInv

\* A handle is made: of a buffer of its own or of part of another.
NewHandle(h, b) ==
  /\ buf' = [g \in DOMAIN buf \cup {h} |-> IF g = h THEN b ELSE buf[g]]
  /\ py' = py \cup {h}

\* A new handle takes nothing away from Python.
LEMMA NewHandleStep ==
  ASSUME HandlesOk, NEW h \in Spare \ DOMAIN buf, NEW b, NewHandle(h, b), state' = Resting,
         b.res \in Handles /\ b.lo \in Nat /\ b.n \in Nat /\ b.lo + b.n <= Width
  PROVE  HandlesOk' /\ PyRes \subseteq PyRes'
<1>1. h \in Handles
  BY DEF Handles
<1>2. DOMAIN buf' = DOMAIN buf \cup {h} /\ buf'[h] = b /\ \A g \in DOMAIN buf : buf'[g] = buf[g]
  BY DEF NewHandle
<1>3. BufOk'
  BY <1>1, <1>2 DEF HandlesOk, BufOk
<1>4. py' = py \cup {h}
  BY DEF NewHandle
<1> QED
  BY <1>2, <1>3, <1>4 DEF HandlesOk, PyRes

\* A buffer is made.
LEMMA AllocateStep ==
  ASSUME BatchInv, NEW h \in Handles, Allocate(h)
  PROVE  BatchInv'
<1>1. HandlesOk /\ GpuOk /\ ListOk /\ GraphOk /\ DispOk /\ calls \in Nat
  BY DEF BatchInv
<1>2. PICK b : b = [res |-> h, lo |-> 0, n |-> Width]
  OBVIOUS
<1>3. /\ h \in Spare \ DOMAIN buf /\ NewHandle(h, b) /\ state' = Resting
      /\ UNCHANGED <<ctxVars, graph, disp, slot, gpuVars, calls>>
  BY <1>1, <1>2 DEF Allocate, NewHandle, HandlesOk
<1>4. b.res \in Handles /\ b.lo \in Nat /\ b.n \in Nat /\ b.lo + b.n <= Width
  BY <1>2, HandleSpace
<1>5. HandlesOk' /\ PyRes \subseteq PyRes'
  BY <1>1, <1>3, <1>4, NewHandleStep
<1>6. ListOk' /\ GraphOk'
  BY <1>1, <1>3, <1>5, ListStays, GraphStays DEF ctxVars
<1>7. DispOk' /\ GpuOk'
  BY <1>1, <1>3 DEF DispOk, DispKeeps, GpuOk, gpuVars
<1> QED
  BY <1>1, <1>3, <1>5, <1>6, <1>7 DEF BatchInv

\* A view is made of a buffer that Python holds.
LEMMA CreateViewStep ==
  ASSUME BatchInv, NEW h \in Spare, NEW p \in Handles, NEW n \in 1 .. Width, CreateView(h, p, n)
  PROVE  BatchInv'
<1>1. HandlesOk /\ GpuOk /\ ListOk /\ GraphOk /\ DispOk /\ calls \in Nat
  BY DEF BatchInv
<1>2. PICK b : b = [res |-> buf[p].res, lo |-> buf[p].lo + buf[p].n - n, n |-> n]
  OBVIOUS
<1>3. /\ h \in Spare \ DOMAIN buf /\ NewHandle(h, b) /\ state' = [state EXCEPT ![h] = state[p]]
      /\ p \in py /\ n \in 1 .. buf[p].n
      /\ UNCHANGED <<ctxVars, graph, disp, slot, gpuVars, calls>>
  BY <1>1, <1>2 DEF CreateView, NewHandle
<1>4. state' = Resting
  <2>1. state = Resting /\ p \in Resources
    BY <1>1, HandleSpace DEF HandlesOk
  <2> QED
    BY <1>3, <2>1 DEF Resting
<1>5. b.res \in Handles /\ b.lo \in Nat /\ b.n \in Nat /\ b.lo + b.n <= Width
  <2>1. p \in DOMAIN buf
    BY <1>1, <1>3 DEF HandlesOk
  <2>2. PICK l, k : l = buf[p].lo /\ k = buf[p].n /\ l \in Nat /\ k \in Nat /\ l + k <= Width
    BY <1>1, <2>1 DEF HandlesOk, BufOk
  <2>3. n \in 1 .. k /\ b.n = n /\ b.lo = (l + k) - n /\ b.res = buf[p].res
    BY <1>2, <1>3, <2>2
  <2>4. b.lo \in Nat /\ b.n \in Nat /\ b.lo + b.n = l + k
    BY ONLY <2>2, <2>3
  <2>5. b.res \in Handles
    BY <1>1, <2>1, <2>3 DEF HandlesOk, BufOk
  <2> QED
    BY <2>2, <2>4, <2>5
<1>6. HandlesOk' /\ PyRes \subseteq PyRes'
  BY <1>1, <1>3, <1>4, <1>5, NewHandleStep
<1>7. ListOk' /\ GraphOk'
  BY <1>1, <1>3, <1>6, ListStays, GraphStays DEF ctxVars
<1>8. DispOk' /\ GpuOk'
  BY <1>1, <1>3 DEF DispOk, DispKeeps, GpuOk, gpuVars
<1> QED
  BY <1>1, <1>3, <1>6, <1>7, <1>8 DEF BatchInv

\* A buffer is made and filled.
LEMMA UploadNewStep ==
  ASSUME BatchInv, NEW h \in Handles, UploadNew(h)
  PROVE  BatchInv'
<1>1. HandlesOk /\ GpuOk /\ ListOk /\ GraphOk /\ DispOk /\ calls \in Nat
  BY DEF BatchInv
<1>2. PICK b : b = [res |-> h, lo |-> 0, n |-> Width]
  OBVIOUS
<1>3. PICK n, cells, cmds, does :
        /\ n = calls + 1 /\ cells = {h} \X (0 .. Width - 1) /\ does = <<[in |-> {}, out |-> cells]>>
        /\ cmds = <<Barrier(h, "COMMON", "COPY_DEST"), Fill(n, LocalHeap, cells), Barrier(h, "COPY_DEST", "COMMON")>>
  OBVIOUS
<1>4. PICK r : r = [cmds |-> cmds, heaps |-> {LocalHeap, h}]
  OBVIOUS
<1>5. /\ h \in Spare \ DOMAIN buf /\ NewHandle(h, b) /\ state' = Resting /\ calls' = n /\ n \in Nat
      /\ Transfer(r, does, n)
  BY <1>1, <1>2, <1>3, <1>4 DEF UploadNew, NewHandle, HandlesOk, NextCall
<1>6. b.res \in Handles /\ b.lo \in Nat /\ b.n \in Nat /\ b.lo + b.n <= Width
  BY <1>2, HandleSpace
<1>7. HandlesOk' /\ PyRes \subseteq PyRes'
  BY <1>1, <1>5, <1>6, NewHandleStep
<1>8. r.cmds \in RestingLists(PyRes \cup r.heaps) /\ r.heaps \in SUBSET Nat
  <2>1. PICK X : X = {LocalHeap, h}
    OBVIOUS
  <2>2. h \in Resources /\ h \in X /\ LocalHeap \in Nat /\ LocalHeap \in X /\ X \in SUBSET Nat
    BY <2>1, HandleSpace DEF LocalHeap
  <2>3. cells \in SUBSET Cells /\ ResourcesOf(cells) \subseteq {h}
    BY <1>3, <2>2 DEF Cells, ResourcesOf
  <2>4. cmds \in RestingLists(X)
    BY <1>3, <1>5, <2>2, <2>3, CopyList
  <2>5. cmds \in RestingLists(PyRes \cup X)
    BY <2>4, ListsIn
  <2> QED
    BY <1>4, <2>1, <2>2, <2>5
<1>9. GpuOk' /\ ListOk' /\ GraphOk' /\ DispOk'
  BY <1>1, <1>5, <1>7, <1>8, TransferStep
<1> QED
  BY <1>5, <1>7, <1>9 DEF BatchInv

\* Python drops a handle: a resource that goes with it is in no list if callers are careful.
LEMMA DropStep ==
  ASSUME BatchInv, NEW h \in Handles, Drop(h)
  PROVE  BatchInv'
<1>1. HandlesOk /\ GpuOk /\ ListOk /\ GraphOk /\ DispOk /\ calls \in Nat
  BY DEF BatchInv
<1>2. /\ h \in py /\ py' = py \ {h}
      /\ CallerMay(buf[h].res \notin AllTouched(list.cmds) \cup AllTouched(graph.cmds))
      /\ UNCHANGED <<buf, state, ctxVars, graph, disp, slot, gpuVars, calls>>
  BY DEF Drop
<1>3. HandlesOk'
  BY <1>1, <1>2 DEF HandlesOk, BufOk
<1>4. DispOk' /\ GpuOk'
  BY <1>1, <1>2 DEF DispOk, DispKeeps, GpuOk, gpuVars
<1>5. PICK x : x = buf[h].res
  OBVIOUS
<1>6. PyRes \ {x} \subseteq PyRes' /\ PyRes' \subseteq Nat
  <2>1. PyRes' = {buf[g].res : g \in py \ {h}}
    BY <1>2 DEF PyRes
  <2>2. PyRes \subseteq Nat
    BY <1>1, KeptSpace
  <2> QED
    BY <1>5, <2>1, <2>2 DEF PyRes
<1>7. ASSUME NEW s, NEW H \in SUBSET Nat, s \in RestingLists(Within(PyRes \cup H)), Careful => x \notin AllTouched(s)
      PROVE  s \in RestingLists(Within(PyRes' \cup H))
  <2>1. CASE Careful
    <3>1. s \in RestingLists((PyRes \cup H) \ {x})
      BY <1>7, <2>1, ListsLess DEF Within
    <3>2. (PyRes \cup H) \ {x} \subseteq PyRes' \cup H /\ PyRes' \cup H \subseteq Nat
      BY <1>6
    <3> QED
      BY <3>1, <3>2, WithinLists
  <2>2. CASE ~Careful
    BY <1>7, <2>2 DEF Within
  <2> QED
    BY <2>1, <2>2
<1>8. Careful => x \notin AllTouched(list.cmds) /\ x \notin AllTouched(graph.cmds)
  BY <1>2, <1>5 DEF CallerMay
<1>9. ListOk'
  <2>1. list.cmds \in RestingLists(Within(PyRes' \cup heaps))
    BY <1>1, <1>7, <1>8 DEF ListOk
  <2> QED
    BY <1>1, <1>2, <2>1 DEF ListOk, ctxVars, Within
<1>10. GraphOk'
  <2>1. graph.cmds \in RestingLists(Within(PyRes' \cup graph.heaps))
    BY <1>1, <1>7, <1>8 DEF GraphOk
  <2> QED
    BY <1>1, <1>2, <2>1 DEF GraphOk, Within
<1> QED
  BY <1>1, <1>2, <1>3, <1>4, <1>9, <1>10 DEF BatchInv

\* A batch begins with an empty list.
LEMMA BeginBatchStep ==
  ASSUME BatchInv, BeginBatch
  PROVE  BatchInv'
<1>1. HandlesOk /\ GpuOk /\ ListOk /\ GraphOk /\ DispOk /\ calls \in Nat
  BY DEF BatchInv
<1>2. /\ list' = Opened /\ batch' = TRUE /\ heaps' = {}
      /\ UNCHANGED <<buf, py, state, saved, graph, disp, slot, gpuVars, calls>>
  BY DEF BeginBatch
<1>3. HandlesOk' /\ GpuOk' /\ DispOk' /\ PyRes' = PyRes
  BY <1>1, <1>2 DEF HandlesOk, BufOk, GpuOk, gpuVars, DispOk, DispKeeps, PyRes
<1>4. GraphOk'
  BY <1>1, <1>2, <1>3, GraphStays
<1>5. ListOk'
  <2>1. list'.cmds = <<>> /\ list' = [open |-> list'.open, cmds |-> list'.cmds, does |-> list'.does]
    BY <1>2 DEF Opened
  <2>2. <<>> \in RestingLists(Within(PyRes \cup heaps))'
    BY EmptyList
  <2> QED
    BY <1>1, <1>2, <2>1, <2>2 DEF ListOk
<1> QED
  BY <1>1, <1>2, <1>3, <1>4, <1>5 DEF BatchInv

\* A batch ends: its list is executed while the heaps of the scope are kept.
LEMMA EndBatchStep ==
  ASSUME BatchInv, EndBatch
  PROVE  BatchInv'
<1>1. HandlesOk /\ GpuOk /\ ListOk /\ GraphOk /\ DispOk /\ calls \in Nat
  BY DEF BatchInv
<1>2. /\ IF list.open THEN Submit(list.cmds, calls, heaps) ELSE UNCHANGED gpuVars
      /\ list' = Closed /\ heaps' = {}
      /\ UNCHANGED <<buf, py, state, saved, graph, disp, slot, calls>>
  BY DEF EndBatch
<1>3. HandlesOk' /\ DispOk' /\ PyRes' = PyRes
  BY <1>1, <1>2 DEF HandlesOk, BufOk, DispOk, DispKeeps, PyRes
<1>4. GraphOk'
  BY <1>1, <1>2, <1>3, GraphStays
<1>5. ListOk'
  BY <1>1, <1>2, ClosedList DEF ListOk
<1>6. GpuOk'
  <2>1. CASE list.open
    <3>1. PICK X, H, c : X = PyRes \cup heaps /\ H = heaps /\ c = list.cmds
      OBVIOUS
    <3>2. X \subseteq Live \cup H /\ H \in SUBSET Nat /\ c \in RestingLists(Within(X)) /\ Submit(c, calls, H)
      BY <1>1, <1>2, <2>1, <3>1, KeptSpace DEF ListOk
    <3> QED
      BY <1>1, <3>2, SubmitStep
  <2>2. CASE ~list.open
    BY <1>1, <1>2, <2>2 DEF GpuOk, gpuVars
  <2> QED
    BY <2>1, <2>2
<1> QED
  BY <1>1, <1>2, <1>3, <1>4, <1>5, <1>6 DEF BatchInv

\* A prepared graph begins with an empty list.
LEMMA BeginPreparedStep ==
  ASSUME BatchInv, BeginPrepared
  PROVE  BatchInv'
<1>1. HandlesOk /\ GpuOk /\ ListOk /\ GraphOk /\ DispOk /\ calls \in Nat
  BY DEF BatchInv
<1>2. /\ ~batch /\ saved' = list /\ list' = Opened /\ batch' = TRUE /\ heaps' = {}
      /\ UNCHANGED <<buf, py, state, graph, disp, slot, gpuVars, calls>>
  BY DEF BeginPrepared
<1>3. HandlesOk' /\ GpuOk' /\ DispOk' /\ PyRes' = PyRes
  BY <1>1, <1>2 DEF HandlesOk, BufOk, GpuOk, gpuVars, DispOk, DispKeeps, PyRes
<1>4. GraphOk'
  BY <1>1, <1>2, <1>3, GraphStays
<1>5. ListOk'
  <2>1. list'.cmds = <<>> /\ list' = [open |-> list'.open, cmds |-> list'.cmds, does |-> list'.does]
    BY <1>2 DEF Opened
  <2>2. <<>> \in RestingLists(Within(PyRes \cup heaps))'
    BY EmptyList
  <2>3. saved' = Closed
    BY <1>1, <1>2 DEF ListOk
  <2> QED
    BY <1>2, <2>1, <2>2, <2>3 DEF ListOk
<1> QED
  BY <1>1, <1>2, <1>3, <1>4, <1>5 DEF BatchInv

\* A prepared graph ends: the graph takes the heaps of the scope over.
LEMMA EndPreparedStep ==
  ASSUME BatchInv, EndPrepared
  PROVE  BatchInv'
<1>1. HandlesOk /\ GpuOk /\ ListOk /\ GraphOk /\ DispOk /\ calls \in Nat
  BY DEF BatchInv
<1>2. /\ IF list.open THEN graph' = [cmds |-> list.cmds, does |-> list.does, heaps |-> heaps] ELSE UNCHANGED graph
      /\ list' = saved /\ saved' = Closed /\ heaps' = {}
      /\ UNCHANGED <<buf, py, state, disp, slot, gpuVars, calls>>
  BY DEF EndPrepared
<1>3. HandlesOk' /\ GpuOk' /\ DispOk' /\ PyRes' = PyRes
  BY <1>1, <1>2 DEF HandlesOk, BufOk, GpuOk, gpuVars, DispOk, DispKeeps, PyRes
<1>4. ListOk'
  BY <1>1, <1>2, ClosedList DEF ListOk
<1>5. GraphOk'
  <2>1. CASE list.open
    <3>1. graph'.cmds = list.cmds /\ graph'.heaps = heaps
      BY <1>2, <2>1
    <3> QED
      BY <1>1, <1>3, <3>1 DEF ListOk, GraphOk, Within
  <2>2. CASE ~list.open
    BY <1>1, <1>2, <1>3, <2>2, GraphStays
  <2> QED
    BY <2>1, <2>2
<1> QED
  BY <1>1, <1>2, <1>3, <1>4, <1>5 DEF BatchInv

\* The list of a prepared graph is executed.
LEMMA ExecutePreparedStep ==
  ASSUME BatchInv, ExecutePrepared
  PROVE  BatchInv'
<1>1. HandlesOk /\ GpuOk /\ ListOk /\ GraphOk /\ DispOk /\ calls \in Nat
  BY DEF BatchInv
<1>2. PICK n : n = calls + 1
  OBVIOUS
<1>3. /\ calls' = n /\ n \in Nat /\ Submit(graph.cmds, n, graph.heaps)
      /\ UNCHANGED <<buf, py, state, ctxVars, graph, disp, slot>>
  BY <1>1, <1>2 DEF ExecutePrepared, NextCall
<1>4. HandlesOk' /\ DispOk' /\ PyRes' = PyRes
  BY <1>1, <1>3 DEF HandlesOk, BufOk, DispOk, DispKeeps, PyRes
<1>5. GraphOk' /\ ListOk'
  BY <1>1, <1>3, <1>4, GraphStays, ListStays DEF ctxVars
<1>6. GpuOk'
  <2>1. PICK X, H, c : X = PyRes \cup graph.heaps /\ H = graph.heaps /\ c = graph.cmds
    OBVIOUS
  <2>2. X \subseteq Live \cup H /\ H \in SUBSET Nat /\ c \in RestingLists(Within(X)) /\ Submit(c, n, H)
    BY <1>1, <1>3, <2>1, KeptSpace DEF GraphOk
  <2> QED
    BY <1>1, <1>3, <2>2, SubmitStep
<1> QED
  BY <1>3, <1>4, <1>5, <1>6 DEF BatchInv

\* A dispatch is prepared: its capsule keeps what its list touches.
LEMMA KeepStep ==
  ASSUME BatchInv, NEW kind, NEW r, NEW does, NEW a, Keep(kind, r, does, a),
         NEW holds \in SUBSET Resources, holds = HoldsOf(a),
         NEW X, X = holds \cup (IF kind = "chain" THEN Owned ELSE {}) \cup {LocalHeap},
         r.cmds \in RestingLists(X)
  PROVE  BatchInv'
<1>1. HandlesOk /\ GpuOk /\ ListOk /\ GraphOk /\ DispOk /\ calls \in Nat
  BY DEF BatchInv
<1>2. /\ disp' = [kind |-> kind, lists |-> [k \in 0 .. Ring - 1 |-> r.cmds], does |-> does, holds |-> holds]
      /\ slot' = 0 /\ UNCHANGED <<buf, py, state, ctxVars, graph, gpuVars, calls>>
  BY DEF Keep
<1>3. HandlesOk' /\ GpuOk' /\ PyRes' = PyRes
  BY <1>1, <1>2 DEF HandlesOk, BufOk, GpuOk, gpuVars, PyRes
<1>4. GraphOk' /\ ListOk'
  BY <1>1, <1>2, <1>3, GraphStays, ListStays DEF ctxVars
<1>5. disp'.kind = kind /\ disp'.holds = holds /\ \A k \in 0 .. Ring - 1 : disp'.lists[k] = r.cmds
  BY <1>2
<1>6. X \subseteq Nat
  BY ONLY HandleSpace, holds \in SUBSET Resources,
          X = holds \cup (IF kind = "chain" THEN Owned ELSE {}) \cup {LocalHeap} DEF LocalHeap
<1>7. r.cmds \in RestingLists(Within(X))
  BY <1>6, WithinLists
<1>8. (DispKeeps \cup {LocalHeap})' = X
  BY <1>5 DEF DispKeeps
<1>9. DispOk'
  <2>1. slot' \in 0 .. Ring - 1
    BY <1>2, BatchAssumption
  <2>2. Within(DispKeeps \cup {LocalHeap})' = Within(X)
    BY <1>8 DEF Within
  <2> QED
    BY <1>5, <1>7, <2>1, <2>2 DEF DispOk
<1> QED
  BY <1>1, <1>2, <1>3, <1>4, <1>9 DEF BatchInv

\* The capsule keeps the resources of the operands.
LEMMA HoldsNear ==
  ASSUME HandlesOk, NEW S, NEW a \in Seq(S), Range(a) \subseteq py
  PROVE  /\ HoldsOf(a) \in SUBSET Resources
         /\ \A h \in Range(a) : h \in Near(HoldsOf(a) \cup Owned)
         /\ a \in Seq(Near(HoldsOf(a)))
<1>1. \A h \in py : h \in DOMAIN buf /\ h \in Handles /\ buf[h].res \in Handles /\ h \in Known /\ Res(h) = buf[h].res
  BY HandleSpace DEF HandlesOk, BufOk, Known, Res
<1>2. HoldsOf(a) \in SUBSET Resources
  BY <1>1, HandleSpace DEF HoldsOf
<1>3. \A h \in Range(a) : h \in Near(HoldsOf(a)) /\ h \in Near(HoldsOf(a) \cup Owned)
  BY <1>1 DEF HoldsOf, Near
<1>4. PICK T : T = Near(HoldsOf(a))
  OBVIOUS
<1>5. PICK k : k = Len(a) /\ k \in Nat
  BY LenProperties
<1>6. a \in [1 .. k -> S] /\ \A i \in 1 .. k : a[i] \in T
  BY <1>3, <1>4, <1>5, LenProperties DEF Range
<1>7. a \in [1 .. k -> T]
  BY ONLY <1>6
<1>8. a \in Seq(T)
  BY ONLY <1>5, <1>7, Mapped
<1> QED
  BY <1>2, <1>3, <1>4, <1>8

\* Inputs and output of a plain dispatch that is recorded for later.
LEMMA PreparedPlain ==
  ASSUME HandlesOk, NEW Y, NEW ins \in Seq(Near(Y)), NEW y \in Near(Y), NEW r, r = Plain(Record0, 0, ins, y)
  PROVE  r.cmds \in RestingLists(Y)
<1>1. PICK r0 : r0 = Record0
  OBVIOUS
<1>2. Records(r0, Y, {}) /\ r0.heaps = {} /\ BufOk
  BY <1>1, Starts DEF HandlesOk
<1>3. PICK by : by = 0 /\ by \in Nat
  OBVIOUS
<1>4. r = Plain(r0, by, ins, y)
  BY <1>1, <1>3
<1>5. Kept(r0, r, Y, {})
  BY <1>2, <1>3, <1>4, PlainRecords
<1>6. Recording(r0, r, Y) /\ r.heaps = {}
  BY <1>2, <1>5 DEF Kept, Recording
<1>7. r.cmds \in RestingLists(Y \cup r.heaps)
  BY <1>2, <1>6, RecordedList
<1> QED
  BY <1>6, <1>7

\* A prepared relu.
LEMMA PrepareReluStep ==
  ASSUME BatchInv, NEW a \in Args["unary"], PrepareRelu(a)
  PROVE  BatchInv'
<1>1. HandlesOk
  BY DEF BatchInv
<1>2. PICK r, does, holds : r = Plain(Record0, 0, <<a[1]>>, a[2]) /\ does = <<Effect({a[1]}, a[2])>> /\ holds = HoldsOf(a)
  OBVIOUS
<1>3. Range(a) \subseteq py /\ Keep("relu", r, does, a)
  BY <1>2 DEF PrepareRelu
<1>4. a \in Seq(Handles) /\ Len(a) = 2
  <2>1. "unary" \in DOMAIN Args
    BY ArgsAssumption
  <2>2. a \in Seq(Handles) /\ Len(a) \in Arity("unary")
    BY <2>1, KnownArgs
  <2> QED
    BY <2>2 DEF Arity
<1>5. holds \in SUBSET Resources /\ a \in Seq(Near(holds))
  BY <1>1, <1>2, <1>3, <1>4, HoldsNear
<1>6. a[1] \in Near(holds) /\ a[2] \in Near(holds)
  BY <1>4, <1>5, Operands
<1>7. PICK ins, y : ins = <<a[1]>> /\ y = a[2]
  OBVIOUS
<1>8. ins \in Seq(Near(holds)) /\ y \in Near(holds)
  BY <1>6, <1>7, SmallSeq
<1>9. r.cmds \in RestingLists(holds)
  <2>1. r = Plain(Record0, 0, ins, y)
    BY <1>2, <1>7
  <2> QED
    BY <1>1, <1>8, <2>1, PreparedPlain
<1>10. PICK kind : kind = "relu"
  OBVIOUS
<1>11. PICK X : X = holds \cup (IF kind = "chain" THEN Owned ELSE {}) \cup {LocalHeap}
  OBVIOUS
<1>12. r.cmds \in RestingLists(X)
  BY <1>9, <1>11, ListsIn
<1>13. Keep(kind, r, does, a)
  BY <1>3, <1>10
<1> QED
  BY ONLY BatchInv, <1>2, <1>5, <1>11, <1>12, <1>13, KeepStep

\* A prepared convolution.
LEMMA PrepareConvSiluStep ==
  ASSUME BatchInv, NEW a \in Args["conv_silu"], PrepareConvSilu(a)
  PROVE  BatchInv'
<1>1. HandlesOk
  BY DEF BatchInv
<1>2. PICK r, does, holds : r = ConvSiluInto(Record0, 0, a) /\ does = Meant("conv_silu", a) /\ holds = HoldsOf(a)
  OBVIOUS
<1>3. Range(a) \subseteq py /\ Keep("conv", r, does, a)
  BY <1>2 DEF PrepareConvSilu
<1>4. a \in Seq(Handles) /\ Len(a) = 4
  <2>1. "conv_silu" \in DOMAIN Args
    BY ArgsAssumption
  <2>2. a \in Seq(Handles) /\ Len(a) \in Arity("conv_silu")
    BY <2>1, KnownArgs
  <2> QED
    BY <2>2 DEF Arity
<1>5. holds \in SUBSET Resources /\ a \in Seq(Near(holds))
  BY <1>1, <1>2, <1>3, <1>4, HoldsNear
<1>6. \A i \in 1 .. 4 : a[i] \in Near(holds)
  BY <1>4, <1>5, Operands
<1>7. PICK ins, y : ins = <<a[1], a[2], a[3]>> /\ y = a[4]
  OBVIOUS
<1>8. ins \in Seq(Near(holds)) /\ y \in Near(holds)
  BY <1>6, <1>7, SmallSeq
<1>9. r.cmds \in RestingLists(holds)
  <2>1. r = Plain(Record0, 0, ins, y)
    BY <1>2, <1>7 DEF ConvSiluInto
  <2> QED
    BY <1>1, <1>8, <2>1, PreparedPlain
<1>10. PICK kind : kind = "conv"
  OBVIOUS
<1>11. PICK X : X = holds \cup (IF kind = "chain" THEN Owned ELSE {}) \cup {LocalHeap}
  OBVIOUS
<1>12. r.cmds \in RestingLists(X)
  BY <1>9, <1>11, ListsIn
<1>13. Keep(kind, r, does, a)
  BY <1>3, <1>10
<1> QED
  BY ONLY BatchInv, <1>2, <1>5, <1>11, <1>12, <1>13, KeepStep

\* A prepared chain: the upload and k convolutions through the arena of the chain.
LEMMA PrepareChainStep ==
  ASSUME BatchInv, NEW k \in Nat, NEW w, NEW b, NEW y, PrepareChain(k, w, b, y)
  PROVE  BatchInv'
<1>1. HandlesOk
  BY DEF BatchInv
<1>2. PICK a : a = <<w, b, y>>
  OBVIOUS
<1>3. PICK r, does, holds : r = ChainCommands(Record0, k, w, b, y) /\ does = <<Effect({w, b}, y)>> /\ holds = HoldsOf(a)
  OBVIOUS
<1>4. w \in py /\ b \in py /\ y \in py /\ Keep("chain", r, does, a)
  BY <1>2, <1>3 DEF PrepareChain
<1>5. a \in Seq(py) /\ Range(a) = {w, b, y}
  BY <1>2, <1>4, SmallSeq
<1>6. PICK Y : Y = holds \cup Owned
  OBVIOUS
<1>7. holds \in SUBSET Resources /\ w \in Near(Y) /\ b \in Near(Y) /\ y \in Near(Y)
  BY <1>1, <1>3, <1>4, <1>5, <1>6, HoldsNear
<1>8. \A h \in Owned : h \in Near(Y)
  BY <1>6 DEF Near, Known, Res
<1>9. ChainIn \in Owned /\ Arena[0] \in Owned /\ Arena[1] \in Owned
  BY DEF Owned
<1>10. \A i \in Nat : BlockOutput(i, k, y) \in Near(Y)
  <2>1. ASSUME NEW i \in Nat PROVE BlockOutput(i, k, y) \in Near(Y)
    <3>1. CASE i = k
      BY <1>7, <3>1 DEF BlockOutput
    <3>2. CASE i # k /\ k = 2
      BY <1>8, <1>9, <3>2 DEF BlockOutput
    <3>3. CASE i # k /\ k # 2
      <4>1. PICK j : j = (i - 1) % 2
        OBVIOUS
      <4>2. j = 0 \/ j = 1
        BY ONLY <4>1, i \in Nat
      <4>3. BlockOutput(i, k, y) = Arena[j]
        BY <3>3, <4>1 DEF BlockOutput
      <4> QED
        BY <1>8, <1>9, <4>2, <4>3
    <3> QED
      BY <3>1, <3>2, <3>3
  <2> QED
    BY <2>1
<1>11. \A i \in 1 .. k : BlockInput(i, k, y) \in Near(Y)
  <2>1. ASSUME NEW i \in 1 .. k PROVE BlockInput(i, k, y) \in Near(Y)
    <3>1. CASE i = 1
      BY <1>8, <1>9, <3>1 DEF BlockInput
    <3>2. CASE i # 1
      <4>1. i - 1 \in Nat
        BY <3>2
      <4> QED
        BY <1>10, <3>2, <4>1 DEF BlockInput
    <3> QED
      BY <3>1, <3>2
  <2> QED
    BY <2>1
<1> DEFINE block(i) == ConvSiluInto(Record0, 0, <<BlockInput(i, k, y), w, b, BlockOutput(i, k, y)>>)
<1>12. ASSUME NEW i \in 1 .. k PROVE block(i).cmds \in RestingLists(Y)
  <2>1. PICK in, out, c : in = BlockInput(i, k, y) /\ out = BlockOutput(i, k, y) /\ c = block(i)
    OBVIOUS
  <2>2. in \in Near(Y) /\ out \in Near(Y)
    BY <1>10, <1>11, <2>1
  <2>3. PICK ins : ins = <<in, w, b>>
    OBVIOUS
  <2>4. ins \in Seq(Near(Y))
    BY <1>7, <2>2, <2>3, SmallSeq
  <2>5. c = Plain(Record0, 0, ins, out)
    BY <2>1, <2>3 DEF ConvSiluInto
  <2>6. c.cmds \in RestingLists(Y)
    BY <1>1, <2>2, <2>4, <2>5, PreparedPlain
  <2> QED
    BY <2>1, <2>6
<1> HIDE DEF block
<1>13. PICK v : v = [i \in 1 .. k |-> block(i).cmds]
  OBVIOUS
<1>14. v \in [1 .. k -> RestingLists(Y)]
  BY <1>12, <1>13
<1>15. FlattenSeq(v) \in RestingLists(Y)
  BY <1>14, FlatLists
<1>16. PICK X : X = holds \cup Owned \cup {LocalHeap}
  OBVIOUS
<1>17. PICK cells, up : /\ cells = Elements(ChainIn)
                        /\ up = <<Barrier(ChainIn, "COMMON", "COPY_DEST"), Fill(0, LocalHeap, cells),
                                  Barrier(ChainIn, "COPY_DEST", "COMMON")>>
  OBVIOUS
<1>18. up \in RestingLists(X)
  <2>1. ChainIn \in Resources /\ ChainIn \in X /\ LocalHeap \in Nat /\ LocalHeap \in X
    BY <1>9, <1>16, HandleSpace DEF LocalHeap
  <2>2. cells \in SUBSET Cells /\ ResourcesOf(cells) \subseteq {ChainIn}
    <3>1. BufOk /\ ChainIn \in Known /\ Res(ChainIn) = ChainIn
      BY <1>1, <1>9 DEF HandlesOk, Known, Res
    <3>2. cells \subseteq Cells /\ ResourcesOf(cells) \subseteq {Res(ChainIn)}
      BY <1>17, <3>1, CellSpace
    <3> QED
      BY <3>1, <3>2
  <2>3. PICK x, heap, by : x = ChainIn /\ heap = LocalHeap /\ by = 0
    OBVIOUS
  <2>4. /\ x \in Resources /\ x \in X /\ by \in Nat /\ heap \in Nat /\ heap \in X
        /\ cells \in SUBSET Cells /\ ResourcesOf(cells) \subseteq {x}
        /\ up = <<Barrier(x, "COMMON", "COPY_DEST"), Fill(by, heap, cells), Barrier(x, "COPY_DEST", "COMMON")>>
    BY <1>17, <2>1, <2>2, <2>3
  <2> QED
    BY ONLY <2>4, CopyList
<1>19. PICK f : f = FlattenSeq(v)
  OBVIOUS
<1>20. f \in RestingLists(X)
  BY <1>6, <1>15, <1>16, <1>19, ListsIn
<1>21. r.cmds = up \o f
  <2>1. PICK r0 : r0 = Record0
    OBVIOUS
  <2>2. r0 = [cmds |-> r0.cmds, st |-> r0.st, heaps |-> r0.heaps]
    BY <2>1 DEF Record0
  <2>3. r = [r0 EXCEPT !.cmds = up \o f]
    BY <1>3, <1>13, <1>17, <1>19, <2>1 DEF ChainCommands, block
  <2> QED
    BY <2>2, <2>3
<1>22. r.cmds \in RestingLists(X)
  BY <1>18, <1>20, <1>21, JoinedLists
<1>23. PICK kind : kind = "chain"
  OBVIOUS
<1>24. X = holds \cup (IF kind = "chain" THEN Owned ELSE {}) \cup {LocalHeap} /\ Keep(kind, r, does, a)
  BY <1>4, <1>16, <1>23
<1> QED
  BY ONLY BatchInv, <1>3, <1>7, <1>22, <1>24, KeepStep

\* The next list of the prepared dispatch is executed.
LEMMA ExecuteDispatchStep ==
  ASSUME BatchInv, ExecuteDispatch
  PROVE  BatchInv'
<1>1. HandlesOk /\ GpuOk /\ ListOk /\ GraphOk /\ DispOk /\ calls \in Nat
  BY DEF BatchInv
<1>2. PICK n, c, H, X : n = calls + 1 /\ c = disp.lists[slot] /\ H = {LocalHeap} /\ X = DispKeeps \cup {LocalHeap}
  OBVIOUS
<1>3. /\ disp.kind # "none" /\ calls' = n /\ n \in Nat /\ Submit(c, n, H)
      /\ slot' = (IF disp.kind = "chain" THEN NextSlot(slot) ELSE slot)
      /\ UNCHANGED <<buf, py, state, ctxVars, graph, disp>>
  BY <1>1, <1>2 DEF ExecuteDispatch, NextCall
<1>4. HandlesOk' /\ PyRes' = PyRes
  BY <1>1, <1>3 DEF HandlesOk, BufOk, PyRes
<1>5. GraphOk' /\ ListOk'
  BY <1>1, <1>3, <1>4, GraphStays, ListStays DEF ctxVars
<1>6. GpuOk'
  <2>1. X \subseteq Live \cup H /\ H \in SUBSET Nat
    BY <1>1, <1>2, KeptSpace DEF LocalHeap
  <2>2. c \in RestingLists(Within(X))
    <3>1. slot \in 0 .. Ring - 1 /\ \A k \in 0 .. Ring - 1 : disp.lists[k] \in RestingLists(Within(DispKeeps \cup {LocalHeap}))
      BY <1>1, <1>3 DEF DispOk
    <3>2. disp.lists[slot] \in RestingLists(Within(DispKeeps \cup {LocalHeap}))
      BY ONLY <3>1
    <3> QED
      BY ONLY <1>2, <3>2
  <2> QED
    BY <1>1, <1>3, <2>1, <2>2, SubmitStep
<1>7. slot' \in 0 .. Ring - 1
  <2>1. Ring \in Nat \ {0} /\ slot \in 0 .. Ring - 1
    BY <1>1, BatchAssumption DEF DispOk
  <2>2. (slot + 1) % Ring \in 0 .. Ring - 1
    BY ONLY <2>1
  <2> QED
    BY <1>3, <2>1, <2>2 DEF NextSlot
<1>8. DispOk'
  <2>1. DispKeeps' = DispKeeps
    BY <1>3 DEF DispKeeps
  <2> QED
    BY <1>1, <1>3, <1>7, <2>1 DEF DispOk, Within
<1> QED
  BY <1>3, <1>4, <1>5, <1>6, <1>8 DEF BatchInv

\* It holds initially,
LEMMA BatchInit ==
  ASSUME Init
  PROVE  BatchInv
<1>1. HandlesOk
  <2>1. BufOk
    BY BatchAssumption DEF Init, BufOk, Handles
  <2>2. state = Resting
    BY DEF Init, Resting, Resources
  <2> QED
    BY <2>1, <2>2 DEF Init, HandlesOk
<1>2. GpuOk
  <2>1. gpu = Resting /\ mem = [c \in Cells |-> {}] /\ faults = {}
    BY DEF Init, Resting
  <2> QED
    BY <2>1 DEF GpuOk
<1>3. ListOk
  <2>1. list = Closed /\ saved = Closed /\ heaps = {}
    BY DEF Init
  <2>2. list.cmds = <<>> /\ list = [open |-> list.open, cmds |-> list.cmds, does |-> list.does]
    BY <2>1 DEF Closed
  <2> QED
    BY <2>1, <2>2, EmptyList DEF ListOk
<1>4. GraphOk
  <2>1. graph.cmds = <<>> /\ graph.heaps = {}
    BY DEF Init, NoGraph
  <2> QED
    BY <2>1, EmptyList DEF GraphOk
<1>5. DispOk
  <2>1. disp.kind = "none" /\ disp.holds = {} /\ slot = 0
    BY DEF Init, NoPrepared
  <2> QED
    BY <2>1, BatchAssumption DEF DispOk
<1> QED
  BY <1>1, <1>2, <1>3, <1>4, <1>5 DEF Init, BatchInv

\* and every call keeps it.
LEMMA BatchNext ==
  ASSUME BatchInv, [Next]_vars
  PROVE  BatchInv'
<1>1. CASE Dispatches
  <2>1. PICK kind \in DOMAIN Args : \E a \in Args[kind] : Invoke(kind, a)
    BY <1>1 DEF Dispatches
  <2> QED
    BY <2>1, InvokeStep
<1>2. CASE \E h \in Handles : UploadInto(h) \/ Download(h) \/ Allocate(h) \/ UploadNew(h) \/ Drop(h)
  BY <1>2, UploadIntoStep, DownloadStep, AllocateStep, UploadNewStep, DropStep
<1>3. CASE \E h \in Spare, p \in Handles, n \in 1 .. Width : CreateView(h, p, n)
  BY <1>3, CreateViewStep
<1>4. CASE BeginBatch
  BY <1>4, BeginBatchStep
<1>5. CASE EndBatch
  BY <1>5, EndBatchStep
<1>6. CASE BeginPrepared
  BY <1>6, BeginPreparedStep
<1>7. CASE EndPrepared
  BY <1>7, EndPreparedStep
<1>8. CASE ExecutePrepared
  BY <1>8, ExecutePreparedStep
<1>9. CASE Prepares
  <2>1. CASE \E a \in Args["unary"] : PrepareRelu(a)
    BY <2>1, PrepareReluStep
  <2>2. CASE \E a \in Args["conv_silu"] : PrepareConvSilu(a)
    BY <2>2, PrepareConvSiluStep
  <2>3. CASE \E a \in Args["conv_silu"] : \E k \in Depths : PrepareChain(k, a[2], a[3], a[4])
    <3>1. PICK a \in Args["conv_silu"], k \in Depths : PrepareChain(k, a[2], a[3], a[4])
      BY <2>3
    <3>2. k \in Nat
      BY BatchAssumption
    <3> QED
      BY <3>1, <3>2, PrepareChainStep
  <2> QED
    BY <1>9, <2>1, <2>2, <2>3 DEF Prepares
<1>10. CASE ExecuteDispatch
  BY <1>10, ExecuteDispatchStep
<1>11. CASE UNCHANGED vars
  BY <1>11 DEF vars, ctxVars, gpuVars, BatchInv, HandlesOk, BufOk, GpuOk, ListOk, GraphOk, DispOk, DispKeeps, PyRes, Within
<1> QED
  BY <1>1, <1>2, <1>3, <1>4, <1>5, <1>6, <1>7, <1>8, <1>9, <1>10, <1>11 DEF Next

------------------------------------------------------------------------------
(* What lists do wrong                                                        *)

\* The states f of the resources are those the handles say: a handle that is away
\* from COMMON is right about its resource.
Poised(f, st) ==
  /\ \A h \in Known : st[h] # "COMMON" => f[Res(h)] = st[h]
  /\ Follows(f, st)

\* What a list made of machine m: no fault but those of t, and what is written
\* without a barrier since is in the resources W.
Running(m, n, st, t, W) ==
  /\ Poised(n.state, st) /\ n.faults \subseteq m.faults \cup t
  /\ \A x \in n.dirty : x[1] \in W

\* The list recorded so far, executed from rest.
Sound(r, t, W) ==
  \A m, by : m \in Machine(Resources, Cells) /\ by \in Nat /\ AtRest(Resources, m)
    => Running(m, Ran(m, r.cmds, by), r.st, t, W)

\* The other handles of the resources of hs do not stand in another state than s.
Fitting(st, hs, s) ==
  \A h \in Range(hs), g \in Known : Res(g) = Res(h) /\ g \notin Range(hs) => st[g] \in {"COMMON", s}

\* hs name each resource once and its other handles rest.
Single(st, hs) ==
  /\ \A i, j \in 1 .. Len(hs) : Res(hs[i]) = Res(hs[j]) => i = j
  /\ \A i \in 1 .. Len(hs) : \A g \in Known : Res(g) = Res(hs[i]) /\ g # hs[i] => st[g] = "COMMON"

\* The resources of the handles of hs that turn to s.
Moved(st, hs, s) == {Res(h) : h \in {g \in Range(hs) : st[g] # s}}

\* A recorder after the handles hs have entered s.
Entered(r, q, hs, s, t, W) ==
  /\ q \in Recorder(Nat) /\ q.heaps = r.heaps
  /\ q.st = [h \in Resources |-> IF h \in Range(hs) THEN s ELSE r.st[h]]
  /\ Sound(q, t, W \ Moved(r.st, hs, s))

\* Handles enter a state and say so truly; the transitions start from the states
\* the resources are in when hs name each resource once.
LEMMA TurnSound ==
  ASSUME BufOk, NEW r \in Recorder(Nat), NEW t, NEW W, Sound(r, t, W), NEW hs \in Seq(Known), NEW s \in States,
         Fitting(r.st, hs, s), "misstated" \in t \/ Single(r.st, hs), NEW q, q = EnterAll(r, hs, s)
  PROVE  Entered(r, q, hs, s, t, W)
<1>1. r.st \in [Resources -> States] /\ r.cmds \in Seq(BatchCommands(Nat))
  BY DEF Recorder
<1>2. PICK to : to = [h \in DOMAIN r.st |-> s]
  OBVIOUS
<1>3. to \in [Resources -> States] /\ \A h \in Resources : to[h] = s
  BY <1>1, <1>2
<1>4. q = Turn(r, hs, to)
  BY <1>2 DEF EnterAll
<1>5. /\ Len(hs) \in Nat /\ DOMAIN hs = 1 .. Len(hs)
      /\ \A i \in 1 .. Len(hs) : hs[i] \in Known /\ hs[i] \in Resources /\ Res(hs[i]) \in Resources /\ hs[i] \in Range(hs)
  <2>1. Len(hs) \in Nat /\ DOMAIN hs = 1 .. Len(hs) /\ \A i \in 1 .. Len(hs) : hs[i] \in Known
    BY LenProperties, ElementOfSeq
  <2> QED
    BY <2>1, CellSpace DEF Range
<1>6. \A i \in 1 .. Len(hs) : Res(hs[i]) \in Nat
  BY <1>5, HandleSpace
<1>7. q \in Recorder(Nat) /\ TurnDone(r, hs, to, q)
  BY ONLY BufOk, r \in Recorder(Nat), hs \in Seq(Known), <1>3, <1>4, <1>6, TurnStep
<1>8. q.st = [h \in Resources |-> IF h \in Range(hs) THEN s ELSE r.st[h]] /\ q.heaps = r.heaps
  BY <1>3, <1>7 DEF TurnDone
<1>9. PICK bs, g : /\ bs \in Seq(TransitionsOn(Resources)) /\ TurnedBy(hs, r.st, to, bs, g)
                   /\ q.cmds = r.cmds \o bs
  BY <1>7 DEF TurnDone
<1>10. \A k \in 1 .. Len(bs) : /\ bs[k].res = Res(hs[g[k]]) /\ bs[k].to = s /\ g[k] \in 1 .. Len(hs)
                               /\ bs[k].from = r.st[hs[g[k]]] /\ r.st[hs[g[k]]] # s
  BY <1>3, <1>5, <1>9 DEF TurnedBy
<1>11. Barred(bs) = Moved(r.st, hs, s)
  <2>1. \A x \in Barred(bs) : x \in Moved(r.st, hs, s)
    BY <1>5, <1>10 DEF Barred, Moved
  <2>2. ASSUME NEW h \in Range(hs), r.st[h] # s PROVE Res(h) \in Barred(bs)
    <3>1. PICK i \in 1 .. Len(hs) : h = hs[i]
      BY <1>5 DEF Range
    <3>2. to[hs[i]] = s
      BY <1>3, <1>5
    <3>3. PICK k \in 1 .. Len(bs) : g[k] = i
      BY <1>9, <2>2, <3>1, <3>2 DEF TurnedBy
    <3> QED
      BY <1>10, <3>1, <3>3 DEF Barred
  <2> QED
    BY <2>1, <2>2 DEF Moved
<1>12. ASSUME NEW m, NEW by, m \in Machine(Resources, Cells), by \in Nat, AtRest(Resources, m)
       PROVE  Running(m, Ran(m, q.cmds, by), q.st, t, W \ Moved(r.st, hs, s))
  <2>1. PICK p, n : p = Ran(m, r.cmds, by) /\ n = Ran(p, bs, by)
    OBVIOUS
  <2>2. Ran(m, q.cmds, by) = n
    <3> DEFINE T == BatchCommands(Nat) \cup TransitionsOn(Resources)
    <3>1. r.cmds \in Seq(T) /\ bs \in Seq(T)
      BY <1>1, <1>9, SeqMonotonic
    <3> HIDE DEF T
    <3> QED
      BY <1>9, <2>1, <3>1, RanConcat
  <2>3. p \in Machine(Resources, Cells) /\ Running(m, p, r.st, t, W)
    BY <1>1, <1>12, <2>1, AnyRun DEF Sound
  <2>4. /\ n.dirty = {x \in p.dirty : x[1] \notin Barred(bs)}
        /\ n.faults \subseteq p.faults \cup {"misstated"}
        /\ \A x \in Resources \ Barred(bs) : n.state[x] = p.state[x]
        /\ \A x \in Barred(bs) : \E i \in 1 .. Len(bs) : bs[i].res = x /\ n.state[x] = bs[i].to
        /\ (\A i \in 1 .. Len(bs) : /\ p.state[bs[i].res] = bs[i].from
                                   /\ \A j \in 1 .. i - 1 : bs[j].res # bs[i].res)
           => n.faults = p.faults
    <3>1. bs \in Seq(TransitionsOn(Resources)) /\ p \in Machine(Resources, Cells) /\ n = Ran(p, bs, by)
      BY <1>9, <2>1, <2>3
    <3> QED
      BY ONLY <3>1, BarriersRun
  <2>5. Poised(p.state, r.st)
    BY <2>3 DEF Running
  <2>6. \A x \in Barred(bs) : n.state[x] = s
    BY <1>10, <2>4
  <2>7. ASSUME NEW h \in Known, q.st[h] # "COMMON" PROVE n.state[Res(h)] = q.st[h]
    <3>1. h \in Resources /\ Res(h) \in Resources
      BY CellSpace
    <3>2. CASE Res(h) \in Barred(bs)
      <4>1. PICK k \in Range(hs) : Res(h) = Res(k)
        BY <1>11, <3>2 DEF Moved
      <4>2. q.st[h] = s
        BY <1>8, <2>7, <3>1, <4>1 DEF Fitting
      <4> QED
        BY <2>6, <3>2, <4>2
    <3>3. CASE Res(h) \notin Barred(bs)
      <4>1. q.st[h] = r.st[h]
        BY <1>8, <1>11, <3>1, <3>3 DEF Moved
      <4> QED
        BY <2>4, <2>5, <2>7, <3>1, <3>3, <4>1 DEF Poised
    <3> QED
      BY <3>2, <3>3
  <2>8. ASSUME NEW x \in Resources, n.state[x] # "COMMON"
        PROVE  \E h \in Known : Res(h) = x /\ q.st[h] # "COMMON"
    <3>1. CASE x \in Barred(bs)
      <4>1. PICK h \in Range(hs) : Res(h) = x
        BY <1>11, <3>1 DEF Moved
      <4>2. h \in Known /\ h \in Resources
        BY <1>5, <4>1 DEF Range
      <4> QED
        BY <1>8, <2>6, <2>8, <3>1, <4>1, <4>2
    <3>2. CASE x \notin Barred(bs)
      <4>1. PICK h \in Known : Res(h) = x /\ r.st[h] # "COMMON"
        BY <2>4, <2>5, <2>8, <3>2 DEF Poised, Follows
      <4>2. h \in Resources
        BY CellSpace
      <4>3. q.st[h] = r.st[h]
        BY <1>8, <1>11, <3>2, <4>1, <4>2 DEF Moved
      <4> QED
        BY <4>1, <4>3
    <3> QED
      BY <3>1, <3>2
  <2>9. n.faults \subseteq m.faults \cup t
    <3>1. p.faults \subseteq m.faults \cup t
      BY <2>3 DEF Running
    <3>2. CASE "misstated" \in t
      BY <2>4, <3>1, <3>2
    <3>3. CASE Single(r.st, hs)
      <4>1. ASSUME NEW i \in 1 .. Len(bs) PROVE p.state[bs[i].res] = bs[i].from
        <5>1. PICK h, j : j = g[i] /\ h = hs[j]
          OBVIOUS
        <5>2. /\ j \in 1 .. Len(hs) /\ h \in Known /\ h \in Resources /\ Res(h) \in Resources
              /\ bs[i].res = Res(h) /\ bs[i].from = r.st[h]
          BY <1>5, <1>10, <5>1
        <5>3. CASE r.st[h] # "COMMON"
          BY <2>5, <5>2, <5>3 DEF Poised
        <5>4. CASE r.st[h] = "COMMON"
          <6>1. \A k \in Known : Res(k) = Res(h) => r.st[k] = "COMMON"
            BY <3>3, <5>1, <5>2, <5>4 DEF Single
          <6> QED
            BY <2>5, <5>2, <5>4, <6>1 DEF Poised, Follows
        <5> QED
          BY <5>3, <5>4
      <4>2. ASSUME NEW i \in 1 .. Len(bs), NEW j \in 1 .. i - 1 PROVE bs[j].res # bs[i].res
        <5>1. j \in 1 .. Len(bs)
          BY <1>9, LenProperties
        <5>2. g[j] < g[i] /\ g[i] \in 1 .. Len(hs) /\ g[j] \in 1 .. Len(hs)
          BY <1>9, <4>2, <5>1 DEF TurnedBy
        <5>3. PICK a, b : a = g[j] /\ b = g[i]
          OBVIOUS
        <5>4. a # b /\ a \in 1 .. Len(hs) /\ b \in 1 .. Len(hs)
          BY <1>5, <5>2, <5>3
        <5>5. bs[j].res = Res(hs[a]) /\ bs[i].res = Res(hs[b])
          BY <1>10, <5>1, <5>3
        <5> QED
          BY <3>3, <5>4, <5>5 DEF Single
      <4> QED
        BY <2>4, <3>1, <4>1, <4>2
    <3> QED
      BY <3>2, <3>3
  <2>10. \A x \in n.dirty : x[1] \in W \ Moved(r.st, hs, s)
    BY <1>11, <2>3, <2>4 DEF Running
  <2> QED
    BY <2>2, <2>7, <2>8, <2>9, <2>10 DEF Running, Poised, Follows
<1>13. Sound(q, t, W \ Moved(r.st, hs, s))
  BY <1>12 DEF Sound
<1> QED
  BY <1>7, <1>8, <1>13 DEF Entered

\* Some handle of each resource of the cells says s.
Standing(st, cells, s) == \A x \in ResourcesOf(cells) : \E h \in Known : Res(h) = x /\ st[h] = s

\* None of the cells lies in a resource of W.
Untouched(W, cells) == \A x \in ResourcesOf(cells) : x \notin W

\* A dispatch reads resources whose handles say SRV, writes those whose handles say
\* UAV and touches nothing an earlier dispatch has written.
LEMMA RunSound ==
  ASSUME BufOk, NEW r \in Recorder(Nat), NEW t, NEW W, Sound(r, t, W), NEW by \in Nat,
         NEW in \in SUBSET Cells, NEW out \in SUBSET Cells,
         Standing(r.st, in, "SRV"), Standing(r.st, out, "UAV"), Untouched(W, in), Untouched(W, out),
         NEW q, q = Add(r, Run(by, in, out))
  PROVE  /\ q \in Recorder(Nat) /\ q.heaps = r.heaps /\ q.st = r.st
         /\ Sound(q, t, W \cup ResourcesOf(out))
<1>1. r.cmds \in Seq(BatchCommands(Nat))
  BY DEF Recorder
<1>2. PICK c : c = Run(by, in, out)
  OBVIOUS
<1>3. c \in RunsOf(Cells) /\ c.in = in /\ c.out = out /\ c.op = "run"
  <2>1. c.in = in /\ c.out = out /\ c.op = "run"
    BY <1>2 DEF Run
  <2>2. c \in RunsOf(Cells)
    BY <1>2 DEF RunsOf
  <2> QED
    BY <2>1, <2>2
<1>4. c \in BatchCommands(Nat)
  <2>1. Touched(c) \subseteq Nat
    BY <1>3, HandleSpace DEF Touched, ResourcesOf, Cells
  <2> QED
    BY <1>3, <2>1 DEF BatchCommands, Commands
<1>5. Append(r.cmds, c) \in Seq(BatchCommands(Nat))
  BY <1>1, <1>4, AppendProperties
<1>6. q = [cmds |-> Append(r.cmds, c), st |-> r.st, heaps |-> r.heaps]
  BY <1>2 DEF Add, Recorder
<1>7. q \in Recorder(Nat) /\ q.heaps = r.heaps /\ q.st = r.st /\ q.cmds = Append(r.cmds, c)
  BY <1>5, <1>6 DEF Recorder
<1>8. ASSUME NEW m, NEW k, m \in Machine(Resources, Cells), k \in Nat, AtRest(Resources, m)
      PROVE  Running(m, Ran(m, q.cmds, k), q.st, t, W \cup ResourcesOf(out))
  <2>1. PICK p, n : p = Ran(m, r.cmds, k) /\ n = ExecCommand(p, c, k)
    OBVIOUS
  <2>2. Ran(m, q.cmds, k) = n
    <3> DEFINE T == BatchCommands(Nat)
    <3>1. r.cmds \in Seq(T) /\ c \in T
      BY <1>1, <1>4
    <3> HIDE DEF T
    <3> QED
      BY <1>7, <2>1, <3>1, RanAppend
  <2>3. p \in Machine(Resources, Cells) /\ Running(m, p, r.st, t, W)
    BY <1>1, <1>8, <2>1, AnyRun DEF Sound
  <2>4. RunDone(Cells, p, c, k, n)
    BY ONLY <1>3, <1>8, <2>1, <2>3, RunStep
  <2>5. (c.in \cup c.out) \cap p.dirty = {}
    BY <1>3, <2>3 DEF Running, ResourcesOf, Untouched
  <2>6. AllIn(p, c.in, "SRV") /\ AllIn(p, c.out, "UAV")
    BY <1>3, <2>3 DEF Running, Poised, AllIn, Standing
  <2>7. n.state = p.state /\ n.faults = p.faults /\ n.dirty = p.dirty \cup out
    BY <1>3, <2>4, <2>5, <2>6 DEF RunDone
  <2> QED
    BY <1>7, <2>2, <2>3, <2>7 DEF Running, ResourcesOf
<1> QED
  BY <1>7, <1>8 DEF Sound

\* The fills go to resources whose handles say COPY_DEST.
Filling(st, fs) == \A i \in 1 .. Len(fs) : Standing(st, fs[i].out, "COPY_DEST")

\* A recorder that has recorded more and not turned a handle.
Filled(r, q, t, W) == q \in Recorder(Nat) /\ q.st = r.st /\ Sound(q, t, W)

\* Fills of resources whose handles say COPY_DEST.
LEMMA FillsSound ==
  ASSUME BufOk, NEW r \in Recorder(Nat), NEW t, NEW W, Sound(r, t, W),
         NEW fs \in Seq(FillsOf(Cells)), NEW H \in SUBSET Nat,
         Filling(r.st, fs),
         NEW q, q = [cmds |-> r.cmds \o fs, st |-> r.st, heaps |-> r.heaps \cup H]
  PROVE  Filled(r, q, t, W)
<1>1. r.cmds \in Seq(BatchCommands(Nat))
  BY DEF Recorder
<1>2. \A c \in FillsOf(Cells) : c \in BatchCommands(Nat) /\ c.op = "fill"
  <2>1. ASSUME NEW c \in FillsOf(Cells) PROVE c \in BatchCommands(Nat) /\ c.op = "fill"
    <3>1. c.op = "fill" /\ c.heap \in Nat /\ c.out \in SUBSET Cells
      BY DEF FillsOf, Fill
    <3>2. Touched(c) \subseteq Nat
      BY <3>1, HandleSpace DEF Touched, ResourcesOf, Cells
    <3> QED
      BY <3>1, <3>2 DEF BatchCommands, Commands
  <2> QED
    BY <2>1
<1>3. fs \in Seq(BatchCommands(Nat)) /\ Len(fs) \in Nat
  BY <1>2, SeqMonotonic, LenProperties
<1>4. r.cmds \o fs \in Seq(BatchCommands(Nat))
  BY <1>1, <1>3, ConcatProperties
<1>6. q \in Recorder(Nat) /\ q.st = r.st /\ q.cmds = r.cmds \o fs
  BY <1>4 DEF Recorder
<1>7. ASSUME NEW m, NEW k, m \in Machine(Resources, Cells), k \in Nat, AtRest(Resources, m)
      PROVE  Running(m, Ran(m, q.cmds, k), q.st, t, W)
  <2>1. PICK p, n : p = Ran(m, r.cmds, k) /\ n = Ran(p, fs, k)
    OBVIOUS
  <2>2. Ran(m, q.cmds, k) = n
    <3> DEFINE T == BatchCommands(Nat)
    <3>1. r.cmds \in Seq(T) /\ fs \in Seq(T)
      BY <1>1, <1>3
    <3> HIDE DEF T
    <3> QED
      BY <1>6, <2>1, <3>1, RanConcat
  <2>3. p \in Machine(Resources, Cells) /\ Running(m, p, r.st, t, W)
    BY <1>1, <1>7, <2>1, AnyRun DEF Sound
  <2>4. /\ n.state = p.state /\ n.dirty = p.dirty
        /\ CopiesFit(p, fs) => n.faults = p.faults
    BY ONLY <1>7, <2>1, <2>3, fs \in Seq(FillsOf(Cells)), FillsRun
  <2>5. CopiesFit(p, fs)
    BY <2>3 DEF Running, Poised, AllIn, CopiesFit, Standing, Filling
  <2> QED
    BY <1>6, <2>2, <2>3, <2>4, <2>5 DEF Running
<1> QED
  BY <1>6, <1>7 DEF Sound, Filled

\* A UAV barrier: what was written in its resource is done.
LEMMA UavSound ==
  ASSUME BufOk, NEW r \in Recorder(Nat), NEW t, NEW W, Sound(r, t, W), NEW x \in Resources,
         NEW q, q = Add(r, UavBarrier(x))
  PROVE  q \in Recorder(Nat) /\ q.heaps = r.heaps /\ q.st = r.st /\ Sound(q, t, W \ {x})
<1>1. r.cmds \in Seq(BatchCommands(Nat))
  BY DEF Recorder
<1>2. PICK c : c = UavBarrier(x)
  OBVIOUS
<1>3. c.op = "uav" /\ c.res = x
  BY <1>2 DEF UavBarrier
<1>4. c \in BatchCommands(Nat)
  <2>1. Touched(c) \subseteq Nat
    BY <1>3, HandleSpace DEF Touched
  <2> QED
    BY <1>2, <2>1 DEF BatchCommands
<1>5. Append(r.cmds, c) \in Seq(BatchCommands(Nat))
  BY <1>1, <1>4, AppendProperties
<1>6. q = [cmds |-> Append(r.cmds, c), st |-> r.st, heaps |-> r.heaps]
  BY <1>2 DEF Add, Recorder
<1>7. q \in Recorder(Nat) /\ q.heaps = r.heaps /\ q.st = r.st /\ q.cmds = Append(r.cmds, c)
  BY <1>5, <1>6 DEF Recorder
<1>8. ASSUME NEW m, NEW k, m \in Machine(Resources, Cells), k \in Nat, AtRest(Resources, m)
      PROVE  Running(m, Ran(m, q.cmds, k), q.st, t, W \ {x})
  <2>1. PICK p, n : p = Ran(m, r.cmds, k) /\ n = ExecCommand(p, c, k)
    OBVIOUS
  <2>2. Ran(m, q.cmds, k) = n
    <3> DEFINE T == BatchCommands(Nat)
    <3>1. r.cmds \in Seq(T) /\ c \in T
      BY <1>1, <1>4
    <3> HIDE DEF T
    <3> QED
      BY <1>7, <2>1, <3>1, RanAppend
  <2>3. p \in Machine(Resources, Cells) /\ Running(m, p, r.st, t, W)
    BY <1>1, <1>8, <2>1, AnyRun DEF Sound
  <2>4. n = ExecCommand(p, UavBarrier(x), k)
    BY <1>2, <2>1
  <2>5. n.state = p.state /\ n.faults = p.faults /\ n.dirty = {y \in p.dirty : y[1] # x}
    BY ONLY <2>3, <2>4, UavStep
  <2> QED
    BY <1>7, <2>2, <2>3, <2>5 DEF Running
<1> QED
  BY <1>7, <1>8 DEF Sound

\* The handles in I, O and K stand in SRV, UAV and COPY_DEST, the others rest.
Poses(I, O, K) ==
  [h \in Resources |-> IF h \in I THEN "SRV" ELSE IF h \in O THEN "UAV" ELSE IF h \in K THEN "COPY_DEST" ELSE "COMMON"]

\* No resource of a handle in A is one of B.
Apart(A, B) == \A h \in A, g \in B : Res(h) # Res(g)

\* A recorder in such a pose, with W written since the last barrier.
Posed(r, t, W, I, O, K) ==
  /\ r \in Recorder(Nat) /\ Sound(r, t, W) /\ r.st = Poses(I, O, K)
  /\ I \subseteq Known /\ O \subseteq Known /\ K \subseteq Known
  /\ Apart(I, O) /\ Apart(I, K) /\ Apart(O, K)

\* hs name each resource once.
Once(hs) == \A i, j \in 1 .. Len(hs) : Res(hs[i]) = Res(hs[j]) => i = j

\* The transitions of hs start from the states the resources are in, or need not.
Stated(hs, A, t) == "misstated" \in t \/ (Once(hs) /\ Apart(Range(hs), A \ Range(hs)))

\* What Posed says of the handles, for the provers.
LEMMA PoseFacts ==
  ASSUME BufOk, NEW hs \in Seq(Known)
  PROVE  /\ Range(hs) \subseteq Known /\ Known \subseteq Resources
         /\ \A i \in 1 .. Len(hs) : hs[i] \in Range(hs) /\ hs[i] \in Known
         /\ \A h \in Range(hs) : \E i \in 1 .. Len(hs) : h = hs[i]
<1>1. Len(hs) \in Nat /\ DOMAIN hs = 1 .. Len(hs) /\ \A i \in 1 .. Len(hs) : hs[i] \in Known
  BY LenProperties, ElementOfSeq
<1> QED
  BY <1>1, CellSpace DEF Range

\* hs name each resource once and nothing else of it is away from COMMON.
LEMMA StatedSingle ==
  ASSUME BufOk, NEW st, NEW hs \in Seq(Known), NEW A, Once(hs), Apart(Range(hs), A \ Range(hs)),
         \A h \in Known : h \notin A => st[h] = "COMMON"
  PROVE  Single(st, hs)
<1>1. ASSUME NEW i \in 1 .. Len(hs), NEW g \in Known, Res(g) = Res(hs[i]), g # hs[i]
      PROVE  st[g] = "COMMON"
  <2>1. g \notin Range(hs)
    BY <1>1, PoseFacts DEF Once
  <2> QED
    BY <1>1, <2>1, PoseFacts DEF Apart
<1> QED
  BY <1>1 DEF Once, Single

\* Handles enter SRV.
LEMMA PoseRead ==
  ASSUME BufOk, NEW r, NEW t, NEW W, NEW I, NEW O, NEW K, Posed(r, t, W, I, O, K), NEW hs \in Seq(Known),
         Apart(Range(hs), (O \cup K) \ Range(hs)), Stated(hs, I \cup O \cup K, t), NEW q, q = EnterAll(r, hs, "SRV")
  PROVE  /\ Posed(q, t, W \ {Res(h) : h \in Range(hs) \ I}, I \cup Range(hs), O \ Range(hs), K \ Range(hs))
         /\ q.heaps = r.heaps
<1>1. r \in Recorder(Nat) /\ Sound(r, t, W) /\ r.st = Poses(I, O, K)
  BY DEF Posed
<1>2. Range(hs) \subseteq Known /\ Known \subseteq Resources
  BY PoseFacts
<1>3. Fitting(r.st, hs, "SRV")
  BY <1>1, <1>2 DEF Fitting, Poses, Apart
<1>4. "misstated" \in t \/ Single(r.st, hs)
  <2>1. \A h \in Known : h \notin I \cup O \cup K => r.st[h] = "COMMON"
    BY <1>1, <1>2 DEF Poses
  <2> QED
    BY <2>1, StatedSingle DEF Stated
<1>5. Entered(r, q, hs, "SRV", t, W)
  BY <1>1, <1>3, <1>4, TurnSound DEF States
<1>6. q.st = Poses(I \cup Range(hs), O \ Range(hs), K \ Range(hs))
  BY <1>1, <1>2, <1>5 DEF Entered, Poses
<1>7. Moved(r.st, hs, "SRV") = {Res(h) : h \in Range(hs) \ I}
  <2>1. \A h \in Range(hs) : r.st[h] # "SRV" <=> h \notin I
    BY <1>1, <1>2 DEF Poses
  <2> QED
    BY <2>1 DEF Moved
<1>8. Apart(I \cup Range(hs), O \ Range(hs)) /\ Apart(I \cup Range(hs), K \ Range(hs)) /\ Apart(O \ Range(hs), K \ Range(hs))
  BY DEF Posed, Apart
<1> QED
  BY <1>2, <1>5, <1>6, <1>7, <1>8 DEF Posed, Entered

\* Handles enter UAV.
LEMMA PoseWrite ==
  ASSUME BufOk, NEW r, NEW t, NEW W, NEW I, NEW O, NEW K, Posed(r, t, W, I, O, K), NEW hs \in Seq(Known),
         Apart(Range(hs), (I \cup K) \ Range(hs)), Stated(hs, I \cup O \cup K, t), NEW q, q = EnterAll(r, hs, "UAV")
  PROVE  /\ Posed(q, t, W \ {Res(h) : h \in Range(hs) \ O}, I \ Range(hs), O \cup Range(hs), K \ Range(hs))
         /\ q.heaps = r.heaps
<1>1. r \in Recorder(Nat) /\ Sound(r, t, W) /\ r.st = Poses(I, O, K)
  BY DEF Posed
<1>2. Range(hs) \subseteq Known /\ Known \subseteq Resources
  BY PoseFacts
<1>3. Fitting(r.st, hs, "UAV")
  BY <1>1, <1>2 DEF Fitting, Poses, Apart
<1>4. "misstated" \in t \/ Single(r.st, hs)
  <2>1. \A h \in Known : h \notin I \cup O \cup K => r.st[h] = "COMMON"
    BY <1>1, <1>2 DEF Poses
  <2> QED
    BY <2>1, StatedSingle DEF Stated
<1>5. Entered(r, q, hs, "UAV", t, W)
  BY <1>1, <1>3, <1>4, TurnSound DEF States
<1>6. q.st = Poses(I \ Range(hs), O \cup Range(hs), K \ Range(hs))
  BY <1>1, <1>2, <1>5 DEF Entered, Poses
<1>7. Moved(r.st, hs, "UAV") = {Res(h) : h \in Range(hs) \ O}
  <2>1. \A h \in Range(hs) : r.st[h] # "UAV" <=> h \notin O
    BY <1>1, <1>2 DEF Poses, Posed, Apart
  <2> QED
    BY <2>1 DEF Moved
<1>8. Apart(I \ Range(hs), O \cup Range(hs)) /\ Apart(I \ Range(hs), K \ Range(hs)) /\ Apart(O \cup Range(hs), K \ Range(hs))
  BY DEF Posed, Apart
<1> QED
  BY <1>2, <1>5, <1>6, <1>7, <1>8 DEF Posed, Entered

\* Handles enter COPY_DEST.
LEMMA PoseCopy ==
  ASSUME BufOk, NEW r, NEW t, NEW W, NEW I, NEW O, NEW K, Posed(r, t, W, I, O, K), NEW hs \in Seq(Known),
         Apart(Range(hs), (I \cup O) \ Range(hs)), Stated(hs, I \cup O \cup K, t), NEW q, q = EnterAll(r, hs, "COPY_DEST")
  PROVE  /\ Posed(q, t, W \ {Res(h) : h \in Range(hs) \ K}, I \ Range(hs), O \ Range(hs), K \cup Range(hs))
         /\ q.heaps = r.heaps
<1>1. r \in Recorder(Nat) /\ Sound(r, t, W) /\ r.st = Poses(I, O, K)
  BY DEF Posed
<1>2. Range(hs) \subseteq Known /\ Known \subseteq Resources
  BY PoseFacts
<1>3. Fitting(r.st, hs, "COPY_DEST")
  BY <1>1, <1>2 DEF Fitting, Poses, Apart
<1>4. "misstated" \in t \/ Single(r.st, hs)
  <2>1. \A h \in Known : h \notin I \cup O \cup K => r.st[h] = "COMMON"
    BY <1>1, <1>2 DEF Poses
  <2> QED
    BY <2>1, StatedSingle DEF Stated
<1>5. Entered(r, q, hs, "COPY_DEST", t, W)
  BY <1>1, <1>3, <1>4, TurnSound DEF States
<1>6. q.st = Poses(I \ Range(hs), O \ Range(hs), K \cup Range(hs))
  BY <1>1, <1>2, <1>5 DEF Entered, Poses
<1>7. Moved(r.st, hs, "COPY_DEST") = {Res(h) : h \in Range(hs) \ K}
  <2>1. \A h \in Range(hs) : r.st[h] # "COPY_DEST" <=> h \notin K
    BY <1>1, <1>2 DEF Poses, Posed, Apart
  <2> QED
    BY <2>1 DEF Moved
<1>8. Apart(I \ Range(hs), O \ Range(hs)) /\ Apart(I \ Range(hs), K \cup Range(hs)) /\ Apart(O \ Range(hs), K \cup Range(hs))
  BY DEF Posed, Apart
<1> QED
  BY <1>2, <1>5, <1>6, <1>7, <1>8 DEF Posed, Entered

\* Handles return to COMMON.
LEMMA PoseLeave ==
  ASSUME BufOk, NEW r, NEW t, NEW W, NEW I, NEW O, NEW K, Posed(r, t, W, I, O, K), NEW hs \in Seq(Known),
         Apart(Range(hs), (I \cup O \cup K) \ Range(hs)), Stated(hs, I \cup O \cup K, t), NEW q, q = EnterAll(r, hs, "COMMON")
  PROVE  /\ Posed(q, t, W \ {Res(h) : h \in Range(hs) \cap (I \cup O \cup K)}, I \ Range(hs), O \ Range(hs), K \ Range(hs))
         /\ q.heaps = r.heaps
<1>1. r \in Recorder(Nat) /\ Sound(r, t, W) /\ r.st = Poses(I, O, K)
  BY DEF Posed
<1>2. Range(hs) \subseteq Known /\ Known \subseteq Resources
  BY PoseFacts
<1>3. Fitting(r.st, hs, "COMMON")
  BY <1>1, <1>2 DEF Fitting, Poses, Apart
<1>4. "misstated" \in t \/ Single(r.st, hs)
  <2>1. \A h \in Known : h \notin I \cup O \cup K => r.st[h] = "COMMON"
    BY <1>1, <1>2 DEF Poses
  <2> QED
    BY <2>1, StatedSingle DEF Stated
<1>5. Entered(r, q, hs, "COMMON", t, W)
  BY <1>1, <1>3, <1>4, TurnSound DEF States
<1>6. q.st = Poses(I \ Range(hs), O \ Range(hs), K \ Range(hs))
  BY <1>1, <1>2, <1>5 DEF Entered, Poses
<1>7. Moved(r.st, hs, "COMMON") = {Res(h) : h \in Range(hs) \cap (I \cup O \cup K)}
  <2>1. \A h \in Range(hs) : r.st[h] # "COMMON" <=> h \in I \cup O \cup K
    BY <1>1, <1>2 DEF Poses
  <2> QED
    BY <2>1 DEF Moved
<1>8. Apart(I \ Range(hs), O \ Range(hs)) /\ Apart(I \ Range(hs), K \ Range(hs)) /\ Apart(O \ Range(hs), K \ Range(hs))
  BY DEF Posed, Apart
<1> QED
  BY <1>2, <1>5, <1>6, <1>7, <1>8 DEF Posed, Entered

\* A dispatch in a pose.
LEMMA PoseRun ==
  ASSUME BufOk, NEW r, NEW t, NEW W, NEW I, NEW O, NEW K, Posed(r, t, W, I, O, K), NEW by \in Nat,
         NEW in \in SUBSET Cells, NEW out \in SUBSET Cells,
         \A x \in ResourcesOf(in) : x \notin W /\ \E h \in I : Res(h) = x,
         \A x \in ResourcesOf(out) : x \notin W /\ \E h \in O : Res(h) = x,
         NEW q, q = Add(r, Run(by, in, out))
  PROVE  Posed(q, t, W \cup ResourcesOf(out), I, O, K) /\ q.heaps = r.heaps
<1>1. r \in Recorder(Nat) /\ Sound(r, t, W) /\ r.st = Poses(I, O, K)
  BY DEF Posed
<1>2. \A h \in Known : h \in Resources
  BY CellSpace
<1>3. Standing(r.st, in, "SRV") /\ Untouched(W, in) /\ Untouched(W, out)
  BY <1>1, <1>2 DEF Posed, Poses, Standing, Untouched
<1>4. Standing(r.st, out, "UAV")
  <2>1. \A h \in O : h \notin I /\ h \in Known
    BY DEF Posed, Apart
  <2> QED
    BY <1>1, <1>2, <2>1 DEF Poses, Standing
<1>5. q \in Recorder(Nat) /\ q.heaps = r.heaps /\ q.st = r.st /\ Sound(q, t, W \cup ResourcesOf(out))
  BY ONLY BufOk, by \in Nat, in \in SUBSET Cells, out \in SUBSET Cells, <1>1, <1>3, <1>4,
          q = Add(r, Run(by, in, out)), RunSound
<1> QED
  BY <1>5 DEF Posed

\* Zeros into counters that stand in COPY_DEST.
LEMMA PoseFills ==
  ASSUME BufOk, NEW r, NEW t, NEW W, NEW I, NEW O, NEW K, Posed(r, t, W, I, O, K),
         NEW fs \in Seq(FillsOf(Cells)), NEW H \in SUBSET Nat,
         \A i \in 1 .. Len(fs) : \A x \in ResourcesOf(fs[i].out) : \E h \in K : Res(h) = x,
         NEW q, q = [r EXCEPT !.cmds = @ \o fs, !.heaps = @ \cup H]
  PROVE  Posed(q, t, W, I, O, K)
<1>1. r \in Recorder(Nat) /\ Sound(r, t, W) /\ r.st = Poses(I, O, K)
  BY DEF Posed
<1>2. \A h \in K : r.st[h] = "COPY_DEST" /\ h \in Known
  <2>1. \A h \in K : h \notin I /\ h \notin O /\ h \in Known
    BY DEF Posed, Apart
  <2> QED
    BY <1>1, <2>1, CellSpace DEF Poses
<1>3. Filling(r.st, fs)
  BY <1>2 DEF Standing, Filling
<1>4. Filled(r, q, t, W)
  <2>1. q = [cmds |-> r.cmds \o fs, st |-> r.st, heaps |-> r.heaps \cup H]
    BY <1>1 DEF Recorder
  <2> QED
    BY ONLY BufOk, fs \in Seq(FillsOf(Cells)), H \in SUBSET Nat, <1>1, <1>3, <2>1, FillsSound
<1> QED
  BY <1>4 DEF Posed, Filled

\* A UAV barrier in a pose.
LEMMA PoseUav ==
  ASSUME BufOk, NEW r, NEW t, NEW W, NEW I, NEW O, NEW K, Posed(r, t, W, I, O, K), NEW h \in Known,
         NEW q, q = Add(r, UavBarrier(Res(h)))
  PROVE  Posed(q, t, W \ {Res(h)}, I, O, K) /\ q.heaps = r.heaps
<1>1. r \in Recorder(Nat) /\ Sound(r, t, W) /\ r.st = Poses(I, O, K) /\ Res(h) \in Resources
  BY CellSpace DEF Posed
<1>2. PICK x : x = Res(h)
  OBVIOUS
<1>3. q \in Recorder(Nat) /\ q.heaps = r.heaps /\ q.st = r.st /\ Sound(q, t, W \ {x})
  BY <1>1, <1>2, UavSound
<1> QED
  BY <1>2, <1>3 DEF Posed

\* What is written may be said to be more than it is.
LEMMA PoseMore ==
  ASSUME NEW r, NEW t, NEW W, NEW I, NEW O, NEW K, Posed(r, t, W, I, O, K), NEW V, W \subseteq V
  PROVE  Posed(r, t, V, I, O, K)
BY DEF Posed, Sound, Running

\* A list that starts and ends at rest, has no fault but those of t and leaves
\* nothing written without a barrier.
Clean(cmds, t) ==
  \A m, by : m \in Machine(Resources, Cells) /\ by \in Nat /\ AtRest(Resources, m)
    => /\ AtRest(Resources, Ran(m, cmds, by))
       /\ Ran(m, cmds, by).faults \subseteq m.faults \cup t

\* A recorder whose handles are all back.
LEMMA PosedClean ==
  ASSUME BufOk, NEW r, NEW t, Posed(r, t, {}, {}, {}, {})
  PROVE  Clean(r.cmds, t) /\ r.cmds \in Seq(BatchCommands(Nat)) /\ r.st = Resting
<1>1. r \in Recorder(Nat) /\ Sound(r, t, {}) /\ r.st = Poses({}, {}, {})
  BY DEF Posed
<1>2. \A h \in Resources : r.st[h] = "COMMON"
  BY <1>1 DEF Poses
<1>3. r.st = Resting
  BY <1>1 DEF Poses, Resting
<1>4. r.cmds \in Seq(BatchCommands(Nat))
  BY <1>1 DEF Recorder
<1>5. ASSUME NEW m, NEW by, m \in Machine(Resources, Cells), by \in Nat, AtRest(Resources, m)
      PROVE  AtRest(Resources, Ran(m, r.cmds, by)) /\ Ran(m, r.cmds, by).faults \subseteq m.faults \cup t
  <2>1. Running(m, Ran(m, r.cmds, by), r.st, t, {})
    BY <1>1, <1>5 DEF Sound
  <2>2. PICK n : n = Ran(m, r.cmds, by)
    OBVIOUS
  <2>3. n.dirty = {}
    BY <2>1, <2>2 DEF Running
  <2>4. \A h \in Known : h \in Resources
    BY CellSpace
  <2>5. \A x \in Resources : n.state[x] = "COMMON"
    BY <1>2, <2>1, <2>2, <2>4 DEF Running, Poised, Follows
  <2> QED
    BY <2>1, <2>2, <2>3, <2>5 DEF AtRest, Running
<1> QED
  BY <1>3, <1>4, <1>5 DEF Clean

\* The recorder of a call that starts at rest.
LEMMA PoseStart ==
  ASSUME BufOk, NEW r, r = [cmds |-> <<>>, st |-> Resting, heaps |-> {}], NEW t
  PROVE  Posed(r, t, {}, {}, {}, {})
<1>1. <<>> \in Seq(BatchCommands(Nat)) /\ Resting \in [Resources -> States]
  BY DEF Resting, States
<1>2. r \in Recorder(Nat)
  BY <1>1 DEF Recorder
<1>3. r.st = Poses({}, {}, {})
  BY DEF Poses, Resting
<1>4. ASSUME NEW m, NEW by, m \in Machine(Resources, Cells), by \in Nat, AtRest(Resources, m)
      PROVE  Running(m, Ran(m, r.cmds, by), r.st, t, {})
  <2>1. Ran(m, r.cmds, by) = m
    BY RanNone
  <2>2. \A h \in Known : r.st[h] = "COMMON"
    BY CellSpace DEF Resting
  <2> QED
    BY <1>4, <2>1, <2>2 DEF Running, Poised, Follows, AtRest
<1> QED
  BY <1>2, <1>3, <1>4 DEF Posed, Sound, Apart


\* Back to COMMON is an entry as any other.
LEMMA RestoreIs ==
  ASSUME NEW r \in Recorder(Nat), NEW hs
  PROVE  Restore(r, hs, Resting) = EnterAll(r, hs, "COMMON")
<1>1. DOMAIN r.st = Resources
  BY DEF Recorder
<1>2. [h \in DOMAIN r.st |-> "COMMON"] = Resting
  BY <1>1 DEF Resting
<1> QED
  BY <1>2 DEF Restore, EnterAll

\* The handles hs go back to COMMON.
LEMMA PoseRestore ==
  ASSUME BufOk, NEW r, NEW t, NEW W, NEW I, NEW O, NEW K, Posed(r, t, W, I, O, K), NEW hs \in Seq(Known),
         Apart(Range(hs), (I \cup O \cup K) \ Range(hs)), "misstated" \in t \/ Once(hs),
         NEW q, q = Restore(r, hs, Resting)
  PROVE  Posed(q, t, W \ {Res(h) : h \in Range(hs) \cap (I \cup O \cup K)}, I \ Range(hs), O \ Range(hs), K \ Range(hs))
<1>1. r \in Recorder(Nat)
  BY DEF Posed
<1>2. q = EnterAll(r, hs, "COMMON")
  BY <1>1, RestoreIs
<1>3. Stated(hs, I \cup O \cup K, t)
  BY DEF Stated
<1> QED
  BY <1>2, <1>3, PoseLeave

\* A sequence without repeated resources has none backwards.
LEMMA ReverseOnce ==
  ASSUME NEW T, NEW hs \in Seq(T), NEW q, q = Reverse(hs)
  PROVE  q \in Seq(T) /\ Range(q) = Range(hs) /\ (Once(hs) => Once(q))
<1>1. q \in Seq(T) /\ Range(q) = Range(hs)
  BY ReverseRange
<1>2. PICK n : n = Len(hs) /\ n \in Nat
  BY LenProperties
<1>3. Len(q) = n /\ \A i \in 1 .. n : q[i] = hs[(n - i) + 1] /\ (n - i) + 1 \in 1 .. n
  BY <1>2, ReverseIs
<1>4. ASSUME Once(hs), NEW i \in 1 .. n, NEW j \in 1 .. n, Res(q[i]) = Res(q[j]) PROVE i = j
  <2>1. PICK a, b : a = (n - i) + 1 /\ b = (n - j) + 1
    OBVIOUS
  <2>2. a \in 1 .. n /\ b \in 1 .. n /\ Res(hs[a]) = Res(hs[b])
    BY <1>3, <1>4, <2>1
  <2>3. a = b
    BY <1>2, <1>4, <2>2 DEF Once
  <2> QED
    BY ONLY <1>2, <2>1, <2>3, i \in 1 .. n, j \in 1 .. n
<1> QED
  BY <1>1, <1>3, <1>4 DEF Once

\* FirstOfResource names each resource once, with handles of the list.
LEMMA FirstOfResourceOnce ==
  ASSUME NEW T, NEW hs \in Seq(T), NEW q, q = FirstOfResource(hs)
  PROVE  /\ q \in Seq(T) /\ Range(q) \subseteq Range(hs) /\ Once(q)
         /\ \A h \in Range(hs) : \E g \in Range(q) : Res(g) = Res(h)
<1> DEFINE D == {i \in 1 .. Len(hs) : \E j \in 1 .. i - 1 : Res(hs[j]) = Res(hs[i])}
<1>1. PICK n : n = Len(hs) /\ n \in Nat
  BY LenProperties
<1>2. DOMAIN hs = 1 .. n /\ \A i \in 1 .. n : hs[i] \in T
  BY <1>1, LenProperties, ElementOfSeq
<1>3. PICK s : s = [i \in 1 .. n |-> IF i \in D THEN <<>> ELSE <<hs[i]>>]
  OBVIOUS
<1>4. q = FlattenSeq(s)
  <2>1. [i \in DOMAIN hs |-> IF \E j \in 1 .. i - 1 : Res(hs[j]) = Res(hs[i]) THEN <<>> ELSE <<hs[i]>>] = s
    BY <1>1, <1>2, <1>3
  <2> QED
    BY <2>1 DEF FirstOfResource
<1>5. q \in Seq(T) /\ \E g : Picked(hs, D, n, q, g)
  <2>1. PICK E : E = D
    OBVIOUS
  <2>2. (\A i \in 1 .. n : hs[i] \in T) /\ s = [i \in 1 .. n |-> IF i \in E THEN <<>> ELSE <<hs[i]>>]
    BY <1>2, <1>3, <2>1
  <2> HIDE DEF D
  <2>3. FlattenSeq(s) \in Seq(T) /\ \E g : Picked(hs, E, n, FlattenSeq(s), g)
    BY <1>1, <2>2, Picks
  <2> QED
    BY <1>4, <2>1, <2>3
<1>6. PICK g : Picked(hs, D, n, q, g)
  BY <1>5
<1>7. DOMAIN q = 1 .. Len(q) /\ Len(q) \in Nat
  BY <1>5, LenProperties
<1>8. Range(q) \subseteq Range(hs)
  BY <1>2, <1>6, <1>7 DEF Picked, Range
<1>9. ASSUME NEW j \in 1 .. Len(q), NEW i \in 1 .. j - 1, Res(q[i]) = Res(q[j]) PROVE FALSE
  <2>1. i \in 1 .. Len(q)
    BY <1>7
  <2>2. PICK a, b : a = g[i] /\ b = g[j]
    OBVIOUS
  <2>3. a \in 1 .. n /\ b \in 1 .. n /\ q[i] = hs[a] /\ q[j] = hs[b] /\ b \notin D /\ a < b
    <3> HIDE DEF D
    <3> QED
      BY <1>6, <2>1, <2>2 DEF Picked
  <2>4. a \in 1 .. b - 1 /\ Res(hs[a]) = Res(hs[b])
    BY <1>1, <1>9, <2>3
  <2> QED
    BY <1>1, <2>3, <2>4
<1>10. Once(q)
  <2>1. ASSUME NEW i \in 1 .. Len(q), NEW j \in 1 .. Len(q), Res(q[i]) = Res(q[j]) PROVE i = j
    <3>1. i \in 1 .. j - 1 \/ j \in 1 .. i - 1 \/ i = j
      BY <1>7
    <3> QED
      BY <1>9, <2>1, <3>1
  <2> QED
    BY <2>1 DEF Once
<1> QED
  BY <1>5, <1>8, <1>10, FirstOfResourceIs

\* FirstOfHandle of handles of different resources.
LEMMA FirstOfHandleOnce ==
  ASSUME NEW T, NEW hs \in Seq(T), Once(hs), NEW q, q = FirstOfHandle(hs)
  PROVE  Once(q)
<1> DEFINE D == {i \in 1 .. Len(hs) : \E j \in 1 .. i - 1 : hs[j] = hs[i]}
<1>1. PICK n : n = Len(hs) /\ n \in Nat
  BY LenProperties
<1>2. DOMAIN hs = 1 .. n /\ \A i \in 1 .. n : hs[i] \in T
  BY <1>1, LenProperties, ElementOfSeq
<1>3. PICK s : s = [i \in 1 .. n |-> IF i \in D THEN <<>> ELSE <<hs[i]>>]
  OBVIOUS
<1>4. q = FlattenSeq(s)
  <2>1. [i \in DOMAIN hs |-> IF \E j \in 1 .. i - 1 : hs[j] = hs[i] THEN <<>> ELSE <<hs[i]>>] = s
    BY <1>1, <1>2, <1>3
  <2> QED
    BY <2>1 DEF FirstOfHandle
<1>5. q \in Seq(T) /\ \E g : Picked(hs, D, n, q, g)
  <2>1. PICK E : E = D
    OBVIOUS
  <2>2. (\A i \in 1 .. n : hs[i] \in T) /\ s = [i \in 1 .. n |-> IF i \in E THEN <<>> ELSE <<hs[i]>>]
    BY <1>2, <1>3, <2>1
  <2> HIDE DEF D
  <2>3. FlattenSeq(s) \in Seq(T) /\ \E g : Picked(hs, E, n, FlattenSeq(s), g)
    BY <1>1, <2>2, Picks
  <2> QED
    BY <1>4, <2>1, <2>3
<1>6. PICK g : Picked(hs, D, n, q, g)
  BY <1>5
<1>7. DOMAIN q = 1 .. Len(q) /\ Len(q) \in Nat
  BY <1>5, LenProperties
<1> HIDE DEF D
<1>8. ASSUME NEW j \in 1 .. Len(q), NEW i \in 1 .. j - 1, Res(q[i]) = Res(q[j]) PROVE FALSE
  <2>1. i \in 1 .. Len(q)
    BY <1>7
  <2>2. PICK a, b : a = g[i] /\ b = g[j]
    OBVIOUS
  <2>3. a \in 1 .. n /\ b \in 1 .. n /\ q[i] = hs[a] /\ q[j] = hs[b] /\ a < b
    BY <1>6, <2>1, <2>2 DEF Picked
  <2>4. a = b
    BY <1>1, <1>8, <2>3 DEF Once
  <2> QED
    BY <1>1, <2>3, <2>4
<1>9. ASSUME NEW i \in 1 .. Len(q), NEW j \in 1 .. Len(q), Res(q[i]) = Res(q[j]) PROVE i = j
  <2>1. i \in 1 .. j - 1 \/ j \in 1 .. i - 1 \/ i = j
    BY <1>7
  <2> QED
    BY <1>8, <1>9, <2>1
<1> QED
  BY <1>9 DEF Once

\* The cells of a handle lie in its resource.
LEMMA HandleCells ==
  ASSUME BufOk, NEW S, S \subseteq Known, NEW c, c = UNION {Elements(h) : h \in S}
  PROVE  c \in SUBSET Cells /\ \A x \in ResourcesOf(c) : \E h \in S : Res(h) = x
<1>1. ASSUME NEW h \in S PROVE Elements(h) \subseteq Cells /\ ResourcesOf(Elements(h)) \subseteq {Res(h)}
  BY CellSpace
<1>2. \A x \in ResourcesOf(c) : \E h \in S : Res(h) = x
  BY <1>1 DEF ResourcesOf
<1> QED
  BY <1>1, <1>2

\* What the way back leaves: all at rest, through recorders.
Bracketed(q, c, d, t) == Posed(q, t, {}, {}, {}, {}) /\ c \in Recorder(Nat) /\ d \in Recorder(Nat)

\* Between the entry of the inputs and their return: the output to UAV, the
\* dispatch, the output back and the inputs back.
LEMMA PoseBetween ==
  ASSUME BufOk, NEW a, NEW t, NEW back \in Seq(Known), Posed(a, t, {}, Range(back), {}, {}),
         "misstated" \in t \/ Once(back), NEW by \in Nat, NEW in, in \subseteq Known,
         \A h \in in : \E g \in Range(back) : Res(g) = Res(h), NEW y \in Known, Apart({y}, Range(back)),
         NEW b, b = Enter(a, y, "UAV"), NEW c, c = Dispatch(b, by, in, {y}),
         NEW d, d = Restore(c, <<y>>, Resting), NEW q, q = Restore(d, back, Resting)
  PROVE  Bracketed(q, c, d, t)
<1>1. PICK one, I, R, none : one = <<y>> /\ I = Range(back) /\ R = {Res(y)} /\ none = {}
  OBVIOUS
<1>2. one \in Seq(Known) /\ Range(one) = {y} /\ Once(one) /\ y \notin I /\ I \subseteq Known
  <2>1. one \in Seq(Known) /\ Range(one) = {y} /\ I \subseteq Known
    BY <1>1, SmallSeq, PoseFacts
  <2>2. Once(one)
    BY <1>1 DEF Once
  <2> QED
    BY <1>1, <2>1, <2>2 DEF Apart
<1>3. Posed(b, t, none, I, {y}, none)
  <2>1. b = EnterAll(a, one, "UAV")
    BY <1>1 DEF Enter
  <2>2. Posed(a, t, none, I, none, none)
    BY <1>1
  <2>3. Apart(Range(one), (I \cup none) \ Range(one)) /\ Stated(one, I \cup none \cup none, t)
    BY <1>1, <1>2 DEF Apart, Stated
  <2>4. Posed(b, t, none \ {Res(h) : h \in Range(one) \ none}, I \ Range(one), none \cup Range(one), none \ Range(one))
    BY ONLY BufOk, <1>2, <2>1, <2>2, <2>3, PoseWrite
  <2>5. /\ none \ {Res(h) : h \in Range(one) \ none} = none /\ I \ Range(one) = I
        /\ none \cup Range(one) = {y} /\ none \ Range(one) = none
    BY <1>1, <1>2
  <2> QED
    BY <2>4, <2>5
<1>4. Posed(c, t, R, I, {y}, none)
  <2>0. PICK S : S = {y} /\ S \subseteq Known
    OBVIOUS
  <2>1. PICK e, f : e = UNION {Elements(h) : h \in in} /\ f = UNION {Elements(h) : h \in S}
    OBVIOUS
  <2>2. c = Add(b, Run(by, e, f))
    BY <2>0, <2>1 DEF Dispatch
  <2>3. e \in SUBSET Cells /\ f \in SUBSET Cells
    BY <2>0, <2>1, HandleCells
  <2>4. \A x \in ResourcesOf(e) : x \notin none /\ \E h \in I : Res(h) = x
    <3>1. \A x \in ResourcesOf(e) : \E h \in in : Res(h) = x
      BY <2>1, HandleCells
    <3> QED
      BY <1>1, <3>1
  <2>5. ResourcesOf(f) \subseteq R /\ \A x \in ResourcesOf(f) : x \notin none /\ \E h \in {y} : Res(h) = x
    <3>1. \A x \in ResourcesOf(f) : \E h \in S : Res(h) = x
      BY <2>0, <2>1, HandleCells
    <3> QED
      BY <1>1, <2>0, <3>1
  <2>6. Posed(c, t, none \cup ResourcesOf(f), I, {y}, none)
    BY ONLY BufOk, by \in Nat, <1>3, <2>2, <2>3, <2>4, <2>5, PoseRun
  <2>7. none \cup ResourcesOf(f) \subseteq R
    BY <1>1, <2>5
  <2> QED
    BY <2>6, <2>7, PoseMore
<1>5. Posed(d, t, none, I, none, none)
  <2>1. d = Restore(c, one, Resting)
    BY <1>1
  <2>2. Apart(Range(one), (I \cup {y} \cup none) \ Range(one))
    BY <1>1, <1>2 DEF Apart
  <2>3. Posed(d, t, R \ {Res(h) : h \in Range(one) \cap (I \cup {y} \cup none)}, I \ Range(one), {y} \ Range(one), none \ Range(one))
    BY ONLY BufOk, <1>2, <1>4, <2>1, <2>2, PoseRestore
  <2>4. /\ R \ {Res(h) : h \in Range(one) \cap (I \cup {y} \cup none)} = none
        /\ I \ Range(one) = I /\ {y} \ Range(one) = none /\ none \ Range(one) = none
    BY <1>1, <1>2
  <2> QED
    BY <2>3, <2>4
<1>6. Posed(q, t, none, none, none, none)
  <2>1. Apart(Range(back), (I \cup none \cup none) \ Range(back))
    BY <1>1 DEF Apart
  <2>2. Posed(q, t, none \ {Res(h) : h \in Range(back) \cap (I \cup none \cup none)}, I \ Range(back), none \ Range(back), none \ Range(back))
    BY <1>5, <2>1, PoseRestore
  <2>3. /\ none \ {Res(h) : h \in Range(back) \cap (I \cup none \cup none)} = none
        /\ I \ Range(back) = none /\ none \ Range(back) = none
    BY <1>1
  <2> QED
    BY <2>2, <2>3
<1> QED
  BY <1>1, <1>4, <1>5, <1>6 DEF Posed, Bracketed


\* Plain: whatever the inputs are, if the output lies apart from them.
LEMMA PlainPosed ==
  ASSUME BufOk, NEW r, NEW t, Posed(r, t, {}, {}, {}, {}), r.st = Resting, NEW by \in Nat, NEW ins \in Seq(Known),
         NEW y \in Known, Apart({y}, Range(ins)), "misstated" \in t \/ Once(ins), NEW q, q = Plain(r, by, ins, y)
  PROVE  Posed(q, t, {}, {}, {}, {})
<1>1. PICK a, b, c, d, back, I, none :
        /\ a = EnterAll(r, ins, "SRV") /\ b = Enter(a, y, "UAV") /\ c = Dispatch(b, by, I, {y})
        /\ d = Restore(c, <<y>>, Resting) /\ back = Reverse(ins) /\ I = Range(ins) /\ none = {}
  OBVIOUS
<1>2. q = Restore(d, back, Resting)
  BY <1>1 DEF Plain, Enter
<1>3. Posed(a, t, none, I, none, none)
  <2>1. Posed(r, t, none, none, none, none)
    BY <1>1
  <2>2. Apart(Range(ins), (none \cup none) \ Range(ins)) /\ Stated(ins, none \cup none \cup none, t)
    BY <1>1 DEF Apart, Stated
  <2>3. Posed(a, t, none \ {Res(h) : h \in Range(ins) \ none}, none \cup Range(ins), none \ Range(ins), none \ Range(ins))
    BY <1>1, <2>1, <2>2, PoseRead
  <2>4. none \ {Res(h) : h \in Range(ins) \ none} = none /\ none \cup Range(ins) = I /\ none \ Range(ins) = none
    BY <1>1
  <2> QED
    BY <2>3, <2>4
<1>4. back \in Seq(Known) /\ Range(back) = I /\ ("misstated" \in t \/ Once(back))
  BY <1>1, ReverseOnce
<1>5. Posed(a, t, {}, Range(back), {}, {}) /\ I \subseteq Known /\ Apart({y}, Range(back))
  BY <1>1, <1>3, <1>4, PoseFacts
<1>6. \A h \in I : \E g \in Range(back) : Res(g) = Res(h)
  BY <1>4
<1>7. Bracketed(q, c, d, t)
  BY ONLY BufOk, by \in Nat, y \in Known, <1>1, <1>2, <1>4, <1>5, <1>6, PoseBetween
<1> QED
  BY <1>7 DEF Bracketed

\* Stepwise.
LEMMA StepwisePosed ==
  ASSUME BufOk, NEW r, NEW t, Posed(r, t, {}, {}, {}, {}), r.st = Resting, NEW by \in Nat, NEW ins \in Seq(Known),
         NEW y \in Known, Apart({y}, Range(ins)), "misstated" \in t \/ Once(ins), NEW q, q = Stepwise(r, by, ins, y)
  PROVE  Posed(q, t, {}, {}, {}, {})
<1>1. PICK first, a, b, c, d, I, none :
        /\ first = FirstOfHandle(ins)
        /\ a = EnterAll(r, first, "SRV") /\ b = Enter(a, y, "UAV") /\ c = Dispatch(b, by, I, {y})
        /\ d = Restore(c, <<y>>, Resting) /\ I = Range(ins) /\ none = {}
  OBVIOUS
<1>2. q = Restore(d, ins, Resting)
  BY <1>1 DEF Stepwise, EnterEach
<1>3. first \in Seq(Known) /\ Range(first) = I /\ ("misstated" \in t \/ Once(first))
  BY <1>1, FirstOfHandleIs, FirstOfHandleOnce
<1>4. Posed(a, t, none, I, none, none)
  <2>1. Posed(r, t, none, none, none, none)
    BY <1>1
  <2>2. Apart(Range(first), (none \cup none) \ Range(first)) /\ Stated(first, none \cup none \cup none, t)
    BY <1>1, <1>3 DEF Apart, Stated
  <2>3. Posed(a, t, none \ {Res(h) : h \in Range(first) \ none}, none \cup Range(first), none \ Range(first), none \ Range(first))
    BY ONLY BufOk, <1>1, <1>3, <2>1, <2>2, PoseRead
  <2>4. none \ {Res(h) : h \in Range(first) \ none} = none /\ none \cup Range(first) = I /\ none \ Range(first) = none
    BY <1>1, <1>3
  <2> QED
    BY <2>3, <2>4
<1>5. Posed(a, t, {}, Range(ins), {}, {}) /\ I \subseteq Known
  BY <1>1, <1>4, PoseFacts
<1>6. \A h \in I : \E g \in Range(ins) : Res(g) = Res(h)
  BY <1>1
<1>7. Bracketed(q, c, d, t)
  BY <1>1, <1>2, <1>5, <1>6, PoseBetween
<1> QED
  BY <1>7 DEF Bracketed

\* PerResource: no transition is misstated, however the inputs alias.
LEMMA PerResourcePosed ==
  ASSUME BufOk, NEW r, NEW t, Posed(r, t, {}, {}, {}, {}), r.st = Resting, NEW by \in Nat, NEW ins \in Seq(Known),
         NEW y \in Known, Apart({y}, Range(ins)), NEW q, q = PerResource(r, by, ins, y)
  PROVE  \E e : Posed(e, t, {}, {}, {}, {}) /\ q.cmds = e.cmds
<1>1. PICK once, a, b, c, d, e, I, S, none :
        /\ once = FirstOfResource(ins)
        /\ a = EnterAll(r, once, "SRV") /\ b = Enter(a, y, "UAV") /\ c = Dispatch(b, by, I, {y})
        /\ d = Restore(c, <<y>>, Resting) /\ e = Restore(d, once, Resting)
        /\ I = Range(ins) /\ S = Range(once) /\ none = {}
  OBVIOUS
<1>2. /\ once \in Seq(Known) /\ S \subseteq I /\ Once(once)
      /\ \A h \in I : \E g \in S : Res(g) = Res(h)
  BY <1>1, FirstOfResourceOnce
<1>3. Posed(a, t, none, S, none, none)
  <2>1. Posed(r, t, none, none, none, none)
    BY <1>1
  <2>2. Apart(Range(once), (none \cup none) \ Range(once)) /\ Stated(once, none \cup none \cup none, t)
    BY <1>1, <1>2 DEF Apart, Stated
  <2>3. Posed(a, t, none \ {Res(h) : h \in Range(once) \ none}, none \cup Range(once), none \ Range(once), none \ Range(once))
    BY ONLY BufOk, <1>1, <1>2, <2>1, <2>2, PoseRead
  <2>4. none \ {Res(h) : h \in Range(once) \ none} = none /\ none \cup Range(once) = S /\ none \ Range(once) = none
    BY <1>1
  <2> QED
    BY <2>3, <2>4
<1>4. Posed(a, t, {}, Range(once), {}, {}) /\ I \subseteq Known /\ Apart({y}, Range(once))
  <2>1. I \subseteq Known
    BY <1>1, PoseFacts
  <2> QED
    BY <1>1, <1>2, <1>3, <2>1 DEF Apart
<1>5. Posed(e, t, {}, {}, {}, {})
  <2>1. Bracketed(e, c, d, t)
    BY ONLY BufOk, by \in Nat, y \in Known, <1>1, <1>2, <1>4, PoseBetween
  <2> QED
    BY <2>1 DEF Bracketed
<1>6. q.cmds = e.cmds
  <2>1. e = [cmds |-> e.cmds, st |-> e.st, heaps |-> e.heaps]
    BY <1>5 DEF Posed, Recorder
  <2>2. PICK f : f = [h \in DOMAIN e.st |-> IF h \in I THEN r.st[CHOOSE g \in S : Res(g) = Res(h)] ELSE e.st[h]]
    OBVIOUS
  <2>3. q = [e EXCEPT !.st = f]
    BY <1>1, <2>2 DEF PerResource
  <2> QED
    BY <2>1, <2>3
<1> QED
  BY <1>5, <1>6

\* relu: its output is entered again as it leaves.
LEMMA ReluPosed ==
  ASSUME BufOk, NEW r, NEW t, Posed(r, t, {}, {}, {}, {}), r.st = Resting, NEW by \in Nat, NEW x \in Known,
         NEW y \in Known, Res(x) # Res(y), NEW a, a[1] = x, a[2] = y, NEW q, q = ReluInto(r, by, a)
  PROVE  Posed(q, t, {}, {}, {}, {})
<1>1. PICK e, b, c, d, back, I, none :
        /\ back = <<x>> /\ e = EnterAll(r, back, "SRV") /\ b = Enter(e, y, "UAV") /\ c = Dispatch(b, by, I, {y})
        /\ d = Restore(c, <<y>>, Resting) /\ I = {x} /\ none = {}
  OBVIOUS
<1>2. back \in Seq(Known) /\ Range(back) = I /\ Once(back) /\ I \subseteq Known
  <2>1. Once(back)
    BY <1>1 DEF Once
  <2> QED
    BY <1>1, <2>1, SmallSeq
<1>3. Posed(e, t, none, I, none, none)
  <2>1. Posed(r, t, none, none, none, none)
    BY <1>1
  <2>2. Apart(Range(back), (none \cup none) \ Range(back)) /\ Stated(back, none \cup none \cup none, t)
    BY <1>1, <1>2 DEF Apart, Stated
  <2>3. Posed(e, t, none \ {Res(h) : h \in Range(back) \ none}, none \cup Range(back), none \ Range(back), none \ Range(back))
    BY ONLY BufOk, <1>1, <1>2, <2>1, <2>2, PoseRead
  <2>4. none \ {Res(h) : h \in Range(back) \ none} = none /\ none \cup Range(back) = I /\ none \ Range(back) = none
    BY <1>1, <1>2
  <2> QED
    BY <2>3, <2>4
<1>4. Posed(e, t, {}, Range(back), {}, {}) /\ Apart({y}, Range(back)) /\ \A h \in I : \E g \in Range(back) : Res(g) = Res(h)
  BY <1>1, <1>2, <1>3 DEF Apart
<1>5. PICK u : u = Restore(d, back, Resting)
  OBVIOUS
<1>6. Posed(u, t, {}, {}, {}, {}) /\ c \in Recorder(Nat) /\ d \in Recorder(Nat)
  <2>1. Bracketed(u, c, d, t)
    BY ONLY BufOk, by \in Nat, y \in Known, <1>1, <1>2, <1>4, <1>5, PoseBetween
  <2> QED
    BY <2>1 DEF Bracketed
<1>7. r.st[x] = "COMMON"
  BY CellSpace DEF Resting
<1>8. q = Enter(Enter(c, y, "COMMON"), x, "COMMON")
  BY <1>1, <1>7 DEF ReluInto, Enter
<1>9. d = Enter(c, y, "COMMON") /\ u = Enter(d, x, "COMMON")
  BY <1>1, <1>5, <1>6, RestoreIs DEF Enter
<1> QED
  BY <1>6, <1>8, <1>9


\* Handles of different resources, one after the other.
Distinct(c) == \A i, j \in DOMAIN c : i # j => Res(c[i]) # Res(c[j])

\* The zeros of counters that lie apart from what has been entered.
LEMMA ZerosPosed ==
  ASSUME BufOk, NEW r, NEW t, NEW I, Posed(r, t, {}, I, {}, {}), NEW by \in Nat, NEW k \in Nat,
         NEW hs \in Seq(Known), Once(hs), Apart(Range(hs), I), NEW q, q = ZeroCounters(r, by, k, hs)
  PROVE  Posed(q, t, {}, I, {}, Range(hs))
<1>1. PICK a, Z, none, R : a = EnterAll(r, hs, "COPY_DEST") /\ Z = ZeroHeap(k) /\ none = {} /\ R = Range(hs)
  OBVIOUS
<1>2. Posed(a, t, none, I, none, R)
  <2>1. Posed(r, t, none, I, none, none)
    BY <1>1
  <2>2. Apart(Range(hs), (I \cup none) \ Range(hs)) /\ Stated(hs, I \cup none \cup none, t)
    BY <1>1 DEF Apart, Stated
  <2>3. Posed(a, t, none \ {Res(h) : h \in Range(hs) \ none}, I \ Range(hs), none \ Range(hs), none \cup Range(hs))
    BY ONLY BufOk, hs \in Seq(Known), <1>1, <2>1, <2>2, PoseCopy
  <2>4. /\ none \ {Res(h) : h \in Range(hs) \ none} = none /\ I \ Range(hs) = I
        /\ none \ Range(hs) = none /\ none \cup Range(hs) = R
    BY <1>1 DEF Apart
  <2> QED
    BY <2>3, <2>4
<1>3. DOMAIN hs = 1 .. Len(hs) /\ Len(hs) \in Nat /\ \A i \in 1 .. Len(hs) : hs[i] \in Known /\ hs[i] \in R
  BY <1>1, LenProperties, ElementOfSeq DEF Range
<1>4. Z \in Nat
  BY <1>1 DEF ZeroHeap
<1>5. PICK fs : fs = [i \in DOMAIN hs |-> Fill(by, Z, FromStart(hs[i]))]
  OBVIOUS
<1>6. \A i \in 1 .. Len(hs) : FromStart(hs[i]) \in SUBSET Cells /\ ResourcesOf(FromStart(hs[i])) \subseteq {Res(hs[i])}
  BY <1>3, CellSpace
<1>7. ASSUME NEW i \in 1 .. Len(hs) PROVE Fill(by, Z, FromStart(hs[i])) \in FillsOf(Cells)
  BY <1>4, <1>6 DEF FillsOf
<1>8. fs \in Seq(FillsOf(Cells)) /\ Len(fs) = Len(hs)
  <2>1. PICK n : n = Len(hs)
    OBVIOUS
  <2>2. fs \in [1 .. n -> FillsOf(Cells)] /\ n \in Nat
    BY <1>3, <1>5, <1>7, <2>1
  <2> QED
    BY <2>1, <2>2, Mapped
<1>9. \A i \in 1 .. Len(fs) : \A x \in ResourcesOf(fs[i].out) : \E h \in R : Res(h) = x
  <2>1. ASSUME NEW i \in 1 .. Len(fs) PROVE \A x \in ResourcesOf(fs[i].out) : \E h \in R : Res(h) = x
    <3>1. fs[i].out = FromStart(hs[i])
      BY <1>3, <1>5, <1>8 DEF Fill
    <3> QED
      BY <1>3, <1>6, <1>8, <3>1
  <2> QED
    BY <2>1
<1>10. PICK H : H = {Z} /\ H \in SUBSET Nat
  BY <1>4
<1>11. q = [a EXCEPT !.cmds = @ \o fs, !.heaps = @ \cup H]
  BY <1>1, <1>5, <1>10 DEF ZeroCounters
<1>12. Posed(q, t, none, I, none, R)
  BY ONLY BufOk, <1>2, <1>8, <1>9, <1>10, <1>11, PoseFills
<1> QED
  BY <1>1, <1>12

\* Cells of certain resources only.
Inside(cells, X) == cells \in SUBSET Cells /\ ResourcesOf(cells) \subseteq X

\* A dispatch that writes outputs not touched since their last barrier.
LEMMA RunPosed ==
  ASSUME BufOk, NEW r, NEW t, NEW I, NEW O, NEW K, Posed(r, t, {}, I, O, K), NEW by \in Nat,
         NEW X, NEW V, NEW in, NEW out, Inside(in, X), Inside(out, V),
         \A x \in X : \E h \in I : Res(h) = x, \A x \in V : \E h \in O : Res(h) = x,
         NEW q, q = Add(r, Run(by, in, out))
  PROVE  Posed(q, t, V, I, O, K)
<1>1. PICK none : none = {}
  OBVIOUS
<1>2. Posed(r, t, none, I, O, K)
  BY <1>1
<1>3. \A x \in ResourcesOf(in) : x \notin none /\ \E h \in I : Res(h) = x
  BY <1>1 DEF Inside
<1>4. \A x \in ResourcesOf(out) : x \notin none /\ \E h \in O : Res(h) = x
  BY <1>1 DEF Inside
<1>5. in \in SUBSET Cells /\ out \in SUBSET Cells
  BY DEF Inside
<1>6. Posed(q, t, none \cup ResourcesOf(out), I, O, K)
  BY ONLY BufOk, by \in Nat, <1>2, <1>3, <1>4, <1>5, q = Add(r, Run(by, in, out)), PoseRun
<1>7. none \cup ResourcesOf(out) \subseteq V
  BY <1>1 DEF Inside
<1> QED
  BY <1>6, <1>7, PoseMore

\* Candidates and their counter are read after a barrier, the keep flags are written,
\* waited for and read, and what is returned has been cleared.
LEMMA NmsPosed ==
  ASSUME BufOk, NEW r, NEW t, NEW I, NEW c \in Seq(Known), Len(c) = 5, Distinct(c), Apart(I, Range(c)),
         Posed(r, t, {Res(c[1]), Res(c[2])}, I, {c[1], c[2]}, {c[5]}), NEW by \in Nat,
         NEW i1, NEW o1, NEW i2, NEW o2, Inside(i1, {Res(c[1]), Res(c[2])}), Inside(o1, {Res(c[3])}),
         Inside(i2, {Res(c[1]), Res(c[2]), Res(c[3])}), Inside(o2, {Res(c[4]), Res(c[5])}),
         NEW q, q = NmsOver(r, by, c, i1, o1, i2, o2)
  PROVE  Posed(q, t, {}, I, {}, {})
<1>1. PICK c1, c2, c3, c4, c5, none : c1 = c[1] /\ c2 = c[2] /\ c3 = c[3] /\ c4 = c[4] /\ c5 = c[5] /\ none = {}
  OBVIOUS
<1>2. /\ c1 \in Known /\ c2 \in Known /\ c3 \in Known /\ c4 \in Known /\ c5 \in Known
      /\ Range(c) = {c1, c2, c3, c4, c5}
      /\ Res(c1) # Res(c2) /\ Res(c1) # Res(c3) /\ Res(c1) # Res(c4) /\ Res(c1) # Res(c5) /\ Res(c2) # Res(c3)
      /\ Res(c2) # Res(c4) /\ Res(c2) # Res(c5) /\ Res(c3) # Res(c4) /\ Res(c3) # Res(c5) /\ Res(c4) # Res(c5)
  <2>1. DOMAIN c = 1 .. 5 /\ \A i \in 1 .. 5 : c[i] \in Known
    BY ElementOfSeq, LenProperties
  <2>2. Range(c) = {c1, c2, c3, c4, c5}
    BY <1>1, <2>1 DEF Range
  <2> QED
    BY <1>1, <2>1, <2>2 DEF Distinct
<1>3. \A h \in I : Res(h) # Res(c1) /\ Res(h) # Res(c2) /\ Res(h) # Res(c3) /\ Res(h) # Res(c4) /\ Res(h) # Res(c5)
  BY <1>2 DEF Apart
<1>4. PICK u, v, w : u = <<c1, c2>> /\ v = <<c3>> /\ w = <<c4, c5>>
  OBVIOUS
<1>5. /\ u \in Seq(Known) /\ v \in Seq(Known) /\ w \in Seq(Known)
      /\ Range(u) = {c1, c2} /\ Range(v) = {c3} /\ Range(w) = {c4, c5}
  BY <1>2, <1>4, SmallSeq
<1>6. Once(u) /\ Once(v) /\ Once(w)
  BY <1>2, <1>4 DEF Once
<1>7. PICK s0 : s0 = Add(r, UavBarrier(Res(c1)))
  OBVIOUS
<1>8. PICK s1 : s1 = Add(s0, UavBarrier(Res(c2)))
  OBVIOUS
<1>9. PICK t1 : t1 = EnterAll(s1, u, "SRV")
  OBVIOUS
<1>10. PICK s2 : s2 = EnterAll(t1, v, "UAV")
  OBVIOUS
<1>11. PICK s3 : s3 = Add(s2, Run(by, i1, o1))
  OBVIOUS
<1>12. PICK t3 : t3 = Add(s3, UavBarrier(Res(c3)))
  OBVIOUS
<1>13. PICK t4 : t4 = EnterAll(t3, v, "SRV")
  OBVIOUS
<1>14. PICK s4 : s4 = EnterAll(t4, w, "UAV")
  OBVIOUS
<1>15. PICK s5 : s5 = Add(s4, Run(by, i2, o2))
  OBVIOUS
<1>16. PICK back : back = Reverse(c)
  OBVIOUS
<1>17. q = Restore(s5, back, Resting)
  BY <1>1, <1>4, <1>7, <1>8, <1>9, <1>10, <1>11, <1>12, <1>13, <1>14, <1>15, <1>16 DEF NmsOver
<1>18. Posed(s1, t, none, I, {c1, c2}, {c5})
  <2>1. PICK W : W = {Res(c1), Res(c2)}
    OBVIOUS
  <2>2. Posed(r, t, W, I, {c1, c2}, {c5})
    BY <1>1, <2>1
  <2>3. Posed(s0, t, W \ {Res(c1)}, I, {c1, c2}, {c5})
    BY <1>2, <1>7, <2>2, PoseUav
  <2>4. Posed(s1, t, (W \ {Res(c1)}) \ {Res(c2)}, I, {c1, c2}, {c5})
    BY <1>2, <1>8, <2>3, PoseUav
  <2>5. (W \ {Res(c1)}) \ {Res(c2)} = none
    BY <1>1, <2>1
  <2> QED
    BY <2>4, <2>5
<1>19. PICK I2 : I2 = I \cup {c1, c2}
  OBVIOUS
<1>20. Posed(t1, t, none, I2, none, {c5})
  <2>1. PICK O, K : O = {c1, c2} /\ K = {c5}
    OBVIOUS
  <2>2. Posed(s1, t, none, I, O, K)
    BY <1>18, <2>1
  <2>3. Apart(Range(u), (O \cup K) \ Range(u)) /\ Stated(u, I \cup O \cup K, t)
    BY <1>2, <1>3, <1>5, <1>6, <2>1 DEF Apart, Stated
  <2>4. Posed(t1, t, none \ {Res(h) : h \in Range(u) \ I}, I \cup Range(u), O \ Range(u), K \ Range(u))
    BY ONLY BufOk, <1>5, <1>9, <2>2, <2>3, PoseRead
  <2>5. none \ {Res(h) : h \in Range(u) \ I} = none /\ I \cup Range(u) = I2 /\ O \ Range(u) = none /\ K \ Range(u) = {c5}
    BY <1>1, <1>2, <1>5, <1>19, <2>1
  <2> QED
    BY <2>4, <2>5
<1>21. Posed(s2, t, none, I2, {c3}, {c5})
  <2>1. PICK K : K = {c5}
    OBVIOUS
  <2>2. Posed(t1, t, none, I2, none, K)
    BY <1>20, <2>1
  <2>3. Apart(Range(v), (I2 \cup K) \ Range(v)) /\ Stated(v, I2 \cup none \cup K, t)
    BY <1>1, <1>2, <1>3, <1>5, <1>6, <1>19, <2>1 DEF Apart, Stated
  <2>4. Posed(s2, t, none \ {Res(h) : h \in Range(v) \ none}, I2 \ Range(v), none \cup Range(v), K \ Range(v))
    BY ONLY BufOk, <1>5, <1>10, <2>2, <2>3, PoseWrite
  <2>5. /\ none \ {Res(h) : h \in Range(v) \ none} = none /\ none \cup Range(v) = {c3}
        /\ I2 \ Range(v) = I2 /\ K \ Range(v) = {c5}
    BY <1>1, <1>2, <1>3, <1>5, <1>19, <2>1
  <2> QED
    BY <2>4, <2>5
<1>22. Posed(t3, t, none, I2, {c3}, {c5})
  <2>1. PICK X, V, O, K : X = {Res(c1), Res(c2)} /\ V = {Res(c3)} /\ O = {c3} /\ K = {c5}
    OBVIOUS
  <2>2. (\A x \in X : \E h \in I2 : Res(h) = x) /\ (\A x \in V : \E h \in O : Res(h) = x)
    BY <1>19, <2>1
  <2>3. Inside(i1, X) /\ Inside(o1, V) /\ Posed(s2, t, {}, I2, O, K)
    BY <1>1, <1>21, <2>1
  <2>4. Posed(s3, t, V, I2, O, K)
    BY ONLY BufOk, by \in Nat, <1>11, <2>2, <2>3, RunPosed
  <2>5. Posed(t3, t, V \ {Res(c3)}, I2, O, K)
    BY <1>2, <1>12, <2>4, PoseUav
  <2>6. V \ {Res(c3)} = none
    BY <1>1, <2>1
  <2> QED
    BY <2>1, <2>5, <2>6
<1>23. PICK I3 : I3 = I2 \cup {c3}
  OBVIOUS
<1>24. Posed(t4, t, none, I3, none, {c5})
  <2>1. PICK O, K : O = {c3} /\ K = {c5}
    OBVIOUS
  <2>2. Posed(t3, t, none, I2, O, K)
    BY <1>22, <2>1
  <2>3. Apart(Range(v), (O \cup K) \ Range(v)) /\ Stated(v, I2 \cup O \cup K, t)
    BY <1>2, <1>3, <1>5, <1>6, <1>19, <2>1 DEF Apart, Stated
  <2>4. Posed(t4, t, none \ {Res(h) : h \in Range(v) \ I2}, I2 \cup Range(v), O \ Range(v), K \ Range(v))
    BY ONLY BufOk, <1>5, <1>13, <2>2, <2>3, PoseRead
  <2>5. none \ {Res(h) : h \in Range(v) \ I2} = none /\ I2 \cup Range(v) = I3 /\ O \ Range(v) = none /\ K \ Range(v) = {c5}
    BY <1>1, <1>2, <1>5, <1>23, <2>1
  <2> QED
    BY <2>4, <2>5
<1>25. Posed(s4, t, none, I3, {c4, c5}, none)
  <2>1. PICK K : K = {c5}
    OBVIOUS
  <2>2. Posed(t4, t, none, I3, none, K)
    BY <1>24, <2>1
  <2>3. Apart(Range(w), (I3 \cup K) \ Range(w)) /\ Stated(w, I3 \cup none \cup K, t)
    BY <1>1, <1>2, <1>3, <1>5, <1>6, <1>19, <1>23, <2>1 DEF Apart, Stated
  <2>4. Posed(s4, t, none \ {Res(h) : h \in Range(w) \ none}, I3 \ Range(w), none \cup Range(w), K \ Range(w))
    BY ONLY BufOk, <1>5, <1>14, <2>2, <2>3, PoseWrite
  <2>5. /\ none \ {Res(h) : h \in Range(w) \ none} = none /\ none \cup Range(w) = {c4, c5}
        /\ I3 \ Range(w) = I3 /\ K \ Range(w) = none
    BY <1>1, <1>2, <1>3, <1>5, <1>19, <1>23, <2>1
  <2> QED
    BY <2>4, <2>5
<1>26. PICK X, V, O : X = {Res(c1), Res(c2), Res(c3)} /\ V = {Res(c4), Res(c5)} /\ O = {c4, c5}
  OBVIOUS
<1>27. Posed(s5, t, V, I3, O, none)
  <2>1. (\A x \in X : \E h \in I3 : Res(h) = x) /\ (\A x \in V : \E h \in O : Res(h) = x)
    BY <1>19, <1>23, <1>26
  <2>2. Inside(i2, X) /\ Inside(o2, V) /\ Posed(s4, t, {}, I3, O, none)
    BY <1>1, <1>25, <1>26
  <2> QED
    BY ONLY BufOk, by \in Nat, <1>15, <2>1, <2>2, RunPosed
<1>28. back \in Seq(Known) /\ Range(back) = {c1, c2, c3, c4, c5} /\ Once(back)
  <2>1. Once(c)
    BY LenProperties DEF Once, Distinct
  <2> QED
    BY <1>2, <1>16, <2>1, ReverseOnce
<1>29. Posed(q, t, V \ {Res(h) : h \in Range(back) \cap (I3 \cup O \cup none)}, I3 \ Range(back), O \ Range(back), none \ Range(back))
  <2>1. Apart(Range(back), (I3 \cup O \cup none) \ Range(back))
    BY <1>1, <1>2, <1>3, <1>19, <1>23, <1>26, <1>28 DEF Apart
  <2> QED
    BY ONLY BufOk, <1>17, <1>27, <1>28, <2>1, PoseRestore
<1>30. /\ V \ {Res(h) : h \in Range(back) \cap (I3 \cup O \cup none)} = none /\ I3 \ Range(back) = I
       /\ O \ Range(back) = none /\ none \ Range(back) = none
  BY <1>1, <1>2, <1>3, <1>19, <1>23, <1>26, <1>28
<1> QED
  BY <1>1, <1>29, <1>30


\* The cells of one handle, of two and of three.
LEMMA InsideOf ==
  ASSUME BufOk
  PROVE  /\ \A h \in Known : Inside(Elements(h), {Res(h)}) /\ Inside(FromStart(h), {Res(h)})
         /\ \A x, y, X, Y : Inside(x, X) /\ Inside(y, Y) => Inside(x \cup y, X \cup Y)
<1>1. ASSUME NEW h \in Known PROVE Inside(Elements(h), {Res(h)}) /\ Inside(FromStart(h), {Res(h)})
  BY CellSpace DEF Inside
<1>2. ASSUME NEW x, NEW y, NEW X, NEW Y, Inside(x, X), Inside(y, Y) PROVE Inside(x \cup y, X \cup Y)
  BY <1>2 DEF Inside, ResourcesOf
<1> QED
  BY <1>1, <1>2

\* Counters cleared, the input entered, candidates and their counter entered, the decode.
LEMMA DecodePosed ==
  ASSUME BufOk, NEW r, NEW t, Posed(r, t, {}, {}, {}, {}), NEW by \in Nat, NEW k \in Nat,
         NEW zs \in Seq(Known), Once(zs), NEW x \in Known, NEW y \in Known, NEW z \in Range(zs),
         Apart({x}, Range(zs)), Apart({y}, Range(zs)), Apart({x}, {y}),
         NEW in, NEW out, Inside(in, {Res(x)}), Inside(out, {Res(y), Res(z)}),
         NEW q, q = Add(EnterAll(EnterAll(ZeroCounters(r, by, k, zs), <<x>>, "SRV"), <<y, z>>, "UAV"), Run(by, in, out))
  PROVE  Posed(q, t, {Res(y), Res(z)}, {x}, {y, z}, Range(zs) \ {z})
<1>1. PICK none, R, xs, ys, a, b, e :
        /\ none = {} /\ R = Range(zs) /\ xs = <<x>> /\ ys = <<y, z>>
        /\ a = ZeroCounters(r, by, k, zs) /\ b = EnterAll(a, xs, "SRV") /\ e = EnterAll(b, ys, "UAV")
  OBVIOUS
<1>2. /\ z \in Known /\ xs \in Seq(Known) /\ ys \in Seq(Known) /\ Range(xs) = {x} /\ Range(ys) = {y, z}
      /\ Res(x) # Res(y) /\ Res(x) # Res(z) /\ Res(y) # Res(z)
      /\ \A h \in R : Res(h) # Res(x) /\ Res(h) # Res(y)
  <2>1. z \in Known
    BY PoseFacts
  <2> QED
    BY <1>1, <2>1, SmallSeq DEF Apart
<1>3. Once(xs) /\ Once(ys) /\ \A h \in R : h # z => Res(h) # Res(z)
  <2>1. Once(xs) /\ Once(ys)
    BY <1>1, <1>2 DEF Once
  <2>2. \A h \in R : \E i \in 1 .. Len(zs) : h = zs[i]
    BY <1>1, PoseFacts
  <2>3. ASSUME NEW h \in R, Res(h) = Res(z) PROVE h = z
    <3>1. PICK i \in 1 .. Len(zs) : h = zs[i]
      BY <2>2
    <3>2. PICK j \in 1 .. Len(zs) : z = zs[j]
      BY <1>1, <2>2
    <3> QED
      BY <2>3, <3>1, <3>2 DEF Once
  <2> QED
    BY <2>1, <2>3
<1>4. Posed(a, t, none, none, none, R)
  <2>1. Posed(r, t, {}, none, {}, {}) /\ Apart(Range(zs), none)
    BY <1>1 DEF Apart
  <2>2. Posed(a, t, {}, none, {}, Range(zs))
    BY <1>1, <2>1, ZerosPosed
  <2> QED
    BY <1>1, <2>2
<1>5. PICK I : I = {x}
  OBVIOUS
<1>6. Posed(b, t, none, I, none, R)
  <2>1. Apart(Range(xs), (none \cup R) \ Range(xs)) /\ Stated(xs, none \cup none \cup R, t)
    BY <1>1, <1>2, <1>3 DEF Apart, Stated
  <2>2. Posed(b, t, none \ {Res(h) : h \in Range(xs) \ none}, none \cup Range(xs), none \ Range(xs), R \ Range(xs))
    BY ONLY BufOk, <1>1, <1>2, <1>4, <2>1, PoseRead
  <2>3. /\ none \ {Res(h) : h \in Range(xs) \ none} = none /\ none \cup Range(xs) = I
        /\ none \ Range(xs) = none /\ R \ Range(xs) = R
    BY <1>1, <1>2, <1>5
  <2> QED
    BY <2>2, <2>3
<1>7. PICK O, K : O = {y, z} /\ K = R \ {z}
  OBVIOUS
<1>8. Posed(e, t, none, I, O, K)
  <2>1. Apart(Range(ys), (I \cup R) \ Range(ys)) /\ Stated(ys, I \cup none \cup R, t)
    BY <1>1, <1>2, <1>3, <1>5 DEF Apart, Stated
  <2>2. Posed(e, t, none \ {Res(h) : h \in Range(ys) \ none}, I \ Range(ys), none \cup Range(ys), R \ Range(ys))
    BY ONLY BufOk, <1>1, <1>2, <1>6, <2>1, PoseWrite
  <2>3. /\ none \ {Res(h) : h \in Range(ys) \ none} = none /\ I \ Range(ys) = I
        /\ none \cup Range(ys) = O /\ R \ Range(ys) = K
    BY <1>1, <1>2, <1>5, <1>7
  <2> QED
    BY <2>2, <2>3
<1>9. PICK X, V : X = {Res(x)} /\ V = {Res(y), Res(z)}
  OBVIOUS
<1>10. Posed(q, t, V, I, O, K)
  <2>1. (\A u \in X : \E h \in I : Res(h) = u) /\ (\A u \in V : \E h \in O : Res(h) = u)
    BY <1>5, <1>7, <1>9
  <2>2. Inside(in, X) /\ Inside(out, V) /\ Posed(e, t, {}, I, O, K) /\ q = Add(e, Run(by, in, out))
    BY <1>1, <1>8, <1>9
  <2> QED
    BY ONLY BufOk, by \in Nat, <2>1, <2>2, RunPosed
<1> QED
  BY <1>1, <1>5, <1>7, <1>9, <1>10

\* decode_filter
LEMMA DecodeFilterPosed ==
  ASSUME BufOk, NEW r, NEW t, Posed(r, t, {}, {}, {}, {}), r.st = Resting, NEW by \in Nat, NEW k \in Nat,
         NEW a \in Seq(Known), Len(a) = 3, Distinct(a), NEW q, q = DecodeFilter(r, by, k, a)
  PROVE  Posed(q, t, {}, {}, {}, {})
<1>1. PICK x, y, z, zs, none : x = a[1] /\ y = a[2] /\ z = a[3] /\ zs = <<z>> /\ none = {}
  OBVIOUS
<1>2. x \in Known /\ y \in Known /\ z \in Known /\ Res(x) # Res(y) /\ Res(x) # Res(z) /\ Res(y) # Res(z)
  <2>1. DOMAIN a = 1 .. 3 /\ \A i \in 1 .. 3 : a[i] \in Known
    BY ElementOfSeq, LenProperties
  <2> QED
    BY <1>1, <2>1 DEF Distinct
<1>3. zs \in Seq(Known) /\ Range(zs) = {z} /\ Once(zs)
  <2>1. Once(zs)
    BY <1>1 DEF Once
  <2> QED
    BY <1>1, <1>2, <2>1, SmallSeq
<1>4. PICK in, out, d : /\ in = FromStart(x) /\ out = FromStart(y) \cup FromStart(z)
                        /\ d = Add(EnterAll(EnterAll(ZeroCounters(r, by, k, zs), <<x>>, "SRV"), <<y, z>>, "UAV"), Run(by, in, out))
  OBVIOUS
<1>5. Inside(in, {Res(x)}) /\ Inside(out, {Res(y), Res(z)})
  <2>1. Inside(in, {Res(x)}) /\ Inside(out, {Res(y)} \cup {Res(z)})
    BY <1>2, <1>4, InsideOf
  <2>2. {Res(y)} \cup {Res(z)} = {Res(y), Res(z)}
    OBVIOUS
  <2> QED
    BY <2>1, <2>2
<1>6. Posed(d, t, {Res(y), Res(z)}, {x}, {y, z}, Range(zs) \ {z})
  <2>1. z \in Range(zs) /\ Apart({x}, Range(zs)) /\ Apart({y}, Range(zs)) /\ Apart({x}, {y})
    BY <1>2, <1>3 DEF Apart
  <2> QED
    BY ONLY BufOk, Posed(r, t, {}, {}, {}, {}), by \in Nat, k \in Nat, <1>2, <1>3, <1>4, <1>5, <2>1, DecodePosed
<1>7. PICK W, I, O, back : W = {Res(y), Res(z)} /\ I = {x} /\ O = {y, z} /\ back = <<z, y, x>>
  OBVIOUS
<1>8. back \in Seq(Known) /\ Range(back) = {z, y, x} /\ Once(back)
  <2>1. Once(back)
    BY <1>2, <1>7 DEF Once
  <2> QED
    BY <1>2, <1>7, <2>1, SmallSeq
<1>9. q = Restore(d, back, Resting)
  BY <1>1, <1>4, <1>7 DEF DecodeFilter
<1>10. Posed(d, t, W, I, O, none)
  BY <1>1, <1>3, <1>6, <1>7
<1>11. Posed(q, t, W \ {Res(h) : h \in Range(back) \cap (I \cup O \cup none)}, I \ Range(back), O \ Range(back), none \ Range(back))
  <2>1. Apart(Range(back), (I \cup O \cup none) \ Range(back))
    BY <1>1, <1>7, <1>8 DEF Apart
  <2> QED
    BY ONLY BufOk, <1>8, <1>9, <1>10, <2>1, PoseRestore
<1>12. /\ W \ {Res(h) : h \in Range(back) \cap (I \cup O \cup none)} = none /\ I \ Range(back) = none
       /\ O \ Range(back) = none /\ none \ Range(back) = none
  BY <1>1, <1>7, <1>8
<1> QED
  BY <1>1, <1>11, <1>12

\* The inputs of a decode go back.
LEMMA PoseBack ==
  ASSUME BufOk, NEW r, NEW t, NEW hs \in Seq(Known), Posed(r, t, {}, Range(hs), {}, {}),
         "misstated" \in t \/ Once(hs), NEW q, q = Restore(r, hs, Resting)
  PROVE  Posed(q, t, {}, {}, {}, {})
<1>1. PICK I, none : I = Range(hs) /\ none = {}
  OBVIOUS
<1>2. Posed(r, t, none, I, none, none)
  BY <1>1
<1>3. Apart(Range(hs), (I \cup none \cup none) \ Range(hs))
  BY <1>1 DEF Apart
<1>4. Posed(q, t, none \ {Res(h) : h \in Range(hs) \cap (I \cup none \cup none)}, I \ Range(hs), none \ Range(hs), none \ Range(hs))
  BY ONLY BufOk, hs \in Seq(Known), "misstated" \in t \/ Once(hs), q = Restore(r, hs, Resting), <1>2, <1>3, PoseRestore
<1>5. /\ none \ {Res(h) : h \in Range(hs) \cap (I \cup none \cup none)} = none
      /\ I \ Range(hs) = none /\ none \ Range(hs) = none
  BY <1>1
<1> QED
  BY <1>1, <1>4, <1>5

\* The cells that mark and compact reads and writes are in its five resources.
NmsInside(c) ==
  /\ Inside(FromStart(c[1]) \cup FromStart(c[2]), {Res(c[1]), Res(c[2])})
  /\ Inside(FromStart(c[3]), {Res(c[3])}) /\ Inside(Elements(c[3]), {Res(c[3])})
  /\ Inside(UNION {FromStart(c[i]) : i \in {1, 2, 3}}, {Res(c[1]), Res(c[2]), Res(c[3])})
  /\ Inside(FromStart(c[4]) \cup FromStart(c[5]), {Res(c[4]), Res(c[5])})
  /\ Inside(Elements(c[1]) \cup Elements(c[2]), {Res(c[1]), Res(c[2])})
  /\ Inside(UNION {Elements(c[i]) : i \in {1, 2, 3}}, {Res(c[1]), Res(c[2]), Res(c[3])})
  /\ Inside(Elements(c[4]) \cup Elements(c[5]), {Res(c[4]), Res(c[5])})

\* They are, whatever the handles.
LEMMA NmsCells ==
  ASSUME BufOk, NEW c, \A i \in 1 .. 5 : c[i] \in Known
  PROVE  NmsInside(c)
<1>1. \A i \in 1 .. 5 : /\ FromStart(c[i]) \in SUBSET Cells /\ ResourcesOf(FromStart(c[i])) \subseteq {Res(c[i])}
                        /\ Elements(c[i]) \in SUBSET Cells /\ ResourcesOf(Elements(c[i])) \subseteq {Res(c[i])}
  BY CellSpace
<1>2. PICK f : f = [i \in 1 .. 5 |-> FromStart(c[i])]
  OBVIOUS
<1>3. PICK e : e = [i \in 1 .. 5 |-> Elements(c[i])]
  OBVIOUS
<1>4. \A i \in 1 .. 5 : /\ f[i] \in SUBSET Cells /\ (\A x \in f[i] : x[1] = Res(c[i]))
                        /\ e[i] \in SUBSET Cells /\ (\A x \in e[i] : x[1] = Res(c[i]))
  BY <1>1, <1>2, <1>3 DEF ResourcesOf
<1>5. \A i \in 1 .. 5 : f[i] = FromStart(c[i]) /\ e[i] = Elements(c[i])
  BY <1>2, <1>3
<1>6. /\ UNION {FromStart(c[i]) : i \in {1, 2, 3}} = f[1] \cup f[2] \cup f[3]
      /\ UNION {Elements(c[i]) : i \in {1, 2, 3}} = e[1] \cup e[2] \cup e[3]
  <2>1. \A i \in {1, 2, 3} : f[i] = FromStart(c[i]) /\ e[i] = Elements(c[i])
    BY <1>5
  <2> QED
    BY <2>1
<1>7. /\ f[1] = FromStart(c[1]) /\ f[2] = FromStart(c[2]) /\ f[3] = FromStart(c[3])
      /\ f[4] = FromStart(c[4]) /\ f[5] = FromStart(c[5])
      /\ e[1] = Elements(c[1]) /\ e[2] = Elements(c[2]) /\ e[3] = Elements(c[3])
      /\ e[4] = Elements(c[4]) /\ e[5] = Elements(c[5])
  BY <1>5
<1>8. Inside(FromStart(c[1]) \cup FromStart(c[2]), {Res(c[1]), Res(c[2])})
  BY <1>4, <1>7 DEF Inside, ResourcesOf
<1>9. Inside(FromStart(c[3]), {Res(c[3])}) /\ Inside(Elements(c[3]), {Res(c[3])})
  BY <1>4, <1>7 DEF Inside, ResourcesOf
<1>10. Inside(FromStart(c[4]) \cup FromStart(c[5]), {Res(c[4]), Res(c[5])})
  BY <1>4, <1>7 DEF Inside, ResourcesOf
<1>11. Inside(Elements(c[1]) \cup Elements(c[2]), {Res(c[1]), Res(c[2])})
  BY <1>4, <1>7 DEF Inside, ResourcesOf
<1>12. Inside(Elements(c[4]) \cup Elements(c[5]), {Res(c[4]), Res(c[5])})
  BY <1>4, <1>7 DEF Inside, ResourcesOf
<1>13. Inside(UNION {FromStart(c[i]) : i \in {1, 2, 3}}, {Res(c[1]), Res(c[2]), Res(c[3])})
  BY <1>4, <1>6 DEF Inside, ResourcesOf
<1>14. Inside(UNION {Elements(c[i]) : i \in {1, 2, 3}}, {Res(c[1]), Res(c[2]), Res(c[3])})
  BY <1>4, <1>6 DEF Inside, ResourcesOf
<1> QED
  BY ONLY <1>8, <1>9, <1>10, <1>11, <1>12, <1>13, <1>14 DEF NmsInside

\* Operands name six resources: zeros, decode, mark and compact leave the handles at
\* rest and no fault.
LEMMA DecodeNmsPosed ==
  ASSUME BufOk, NEW r, NEW t, Posed(r, t, {}, {}, {}, {}), r.st = Resting, NEW by \in Nat, NEW k \in Nat,
         NEW a \in Seq(Known), Len(a) = 6, Distinct(a), NEW q, q = DecodeNms(r, by, k, a)
  PROVE  Posed(q, t, {}, {}, {}, {})
<1>1. PICK a1, a2, a3, a6, zs, xs : /\ a1 = a[1] /\ a2 = a[2] /\ a3 = a[3] /\ a6 = a[6]
                                    /\ zs = <<a3, a6>> /\ xs = <<a1>>
  OBVIOUS
<1>2. DOMAIN a = 1 .. 6 /\ \A i \in 1 .. 6 : a[i] \in Known
  BY ElementOfSeq, LenProperties
<1>3. a1 \in Known /\ a2 \in Known /\ a3 \in Known /\ a6 \in Known
  BY <1>1, <1>2
<1>4. Res(a1) # Res(a2) /\ Res(a1) # Res(a3) /\ Res(a1) # Res(a6) /\ Res(a2) # Res(a3) /\ Res(a2) # Res(a6) /\ Res(a3) # Res(a6)
  BY <1>1, <1>2 DEF Distinct
<1>5. zs \in Seq(Known) /\ Range(zs) = {a3, a6} /\ xs \in Seq(Known) /\ Range(xs) = {a1}
  BY <1>1, <1>3, SmallSeq
<1>6. Once(zs) /\ Once(xs)
  BY <1>1, <1>4 DEF Once
<1>7. PICK c : c = Tail(a)
  OBVIOUS
<1>8. c \in Seq(Known) /\ Len(c) = 5 /\ DOMAIN c = 1 .. 5 /\ \A i \in 1 .. 5 : c[i] = a[i + 1] /\ c[i] \in Known
  <2>1. a # <<>>
    BY Operands
  <2>2. /\ Tail(a) \in Seq(Known) /\ Len(Tail(a)) = Len(a) - 1
        /\ \A i \in 1 .. Len(Tail(a)) : Tail(a)[i] = a[i + 1]
    BY <2>1, HeadTailProperties
  <2>3. c \in Seq(Known) /\ Len(c) = Len(a) - 1 /\ \A i \in 1 .. Len(c) : c[i] = a[i + 1]
    BY ONLY <1>7, <2>2
  <2>4. Len(c) = 5
    BY ONLY <2>3, Len(a) = 6
  <2>5. c \in Seq(Known) /\ DOMAIN c = 1 .. 5 /\ \A i \in 1 .. 5 : c[i] = a[i + 1]
    BY ONLY <2>3, <2>4, LenProperties
  <2> QED
    BY ONLY <1>2, <2>4, <2>5
<1>9. c[1] = a2 /\ c[2] = a3 /\ c[5] = a6
  BY <1>1, <1>8
<1>10. Distinct(c)
  <2>1. ASSUME NEW i \in 1 .. 5, NEW j \in 1 .. 5, i # j PROVE Res(c[i]) # Res(c[j])
    <3>1. PICK u, v : u = i + 1 /\ v = j + 1
      OBVIOUS
    <3>2. u \in 1 .. 6 /\ v \in 1 .. 6 /\ u # v
      BY <2>1, <3>1
    <3>3. c[i] = a[u] /\ c[j] = a[v]
      BY <1>8, <3>1
    <3> QED
      BY <1>2, <3>2, <3>3 DEF Distinct
  <2> QED
    BY <1>8, <2>1 DEF Distinct
<1>11. Apart({a1}, Range(c))
  <2>1. ASSUME NEW g \in Range(c) PROVE Res(a1) # Res(g)
    <3>1. PICK i \in 1 .. 5 : g = c[i]
      BY <1>8 DEF Range
    <3>2. PICK u : u = i + 1
      OBVIOUS
    <3>3. u \in 1 .. 6 /\ u # 1
      BY <3>2
    <3>4. g = a[u]
      BY <1>8, <3>1, <3>2
    <3> QED
      BY <1>1, <1>2, <3>3, <3>4 DEF Distinct
  <2> QED
    BY <2>1 DEF Apart
<1>12. PICK in, out : in = FromStart(a1) /\ out = FromStart(a2) \cup FromStart(a3)
  OBVIOUS
<1>13. Inside(in, {Res(a1)}) /\ Inside(out, {Res(a2), Res(a3)})
  <2>1. Inside(in, {Res(a1)}) /\ Inside(out, {Res(a2)} \cup {Res(a3)})
    BY <1>3, <1>12, InsideOf
  <2>2. {Res(a2)} \cup {Res(a3)} = {Res(a2), Res(a3)}
    OBVIOUS
  <2> QED
    BY <2>1, <2>2
<1>14. PICK d : d = Add(EnterAll(EnterAll(ZeroCounters(r, by, k, zs), <<a1>>, "SRV"), <<a2, a3>>, "UAV"), Run(by, in, out))
  OBVIOUS
<1>15. Posed(d, t, {Res(a2), Res(a3)}, {a1}, {a2, a3}, Range(zs) \ {a3})
  <2>1. a3 \in Range(zs) /\ Apart({a1}, Range(zs)) /\ Apart({a2}, Range(zs)) /\ Apart({a1}, {a2})
    BY <1>4, <1>5 DEF Apart
  <2> QED
    BY ONLY BufOk, Posed(r, t, {}, {}, {}, {}), by \in Nat, k \in Nat, <1>3, <1>5, <1>6, <1>13, <1>14, <2>1, DecodePosed
<1>16. PICK i1, o1, i2, o2 :
         /\ i1 = FromStart(c[1]) \cup FromStart(c[2]) /\ o1 = FromStart(c[3])
         /\ i2 = UNION {FromStart(c[i]) : i \in {1, 2, 3}} /\ o2 = FromStart(c[4]) \cup FromStart(c[5])
  OBVIOUS
<1>17. /\ Inside(i1, {Res(c[1]), Res(c[2])}) /\ Inside(o1, {Res(c[3])})
       /\ Inside(i2, {Res(c[1]), Res(c[2]), Res(c[3])}) /\ Inside(o2, {Res(c[4]), Res(c[5])})
  <2>1. NmsInside(c)
    BY <1>8, NmsCells
  <2> QED
    BY <1>16, <2>1 DEF NmsInside
<1>18. PICK I : I = {a1}
  OBVIOUS
<1>19. Posed(d, t, {Res(c[1]), Res(c[2])}, I, {c[1], c[2]}, {c[5]})
  <2>1. Range(zs) \ {a3} = {a6}
    BY <1>4, <1>5
  <2> QED
    BY <1>9, <1>15, <1>18, <2>1
<1>20. PICK e : e = NmsOver(d, by, c, i1, o1, i2, o2)
  OBVIOUS
<1>21. Posed(e, t, {}, I, {}, {})
  <2>1. Apart(I, Range(c))
    BY <1>11, <1>18
  <2>2. c \in Seq(Known) /\ Len(c) = 5
    BY <1>8
  <2> QED
    BY ONLY BufOk, by \in Nat, <1>10, <1>17, <1>19, <1>20, <2>1, <2>2, NmsPosed
<1>22. q = Restore(e, xs, Resting)
  BY <1>1, <1>7, <1>12, <1>14, <1>16, <1>20 DEF DecodeNms, NmsAndTopK, NmsOver
<1> QED
  <2>1. Posed(e, t, {}, Range(xs), {}, {})
    BY <1>5, <1>18, <1>21
  <2> QED
    BY ONLY BufOk, <1>5, <1>6, <1>22, <2>1, PoseBack

\* The heads are apart from the five buffers, and those from each other: zeros, decode,
\* mark and compact leave the handles at rest, and only heads that name one resource
\* twice make a transition start from a wrong state.
LEMMA HeadPosed ==
  ASSUME BufOk, NEW r, NEW t, Posed(r, t, {}, {}, {}, {}), r.st = Resting, NEW by \in Nat, NEW n \in Nat,
         NEW a, NEW k, k = Len(a) - 5, NEW heads \in Seq(Known), heads = SubSeq(a, 1, k), Len(heads) = k, k \in Nat,
         NEW c \in Seq(Known), c = SubSeq(a, k + 1, k + 5), Len(c) = 5, Distinct(c), Apart(Range(heads), Range(c)),
         "misstated" \in t \/ Once(heads), NEW q, q = HeadDecodeNms(r, by, n, a)
  PROVE  Posed(q, t, {}, {}, {}, {})
<1>1. DOMAIN c = 1 .. 5 /\ (\A i \in 1 .. 5 : c[i] \in Known) /\ \A i \in 1 .. 5 : c[i] \in Range(c)
  <2>1. DOMAIN c = 1 .. 5
    BY LenProperties
  <2>2. \A i \in 1 .. 5 : c[i] \in Known
    BY ElementOfSeq
  <2> QED
    BY <2>1, <2>2 DEF Range
<1>2. DOMAIN heads = 1 .. k /\ \A i \in 1 .. k : heads[i] \in Known /\ heads[i] \in Range(heads)
  <2>1. DOMAIN heads = 1 .. k
    BY LenProperties
  <2>2. \A i \in 1 .. k : heads[i] \in Known
    BY ElementOfSeq
  <2> QED
    BY <2>1, <2>2 DEF Range
<1>3. \A i, j \in 1 .. 5 : i # j => Res(c[i]) # Res(c[j])
  BY <1>1 DEF Distinct
<1>4. PICK once, none, I : once = FirstOfHandle(heads) /\ none = {} /\ I = Range(heads)
  OBVIOUS
<1>5. once \in Seq(Known) /\ Range(once) = I /\ ("misstated" \in t \/ Once(once)) /\ I \subseteq Known
  <2>1. once \in Seq(Known) /\ Range(once) = Range(heads)
    BY ONLY heads \in Seq(Known), <1>4, FirstOfHandleIs
  <2>2. ASSUME Once(heads) PROVE Once(once)
    BY ONLY heads \in Seq(Known), <2>2, <1>4, FirstOfHandleOnce
  <2>3. Range(heads) \subseteq Known
    BY PoseFacts
  <2> QED
    BY <1>4, <2>1, <2>2, <2>3
<1>6. PICK b : b = EnterAll(r, once, "SRV")
  OBVIOUS
<1>7. Posed(b, t, {}, I, {}, {})
  <2>1. Posed(r, t, none, none, none, none)
    BY <1>4
  <2>2. Apart(Range(once), (none \cup none) \ Range(once)) /\ Stated(once, none \cup none \cup none, t)
    BY <1>4, <1>5 DEF Apart, Stated
  <2>3. Posed(b, t, none \ {Res(h) : h \in Range(once) \ none}, none \cup Range(once), none \ Range(once), none \ Range(once))
    BY ONLY BufOk, <1>5, <1>6, <2>1, <2>2, PoseRead
  <2>4. none \ {Res(h) : h \in Range(once) \ none} = {} /\ none \cup Range(once) = I /\ none \ Range(once) = {}
    BY <1>4, <1>5
  <2> QED
    BY <2>3, <2>4
<1>8. PICK zs, xs : zs = <<c[2], c[5]>> /\ xs = <<c[1], c[2]>>
  OBVIOUS
<1>9. /\ zs \in Seq(Known) /\ Range(zs) = {c[2], c[5]} /\ Once(zs)
      /\ xs \in Seq(Known) /\ Range(xs) = {c[1], c[2]} /\ Once(xs)
  <2>1. Once(zs) /\ Once(xs)
    BY <1>3, <1>8 DEF Once
  <2>2. c[1] \in Known /\ c[2] \in Known /\ c[5] \in Known
    BY <1>1
  <2>3. zs \in Seq(Known) /\ Range(zs) = {c[2], c[5]}
    BY ONLY <1>8, <2>2, SmallSeq
  <2>4. xs \in Seq(Known) /\ Range(xs) = {c[1], c[2]}
    BY ONLY <1>8, <2>2, SmallSeq
  <2> QED
    BY <2>1, <2>3, <2>4
<1>10. PICK z : z = ZeroCounters(b, by, n, zs)
  OBVIOUS
<1>11. Posed(z, t, {}, I, {}, Range(zs))
  <2>1. Apart(Range(zs), I)
    <3>1. Range(zs) \subseteq Range(c)
      BY <1>1, <1>9
    <3> QED
      BY <1>4, <3>1 DEF Apart
  <2> QED
    BY ONLY BufOk, by \in Nat, n \in Nat, <1>7, <1>9, <1>10, <2>1, ZerosPosed
<1>12. PICK e : e = EnterAll(z, xs, "UAV")
  OBVIOUS
<1>13. PICK K, W : K = Range(zs) /\ W = {}
  OBVIOUS
<1>14. Posed(e, t, {}, I, {c[1], c[2]}, {c[5]})
  <2>1. Posed(z, t, none, I, none, K)
    BY <1>4, <1>11, <1>13
  <2>2. I \subseteq Known /\ \A g \in I, i \in 1 .. 5 : Res(g) # Res(c[i])
    BY <1>1, <1>4, <1>5 DEF Apart
  <2>3. Apart(Range(xs), (I \cup K) \ Range(xs))
    BY <1>3, <1>9, <1>13, <2>2 DEF Apart
  <2>4. Stated(xs, I \cup none \cup K, t)
    <3>1. I \cup none \cup K = I \cup K
      BY <1>4
    <3> QED
      BY <1>9, <2>3, <3>1 DEF Stated
  <2>5. Posed(e, t, none \ {Res(h) : h \in Range(xs) \ none}, I \ Range(xs), none \cup Range(xs), K \ Range(xs))
    BY ONLY BufOk, <1>9, <1>12, <2>1, <2>3, <2>4, PoseWrite
  <2>6. none \ {Res(h) : h \in Range(xs) \ none} = {} /\ none \cup Range(xs) = {c[1], c[2]}
    BY <1>4, <1>9
  <2>7. I \ Range(xs) = I
    BY <1>9, <2>2
  <2>8. K \ Range(xs) = {c[5]}
    <3>1. K = {c[2], c[5]} /\ Range(xs) = {c[1], c[2]} /\ c[5] # c[1] /\ c[5] # c[2]
      BY <1>3, <1>9, <1>13
    <3> QED
      BY ONLY <3>1
  <2> QED
    BY <2>5, <2>6, <2>7, <2>8
<1>15. PICK in, out : in = UNION {Elements(heads[i]) : i \in 1 .. k} /\ out = Elements(c[1]) \cup Elements(c[2])
  OBVIOUS
<1>16. Inside(in, {Res(h) : h \in I}) /\ Inside(out, {Res(c[1]), Res(c[2])})
  <2>1. {heads[i] : i \in 1 .. k} = I
    BY <1>2, <1>4 DEF Range
  <2>2. in = UNION {Elements(h) : h \in I}
    <3>1. (\A h \in I : \E i \in 1 .. k : h = heads[i]) /\ \A i \in 1 .. k : heads[i] \in I
      BY <1>2, <1>4 DEF Range
    <3>2. ASSUME NEW x \in in PROVE x \in UNION {Elements(h) : h \in I}
      <4>1. PICK i \in 1 .. k : x \in Elements(heads[i])
        BY <1>15, <3>2
      <4> QED
        BY <3>1, <4>1
    <3>3. ASSUME NEW x \in UNION {Elements(h) : h \in I} PROVE x \in in
      <4>1. PICK h \in I : x \in Elements(h)
        BY <3>3
      <4>2. PICK i \in 1 .. k : h = heads[i]
        BY <3>1
      <4>3. x \in Elements(heads[i])
        BY <4>1, <4>2
      <4> QED
        BY <1>15, <4>3
    <3> QED
      BY <3>2, <3>3
  <2>3. in \in SUBSET Cells /\ \A x \in ResourcesOf(in) : \E h \in I : Res(h) = x
    BY ONLY BufOk, <1>5, <2>2, HandleCells
  <2>4. Inside(Elements(c[1]), {Res(c[1])}) /\ Inside(Elements(c[2]), {Res(c[2])})
    BY <1>1, InsideOf
  <2>5. Inside(out, {Res(c[1])} \cup {Res(c[2])})
    BY <1>15, <2>4, InsideOf
  <2>6. {Res(c[1])} \cup {Res(c[2])} = {Res(c[1]), Res(c[2])}
    OBVIOUS
  <2> QED
    BY <2>3, <2>5, <2>6 DEF Inside
<1>17. PICK d : d = Add(e, Run(by, in, out))
  OBVIOUS
<1>18. Posed(d, t, {Res(c[1]), Res(c[2])}, I, {c[1], c[2]}, {c[5]})
  <2>1. PICK X, V, O, C : X = {Res(h) : h \in I} /\ V = {Res(c[1]), Res(c[2])} /\ O = {c[1], c[2]} /\ C = {c[5]}
    OBVIOUS
  <2>2. (\A x \in X : \E h \in I : Res(h) = x) /\ \A x \in V : \E h \in O : Res(h) = x
    BY <2>1
  <2>3. Posed(e, t, {}, I, O, C) /\ Inside(in, X) /\ Inside(out, V)
    BY <1>14, <1>16, <2>1
  <2>4. Posed(d, t, V, I, O, C)
    BY ONLY BufOk, by \in Nat, <1>17, <2>2, <2>3, RunPosed
  <2> QED
    BY <2>1, <2>4
<1>19. PICK i1, o1, i2, o2 :
         /\ i1 = Elements(c[1]) \cup Elements(c[2]) /\ o1 = Elements(c[3])
         /\ i2 = UNION {Elements(c[i]) : i \in {1, 2, 3}} /\ o2 = Elements(c[4]) \cup Elements(c[5])
  OBVIOUS
<1>20. /\ Inside(i1, {Res(c[1]), Res(c[2])}) /\ Inside(o1, {Res(c[3])})
       /\ Inside(i2, {Res(c[1]), Res(c[2]), Res(c[3])}) /\ Inside(o2, {Res(c[4]), Res(c[5])})
  <2>1. \A i \in 1 .. 5 : c[i] \in Known
    BY <1>1
  <2>2. NmsInside(c)
    BY ONLY BufOk, <2>1, NmsCells
  <2> QED
    BY ONLY <1>19, <2>2 DEF NmsInside
<1>21. PICK f : f = NmsOver(d, by, c, i1, o1, i2, o2)
  OBVIOUS
<1>22. Posed(f, t, {}, I, {}, {})
  <2>1. Apart(I, Range(c))
    BY <1>4
  <2> QED
    BY ONLY BufOk, by \in Nat, c \in Seq(Known), Len(c) = 5, Distinct(c), <1>18, <1>20, <1>21, <2>1, NmsPosed
<1>23. q = Restore(f, heads, Resting)
  BY <1>4, <1>6, <1>8, <1>10, <1>12, <1>15, <1>17, <1>19, <1>21 DEF HeadDecodeNms, EnterEach, NmsAndTopK, NmsOver
<1> QED
  <2>1. Posed(f, t, {}, Range(heads), {}, {})
    BY <1>4, <1>22
  <2> QED
    BY ONLY BufOk, heads \in Seq(Known), "misstated" \in t \/ Once(heads), <1>23, <2>1, PoseBack

\* The places of the operands a dispatch of k operands writes.
Outputs(kind, k) ==
  CASE kind = "decode_filter" -> {2, 3}
    [] kind = "decode_nms"    -> 2 .. 6
    [] kind = "head_nms"      -> k - 4 .. k
    [] OTHER                  -> {k}

\* What a dispatch writes is in no resource of another operand.
WritesApart(kind, a) == \A i \in Outputs(kind, Len(a)), j \in DOMAIN a : i # j => Res(a[i]) # Res(a[j])

\* The lists that leave the resources at rest and do nothing wrong but what is in t.
CleanLists(t) == {s \in Seq(BatchCommands(Nat)) : Clean(s, t)}

\* The operands but the last, and the last.
LEMMA FrontParts ==
  ASSUME NEW T, NEW a \in Seq(T), Len(a) \in Nat \ {0}, NEW p, p = Front(a), NEW y, y = Last(a)
  PROVE  /\ p \in Seq(T) /\ y \in T /\ y = a[Len(a)] /\ Len(p) = Len(a) - 1
         /\ \A i \in 1 .. Len(p) : p[i] = a[i] /\ i \in 1 .. Len(a) /\ i # Len(a)
<1>1. PICK n : n = Len(a) - 1
  OBVIOUS
<1>2. n \in Nat /\ n <= Len(a) /\ n < Len(a) /\ Len(a) = n + 1
  BY <1>1
<1>3. p = SubSeq(a, 1, n)
  BY <1>1 DEF Front
<1>4. p \in Seq(T) /\ Len(p) = (IF 1 <= n THEN (n - 1) + 1 ELSE 0)
  BY <1>2, <1>3, Part
<1>5. Len(p) = n
  BY <1>2, <1>4
<1>6. \A i \in 1 .. n : p[i] = a[i]
  BY <1>2, <1>3, <1>5, SubSeqProperties
<1>7. p \in Seq(T) /\ y \in T /\ y = a[Len(a)]
  BY <1>4, FrontLast DEF Last
<1>8. \A i \in 1 .. n : i \in 1 .. Len(a) /\ i # Len(a)
  BY <1>2
<1> QED
  BY <1>1, <1>5, <1>6, <1>7, <1>8

\* The output is apart from the inputs, and they from each other when no resource is
\* named twice.
LEMMA FrontApart ==
  ASSUME NEW T, NEW a \in Seq(T), Len(a) \in Nat \ {0}, NEW t, "misstated" \in t \/ ~NamesOneTwice(a),
         \A j \in DOMAIN a : Len(a) # j => Res(a[Len(a)]) # Res(a[j]),
         NEW p, p = Front(a), NEW y, y = Last(a)
  PROVE  Apart({y}, Range(p)) /\ ("misstated" \in t \/ Once(p))
<1>1. /\ p \in Seq(T) /\ y = a[Len(a)] /\ Len(p) = Len(a) - 1
      /\ \A i \in 1 .. Len(p) : p[i] = a[i] /\ i \in 1 .. Len(a) /\ i # Len(a)
  BY FrontParts
<1>2. DOMAIN a = 1 .. Len(a) /\ DOMAIN p = 1 .. Len(p)
  BY <1>1, LenProperties
<1>3. Apart({y}, Range(p))
  <2>1. ASSUME NEW g \in Range(p) PROVE Res(y) # Res(g)
    <3>1. PICK i \in 1 .. Len(p) : g = p[i]
      BY <1>2 DEF Range
    <3> QED
      BY <1>1, <1>2, <3>1
  <2> QED
    BY <2>1 DEF Apart
<1>4. ASSUME ~NamesOneTwice(a) PROVE Once(p)
  <2>1. ASSUME NEW i \in 1 .. Len(p), NEW j \in 1 .. Len(p), Res(p[i]) = Res(p[j]) PROVE i = j
    <3>1. i \in DOMAIN a /\ j \in DOMAIN a /\ Res(a[i]) = Res(a[j])
      BY <1>1, <1>2, <2>1
    <3> QED
      BY <1>4, <3>1 DEF NamesOneTwice
  <2> QED
    BY <2>1 DEF Once
<1> QED
  BY <1>3, <1>4

\* The output comes last.
LEMMA LastApart ==
  ASSUME NEW kind, NEW a, kind \notin {"decode_filter", "decode_nms", "head_nms"}, WritesApart(kind, a)
  PROVE  \A j \in DOMAIN a : Len(a) # j => Res(a[Len(a)]) # Res(a[j])
BY DEF WritesApart, Outputs

\* Every operand behind the first is written: all are apart.
LEMMA DecodeDistinct ==
  ASSUME NEW kind, NEW k \in Nat, NEW a, DOMAIN a = 1 .. k, Len(a) = k, Outputs(kind, k) = 2 .. k, WritesApart(kind, a)
  PROVE  Distinct(a)
<1>1. ASSUME NEW i \in 1 .. k, NEW j \in 1 .. k, i # j PROVE Res(a[i]) # Res(a[j])
  <2>1. CASE i \in 2 .. k
    BY <1>1, <2>1 DEF WritesApart
  <2>2. CASE i \notin 2 .. k
    <3>1. j \in 2 .. k
      BY <1>1, <2>2
    <3> QED
      BY <1>1, <3>1 DEF WritesApart
  <2> QED
    BY <2>1, <2>2
<1> QED
  BY <1>1 DEF Distinct

\* What a recorder at rest has recorded is a clean list.
LEMMA PosedList ==
  ASSUME BufOk, NEW r, NEW t, Posed(r, t, {}, {}, {}, {})
  PROVE  r.cmds \in CleanLists(t)
BY PosedClean DEF CleanLists

\* The heads, and the five buffers apart from them and from each other.
HeadSplit(T, t, k, heads, c) ==
  /\ k \in Nat /\ heads \in Seq(T) /\ Len(heads) = k /\ c \in Seq(T) /\ Len(c) = 5
  /\ Distinct(c) /\ Apart(Range(heads), Range(c)) /\ ("misstated" \in t \/ Once(heads))

\* The operands of that dispatch in their two parts.
LEMMA HeadParts ==
  ASSUME NEW T, NEW a \in Seq(T), Len(a) \in Nat \ (0 .. 5), WritesApart("head_nms", a), NEW t,
         "misstated" \in t \/ ~NamesOneTwice(a), NEW k, k = Len(a) - 5,
         NEW heads, heads = SubSeq(a, 1, k), NEW c, c = SubSeq(a, k + 1, k + 5)
  PROVE  HeadSplit(T, t, k, heads, c)
<1>1. k \in Nat /\ k >= 1 /\ k + 5 = Len(a)
  <2>1. PICK n : n = Len(a)
    OBVIOUS
  <2>2. n \in Nat \ (0 .. 5) /\ k = n - 5
    BY <2>1
  <2> QED
    BY ONLY <2>1, <2>2
<1>2. PICK l, u : l = k + 1 /\ u = k + 5
  OBVIOUS
<1>3. l \in Nat /\ u \in Nat /\ l >= 1 /\ u = Len(a) /\ k <= Len(a) /\ l <= u /\ (u - l) + 1 = 5 /\ (k - 1) + 1 = k
  BY <1>1, <1>2
<1>4. heads \in Seq(T) /\ Len(heads) = k
  <2>1. heads \in Seq(T) /\ Len(heads) = (IF 1 <= k THEN (k - 1) + 1 ELSE 0)
    BY <1>1, <1>3, Part
  <2> QED
    BY <1>1, <2>1
<1>5. c = SubSeq(a, l, u)
  BY <1>2
<1>6. c \in Seq(T) /\ Len(c) = 5
  <2>1. c \in Seq(T) /\ Len(c) = (IF l <= u THEN (u - l) + 1 ELSE 0)
    BY <1>3, <1>5, Part
  <2> QED
    BY <1>3, <2>1
<1>7. DOMAIN heads = 1 .. k /\ DOMAIN c = 1 .. 5 /\ DOMAIN a = 1 .. Len(a)
  <2>1. DOMAIN c = 1 .. Len(c) /\ DOMAIN heads = 1 .. Len(heads) /\ DOMAIN a = 1 .. Len(a)
    BY <1>4, <1>6, LenProperties
  <2> QED
    BY <1>4, <1>6, <2>1
<1>8. \A i \in 1 .. k : heads[i] = a[i] /\ i \in DOMAIN a /\ i < l
  <2>1. \A i \in 1 .. k : heads[i] = a[i]
    BY <1>1, <1>3, <1>4, SubSeqProperties
  <2> QED
    BY <1>1, <1>2, <1>7, <2>1
<1>9. \A i \in 1 .. 5 : c[i] = a[k + i] /\ k + i \in l .. Len(a) /\ k + i \in DOMAIN a
  <2>1. ASSUME NEW i \in 1 .. 5 PROVE c[i] = a[k + i]
    <3>1. c[i] = a[l + i - 1]
      BY <1>3, <1>5, <1>6, SubSeqProperties
    <3>2. l + i - 1 = k + i
      BY <1>1, <1>2
    <3> QED
      BY <3>1, <3>2
  <2> QED
    BY <1>1, <1>2, <1>7, <2>1
<1>10. \A i \in l .. Len(a), j \in DOMAIN a : i # j => Res(a[i]) # Res(a[j])
  <2>1. Outputs("head_nms", Len(a)) = l .. Len(a)
    BY <1>1, <1>2 DEF Outputs
  <2> QED
    BY <2>1 DEF WritesApart
<1>11. Distinct(c)
  <2>1. ASSUME NEW i \in 1 .. 5, NEW j \in 1 .. 5, i # j PROVE Res(c[i]) # Res(c[j])
    <3>1. k + i # k + j
      BY <1>1, <2>1
    <3> QED
      BY <1>9, <1>10, <3>1
  <2> QED
    BY ONLY <1>7, <2>1 DEF Distinct
<1>12. Apart(Range(heads), Range(c))
  <2>1. ASSUME NEW h \in Range(heads), NEW g \in Range(c) PROVE Res(h) # Res(g)
    <3>1. PICK i \in 1 .. k : h = heads[i]
      BY <1>7 DEF Range
    <3>2. PICK j \in 1 .. 5 : g = c[j]
      BY <1>7 DEF Range
    <3>3. i # k + j
      BY <1>1
    <3>4. Res(a[k + j]) # Res(a[i])
      BY <1>8, <1>9, <1>10, <3>3
    <3> QED
      BY <1>8, <1>9, <3>1, <3>2, <3>4
  <2> QED
    BY <2>1 DEF Apart
<1>13. ASSUME ~NamesOneTwice(a) PROVE Once(heads)
  <2>1. ASSUME NEW i \in 1 .. k, NEW j \in 1 .. k, Res(heads[i]) = Res(heads[j]) PROVE i = j
    BY <1>8, <1>13, <2>1 DEF NamesOneTwice
  <2> QED
    BY <1>4, <2>1 DEF Once
<1> QED
  BY <1>1, <1>4, <1>6, <1>11, <1>12, <1>13 DEF HeadSplit

\* What a dispatch that writes apart records is a clean list: it leaves the resources at
\* rest, and a transition starts from a wrong state only when a call outside the concat
\* family names one resource twice.
LEMMA RecordedClean ==
  ASSUME BufOk, NEW r, NEW t, Posed(r, t, {}, {}, {}, {}), r.st = Resting, NEW kind, NEW by \in Nat, NEW n \in Nat,
         NEW a \in Seq(Known), Len(a) \in Arity(kind), WritesApart(kind, a),
         "misstated" \in t \/ kind \in PerResourceKinds \/ ~NamesOneTwice(a),
         NEW q, q = Recorded(r, kind, by, n, a)
  PROVE  q.cmds \in CleanLists(t)
<1>1. CASE kind \in {"relu", "unary", "table"}
  <2>1. Len(a) = 2
    BY <1>1 DEF Arity
  <2>2. PICK x, y, ins : x = a[1] /\ y = a[2] /\ ins = <<x>>
    OBVIOUS
  <2>3. x \in Known /\ y \in Known /\ DOMAIN a = 1 .. 2
    BY <2>1, <2>2, Operands
  <2>4. Res(x) # Res(y)
    BY <1>1, <2>1, <2>2, <2>3, LastApart
  <2>5. CASE kind = "relu"
    <3>1. q = ReluInto(r, by, a)
      BY <2>5 DEF Recorded
    <3>2. Posed(q, t, {}, {}, {}, {})
      BY ONLY BufOk, Posed(r, t, {}, {}, {}, {}), r.st = Resting, by \in Nat, <2>2, <2>3, <2>4, <3>1, ReluPosed
    <3> QED
      BY <3>2, PosedList
  <2>6. CASE kind # "relu"
    <3>1. q = Plain(r, by, ins, y)
      BY <1>1, <2>2, <2>6 DEF Recorded, UnaryInto, TableInto
    <3>2. ins \in Seq(Known) /\ Range(ins) = {x}
      BY <2>2, <2>3, SmallSeq
    <3>3. Once(ins)
      BY <2>2 DEF Once
    <3>4. Apart({y}, Range(ins))
      BY <2>4, <3>2 DEF Apart
    <3>5. Posed(q, t, {}, {}, {}, {})
      BY ONLY BufOk, Posed(r, t, {}, {}, {}, {}), r.st = Resting, by \in Nat, <2>3, <3>1, <3>2, <3>3, <3>4, PlainPosed
    <3> QED
      BY <3>5, PosedList
  <2> QED
    BY <2>5, <2>6
<1>2. CASE kind = "binary"
  <2>1. Len(a) = 3
    BY <1>2 DEF Arity
  <2>2. PICK u, x, y, ins : u = a[1] /\ x = a[2] /\ y = a[3] /\ ins = <<u, x>>
    OBVIOUS
  <2>3. u \in Known /\ x \in Known /\ y \in Known /\ DOMAIN a = 1 .. 3
    <3>1. DOMAIN a = 1 .. 3
      BY <2>1, LenProperties
    <3>2. \A i \in 1 .. 3 : a[i] \in Known
      BY <2>1, ElementOfSeq
    <3> QED
      BY <2>2, <3>1, <3>2
  <2>4. Res(u) # Res(y) /\ Res(x) # Res(y)
    BY <1>2, <2>1, <2>2, <2>3, LastApart
  <2>5. q = Plain(r, by, ins, y)
    BY <1>2, <2>2 DEF Recorded, BinaryInto
  <2>6. ins \in Seq(Known) /\ Range(ins) = {u, x}
    BY <2>2, <2>3, SmallSeq
  <2>7. ASSUME ~NamesOneTwice(a) PROVE Once(ins)
    <3>1. Res(u) # Res(x)
      BY <2>2, <2>3, <2>7 DEF NamesOneTwice
    <3> QED
      BY <2>2, <3>1 DEF Once
  <2>8. "misstated" \in t \/ Once(ins)
    BY <1>2, <2>7 DEF PerResourceKinds
  <2>9. Apart({y}, Range(ins))
    BY <2>4, <2>6 DEF Apart
  <2>10. Posed(q, t, {}, {}, {}, {})
    BY ONLY BufOk, Posed(r, t, {}, {}, {}, {}), r.st = Resting, by \in Nat, <2>3, <2>5, <2>6, <2>8, <2>9, PlainPosed
  <2> QED
    BY <2>10, PosedList
<1>3. CASE kind \in {"conv2d", "conv_silu"}
  <2>1. Len(a) = 4
    BY <1>3 DEF Arity
  <2>2. PICK u, v, x, y, ins : u = a[1] /\ v = a[2] /\ x = a[3] /\ y = a[4] /\ ins = <<u, v, x>>
    OBVIOUS
  <2>3. (\A i \in 1 .. 4 : a[i] \in Known) /\ DOMAIN a = 1 .. 4
    <3>1. DOMAIN a = 1 .. 4
      BY <2>1, LenProperties
    <3>2. \A i \in 1 .. 4 : a[i] \in Known
      BY <2>1, ElementOfSeq
    <3> QED
      BY <3>1, <3>2
  <2>4. u \in Known /\ v \in Known /\ x \in Known /\ y \in Known
    BY <2>2, <2>3
  <2>5. Res(u) # Res(y) /\ Res(v) # Res(y) /\ Res(x) # Res(y)
    BY <1>3, <2>1, <2>2, <2>3, LastApart
  <2>6. q = Plain(r, by, ins, y)
    BY <1>3, <2>2 DEF Recorded, Conv2dInto, ConvSiluInto
  <2>7. ins \in Seq(Known) /\ Range(ins) = {u, v, x}
    BY <2>2, <2>4, SmallSeq
  <2>8. ASSUME ~NamesOneTwice(a) PROVE Once(ins)
    <3>1. Res(u) # Res(v) /\ Res(u) # Res(x) /\ Res(v) # Res(x)
      BY <2>2, <2>3, <2>8 DEF NamesOneTwice
    <3> QED
      BY <2>2, <3>1 DEF Once
  <2>9. "misstated" \in t \/ Once(ins)
    BY <1>3, <2>8 DEF PerResourceKinds
  <2>10. Apart({y}, Range(ins))
    BY <2>5, <2>7 DEF Apart
  <2>11. Posed(q, t, {}, {}, {}, {})
    BY ONLY BufOk, Posed(r, t, {}, {}, {}, {}), r.st = Resting, by \in Nat, <2>4, <2>6, <2>7, <2>9, <2>10, PlainPosed
  <2> QED
    BY <2>11, PosedList
<1>4. CASE kind \in {"c2f", "sppf"}
  <2>1. Len(a) \in Nat \ {0}
    BY <1>4 DEF Arity
  <2>2. PICK ins, y : ins = Front(a) /\ y = Last(a)
    OBVIOUS
  <2>3. ins \in Seq(Known) /\ y \in Known
    BY <2>1, <2>2, FrontLast
  <2>4. "misstated" \in t \/ ~NamesOneTwice(a)
    BY <1>4 DEF PerResourceKinds
  <2>5. \A j \in DOMAIN a : Len(a) # j => Res(a[Len(a)]) # Res(a[j])
    BY <1>4, LastApart
  <2>6. Apart({y}, Range(ins)) /\ ("misstated" \in t \/ Once(ins))
    BY <2>1, <2>2, <2>4, <2>5, FrontApart
  <2>7. q = Stepwise(r, by, ins, y)
    BY <1>4, <2>2 DEF Recorded, C2fInto, SppfInto
  <2>8. Posed(q, t, {}, {}, {}, {})
    BY ONLY BufOk, Posed(r, t, {}, {}, {}, {}), r.st = Resting, by \in Nat, <2>3, <2>6, <2>7, StepwisePosed
  <2> QED
    BY <2>8, PosedList
<1>5. CASE kind \in PerResourceKinds
  <2>1. Len(a) \in Nat \ {0}
    BY <1>5 DEF Arity, PerResourceKinds
  <2>2. PICK ins, y, all : ins = Front(a) /\ y = Last(a) /\ all = {"misstated"}
    OBVIOUS
  <2>3. ins \in Seq(Known) /\ y \in Known
    BY <2>1, <2>2, FrontLast
  <2>4. \A j \in DOMAIN a : Len(a) # j => Res(a[Len(a)]) # Res(a[j])
    BY <1>5, LastApart DEF PerResourceKinds
  <2>5. Apart({y}, Range(ins))
    <3>1. "misstated" \in all
      BY <2>2
    <3> QED
      BY <2>1, <2>2, <2>4, <3>1, FrontApart
  <2>6. q = PerResource(r, by, ins, y)
    BY <1>5, <2>2 DEF Recorded, PerResourceKinds, ConcatInto, ConcatConv1x1Into, ConcatConvInt8Into, ConcatResidualInto
  <2>7. PICK e : Posed(e, t, {}, {}, {}, {}) /\ q.cmds = e.cmds
    BY ONLY BufOk, Posed(r, t, {}, {}, {}, {}), r.st = Resting, by \in Nat, <2>3, <2>5, <2>6, PerResourcePosed
  <2> QED
    BY <2>7, PosedList
<1>6. CASE kind \in {"decode_filter", "decode_nms"}
  <2>1. PICK k : k = Len(a)
    OBVIOUS
  <2>2. /\ kind = "decode_filter" => k = 3 /\ Outputs(kind, k) = 2 .. k
        /\ kind = "decode_nms" => k = 6 /\ Outputs(kind, k) = 2 .. k
    <3>1. 2 .. 3 = {2, 3}
      OBVIOUS
    <3>2. CASE kind = "decode_filter"
      BY <2>1, <3>1, <3>2 DEF Arity, Outputs
    <3>3. CASE kind = "decode_nms"
      BY <2>1, <3>3 DEF Arity, Outputs
    <3> QED
      BY <1>6, <3>2, <3>3
  <2>3. k \in Nat /\ DOMAIN a = 1 .. k /\ Outputs(kind, k) = 2 .. k
    BY <1>6, <2>1, <2>2, LenProperties
  <2>4. Distinct(a)
    BY <2>1, <2>3, DecodeDistinct
  <2>5. CASE kind = "decode_filter"
    <3>1. q = DecodeFilter(r, by, n, a) /\ Len(a) = 3
      BY <2>1, <2>2, <2>5 DEF Recorded
    <3>2. Posed(q, t, {}, {}, {}, {})
      BY ONLY BufOk, Posed(r, t, {}, {}, {}, {}), r.st = Resting, by \in Nat, n \in Nat, a \in Seq(Known), <2>4, <3>1,
              DecodeFilterPosed
    <3> QED
      BY <3>2, PosedList
  <2>6. CASE kind = "decode_nms"
    <3>1. q = DecodeNms(r, by, n, a) /\ Len(a) = 6
      BY <2>1, <2>2, <2>6 DEF Recorded
    <3>2. Posed(q, t, {}, {}, {}, {})
      BY ONLY BufOk, Posed(r, t, {}, {}, {}, {}), r.st = Resting, by \in Nat, n \in Nat, a \in Seq(Known), <2>4, <3>1,
              DecodeNmsPosed
    <3> QED
      BY <3>2, PosedList
  <2> QED
    BY <1>6, <2>5, <2>6
<1>7. CASE kind = "head_nms"
  <2>1. Len(a) \in Nat \ (0 .. 5) /\ q = HeadDecodeNms(r, by, n, a) /\ WritesApart("head_nms", a)
    BY <1>7 DEF Arity, Recorded
  <2>2. "misstated" \in t \/ ~NamesOneTwice(a)
    BY <1>7 DEF PerResourceKinds
  <2>3. PICK k : k = Len(a) - 5
    OBVIOUS
  <2>4. PICK heads, c : heads = SubSeq(a, 1, k) /\ c = SubSeq(a, k + 1, k + 5)
    OBVIOUS
  <2>5. HeadSplit(Known, t, k, heads, c)
    BY ONLY a \in Seq(Known), <2>1, <2>2, <2>3, <2>4, HeadParts
  <2>6. Posed(q, t, {}, {}, {}, {})
    BY ONLY BufOk, Posed(r, t, {}, {}, {}, {}), r.st = Resting, by \in Nat, n \in Nat, <2>1, <2>3, <2>4, <2>5, HeadPosed
       DEF HeadSplit
  <2> QED
    BY <2>6, PosedList
<1> QED
  BY <1>1, <1>2, <1>3, <1>4, <1>5, <1>6, <1>7 DEF Arity, PerResourceKinds

\* The empty list is clean,
LEMMA CleanNone ==
  ASSUME NEW t
  PROVE  <<>> \in CleanLists(t)
<1>1. <<>> \in Seq(BatchCommands(Nat))
  OBVIOUS
<1>2. Clean(<<>>, t)
  BY RanNone DEF Clean
<1> QED
  BY <1>1, <1>2 DEF CleanLists

\* one clean list behind another is clean,
LEMMA CleanJoined ==
  ASSUME NEW t, NEW s \in CleanLists(t), NEW u \in CleanLists(t)
  PROVE  s \o u \in CleanLists(t)
<1>1. s \in Seq(BatchCommands(Nat)) /\ u \in Seq(BatchCommands(Nat)) /\ Clean(s, t) /\ Clean(u, t)
  BY DEF CleanLists
<1>2. s \o u \in Seq(BatchCommands(Nat))
  BY <1>1, ConcatProperties
<1>3. ASSUME NEW m, NEW by, m \in Machine(Resources, Cells), by \in Nat, AtRest(Resources, m)
      PROVE  /\ AtRest(Resources, Ran(m, s \o u, by))
             /\ Ran(m, s \o u, by).faults \subseteq m.faults \cup t
  <2>1. PICK p : p = Ran(m, s, by)
    OBVIOUS
  <2>2. p \in Machine(Resources, Cells)
    BY <1>1, <1>3, <2>1, AnyRun
  <2>3. AtRest(Resources, p) /\ p.faults \subseteq m.faults \cup t
    BY <1>1, <1>3, <2>1 DEF Clean
  <2>4. AtRest(Resources, Ran(p, u, by)) /\ Ran(p, u, by).faults \subseteq p.faults \cup t
    BY <1>1, <1>3, <2>2, <2>3 DEF Clean
  <2>5. Ran(m, s \o u, by) = Ran(p, u, by)
    BY <1>1, <2>1, RanConcat
  <2> QED
    BY <2>3, <2>4, <2>5
<1>4. Clean(s \o u, t)
  BY <1>3 DEF Clean
<1> QED
  BY <1>2, <1>4 DEF CleanLists

\* so is any number of them,
LEMMA CleanFlat ==
  ASSUME NEW t, NEW n \in Nat, NEW v \in [1 .. n -> CleanLists(t)]
  PROVE  FlattenSeq(v) \in CleanLists(t)
<1> DEFINE T == BatchCommands(Nat)
           P == [k \in 0 .. n |-> CleanLists(t)]
<1>1. \A i \in 1 .. n : v[i] \in CleanLists(t) /\ v[i] \in Seq(T)
  BY DEF CleanLists
<1>2. v \in Seq(Seq(T)) /\ Len(v) = n
  <2>1. v \in [1 .. n -> Seq(T)]
    BY <1>1
  <2> HIDE DEF T
  <2> QED
    BY <2>1, Mapped
<1>3. <<>> \in P[0]
  BY CleanNone
<1>4. ASSUME NEW i \in 1 .. Len(v), NEW q \in P[i - 1], q \in Seq(T) PROVE q \o v[i] \in P[i]
  <2>1. i \in 0 .. n /\ i - 1 \in 0 .. n /\ i \in 1 .. n
    BY <1>2, <1>4
  <2>2. q \in CleanLists(t) /\ v[i] \in CleanLists(t)
    BY <1>1, <2>1
  <2>3. q \o v[i] \in CleanLists(t)
    BY <2>2, CleanJoined
  <2> QED
    BY <2>1, <2>3
<1>5. FlattenSeq(v) \in Seq(T) /\ FlattenSeq(v) \in P[Len(v)]
  <2> HIDE DEF P, T
  <2> QED
    BY <1>2, <1>3, <1>4, FlattenStages
<1> QED
  BY <1>2, <1>5

\* and a clean list is clean when more is allowed.
LEMMA CleanMore ==
  ASSUME NEW t, NEW u, t \subseteq u, NEW s \in CleanLists(t)
  PROVE  s \in CleanLists(u)
BY DEF CleanLists, Clean

\* A copy c of the cells of a resource x, which stands in s meanwhile.
Copies(x, s, c) ==
  \E by, heap \in Nat, cells \in SUBSET Cells :
    /\ ResourcesOf(cells) \subseteq {x}
    /\ \/ s = "COPY_DEST" /\ c = Fill(by, heap, cells)
       \/ s = "COPY_SOURCE" /\ c = ReadBack(heap, cells)

\* To the state of the copy, the copy, back: a clean list.
LEMMA CopyClean ==
  ASSUME NEW t, NEW x \in Resources, NEW s, NEW c, Copies(x, s, c),
         NEW q, q = <<Barrier(x, "COMMON", s), c, Barrier(x, s, "COMMON")>>
  PROVE  q \in CleanLists(t)
<1>1. PICK by \in Nat, heap \in Nat, cells \in SUBSET Cells :
        /\ ResourcesOf(cells) \subseteq {x}
        /\ \/ s = "COPY_DEST" /\ c = Fill(by, heap, cells)
           \/ s = "COPY_SOURCE" /\ c = ReadBack(heap, cells)
  BY DEF Copies
<1>2. PICK b, d, e, l : b = Barrier(x, "COMMON", s) /\ d = Barrier(x, s, "COMMON") /\ e = <<b>> /\ l = <<d>>
  OBVIOUS
<1>3. s \in States /\ b \in TransitionsOn(Resources) /\ d \in TransitionsOn(Resources)
  BY <1>1, <1>2 DEF TransitionsOn, States
<1>4. /\ b.op = "transition" /\ b.res = x /\ b.from = "COMMON" /\ b.to = s
      /\ d.op = "transition" /\ d.res = x /\ d.from = s /\ d.to = "COMMON"
  BY <1>2 DEF Barrier
<1>5. e \in Seq(TransitionsOn(Resources)) /\ l \in Seq(TransitionsOn(Resources)) /\ Len(e) = 1 /\ Len(l) = 1 /\ e[1] = b /\ l[1] = d
  BY <1>2, <1>3
<1>6. Barred(e) = {x} /\ Barred(l) = {x}
  BY <1>4, <1>5 DEF Barred
<1>7. Closes(e, l) /\ Square(e, l)
  BY <1>4, <1>5, <1>6 DEF Closes, Square
<1>8. LeadsTo(e, cells, s)
  BY <1>1, <1>4, <1>5, <1>6 DEF LeadsTo
<1>9. q = e \o <<c>> \o l
  BY <1>2, Three
<1>10. q \in Seq(BatchCommands(Nat))
  <2>1. b \in BatchCommands(Nat) /\ d \in BatchCommands(Nat)
    BY <1>3, <1>4, HandleSpace DEF BatchCommands, Commands, Touched
  <2>2. c \in BatchCommands(Nat)
    <3>1. ResourcesOf(cells) \subseteq Nat
      BY <1>1, HandleSpace
    <3>2. CASE c = Fill(by, heap, cells)
      <4>1. c.op = "fill" /\ c.heap = heap /\ c.out = cells
        BY <3>2 DEF Fill
      <4>2. Touched(c) \subseteq Nat
        BY <3>1, <4>1 DEF Touched
      <4> QED
        BY <3>2, <4>2 DEF BatchCommands, Commands, FillsOf
    <3>3. CASE c = ReadBack(heap, cells)
      <4>1. c.op = "read" /\ c.heap = heap /\ c.in = cells
        BY <3>3 DEF ReadBack
      <4>2. Touched(c) \subseteq Nat
        BY <3>1, <4>1 DEF Touched
      <4> QED
        BY <3>3, <4>2 DEF BatchCommands, Commands, ReadsOf
    <3> QED
      BY <1>1, <3>2, <3>3
  <2>3. PICK T : T = BatchCommands(Nat)
    OBVIOUS
  <2>4. b \in T /\ c \in T /\ d \in T
    BY <2>1, <2>2, <2>3
  <2>5. <<b, c, d>> \in Seq(T)
    BY ONLY <2>4, SmallSeq
  <2> QED
    BY <1>2, <2>3, <2>5
<1>11. ASSUME NEW m, NEW k, m \in Machine(Resources, Cells), k \in Nat, AtRest(Resources, m)
       PROVE  AtRest(Resources, Ran(m, q, k)) /\ Ran(m, q, k).faults \subseteq m.faults \cup t
  <2>1. PICK n : n = Ran(m, q, k)
    OBVIOUS
  <2>2. CASE s = "COPY_DEST" /\ c = Fill(by, heap, cells)
    <3>1. PICK fs : fs = <<c>>
      OBVIOUS
    <3>2. c \in FillsOf(Cells) /\ c.out = cells
      <4>1. c \in FillsOf(Cells)
        BY <2>2 DEF FillsOf
      <4> QED
        BY <2>2, <4>1 DEF Fill
    <3>3. fs \in Seq(FillsOf(Cells)) /\ Len(fs) = 1 /\ fs[1] = c
      BY <3>1, <3>2
    <3>4. \A i \in 1 .. Len(fs) : LeadsTo(e, fs[i].out, "COPY_DEST")
      BY <1>8, <2>2, <3>2, <3>3
    <3>5. n = Ran(m, e \o fs \o l, k)
      BY <1>9, <2>1, <3>1
    <3>6. AtRest(Resources, n) /\ n.faults = m.faults
      BY ONLY <1>5, <1>7, <1>11, <3>3, <3>4, <3>5, BracketFills
    <3> QED
      BY <2>1, <3>6
  <2>3. CASE s = "COPY_SOURCE" /\ c = ReadBack(heap, cells)
    <3>1. n = Ran(m, e \o <<c>> \o l, k) /\ LeadsTo(e, cells, "COPY_SOURCE") /\ c = ReadBack(heap, cells)
      BY <1>8, <1>9, <2>1, <2>3
    <3>2. AtRest(Resources, n) /\ n.faults = m.faults
      BY ONLY <1>5, <1>7, <1>11, <3>1, heap \in Nat, cells \in SUBSET Cells, BracketRead
    <3> QED
      BY <2>1, <3>2
  <2> QED
    BY <1>1, <2>2, <2>3
<1> QED
  BY <1>10, <1>11 DEF CleanLists, Clean

\* A recorder after the handle h has turned to s: one transition.
TurnedOnce(r, q, h, s) ==
  /\ q.cmds = r.cmds \o <<Barrier(Res(h), r.st[h], s)>> /\ q.heaps = r.heaps
  /\ q.st = [g \in Resources |-> IF g = h THEN s ELSE r.st[g]] /\ q \in Recorder(Nat)

\* A handle that turns to another state than it has.
LEMMA OneTurn ==
  ASSUME BufOk, NEW r \in Recorder(Nat), NEW h \in Known, NEW s \in States, r.st[h] # s, NEW q, q = Enter(r, h, s)
  PROVE  TurnedOnce(r, q, h, s)
<1>1. PICK hs, to, f : hs = <<h>> /\ to = [g \in DOMAIN r.st |-> s] /\ f = r.st[h]
  OBVIOUS
<1>2. to \in [Resources -> States] /\ (\A g \in Resources : to[g] = s) /\ h \in Resources /\ Res(h) \in Nat
  BY <1>1, CellSpace, HandleSpace DEF Recorder
<1>3. q = Turn(r, hs, to)
  BY <1>1 DEF Enter, EnterAll
<1>4. hs \in Seq(Known) /\ Len(hs) = 1 /\ hs[1] = h /\ Range(hs) = {h}
  BY <1>1, SmallSeq
<1>5. \A i \in 1 .. Len(hs) : Res(hs[i]) \in Nat
  BY <1>2, <1>4
<1>6. q \in Recorder(Nat) /\ TurnDone(r, hs, to, q)
  BY ONLY BufOk, r \in Recorder(Nat), <1>2, <1>3, <1>4, <1>5, TurnStep
<1>7. PICK bs, g : /\ bs \in Seq(TransitionsOn(Resources)) /\ TurnedBy(hs, r.st, to, bs, g)
                   /\ q.cmds = r.cmds \o bs
  BY <1>6 DEF TurnDone
<1>8. q.heaps = r.heaps /\ q.st = [k \in Resources |-> IF k = h THEN s ELSE r.st[k]]
  <2>1. q.st = [k \in Resources |-> IF k \in Range(hs) THEN to[k] ELSE r.st[k]] /\ q.heaps = r.heaps
    BY <1>6 DEF TurnDone
  <2> QED
    BY <1>2, <1>4, <2>1
<1>9. PICK n : n = Len(bs) /\ n \in Nat
  BY <1>7, LenProperties
<1>10. /\ \A k \in 1 .. n : g[k] \in 1 .. 1 /\ (\A j \in 1 .. k - 1 : g[j] < g[k])
       /\ \E k \in 1 .. n : g[k] = 1
  <2>1. \A k \in 1 .. n : g[k] \in 1 .. 1 /\ (\A j \in 1 .. k - 1 : g[j] < g[k])
    BY <1>4, <1>7, <1>9 DEF TurnedBy
  <2>2. r.st[hs[1]] # to[hs[1]]
    BY <1>2, <1>4
  <2>3. \E k \in 1 .. n : g[k] = 1
    BY <1>4, <1>7, <1>9, <2>2 DEF TurnedBy
  <2> QED
    BY <2>1, <2>3
<1>11. n = 1
  <2>1. n >= 1
    BY <1>9, <1>10
  <2>2. ASSUME n >= 2 PROVE FALSE
    <3>1. 1 \in 1 .. n /\ 2 \in 1 .. n /\ 1 \in 1 .. 2 - 1
      BY <1>9, <2>2
    <3>2. g[1] \in 1 .. 1 /\ g[2] \in 1 .. 1 /\ g[1] < g[2]
      BY <1>10, <3>1
    <3> QED
      BY ONLY <3>2
  <2>3. n \in Nat
    BY <1>9
  <2> QED
    BY ONLY <2>1, <2>2, <2>3
<1>12. bs[1] = Barrier(Res(h), f, s) /\ bs = <<bs[1]>>
  <2>1. bs[1].res = Res(h) /\ bs[1].from = f /\ bs[1].to = s
    <3>1. g[1] = 1
      BY <1>10, <1>11
    <3>2. bs[1].res = Res(hs[g[1]]) /\ bs[1].from = r.st[hs[g[1]]] /\ bs[1].to = to[hs[g[1]]]
      BY <1>7, <1>9, <1>11 DEF TurnedBy
    <3> QED
      BY <1>1, <1>2, <1>4, <3>1, <3>2
  <2>2. bs[1] \in TransitionsOn(Resources)
    <3>1. PICK T : T = TransitionsOn(Resources)
      OBVIOUS
    <3>2. bs \in Seq(T) /\ 1 \in 1 .. Len(bs)
      BY <1>7, <1>9, <1>11, <3>1
    <3>3. bs[1] \in T
      BY ONLY <3>2, ElementOfSeq
    <3> QED
      BY <3>1, <3>3
  <2>3. bs[1] = Barrier(Res(h), f, s)
    BY <2>1, <2>2 DEF TransitionsOn, Barrier
  <2> QED
    <3>1. PICK T : T = TransitionsOn(Resources)
      OBVIOUS
    <3>2. bs \in Seq(T) /\ Len(bs) = 1
      BY <1>7, <1>9, <1>11, <3>1
    <3>3. bs = <<bs[1]>>
      BY ONLY <3>2
    <3> QED
      BY <2>3, <3>3
<1> QED
  BY <1>1, <1>6, <1>7, <1>8, <1>12 DEF TurnedOnce

------------------------------------------------------------------------------
(* Faults of the executed lists                                               *)

\* Callers name no resource twice among what a dispatch writes and its other operands,
\* nor give a prepared chain an output in the resource of its weights or biases.
OutputsApart ==
  /\ \A kind \in DOMAIN Args : \A a \in Args[kind] : Range(a) \subseteq py => WritesApart(kind, a)
  /\ \A a \in Args["conv_silu"] : {a[2], a[3], a[4]} \subseteq py => Res(a[4]) \notin {Res(a[2]), Res(a[3])}

\* What a list may do wrong: a transition from a wrong state once some call has named
\* one resource twice.
Told == IF aliased THEN {"misstated"} ELSE {}

\* Nothing else has gone wrong but that a resource was gone.
FaultsOk == faults \subseteq {"freed"} \cup Told

\* The prepared dispatch is clean.
DispClean == disp.kind # "none" => \A k \in 0 .. Ring - 1 : disp.lists[k] \in CleanLists(Told)

\* So is everything recorded for later.
CleanInv == FaultsOk /\ list.cmds \in CleanLists(Told) /\ graph.cmds \in CleanLists(Told) /\ DispClean

\* A call that records clean lists or none keeps it.
LEMMA CleanFrom ==
  ASSUME CleanInv, aliased => aliased', NEW u, u = Told', faults' \subseteq faults \cup {"freed"} \cup u,
         list'.cmds = list.cmds \/ list'.cmds \in CleanLists(u),
         graph' = graph \/ graph'.cmds \in CleanLists(u),
         disp' = disp \/ \A k \in 0 .. Ring - 1 : disp'.lists[k] \in CleanLists(u)
  PROVE  CleanInv'
<1>1. PICK t : t = Told
  OBVIOUS
<1>2. t \subseteq u /\ u = Told'
  BY <1>1 DEF Told
<1>3. \A s \in CleanLists(t) : s \in CleanLists(u)
  BY <1>2, CleanMore
<1>4. /\ list.cmds \in CleanLists(t) /\ graph.cmds \in CleanLists(t) /\ faults \subseteq {"freed"} \cup t
      /\ disp.kind # "none" => \A k \in 0 .. Ring - 1 : disp.lists[k] \in CleanLists(t)
  BY <1>1 DEF CleanInv, DispClean, FaultsOk
<1>5. FaultsOk'
  BY <1>2, <1>4 DEF FaultsOk
<1>6. list'.cmds \in CleanLists(u) /\ graph'.cmds \in CleanLists(u)
  BY <1>3, <1>4
<1>7. disp'.kind # "none" => \A k \in 0 .. Ring - 1 : disp'.lists[k] \in CleanLists(u)
  BY <1>3, <1>4
<1> QED
  BY <1>2, <1>5, <1>6, <1>7 DEF CleanInv, DispClean

\* A clean list adds no fault but that a resource was gone.
LEMMA SubmitClean ==
  ASSUME HandlesOk, GpuOk, DispOk, NEW extra \in SUBSET Nat, NEW by \in Nat, NEW t,
         NEW cmds \in CleanLists(t), Submit(cmds, by, extra)
  PROVE  faults' \subseteq faults \cup {"freed"} \cup t
<1>1. PICK m : m = Before(extra)
  OBVIOUS
<1>2. m \in Machine(Resources, Cells) /\ AtRest(Resources, m) /\ m.faults = faults
  BY <1>1, KeptSpace DEF Before, Machine, GpuOk, Resting, AtRest, Wrongs, States
<1>3. PICK p : p = Fault(m, "freed", ~(AllTouched(cmds) \subseteq m.live))
  OBVIOUS
<1>4. p \in Machine(Resources, Cells) /\ AtRest(Resources, p) /\ p.faults \subseteq faults \cup {"freed"}
  <2>1. p = m \/ p = [m EXCEPT !.faults = @ \cup {"freed"}]
    BY <1>3 DEF Fault
  <2>2. "freed" \in Wrongs
    BY DEF FaultKinds, Wrongs
  <2>3. CASE p = m
    BY <1>2, <2>3
  <2>4. CASE p = [m EXCEPT !.faults = @ \cup {"freed"}]
    BY <1>2, <2>2, <2>4 DEF Machine, AtRest
  <2> QED
    BY <2>1, <2>3, <2>4
<1>5. PICK n : n = Ran(p, cmds, by)
  OBVIOUS
<1>6. n.faults \subseteq p.faults \cup t /\ n \in Machine(Resources, Cells)
  <2>1. n.faults \subseteq p.faults \cup t
    BY <1>4, <1>5 DEF CleanLists, Clean
  <2>2. cmds \in Seq(BatchCommands(Nat))
    BY DEF CleanLists
  <2> QED
    BY <1>4, <1>5, <2>1, <2>2, AnyRun
<1>7. faults' = n.faults
  <2>1. Execute(m, cmds, by) = [n EXCEPT !.dirty = {}]
    BY <1>3, <1>5 DEF Execute, Ran
  <2>2. faults' = Execute(m, cmds, by).faults
    BY <1>1 DEF Submit
  <2> QED
    BY <1>6, <2>1, <2>2 DEF Machine
<1> QED
  BY <1>4, <1>6, <1>7

\* An empty recorder poses.
LEMMA StartPosed ==
  ASSUME HandlesOk, NEW r, r = Record0, NEW t
  PROVE  Posed(r, t, {}, {}, {}, {}) /\ r.st = Resting /\ r \in Recorder(Nat) /\ r.cmds = <<>>
<1>1. r = [cmds |-> <<>>, st |-> Resting, heaps |-> {}] /\ BufOk
  BY DEF Record0, HandlesOk
<1>2. Posed(r, t, {}, {}, {}, {})
  BY <1>1, PoseStart
<1> QED
  BY <1>1, <1>2 DEF Posed

\* The operands Python holds.
LEMMA OperandsKnown ==
  ASSUME HandlesOk, NEW S, NEW a \in Seq(S), Range(a) \subseteq py
  PROVE  a \in Seq(Known)
<1>1. a \in Seq(Near(PyRes))
  BY OperandsNear
<1>2. Near(PyRes) \subseteq Known
  BY DEF Near
<1>3. PICK T, K : T = Near(PyRes) /\ K = Known
  OBVIOUS
<1>4. a \in Seq(T) /\ T \subseteq K
  BY <1>1, <1>2, <1>3
<1>5. a \in Seq(K)
  BY ONLY <1>4, SeqMonotonic
<1> QED
  BY <1>3, <1>5

\* A dispatch that writes apart records a clean list.
LEMMA InvokeClean ==
  ASSUME BatchInv, CleanInv, OutputsApart, NEW kind \in DOMAIN Args, NEW a \in Args[kind], Invoke(kind, a)
  PROVE  CleanInv'
<1>1. HandlesOk /\ GpuOk /\ ListOk /\ DispOk /\ calls \in Nat /\ BufOk
  BY DEF BatchInv, HandlesOk
<1>2. PICK n, by, u : n = calls + 1 /\ by = (IF prepared THEN 0 ELSE n) /\ u = Told'
  OBVIOUS
<1>3. n \in Nat /\ by \in Nat
  BY <1>1, <1>2
<1>4. PICK r0, r : r0 = Record0 /\ r = Recorded(Record0, kind, by, n, a)
  OBVIOUS
<1>5. /\ Range(a) \subseteq py
      /\ IF batch THEN Join(r, Meant(kind, a)) ELSE Submit(r.cmds, n, r.heaps) /\ UNCHANGED <<list, heaps>>
      /\ aliased' = (aliased \/ (kind \notin PerResourceKinds /\ NamesOneTwice(a)))
      /\ UNCHANGED <<buf, py, graph, disp>>
  BY <1>2, <1>4 DEF Invoke
<1>6. "misstated" \in u \/ kind \in PerResourceKinds \/ ~NamesOneTwice(a)
  BY <1>2, <1>5 DEF Told
<1>7. r.cmds \in CleanLists(u)
  <2>1. Posed(r0, u, {}, {}, {}, {}) /\ r0.st = Resting
    BY <1>1, <1>4, StartPosed
  <2>2. a \in Seq(Known) /\ Len(a) \in Arity(kind)
    BY <1>1, <1>5, KnownArgs, OperandsKnown
  <2>3. WritesApart(kind, a)
    BY <1>5 DEF OutputsApart
  <2>4. r = Recorded(r0, kind, by, n, a)
    BY <1>4
  <2> QED
    BY ONLY <1>1, <1>3, <1>6, <2>1, <2>2, <2>3, <2>4, RecordedClean
<1>8. r.heaps \in SUBSET Nat
  <2>1. Records(r0, PyRes, {}) /\ a \in Seq(Near(PyRes)) /\ Len(a) \in Arity(kind) /\ r = Recorded(r0, kind, by, n, a)
    BY <1>1, <1>4, <1>5, Starts, KnownArgs, OperandsNear
  <2>2. Recording(r0, r, PyRes)
    BY ONLY <1>1, <1>3, <2>1, RecordedRecords
  <2> QED
    BY ONLY <1>1, <2>2, RecordedList
<1>9. list.cmds \in CleanLists(u)
  <2>1. PICK t : t = Told
    OBVIOUS
  <2>2. t \subseteq u /\ list.cmds \in CleanLists(t)
    BY <1>2, <1>5, <2>1 DEF Told, CleanInv
  <2> QED
    BY <2>2, CleanMore
<1>10. aliased => aliased'
  BY <1>5
<1>11. CASE batch
  <2>1. UNCHANGED gpuVars /\ list'.cmds \in {list.cmds, list.cmds \o r.cmds}
    <3>1. /\ UNCHANGED gpuVars
          /\ list' = IF list.open THEN [list EXCEPT !.cmds = @ \o r.cmds,
                                                    !.does = IF prepared THEN @ \o Meant(kind, a) ELSE @]
                     ELSE list
      BY <1>5, <1>11 DEF Join
    <3>2. list = [open |-> list.open, cmds |-> list.cmds, does |-> list.does]
      BY <1>1 DEF ListOk
    <3>3. CASE list.open
      <4>1. list' = [open |-> list.open, cmds |-> list.cmds \o r.cmds,
                     does |-> IF prepared THEN list.does \o Meant(kind, a) ELSE list.does]
        BY <3>1, <3>2, <3>3
      <4> QED
        BY <3>1, <4>1
    <3>4. CASE ~list.open
      BY <3>1, <3>4
    <3> QED
      BY <3>3, <3>4
  <2>2. list.cmds \o r.cmds \in CleanLists(u)
    BY <1>7, <1>9, CleanJoined
  <2>3. faults' \subseteq faults \cup {"freed"} \cup u
    BY <2>1 DEF gpuVars
  <2>4. list'.cmds \in CleanLists(u)
    BY <1>9, <2>1, <2>2
  <2> QED
    BY <1>2, <1>5, <1>10, <2>3, <2>4, CleanFrom
<1>12. CASE ~batch
  <2>1. PICK c, H : c = r.cmds /\ H = r.heaps
    OBVIOUS
  <2>2. Submit(c, n, H) /\ list' = list /\ c \in CleanLists(u) /\ H \in SUBSET Nat
    BY <1>5, <1>7, <1>8, <1>12, <2>1
  <2>3. faults' \subseteq faults \cup {"freed"} \cup u
    BY ONLY <1>1, <1>3, <2>2, SubmitClean
  <2> QED
    BY <1>2, <1>5, <1>10, <2>2, <2>3, CleanFrom
<1> QED
  BY <1>11, <1>12

\* So does a copy.
LEMMA TransferClean ==
  ASSUME BatchInv, CleanInv, NEW r, NEW does, NEW n \in Nat, r.heaps \in SUBSET Nat,
         r.cmds \in CleanLists(Told), Transfer(r, does, n)
  PROVE  CleanInv'
<1>1. HandlesOk /\ GpuOk /\ ListOk /\ DispOk
  BY DEF BatchInv
<1>2. /\ UNCHANGED <<graph, disp, aliased>>
      /\ IF batch
         THEN IF list.open
              THEN Submit(list.cmds \o r.cmds, n, heaps \cup r.heaps) /\ list' = Closed
              ELSE UNCHANGED <<gpuVars, list>>
         ELSE Submit(r.cmds, n, r.heaps) /\ UNCHANGED list
  BY DEF Transfer
<1>3. PICK u : u = Told /\ u = Told'
  BY <1>2 DEF Told
<1>4. r.cmds \in CleanLists(u) /\ list.cmds \in CleanLists(u)
  BY <1>3 DEF CleanInv
<1>5. Closed.cmds \in CleanLists(u)
  BY CleanNone DEF Closed
<1>6. CASE batch /\ list.open
  <2>1. PICK c, H : c = list.cmds \o r.cmds /\ H = heaps \cup r.heaps
    OBVIOUS
  <2>2. c \in CleanLists(u)
    BY <1>4, <2>1, CleanJoined
  <2>3. Submit(c, n, H) /\ list' = Closed /\ H \in SUBSET Nat
    BY <1>1, <1>2, <1>6, <2>1 DEF ListOk
  <2>4. faults' \subseteq faults \cup {"freed"} \cup u
    BY ONLY <1>1, n \in Nat, <2>2, <2>3, SubmitClean
  <2> QED
    BY <1>2, <1>3, <1>5, <2>3, <2>4, CleanFrom
<1>7. CASE batch /\ ~list.open
  <2>1. UNCHANGED gpuVars /\ list' = list
    BY <1>2, <1>7
  <2>2. faults' \subseteq faults \cup {"freed"} \cup u
    BY <2>1 DEF gpuVars
  <2> QED
    BY <1>2, <1>3, <2>1, <2>2, CleanFrom
<1>8. CASE ~batch
  <2>1. PICK c, H : c = r.cmds /\ H = r.heaps
    OBVIOUS
  <2>2. Submit(c, n, H) /\ list' = list /\ c \in CleanLists(u) /\ H \in SUBSET Nat
    BY <1>2, <1>4, <1>8, <2>1
  <2>3. faults' \subseteq faults \cup {"freed"} \cup u
    BY ONLY <1>1, n \in Nat, <2>2, SubmitClean
  <2> QED
    BY <1>2, <1>3, <2>2, <2>3, CleanFrom
<1> QED
  BY <1>6, <1>7, <1>8

\* Three commands one after the other.
LEMMA ThreeMore ==
  ASSUME NEW b, NEW c, NEW d
  PROVE  Append(<<b>>, c) \o <<d>> = <<b, c, d>>
<1>1. PICK T, s, u, v : T = {b, c, d} /\ s = <<b>> /\ u = <<c>> /\ v = Append(s, c)
  OBVIOUS
<1>2. s \in Seq(T) /\ Len(s) = 1 /\ s[1] = b /\ c \in T
  BY <1>1
<1>3. v \in Seq(T) /\ Len(v) = 2 /\ v[1] = b /\ v[2] = c
  BY ONLY <1>1, <1>2, AppendProperties
<1>4. u \in Seq(T) /\ Len(u) = 1 /\ u[1] = c
  BY <1>1
<1>5. s \o u \in Seq(T) /\ Len(s \o u) = 2 /\ (s \o u)[1] = b /\ (s \o u)[2] = c
  BY ONLY <1>2, <1>4, ConcatProperties
<1>6. v = s \o u
  <2>1. \A i \in 1 .. Len(v) : v[i] = (s \o u)[i]
    BY <1>3, <1>5
  <2> QED
    BY ONLY <1>3, <1>5, <2>1, SeqEqual
<1> QED
  BY <1>1, <1>6, Three

\* The commands of a copy of a handle: to the state s of the copy, the copy c, back.
LEMMA CopiedClean ==
  ASSUME HandlesOk, NEW h \in py, NEW s, NEW c, Copies(Res(h), s, c), NEW t,
         NEW r0, r0 = Record0, NEW q, q = Enter(Add(Enter(r0, h, s), c), h, r0.st[h])
  PROVE  q.cmds \in CleanLists(t) /\ q.heaps = {} /\ q = [cmds |-> q.cmds, st |-> q.st, heaps |-> q.heaps]
<1>1. r0 \in Recorder(Nat) /\ r0.cmds = <<>> /\ r0.st = Resting /\ BufOk /\ r0.heaps = {}
  BY StartPosed DEF HandlesOk, Record0
<1>2. h \in Known /\ h \in Resources /\ Res(h) \in Resources
  BY CellSpace DEF HandlesOk, Known
<1>3. s \in States /\ s # "COMMON" /\ "COMMON" \in States
  BY DEF Copies, States
<1>4. PICK a : a = Enter(r0, h, s)
  OBVIOUS
<1>5. r0.st[h] = "COMMON"
  BY <1>1, <1>2 DEF Resting
<1>6. PICK x, b, d : x = Res(h) /\ b = Barrier(x, "COMMON", s) /\ d = Barrier(x, s, "COMMON")
  OBVIOUS
<1>7. /\ a.cmds = r0.cmds \o <<b>> /\ a.heaps = r0.heaps
      /\ a.st = [g \in Resources |-> IF g = h THEN s ELSE r0.st[g]] /\ a \in Recorder(Nat)
  <2>1. r0.st[h] # s
    BY <1>3, <1>5
  <2>2. TurnedOnce(r0, a, h, s)
    BY ONLY <1>1, <1>2, <1>3, <1>4, <2>1, OneTurn
  <2> QED
    BY <1>5, <1>6, <2>2 DEF TurnedOnce
<1>8. PICK e : e = Add(a, c)
  OBVIOUS
<1>9. e = [cmds |-> Append(a.cmds, c), st |-> a.st, heaps |-> a.heaps]
  BY <1>7, <1>8 DEF Add, Recorder
<1>10. Copies(x, s, c) /\ c \in BatchCommands(Nat)
  <2>1. PICK by \in Nat, heap \in Nat, cells \in SUBSET Cells :
          /\ ResourcesOf(cells) \subseteq {x}
          /\ \/ s = "COPY_DEST" /\ c = Fill(by, heap, cells)
             \/ s = "COPY_SOURCE" /\ c = ReadBack(heap, cells)
    BY <1>6 DEF Copies
  <2>2. ResourcesOf(cells) \subseteq Nat
    BY <1>2, <1>6, <2>1, HandleSpace
  <2>3. PICK N : N = Nat
    OBVIOUS
  <2>4. heap \in N /\ ResourcesOf(cells) \subseteq N
    BY <2>2, <2>3
  <2>5. Fill(by, heap, cells) \in Others(N)
    BY ONLY by \in Nat, heap \in Nat, cells \in SUBSET Cells, <2>4, FillOther
  <2>6. ReadBack(heap, cells) \in Others(N)
    BY ONLY heap \in Nat, cells \in SUBSET Cells, <2>4, ReadOther
  <2> QED
    BY <1>6, <2>1, <2>3, <2>5, <2>6 DEF Others
<1>11. e \in Recorder(Nat)
  <2>1. a.cmds \in Seq(BatchCommands(Nat))
    BY <1>7 DEF Recorder
  <2>2. Append(a.cmds, c) \in Seq(BatchCommands(Nat))
    BY <1>10, <2>1, AppendProperties
  <2> QED
    BY <1>7, <1>9, <2>2 DEF Recorder
<1>12. e.st[h] = s /\ e.cmds = Append(a.cmds, c) /\ e.heaps = {}
  BY <1>1, <1>2, <1>7, <1>9
<1>13. /\ q.cmds = e.cmds \o <<d>> /\ q.heaps = {} /\ q \in Recorder(Nat)
  <2>1. q = Enter(e, h, "COMMON")
    BY <1>4, <1>5, <1>8
  <2>2. e.st[h] # "COMMON"
    BY <1>3, <1>12
  <2>3. PICK z : z = "COMMON"
    OBVIOUS
  <2>4. q = Enter(e, h, z) /\ e.st[h] # z /\ z \in States
    BY <1>3, <2>1, <2>2, <2>3
  <2>5. TurnedOnce(e, q, h, z)
    BY ONLY <1>1, <1>2, <1>11, <2>4, OneTurn
  <2> QED
    BY <1>6, <1>12, <2>3, <2>5 DEF TurnedOnce
<1>14. q.cmds = <<b, c, d>>
  <2>1. a.cmds = <<b>>
    BY <1>1, <1>7
  <2>2. q.cmds = Append(<<b>>, c) \o <<d>>
    BY <1>12, <1>13, <2>1
  <2> QED
    BY ONLY <2>2, ThreeMore
<1>15. q.cmds \in CleanLists(t)
  BY <1>2, <1>6, <1>10, <1>14, CopyClean
<1> QED
  BY <1>13, <1>15 DEF Recorder

\* A copy into a handle.
LEMMA UploadIntoClean ==
  ASSUME BatchInv, CleanInv, NEW h \in Handles, UploadInto(h)
  PROVE  CleanInv'
<1>1. HandlesOk /\ calls \in Nat /\ BufOk
  BY DEF BatchInv, HandlesOk
<1>2. PICK n, cells, does : n = calls + 1 /\ cells = Elements(h) /\ does = <<Effect({}, h)>>
  OBVIOUS
<1>3. PICK r, r0, t : r = CopyIn(Record0, h, cells, n) /\ r0 = Record0 /\ t = Told
  OBVIOUS
<1>4. h \in py /\ n \in Nat /\ Transfer(r, does, n)
  BY <1>1, <1>2, <1>3 DEF UploadInto
<1>5. PICK s, c, q : s = "COPY_DEST" /\ c = Fill(n, LocalHeap, cells) /\ q = Enter(Add(Enter(r0, h, s), c), h, r0.st[h])
  OBVIOUS
<1>6. r = [q EXCEPT !.heaps = @ \cup {LocalHeap}]
  BY <1>3, <1>5 DEF CopyIn
<1>7. Copies(Res(h), s, c)
  <2>1. h \in Known
    BY <1>1, <1>4 DEF HandlesOk, Known
  <2>2. cells \in SUBSET Cells /\ ResourcesOf(cells) \subseteq {Res(h)} /\ LocalHeap \in Nat
    BY <1>1, <1>2, <2>1, CellSpace DEF LocalHeap
  <2> QED
    BY <1>4, <1>5, <2>2 DEF Copies
<1>8. q.cmds \in CleanLists(t) /\ q.heaps = {} /\ q = [cmds |-> q.cmds, st |-> q.st, heaps |-> q.heaps]
  BY ONLY <1>1, <1>3, <1>4, <1>5, <1>7, CopiedClean
<1>9. r.cmds \in CleanLists(t) /\ r.heaps \in SUBSET Nat
  BY <1>6, <1>8 DEF LocalHeap
<1> QED
  BY <1>3, <1>4, <1>9, TransferClean

\* A copy out of a handle.
LEMMA DownloadClean ==
  ASSUME BatchInv, CleanInv, NEW h \in Handles, Download(h)
  PROVE  CleanInv'
<1>1. HandlesOk /\ calls \in Nat /\ BufOk
  BY DEF BatchInv, HandlesOk
<1>2. PICK cells, does : cells = Elements(h) /\ does = <<>>
  OBVIOUS
<1>3. PICK r, r0, t : r = CopyOut(Record0, h, cells) /\ r0 = Record0 /\ t = Told
  OBVIOUS
<1>4. h \in py /\ Transfer(r, does, calls)
  BY <1>1, <1>2, <1>3 DEF Download
<1>5. PICK s, c, q : s = "COPY_SOURCE" /\ c = ReadBack(LocalHeap, cells) /\ q = Enter(Add(Enter(r0, h, s), c), h, r0.st[h])
  OBVIOUS
<1>6. r = [q EXCEPT !.heaps = @ \cup {LocalHeap}]
  BY <1>3, <1>5 DEF CopyOut
<1>7. Copies(Res(h), s, c)
  <2>1. h \in Known
    BY <1>1, <1>4 DEF HandlesOk, Known
  <2>2. cells \in SUBSET Cells /\ ResourcesOf(cells) \subseteq {Res(h)} /\ LocalHeap \in Nat
    BY <1>1, <1>2, <2>1, CellSpace DEF LocalHeap
  <2> QED
    BY <1>1, <1>5, <2>2 DEF Copies
<1>8. q.cmds \in CleanLists(t) /\ q.heaps = {} /\ q = [cmds |-> q.cmds, st |-> q.st, heaps |-> q.heaps]
  BY ONLY <1>1, <1>3, <1>4, <1>5, <1>7, CopiedClean
<1>9. r.cmds \in CleanLists(t) /\ r.heaps \in SUBSET Nat
  BY <1>6, <1>8 DEF LocalHeap
<1> QED
  BY <1>1, <1>3, <1>4, <1>9, TransferClean

\* A new buffer and the copy into it.
LEMMA UploadNewClean ==
  ASSUME BatchInv, CleanInv, NEW h \in Handles, UploadNew(h)
  PROVE  CleanInv'
<1>1. calls \in Nat
  BY DEF BatchInv
<1>2. PICK n, cells, t : n = calls + 1 /\ cells = {h} \X (0 .. Width - 1) /\ t = Told
  OBVIOUS
<1>3. PICK s, c, cmds, does :
        /\ s = "COPY_DEST" /\ c = Fill(n, LocalHeap, cells) /\ does = <<[in |-> {}, out |-> cells]>>
        /\ cmds = <<Barrier(h, "COMMON", s), c, Barrier(h, s, "COMMON")>>
  OBVIOUS
<1>4. PICK r : r = [cmds |-> cmds, heaps |-> {LocalHeap, h}]
  OBVIOUS
<1>5. Transfer(r, does, n) /\ n \in Nat
  BY <1>1, <1>2, <1>3, <1>4 DEF UploadNew
<1>6. h \in Resources /\ h \in Nat /\ LocalHeap \in Nat
  BY HandleSpace DEF LocalHeap
<1>7. cells \in SUBSET Cells /\ ResourcesOf(cells) \subseteq {h}
  BY <1>2, <1>6 DEF Cells, ResourcesOf
<1>8. Copies(h, s, c)
  BY <1>3, <1>5, <1>6, <1>7 DEF Copies
<1>9. cmds \in CleanLists(t)
  BY ONLY <1>3, <1>6, <1>8, CopyClean
<1>10. r.cmds \in CleanLists(t) /\ r.heaps \in SUBSET Nat
  BY <1>4, <1>6, <1>9
<1> QED
  BY <1>2, <1>5, <1>10, TransferClean

\* Handles that come and go, scopes that open: what is recorded stays or is empty.
LEMMA QuietClean ==
  ASSUME CleanInv, UNCHANGED <<aliased, faults>>, list'.cmds = list.cmds \/ list'.cmds = <<>>,
         graph' = graph \/ graph'.cmds = list.cmds, disp' = disp
  PROVE  CleanInv'
<1>1. PICK u : u = Told /\ u = Told'
  BY DEF Told
<1>2. list.cmds \in CleanLists(u) /\ <<>> \in CleanLists(u)
  BY <1>1, CleanNone DEF CleanInv
<1> QED
  BY <1>1, <1>2, CleanFrom

\* The scope's list runs when the scope ends.
LEMMA EndBatchClean ==
  ASSUME BatchInv, CleanInv, EndBatch
  PROVE  CleanInv'
<1>1. HandlesOk /\ GpuOk /\ ListOk /\ DispOk /\ calls \in Nat
  BY DEF BatchInv
<1>2. /\ UNCHANGED <<graph, disp, aliased>> /\ list' = Closed
      /\ IF list.open THEN Submit(list.cmds, calls, heaps) ELSE UNCHANGED gpuVars
  BY DEF EndBatch
<1>3. PICK u : u = Told /\ u = Told'
  BY <1>2 DEF Told
<1>4. list.cmds \in CleanLists(u) /\ Closed.cmds \in CleanLists(u)
  BY <1>3, CleanNone DEF CleanInv, Closed
<1>5. faults' \subseteq faults \cup {"freed"} \cup u
  <2>1. CASE list.open
    <3>1. PICK c, H : c = list.cmds /\ H = heaps
      OBVIOUS
    <3>2. Submit(c, calls, H) /\ c \in CleanLists(u) /\ H \in SUBSET Nat
      BY <1>1, <1>2, <1>4, <2>1, <3>1 DEF ListOk
    <3> QED
      BY ONLY <1>1, <3>2, SubmitClean
  <2>2. CASE ~list.open
    BY <1>2, <2>2 DEF gpuVars
  <2> QED
    BY <2>1, <2>2
<1> QED
  BY <1>2, <1>3, <1>4, <1>5, CleanFrom

\* The prepared graph runs.
LEMMA ExecutePreparedClean ==
  ASSUME BatchInv, CleanInv, ExecutePrepared
  PROVE  CleanInv'
<1>1. HandlesOk /\ GpuOk /\ GraphOk /\ DispOk /\ calls \in Nat
  BY DEF BatchInv
<1>2. PICK n, c, H : n = calls + 1 /\ c = graph.cmds /\ H = graph.heaps
  OBVIOUS
<1>3. UNCHANGED <<list, graph, disp, aliased>> /\ Submit(c, n, H)
  BY <1>2 DEF ExecutePrepared, ctxVars
<1>4. PICK u : u = Told /\ u = Told'
  BY <1>3 DEF Told
<1>5. n \in Nat /\ c \in CleanLists(u) /\ H \in SUBSET Nat
  BY <1>1, <1>2, <1>4 DEF CleanInv, GraphOk
<1>6. faults' \subseteq faults \cup {"freed"} \cup u
  BY ONLY <1>1, <1>3, <1>5, SubmitClean
<1> QED
  BY <1>3, <1>4, <1>6, CleanFrom

\* The prepared dispatch runs.
LEMMA ExecuteDispatchClean ==
  ASSUME BatchInv, CleanInv, ExecuteDispatch
  PROVE  CleanInv'
<1>1. HandlesOk /\ GpuOk /\ DispOk /\ calls \in Nat
  BY DEF BatchInv
<1>2. PICK n, c, H : n = calls + 1 /\ c = disp.lists[slot] /\ H = {LocalHeap}
  OBVIOUS
<1>3. UNCHANGED <<list, graph, disp, aliased>> /\ Submit(c, n, H) /\ disp.kind # "none"
  BY <1>2 DEF ExecuteDispatch, ctxVars
<1>4. PICK u : u = Told /\ u = Told'
  BY <1>3 DEF Told
<1>5. n \in Nat /\ c \in CleanLists(u) /\ H \in SUBSET Nat
  BY <1>1, <1>2, <1>3, <1>4 DEF CleanInv, DispClean, DispOk, LocalHeap
<1>6. faults' \subseteq faults \cup {"freed"} \cup u
  BY ONLY <1>1, <1>3, <1>5, SubmitClean
<1> QED
  BY <1>3, <1>4, <1>6, CleanFrom

\* A dispatch recorded for later is clean when its list is.
LEMMA KeepClean ==
  ASSUME CleanInv, NEW kind, NEW r, NEW does, NEW a, Keep(kind, r, does, a), NEW u, u = Told', r.cmds \in CleanLists(u)
  PROVE  CleanInv'
<1>1. /\ disp' = [kind |-> kind, lists |-> [k \in 0 .. Ring - 1 |-> r.cmds], does |-> does, holds |-> HoldsOf(a)]
      /\ UNCHANGED <<ctxVars, graph, gpuVars>> /\ aliased' = (aliased \/ NamesOneTwice(a))
  BY DEF Keep
<1>2. list' = list /\ graph' = graph /\ faults' = faults
  BY <1>1 DEF ctxVars, gpuVars
<1>3. \A k \in 0 .. Ring - 1 : disp'.lists[k] \in CleanLists(u)
  BY <1>1
<1>4. aliased => aliased'
  BY <1>1
<1> QED
  BY <1>2, <1>3, <1>4, CleanFrom

\* A convolution or a relu on its own records a clean list.
LEMMA PreparedClean ==
  ASSUME HandlesOk, NEW ins \in Seq(Known), NEW y \in Known, Apart({y}, Range(ins)), NEW t,
         "misstated" \in t \/ Once(ins), NEW r, r = Plain(Record0, 0, ins, y)
  PROVE  r.cmds \in CleanLists(t)
<1>1. PICK r0, by : r0 = Record0 /\ by = 0 /\ by \in Nat
  OBVIOUS
<1>2. Posed(r0, t, {}, {}, {}, {}) /\ r0.st = Resting /\ BufOk
  BY <1>1, StartPosed DEF HandlesOk
<1>3. r = Plain(r0, by, ins, y)
  BY <1>1
<1>4. Posed(r, t, {}, {}, {}, {})
  BY <1>1, <1>2, <1>3, PlainPosed
<1> QED
  BY <1>2, <1>4, PosedList

\* Three inputs, and an output apart from them.
LEMMA TripleClean ==
  ASSUME HandlesOk, NEW x \in Known, NEW w \in Known, NEW b \in Known, NEW y \in Known, NEW t,
         Res(y) \notin {Res(x), Res(w), Res(b)},
         "misstated" \in t \/ (Res(x) # Res(w) /\ Res(x) # Res(b) /\ Res(w) # Res(b)),
         NEW r, r = Plain(Record0, 0, <<x, w, b>>, y)
  PROVE  r.cmds \in CleanLists(t)
<1>1. PICK ins : ins = <<x, w, b>>
  OBVIOUS
<1>2. ins \in Seq(Known) /\ Range(ins) = {x, w, b}
  BY <1>1, SmallSeq
<1>3. Apart({y}, Range(ins))
  BY <1>2 DEF Apart
<1>4. ASSUME Res(x) # Res(w), Res(x) # Res(b), Res(w) # Res(b) PROVE Once(ins)
  <2>1. Len(ins) = 3 /\ ins[1] = x /\ ins[2] = w /\ ins[3] = b
    BY <1>1
  <2>2. \A i \in 1 .. 3 : i = 1 \/ i = 2 \/ i = 3
    OBVIOUS
  <2> QED
    BY <1>4, <2>1, <2>2 DEF Once
<1> QED
  BY <1>1, <1>2, <1>3, <1>4, PreparedClean

\* A prepared relu.
LEMMA PrepareReluClean ==
  ASSUME BatchInv, CleanInv, OutputsApart, NEW a \in Args["unary"], PrepareRelu(a)
  PROVE  CleanInv'
<1>1. HandlesOk
  BY DEF BatchInv
<1>2. PICK r, does, kind, u : /\ r = Plain(Record0, 0, <<a[1]>>, a[2]) /\ does = <<Effect({a[1]}, a[2])>>
                              /\ kind = "relu" /\ u = Told'
  OBVIOUS
<1>3. Range(a) \subseteq py /\ Keep(kind, r, does, a)
  BY <1>2 DEF PrepareRelu
<1>4. "unary" \in DOMAIN Args
  BY ArgsAssumption
<1>5. a \in Seq(Handles) /\ Len(a) = 2
  <2>1. a \in Seq(Handles) /\ Len(a) \in Arity("unary")
    BY <1>4, KnownArgs
  <2> QED
    BY <2>1 DEF Arity
<1>6. a \in Seq(Known) /\ a[1] \in Known /\ a[2] \in Known
  <2>1. a \in Seq(Known)
    BY <1>1, <1>3, <1>5, OperandsKnown
  <2> QED
    BY <1>5, <2>1
<1>7. PICK ins, y : ins = <<a[1]>> /\ y = a[2]
  OBVIOUS
<1>8. ins \in Seq(Known) /\ Range(ins) = {a[1]} /\ y \in Known
  BY <1>6, <1>7, SmallSeq
<1>9. Once(ins)
  BY <1>7 DEF Once
<1>10. Apart({y}, Range(ins))
  <2>1. WritesApart("unary", a)
    BY <1>3, <1>4 DEF OutputsApart
  <2>2. Res(a[2]) # Res(a[1])
    BY <1>5, <2>1 DEF WritesApart, Outputs
  <2> QED
    BY <1>7, <1>8, <2>2 DEF Apart
<1>11. r.cmds \in CleanLists(u)
  BY <1>1, <1>2, <1>7, <1>8, <1>9, <1>10, PreparedClean
<1> QED
  BY ONLY CleanInv, <1>2, <1>3, <1>11, KeepClean

\* A prepared convolution.
LEMMA PrepareConvSiluClean ==
  ASSUME BatchInv, CleanInv, OutputsApart, NEW a \in Args["conv_silu"], PrepareConvSilu(a)
  PROVE  CleanInv'
<1>1. HandlesOk
  BY DEF BatchInv
<1>2. PICK r, does, kind, u : /\ r = ConvSiluInto(Record0, 0, a) /\ does = Meant("conv_silu", a)
                              /\ kind = "conv" /\ u = Told'
  OBVIOUS
<1>3. Range(a) \subseteq py /\ Keep(kind, r, does, a) /\ aliased' = (aliased \/ NamesOneTwice(a))
  BY <1>2 DEF PrepareConvSilu, Keep
<1>4. "conv_silu" \in DOMAIN Args
  BY ArgsAssumption
<1>5. a \in Seq(Handles) /\ Len(a) = 4 /\ DOMAIN a = 1 .. 4
  <2>1. a \in Seq(Handles) /\ Len(a) \in Arity("conv_silu")
    BY <1>4, KnownArgs
  <2> QED
    BY <2>1 DEF Arity
<1>6. PICK x, w, b, y : x = a[1] /\ w = a[2] /\ b = a[3] /\ y = a[4]
  OBVIOUS
<1>7. x \in Known /\ w \in Known /\ b \in Known /\ y \in Known
  <2>1. a \in Seq(Known)
    BY <1>1, <1>3, <1>5, OperandsKnown
  <2>2. \A i \in 1 .. 4 : a[i] \in Known
    BY <1>5, <2>1, ElementOfSeq
  <2> QED
    BY <1>6, <2>2
<1>8. Res(y) \notin {Res(x), Res(w), Res(b)}
  <2>1. WritesApart("conv_silu", a)
    BY <1>3, <1>4 DEF OutputsApart
  <2>2. Outputs("conv_silu", Len(a)) = {4}
    BY <1>5 DEF Outputs
  <2>3. \A j \in 1 .. 4 : 4 # j => Res(a[4]) # Res(a[j])
    BY <1>5, <2>1, <2>2 DEF WritesApart
  <2> QED
    BY <1>6, <2>3
<1>9. "misstated" \in u \/ (Res(x) # Res(w) /\ Res(x) # Res(b) /\ Res(w) # Res(b))
  <2>1. CASE NamesOneTwice(a)
    BY <1>2, <1>3, <2>1 DEF Told
  <2>2. CASE ~NamesOneTwice(a)
    <3>1. \A i, j \in 1 .. 4 : i # j => Res(a[i]) # Res(a[j])
      BY <1>5, <2>2 DEF NamesOneTwice
    <3> QED
      BY <1>6, <3>1
  <2> QED
    BY <2>1, <2>2
<1>10. r.cmds \in CleanLists(u)
  <2>1. r = Plain(Record0, 0, <<x, w, b>>, y)
    BY <1>2, <1>6 DEF ConvSiluInto
  <2> QED
    BY <1>1, <1>7, <1>8, <1>9, <2>1, TripleClean
<1> QED
  BY ONLY CleanInv, <1>2, <1>3, <1>10, KeepClean

\* What a prepared chain owns is in no resource of a caller.
LEMMA OwnedApart ==
  ASSUME HandlesOk, NEW h \in py, NEW g \in Owned
  PROVE  g \in Known /\ Res(g) = g /\ h \in Known /\ Res(h) \notin Owned
<1>1. h \in DOMAIN buf /\ h \in Handles /\ buf[h].res \in Handles
  BY DEF HandlesOk, BufOk
<1>2. \A x \in Handles : x \notin Owned
  BY HandleSpace
<1> QED
  BY <1>1, <1>2 DEF Known, Res

\* A block of a chain reads what the chain owns and writes the output or another of these.
LEMMA BlockOperands ==
  ASSUME NEW k \in Nat, NEW y, NEW i \in 1 .. k, NEW o, o = BlockOutput(i, k, y), NEW x, x = BlockInput(i, k, y)
  PROVE  x \in Owned /\ (o = y \/ (o \in Owned /\ o # x))
<1>1. Arena[0] = 21 /\ Arena[1] = 22 /\ ChainIn = 20
  BY DEF Arena, ChainIn
<1>2. ChainIn \in Owned /\ Arena[0] \in Owned /\ Arena[1] \in Owned
  BY DEF Owned
<1>3. PICK j, l : j = (i - 1) % 2 /\ l = (i - 2) % 2
  OBVIOUS
<1>4. (j = 0 /\ l = 1) \/ (j = 1 /\ l = 0)
  BY ONLY i \in 1 .. k, k \in Nat, <1>3
<1>5. CASE i = 1
  <2>1. x = ChainIn
    BY <1>5 DEF BlockInput
  <2>2. o = y \/ o = Arena[0] \/ o = Arena[j]
    BY <1>3 DEF BlockOutput
  <2> QED
    BY <1>1, <1>2, <1>4, <2>1, <2>2
<1>6. CASE i # 1
  <2>1. x = BlockOutput(i - 1, k, y)
    BY <1>6 DEF BlockInput
  <2>2. i - 1 # k /\ (i - 1) - 1 = i - 2
    OBVIOUS
  <2>3. x = IF k = 2 THEN Arena[0] ELSE Arena[l]
    BY <1>3, <2>1, <2>2 DEF BlockOutput
  <2>4. o = IF i = k THEN y ELSE IF k = 2 THEN Arena[0] ELSE Arena[j]
    BY <1>3 DEF BlockOutput
  <2>5. k = 2 => i = k
    BY <1>6
  <2>6. CASE i = k
    BY <1>2, <1>4, <2>3, <2>4, <2>6
  <2>7. CASE i # k
    <3>1. x = Arena[l] /\ o = Arena[j]
      BY <2>3, <2>4, <2>5, <2>7
    <3> QED
      BY <1>1, <1>2, <1>4, <3>1
  <2> QED
    BY <2>6, <2>7
<1> QED
  BY <1>5, <1>6

\* A prepared chain.
LEMMA PrepareChainClean ==
  ASSUME BatchInv, CleanInv, NEW k \in Nat, NEW w, NEW b, NEW y, PrepareChain(k, w, b, y),
         Res(y) \notin {Res(w), Res(b)}
  PROVE  CleanInv'
<1>1. HandlesOk
  BY DEF BatchInv
<1>2. PICK r0, a, u, kind, does : /\ r0 = Record0 /\ a = <<w, b, y>> /\ u = Told'
                                  /\ kind = "chain" /\ does = <<Effect({w, b}, y)>>
  OBVIOUS
<1>3. PICK r : r = ChainCommands(r0, k, w, b, y)
  OBVIOUS
<1>4. w \in py /\ b \in py /\ y \in py /\ Keep(kind, r, does, a) /\ aliased' = (aliased \/ NamesOneTwice(a))
  BY <1>2, <1>3 DEF PrepareChain, Keep
<1>5. "misstated" \in u \/ Res(w) # Res(b)
  <2>1. DOMAIN a = 1 .. 3 /\ a[1] = w /\ a[2] = b
    BY <1>2
  <2>2. CASE Res(w) = Res(b)
    <3>1. 1 \in DOMAIN a /\ 2 \in DOMAIN a /\ Res(a[1]) = Res(a[2])
      BY <2>1, <2>2
    <3>2. NamesOneTwice(a)
      BY <3>1 DEF NamesOneTwice
    <3> QED
      BY <1>2, <1>4, <3>2 DEF Told
  <2> QED
    BY <2>2
<1>6. /\ w \in Known /\ b \in Known /\ y \in Known
      /\ Res(w) \notin Owned /\ Res(b) \notin Owned /\ Res(y) \notin Owned
      /\ \A g \in Owned : g \in Known /\ Res(g) = g
  <2>1. PICK g : g \in Owned
    BY DEF Owned
  <2> QED
    BY <1>1, <1>4, <2>1, OwnedApart
<1> DEFINE block(i) == ConvSiluInto(r0, 0, <<BlockInput(i, k, y), w, b, BlockOutput(i, k, y)>>)
<1>7. ASSUME NEW i \in 1 .. k PROVE block(i).cmds \in CleanLists(u)
  <2>1. PICK x, o, c : x = BlockInput(i, k, y) /\ o = BlockOutput(i, k, y) /\ c = block(i)
    OBVIOUS
  <2>2. x \in Owned /\ (o = y \/ (o \in Owned /\ o # x))
    BY <2>1, BlockOperands
  <2>3. x \in Known /\ o \in Known
    BY <1>6, <2>2
  <2>4. Res(o) \notin {Res(x), Res(w), Res(b)}
    <3>1. CASE o = y
      BY <1>6, <2>2, <3>1
    <3>2. CASE o \in Owned /\ o # x
      BY <1>6, <2>2, <3>2
    <3> QED
      BY <2>2, <3>1, <3>2
  <2>5. "misstated" \in u \/ (Res(x) # Res(w) /\ Res(x) # Res(b) /\ Res(w) # Res(b))
    BY <1>5, <1>6, <2>2
  <2>6. c = Plain(Record0, 0, <<x, w, b>>, o)
    BY <1>2, <2>1 DEF ConvSiluInto
  <2>7. c.cmds \in CleanLists(u)
    BY <1>1, <1>6, <2>3, <2>4, <2>5, <2>6, TripleClean
  <2> QED
    BY <2>1, <2>7
<1> HIDE DEF block
<1>8. PICK v, f : v = [i \in 1 .. k |-> block(i).cmds] /\ f = FlattenSeq(v)
  OBVIOUS
<1>9. f \in CleanLists(u)
  <2>1. v \in [1 .. k -> CleanLists(u)]
    BY <1>7, <1>8
  <2> QED
    BY <1>8, <2>1, CleanFlat
<1>10. PICK x, s, c, up : /\ x = ChainIn /\ s = "COPY_DEST" /\ c = Fill(0, LocalHeap, Elements(ChainIn))
                          /\ up = <<Barrier(x, "COMMON", s), c, Barrier(x, s, "COMMON")>>
  OBVIOUS
<1>11. up \in CleanLists(u)
  <2>1. x \in Owned /\ x \in Known /\ Res(x) = x /\ x \in Resources /\ BufOk
    BY <1>1, <1>6, <1>10 DEF Owned, Resources, HandlesOk
  <2>2. PICK cells : cells = Elements(x)
    OBVIOUS
  <2>3. cells \in SUBSET Cells /\ ResourcesOf(cells) \subseteq {x}
    BY <2>1, <2>2, CellSpace
  <2>4. Copies(x, s, c)
    BY <1>10, <2>2, <2>3 DEF Copies, LocalHeap
  <2> QED
    BY <1>10, <2>1, <2>4, CopyClean
<1>12. r.cmds = up \o f
  <2>1. r0 = [cmds |-> r0.cmds, st |-> r0.st, heaps |-> r0.heaps]
    BY <1>2 DEF Record0
  <2>2. r = [r0 EXCEPT !.cmds = up \o f]
    BY <1>3, <1>8, <1>10 DEF ChainCommands, block
  <2> QED
    BY <2>1, <2>2
<1>13. r.cmds \in CleanLists(u)
  BY <1>9, <1>11, <1>12, CleanJoined
<1> QED
  BY ONLY CleanInv, <1>2, <1>4, <1>13, KeepClean

\* At the start nothing is recorded,
LEMMA CleanInit ==
  ASSUME Init
  PROVE  CleanInv
<1>1. faults = {} /\ list = Closed /\ graph = NoGraph /\ disp.kind = "none"
  BY DEF Init, NoPrepared
<1>2. list.cmds = <<>> /\ graph.cmds = <<>>
  BY <1>1 DEF Closed, NoGraph
<1> QED
  BY <1>1, <1>2, CleanNone DEF CleanInv, FaultsOk, DispClean

\* and every call keeps what is recorded clean.
LEMMA CleanNext ==
  ASSUME BatchInv, CleanInv, OutputsApart, [Next]_vars
  PROVE  CleanInv'
<1>1. CASE Dispatches
  <2>1. PICK kind \in DOMAIN Args : \E a \in Args[kind] : Invoke(kind, a)
    BY <1>1 DEF Dispatches
  <2> QED
    BY <2>1, InvokeClean
<1>2. CASE \E h \in Handles : UploadInto(h) \/ Download(h) \/ UploadNew(h)
  BY <1>2, UploadIntoClean, DownloadClean, UploadNewClean
<1>3. CASE \/ \E h \in Handles : Allocate(h) \/ Drop(h)
           \/ \E h \in Spare, p \in Handles, n \in 1 .. Width : CreateView(h, p, n)
           \/ UNCHANGED vars
  <2>1. UNCHANGED <<list, graph, disp, faults, aliased>>
    BY <1>3 DEF Allocate, Drop, CreateView, vars, ctxVars, gpuVars
  <2> QED
    BY <2>1, QuietClean
<1>4. CASE BeginBatch \/ BeginPrepared
  <2>1. list' = Opened /\ UNCHANGED <<graph, disp, faults, aliased>>
    BY <1>4 DEF BeginBatch, BeginPrepared, gpuVars
  <2>2. list'.cmds = <<>>
    BY <2>1 DEF Opened
  <2> QED
    BY <2>1, <2>2, QuietClean
<1>5. CASE EndBatch
  BY <1>5, EndBatchClean
<1>6. CASE EndPrepared
  <2>1. /\ list' = saved /\ UNCHANGED <<disp, faults, aliased>>
        /\ graph' = graph \/ graph' = [cmds |-> list.cmds, does |-> list.does, heaps |-> heaps]
    BY <1>6 DEF EndPrepared, gpuVars
  <2>2. list'.cmds = <<>>
    BY <2>1 DEF BatchInv, ListOk, Closed
  <2> QED
    BY <2>1, <2>2, QuietClean
<1>7. CASE ExecutePrepared
  BY <1>7, ExecutePreparedClean
<1>8. CASE Prepares
  <2>1. CASE \E a \in Args["unary"] : PrepareRelu(a)
    BY <2>1, PrepareReluClean
  <2>2. CASE \E a \in Args["conv_silu"] : PrepareConvSilu(a)
    BY <2>2, PrepareConvSiluClean
  <2>3. CASE \E a \in Args["conv_silu"] : \E k \in Depths : PrepareChain(k, a[2], a[3], a[4])
    <3>1. PICK a \in Args["conv_silu"], k \in Depths : PrepareChain(k, a[2], a[3], a[4])
      BY <2>3
    <3>2. k \in Nat
      BY BatchAssumption
    <3>3. Res(a[4]) \notin {Res(a[2]), Res(a[3])}
      BY <3>1 DEF PrepareChain, OutputsApart
    <3> QED
      BY <3>1, <3>2, <3>3, PrepareChainClean
  <2> QED
    BY <1>8, <2>1, <2>2, <2>3 DEF Prepares
<1>9. CASE ExecuteDispatch
  BY <1>9, ExecuteDispatchClean
<1> QED
  BY <1>1, <1>2, <1>3, <1>4, <1>5, <1>6, <1>7, <1>8, <1>9 DEF Next

------------------------------------------------------------------------------
(* What the caller means                                                      *)

\* Memories step by step.
LEMMA MemoriesDef ==
  ASSUME NEW m, NEW does, NEW by, Len(does) \in Nat
  PROVE  /\ Memories(m, does, by)[0] = m
         /\ \A i \in 1 .. Len(does) :
              Memories(m, does, by)[i] = Done(Memories(m, does, by)[i - 1], does[i], by)
<1> DEFINE Then(q, i) == CHOOSE n \in {Done(p, does[i], by) : p \in {q}} : TRUE
           Upto(f, k) == f = [i \in 0 .. k |-> IF i = 0 THEN m ELSE Then(f[i - 1], i)]
           L == Len(does)
           S == {k \in 0 .. L : \E f : Upto(f, k)}
<1>1. ASSUME NEW q, NEW i PROVE Then(q, i) = Done(q, does[i], by)
  <2>1. {Done(p, does[i], by) : p \in {q}} = {Done(q, does[i], by)}
    OBVIOUS
  <2> QED
    BY <2>1, OnlyMember
<1> HIDE DEF Then
<1>2. 0 \in S
  <2>1. Upto([i \in 0 .. 0 |-> m], 0)
    OBVIOUS
  <2>2. \E h : Upto(h, 0)
    BY <2>1
  <2>3. 0 \in 0 .. L
    OBVIOUS
  <2> QED
    BY <2>2, <2>3
<1>3. ASSUME NEW k \in 0 .. L - 1, k \in S PROVE k + 1 \in S
  <2>1. PICK f : Upto(f, k)
    BY <1>3
  <2> DEFINE g == [i \in 0 .. k + 1 |-> IF i = k + 1 THEN Then(f[k], i) ELSE f[i]]
  <2>2. ASSUME NEW i \in 0 .. k + 1
        PROVE  g[i] = IF i = 0 THEN m ELSE Then(g[i - 1], i)
    <3>1. CASE i = k + 1
      BY <3>1
    <3>2. CASE i # k + 1
      <4>1. i \in 0 .. k /\ g[i] = f[i]
        BY <3>2
      <4>2. i # 0 => i - 1 \in 0 .. k /\ g[i - 1] = f[i - 1]
        BY <4>1
      <4> QED
        BY <2>1, <4>1, <4>2
    <3> QED
      BY <3>1, <3>2
  <2>3. g = [i \in 0 .. k + 1 |-> IF i = 0 THEN m ELSE Then(g[i - 1], i)]
    <3>1. g = [i \in 0 .. k + 1 |-> g[i]]
      OBVIOUS
    <3> HIDE DEF g
    <3> QED
      BY <2>2, <3>1
  <2>4. \E h : Upto(h, k + 1)
    BY <2>3
  <2> QED
    BY <2>4
<1>4. L \in S
  <2>1. \A i \in 0 .. L : i \in S
    <3> HIDE DEF S
    <3> QED
      BY <1>2, <1>3, Induct
  <2> QED
    BY <2>1
<1>5. \E f : Upto(f, L)
  BY <1>4
<1>6. Memories(m, does, by) = CHOOSE f : Upto(f, L)
  BY Zenon DEF Memories, Then
<1>7. Upto(Memories(m, does, by), L)
  <2> HIDE DEF Upto
  <2> QED
    BY <1>5, <1>6, Zenon
<1> QED
  <2> DEFINE f == Memories(m, does, by)
  <2>1. \A i \in 0 .. L : f[i] = IF i = 0 THEN m ELSE Then(f[i - 1], i)
    BY <1>7
  <2> HIDE DEF f
  <2>2. f[0] = m
    BY <2>1
  <2>3. ASSUME NEW i \in 1 .. L PROVE f[i] = Done(f[i - 1], does[i], by)
    <3>1. i \in 0 .. L /\ i # 0
      OBVIOUS
    <3>2. f[i] = Then(f[i - 1], i)
      BY <2>1, <3>1
    <3> QED
      BY <1>1, <3>2
  <2> QED
    BY <2>2, <2>3 DEF f

\* What is said of the memory before and carried over by each effect holds at the end.
LEMMA MeaningStages ==
  ASSUME NEW m, NEW does, NEW by, Len(does) \in Nat, NEW P, m \in P[0],
         \A i \in 1 .. Len(does) : \A p \in P[i - 1] : Done(p, does[i], by) \in P[i]
  PROVE  Meaning(m, does, by) \in P[Len(does)]
<1> DEFINE f == Memories(m, does, by)
           L == Len(does)
           S == {k \in 0 .. L : f[k] \in P[k]}
<1>1. f[0] = m /\ \A i \in 1 .. L : f[i] = Done(f[i - 1], does[i], by)
  BY MemoriesDef
<1> HIDE DEF f
<1>2. 0 \in S
  BY <1>1
<1>3. ASSUME NEW k \in 0 .. L - 1, k \in S PROVE k + 1 \in S
  <2>1. k + 1 \in 1 .. L /\ k + 1 \in 0 .. L /\ (k + 1) - 1 = k /\ f[k] \in P[k]
    BY <1>3
  <2>2. f[k + 1] = Done(f[k], does[k + 1], by)
    BY <1>1, <2>1
  <2>3. \A p \in P[k] : Done(p, does[k + 1], by) \in P[k + 1]
    BY <2>1
  <2> QED
    BY <2>1, <2>2, <2>3
<1>4. \A i \in 0 .. L : i \in S
  <2> HIDE DEF S
  <2> QED
    BY <1>2, <1>3, Induct
<1>5. f[L] \in P[L]
  BY <1>4
<1> QED
  BY <1>5 DEF Meaning, f

\* No effect,
LEMMA MeaningNone ==
  ASSUME NEW m, NEW by
  PROVE  Meaning(m, <<>>, by) = m
<1>1. Len(<<>>) = 0
  OBVIOUS
<1>2. Memories(m, <<>>, by)[0] = m
  BY <1>1, MemoriesDef
<1> QED
  BY <1>1, <1>2 DEF Meaning

\* one,
LEMMA MeaningOne ==
  ASSUME NEW m, NEW e, NEW by
  PROVE  Meaning(m, <<e>>, by) = Done(m, e, by)
<1>1. PICK s : s = <<e>>
  OBVIOUS
<1>2. Len(s) = 1 /\ s[1] = e
  BY <1>1
<1>3. /\ Memories(m, s, by)[0] = m
      /\ \A i \in 1 .. Len(s) : Memories(m, s, by)[i] = Done(Memories(m, s, by)[i - 1], s[i], by)
  BY <1>2, MemoriesDef
<1>4. Memories(m, s, by)[1] = Done(Memories(m, s, by)[0], e, by)
  <2>1. 1 \in 1 .. 1 /\ 1 - 1 = 0
    OBVIOUS
  <2> QED
    BY <1>2, <1>3, <2>1
<1> QED
  BY <1>1, <1>2, <1>3, <1>4 DEF Meaning

\* What comes first is what the rest starts from.
LEMMA MeaningConcat ==
  ASSUME NEW T, NEW a \in Seq(T), NEW b \in Seq(T), NEW m, NEW by
  PROVE  Meaning(m, a \o b, by) = Meaning(Meaning(m, a, by), b, by)
<1> DEFINE n == Meaning(m, a, by)
           f == Memories(m, a, by)
           g == Memories(n, b, by)
           P == [i \in 0 .. Len(a) + Len(b) |-> IF i <= Len(a) THEN {f[i]} ELSE {g[i - Len(a)]}]
<1>1. Len(a) \in Nat /\ Len(b) \in Nat
  BY LenProperties
<1>2. /\ Len(a \o b) = Len(a) + Len(b)
      /\ \A i \in 1 .. Len(a) + Len(b) :
            (a \o b)[i] = IF i <= Len(a) THEN a[i] ELSE b[i - Len(a)]
  BY ConcatProperties
<1>3. f[0] = m /\ \A i \in 1 .. Len(a) : f[i] = Done(f[i - 1], a[i], by)
  BY <1>1, MemoriesDef
<1>4. g[0] = n /\ \A i \in 1 .. Len(b) : g[i] = Done(g[i - 1], b[i], by)
  BY <1>1, MemoriesDef
<1>5. n = f[Len(a)]
  BY DEF Meaning
<1> HIDE DEF n, f, g
<1>6. m \in P[0]
  BY <1>1, <1>3
<1>7. ASSUME NEW i \in 1 .. Len(a) + Len(b), NEW p \in P[i - 1]
      PROVE  Done(p, (a \o b)[i], by) \in P[i]
  <2>1. CASE i <= Len(a)
    <3>1. i \in 1 .. Len(a) /\ i - 1 <= Len(a) /\ i - 1 \in 0 .. Len(a) + Len(b)
      BY <1>1, <2>1
    <3>2. p = f[i - 1] /\ (a \o b)[i] = a[i] /\ P[i] = {f[i]}
      BY <1>2, <2>1, <3>1
    <3> QED
      BY <1>3, <3>1, <3>2
  <2>2. CASE ~(i <= Len(a))
    <3> DEFINE j == i - Len(a)
    <3>1. j \in 1 .. Len(b) /\ i - 1 \in 0 .. Len(a) + Len(b) /\ i \in 0 .. Len(a) + Len(b)
      BY <1>1, <2>2
    <3>2. (a \o b)[i] = b[j] /\ P[i] = {g[j]}
      BY <1>2, <2>2, <3>1
    <3>3. p = g[j - 1]
      <4>1. CASE i - 1 <= Len(a)
        <5>1. i - 1 = Len(a) /\ j - 1 = 0
          BY <1>1, <2>2, <4>1
        <5>2. P[i - 1] = {f[i - 1]}
          BY <3>1, <4>1
        <5> QED
          BY <1>4, <1>5, <5>1, <5>2
      <4>2. CASE ~(i - 1 <= Len(a))
        <5>1. P[i - 1] = {g[(i - 1) - Len(a)]} /\ (i - 1) - Len(a) = j - 1
          BY <1>1, <3>1, <4>2
        <5> QED
          BY <5>1
      <4> QED
        BY <4>1, <4>2
    <3> HIDE DEF j
    <3> QED
      BY <1>4, <3>1, <3>2, <3>3
  <2> QED
    BY <2>1, <2>2
<1>8. Meaning(m, a \o b, by) \in P[Len(a) + Len(b)]
  <2> DEFINE c == a \o b
  <2>1. Len(c) \in Nat /\ Len(c) = Len(a) + Len(b)
    BY <1>1, <1>2
  <2> HIDE DEF P
  <2>2. \A i \in 1 .. Len(c) : \A p \in P[i - 1] : Done(p, c[i], by) \in P[i]
    BY <1>7, <2>1
  <2> HIDE DEF c
  <2>3. Meaning(m, c, by) \in P[Len(c)]
    BY <1>6, <2>1, <2>2, MeaningStages
  <2> QED
    BY <2>1, <2>3 DEF c
<1>9. P[Len(a) + Len(b)] = {g[Len(b)]}
  <2>1. Len(a) + Len(b) \in 0 .. Len(a) + Len(b) /\ (Len(a) + Len(b)) - Len(a) = Len(b)
    BY <1>1
  <2>2. CASE Len(b) = 0
    BY <1>1, <1>4, <1>5, <2>1, <2>2
  <2>3. CASE Len(b) # 0
    BY <1>1, <2>1, <2>3
  <2> QED
    BY <2>2, <2>3
<1>10. Meaning(m, a \o b, by) = g[Len(b)]
  BY <1>8, <1>9
<1> QED
  BY <1>10 DEF g, n, Meaning

\* Memories, and effects on them.
Mems == [Cells -> SUBSET Nat]
Effs == [in : SUBSET Cells, out : SUBSET Cells]

\* After an effect with the inputs i and the outputs o.
Written(n, m, i, o, v) ==
  n \in Mems /\ \A x \in Cells : n[x] = IF x \in o THEN (UNION {m[y] : y \in i}) \cup {v} ELSE m[x]

\* An effect at each cell.
LEMMA DoneWrites ==
  ASSUME NEW m \in Mems, NEW e, NEW by \in Nat, NEW n, n = Done(m, e, by), e.in \subseteq Cells
  PROVE  Written(n, m, e.in, e.out, by)
<1>1. DOMAIN m = Cells
  BY DEF Mems
<1>2. n = [x \in Cells |-> IF x \in e.out THEN (UNION {m[y] : y \in e.in}) \cup {by} ELSE m[x]]
  BY <1>1 DEF Done
<1>3. (UNION {m[y] : y \in e.in}) \cup {by} \in SUBSET Nat
  BY DEF Mems
<1>4. \A x \in Cells : m[x] \in SUBSET Nat
  BY DEF Mems
<1>5. n \in Mems
  BY <1>2, <1>3, <1>4 DEF Mems
<1> QED
  BY <1>1, <1>2, <1>5 DEF Written

\* Effects end in a memory.
LEMMA MeaningMem ==
  ASSUME NEW m \in Mems, NEW does \in Seq(Effs), NEW by \in Nat
  PROVE  Meaning(m, does, by) \in Mems
<1> DEFINE P == [i \in 0 .. Len(does) |-> Mems]
<1>1. Len(does) \in Nat /\ m \in P[0]
  BY LenProperties
<1>2. ASSUME NEW i \in 1 .. Len(does), NEW p \in P[i - 1] PROVE Done(p, does[i], by) \in P[i]
  <2>1. p \in Mems /\ P[i] = Mems
    BY <1>1, <1>2
  <2>2. does[i] \in Effs
    BY ElementOfSeq
  <2>3. Done(p, does[i], by) \in Mems
    BY <2>1, <2>2, DoneWrites DEF Effs, Written
  <2> QED
    BY <2>1, <2>3
<1>3. Meaning(m, does, by) \in P[Len(does)]
  <2> HIDE DEF P
  <2> QED
    BY <1>1, <1>2, MeaningStages
<1> QED
  BY <1>1, <1>3

\* The call a command of k is of when by runs it.
Stamp(k, by) == IF k = 0 THEN by ELSE k

\* A list with the effects d.
Wrote(cmds, d, k) ==
  \A m, by : m \in Machine(Resources, Cells) /\ by \in Nat
    => Ran(m, cmds, by).mem = Meaning(m.mem, d, Stamp(k, by))

\* A list and its effects.
Says(cmds, d, k) == cmds \in Seq(BatchCommands(Nat)) /\ d \in Seq(Effs) /\ Wrote(cmds, d, k)

\* Nothing says nothing,
LEMMA SaysNone ==
  ASSUME NEW k
  PROVE  Says(<<>>, <<>>, k)
<1>1. <<>> \in Seq(BatchCommands(Nat)) /\ <<>> \in Seq(Effs)
  OBVIOUS
<1>2. Wrote(<<>>, <<>>, k)
  BY RanNone, MeaningNone DEF Wrote
<1> QED
  BY <1>1, <1>2 DEF Says

\* lists one behind the other say one behind the other,
LEMMA SaysJoined ==
  ASSUME NEW k \in Nat, NEW a, NEW d, Says(a, d, k), NEW b, NEW e, Says(b, e, k)
  PROVE  Says(a \o b, d \o e, k)
<1>1. /\ a \in Seq(BatchCommands(Nat)) /\ b \in Seq(BatchCommands(Nat))
      /\ d \in Seq(Effs) /\ e \in Seq(Effs) /\ Wrote(a, d, k) /\ Wrote(b, e, k)
  BY DEF Says
<1>2. a \o b \in Seq(BatchCommands(Nat)) /\ d \o e \in Seq(Effs)
  BY <1>1, ConcatProperties
<1>3. ASSUME NEW m, NEW by, m \in Machine(Resources, Cells), by \in Nat
      PROVE  Ran(m, a \o b, by).mem = Meaning(m.mem, d \o e, Stamp(k, by))
  <2>1. PICK p, v : p = Ran(m, a, by) /\ v = Stamp(k, by)
    OBVIOUS
  <2>2. p \in Machine(Resources, Cells)
    BY <1>1, <1>3, <2>1, AnyRun
  <2>3. p.mem = Meaning(m.mem, d, v) /\ Ran(p, b, by).mem = Meaning(p.mem, e, v)
    BY <1>1, <1>3, <2>1, <2>2 DEF Wrote
  <2>4. Ran(m, a \o b, by) = Ran(p, b, by)
    BY <1>1, <2>1, RanConcat
  <2>5. Meaning(m.mem, d \o e, v) = Meaning(Meaning(m.mem, d, v), e, v)
    BY <1>1, MeaningConcat
  <2> QED
    BY <2>1, <2>3, <2>4, <2>5
<1>4. Wrote(a \o b, d \o e, k)
  BY <1>3 DEF Wrote
<1> QED
  BY <1>2, <1>4 DEF Says

\* one command that keeps the memory says nothing,
LEMMA SaysQuiet ==
  ASSUME NEW a, NEW d, NEW k, Says(a, d, k), NEW b \in Seq(BatchCommands(Nat)),
         \A m, by : m \in Machine(Resources, Cells) /\ by \in Nat => Ran(m, b, by).mem = m.mem
  PROVE  Says(a \o b, d, k)
<1>1. a \in Seq(BatchCommands(Nat)) /\ d \in Seq(Effs) /\ Wrote(a, d, k)
  BY DEF Says
<1>2. a \o b \in Seq(BatchCommands(Nat))
  BY <1>1, ConcatProperties
<1>3. ASSUME NEW m, NEW by, m \in Machine(Resources, Cells), by \in Nat
      PROVE  Ran(m, a \o b, by).mem = Meaning(m.mem, d, Stamp(k, by))
  <2>1. PICK p : p = Ran(m, a, by)
    OBVIOUS
  <2>2. p \in Machine(Resources, Cells) /\ p.mem = Meaning(m.mem, d, Stamp(k, by))
    BY <1>1, <1>3, <2>1, AnyRun DEF Wrote
  <2>3. Ran(m, a \o b, by) = Ran(p, b, by)
    BY <1>1, <2>1, RanConcat
  <2> QED
    BY <1>3, <2>2, <2>3
<1>4. Wrote(a \o b, d, k)
  BY <1>3 DEF Wrote
<1> QED
  BY <1>1, <1>2, <1>4 DEF Says

\* transitions say nothing,
LEMMA SaysBarriers ==
  ASSUME NEW a, NEW d, NEW k, Says(a, d, k), NEW bs \in Seq(TransitionsOn(Resources)), bs \in Seq(BatchCommands(Nat))
  PROVE  Says(a \o bs, d, k)
<1>1. ASSUME NEW m, NEW by, m \in Machine(Resources, Cells), by \in Nat PROVE Ran(m, bs, by).mem = m.mem
  BY <1>1, BarriersRun
<1> QED
  BY <1>1, SaysQuiet

\* a dispatch says what it reads and writes,
LEMMA SaysRun ==
  ASSUME NEW k \in Nat, NEW in \in SUBSET Cells, NEW out \in SUBSET Cells, NEW c, c = Run(k, in, out),
         NEW e, e = [in |-> in, out |-> out]
  PROVE  Says(<<c>>, <<e>>, k) /\ e \in Effs
<1>1. ResourcesOf(in) \subseteq Nat /\ ResourcesOf(out) \subseteq Nat
  BY HandleSpace DEF ResourcesOf, Cells
<1>2. c \in BatchCommands(Nat) /\ c \in RunsOf(Cells) /\ c.in = in /\ c.out = out /\ c.by = k
  <2>1. PICK N : N = Nat
    OBVIOUS
  <2>2. c \in Others(N)
    BY ONLY <1>1, <2>1, k \in Nat, in \in SUBSET Cells, out \in SUBSET Cells, c = Run(k, in, out), RunOther
  <2>3. c \in BatchCommands(Nat)
    BY ONLY <2>1, <2>2 DEF Others
  <2>4. c.in = in /\ c.out = out /\ c.by = k
    BY ONLY c = Run(k, in, out) DEF Run
  <2>5. c \in RunsOf(Cells)
    BY DEF RunsOf
  <2> QED
    BY ONLY <2>3, <2>4, <2>5
<1>3. e \in Effs
  BY DEF Effs
<1>4. <<c>> \in Seq(BatchCommands(Nat)) /\ <<e>> \in Seq(Effs)
  BY <1>2, <1>3
<1>5. ASSUME NEW m, NEW by, m \in Machine(Resources, Cells), by \in Nat
      PROVE  Ran(m, <<c>>, by).mem = Meaning(m.mem, <<e>>, Stamp(k, by))
  <2>1. PICK n, v : n = ExecCommand(m, c, by) /\ v = Caller(c, by)
    OBVIOUS
  <2>2. n.mem = Computed(Cells, m.mem, in, out, v)
    BY <1>2, <1>5, <2>1, RunStep DEF RunDone
  <2>3. v = Stamp(k, by)
    BY <1>2, <2>1 DEF Caller, Stamp
  <2>4. DOMAIN m.mem = Cells
    BY <1>5 DEF Machine
  <2>5. Done(m.mem, e, v) = Computed(Cells, m.mem, in, out, v)
    BY <2>4 DEF Done, Computed
  <2> QED
    BY <2>1, <2>2, <2>3, <2>5, RanOne, MeaningOne
<1>6. Wrote(<<c>>, <<e>>, k)
  BY <1>5 DEF Wrote
<1> QED
  BY <1>3, <1>4, <1>6 DEF Says

\* a copy from a heap what it fills.
LEMMA SaysFill ==
  ASSUME NEW k \in Nat, NEW heap \in Nat, NEW out \in SUBSET Cells, NEW c, c = Fill(k, heap, out),
         NEW e, e = [in |-> {}, out |-> out]
  PROVE  Says(<<c>>, <<e>>, k) /\ e \in Effs
<1>1. ResourcesOf(out) \subseteq Nat
  BY HandleSpace DEF ResourcesOf, Cells
<1>2. c \in BatchCommands(Nat) /\ c \in FillsOf(Cells) /\ c.out = out /\ c.by = k
  <2>1. PICK N : N = Nat
    OBVIOUS
  <2>2. c \in Others(N)
    BY ONLY <1>1, <2>1, k \in Nat, heap \in Nat, out \in SUBSET Cells, c = Fill(k, heap, out), FillOther
  <2> QED
    BY <2>1, <2>2 DEF Others, Fill, FillsOf
<1>3. e \in Effs
  BY DEF Effs
<1>4. <<c>> \in Seq(BatchCommands(Nat)) /\ <<e>> \in Seq(Effs)
  BY <1>2, <1>3
<1>5. ASSUME NEW m, NEW by, m \in Machine(Resources, Cells), by \in Nat
      PROVE  Ran(m, <<c>>, by).mem = Meaning(m.mem, <<e>>, Stamp(k, by))
  <2>1. PICK n, v : n = ExecCommand(m, c, by) /\ v = Caller(c, by)
    OBVIOUS
  <2>2. n.mem = [x \in Cells |-> IF x \in out THEN {v} ELSE m.mem[x]]
    BY <1>2, <1>5, <2>1, FillStep
  <2>3. v = Stamp(k, by)
    BY <1>2, <2>1 DEF Caller, Stamp
  <2>4. DOMAIN m.mem = Cells
    BY <1>5 DEF Machine
  <2>5. e.in = {} /\ e.out = out
    OBVIOUS
  <2>6. (UNION {m.mem[y] : y \in e.in}) \cup {v} = {v}
    BY <2>5
  <2>7. Done(m.mem, e, v) = [x \in Cells |-> IF x \in out THEN {v} ELSE m.mem[x]]
    BY <2>4, <2>5, <2>6 DEF Done
  <2> QED
    BY <2>1, <2>2, <2>3, <2>7, RanOne, MeaningOne
<1>6. Wrote(<<c>>, <<e>>, k)
  BY <1>5 DEF Wrote
<1> QED
  BY <1>3, <1>4, <1>6 DEF Says

\* A recording and the effects of its commands.
Saying(r, d, k) == r \in Recorder(Nat) /\ Says(r.cmds, d, k)

\* Turning handles keeps what a recording says,
LEMMA SayTurn ==
  ASSUME BufOk, NEW k, NEW r, NEW d, Saying(r, d, k), NEW hs \in Seq(Known), NEW to \in [Resources -> States],
         NEW q, q = Turn(r, hs, to)
  PROVE  Saying(q, d, k)
<1>1. PICK N : N = Nat
  OBVIOUS
<1>2. r \in Recorder(N) /\ Says(r.cmds, d, k)
  BY <1>1 DEF Saying
<1>3. \A i \in 1 .. Len(hs) : Res(hs[i]) \in N
  BY <1>1, CellSpace, HandleSpace, ElementOfSeq
<1>4. q \in Recorder(N) /\ TurnDone(r, hs, to, q)
  BY ONLY BufOk, <1>2, <1>3, hs \in Seq(Known), to \in [Resources -> States], q = Turn(r, hs, to), TurnStep
<1>5. PICK bs : bs \in Seq(TransitionsOn(Resources)) /\ q.cmds = r.cmds \o bs
  BY <1>4 DEF TurnDone
<1>6. bs \in Seq(BatchCommands(N))
  <2>1. \A i \in 1 .. Len(bs) : bs[i].res \in N
    <3>1. \A i \in 1 .. Len(bs) : bs[i] \in TransitionsOn(Resources)
      BY <1>5, ElementOfSeq
    <3> QED
      BY <1>1, <3>1, HandleSpace DEF TransitionsOn, Barrier
  <2> QED
    BY <1>5, <2>1, TransitionCommands
<1>7. Says(r.cmds \o bs, d, k)
  BY <1>1, <1>2, <1>5, <1>6, SaysBarriers
<1> QED
  BY <1>1, <1>4, <1>5, <1>7 DEF Saying

\* to one state,
LEMMA SayEnter ==
  ASSUME BufOk, NEW k, NEW r, NEW d, Saying(r, d, k), NEW hs \in Seq(Known), NEW s \in States,
         NEW q, q = EnterAll(r, hs, s)
  PROVE  Saying(q, d, k)
<1>1. DOMAIN r.st = Resources
  BY DEF Saying, Recorder
<1>2. PICK to : to = [h \in DOMAIN r.st |-> s]
  OBVIOUS
<1>3. to \in [Resources -> States]
  BY <1>1, <1>2
<1>4. q = Turn(r, hs, to)
  BY <1>2 DEF EnterAll
<1> QED
  BY <1>3, <1>4, SayTurn

\* or back to COMMON.
LEMMA SayRestore ==
  ASSUME BufOk, NEW k, NEW r, NEW d, Saying(r, d, k), NEW hs \in Seq(Known), NEW q, q = Restore(r, hs, Resting)
  PROVE  Saying(q, d, k)
<1>1. Resting \in [Resources -> States]
  BY DEF Resting, States
<1> QED
  BY <1>1, SayTurn DEF Restore

\* Adding a command.
LEMMA Added ==
  ASSUME NEW r \in Recorder(Nat), NEW c, NEW q, q = Add(r, c)
  PROVE  q = [cmds |-> r.cmds \o <<c>>, st |-> r.st, heaps |-> r.heaps]
<1>1. PICK cs : cs = <<c>>
  OBVIOUS
<1>2. r.cmds \in Seq(BatchCommands(Nat)) /\ r = [cmds |-> r.cmds, st |-> r.st, heaps |-> r.heaps]
  BY DEF Recorder
<1>3. Append(r.cmds, c) = r.cmds \o cs
  BY <1>1, <1>2
<1>4. q = [cmds |-> Append(r.cmds, c), st |-> r.st, heaps |-> r.heaps]
  BY DEF Add, Recorder
<1> QED
  BY <1>1, <1>3, <1>4

\* More commands say more,
LEMMA SayMore ==
  ASSUME NEW k \in Nat, NEW r, NEW d, Saying(r, d, k), NEW cs, NEW e, Says(cs, e, k), NEW H \in SUBSET Nat,
         NEW q, q = [cmds |-> r.cmds \o cs, st |-> r.st, heaps |-> r.heaps \cup H]
  PROVE  Saying(q, d \o e, k)
<1>1. Says(r.cmds \o cs, d \o e, k)
  BY SaysJoined DEF Saying
<1>2. q \in Recorder(Nat)
  BY <1>1 DEF Saying, Recorder, Says
<1> QED
  BY <1>1, <1>2 DEF Saying

\* a dispatch its effect,
LEMMA SayRun ==
  ASSUME NEW k \in Nat, NEW r, NEW d, Saying(r, d, k), NEW in \in SUBSET Cells, NEW out \in SUBSET Cells,
         NEW q, q = Add(r, Run(k, in, out)), NEW e, e = [in |-> in, out |-> out]
  PROVE  Saying(q, d \o <<e>>, k)
<1>1. PICK c : c = Run(k, in, out)
  OBVIOUS
<1>2. Says(<<c>>, <<e>>, k)
  BY <1>1, SaysRun
<1>3. PICK H : H = {}
  OBVIOUS
<1>4. q = [cmds |-> r.cmds \o <<c>>, st |-> r.st, heaps |-> r.heaps \cup H]
  BY <1>1, <1>3, Added DEF Saying
<1>5. H \in SUBSET Nat
  BY <1>3
<1> QED
  BY <1>2, <1>4, <1>5, SayMore

\* a UAV barrier nothing.
LEMMA SayUav ==
  ASSUME NEW k, NEW r, NEW d, Saying(r, d, k), NEW x \in Resources, NEW q, q = Add(r, UavBarrier(x))
  PROVE  Saying(q, d, k)
<1>1. PICK c : c = UavBarrier(x)
  OBVIOUS
<1>2. c \in BatchCommands(Nat)
  <2>1. x \in Nat
    BY HandleSpace
  <2> QED
    BY <1>1, <2>1, UavOther DEF Others
<1>3. <<c>> \in Seq(BatchCommands(Nat))
  BY <1>2
<1>4. ASSUME NEW m, NEW by, m \in Machine(Resources, Cells), by \in Nat PROVE Ran(m, <<c>>, by).mem = m.mem
  BY <1>1, <1>4, RanOne, UavStep
<1>5. Says(r.cmds \o <<c>>, d, k)
  BY <1>3, <1>4, SaysQuiet DEF Saying
<1>6. q = [cmds |-> r.cmds \o <<c>>, st |-> r.st, heaps |-> r.heaps]
  BY <1>1, Added DEF Saying
<1>7. q \in Recorder(Nat)
  BY <1>5, <1>6 DEF Saying, Recorder, Says
<1> QED
  BY <1>5, <1>6, <1>7 DEF Saying

\* Two lists of one element.
LEMMA Pair ==
  ASSUME NEW a, NEW b
  PROVE  <<a>> \o <<b>> = <<a, b>>
<1> DEFINE T == {a, b}
           x == <<a>>
           y == <<b>>
           s == x \o y
           t == <<a, b>>
<1>1. x \in Seq(T) /\ y \in Seq(T) /\ Len(x) = 1 /\ Len(y) = 1 /\ x[1] = a /\ y[1] = b
  OBVIOUS
<1>2. t \in Seq(T) /\ Len(t) = 2 /\ t[1] = a /\ t[2] = b
  OBVIOUS
<1> HIDE DEF T, x, y, t
<1>3. s \in Seq(T) /\ Adjoined(x, y, s)
  BY <1>1, Joined
<1> HIDE DEF s
<1>4. Len(s) = 2 /\ s[1] = a /\ s[2] = b
  BY <1>1, <1>3 DEF Adjoined
<1>5. s = t
  BY <1>2, <1>3, <1>4
<1> QED
  BY <1>5 DEF s, t, x, y

\* The zeros of a counter.
Zeros(h) == [in |-> {}, out |-> FromStart(h)]

\* The copies of zeros into counters.
ZeroFills(k, n, hs) == [i \in DOMAIN hs |-> Fill(k, ZeroHeap(n), FromStart(hs[i]))]

\* One counter and two.
LEMMA ZerosSay ==
  ASSUME BufOk, NEW k \in Nat, NEW n \in Nat
  PROVE  /\ \A h \in Known : Says(ZeroFills(k, n, <<h>>), <<Zeros(h)>>, k)
         /\ \A g, h \in Known : Says(ZeroFills(k, n, <<g, h>>), <<Zeros(g)>> \o <<Zeros(h)>>, k)
<1>1. PICK x : x = ZeroHeap(n)
  OBVIOUS
<1>2. x \in Nat
  BY <1>1 DEF ZeroHeap
<1>3. ASSUME NEW h \in Known PROVE Says(<<Fill(k, x, FromStart(h))>>, <<Zeros(h)>>, k)
  <2>1. PICK c, e : c = Fill(k, x, FromStart(h)) /\ e = Zeros(h)
    OBVIOUS
  <2>2. FromStart(h) \in SUBSET Cells
    BY CellSpace
  <2>3. e = [in |-> {}, out |-> FromStart(h)]
    BY <2>1 DEF Zeros
  <2>4. Says(<<c>>, <<e>>, k)
    BY <1>2, <2>1, <2>2, <2>3, SaysFill
  <2> QED
    BY <2>1, <2>4
<1>4. ASSUME NEW h \in Known PROVE ZeroFills(k, n, <<h>>) = <<Fill(k, x, FromStart(h))>>
  <2>1. DOMAIN <<h>> = 1 .. 1 /\ <<h>>[1] = h
    OBVIOUS
  <2> QED
    BY <1>1, <2>1 DEF ZeroFills
<1>5. ASSUME NEW g \in Known, NEW h \in Known
      PROVE  ZeroFills(k, n, <<g, h>>) = <<Fill(k, x, FromStart(g))>> \o <<Fill(k, x, FromStart(h))>>
  <2>1. PICK c, d : c = Fill(k, x, FromStart(g)) /\ d = Fill(k, x, FromStart(h))
    OBVIOUS
  <2>2. DOMAIN <<g, h>> = 1 .. 2 /\ <<g, h>>[1] = g /\ <<g, h>>[2] = h
    OBVIOUS
  <2>3. <<c>> \o <<d>> = <<c, d>>
    BY Pair
  <2>4. ZeroFills(k, n, <<g, h>>) = [i \in 1 .. 2 |-> Fill(k, x, FromStart(<<g, h>>[i]))]
    BY <1>1, <2>2 DEF ZeroFills
  <2>5. ZeroFills(k, n, <<g, h>>) = <<c, d>>
    BY <2>1, <2>2, <2>4
  <2> QED
    BY <2>1, <2>3, <2>5
<1>6. ASSUME NEW g \in Known, NEW h \in Known PROVE Says(ZeroFills(k, n, <<g, h>>), <<Zeros(g)>> \o <<Zeros(h)>>, k)
  BY <1>3, <1>5, SaysJoined
<1> QED
  BY <1>3, <1>4, <1>6

\* Zeroing counters says what the copies say.
LEMMA SayZeros ==
  ASSUME BufOk, NEW k \in Nat, NEW r, NEW d, Saying(r, d, k), NEW n \in Nat, NEW hs \in Seq(Known),
         NEW e, Says(ZeroFills(k, n, hs), e, k), NEW q, q = ZeroCounters(r, k, n, hs)
  PROVE  Saying(q, d \o e, k)
<1>1. PICK p : p = EnterAll(r, hs, "COPY_DEST")
  OBVIOUS
<1>2. PICK s : s = "COPY_DEST"
  OBVIOUS
<1>3. Saying(p, d, k)
  <2>1. s \in States
    BY <1>2 DEF States
  <2> QED
    BY <1>1, <1>2, <2>1, SayEnter
<1>4. PICK cs, H : cs = ZeroFills(k, n, hs) /\ H = {ZeroHeap(n)}
  OBVIOUS
<1>5. q = [p EXCEPT !.cmds = @ \o cs, !.heaps = @ \cup H]
  BY <1>1, <1>4 DEF ZeroCounters, ZeroFills
<1>6. q = [cmds |-> p.cmds \o cs, st |-> p.st, heaps |-> p.heaps \cup H]
  <2>1. p = [cmds |-> p.cmds, st |-> p.st, heaps |-> p.heaps]
    BY <1>3 DEF Saying, Recorder
  <2> QED
    BY <1>5, <2>1
<1>7. H \in SUBSET Nat
  BY <1>4 DEF ZeroHeap
<1> QED
  BY <1>3, <1>4, <1>6, <1>7, SayMore

\* A dispatch says what it is meant to.
LEMMA SayDispatch ==
  ASSUME BufOk, NEW k \in Nat, NEW r, NEW d, Saying(r, d, k), NEW in, in \subseteq Known, NEW y \in Known,
         NEW q, q = Dispatch(r, k, in, {y})
  PROVE  Saying(q, d \o <<Effect(in, y)>>, k)
<1>1. PICK i, o, e : i = UNION {Elements(h) : h \in in} /\ o = Elements(y) /\ e = Effect(in, y)
  OBVIOUS
<1>2. i \in SUBSET Cells /\ o \in SUBSET Cells
  BY <1>1, CellSpace, HandleCells
<1>3. UNION {Elements(h) : h \in {y}} = o
  BY <1>1
<1>4. q = Add(r, Run(k, i, o)) /\ e = [in |-> i, out |-> o]
  BY <1>1, <1>3 DEF Dispatch, Effect
<1>5. Saying(q, d \o <<e>>, k)
  BY <1>2, <1>4, SayRun
<1> QED
  BY <1>1, <1>5

\* From the inputs entered to the end.
LEMMA SayBetween ==
  ASSUME BufOk, NEW k \in Nat, NEW a, NEW e, Saying(a, e, k), NEW in, in \subseteq Known, NEW y \in Known,
         NEW back \in Seq(Known),
         NEW b, b = Enter(a, y, "UAV"), NEW c, c = Dispatch(b, k, in, {y}),
         NEW d, d = Restore(c, <<y>>, Resting), NEW q, q = Restore(d, back, Resting)
  PROVE  Saying(d, e \o <<Effect(in, y)>>, k) /\ Saying(q, e \o <<Effect(in, y)>>, k)
<1>1. PICK one, s, f : one = <<y>> /\ s = "UAV" /\ f = e \o <<Effect(in, y)>>
  OBVIOUS
<1>2. one \in Seq(Known) /\ s \in States
  BY <1>1 DEF States
<1>3. Saying(b, e, k)
  BY <1>1, <1>2, SayEnter DEF Enter
<1>4. Saying(c, f, k)
  BY <1>1, <1>3, SayDispatch
<1>5. Saying(d, f, k)
  BY <1>1, <1>2, <1>4, SayRestore
<1>6. Saying(q, f, k)
  BY <1>5, SayRestore
<1> QED
  BY <1>1, <1>5, <1>6

\* Plain,
LEMMA PlainSays ==
  ASSUME BufOk, NEW k \in Nat, NEW r, NEW e, Saying(r, e, k), r.st = Resting, NEW ins \in Seq(Known),
         NEW y \in Known, NEW q, q = Plain(r, k, ins, y)
  PROVE  Saying(q, e \o <<Effect(Range(ins), y)>>, k)
<1>1. PICK a, b, c, d, back, I, s :
        /\ a = EnterAll(r, ins, s) /\ b = Enter(a, y, "UAV") /\ c = Dispatch(b, k, I, {y})
        /\ d = Restore(c, <<y>>, Resting) /\ back = Reverse(ins) /\ I = Range(ins) /\ s = "SRV"
  OBVIOUS
<1>2. q = Restore(d, back, Resting)
  BY <1>1 DEF Plain, Enter
<1>3. back \in Seq(Known) /\ I \subseteq Known
  BY <1>1, ReverseIs, PoseFacts
<1>4. Saying(a, e, k)
  <2>1. s \in States
    BY <1>1 DEF States
  <2> QED
    BY <1>1, <2>1, SayEnter
<1>5. Saying(q, e \o <<Effect(I, y)>>, k)
  BY ONLY BufOk, k \in Nat, y \in Known, <1>1, <1>2, <1>3, <1>4, SayBetween
<1> QED
  BY <1>1, <1>5

\* Stepwise,
LEMMA StepwiseSays ==
  ASSUME BufOk, NEW k \in Nat, NEW r, NEW e, Saying(r, e, k), r.st = Resting, NEW ins \in Seq(Known),
         NEW y \in Known, NEW q, q = Stepwise(r, k, ins, y)
  PROVE  Saying(q, e \o <<Effect(Range(ins), y)>>, k)
<1>1. PICK first, a, b, c, d, I, s :
        /\ first = FirstOfHandle(ins)
        /\ a = EnterAll(r, first, s) /\ b = Enter(a, y, "UAV") /\ c = Dispatch(b, k, I, {y})
        /\ d = Restore(c, <<y>>, Resting) /\ I = Range(ins) /\ s = "SRV"
  OBVIOUS
<1>2. q = Restore(d, ins, Resting)
  BY <1>1 DEF Stepwise, EnterEach
<1>3. first \in Seq(Known) /\ I \subseteq Known
  BY <1>1, FirstOfHandleIs, PoseFacts
<1>4. Saying(a, e, k)
  <2>1. s \in States
    BY <1>1 DEF States
  <2> QED
    BY <1>1, <1>3, <2>1, SayEnter
<1>5. Saying(q, e \o <<Effect(I, y)>>, k)
  BY ONLY BufOk, k \in Nat, y \in Known, ins \in Seq(Known), <1>1, <1>2, <1>3, <1>4, SayBetween
<1> QED
  BY <1>1, <1>5

\* PerResource,
LEMMA PerResourceSays ==
  ASSUME BufOk, NEW k \in Nat, NEW r, NEW e, Saying(r, e, k), r.st = Resting, NEW ins \in Seq(Known),
         NEW y \in Known, NEW q, q = PerResource(r, k, ins, y)
  PROVE  Says(q.cmds, e \o <<Effect(Range(ins), y)>>, k)
<1>1. PICK once, a, b, c, d, u, I, s :
        /\ once = FirstOfResource(ins)
        /\ a = EnterAll(r, once, s) /\ b = Enter(a, y, "UAV") /\ c = Dispatch(b, k, I, {y})
        /\ d = Restore(c, <<y>>, Resting) /\ u = Restore(d, once, Resting) /\ I = Range(ins) /\ s = "SRV"
  OBVIOUS
<1>2. once \in Seq(Known) /\ I \subseteq Known
  BY <1>1, FirstOfResourceOnce, PoseFacts
<1>3. Saying(a, e, k)
  <2>1. s \in States
    BY <1>1 DEF States
  <2> QED
    BY <1>1, <1>2, <2>1, SayEnter
<1>4. Saying(u, e \o <<Effect(I, y)>>, k)
  BY ONLY BufOk, k \in Nat, y \in Known, <1>1, <1>2, <1>3, SayBetween
<1>5. q.cmds = u.cmds
  <2>1. u = [cmds |-> u.cmds, st |-> u.st, heaps |-> u.heaps]
    BY <1>4 DEF Saying, Recorder
  <2>2. PICK f : f = [h \in DOMAIN u.st |-> IF h \in I THEN r.st[CHOOSE g \in Range(once) : Res(g) = Res(h)] ELSE u.st[h]]
    OBVIOUS
  <2>3. q = [u EXCEPT !.st = f]
    BY <1>1, <2>2 DEF PerResource
  <2> QED
    BY <2>1, <2>3
<1> QED
  BY <1>1, <1>4, <1>5 DEF Saying

\* relu.
LEMMA ReluSays ==
  ASSUME BufOk, NEW k \in Nat, NEW r, NEW e, Saying(r, e, k), r.st = Resting, NEW x \in Known, NEW y \in Known,
         NEW a, a[1] = x, a[2] = y, NEW q, q = ReluInto(r, k, a)
  PROVE  Saying(q, e \o <<Effect({x}, y)>>, k)
<1>1. PICK v, b, c, d, back, I :
        /\ back = <<x>> /\ v = EnterAll(r, back, "SRV") /\ b = Enter(v, y, "UAV") /\ c = Dispatch(b, k, I, {y})
        /\ d = Restore(c, <<y>>, Resting) /\ I = {x}
  OBVIOUS
<1>2. back \in Seq(Known) /\ I \subseteq Known
  BY <1>1
<1>3. Saying(v, e, k)
  <2>1. PICK s : s = "SRV"
    OBVIOUS
  <2>2. s \in States
    BY <2>1 DEF States
  <2> QED
    BY <1>1, <1>2, <2>1, <2>2, SayEnter
<1>4. PICK u : u = Restore(d, back, Resting)
  OBVIOUS
<1>5. Saying(d, e \o <<Effect(I, y)>>, k) /\ Saying(u, e \o <<Effect(I, y)>>, k)
  BY ONLY BufOk, k \in Nat, y \in Known, <1>1, <1>2, <1>3, <1>4, SayBetween
<1>6. c \in Recorder(Nat) /\ d \in Recorder(Nat)
  <2>1. Saying(b, e, k)
    <3>1. PICK s, one : s = "UAV" /\ one = <<y>>
      OBVIOUS
    <3>2. s \in States /\ one \in Seq(Known)
      BY <3>1 DEF States
    <3> QED
      BY <1>1, <1>3, <3>1, <3>2, SayEnter DEF Enter
  <2>2. Saying(c, e \o <<Effect(I, y)>>, k)
    BY <1>1, <1>2, <2>1, SayDispatch
  <2> QED
    BY <1>5, <2>2 DEF Saying
<1>7. r.st[x] = "COMMON"
  BY CellSpace DEF Resting
<1>8. q = Enter(Enter(c, y, "COMMON"), x, "COMMON")
  BY <1>1, <1>7 DEF ReluInto, Enter
<1>9. d = Enter(c, y, "COMMON") /\ u = Enter(d, x, "COMMON")
  BY <1>1, <1>4, <1>6, RestoreIs DEF Enter
<1> QED
  BY <1>1, <1>5, <1>8, <1>9

------------------------------------------------------------------------------
(* Effects that come to the same                                              *)

\* Memories that agree on the cells X.
Agree(a, b, X) == a \in Mems /\ b \in Mems /\ \A x \in X : a[x] = b[x]

\* Fewer cells,
LEMMA AgreeLess ==
  ASSUME NEW a, NEW b, NEW X, Agree(a, b, X), NEW Y, Y \subseteq X
  PROVE  Agree(a, b, Y)
BY DEF Agree

\* all of them,
LEMMA AgreeAll ==
  ASSUME NEW a, NEW b, NEW X, Agree(a, b, X), Cells \subseteq X
  PROVE  a = b
BY DEF Agree, Mems

\* one after the other,
LEMMA AgreeTrans ==
  ASSUME NEW a, NEW b, NEW c, NEW X, NEW Y, NEW Z, Agree(a, b, X), Agree(b, c, Y), Z \subseteq X, Z \subseteq Y
  PROVE  Agree(a, c, Z)
BY DEF Agree

\* and an effect that reads where memories agree: they agree on what it writes.
LEMMA AgreeDone ==
  ASSUME NEW a, NEW b, NEW X, Agree(a, b, X), X \subseteq Cells, NEW e \in Effs, e.in \subseteq X, NEW v \in Nat
  PROVE  Agree(Done(a, e, v), Done(b, e, v), X \cup e.out)
<1>1. e.in \subseteq Cells /\ e.out \subseteq Cells /\ a \in Mems /\ b \in Mems
  BY DEF Effs, Agree
<1>2. PICK p, q : p = Done(a, e, v) /\ q = Done(b, e, v)
  OBVIOUS
<1>3. Written(p, a, e.in, e.out, v)
  BY <1>1, <1>2, DoneWrites
<1>4. Written(q, b, e.in, e.out, v)
  BY <1>1, <1>2, DoneWrites
<1>5. {a[y] : y \in e.in} = {b[y] : y \in e.in}
  BY DEF Agree
<1>6. ASSUME NEW x \in X \cup e.out PROVE p[x] = q[x]
  <2>1. x \in Cells /\ (x \notin e.out => a[x] = b[x])
    BY <1>1, <1>6 DEF Agree
  <2> QED
    BY <1>3, <1>4, <1>5, <2>1 DEF Written
<1> QED
  BY <1>2, <1>3, <1>4, <1>6 DEF Agree, Written

\* An effect changes what it writes.
LEMMA AgreeBefore ==
  ASSUME NEW m \in Mems, NEW e \in Effs, NEW v \in Nat
  PROVE  Agree(Done(m, e, v), m, Cells \ e.out)
<1>1. e.in \subseteq Cells
  BY DEF Effs
<1>2. PICK p : p = Done(m, e, v)
  OBVIOUS
<1>3. Written(p, m, e.in, e.out, v)
  BY <1>1, <1>2, DoneWrites
<1> QED
  BY <1>2, <1>3 DEF Agree, Written

\* An effect that does not read the first part of what it writes is two.
LEMMA SplitDone ==
  ASSUME NEW m \in Mems, NEW v \in Nat, NEW i \in SUBSET Cells, NEW o \in SUBSET Cells, NEW u \in SUBSET Cells,
         i \cap o = {},
         NEW e, e = [in |-> i, out |-> o \cup u], NEW f, f = [in |-> i, out |-> o],
         NEW g, g = [in |-> i, out |-> u]
  PROVE  Done(m, e, v) = Done(Done(m, f, v), g, v)
<1>1. PICK p, q, r : p = Done(m, e, v) /\ q = Done(m, f, v) /\ r = Done(q, g, v)
  OBVIOUS
<1>2. /\ e.in = i /\ f.in = i /\ g.in = i /\ e.out = o \cup u /\ f.out = o /\ g.out = u
  OBVIOUS
<1>3. Written(p, m, i, o \cup u, v)
  <2>1. Written(p, m, e.in, e.out, v)
    BY <1>1, <1>2, DoneWrites
  <2> QED
    BY <1>2, <2>1
<1>4. Written(q, m, i, o, v)
  <2>1. Written(q, m, f.in, f.out, v)
    BY <1>1, <1>2, DoneWrites
  <2> QED
    BY <1>2, <2>1
<1>5. Written(r, q, i, u, v)
  <2>1. q \in Mems
    BY <1>4 DEF Written
  <2>2. Written(r, q, g.in, g.out, v)
    BY <1>1, <1>2, <2>1, DoneWrites
  <2> QED
    BY <1>2, <2>2
<1>6. \A y \in i : q[y] = m[y]
  BY <1>4 DEF Written
<1>7. {q[y] : y \in i} = {m[y] : y \in i}
  BY <1>6
<1>8. \A x \in Cells : p[x] = r[x]
  BY <1>3, <1>4, <1>5, <1>7 DEF Written
<1>9. p = r
  BY <1>3, <1>5, <1>8 DEF Mems, Written
<1> QED
  BY <1>1, <1>9

\* An effect.
Eff(i, o) == [in |-> i, out |-> o]

\* Zeros into cells that the next effect writes and does not read are lost.
LEMMA ZerosLost ==
  ASSUME NEW m \in Mems, NEW v \in Nat, NEW i \in SUBSET Cells, NEW o \in SUBSET Cells, NEW u \in SUBSET Cells,
         i \cap o = {}, i \cap u = {}, NEW z \in Effs, z.out = u
  PROVE  Done(Done(m, z, v), Eff(i, o \cup u), v) = Done(Done(m, Eff(i, o), v), Eff(i, u), v)
<1>0. PICK e, f, g : e = Eff(i, o \cup u) /\ f = Eff(i, o) /\ g = Eff(i, u)
  OBVIOUS
<1>1. PICK p, q, X, n, w : p = Done(m, z, v) /\ q = Done(p, e, v) /\ X = Cells \ u /\ n = Done(m, e, v) /\ w = o \cup u
  OBVIOUS
<1>2. e \in Effs /\ e.in = i /\ e.out = w
  BY <1>0, <1>1 DEF Effs, Eff
<1>3. Agree(p, m, X)
  BY <1>1, <1>2, AgreeBefore
<1>4. X \subseteq Cells /\ e.in \subseteq X
  BY <1>1, <1>2
<1>5. Agree(q, n, X \cup w)
  BY <1>1, <1>2, <1>3, <1>4, AgreeDone
<1>6. q = n
  BY <1>1, <1>5, AgreeAll
<1>7. n = Done(Done(m, f, v), g, v)
  <2>1. e = [in |-> i, out |-> o \cup u] /\ f = [in |-> i, out |-> o] /\ g = [in |-> i, out |-> u]
    BY <1>0 DEF Eff
  <2> QED
    BY <1>1, <2>1, SplitDone
<1> QED
  BY <1>0, <1>1, <1>6, <1>7

\* The cells of a decode: it reads a and writes c[1] .. c[5].
NmsApart(a, c) ==
  /\ a \in SUBSET Cells /\ \A j \in 1 .. 5 : c[j] \in SUBSET Cells /\ a \cap c[j] = {}
  /\ \A i, j \in 1 .. 5 : i # j => c[i] \cap c[j] = {}

\* The zeros a decode starts with are lost, and its dispatches write what they
\* would if each had one output.
LEMMA NmsLost ==
  ASSUME NEW m \in Mems, NEW v \in Nat, NEW a, NEW c, NmsApart(a, c),
         NEW p, p = Done(Done(m, Eff({}, c[2]), v), Eff({}, c[5]), v),
         NEW q, q = Done(Done(p, Eff(a, c[1] \cup c[2]), v), Eff(c[1] \cup c[2], c[3]), v),
         NEW n, n = Done(Done(m, Eff(a, c[1]), v), Eff(a, c[2]), v)
  PROVE  Done(q, Eff(c[1] \cup c[2] \cup c[3], c[4] \cup c[5]), v) =
           Done(Done(Done(n, Eff(c[1] \cup c[2], c[3]), v), Eff(c[1] \cup c[2] \cup c[3], c[4]), v),
                Eff(c[1] \cup c[2] \cup c[3], c[5]), v)
<1>1. PICK z, y, b, d, e, f, g, h, i :
        /\ z = Eff({}, c[2]) /\ y = Eff({}, c[5]) /\ b = Eff(a, c[1] \cup c[2]) /\ d = Eff(c[1] \cup c[2], c[3])
        /\ e = Eff(c[1] \cup c[2] \cup c[3], c[4] \cup c[5]) /\ f = Eff(a, c[1]) /\ g = Eff(a, c[2])
        /\ h = Eff(c[1] \cup c[2] \cup c[3], c[4]) /\ i = Eff(c[1] \cup c[2] \cup c[3], c[5])
  OBVIOUS
<1>2. /\ a \in SUBSET Cells /\ c[1] \in SUBSET Cells /\ c[2] \in SUBSET Cells /\ c[3] \in SUBSET Cells
      /\ c[4] \in SUBSET Cells /\ c[5] \in SUBSET Cells /\ a \cap c[1] = {} /\ a \cap c[2] = {} /\ a \cap c[5] = {}
      /\ c[1] \cap c[4] = {} /\ c[2] \cap c[4] = {} /\ c[3] \cap c[4] = {}
      /\ c[1] \cap c[5] = {} /\ c[2] \cap c[5] = {} /\ c[3] \cap c[5] = {}
  BY DEF NmsApart
<1>3. /\ z \in Effs /\ y \in Effs /\ b \in Effs /\ d \in Effs /\ e \in Effs
      /\ z.out = c[2] /\ y.out = c[5] /\ b.in = a /\ b.out = c[1] \cup c[2]
      /\ d.in = c[1] \cup c[2] /\ d.out = c[3]
      /\ e.in = c[1] \cup c[2] \cup c[3] /\ e.out = c[4] \cup c[5]
  BY <1>1, <1>2 DEF Eff, Effs
<1>4. PICK s, u, w, X, Y, Z :
        /\ s = Done(m, z, v) /\ u = Done(p, b, v) /\ w = Done(n, d, v)
        /\ X = Cells \ c[2] /\ Y = Cells \ c[5] /\ Z = Cells \ (c[2] \cup c[5])
  OBVIOUS
<1>5. p = Done(s, y, v) /\ q = Done(u, d, v)
  BY <1>1, <1>4
<1>6. Agree(p, m, Z)
  <2>1. Agree(s, m, X)
    BY <1>3, <1>4, AgreeBefore
  <2>2. s \in Mems
    BY <2>1 DEF Agree
  <2>3. Agree(p, s, Y)
    BY <1>3, <1>4, <1>5, <2>2, AgreeBefore
  <2>4. Z \subseteq X /\ Z \subseteq Y
    BY <1>4
  <2> QED
    BY <2>1, <2>3, <2>4, AgreeTrans
<1>7. Done(m, b, v) = n
  <2>1. PICK o, t : o = c[1] /\ t = c[2]
    OBVIOUS
  <2>2. b = [in |-> a, out |-> o \cup t] /\ f = [in |-> a, out |-> o] /\ g = [in |-> a, out |-> t]
    BY <1>1, <2>1 DEF Eff
  <2>3. a \in SUBSET Cells /\ o \in SUBSET Cells /\ t \in SUBSET Cells /\ a \cap o = {}
    BY <1>2, <2>1
  <2>4. Done(m, b, v) = Done(Done(m, f, v), g, v)
    BY <2>2, <2>3, SplitDone
  <2> QED
    BY <1>1, <2>4
<1>8. Agree(u, n, Y)
  <2>1. Z \subseteq Cells /\ b.in \subseteq Z
    BY <1>2, <1>3, <1>4
  <2>2. Agree(u, Done(m, b, v), Z \cup b.out)
    BY <1>3, <1>4, <1>6, <2>1, AgreeDone
  <2>3. Y \subseteq Z \cup b.out
    BY <1>3, <1>4
  <2> QED
    BY <1>7, <2>2, <2>3, AgreeLess
<1>9. Agree(q, w, Y)
  <2>1. Y \subseteq Cells /\ d.in \subseteq Y
    BY <1>2, <1>3, <1>4
  <2>2. Agree(q, w, Y \cup d.out)
    BY <1>3, <1>4, <1>5, <1>8, <2>1, AgreeDone
  <2> QED
    BY <2>2, AgreeLess
<1>10. Done(q, e, v) = Done(w, e, v)
  <2>1. Y \subseteq Cells /\ e.in \subseteq Y
    BY <1>2, <1>3, <1>4
  <2>2. Agree(Done(q, e, v), Done(w, e, v), Y \cup e.out)
    BY <1>3, <1>9, <2>1, AgreeDone
  <2>3. Cells \subseteq Y \cup e.out
    BY <1>3, <1>4
  <2> QED
    BY <2>2, <2>3, AgreeAll
<1>11. Done(w, e, v) = Done(Done(w, h, v), i, v)
  <2>1. PICK o, t, k : o = c[4] /\ t = c[5] /\ k = c[1] \cup c[2] \cup c[3]
    OBVIOUS
  <2>2. e = [in |-> k, out |-> o \cup t] /\ h = [in |-> k, out |-> o] /\ i = [in |-> k, out |-> t]
    BY <1>1, <2>1 DEF Eff
  <2>3. k \in SUBSET Cells /\ o \in SUBSET Cells /\ t \in SUBSET Cells /\ k \cap o = {}
    BY <1>2, <2>1
  <2>4. w \in Mems
    BY <1>9 DEF Agree
  <2> QED
    BY <2>2, <2>3, <2>4, SplitDone
<1> QED
  BY <1>1, <1>4, <1>10, <1>11

\* Effects with the same meaning.
Alike(d, e) == \A m, v : m \in Mems /\ v \in Nat => Meaning(m, d, v) = Meaning(m, e, v)

\* What a list says may be said otherwise.
LEMMA SaysAs ==
  ASSUME NEW k \in Nat, NEW cmds, NEW d, Says(cmds, d, k), NEW e \in Seq(Effs), Alike(d, e)
  PROVE  Says(cmds, e, k)
<1>1. ASSUME NEW m, NEW by, m \in Machine(Resources, Cells), by \in Nat
      PROVE  Ran(m, cmds, by).mem = Meaning(m.mem, e, Stamp(k, by))
  <2>1. m.mem \in Mems
    BY <1>1 DEF Machine, Mems
  <2>2. Stamp(k, by) \in Nat
    BY <1>1 DEF Stamp
  <2>3. Ran(m, cmds, by).mem = Meaning(m.mem, d, Stamp(k, by))
    BY <1>1 DEF Says, Wrote
  <2>4. Meaning(m.mem, d, Stamp(k, by)) = Meaning(m.mem, e, Stamp(k, by))
    BY <2>1, <2>2 DEF Alike
  <2> QED
    BY <2>3, <2>4
<1> QED
  BY <1>1 DEF Says, Wrote

\* One effect more.
LEMMA MeaningThen ==
  ASSUME NEW d \in Seq(Effs), NEW e \in Effs, NEW m, NEW v
  PROVE  Meaning(m, d \o <<e>>, v) = Done(Meaning(m, d, v), e, v)
<1>1. PICK s : s = <<e>>
  OBVIOUS
<1>2. s \in Seq(Effs)
  BY <1>1
<1>3. Meaning(m, d \o s, v) = Meaning(Meaning(m, d, v), s, v)
  BY <1>2, MeaningConcat
<1>4. Meaning(Meaning(m, d, v), s, v) = Done(Meaning(m, d, v), e, v)
  BY <1>1, MeaningOne
<1> QED
  BY <1>1, <1>3, <1>4

\* The list of it.
LEMMA OneEffMore ==
  ASSUME NEW d, d \in Seq(Effs), NEW e, e \in Effs, NEW t, t = d \o <<e>>
  PROVE  t \in Seq(Effs)
<1>1. PICK s : s = <<e>>
  OBVIOUS
<1>2. s \in Seq(Effs)
  BY <1>1
<1> QED
  BY <1>1, <1>2, ConcatProperties

------------------------------------------------------------------------------
(* Decodes                                                                    *)

\* Handles of two resources have no cell in common.
LEMMA CellsApart ==
  ASSUME BufOk, NEW g \in Known, NEW h \in Known, Res(g) # Res(h)
  PROVE  Elements(g) \cap Elements(h) = {}
BY CellSpace DEF ResourcesOf

\* What the zeros and the first dispatch of a decode say,
LEMMA DecodeSays ==
  ASSUME BufOk, NEW k \in Nat, NEW r, NEW d, Saying(r, d, k), NEW n \in Nat, NEW zs \in Seq(Known),
         NEW e, Says(ZeroFills(k, n, zs), e, k), NEW xs \in Seq(Known), NEW ys \in Seq(Known),
         NEW in \in SUBSET Cells, NEW out \in SUBSET Cells,
         NEW q, q = Add(EnterAll(EnterAll(ZeroCounters(r, k, n, zs), xs, "SRV"), ys, "UAV"), Run(k, in, out))
  PROVE  Saying(q, (d \o e) \o <<Eff(in, out)>>, k)
<1>1. PICK z, u, v, s, t, f : /\ s = "SRV" /\ t = "UAV" /\ z = ZeroCounters(r, k, n, zs) /\ u = EnterAll(z, xs, s)
                              /\ v = EnterAll(u, ys, t) /\ f = Eff(in, out)
  OBVIOUS
<1>2. s \in States /\ t \in States
  BY <1>1 DEF States
<1>3. Saying(z, d \o e, k)
  BY <1>1, SayZeros
<1>4. Saying(u, d \o e, k)
  BY <1>1, <1>2, <1>3, SayEnter
<1>5. Saying(v, d \o e, k)
  BY <1>1, <1>2, <1>4, SayEnter
<1>6. q = Add(v, Run(k, in, out)) /\ f = [in |-> in, out |-> out]
  BY <1>1 DEF Eff
<1>7. Saying(q, (d \o e) \o <<f>>, k)
  BY <1>5, <1>6, SayRun
<1> QED
  BY <1>1, <1>7

\* and what the suppression says.
LEMMA NmsSays ==
  ASSUME BufOk, NEW k \in Nat, NEW r, NEW d, Saying(r, d, k), NEW c \in Seq(Known), Len(c) = 5,
         NEW i1 \in SUBSET Cells, NEW o1 \in SUBSET Cells, NEW i2 \in SUBSET Cells, NEW o2 \in SUBSET Cells,
         NEW q, q = NmsOver(r, k, c, i1, o1, i2, o2)
  PROVE  Saying(q, (d \o <<Eff(i1, o1)>>) \o <<Eff(i2, o2)>>, k)
<1>1. PICK c1, c2, c3, c4, c5, s, t : /\ c1 = c[1] /\ c2 = c[2] /\ c3 = c[3] /\ c4 = c[4] /\ c5 = c[5]
                                      /\ s = "SRV" /\ t = "UAV"
  OBVIOUS
<1>2. c1 \in Known /\ c2 \in Known /\ c3 \in Known /\ c4 \in Known /\ c5 \in Known /\ s \in States /\ t \in States
  <2>1. DOMAIN c = 1 .. 5 /\ \A i \in 1 .. 5 : c[i] \in Known
    BY ElementOfSeq, LenProperties
  <2> QED
    BY <1>1, <2>1 DEF States
<1>3. Res(c1) \in Resources /\ Res(c2) \in Resources /\ Res(c3) \in Resources
  BY <1>2, CellSpace
<1>4. PICK u, v, w, back : u = <<c1, c2>> /\ v = <<c3>> /\ w = <<c4, c5>> /\ back = Reverse(c)
  OBVIOUS
<1>5. u \in Seq(Known) /\ v \in Seq(Known) /\ w \in Seq(Known) /\ back \in Seq(Known)
  BY <1>2, <1>4, ReverseIs
<1>6. PICK s0 : s0 = Add(r, UavBarrier(Res(c1)))
  OBVIOUS
<1>7. PICK s1 : s1 = Add(s0, UavBarrier(Res(c2)))
  OBVIOUS
<1>8. PICK t1 : t1 = EnterAll(s1, u, s)
  OBVIOUS
<1>9. PICK s2 : s2 = EnterAll(t1, v, t)
  OBVIOUS
<1>10. PICK s3 : s3 = Add(s2, Run(k, i1, o1))
  OBVIOUS
<1>11. PICK t3 : t3 = Add(s3, UavBarrier(Res(c3)))
  OBVIOUS
<1>12. PICK t4 : t4 = EnterAll(t3, v, s)
  OBVIOUS
<1>13. PICK s4 : s4 = EnterAll(t4, w, t)
  OBVIOUS
<1>14. PICK s5 : s5 = Add(s4, Run(k, i2, o2))
  OBVIOUS
<1>15. q = Restore(s5, back, Resting)
  BY <1>1, <1>4, <1>6, <1>7, <1>8, <1>9, <1>10, <1>11, <1>12, <1>13, <1>14 DEF NmsOver
<1>16. PICK f, g, df, dfg : f = Eff(i1, o1) /\ g = Eff(i2, o2) /\ df = d \o <<f>> /\ dfg = df \o <<g>>
  OBVIOUS
<1>17. Saying(s0, d, k)
  BY <1>3, <1>6, SayUav
<1>18. Saying(s1, d, k)
  BY <1>3, <1>7, <1>17, SayUav
<1>19. Saying(t1, d, k)
  BY <1>2, <1>5, <1>8, <1>18, SayEnter
<1>20. Saying(s2, d, k)
  BY <1>2, <1>5, <1>9, <1>19, SayEnter
<1>21. Saying(s3, df, k)
  BY <1>10, <1>16, <1>20, SayRun DEF Eff
<1>22. Saying(t3, df, k)
  BY <1>3, <1>11, <1>21, SayUav
<1>23. Saying(t4, df, k)
  BY <1>2, <1>5, <1>12, <1>22, SayEnter
<1>24. Saying(s4, df, k)
  BY <1>2, <1>5, <1>13, <1>23, SayEnter
<1>25. Saying(s5, dfg, k)
  BY <1>14, <1>16, <1>24, SayRun DEF Eff
<1>26. Saying(q, dfg, k)
  BY <1>5, <1>15, <1>25, SayRestore
<1> QED
  BY <1>16, <1>26

\* The descriptors of a handle start where the handle starts.
AtFirst(h) == FromStart(h) = Elements(h)

\* decode_filter says what is meant.
LEMMA DecodeFilterSays ==
  ASSUME BufOk, NEW k \in Nat, NEW r, Saying(r, <<>>, k), r.st = Resting, NEW n \in Nat,
         NEW a \in Seq(Known), Len(a) = 3, Distinct(a), \A i \in 1 .. 3 : AtFirst(a[i]),
         NEW q, q = DecodeFilter(r, k, n, a)
  PROVE  Says(q.cmds, Meant("decode_filter", a), k)
<1>1. PICK x, y, z, zs, xs, ys, back, none :
        /\ x = a[1] /\ y = a[2] /\ z = a[3] /\ zs = <<z>> /\ xs = <<x>> /\ ys = <<y, z>> /\ back = <<z, y, x>>
        /\ none = <<>>
  OBVIOUS
<1>2. /\ x \in Known /\ y \in Known /\ z \in Known /\ Res(x) # Res(y) /\ Res(x) # Res(z) /\ Res(y) # Res(z)
      /\ AtFirst(x) /\ AtFirst(y) /\ AtFirst(z)
  <2>1. DOMAIN a = 1 .. 3 /\ \A i \in 1 .. 3 : a[i] \in Known
    BY ElementOfSeq, LenProperties
  <2> QED
    BY <1>1, <2>1 DEF Distinct
<1>3. zs \in Seq(Known) /\ xs \in Seq(Known) /\ ys \in Seq(Known) /\ back \in Seq(Known)
  BY <1>1, <1>2
<1>4. PICK i, o, u : i = Elements(x) /\ o = Elements(y) /\ u = Elements(z)
  OBVIOUS
<1>5. i \in SUBSET Cells /\ o \in SUBSET Cells /\ u \in SUBSET Cells /\ i \cap o = {} /\ i \cap u = {}
  BY <1>2, <1>4, CellSpace, CellsApart
<1>6. PICK ze, ee, fe, ge : ze = Eff({}, u) /\ ee = Eff(i, o \cup u) /\ fe = Eff(i, o) /\ ge = Eff(i, u)
  OBVIOUS
<1>7. ze \in Effs /\ ee \in Effs /\ fe \in Effs /\ ge \in Effs
  BY <1>5, <1>6 DEF Eff, Effs
<1>8. Says(ZeroFills(k, n, zs), <<ze>>, k)
  <2>1. ze = Zeros(z)
    BY <1>2, <1>4, <1>6 DEF Zeros, Eff, AtFirst
  <2> QED
    BY <1>1, <1>2, <2>1, ZerosSay
<1>9. PICK d : d = Add(EnterAll(EnterAll(ZeroCounters(r, k, n, zs), xs, "SRV"), ys, "UAV"), Run(k, i, o \cup u))
  OBVIOUS
<1>10. PICK out, s1, s2 : out = o \cup u /\ s1 = none \o <<ze>> /\ s2 = s1 \o <<ee>>
  OBVIOUS
<1>11. Saying(d, s2, k)
  <2>1. Saying(r, none, k) /\ out \in SUBSET Cells
    BY <1>1, <1>5, <1>10
  <2>2. PICK e : e = <<ze>>
    OBVIOUS
  <2>3. Says(ZeroFills(k, n, zs), e, k)
    BY <1>8, <2>2
  <2>4. d = Add(EnterAll(EnterAll(ZeroCounters(r, k, n, zs), xs, "SRV"), ys, "UAV"), Run(k, i, out))
    BY <1>9, <1>10
  <2>5. Saying(d, (none \o e) \o <<Eff(i, out)>>, k)
    BY ONLY BufOk, k \in Nat, n \in Nat, <1>3, <1>5, <2>1, <2>3, <2>4, DecodeSays
  <2> QED
    BY <1>6, <1>10, <2>2, <2>5
<1>12. q = Restore(d, back, Resting)
  BY <1>1, <1>2, <1>4, <1>9 DEF DecodeFilter, AtFirst
<1>13. Says(q.cmds, s2, k)
  BY <1>3, <1>11, <1>12, SayRestore DEF Saying
<1>14. PICK t : t = <<fe>> \o <<ge>>
  OBVIOUS
<1>15. Meant("decode_filter", a) = t
  <2>1. UNION {Elements(h) : h \in {x}} = i
    BY <1>4
  <2>2. Effect({x}, y) = fe /\ Effect({x}, z) = ge
    BY <1>4, <1>6, <2>1 DEF Effect, Eff
  <2>3. Meant("decode_filter", a) = <<fe, ge>>
    BY <1>1, <2>2 DEF Meant
  <2> QED
    BY <1>14, <2>3, Pair
<1>16. Alike(s2, t) /\ t \in Seq(Effs)
  <2>1. PICK f0 : f0 = <<fe>>
    OBVIOUS
  <2>2. f0 \in Seq(Effs) /\ t = f0 \o <<ge>>
    BY <1>7, <1>14, <2>1
  <2>3. none \in Seq(Effs)
    BY <1>1
  <2>4. s1 \in Seq(Effs)
    BY <1>7, <1>10, <2>3, OneEffMore
  <2>5. ASSUME NEW m \in Mems, NEW v \in Nat PROVE Meaning(m, s2, v) = Meaning(m, t, v)
    <3>1. Meaning(m, s1, v) = Done(m, ze, v)
      <4>1. Meaning(m, s1, v) = Done(Meaning(m, none, v), ze, v)
        BY ONLY <1>7, <1>10, <2>3, MeaningThen
      <4> QED
        BY <1>1, <4>1, MeaningNone
    <3>2. Meaning(m, s2, v) = Done(Done(m, ze, v), ee, v)
      <4>1. Meaning(m, s2, v) = Done(Meaning(m, s1, v), ee, v)
        <5>1. ee \in Effs /\ s2 = s1 \o <<ee>>
          BY <1>7, <1>10
        <5> QED
          BY ONLY <2>4, <5>1, MeaningThen
      <4> QED
        BY <3>1, <4>1
    <3>3. Meaning(m, t, v) = Done(Done(m, fe, v), ge, v)
      <4>1. Meaning(m, t, v) = Done(Meaning(m, f0, v), ge, v)
        BY ONLY <1>7, <2>2, MeaningThen
      <4> QED
        BY <2>1, <4>1, MeaningOne
    <3>4. ze.out = u
      BY <1>6 DEF Eff
    <3>5. Done(Done(m, ze, v), ee, v) = Done(Done(m, fe, v), ge, v)
      BY <1>5, <1>6, <1>7, <3>4, ZerosLost
    <3> QED
      BY <3>2, <3>3, <3>5
  <2>6. t \in Seq(Effs)
    BY <1>7, <2>2, OneEffMore
  <2> QED
    BY <2>5, <2>6 DEF Alike
<1> QED
  BY <1>13, <1>15, <1>16, SaysAs

\* Two effects,
LEMMA MeaningTwo ==
  ASSUME NEW a \in Effs, NEW b \in Effs, NEW m, NEW v
  PROVE  Meaning(m, <<a>> \o <<b>>, v) = Done(Done(m, a, v), b, v)
<1>1. PICK s : s = <<a>>
  OBVIOUS
<1>2. s \in Seq(Effs)
  BY <1>1
<1>3. Meaning(m, s \o <<b>>, v) = Done(Meaning(m, s, v), b, v)
  BY <1>2, MeaningThen
<1> QED
  BY <1>1, <1>3, MeaningOne

\* and three.
LEMMA MeaningThree ==
  ASSUME NEW a \in Effs, NEW b \in Effs, NEW c \in Effs, NEW m, NEW v
  PROVE  Meaning(m, <<a>> \o <<b>> \o <<c>>, v) = Done(Done(Done(m, a, v), b, v), c, v)
<1>1. PICK s, t : s = <<a>> /\ t = s \o <<b>>
  OBVIOUS
<1>2. s \in Seq(Effs)
  BY <1>1
<1>3. t \in Seq(Effs)
  BY <1>1, <1>2, OneEffMore
<1>4. Meaning(m, t \o <<c>>, v) = Done(Meaning(m, t, v), c, v)
  BY <1>3, MeaningThen
<1>5. Meaning(m, t, v) = Done(Done(m, a, v), b, v)
  <2>1. Meaning(m, <<a>> \o <<b>>, v) = Done(Done(m, a, v), b, v)
    BY MeaningTwo
  <2> QED
    BY <1>1, <2>1
<1> QED
  BY <1>1, <1>4, <1>5

\* What a decode does: zeros, decode, mark, compact.
NmsActs(a, c) ==
  LET z == <<>> \o (<<Eff({}, c[2])>> \o <<Eff({}, c[5])>>)
      d == z \o <<Eff(a, c[1] \cup c[2])>>
  IN  (d \o <<Eff(c[1] \cup c[2], c[3])>>) \o <<Eff(c[1] \cup c[2] \cup c[3], c[4] \cup c[5])>>

\* What is meant by it.
NmsMeant(a, c) ==
  <<Eff(a, c[1]), Eff(a, c[2])>> \o
  <<Eff(c[1] \cup c[2], c[3]), Eff(c[1] \cup c[2] \cup c[3], c[4]), Eff(c[1] \cup c[2] \cup c[3], c[5])>>

\* It comes to the same.
LEMMA NmsAlike ==
  ASSUME NEW a, NEW c, NmsApart(a, c)
  PROVE  NmsMeant(a, c) \in Seq(Effs) /\ Alike(NmsActs(a, c), NmsMeant(a, c))
<1>1. PICK z, y, b, d, e, f, g, h, i :
        /\ z = Eff({}, c[2]) /\ y = Eff({}, c[5]) /\ b = Eff(a, c[1] \cup c[2]) /\ d = Eff(c[1] \cup c[2], c[3])
        /\ e = Eff(c[1] \cup c[2] \cup c[3], c[4] \cup c[5]) /\ f = Eff(a, c[1]) /\ g = Eff(a, c[2])
        /\ h = Eff(c[1] \cup c[2] \cup c[3], c[4]) /\ i = Eff(c[1] \cup c[2] \cup c[3], c[5])
  OBVIOUS
<1>2. z \in Effs /\ y \in Effs /\ b \in Effs /\ d \in Effs /\ e \in Effs /\ f \in Effs /\ g \in Effs /\ h \in Effs /\ i \in Effs
  BY <1>1 DEF NmsApart, Eff, Effs
<1>3. PICK s0, s1, s2, s3, s4, none :
        /\ none = <<>> /\ s0 = <<z>> \o <<y>> /\ s1 = none \o s0 /\ s2 = s1 \o <<b>> /\ s3 = s2 \o <<d>> /\ s4 = s3 \o <<e>>
  OBVIOUS
<1>4. NmsActs(a, c) = s4
  BY <1>1, <1>3 DEF NmsActs
<1>5. s0 \in Seq(Effs) /\ none \in Seq(Effs)
  <2>1. PICK o : o = <<z>>
    OBVIOUS
  <2>2. o \in Seq(Effs)
    BY <1>2, <2>1
  <2>3. s0 \in Seq(Effs)
    BY <1>2, <1>3, <2>1, <2>2, OneEffMore
  <2> QED
    BY <1>3, <2>3
<1>6. s1 \in Seq(Effs)
  BY <1>3, <1>5, ConcatProperties
<1>7. s2 \in Seq(Effs)
  BY <1>2, <1>3, <1>6, OneEffMore
<1>8. s3 \in Seq(Effs)
  BY <1>2, <1>3, <1>7, OneEffMore
<1>9. PICK t, u : t = <<f>> \o <<g>> /\ u = <<d>> \o <<h>> \o <<i>>
  OBVIOUS
<1>10. NmsMeant(a, c) = t \o u
  <2>1. <<f, g>> = t /\ <<d, h, i>> = u
    BY <1>9, Pair, Three
  <2> QED
    BY <1>1, <2>1 DEF NmsMeant
<1>11. t \in Seq(Effs) /\ u \in Seq(Effs)
  <2>1. PICK o, p, q : o = <<f>> /\ p = <<d>> /\ q = p \o <<h>>
    OBVIOUS
  <2>2. o \in Seq(Effs) /\ p \in Seq(Effs)
    BY <1>2, <2>1
  <2>3. q \in Seq(Effs)
    BY <1>2, <2>1, <2>2, OneEffMore
  <2>4. t = o \o <<g>> /\ u = q \o <<i>>
    BY <1>9, <2>1
  <2> QED
    BY <1>2, <2>2, <2>3, <2>4, OneEffMore
<1>12. ASSUME NEW m \in Mems, NEW v \in Nat PROVE Meaning(m, s4, v) = Meaning(m, t \o u, v)
  <2>1. PICK p, q, n, w : /\ p = Done(Done(m, z, v), y, v) /\ q = Done(Done(p, b, v), d, v)
                          /\ n = Done(Done(m, f, v), g, v) /\ w = Done(Done(Done(n, d, v), h, v), i, v)
    OBVIOUS
  <2>2. Meaning(m, s1, v) = p
    <3>1. Meaning(m, s1, v) = Meaning(Meaning(m, none, v), s0, v)
      <4>1. Meaning(m, none \o s0, v) = Meaning(Meaning(m, none, v), s0, v)
        BY ONLY <1>5, MeaningConcat
      <4> QED
        BY <1>3, <4>1
    <3>2. Meaning(m, s0, v) = p
      <4>1. Meaning(m, <<z>> \o <<y>>, v) = Done(Done(m, z, v), y, v)
        BY ONLY <1>2, MeaningTwo
      <4> QED
        BY <1>3, <2>1, <4>1
    <3> QED
      BY <1>3, <3>1, <3>2, MeaningNone
  <2>3. Meaning(m, s2, v) = Done(p, b, v)
    <3>1. Meaning(m, s1 \o <<b>>, v) = Done(Meaning(m, s1, v), b, v)
      BY ONLY <1>2, <1>6, MeaningThen
    <3> QED
      BY <1>3, <2>2, <3>1
  <2>4. Meaning(m, s3, v) = q
    <3>1. Meaning(m, s2 \o <<d>>, v) = Done(Meaning(m, s2, v), d, v)
      BY ONLY <1>2, <1>7, MeaningThen
    <3> QED
      BY <1>3, <2>1, <2>3, <3>1
  <2>5. Meaning(m, s4, v) = Done(q, e, v)
    <3>1. Meaning(m, s3 \o <<e>>, v) = Done(Meaning(m, s3, v), e, v)
      BY ONLY <1>2, <1>8, MeaningThen
    <3> QED
      BY <1>3, <2>4, <3>1
  <2>6. Meaning(m, t \o u, v) = w
    <3>1. Meaning(m, t \o u, v) = Meaning(Meaning(m, t, v), u, v)
      BY <1>11, MeaningConcat
    <3>2. Meaning(m, t, v) = n
      <4>1. Meaning(m, <<f>> \o <<g>>, v) = Done(Done(m, f, v), g, v)
        BY ONLY <1>2, MeaningTwo
      <4> QED
        BY <1>9, <2>1, <4>1
    <3>3. Meaning(n, u, v) = w
      <4>1. Meaning(n, <<d>> \o <<h>> \o <<i>>, v) = Done(Done(Done(n, d, v), h, v), i, v)
        BY ONLY <1>2, MeaningThree
      <4> QED
        BY <1>9, <2>1, <4>1
    <3> QED
      BY <3>1, <3>2, <3>3
  <2>7. Done(q, e, v) = w
    BY <1>1, <2>1, NmsLost
  <2> QED
    BY <2>5, <2>6, <2>7
<1>13. t \o u \in Seq(Effs)
  BY <1>11, ConcatProperties
<1> QED
  BY <1>4, <1>10, <1>12, <1>13 DEF Alike

\* The cells of the five buffers of a decode.
FiveOf(c) == [j \in 1 .. 5 |-> Elements(c[j])]

\* From the decode to the end: the suppression and the handles back in COMMON.
LEMMA SuppressionSays ==
  ASSUME BufOk, NEW k \in Nat, NEW c \in Seq(Known), Len(c) = 5, Distinct(c), NEW A \in SUBSET Cells,
         \A j \in 1 .. 5 : A \cap Elements(c[j]) = {}, NEW C, C = FiveOf(c),
         NEW d, Saying(d, (<<>> \o (<<Eff({}, C[2])>> \o <<Eff({}, C[5])>>)) \o <<Eff(A, C[1] \cup C[2])>>, k),
         NEW q, q = NmsOver(d, k, c, C[1] \cup C[2], C[3], C[1] \cup C[2] \cup C[3], C[4] \cup C[5]),
         NEW hs \in Seq(Known), NEW e, e = Restore(q, hs, Resting)
  PROVE  Says(e.cmds, NmsMeant(A, C), k)
<1>1. DOMAIN c = 1 .. 5 /\ (\A j \in 1 .. 5 : c[j] \in Known) /\ \A j \in 1 .. 5 : C[j] = Elements(c[j])
  <2>1. DOMAIN c = 1 .. 5
    BY LenProperties
  <2>2. \A j \in 1 .. 5 : c[j] \in Known
    BY ElementOfSeq
  <2> QED
    BY <2>1, <2>2 DEF FiveOf
<1>2. NmsApart(A, C)
  <2>1. \A j \in 1 .. 5 : C[j] \in SUBSET Cells /\ A \cap C[j] = {}
    BY <1>1, CellSpace
  <2>2. ASSUME NEW i \in 1 .. 5, NEW j \in 1 .. 5, i # j PROVE C[i] \cap C[j] = {}
    <3>1. PICK g, h : g = c[i] /\ h = c[j]
      OBVIOUS
    <3>2. g \in Known /\ h \in Known /\ Res(g) # Res(h)
      BY <1>1, <2>2, <3>1 DEF Distinct
    <3>3. Elements(g) \cap Elements(h) = {}
      BY <3>2, CellsApart
    <3> QED
      BY <1>1, <3>1, <3>3
  <2> QED
    BY <2>1, <2>2 DEF NmsApart
<1>3. PICK i1, o1, i2, o2, s : /\ i1 = C[1] \cup C[2] /\ o1 = C[3] /\ i2 = C[1] \cup C[2] \cup C[3] /\ o2 = C[4] \cup C[5]
                               /\ s = (<<>> \o (<<Eff({}, C[2])>> \o <<Eff({}, C[5])>>)) \o <<Eff(A, C[1] \cup C[2])>>
  OBVIOUS
<1>4. i1 \in SUBSET Cells /\ o1 \in SUBSET Cells /\ i2 \in SUBSET Cells /\ o2 \in SUBSET Cells
  BY <1>2, <1>3 DEF NmsApart
<1>5. Saying(d, s, k) /\ q = NmsOver(d, k, c, i1, o1, i2, o2)
  BY <1>3
<1>6. Saying(q, (s \o <<Eff(i1, o1)>>) \o <<Eff(i2, o2)>>, k)
  BY ONLY BufOk, k \in Nat, c \in Seq(Known), Len(c) = 5, <1>4, <1>5, NmsSays
<1>7. (s \o <<Eff(i1, o1)>>) \o <<Eff(i2, o2)>> = NmsActs(A, C)
  BY <1>3 DEF NmsActs
<1>8. PICK f : f = NmsActs(A, C)
  OBVIOUS
<1>9. Says(e.cmds, f, k)
  <2>1. Saying(q, f, k)
    BY <1>6, <1>7, <1>8
  <2> QED
    BY <2>1, SayRestore DEF Saying
<1>10. NmsMeant(A, C) \in Seq(Effs) /\ Alike(f, NmsMeant(A, C))
  BY <1>2, <1>8, NmsAlike
<1> QED
  BY <1>9, <1>10, SaysAs

\* Which is what a caller means by it.
LEMMA MeantAre ==
  ASSUME NEW in, NEW A, A = UNION {Elements(h) : h \in in}, NEW c, NEW C, C = FiveOf(c)
  PROVE  <<Effect(in, c[1]), Effect(in, c[2])>> \o NmsEffects(c) = NmsMeant(A, C)
<1>1. C[1] = Elements(c[1]) /\ C[2] = Elements(c[2]) /\ C[3] = Elements(c[3]) /\ C[4] = Elements(c[4]) /\ C[5] = Elements(c[5])
  BY DEF FiveOf
<1>2. Effect(in, c[1]) = Eff(A, C[1]) /\ Effect(in, c[2]) = Eff(A, C[2])
  BY <1>1 DEF Effect, Eff
<1>3. UNION {Elements(h) : h \in {c[1], c[2]}} = C[1] \cup C[2]
  BY <1>1
<1>4. UNION {Elements(h) : h \in {c[1], c[2], c[3]}} = C[1] \cup C[2] \cup C[3]
  BY <1>1
<1>5. /\ Effect({c[1], c[2]}, c[3]) = Eff(C[1] \cup C[2], C[3])
      /\ Effect({c[1], c[2], c[3]}, c[4]) = Eff(C[1] \cup C[2] \cup C[3], C[4])
      /\ Effect({c[1], c[2], c[3]}, c[5]) = Eff(C[1] \cup C[2] \cup C[3], C[5])
  BY <1>1, <1>3, <1>4 DEF Effect, Eff
<1> QED
  BY <1>2, <1>5 DEF NmsEffects, NmsMeant

\* decode_nms says what is meant.
LEMMA DecodeNmsSays ==
  ASSUME BufOk, NEW k \in Nat, NEW r, Saying(r, <<>>, k), r.st = Resting, NEW n \in Nat,
         NEW a \in Seq(Known), Len(a) = 6, Distinct(a), \A i \in 1 .. 6 : AtFirst(a[i]),
         NEW q, q = DecodeNms(r, k, n, a)
  PROVE  Says(q.cmds, Meant("decode_nms", a), k)
<1>1. PICK a1, a2, a3, a6, zs, xs, ys, none :
        /\ a1 = a[1] /\ a2 = a[2] /\ a3 = a[3] /\ a6 = a[6]
        /\ zs = <<a3, a6>> /\ xs = <<a1>> /\ ys = <<a2, a3>> /\ none = <<>>
  OBVIOUS
<1>2. DOMAIN a = 1 .. 6 /\ \A i \in 1 .. 6 : a[i] \in Known
  BY ElementOfSeq, LenProperties
<1>3. a1 \in Known /\ a2 \in Known /\ a3 \in Known /\ a6 \in Known /\ AtFirst(a1) /\ AtFirst(a2) /\ AtFirst(a3) /\ AtFirst(a6)
  BY <1>1, <1>2
<1>4. zs \in Seq(Known) /\ xs \in Seq(Known) /\ ys \in Seq(Known)
  BY <1>1, <1>3
<1>5. PICK c : c = Tail(a)
  OBVIOUS
<1>6. c \in Seq(Known) /\ Len(c) = 5 /\ DOMAIN c = 1 .. 5 /\ \A i \in 1 .. 5 : c[i] = a[i + 1] /\ c[i] \in Known
  <2>1. a # <<>>
    BY Operands
  <2>2. /\ Tail(a) \in Seq(Known) /\ Len(Tail(a)) = Len(a) - 1
        /\ \A i \in 1 .. Len(Tail(a)) : Tail(a)[i] = a[i + 1]
    BY <2>1, HeadTailProperties
  <2>3. c \in Seq(Known) /\ Len(c) = Len(a) - 1 /\ \A i \in 1 .. Len(c) : c[i] = a[i + 1]
    BY ONLY <1>5, <2>2
  <2>4. Len(c) = 5
    BY ONLY <2>3, Len(a) = 6
  <2>5. c \in Seq(Known) /\ DOMAIN c = 1 .. 5 /\ \A i \in 1 .. 5 : c[i] = a[i + 1]
    BY ONLY <2>3, <2>4, LenProperties
  <2> QED
    BY ONLY <1>2, <2>4, <2>5
<1>7. c[1] = a2 /\ c[2] = a3 /\ c[5] = a6 /\ \A i \in 1 .. 5 : AtFirst(c[i])
  BY <1>1, <1>6
<1>8. Distinct(c) /\ \A j \in 1 .. 5 : Res(a1) # Res(c[j])
  <2>1. ASSUME NEW i \in 1 .. 5, NEW j \in 1 .. 5, i # j PROVE Res(c[i]) # Res(c[j])
    <3>1. PICK u, v : u = i + 1 /\ v = j + 1
      OBVIOUS
    <3>2. u \in 1 .. 6 /\ v \in 1 .. 6 /\ u # v
      BY <2>1, <3>1
    <3>3. c[i] = a[u] /\ c[j] = a[v]
      BY <1>6, <3>1
    <3> QED
      BY <1>2, <3>2, <3>3 DEF Distinct
  <2>2. ASSUME NEW j \in 1 .. 5 PROVE Res(a1) # Res(c[j])
    <3>1. PICK u : u = j + 1
      OBVIOUS
    <3>2. u \in 1 .. 6 /\ u # 1
      BY <3>1
    <3>3. c[j] = a[u]
      BY <1>6, <3>1
    <3> QED
      BY <1>1, <1>2, <3>2, <3>3 DEF Distinct
  <2> QED
    BY <1>6, <2>1, <2>2 DEF Distinct
<1>9. PICK A, C : A = Elements(a1) /\ C = FiveOf(c)
  OBVIOUS
<1>10. C[1] = Elements(a2) /\ C[2] = Elements(a3) /\ C[3] = Elements(c[3]) /\ C[4] = Elements(c[4]) /\ C[5] = Elements(a6)
  BY <1>7, <1>9 DEF FiveOf
<1>11. A \in SUBSET Cells /\ \A j \in 1 .. 5 : A \cap Elements(c[j]) = {}
  <2>1. A \in SUBSET Cells
    BY <1>3, <1>9, CellSpace
  <2>2. ASSUME NEW j \in 1 .. 5 PROVE A \cap Elements(c[j]) = {}
    <3>1. PICK h : h = c[j]
      OBVIOUS
    <3>2. h \in Known /\ Res(a1) # Res(h)
      BY <1>6, <1>8, <3>1
    <3> QED
      BY <1>3, <1>9, <3>1, <3>2, CellsApart
  <2> QED
    BY <2>1, <2>2
<1>12. PICK out : out = C[1] \cup C[2]
  OBVIOUS
<1>13. out \in SUBSET Cells
  BY <1>3, <1>10, <1>12, CellSpace
<1>14. PICK d : d = Add(EnterAll(EnterAll(ZeroCounters(r, k, n, zs), xs, "SRV"), ys, "UAV"), Run(k, A, out))
  OBVIOUS
<1>15. PICK e : e = <<Eff({}, C[2])>> \o <<Eff({}, C[5])>>
  OBVIOUS
<1>16. Says(ZeroFills(k, n, zs), e, k)
  <2>1. Zeros(a3) = Eff({}, C[2]) /\ Zeros(a6) = Eff({}, C[5])
    BY <1>3, <1>10 DEF Zeros, Eff, AtFirst
  <2> QED
    BY <1>1, <1>3, <1>15, <2>1, ZerosSay
<1>17. Saying(d, (none \o e) \o <<Eff(A, out)>>, k)
  <2>1. Saying(r, none, k)
    BY <1>1
  <2> QED
    BY ONLY BufOk, k \in Nat, n \in Nat, <1>4, <1>11, <1>13, <1>14, <1>16, <2>1, DecodeSays
<1>18. Saying(d, (<<>> \o (<<Eff({}, C[2])>> \o <<Eff({}, C[5])>>)) \o <<Eff(A, C[1] \cup C[2])>>, k)
  BY <1>1, <1>12, <1>15, <1>17
<1>19. PICK f : f = NmsOver(d, k, c, C[1] \cup C[2], C[3], C[1] \cup C[2] \cup C[3], C[4] \cup C[5])
  OBVIOUS
<1>20. q = Restore(f, xs, Resting)
  <2>1. /\ FromStart(a1) = A /\ FromStart(a2) \cup FromStart(a3) = out
        /\ FromStart(c[1]) \cup FromStart(c[2]) = C[1] \cup C[2] /\ FromStart(c[3]) = C[3]
        /\ FromStart(c[4]) \cup FromStart(c[5]) = C[4] \cup C[5]
    BY <1>3, <1>7, <1>9, <1>10, <1>12 DEF AtFirst
  <2>2. UNION {FromStart(c[i]) : i \in {1, 2, 3}} = FromStart(c[1]) \cup FromStart(c[2]) \cup FromStart(c[3])
    OBVIOUS
  <2>3. UNION {FromStart(c[i]) : i \in {1, 2, 3}} = C[1] \cup C[2] \cup C[3]
    BY <1>3, <1>7, <1>10, <2>2 DEF AtFirst
  <2> QED
    BY <1>1, <1>5, <1>14, <1>19, <2>1, <2>3 DEF DecodeNms, NmsAndTopK, NmsOver
<1>21. Says(q.cmds, NmsMeant(A, C), k)
  BY ONLY BufOk, k \in Nat, <1>4, <1>6, <1>8, <1>9, <1>11, <1>18, <1>19, <1>20, SuppressionSays
<1>22. Meant("decode_nms", a) = NmsMeant(A, C)
  <2>1. PICK in : in = {a1}
    OBVIOUS
  <2>2. A = UNION {Elements(h) : h \in in}
    BY <1>9, <2>1
  <2>3. <<Effect(in, c[1]), Effect(in, c[2])>> \o NmsEffects(c) = NmsMeant(A, C)
    BY <1>9, <2>2, MeantAre
  <2>4. Meant("decode_nms", a) = <<Effect(in, a2), Effect(in, a3)>> \o NmsEffects(c)
    BY <1>1, <1>5, <2>1 DEF Meant
  <2> QED
    BY <1>7, <2>3, <2>4
<1> QED
  BY <1>21, <1>22

\* head_decode_nms says what is meant: the two counters are zeroed from the start of
\* their resources.
LEMMA HeadSays ==
  ASSUME BufOk, NEW k \in Nat, NEW r, Saying(r, <<>>, k), r.st = Resting, NEW n \in Nat,
         NEW a, NEW l, l = Len(a) - 5, NEW heads \in Seq(Known), heads = SubSeq(a, 1, l), Len(heads) = l, l \in Nat,
         \A i \in 1 .. l : heads[i] = a[i],
         NEW c \in Seq(Known), c = SubSeq(a, l + 1, l + 5), Len(c) = 5, \A i \in 1 .. 5 : c[i] = a[l + i],
         Distinct(c), Apart(Range(heads), Range(c)), AtFirst(c[2]), AtFirst(c[5]),
         NEW q, q = HeadDecodeNms(r, k, n, a)
  PROVE  Says(q.cmds, Meant("head_nms", a), k)
<1>1. DOMAIN c = 1 .. 5 /\ (\A i \in 1 .. 5 : c[i] \in Known) /\ \A i \in 1 .. 5 : c[i] \in Range(c)
  <2>1. DOMAIN c = 1 .. 5
    BY LenProperties
  <2>2. \A i \in 1 .. 5 : c[i] \in Known
    BY ElementOfSeq
  <2> QED
    BY <2>1, <2>2 DEF Range
<1>2. DOMAIN heads = 1 .. l /\ \A i \in 1 .. l : heads[i] \in Known /\ heads[i] \in Range(heads)
  <2>1. DOMAIN heads = 1 .. l
    BY LenProperties
  <2>2. \A i \in 1 .. l : heads[i] \in Known
    BY ElementOfSeq
  <2> QED
    BY <2>1, <2>2 DEF Range
<1>3. PICK once, none, I, A, C, s, t, zs, xs : /\ once = FirstOfHandle(heads) /\ none = <<>> /\ I = Range(heads)
         /\ A = UNION {Elements(h) : h \in I} /\ C = FiveOf(c) /\ s = "SRV" /\ t = "UAV"
         /\ zs = <<c[2], c[5]>> /\ xs = <<c[1], c[2]>>
  OBVIOUS
<1>4. once \in Seq(Known) /\ I \subseteq Known /\ s \in States /\ t \in States /\ zs \in Seq(Known) /\ xs \in Seq(Known)
  <2>1. once \in Seq(Known) /\ I \subseteq Known
    BY <1>3, FirstOfHandleIs, PoseFacts
  <2> QED
    BY <1>1, <1>3, <2>1 DEF States
<1>5. C[1] = Elements(c[1]) /\ C[2] = Elements(c[2]) /\ C[3] = Elements(c[3]) /\ C[4] = Elements(c[4]) /\ C[5] = Elements(c[5])
  BY <1>3 DEF FiveOf
<1>6. A \in SUBSET Cells /\ \A j \in 1 .. 5 : A \cap Elements(c[j]) = {}
  <2>1. A \in SUBSET Cells
    <3>1. A = UNION {Elements(h) : h \in I} /\ I \subseteq Known
      BY <1>3, <1>4
    <3> QED
      BY ONLY BufOk, <3>1, HandleCells
  <2>2. ASSUME NEW j \in 1 .. 5, NEW x \in A, x \in Elements(c[j]) PROVE FALSE
    <3>1. PICK h \in I : x \in Elements(h)
      BY <1>3, <2>2
    <3>2. PICK g : g = c[j]
      OBVIOUS
    <3>3. g \in Known /\ h \in Known /\ Res(h) # Res(g)
      BY <1>1, <1>3, <1>4, <3>2 DEF Apart
    <3>4. Elements(h) \cap Elements(g) = {}
      BY <3>3, CellsApart
    <3> QED
      BY <2>2, <3>1, <3>2, <3>4
  <2> QED
    BY <2>1, <2>2
<1>7. PICK b, z, v, out, d, e :
        /\ b = EnterAll(r, once, s) /\ z = ZeroCounters(b, k, n, zs) /\ v = EnterAll(z, xs, t)
        /\ out = C[1] \cup C[2] /\ d = Add(v, Run(k, A, out)) /\ e = <<Eff({}, C[2])>> \o <<Eff({}, C[5])>>
  OBVIOUS
<1>8. out \in SUBSET Cells
  BY <1>1, <1>5, <1>7, CellSpace
<1>9. Says(ZeroFills(k, n, zs), e, k)
  <2>1. PICK g, h : g = c[2] /\ h = c[5]
    OBVIOUS
  <2>2. g \in Known /\ h \in Known /\ AtFirst(g) /\ AtFirst(h)
    BY <1>1, <2>1
  <2>3. Zeros(g) = Eff({}, C[2]) /\ Zeros(h) = Eff({}, C[5])
    BY <1>5, <2>1, <2>2 DEF Zeros, Eff, AtFirst
  <2>4. Says(ZeroFills(k, n, <<g, h>>), <<Zeros(g)>> \o <<Zeros(h)>>, k)
    BY <2>2, ZerosSay
  <2> QED
    BY <1>3, <1>7, <2>1, <2>3, <2>4
<1>10. Saying(d, (none \o e) \o <<Eff(A, out)>>, k)
  <2>1. Saying(b, none, k)
    BY <1>3, <1>4, <1>7, SayEnter
  <2>2. PICK u, f : u = none \o e /\ f = Eff(A, out)
    OBVIOUS
  <2>3. Saying(z, u, k)
    BY <1>4, <1>7, <1>9, <2>1, <2>2, SayZeros
  <2>4. Saying(v, u, k)
    BY <1>4, <1>7, <2>3, SayEnter
  <2>5. f = [in |-> A, out |-> out]
    BY <2>2 DEF Eff
  <2>6. Saying(d, u \o <<f>>, k)
    BY <1>6, <1>7, <1>8, <2>4, <2>5, SayRun
  <2> QED
    BY <2>2, <2>6
<1>11. Saying(d, (<<>> \o (<<Eff({}, C[2])>> \o <<Eff({}, C[5])>>)) \o <<Eff(A, C[1] \cup C[2])>>, k)
  BY <1>3, <1>7, <1>10
<1>12. PICK in, i1, o1, i2, o2 :
         /\ in = UNION {Elements(heads[i]) : i \in 1 .. l}
         /\ i1 = Elements(c[1]) \cup Elements(c[2]) /\ o1 = Elements(c[3])
         /\ i2 = UNION {Elements(c[i]) : i \in {1, 2, 3}} /\ o2 = Elements(c[4]) \cup Elements(c[5])
  OBVIOUS
<1>13. in = A
  <2>1. (\A h \in I : \E i \in 1 .. l : h = heads[i]) /\ \A i \in 1 .. l : heads[i] \in I
    BY <1>2, <1>3 DEF Range
  <2>2. ASSUME NEW x \in in PROVE x \in A
    <3>1. PICK i \in 1 .. l : x \in Elements(heads[i])
      BY <1>12, <2>2
    <3> QED
      BY <1>3, <2>1, <3>1
  <2>3. ASSUME NEW x \in A PROVE x \in in
    <3>1. PICK h \in I : x \in Elements(h)
      BY <1>3, <2>3
    <3>2. PICK i \in 1 .. l : h = heads[i]
      BY <2>1
    <3>3. x \in Elements(heads[i])
      BY <3>1, <3>2
    <3> QED
      BY <1>12, <3>3
  <2> QED
    BY <2>2, <2>3
<1>14. PICK f : f = NmsOver(d, k, c, i1, o1, i2, o2)
  OBVIOUS
<1>15. q = Restore(f, heads, Resting)
  <2>1. out = Elements(c[1]) \cup Elements(c[2])
    BY <1>5, <1>7
  <2>2. b = EnterAll(r, once, "SRV") /\ v = EnterAll(z, xs, "UAV")
    BY <1>3, <1>7
  <2>3. d = Add(v, Run(k, in, Elements(c[1]) \cup Elements(c[2])))
    BY <1>7, <1>13, <2>1
  <2>4. z = ZeroCounters(b, k, n, zs)
    BY <1>7
  <2> QED
    BY <1>3, <1>12, <1>14, <2>2, <2>3, <2>4 DEF HeadDecodeNms, EnterEach, NmsAndTopK, NmsOver
<1>16. Says(q.cmds, NmsMeant(A, C), k)
  <2>1. i1 = C[1] \cup C[2] /\ o1 = C[3] /\ i2 = C[1] \cup C[2] \cup C[3] /\ o2 = C[4] \cup C[5]
    <3>1. i2 = Elements(c[1]) \cup Elements(c[2]) \cup Elements(c[3])
      BY <1>12
    <3> QED
      BY <1>5, <1>12, <3>1
  <2>2. f = NmsOver(d, k, c, C[1] \cup C[2], C[3], C[1] \cup C[2] \cup C[3], C[4] \cup C[5])
    BY <1>14, <2>1
  <2>3. C = FiveOf(c)
    BY <1>3
  <2> QED
    BY ONLY BufOk, k \in Nat, c \in Seq(Known), Len(c) = 5, Distinct(c), heads \in Seq(Known), <1>6, <1>11, <2>2, <2>3, <1>15, SuppressionSays
<1>17. Meant("head_nms", a) = NmsMeant(A, C)
  <2>1. <<Effect(I, c[1]), Effect(I, c[2])>> \o NmsEffects(c) = NmsMeant(A, C)
    <3>1. A = UNION {Elements(h) : h \in I} /\ C = FiveOf(c)
      BY <1>3
    <3> QED
      BY ONLY <3>1, MeantAre
  <2>2. {a[i] : i \in 1 .. l} = I
    <3>1. I = {heads[i] : i \in 1 .. l}
      BY <1>2, <1>3 DEF Range
    <3>2. \A i \in 1 .. l : heads[i] = a[i]
      OBVIOUS
    <3> QED
      BY ONLY <3>1, <3>2
  <2>3. c[1] = a[l + 1] /\ c[2] = a[l + 2]
    OBVIOUS
  <2>4. Meant("head_nms", a) = <<Effect(I, a[l + 1]), Effect(I, a[l + 2])>> \o NmsEffects(c)
    BY <2>2 DEF Meant
  <2> QED
    BY <2>1, <2>3, <2>4
<1> QED
  BY <1>16, <1>17

\* The places of the operands whose descriptor, or whose zeros, start where the resource does.
FromFirst(kind, k) ==
  CASE kind = "decode_filter" -> 1 .. 3
    [] kind = "decode_nms"    -> 1 .. 6
    [] kind = "head_nms"      -> {k - 3, k}
    [] OTHER                  -> {}

\* These operands are what their resource starts with.
WholeOperands(kind, a) == \A i \in FromFirst(kind, Len(a)) : AtFirst(a[i])

\* The operands before the last as a set, of a short list.
LEMMA FrontRange ==
  ASSUME NEW a \in Seq(Known), Len(a) \in 2 .. 4
  PROVE  /\ Range(Front(a)) = {a[i] : i \in 1 .. Len(a) - 1}
         /\ Last(a) = a[Len(a)]
<1>1. PICK p, y, n : p = Front(a) /\ y = Last(a) /\ n = Len(a) - 1
  OBVIOUS
<1>2. p \in Seq(Known) /\ y = a[Len(a)] /\ Len(p) = n /\ \A i \in 1 .. Len(p) : p[i] = a[i]
  <2>1. Len(a) \in Nat \ {0}
    OBVIOUS
  <2> QED
    BY ONLY a \in Seq(Known), <1>1, <2>1, FrontParts
<1>3. DOMAIN p = 1 .. n
  BY <1>2, LenProperties
<1>4. Range(p) = {a[i] : i \in 1 .. n}
  BY <1>2, <1>3 DEF Range
<1> QED
  BY <1>1, <1>2, <1>4

\* What a dispatch that is not a decode means: its output is computed from the operands
\* before it.
LEMMA MeantElse ==
  ASSUME NEW kind, kind \notin {"decode_filter", "decode_nms", "head_nms"}, NEW a,
         NEW in, in = Range(Front(a)), NEW y, y = Last(a)
  PROVE  Meant(kind, a) = <<>> \o <<Effect(in, y)>>
BY DEF Meant

\* What a dispatch that writes apart records says what the caller means by it.
LEMMA RecordedSays ==
  ASSUME BufOk, NEW k \in Nat, NEW r, Saying(r, <<>>, k), r.st = Resting, NEW kind, NEW n \in Nat,
         NEW a \in Seq(Known), Len(a) \in Arity(kind), WritesApart(kind, a), WholeOperands(kind, a),
         NEW q, q = Recorded(r, kind, k, n, a)
  PROVE  Says(q.cmds, Meant(kind, a), k)
<1>0. PICK none : none = <<>> /\ Saying(r, none, k)
  OBVIOUS
<1>1. CASE kind \in {"relu", "unary", "table"}
  <2>1. Len(a) = 2
    BY <1>1 DEF Arity
  <2>2. PICK x, y, ins, I : x = a[1] /\ y = a[2] /\ ins = <<x>> /\ I = {x}
    OBVIOUS
  <2>3. x \in Known /\ y \in Known
    <3>1. \A i \in 1 .. 2 : a[i] \in Known
      BY <2>1, ElementOfSeq
    <3> QED
      BY <2>2, <3>1
  <2>4. I = Range(Front(a)) /\ y = Last(a)
    <3>1. I = {a[i] : i \in 1 .. Len(a) - 1}
      BY <2>1, <2>2
    <3>2. Len(a) \in 2 .. 4
      BY <2>1
    <3>3. Range(Front(a)) = {a[i] : i \in 1 .. Len(a) - 1} /\ Last(a) = a[Len(a)]
      BY ONLY a \in Seq(Known), <3>2, FrontRange
    <3> QED
      BY ONLY <2>1, <2>2, <3>1, <3>3
  <2>5. Meant(kind, a) = none \o <<Effect(I, y)>>
    BY <1>0, <1>1, <2>4, MeantElse
  <2>6. CASE kind = "relu"
    <3>1. q = ReluInto(r, k, a)
      BY <2>6 DEF Recorded
    <3>2. Saying(q, none \o <<Effect({x}, y)>>, k)
      BY ONLY BufOk, k \in Nat, r.st = Resting, <1>0, <2>2, <2>3, <3>1, ReluSays
    <3> QED
      BY <2>2, <2>5, <3>2 DEF Saying
  <2>7. CASE kind # "relu"
    <3>1. q = Plain(r, k, ins, y)
      BY <1>1, <2>2, <2>7 DEF Recorded, UnaryInto, TableInto
    <3>2. ins \in Seq(Known) /\ Range(ins) = I
      BY <2>2, <2>3, SmallSeq
    <3>3. Saying(q, none \o <<Effect(Range(ins), y)>>, k)
      BY ONLY BufOk, k \in Nat, r.st = Resting, <1>0, <2>3, <3>1, <3>2, PlainSays
    <3> QED
      BY <2>5, <3>2, <3>3 DEF Saying
  <2> QED
    BY <2>6, <2>7
<1>2. CASE kind = "binary"
  <2>1. Len(a) = 3
    BY <1>2 DEF Arity
  <2>2. PICK u, x, y, ins, I : u = a[1] /\ x = a[2] /\ y = a[3] /\ ins = <<u, x>> /\ I = {u, x}
    OBVIOUS
  <2>3. u \in Known /\ x \in Known /\ y \in Known
    <3>1. \A i \in 1 .. 3 : a[i] \in Known
      BY <2>1, ElementOfSeq
    <3> QED
      BY <2>2, <3>1
  <2>4. I = Range(Front(a)) /\ y = Last(a)
    <3>1. I = {a[i] : i \in 1 .. Len(a) - 1}
      BY <2>1, <2>2
    <3>2. Len(a) \in 2 .. 4
      BY <2>1
    <3>3. Range(Front(a)) = {a[i] : i \in 1 .. Len(a) - 1} /\ Last(a) = a[Len(a)]
      BY ONLY a \in Seq(Known), <3>2, FrontRange
    <3> QED
      BY ONLY <2>1, <2>2, <3>1, <3>3
  <2>5. Meant(kind, a) = none \o <<Effect(I, y)>>
    BY <1>0, <1>2, <2>4, MeantElse
  <2>6. q = Plain(r, k, ins, y)
    BY <1>2, <2>2 DEF Recorded, BinaryInto
  <2>7. ins \in Seq(Known) /\ Range(ins) = I
    BY <2>2, <2>3, SmallSeq
  <2>8. Saying(q, none \o <<Effect(Range(ins), y)>>, k)
    BY ONLY BufOk, k \in Nat, r.st = Resting, <1>0, <2>3, <2>6, <2>7, PlainSays
  <2> QED
    BY <2>5, <2>7, <2>8 DEF Saying
<1>3. CASE kind \in {"conv2d", "conv_silu"}
  <2>1. Len(a) = 4
    BY <1>3 DEF Arity
  <2>2. PICK u, v, x, y, ins, I : u = a[1] /\ v = a[2] /\ x = a[3] /\ y = a[4] /\ ins = <<u, v, x>> /\ I = {u, v, x}
    OBVIOUS
  <2>3. u \in Known /\ v \in Known /\ x \in Known /\ y \in Known
    <3>1. \A i \in 1 .. 4 : a[i] \in Known
      BY <2>1, ElementOfSeq
    <3> QED
      BY <2>2, <3>1
  <2>4. I = Range(Front(a)) /\ y = Last(a)
    <3>1. I = {a[i] : i \in 1 .. Len(a) - 1}
      BY <2>1, <2>2
    <3>2. Len(a) \in 2 .. 4
      BY <2>1
    <3>3. Range(Front(a)) = {a[i] : i \in 1 .. Len(a) - 1} /\ Last(a) = a[Len(a)]
      BY ONLY a \in Seq(Known), <3>2, FrontRange
    <3> QED
      BY ONLY <2>1, <2>2, <3>1, <3>3
  <2>5. Meant(kind, a) = none \o <<Effect(I, y)>>
    BY <1>0, <1>3, <2>4, MeantElse
  <2>6. q = Plain(r, k, ins, y)
    BY <1>3, <2>2 DEF Recorded, Conv2dInto, ConvSiluInto
  <2>7. ins \in Seq(Known) /\ Range(ins) = I
    BY <2>2, <2>3, SmallSeq
  <2>8. Saying(q, none \o <<Effect(Range(ins), y)>>, k)
    BY ONLY BufOk, k \in Nat, r.st = Resting, <1>0, <2>3, <2>6, <2>7, PlainSays
  <2> QED
    BY <2>5, <2>7, <2>8 DEF Saying
<1>4. CASE kind \in {"c2f", "sppf"} \cup PerResourceKinds
  <2>1. Len(a) \in Nat \ {0}
    BY <1>4 DEF Arity, PerResourceKinds
  <2>2. PICK ins, y : ins = Front(a) /\ y = Last(a)
    OBVIOUS
  <2>3. ins \in Seq(Known) /\ y \in Known
    BY <2>1, <2>2, FrontLast
  <2>4. Meant(kind, a) = none \o <<Effect(Range(ins), y)>>
    BY <1>0, <1>4, <2>2, MeantElse DEF PerResourceKinds
  <2>5. CASE kind \in {"c2f", "sppf"}
    <3>1. q = Stepwise(r, k, ins, y)
      BY <2>2, <2>5 DEF Recorded, C2fInto, SppfInto
    <3>2. Saying(q, none \o <<Effect(Range(ins), y)>>, k)
      BY ONLY BufOk, k \in Nat, r.st = Resting, <1>0, <2>3, <3>1, StepwiseSays
    <3> QED
      BY <2>4, <3>2 DEF Saying
  <2>6. CASE kind \in PerResourceKinds
    <3>1. q = PerResource(r, k, ins, y)
      BY <2>2, <2>6 DEF Recorded, PerResourceKinds, ConcatInto, ConcatConv1x1Into, ConcatConvInt8Into, ConcatResidualInto
    <3>2. Says(q.cmds, none \o <<Effect(Range(ins), y)>>, k)
      BY ONLY BufOk, k \in Nat, r.st = Resting, <1>0, <2>3, <3>1, PerResourceSays
    <3> QED
      BY <2>4, <3>2
  <2> QED
    BY <1>4, <2>5, <2>6
<1>5. CASE kind \in {"decode_filter", "decode_nms"}
  <2>1. PICK l : l = Len(a)
    OBVIOUS
  <2>2. /\ kind = "decode_filter" => l = 3 /\ Outputs(kind, l) = 2 .. l /\ FromFirst(kind, l) = 1 .. 3
        /\ kind = "decode_nms" => l = 6 /\ Outputs(kind, l) = 2 .. l /\ FromFirst(kind, l) = 1 .. 6
    <3>1. 2 .. 3 = {2, 3}
      OBVIOUS
    <3>2. CASE kind = "decode_filter"
      BY <2>1, <3>1, <3>2 DEF Arity, Outputs, FromFirst
    <3>3. CASE kind = "decode_nms"
      BY <2>1, <3>3 DEF Arity, Outputs, FromFirst
    <3> QED
      BY <1>5, <3>2, <3>3
  <2>3. l \in Nat /\ DOMAIN a = 1 .. l /\ Outputs(kind, l) = 2 .. l
    BY <1>5, <2>1, <2>2, LenProperties
  <2>4. Distinct(a)
    BY <2>1, <2>3, DecodeDistinct
  <2>5. CASE kind = "decode_filter"
    <3>1. q = DecodeFilter(r, k, n, a) /\ Len(a) = 3 /\ \A i \in 1 .. 3 : AtFirst(a[i])
      BY <2>1, <2>2, <2>5 DEF Recorded, WholeOperands
    <3>2. Says(q.cmds, Meant("decode_filter", a), k)
      BY ONLY BufOk, k \in Nat, Saying(r, <<>>, k), r.st = Resting, n \in Nat, a \in Seq(Known), <2>4, <3>1, DecodeFilterSays
    <3> QED
      BY <2>5, <3>2
  <2>6. CASE kind = "decode_nms"
    <3>1. q = DecodeNms(r, k, n, a) /\ Len(a) = 6 /\ \A i \in 1 .. 6 : AtFirst(a[i])
      BY <2>1, <2>2, <2>6 DEF Recorded, WholeOperands
    <3>2. Says(q.cmds, Meant("decode_nms", a), k)
      BY ONLY BufOk, k \in Nat, Saying(r, <<>>, k), r.st = Resting, n \in Nat, a \in Seq(Known), <2>4, <3>1, DecodeNmsSays
    <3> QED
      BY <2>6, <3>2
  <2> QED
    BY <1>5, <2>5, <2>6
<1>6. CASE kind = "head_nms"
  <2>1. Len(a) \in Nat \ (0 .. 5) /\ q = HeadDecodeNms(r, k, n, a) /\ WritesApart("head_nms", a)
    BY <1>6 DEF Arity, Recorded
  <2>2. PICK l, t, heads, c : l = Len(a) - 5 /\ t = {"misstated"} /\ heads = SubSeq(a, 1, l) /\ c = SubSeq(a, l + 1, l + 5)
    OBVIOUS
  <2>3. HeadSplit(Known, t, l, heads, c)
    <3>1. "misstated" \in t
      BY <2>2
    <3> QED
      BY ONLY a \in Seq(Known), <2>1, <2>2, <3>1, HeadParts
  <2>4. (\A i \in 1 .. l : heads[i] = a[i]) /\ \A i \in 1 .. 5 : c[i] = a[l + i]
    <3>1. l \in Nat /\ Len(heads) = l /\ Len(c) = 5 /\ Len(a) = l + 5
      BY <2>1, <2>2, <2>3 DEF HeadSplit
    <3>2. \A i \in 1 .. l : heads[i] = a[i]
      BY <2>2, <3>1, SubSeqProperties
    <3>3. ASSUME NEW i \in 1 .. 5 PROVE c[i] = a[l + i]
      <4>1. PICK b, d : b = l + 1 /\ d = l + 5
        OBVIOUS
      <4>2. b \in 1 .. Len(a) + 1 /\ d \in 0 .. Len(a) /\ c = SubSeq(a, b, d)
        BY <2>2, <3>1, <4>1
      <4>3. c[i] = a[b + i - 1]
        BY <3>1, <4>2, SubSeqProperties
      <4>4. b + i - 1 = l + i
        BY <3>1, <4>1
      <4> QED
        BY <4>3, <4>4
    <3> QED
      BY <3>2, <3>3
  <2>5. AtFirst(c[2]) /\ AtFirst(c[5])
    <3>1. l \in Nat /\ Len(a) = l + 5
      BY <2>1, <2>2, <2>3 DEF HeadSplit
    <3>2. FromFirst(kind, Len(a)) = {l + 2, l + 5}
      BY <1>6, <3>1 DEF FromFirst
    <3> QED
      BY <2>4, <3>2 DEF WholeOperands
  <2>6. Says(q.cmds, Meant("head_nms", a), k)
    <3>1. /\ l \in Nat /\ heads \in Seq(Known) /\ Len(heads) = l /\ c \in Seq(Known) /\ Len(c) = 5
          /\ Distinct(c) /\ Apart(Range(heads), Range(c))
      BY <2>3 DEF HeadSplit
    <3>2. l = Len(a) - 5 /\ heads = SubSeq(a, 1, l) /\ c = SubSeq(a, l + 1, l + 5) /\ q = HeadDecodeNms(r, k, n, a)
      BY <2>1, <2>2
    <3>3. \A i \in 1 .. l : heads[i] = a[i]
      BY <2>4
    <3>4. \A i \in 1 .. 5 : c[i] = a[l + i]
      BY <2>4
    <3> QED
      BY ONLY BufOk, k \in Nat, Saying(r, <<>>, k), r.st = Resting, n \in Nat, <3>1, <3>2, <3>3, <3>4, <2>5, HeadSays
  <2> QED
    BY <1>6, <2>6
<1> QED
  BY <1>1, <1>2, <1>3, <1>4, <1>5, <1>6 DEF Arity, PerResourceKinds

------------------------------------------------------------------------------
(* What prepared chains and scopes mean                                        *)

\* Bytes of callers: all but what a prepared chain owns.
Outer == {c \in Cells : c[1] \notin Owned}

\* Effects that read bytes of callers.
OuterEffs == [in : SUBSET Outer, out : SUBSET Cells]

\* Two memories alike for a caller stay so under what a caller means.
LEMMA MeaningAgree ==
  ASSUME NEW a, NEW b, Agree(a, b, Outer), NEW does \in Seq(OuterEffs), NEW v \in Nat
  PROVE  Agree(Meaning(a, does, v), Meaning(b, does, v), Outer)
<1>1. PICK L : L = Len(does) /\ L \in Nat
  BY LenProperties
<1>2. PICK M : M = Memories(b, does, v)
  OBVIOUS
<1>3. M[0] = b /\ \A i \in 1 .. L : M[i] = Done(M[i - 1], does[i], v)
  BY <1>1, <1>2, MemoriesDef
<1>4. PICK P : P = [i \in 0 .. L |-> {p \in Mems : Agree(p, M[i], Outer)}]
  OBVIOUS
<1>5. a \in P[0]
  <2>1. a \in Mems /\ 0 \in 0 .. L
    BY <1>1 DEF Agree
  <2> QED
    BY <1>3, <1>4, <2>1
<1>6. ASSUME NEW i \in 1 .. L, NEW p \in P[i - 1] PROVE Done(p, does[i], v) \in P[i]
  <2>1. i \in 0 .. L /\ i - 1 \in 0 .. L
    BY <1>1
  <2>2. PICK e, q, d : e = does[i] /\ q = M[i - 1] /\ d = Done(p, e, v)
    OBVIOUS
  <2>3. Agree(p, q, Outer)
    BY <1>4, <2>1, <2>2
  <2>4. e \in Effs /\ e.in \subseteq Outer /\ Outer \subseteq Cells
    <3>1. e \in OuterEffs
      BY <1>1, <2>2, ElementOfSeq
    <3> QED
      BY <3>1 DEF OuterEffs, Effs, Outer
  <2>5. Agree(d, Done(q, e, v), Outer \cup e.out)
    BY <2>2, <2>3, <2>4, AgreeDone
  <2>6. Agree(d, M[i], Outer)
    BY <1>3, <2>2, <2>5 DEF Agree
  <2> QED
    BY <1>4, <2>1, <2>2, <2>6 DEF Agree
<1>7. Meaning(a, does, v) \in P[L]
  BY ONLY <1>1, <1>5, <1>6, MeaningStages
<1>8. Meaning(b, does, v) = M[L]
  BY <1>1, <1>2 DEF Meaning
<1> QED
  BY <1>1, <1>4, <1>7, <1>8

\* For a caller the commands do what the effects say, whatever the chain's own buffers hold.
Wreaks(cmds, does, k) ==
  \A m, s, by : m \in Machine(Resources, Cells) /\ by \in Nat /\ Agree(m.mem, s, Outer)
    => Agree(Ran(m, cmds, by).mem, Meaning(s, does, Stamp(k, by)), Outer)

\* A list a caller may take for these effects.
Means(cmds, does, k) == cmds \in Seq(BatchCommands(Nat)) /\ does \in Seq(OuterEffs) /\ Wreaks(cmds, does, k)

\* What says what a caller means is such a list,
LEMMA SaysMeans ==
  ASSUME NEW k \in Nat, NEW cmds, NEW does \in Seq(OuterEffs), Says(cmds, does, k)
  PROVE  Means(cmds, does, k)
<1>1. ASSUME NEW m, NEW s, NEW by, m \in Machine(Resources, Cells), by \in Nat, Agree(m.mem, s, Outer)
      PROVE  Agree(Ran(m, cmds, by).mem, Meaning(s, does, Stamp(k, by)), Outer)
  <2>1. PICK v : v = Stamp(k, by) /\ v \in Nat
    BY <1>1 DEF Stamp
  <2>2. Ran(m, cmds, by).mem = Meaning(m.mem, does, v)
    BY <1>1, <2>1 DEF Says, Wrote
  <2>3. Agree(Meaning(m.mem, does, v), Meaning(s, does, v), Outer)
    BY <1>1, <2>1, MeaningAgree
  <2> QED
    BY <2>1, <2>2, <2>3
<1>2. cmds \in Seq(BatchCommands(Nat))
  BY DEF Says
<1> QED
  BY <1>1, <1>2 DEF Means, Wreaks

\* so is the empty one,
LEMMA MeansNone ==
  ASSUME NEW k \in Nat
  PROVE  Means(<<>>, <<>>, k)
<1>1. <<>> \in Seq(OuterEffs)
  OBVIOUS
<1> QED
  BY <1>1, SaysNone, SaysMeans

\* and one behind the other.
LEMMA MeansJoined ==
  ASSUME NEW k \in Nat, NEW a, NEW d, Means(a, d, k), NEW b, NEW e, Means(b, e, k)
  PROVE  Means(a \o b, d \o e, k)
<1>1. /\ a \in Seq(BatchCommands(Nat)) /\ b \in Seq(BatchCommands(Nat))
      /\ d \in Seq(OuterEffs) /\ e \in Seq(OuterEffs)
  BY DEF Means
<1>2. a \o b \in Seq(BatchCommands(Nat)) /\ d \o e \in Seq(OuterEffs)
  BY <1>1, ConcatProperties
<1>3. ASSUME NEW m, NEW s, NEW by, m \in Machine(Resources, Cells), by \in Nat, Agree(m.mem, s, Outer)
      PROVE  Agree(Ran(m, a \o b, by).mem, Meaning(s, d \o e, Stamp(k, by)), Outer)
  <2>1. PICK v, p, q : v = Stamp(k, by) /\ p = Ran(m, a, by) /\ q = Meaning(s, d, v)
    OBVIOUS
  <2>2. p \in Machine(Resources, Cells)
    BY <1>1, <1>3, <2>1, AnyRun
  <2>3. Agree(p.mem, q, Outer)
    BY <1>3, <2>1 DEF Means, Wreaks
  <2>4. Agree(Ran(p, b, by).mem, Meaning(q, e, v), Outer)
    BY <1>3, <2>1, <2>2, <2>3 DEF Means, Wreaks
  <2>5. Ran(m, a \o b, by) = Ran(p, b, by)
    BY <1>1, <2>1, RanConcat
  <2>6. Meaning(s, d \o e, v) = Meaning(q, e, v)
    BY <1>1, <2>1, MeaningConcat
  <2> QED
    BY <2>1, <2>4, <2>5, <2>6
<1> QED
  BY <1>2, <1>3 DEF Means, Wreaks

\* From the memory b the commands make, for a caller, the memory s.
Yields(cmds, b, s) ==
  \A m, by : m \in Machine(Resources, Cells) /\ m.mem = b /\ by \in Nat
    => Agree(Ran(m, cmds, by).mem, s, Outer)

\* No command yields what is there,
LEMMA YieldsNone ==
  ASSUME NEW b, NEW s, Agree(b, s, Outer)
  PROVE  Yields(<<>>, b, s)
BY RanNone DEF Yields

\* and commands with the stamp of a call behind others add what the call means.
LEMMA YieldsJoined ==
  ASSUME NEW a \in Seq(BatchCommands(Nat)), NEW b, NEW s, Yields(a, b, s),
         NEW n \in Nat, n # 0, NEW c, NEW does, Means(c, does, n)
  PROVE  Yields(a \o c, b, Meaning(s, does, n))
<1>1. ASSUME NEW m, NEW by, m \in Machine(Resources, Cells), m.mem = b, by \in Nat
      PROVE  Agree(Ran(m, a \o c, by).mem, Meaning(s, does, n), Outer)
  <2>1. PICK p : p = Ran(m, a, by)
    OBVIOUS
  <2>2. p \in Machine(Resources, Cells) /\ Agree(p.mem, s, Outer)
    <3>1. p \in Machine(Resources, Cells)
      BY <1>1, <2>1, AnyRun
    <3> QED
      BY <1>1, <2>1, <3>1 DEF Yields
  <2>3. Stamp(n, by) = n
    BY DEF Stamp
  <2>4. Agree(Ran(p, c, by).mem, Meaning(s, does, n), Outer)
    BY <1>1, <2>2, <2>3 DEF Means, Wreaks
  <2>5. Ran(m, a \o c, by) = Ran(p, c, by)
    BY <2>1, RanConcat DEF Means
  <2> QED
    BY <2>4, <2>5
<1> QED
  BY <1>1 DEF Yields

\* What is computed from buffers Python holds.
LEMMA EffectOuter ==
  ASSUME HandlesOk, NEW I, I \subseteq py, NEW y \in Known
  PROVE  Effect(I, y) \in OuterEffs
<1>1. BufOk /\ py \subseteq Known
  BY DEF HandlesOk, Known
<1>2. ASSUME NEW h \in I, NEW x \in Elements(h) PROVE x \in Outer
  <2>1. x \in Cells /\ ResourcesOf(Elements(h)) \subseteq {Res(h)}
    BY <1>1, <1>2, CellSpace
  <2>2. x[1] = Res(h)
    BY <1>2, <2>1 DEF ResourcesOf
  <2>3. PICK g : g \in Owned
    BY DEF Owned
  <2>4. Res(h) \notin Owned
    BY <1>2, <2>3, OwnedApart
  <2> QED
    BY <2>1, <2>2, <2>4 DEF Outer
<1>3. PICK A : A = UNION {Elements(h) : h \in I}
  OBVIOUS
<1>4. A \subseteq Outer
  <2>1. ASSUME NEW x \in A PROVE x \in Outer
    <3>1. PICK h \in I : x \in Elements(h)
      BY <1>3, <2>1
    <3> QED
      BY <1>2, <3>1
  <2> QED
    BY <2>1
<1>5. Elements(y) \subseteq Cells
  BY <1>1, CellSpace
<1> QED
  BY <1>3, <1>4, <1>5 DEF Effect, OuterEffs

\* What a suppression computes.
LEMMA NmsOuter ==
  ASSUME HandlesOk, NEW c, \A i \in 1 .. 5 : c[i] \in py
  PROVE  NmsEffects(c) \in Seq(OuterEffs)
<1>1. py \subseteq Known
  BY DEF HandlesOk, Known
<1>2. PICK I, J, T : I = {c[1], c[2]} /\ J = {c[1], c[2], c[3]} /\ T = OuterEffs
  OBVIOUS
<1>3. I \subseteq py /\ J \subseteq py /\ c[3] \in Known /\ c[4] \in Known /\ c[5] \in Known
  BY <1>1, <1>2
<1>4. Effect(I, c[3]) \in T /\ Effect(J, c[4]) \in T /\ Effect(J, c[5]) \in T
  BY <1>2, <1>3, EffectOuter
<1>5. <<Effect(I, c[3]), Effect(J, c[4]), Effect(J, c[5])>> \in Seq(T)
  BY ONLY <1>4, SmallSeq
<1> QED
  BY <1>2, <1>5 DEF NmsEffects

\* Two results of one dispatch, and what follows.
LEMMA TwoOuter ==
  ASSUME HandlesOk, NEW I, I \subseteq py, NEW x \in py, NEW y \in py, NEW more \in Seq(OuterEffs)
  PROVE  /\ <<Effect(I, x), Effect(I, y)>> \in Seq(OuterEffs)
         /\ <<Effect(I, x), Effect(I, y)>> \o more \in Seq(OuterEffs)
<1>1. PICK T : T = OuterEffs
  OBVIOUS
<1>2. Effect(I, x) \in T /\ Effect(I, y) \in T
  <2>1. py \subseteq Known
    BY DEF HandlesOk, Known
  <2> QED
    BY <1>1, <2>1, EffectOuter
<1>3. <<Effect(I, x), Effect(I, y)>> \in Seq(T)
  BY ONLY <1>2, SmallSeq
<1> QED
  BY <1>1, <1>3, ConcatProperties

\* What a dispatch of a caller means is about the caller's bytes.
LEMMA MeantOuter ==
  ASSUME HandlesOk, NEW kind, NEW a \in Seq(py), Len(a) \in Arity(kind)
  PROVE  Meant(kind, a) \in Seq(OuterEffs)
<1>1. PICK l : l = Len(a) /\ l \in Nat /\ DOMAIN a = 1 .. l
  BY LenProperties
<1>2. \A i \in 1 .. l : a[i] \in py
  BY <1>1, ElementOfSeq
<1>3. CASE kind = "decode_filter"
  <2>1. l = 3
    BY <1>1, <1>3 DEF Arity
  <2>2. PICK I : I = {a[1]}
    OBVIOUS
  <2>3. I \subseteq py /\ a[2] \in py /\ a[3] \in py /\ <<>> \in Seq(OuterEffs)
    BY <1>2, <2>1, <2>2
  <2>4. <<Effect(I, a[2]), Effect(I, a[3])>> \in Seq(OuterEffs)
    BY ONLY HandlesOk, <2>3, TwoOuter
  <2> QED
    BY <1>3, <2>2, <2>4 DEF Meant
<1>4. CASE kind = "decode_nms"
  <2>1. l = 6
    BY <1>1, <1>4 DEF Arity
  <2>2. PICK I, c : I = {a[1]} /\ c = Tail(a)
    OBVIOUS
  <2>3. \A i \in 1 .. 5 : c[i] = a[i + 1]
    <3>1. Len(a) = 6
      BY <1>1, <2>1
    <3>2. a # <<>>
      BY <3>1
    <3>3. Len(c) = 5 /\ \A i \in 1 .. Len(c) : c[i] = a[i + 1]
      BY ONLY a \in Seq(py), <2>2, <3>1, <3>2, HeadTailProperties
    <3> QED
      BY <3>3
  <2>4. NmsEffects(c) \in Seq(OuterEffs)
    BY <1>2, <2>1, <2>3, NmsOuter
  <2>5. I \subseteq py /\ a[2] \in py /\ a[3] \in py
    BY <1>2, <2>1, <2>2
  <2>6. <<Effect(I, a[2]), Effect(I, a[3])>> \o NmsEffects(c) \in Seq(OuterEffs)
    BY ONLY HandlesOk, <2>4, <2>5, TwoOuter
  <2> QED
    BY <1>4, <2>2, <2>6 DEF Meant
<1>5. CASE kind = "head_nms"
  <2>1. l \in Nat /\ l >= 6
    BY <1>1, <1>5 DEF Arity
  <2>2. PICK k, I, c : k = l - 5 /\ I = {a[i] : i \in 1 .. k} /\ c = SubSeq(a, k + 1, k + 5)
    OBVIOUS
  <2>3. k \in Nat /\ k >= 1 /\ k + 5 = l
    BY <2>1, <2>2
  <2>4. \A i \in 1 .. 5 : c[i] = a[k + i] /\ k + i \in 1 .. l
    <3>1. PICK b, d : b = k + 1 /\ d = k + 5
      OBVIOUS
    <3>2. b \in 1 .. l + 1 /\ d \in 0 .. l /\ b <= d /\ (d - b) + 1 = 5 /\ c = SubSeq(a, b, d)
      <4>1. c = SubSeq(a, b, d)
        BY <2>2, <3>1
      <4> QED
        BY ONLY <2>3, <3>1, <4>1
    <3>3. Len(c) = 5
      BY <1>1, <3>2, SubSeqProperties
    <3>4. ASSUME NEW i \in 1 .. 5 PROVE c[i] = a[k + i]
      <4>1. c[i] = a[b + i - 1]
        BY <1>1, <3>2, <3>3, SubSeqProperties
      <4>2. b + i - 1 = k + i
        BY <2>3, <3>1
      <4> QED
        BY <4>1, <4>2
    <3> QED
      BY <2>3, <3>4
  <2>5. NmsEffects(c) \in Seq(OuterEffs)
    BY <1>2, <2>4, NmsOuter
  <2>6. I \subseteq py /\ a[k + 1] \in py /\ a[k + 2] \in py
    <3>1. k + 1 \in 1 .. l /\ k + 2 \in 1 .. l /\ \A i \in 1 .. k : i \in 1 .. l
      BY ONLY <2>3
    <3> QED
      BY <1>2, <2>2, <3>1
  <2>7. <<Effect(I, a[k + 1]), Effect(I, a[k + 2])>> \o NmsEffects(c) \in Seq(OuterEffs)
    BY ONLY HandlesOk, <2>5, <2>6, TwoOuter
  <2> QED
    BY <1>1, <1>5, <2>2, <2>7 DEF Meant
<1>6. CASE kind \notin {"decode_filter", "decode_nms", "head_nms"}
  <2>1. l \in Nat \ {0}
    BY <1>1 DEF Arity
  <2>2. PICK p, y, I, T : p = Front(a) /\ y = Last(a) /\ I = Range(p) /\ T = OuterEffs
    OBVIOUS
  <2>3. p \in Seq(py) /\ y \in py
    BY <1>1, <2>1, <2>2, FrontParts
  <2>4. I \subseteq py
    BY <2>2, <2>3 DEF Range
  <2>5. y \in Known
    BY <2>3 DEF HandlesOk, Known
  <2>6. Effect(I, y) \in T
    BY <2>2, <2>4, <2>5, EffectOuter
  <2>7. <<Effect(I, y)>> \in Seq(T)
    BY ONLY <2>6, SmallSeq
  <2> QED
    BY <1>6, <2>2, <2>7 DEF Meant
<1> QED
  BY <1>3, <1>4, <1>5, <1>6

\* What a dispatch that writes apart records is, for the caller, what it means.
LEMMA RecordedMeans ==
  ASSUME HandlesOk, NEW k \in Nat, NEW kind, NEW n \in Nat,
         NEW a \in Seq(Handles), Range(a) \subseteq py, Len(a) \in Arity(kind), WritesApart(kind, a), WholeOperands(kind, a),
         NEW q, q = Recorded(Record0, kind, k, n, a)
  PROVE  Means(q.cmds, Meant(kind, a), k)
<1>1. PICK r0, t : r0 = Record0 /\ t = {"misstated"}
  OBVIOUS
<1>2. r0.st = Resting /\ r0 \in Recorder(Nat) /\ r0.cmds = <<>> /\ BufOk
  BY <1>1, StartPosed DEF HandlesOk
<1>3. Saying(r0, <<>>, k)
  BY <1>2, SaysNone DEF Saying
<1>4. a \in Seq(Known)
  BY OperandsKnown
<1>5. q = Recorded(r0, kind, k, n, a)
  BY <1>1
<1>6. Says(q.cmds, Meant(kind, a), k)
  BY ONLY k \in Nat, n \in Nat, Len(a) \in Arity(kind), WritesApart(kind, a), WholeOperands(kind, a),
          <1>2, <1>3, <1>4, <1>5, RecordedSays
<1>7. a \in Seq(py)
  <2>1. PICK l : l = Len(a) /\ l \in Nat /\ DOMAIN a = 1 .. l
    BY LenProperties
  <2>2. \A i \in 1 .. l : a[i] \in py
    BY <2>1 DEF Range
  <2>3. a \in [1 .. l -> py]
    <3>1. a = [i \in 1 .. l |-> a[i]]
      BY <2>1
    <3> QED
      BY <2>2, <3>1
  <2> QED
    BY <2>1, <2>3, Mapped
<1>8. Meant(kind, a) \in Seq(OuterEffs)
  BY <1>7, MeantOuter
<1> QED
  BY <1>6, <1>8, SaysMeans

\* The recorder a call starts with says nothing yet.
LEMMA StartSays ==
  ASSUME HandlesOk, NEW k \in Nat, NEW r, r = Record0
  PROVE  Saying(r, <<>>, k) /\ r.st = Resting
<1>1. PICK t : t = {"misstated"}
  OBVIOUS
<1>2. r.st = Resting /\ r \in Recorder(Nat) /\ r.cmds = <<>>
  BY StartPosed
<1> QED
  BY <1>2, SaysNone DEF Saying

\* A copy into a handle says that its elements are the call's.
LEMMA CopyInSays ==
  ASSUME HandlesOk, NEW k \in Nat, NEW h \in py, NEW r, r = CopyIn(Record0, h, Elements(h), k)
  PROVE  Says(r.cmds, <<>> \o <<Effect({}, h)>>, k)
<1>1. BufOk /\ h \in Known /\ h \in Resources
  BY CellSpace DEF HandlesOk, Known
<1>2. PICK r0, none, s, t, hs, cells, c, e :
        /\ r0 = Record0 /\ none = <<>> /\ s = "COPY_DEST" /\ t = "COMMON" /\ hs = <<h>>
        /\ cells = Elements(h) /\ c = Fill(k, LocalHeap, cells) /\ e = [in |-> {}, out |-> cells]
  OBVIOUS
<1>3. hs \in Seq(Known) /\ s \in States /\ t \in States /\ cells \in SUBSET Cells /\ LocalHeap \in Nat
  BY <1>1, <1>2, SmallSeq, CellSpace DEF States, LocalHeap
<1>4. Saying(r0, none, k) /\ r0.st = Resting
  BY <1>2, StartSays
<1>5. PICK a, d, q : a = EnterAll(r0, hs, s) /\ d = Add(a, c) /\ q = EnterAll(d, hs, t)
  OBVIOUS
<1>6. Saying(a, none, k)
  BY ONLY <1>1, <1>3, <1>4, <1>5, SayEnter
<1>7. Saying(d, none \o <<e>>, k)
  <2>1. PICK H, cs, es : H = {} /\ cs = <<c>> /\ es = <<e>>
    OBVIOUS
  <2>2. Says(cs, es, k)
    BY <1>2, <1>3, <2>1, SaysFill
  <2>3. d = [cmds |-> a.cmds \o cs, st |-> a.st, heaps |-> a.heaps]
    BY <1>5, <1>6, <2>1, Added DEF Saying
  <2>4. d = [cmds |-> a.cmds \o cs, st |-> a.st, heaps |-> a.heaps \cup H]
    BY <2>1, <2>3
  <2>5. H \in SUBSET Nat
    BY <2>1
  <2>6. Saying(d, none \o es, k)
    BY ONLY k \in Nat, <1>6, <2>2, <2>4, <2>5, SayMore
  <2> QED
    BY <2>1, <2>6
<1>8. Saying(q, none \o <<e>>, k)
  <2>1. PICK f : f = none \o <<e>>
    OBVIOUS
  <2>2. Saying(d, f, k)
    BY <1>7, <2>1
  <2>3. Saying(q, f, k)
    BY ONLY <1>1, <1>3, <1>5, <2>2, SayEnter
  <2> QED
    BY <2>1, <2>3
<1>9. r = [q EXCEPT !.heaps = @ \cup {LocalHeap}]
  <2>1. r0.st[h] = t
    BY <1>1, <1>2, <1>4 DEF Resting
  <2> QED
    BY <1>2, <1>5, <2>1 DEF CopyIn, Enter
<1>10. r.cmds = q.cmds
  BY <1>8, <1>9 DEF Saying, Recorder
<1>11. Effect({}, h) = e
  BY <1>2 DEF Effect
<1> QED
  BY <1>2, <1>8, <1>10, <1>11 DEF Saying

\* A copy out of a handle says nothing.
LEMMA CopyOutSays ==
  ASSUME HandlesOk, NEW k \in Nat, NEW h \in py, NEW r, r = CopyOut(Record0, h, Elements(h))
  PROVE  Says(r.cmds, <<>>, k)
<1>1. BufOk /\ h \in Known /\ h \in Resources
  BY CellSpace DEF HandlesOk, Known
<1>2. PICK r0, none, s, t, hs, cells, c :
        /\ r0 = Record0 /\ none = <<>> /\ s = "COPY_SOURCE" /\ t = "COMMON" /\ hs = <<h>>
        /\ cells = Elements(h) /\ c = ReadBack(LocalHeap, cells)
  OBVIOUS
<1>3. hs \in Seq(Known) /\ s \in States /\ t \in States /\ cells \in SUBSET Cells /\ LocalHeap \in Nat
  BY <1>1, <1>2, SmallSeq, CellSpace DEF States, LocalHeap
<1>4. Saying(r0, none, k) /\ r0.st = Resting
  BY <1>2, StartSays
<1>5. PICK a, d, q : a = EnterAll(r0, hs, s) /\ d = Add(a, c) /\ q = EnterAll(d, hs, t)
  OBVIOUS
<1>6. Saying(a, none, k)
  BY ONLY <1>1, <1>3, <1>4, <1>5, SayEnter
<1>7. Saying(d, none, k)
  <2>1. PICK N, cs : N = Nat /\ cs = <<c>>
    OBVIOUS
  <2>2. ResourcesOf(cells) \subseteq N /\ LocalHeap \in N
    <3>1. ResourcesOf(cells) \subseteq {Res(h)} /\ Res(h) \in Resources
      BY <1>1, <1>2, CellSpace
    <3> QED
      BY <1>3, <2>1, <3>1, HandleSpace
  <2>3. c \in Others(N)
    BY ONLY <1>2, <1>3, <2>2, ReadOther
  <2>4. c \in BatchCommands(Nat)
    BY <2>1, <2>3 DEF Others
  <2>5. cs \in Seq(BatchCommands(Nat))
    BY <2>1, <2>4
  <2>6. ASSUME NEW m, NEW by, m \in Machine(Resources, Cells), by \in Nat PROVE Ran(m, cs, by).mem = m.mem
    <3>1. Ran(m, cs, by) = ExecCommand(m, c, by)
      BY <2>1, RanOne
    <3>2. PICK n : n = ExecCommand(m, c, by)
      OBVIOUS
    <3>3. n.mem = m.mem
      BY <1>2, <1>3, <2>6, <3>2, ReadStep
    <3> QED
      BY <3>1, <3>2, <3>3
  <2>7. Says(a.cmds \o cs, none, k)
    BY <1>6, <2>5, <2>6, SaysQuiet DEF Saying
  <2>8. d = [cmds |-> a.cmds \o cs, st |-> a.st, heaps |-> a.heaps]
    BY <1>5, <1>6, <2>1, Added DEF Saying
  <2>9. d \in Recorder(Nat)
    BY <1>6, <2>7, <2>8 DEF Saying, Recorder, Says
  <2> QED
    BY <2>7, <2>8, <2>9 DEF Saying
<1>8. Saying(q, none, k)
  BY ONLY <1>1, <1>3, <1>5, <1>7, SayEnter
<1>9. r = [q EXCEPT !.heaps = @ \cup {LocalHeap}]
  <2>1. r0.st[h] = t
    BY <1>1, <1>2, <1>4 DEF Resting
  <2> QED
    BY <1>2, <1>5, <2>1 DEF CopyOut, Enter
<1>10. r.cmds = q.cmds
  BY <1>8, <1>9 DEF Saying, Recorder
<1> QED
  BY <1>2, <1>8, <1>10 DEF Saying

\* Nor do the transitions around a fill of the cells of x, the copy into a new buffer.
LEMMA FillSays ==
  ASSUME NEW k \in Nat, NEW x \in Resources, NEW cells \in SUBSET Cells, NEW s \in States,
         NEW cmds, cmds = <<Barrier(x, "COMMON", s), Fill(k, LocalHeap, cells), Barrier(x, s, "COMMON")>>
  PROVE  Says(cmds, <<>> \o <<Eff({}, cells)>>, k)
<1>1. PICK b, c, d, e, none :
        /\ b = Barrier(x, "COMMON", s) /\ c = Fill(k, LocalHeap, cells) /\ d = Barrier(x, s, "COMMON")
        /\ e = [in |-> {}, out |-> cells] /\ none = <<>>
  OBVIOUS
<1>2. b \in TransitionsOn(Resources) /\ d \in TransitionsOn(Resources)
  BY <1>1 DEF TransitionsOn, States
<1>3. b \in BatchCommands(Nat) /\ d \in BatchCommands(Nat)
  BY <1>1, <1>2, HandleSpace DEF BatchCommands, Commands, Touched, Barrier
<1>4. Says(none, none, k)
  BY <1>1, SaysNone
<1>5. PICK u, v, w : u = <<b>> /\ v = <<c>> /\ w = <<d>>
  OBVIOUS
<1>6. /\ u \in Seq(TransitionsOn(Resources)) /\ u \in Seq(BatchCommands(Nat))
      /\ w \in Seq(TransitionsOn(Resources)) /\ w \in Seq(BatchCommands(Nat))
  BY <1>2, <1>3, <1>5
<1>7. Says(none \o u, none, k)
  BY ONLY <1>4, <1>6, SaysBarriers
<1>8. none \o u = u
  BY <1>1, <1>6
<1>9. Says(v, <<e>>, k)
  BY <1>1, <1>5, SaysFill DEF LocalHeap
<1>10. Says(u \o v, none \o <<e>>, k)
  <2>1. Says(u, none, k)
    BY <1>7, <1>8
  <2> QED
    BY ONLY k \in Nat, <1>9, <2>1, SaysJoined
<1>11. Says((u \o v) \o w, none \o <<e>>, k)
  <2>1. PICK f, g : f = none \o <<e>> /\ g = u \o v
    OBVIOUS
  <2>2. Says(g, f, k)
    BY <1>10, <2>1
  <2>3. Says(g \o w, f, k)
    BY ONLY <1>6, <2>2, SaysBarriers
  <2> QED
    BY <2>1, <2>3
<1>12. u \o v \o w = cmds
  BY <1>1, <1>5, Three
<1> QED
  BY <1>1, <1>11, <1>12 DEF Eff

\* What a memory holds in some cells.
Held(m, X) == UNION {m[z] : z \in X}

\* These cells hold no more than W and the call v, and with the cells A exactly that.
HoldsAtMost(m, X, W, v) == \A z \in X : m[z] \subseteq W \cup {v}
HoldWith(m, X, A, W, v) == Held(m, X \cup A) \cup {v} = W \cup {v}

\* A block's result: what it reads of the chain adds nothing to its weights, its biases and
\* the call.
LEMMA BlockValue ==
  ASSUME NEW p, NEW s, Agree(p, s, Outer), NEW A, A \subseteq Outer, NEW W, W = Held(s, A),
         NEW v, NEW X, HoldsAtMost(p, X, W, v)
  PROVE  HoldWith(p, X, A, W, v)
<1>1. \A z \in A : p[z] = s[z]
  BY DEF Agree
<1>2. ASSUME NEW u \in Held(p, X \cup A) PROVE u \in W \cup {v}
  <2>1. PICK z \in X \cup A : u \in p[z]
    BY <1>2 DEF Held
  <2>2. CASE z \in A
    BY <1>1, <2>1, <2>2 DEF Held
  <2>3. CASE z \in X
    BY <2>1, <2>3 DEF HoldsAtMost
  <2> QED
    BY <2>2, <2>3
<1>3. ASSUME NEW u \in W PROVE u \in Held(p, X \cup A)
  <2>1. PICK z \in A : u \in s[z]
    BY <1>3 DEF Held
  <2>2. u \in p[z] /\ z \in X \cup A
    BY <1>1, <2>1
  <2> QED
    BY <2>2 DEF Held
<1> QED
  BY <1>2, <1>3 DEF HoldWith

\* Of a handle's cells those of callers' buffers are outer, those the chain owns are not.
LEMMA WhoseCells ==
  ASSUME HandlesOk
  PROVE  /\ \A h \in py : h \in Known /\ Elements(h) \subseteq Outer
         /\ \A g \in Owned : g \in Known /\ Elements(g) \subseteq Cells /\ Elements(g) \cap Outer = {}
<1>1. BufOk
  BY DEF HandlesOk
<1>2. ASSUME NEW h \in py PROVE h \in Known /\ Elements(h) \subseteq Outer
  <2>1. PICK g : g \in Owned
    BY DEF Owned
  <2>2. h \in Known /\ Res(h) \notin Owned
    BY <2>1, OwnedApart
  <2>3. Elements(h) \subseteq Cells /\ ResourcesOf(Elements(h)) \subseteq {Res(h)}
    BY <1>1, <2>2, CellSpace
  <2> QED
    BY <2>2, <2>3 DEF Outer, ResourcesOf
<1>3. ASSUME NEW g \in Owned PROVE g \in Known /\ Elements(g) \subseteq Cells /\ Elements(g) \cap Outer = {}
  <2>1. g \in Known /\ Res(g) = g
    BY DEF Known, Res
  <2>2. Elements(g) \subseteq Cells /\ ResourcesOf(Elements(g)) \subseteq {Res(g)}
    BY <1>1, <2>1, CellSpace
  <2> QED
    BY <2>1, <2>2 DEF Outer, ResourcesOf
<1> QED
  BY <1>2, <1>3

\* The commands of block i.
BlockList(i, k, w, b, y) == ConvSiluInto(Record0, 0, <<BlockInput(i, k, y), w, b, BlockOutput(i, k, y)>>).cmds

\* A block computes its output from its input, the weights and the biases.
LEMMA BlockSays ==
  ASSUME HandlesOk, NEW k \in Nat, NEW w \in py, NEW b \in py, NEW y \in py, NEW i \in 1 .. k,
         NEW x, x = BlockInput(i, k, y), NEW o, o = BlockOutput(i, k, y),
         NEW e, e = Eff(Elements(x) \cup (Elements(w) \cup Elements(b)), Elements(o))
  PROVE  Says(BlockList(i, k, w, b, y), <<>> \o <<e>>, 0) /\ e \in Effs
<1>1. PICK r, none, z, ins, s, c : /\ r = Record0 /\ none = <<>> /\ z = 0 /\ ins = <<x, w, b>> /\ s = {x, w, b}
                                   /\ c = Plain(r, z, ins, o)
  OBVIOUS
<1>2. BufOk /\ z \in Nat /\ Saying(r, none, z) /\ r.st = Resting
  BY <1>1, StartSays DEF HandlesOk
<1>3. x \in Known /\ w \in Known /\ b \in Known /\ o \in Known
  <2>1. x \in Owned /\ (o = y \/ o \in Owned)
    BY BlockOperands
  <2> QED
    BY <2>1, WhoseCells
<1>4. ins \in Seq(Known) /\ Range(ins) = s
  BY <1>1, <1>3, SmallSeq
<1>5. Saying(c, none \o <<Effect(Range(ins), o)>>, z)
  BY ONLY <1>1, <1>2, <1>3, <1>4, PlainSays
<1>6. BlockList(i, k, w, b, y) = c.cmds
  BY <1>1 DEF BlockList, ConvSiluInto
<1>7. Effect(s, o) = e
  <2>1. UNION {Elements(h) : h \in s} = Elements(x) \cup (Elements(w) \cup Elements(b))
    BY <1>1
  <2> QED
    BY <2>1 DEF Effect, Eff
<1>8. e \in Effs
  BY <1>2, <1>3, CellSpace DEF Eff, Effs
<1> QED
  BY <1>1, <1>4, <1>5, <1>6, <1>7, <1>8 DEF Saying

\* The commands of the blocks, and of the upload before them.
BlockLists(k, w, b, y) == [i \in 1 .. k |-> BlockList(i, k, w, b, y)]
ChainUpload == <<Barrier(ChainIn, "COMMON", "COPY_DEST"), Fill(0, LocalHeap, Elements(ChainIn)),
                 Barrier(ChainIn, "COPY_DEST", "COMMON")>>

\* The upload, then the blocks.
LEMMA ChainList ==
  ASSUME NEW k \in Nat, NEW w, NEW b, NEW y, NEW r, r = ChainCommands(Record0, k, w, b, y)
  PROVE  r.cmds = ChainUpload \o FlattenSeq(BlockLists(k, w, b, y))
<1>1. PICK r0, v, up : r0 = Record0 /\ v = BlockLists(k, w, b, y) /\ up = ChainUpload
  OBVIOUS
<1>2. r0 = [cmds |-> r0.cmds, st |-> r0.st, heaps |-> r0.heaps]
  BY <1>1 DEF Record0
<1>3. r = [r0 EXCEPT !.cmds = up \o FlattenSeq(v)]
  BY <1>1 DEF ChainCommands, BlockList, BlockLists, ChainUpload
<1> QED
  BY <1>1, <1>2, <1>3

\* The machines a chain passes through: the caller's bytes stay as they are and the input of
\* the next block holds nothing but what its weights and biases hold and the call, until
\* the last block has written the output.
ChainStage(i, k, y, s, d, W, v) ==
  IF i = k THEN {p \in Machine(Resources, Cells) : Agree(p.mem, d, Outer)}
  ELSE {p \in Machine(Resources, Cells) :
          Agree(p.mem, s, Outer) /\ \A z \in Elements(BlockInput(i + 1, k, y)) : p.mem[z] \subseteq W \cup {v}}

\* From one stage to the next.
LEMMA ChainStep ==
  ASSUME HandlesOk, NEW k \in Nat, NEW w \in py, NEW b \in py, NEW y \in py, NEW i \in 1 .. k, NEW s, NEW by \in Nat,
         NEW A, A = Elements(w) \cup Elements(b), NEW W, W = Held(s, A),
         NEW d, d = Done(s, Eff(A, Elements(y)), by),
         NEW p \in ChainStage(i - 1, k, y, s, d, W, by),
         NEW n, n = Ran(p, BlockList(i, k, w, b, y), by)
  PROVE  n \in ChainStage(i, k, y, s, d, W, by)
<1>1. PICK x, o, e : /\ x = BlockInput(i, k, y) /\ o = BlockOutput(i, k, y)
                     /\ e = Eff(Elements(x) \cup A, Elements(o))
  OBVIOUS
<1>2. i - 1 # k /\ (i - 1) + 1 = i
  OBVIOUS
<1>3. p \in Machine(Resources, Cells) /\ Agree(p.mem, s, Outer) /\ \A z \in Elements(x) : p.mem[z] \subseteq W \cup {by}
  BY <1>1, <1>2 DEF ChainStage
<1>4. Says(BlockList(i, k, w, b, y), <<>> \o <<e>>, 0) /\ e \in Effs
  BY <1>1, BlockSays
<1>5. n \in Machine(Resources, Cells) /\ n.mem = Done(p.mem, e, by)
  <2>1. n \in Machine(Resources, Cells)
    BY <1>3, <1>4, AnyRun DEF Says
  <2>2. <<>> \o <<e>> = <<e>>
    OBVIOUS
  <2>3. n.mem = Meaning(p.mem, <<e>>, Stamp(0, by))
    BY <1>3, <1>4, <2>2 DEF Says, Wrote
  <2>4. Stamp(0, by) = by
    BY DEF Stamp
  <2> QED
    BY <2>1, <2>3, <2>4, MeaningOne
<1>6. A \subseteq Outer /\ Outer \subseteq Cells /\ Elements(y) \subseteq Outer
  BY WhoseCells DEF Outer
<1>7. p.mem \in Mems /\ s \in Mems
  BY <1>3 DEF Agree
<1>8. n.mem \in Mems /\ \A z \in Cells : n.mem[z] = IF z \in Elements(o) THEN W \cup {by} ELSE p.mem[z]
  <2>1. e.in = Elements(x) \cup A /\ e.out = Elements(o) /\ e.in \subseteq Cells
    BY <1>1, <1>4 DEF Eff, Effs
  <2>2. Written(n.mem, p.mem, e.in, e.out, by)
    BY <1>5, <1>7, <2>1, DoneWrites
  <2>3. (UNION {p.mem[z] : z \in Elements(x) \cup A}) \cup {by} = W \cup {by}
    <3>1. PICK q, X : q = p.mem /\ X = Elements(x)
      OBVIOUS
    <3>2. Agree(q, s, Outer) /\ A \subseteq Outer /\ W = Held(s, A) /\ HoldsAtMost(q, X, W, by)
      BY <1>3, <1>6, <3>1 DEF HoldsAtMost
    <3>3. HoldWith(q, X, A, W, by)
      BY ONLY <3>2, BlockValue
    <3> QED
      BY <3>1, <3>3 DEF HoldWith, Held
  <2> QED
    BY <2>1, <2>2, <2>3 DEF Written
<1>9. d \in Mems /\ \A z \in Cells : d[z] = IF z \in Elements(y) THEN W \cup {by} ELSE s[z]
  <2>1. PICK f : f = Eff(A, Elements(y)) /\ f.in = A /\ f.out = Elements(y)
    BY DEF Eff
  <2>2. f.in \subseteq Cells
    BY <1>6, <2>1
  <2>3. Written(d, s, f.in, f.out, by)
    BY <1>7, <2>1, <2>2, DoneWrites
  <2> QED
    BY <2>1, <2>3 DEF Written, Held
<1>10. CASE i = k
  <2>1. o = y
    BY <1>1, <1>10 DEF BlockOutput
  <2>2. \A z \in Outer : n.mem[z] = d[z]
    BY <1>3, <1>6, <1>8, <1>9, <2>1 DEF Agree
  <2> QED
    BY <1>5, <1>8, <1>9, <1>10, <2>2 DEF ChainStage, Agree
<1>11. CASE i # k
  <2>1. o \in Owned /\ BlockInput(i + 1, k, y) = o
    <3>1. o \in {Arena[0], Arena[(i - 1) % 2]}
      BY <1>1, <1>11 DEF BlockOutput
    <3>2. (i - 1) % 2 = 0 \/ (i - 1) % 2 = 1
      OBVIOUS
    <3>3. o \in Owned
      BY <3>1, <3>2 DEF Owned
    <3>4. i + 1 # 1 /\ (i + 1) - 1 = i
      OBVIOUS
    <3> QED
      BY <1>1, <3>3, <3>4 DEF BlockInput
  <2>2. Elements(o) \subseteq Cells /\ Elements(o) \cap Outer = {}
    BY <2>1, WhoseCells
  <2>3. \A z \in Outer : n.mem[z] = s[z]
    BY <1>3, <1>6, <1>8, <2>2 DEF Agree
  <2>4. \A z \in Elements(o) : n.mem[z] \subseteq W \cup {by}
    BY <1>8, <2>2
  <2> QED
    BY <1>5, <1>7, <1>8, <1>11, <2>1, <2>3, <2>4 DEF ChainStage, Agree
<1> QED
  BY <1>10, <1>11

\* A chain means, for the caller, a result computed from the weights and the biases.
LEMMA ChainMeans ==
  ASSUME HandlesOk, NEW k \in Nat, k >= 1, NEW w \in py, NEW b \in py, NEW y \in py,
         NEW r, r = ChainCommands(Record0, k, w, b, y)
  PROVE  Means(r.cmds, <<Effect({w, b}, y)>>, 0)
<1>1. PICK up, v, f, cells, c :
        /\ up = <<Barrier(ChainIn, "COMMON", "COPY_DEST"), Fill(0, LocalHeap, Elements(ChainIn)),
                  Barrier(ChainIn, "COPY_DEST", "COMMON")>>
        /\ v = [i \in 1 .. k |-> BlockList(i, k, w, b, y)] /\ f = FlattenSeq(v)
        /\ cells = Elements(ChainIn) /\ c = Eff({}, cells)
  OBVIOUS
<1>2. r.cmds = up \o f
  <2>1. r.cmds = ChainUpload \o FlattenSeq(BlockLists(k, w, b, y))
    BY ChainList
  <2> QED
    BY <1>1, <2>1 DEF ChainUpload, BlockLists
<1>3. BufOk /\ ChainIn \in Owned /\ ChainIn \in Resources /\ cells \subseteq Cells /\ cells \cap Outer = {}
  BY <1>1, WhoseCells DEF HandlesOk, Owned, Resources
<1>4. Says(up, <<>> \o <<c>>, 0)
  <2>1. PICK z, x, s : z = 0 /\ x = ChainIn /\ s = "COPY_DEST"
    OBVIOUS
  <2>2. z \in Nat /\ x \in Resources /\ cells \in SUBSET Cells /\ s \in States
    BY <1>3, <2>1 DEF States
  <2>3. up = <<Barrier(x, "COMMON", s), Fill(z, LocalHeap, cells), Barrier(x, s, "COMMON")>>
    BY <1>1, <2>1
  <2>4. Says(up, <<>> \o <<Eff({}, cells)>>, z)
    BY ONLY <2>2, <2>3, FillSays
  <2> QED
    BY <1>1, <2>1, <2>4
<1>5. v \in Seq(Seq(BatchCommands(Nat))) /\ Len(v) = k
  <2>1. ASSUME NEW i \in 1 .. k PROVE v[i] \in Seq(BatchCommands(Nat))
    <3>1. PICK x, o, e : /\ x = BlockInput(i, k, y) /\ o = BlockOutput(i, k, y)
                         /\ e = Eff(Elements(x) \cup (Elements(w) \cup Elements(b)), Elements(o))
      OBVIOUS
    <3>2. Says(BlockList(i, k, w, b, y), <<>> \o <<e>>, 0)
      BY <3>1, BlockSays
    <3> QED
      BY <1>1, <3>2 DEF Says
  <2>2. PICK T : T = Seq(BatchCommands(Nat))
    OBVIOUS
  <2>3. v \in [1 .. k -> T]
    BY <1>1, <2>1, <2>2
  <2>4. v \in Seq(T) /\ Len(v) = k
    BY ONLY k \in Nat, <2>3, Mapped
  <2> QED
    BY <2>2, <2>4
<1>6. up \in Seq(BatchCommands(Nat)) /\ f \in Seq(BatchCommands(Nat)) /\ r.cmds \in Seq(BatchCommands(Nat))
  <2>1. up \in Seq(BatchCommands(Nat))
    BY <1>4 DEF Says
  <2>2. f \in Seq(BatchCommands(Nat))
    <3>1. PICK P : P = [i \in 0 .. k |-> Seq(BatchCommands(Nat))]
      OBVIOUS
    <3>2. <<>> \in P[0]
      BY <3>1
    <3>3. ASSUME NEW i \in 1 .. Len(v), NEW q \in P[i - 1], q \in Seq(BatchCommands(Nat)) PROVE q \o v[i] \in P[i]
      <4>1. v[i] \in Seq(BatchCommands(Nat)) /\ i \in 0 .. k
        BY <1>5, <3>3, ElementOfSeq
      <4> QED
        BY <3>1, <3>3, <4>1, ConcatProperties
    <3>4. FlattenSeq(v) \in Seq(BatchCommands(Nat))
      BY ONLY <1>5, <3>2, <3>3, FlattenStages
    <3> QED
      BY <1>1, <3>4
  <2> QED
    BY <1>2, <2>1, <2>2, ConcatProperties
<1>7. PICK A, g, I : A = Elements(w) \cup Elements(b) /\ g = Eff(A, Elements(y)) /\ I = {w, b}
  OBVIOUS
<1>8. Effect(I, y) = g /\ g \in OuterEffs
  <2>1. UNION {Elements(h) : h \in I} = A
    BY <1>7
  <2>2. A \subseteq Outer /\ Elements(y) \subseteq Cells
    BY <1>7, WhoseCells DEF Outer
  <2> QED
    BY <1>7, <2>1, <2>2 DEF Effect, Eff, OuterEffs
<1>9. ASSUME NEW m, NEW s, NEW by, m \in Machine(Resources, Cells), by \in Nat, Agree(m.mem, s, Outer)
      PROVE  Agree(Ran(m, r.cmds, by).mem, Meaning(s, <<g>>, Stamp(0, by)), Outer)
  <2>1. PICK W, d, p : W = Held(s, A) /\ d = Done(s, g, by) /\ p = Ran(m, up, by)
    OBVIOUS
  <2>2. PICK Q : Q = [i \in 0 .. k |-> ChainStage(i, k, y, s, d, W, by)]
    OBVIOUS
  <2>3. p \in Machine(Resources, Cells) /\ p.mem = Done(m.mem, c, by)
    <3>1. p \in Machine(Resources, Cells)
      BY <1>6, <1>9, <2>1, AnyRun
    <3>2. <<>> \o <<c>> = <<c>>
      OBVIOUS
    <3>3. p.mem = Meaning(m.mem, <<c>>, Stamp(0, by))
      BY <1>4, <1>9, <2>1, <3>2 DEF Says, Wrote
    <3>4. Stamp(0, by) = by
      BY DEF Stamp
    <3> QED
      BY <3>1, <3>3, <3>4, MeaningOne
  <2>4. p.mem \in Mems /\ \A z \in Cells : p.mem[z] = IF z \in cells THEN {by} ELSE m.mem[z]
    <3>1. c.in = {} /\ c.out = cells
      BY <1>1 DEF Eff
    <3>2. m.mem \in Mems /\ c.in \subseteq Cells
      BY <1>9, <3>1 DEF Agree
    <3>3. Written(p.mem, m.mem, c.in, c.out, by)
      BY ONLY <1>9, <2>3, <3>2, DoneWrites
    <3>4. (UNION {m.mem[z] : z \in c.in}) \cup {by} = {by}
      BY <3>1
    <3> QED
      BY <3>1, <3>3, <3>4 DEF Written
  <2>5. p \in Q[0]
    <3>1. 0 # k /\ 0 \in 0 .. k /\ BlockInput(0 + 1, k, y) = ChainIn
      BY DEF BlockInput
    <3>2. \A z \in Outer : p.mem[z] = s[z]
      BY <1>3, <1>9, <2>4 DEF Agree, Outer
    <3>3. Agree(p.mem, s, Outer)
      BY <1>9, <2>4, <3>2 DEF Agree
    <3>4. \A z \in cells : p.mem[z] \subseteq W \cup {by}
      BY <1>3, <2>4
    <3>5. p \in ChainStage(0, k, y, s, d, W, by)
      BY <1>1, <2>3, <3>1, <3>3, <3>4 DEF ChainStage
    <3> QED
      BY <2>2, <3>1, <3>5
  <2>6. ASSUME NEW i \in 1 .. Len(v), NEW q \in Q[i - 1] PROVE Ran(q, v[i], by) \in Q[i]
    <3>1. i \in 1 .. k /\ i \in 0 .. k /\ i - 1 \in 0 .. k
      BY <1>5, <2>6
    <3>2. q \in ChainStage(i - 1, k, y, s, d, W, by)
      BY <2>2, <2>6, <3>1
    <3>3. PICK n : n = Ran(q, BlockList(i, k, w, b, y), by)
      OBVIOUS
    <3>4. d = Done(s, Eff(A, Elements(y)), by)
      BY <1>7, <2>1
    <3>5. n \in ChainStage(i, k, y, s, d, W, by)
      BY <1>7, <1>9, <2>1, <3>1, <3>2, <3>3, <3>4, ChainStep
    <3> QED
      BY <1>1, <2>2, <3>1, <3>3, <3>5
  <2>7. Ran(p, FlattenSeq(v), by) \in Q[Len(v)]
    BY ONLY <1>5, <2>5, <2>6, RanFlatten
  <2>8. Ran(p, f, by) \in ChainStage(k, k, y, s, d, W, by)
    BY <1>1, <1>5, <2>2, <2>7
  <2>9. Agree(Ran(p, f, by).mem, d, Outer)
    BY <2>8 DEF ChainStage
  <2>10. Ran(m, r.cmds, by) = Ran(p, f, by)
    BY <1>2, <1>6, <2>1, RanConcat
  <2>11. Meaning(s, <<g>>, Stamp(0, by)) = d
    <3>1. Stamp(0, by) = by
      BY DEF Stamp
    <3> QED
      BY <2>1, <3>1, MeaningOne
  <2> QED
    BY <2>9, <2>10, <2>11
<1>10. Means(r.cmds, <<g>>, 0)
  <2>1. <<g>> \in Seq(OuterEffs)
    BY <1>8
  <2> QED
    BY <1>6, <1>9, <2>1 DEF Means, Wreaks
<1> QED
  BY <1>7, <1>8, <1>10

------------------------------------------------------------------------------
(* Memory between calls                                                       *)

\* Callers give the decodes buffers that start where their resource does.
DecodesWhole == \A kind \in DOMAIN Args : \A a \in Args[kind] : Range(a) \subseteq py => WholeOperands(kind, a)

\* Unless a call has failed, the bytes of callers are what they mean outside a scope and
\* while a graph is recorded, and will be so when the list of a batch has run.
MemoryOk ==
  ~failed =>
    /\ ~batch \/ (prepared /\ list.open) => Agree(mem, spec, Outer)
    /\ batch /\ ~prepared /\ list.open => Yields(list.cmds, mem, spec)

\* What is recorded of a graph does what its calls mean.
ScopeOk == (prepared => batch) /\ (prepared /\ list.open => Means(list.cmds, list.does, 0))

\* The prepared dispatch does what it means.
DispMeans == disp.kind # "none" => \A k \in 0 .. Ring - 1 : Means(disp.lists[k], disp.does, 0)

\* So does the prepared graph.
MemoryInv == MemoryOk /\ ScopeOk /\ Means(graph.cmds, graph.does, 0) /\ DispMeans

\* A submission leaves what the commands make of the memory.
LEMMA SubmitRan ==
  ASSUME HandlesOk, GpuOk, DispOk, NEW extra \in SUBSET Nat, NEW by \in Nat, NEW cmds \in Seq(BatchCommands(Nat)),
         Submit(cmds, by, extra)
  PROVE  \E m \in Machine(Resources, Cells) : m.mem = mem /\ mem' = Ran(m, cmds, by).mem
<1>1. PICK m : m = Before(extra)
  OBVIOUS
<1>2. m \in Machine(Resources, Cells) /\ m.mem = mem
  BY <1>1, KeptSpace DEF Before, Machine, GpuOk, Resting, Wrongs, States
<1>3. PICK p : p = Fault(m, "freed", ~(AllTouched(cmds) \subseteq m.live))
  OBVIOUS
<1>4. p \in Machine(Resources, Cells) /\ p.mem = mem
  <2>1. p = m \/ p = [m EXCEPT !.faults = @ \cup {"freed"}]
    BY <1>3 DEF Fault
  <2>2. "freed" \in Wrongs
    BY DEF FaultKinds, Wrongs
  <2>3. CASE p = m
    BY <1>2, <2>3
  <2>4. CASE p = [m EXCEPT !.faults = @ \cup {"freed"}]
    BY <1>2, <2>2, <2>4 DEF Machine
  <2> QED
    BY <2>1, <2>3, <2>4
<1>5. PICK n : n = Ran(p, cmds, by)
  OBVIOUS
<1>6. n \in Machine(Resources, Cells)
  BY <1>4, <1>5, AnyRun
<1>7. mem' = n.mem
  <2>1. Execute(m, cmds, by) = [n EXCEPT !.dirty = {}]
    BY <1>3, <1>5 DEF Execute, Ran
  <2>2. mem' = Execute(m, cmds, by).mem
    BY <1>1 DEF Submit
  <2> QED
    BY <1>6, <2>1, <2>2 DEF Machine
<1> QED
  BY <1>4, <1>5, <1>7

\* A submission of commands that yield a memory yields it,
LEMMA SubmitYields ==
  ASSUME HandlesOk, GpuOk, DispOk, NEW extra \in SUBSET Nat, NEW by \in Nat, NEW cmds \in Seq(BatchCommands(Nat)),
         Submit(cmds, by, extra), NEW s, Yields(cmds, mem, s)
  PROVE  Agree(mem', s, Outer)
<1>1. PICK m \in Machine(Resources, Cells) : m.mem = mem /\ mem' = Ran(m, cmds, by).mem
  BY SubmitRan
<1> QED
  BY <1>1 DEF Yields

\* and one of commands that mean some effects has these effects.
LEMMA SubmitMeans ==
  ASSUME HandlesOk, GpuOk, DispOk, NEW extra \in SUBSET Nat, NEW by \in Nat, NEW cmds, NEW does, NEW k \in Nat,
         Means(cmds, does, k), k = 0 \/ k = by, Submit(cmds, by, extra), NEW s, Agree(mem, s, Outer)
  PROVE  Agree(mem', Meaning(s, does, by), Outer)
<1>1. cmds \in Seq(BatchCommands(Nat))
  BY DEF Means
<1>2. PICK m \in Machine(Resources, Cells) : m.mem = mem /\ mem' = Ran(m, cmds, by).mem
  BY <1>1, SubmitRan
<1>3. Stamp(k, by) = by
  BY DEF Stamp
<1>4. Agree(Ran(m, cmds, by).mem, Meaning(s, does, Stamp(k, by)), Outer)
  BY <1>2 DEF Means, Wreaks
<1> QED
  BY <1>2, <1>3, <1>4

\* The recorded lists of graphs and dispatches stay what they mean.
LEMMA MemoryFrom ==
  ASSUME MemoryInv, MemoryOk', ScopeOk', graph' = graph \/ Means(graph'.cmds, graph'.does, 0),
         disp' = disp \/ \A k \in 0 .. Ring - 1 : Means(disp'.lists[k], disp'.does, 0)
  PROVE  MemoryInv'
<1>1. Means(graph'.cmds, graph'.does, 0)
  BY DEF MemoryInv
<1>2. DispMeans'
  BY DEF MemoryInv, DispMeans
<1> QED
  BY <1>1, <1>2 DEF MemoryInv

\* A dispatch takes effect where it stands, or whenever the graph it is recorded in runs.
LEMMA InvokeMemory ==
  ASSUME BatchInv, MemoryInv, OutputsApart, DecodesWhole, NEW kind \in DOMAIN Args, NEW a \in Args[kind], Invoke(kind, a)
  PROVE  MemoryInv'
<1>1. HandlesOk /\ GpuOk /\ ListOk /\ DispOk /\ calls \in Nat /\ BufOk
  BY DEF BatchInv, HandlesOk
<1>2. PICK n, by : n = calls + 1 /\ by = (IF prepared THEN 0 ELSE n)
  OBVIOUS
<1>3. n \in Nat /\ by \in Nat /\ n # 0
  BY <1>1, <1>2
<1>4. PICK r0, r, does : r0 = Record0 /\ r = Recorded(Record0, kind, by, n, a) /\ does = Meant(kind, a)
  OBVIOUS
<1>5. /\ Range(a) \subseteq py
      /\ IF batch THEN Join(r, does) ELSE Submit(r.cmds, n, r.heaps) /\ UNCHANGED <<list, heaps>>
      /\ spec' = IF prepared THEN spec ELSE Meaning(spec, does, n)
      /\ UNCHANGED <<buf, py, batch, prepared, graph, disp, failed>>
  BY <1>2, <1>4 DEF Invoke
<1>6. Means(r.cmds, does, by)
  <2>1. a \in Seq(Handles) /\ Len(a) \in Arity(kind)
    BY KnownArgs
  <2>2. WritesApart(kind, a) /\ WholeOperands(kind, a)
    BY <1>5 DEF OutputsApart, DecodesWhole
  <2>3. r = Recorded(Record0, kind, by, n, a)
    BY <1>4
  <2>4. Means(r.cmds, Meant(kind, a), by)
    BY ONLY <1>1, <1>3, <1>5, <2>1, <2>2, <2>3, RecordedMeans
  <2> QED
    BY <1>4, <2>4
<1>7. r.heaps \in SUBSET Nat
  <2>1. Records(r0, PyRes, {}) /\ a \in Seq(Near(PyRes)) /\ Len(a) \in Arity(kind) /\ r = Recorded(r0, kind, by, n, a)
    BY <1>1, <1>4, <1>5, Starts, KnownArgs, OperandsNear
  <2>2. Recording(r0, r, PyRes)
    BY ONLY <1>1, <1>3, <2>1, RecordedRecords
  <2> QED
    BY ONLY <1>1, <2>2, RecordedList
<1>8. list.cmds \in Seq(BatchCommands(Nat))
  <2>1. PICK X : X = Within(PyRes \cup heaps) /\ list.cmds \in RestingLists(X)
    BY <1>1 DEF ListOk
  <2>2. X \subseteq Nat
    BY <1>1, <2>1, KeptSpace DEF Within, ListOk
  <2> QED
    BY <2>1, <2>2, CommandsIn DEF RestingLists
<1>9. MemoryOk /\ ScopeOk
  BY DEF MemoryInv
<1>10. CASE batch
  <2>1. /\ UNCHANGED mem /\ UNCHANGED <<batch, prepared, failed>>
        /\ list' = IF list.open THEN [list EXCEPT !.cmds = @ \o r.cmds,
                                                  !.does = IF prepared THEN @ \o does ELSE @]
                   ELSE list
    BY <1>5, <1>10 DEF Join, gpuVars
  <2>2. list = [open |-> list.open, cmds |-> list.cmds, does |-> list.does]
    BY <1>1 DEF ListOk
  <2>3. CASE list.open
    <3>1. list' = [open |-> list.open, cmds |-> list.cmds \o r.cmds,
                   does |-> IF prepared THEN list.does \o does ELSE list.does]
      BY <2>1, <2>2, <2>3
    <3>2. CASE prepared
      <4>1. Means(list.cmds, list.does, 0) /\ (~failed => Agree(mem, spec, Outer))
        BY <1>9, <2>3, <3>2 DEF MemoryOk, ScopeOk
      <4>2. PICK k : k = 0 /\ k \in Nat
        OBVIOUS
      <4>3. Means(r.cmds, does, k) /\ Means(list.cmds, list.does, k)
        BY <1>2, <1>6, <3>2, <4>1, <4>2
      <4>4. Means(list.cmds \o r.cmds, list.does \o does, k)
        BY ONLY <4>2, <4>3, MeansJoined
      <4>5. list'.cmds = list.cmds \o r.cmds /\ list'.does = list.does \o does
        BY <3>1, <3>2
      <4>6. Means(list'.cmds, list'.does, 0)
        BY <4>2, <4>4, <4>5
      <4>7. MemoryOk' /\ ScopeOk'
        BY <1>5, <1>10, <2>1, <3>2, <4>1, <4>6 DEF MemoryOk, ScopeOk
      <4> QED
        BY <1>5, <4>7, MemoryFrom
    <3>3. CASE ~prepared /\ failed
      <4>1. MemoryOk' /\ ScopeOk'
        BY <1>5, <2>1, <3>3 DEF MemoryOk, ScopeOk
      <4> QED
        BY <1>5, <4>1, MemoryFrom
    <3>4. CASE ~prepared /\ ~failed
      <4>1. Yields(list.cmds, mem, spec)
        BY <1>9, <1>10, <2>3, <3>4 DEF MemoryOk
      <4>2. Means(r.cmds, does, n)
        BY <1>2, <1>6, <3>4
      <4>3. PICK c, d, m, s : c = list.cmds /\ d = r.cmds /\ m = mem /\ s = spec
        OBVIOUS
      <4>4. c \in Seq(BatchCommands(Nat)) /\ Yields(c, m, s) /\ Means(d, does, n)
        BY <1>8, <4>1, <4>2, <4>3
      <4>5. Yields(c \o d, m, Meaning(s, does, n))
        BY ONLY <1>3, <4>4, YieldsJoined
      <4>6. list'.cmds = c \o d /\ spec' = Meaning(s, does, n) /\ mem' = m
        <5>1. list'.cmds = list.cmds \o r.cmds
          BY <3>1
        <5>2. spec' = Meaning(spec, does, n)
          BY <1>5, <3>4
        <5> QED
          BY <2>1, <4>3, <5>1, <5>2
      <4>7. Yields(list'.cmds, mem', spec')
        BY <4>5, <4>6
      <4>8. MemoryOk' /\ ScopeOk'
        BY <1>5, <1>10, <2>1, <3>4, <4>7 DEF MemoryOk, ScopeOk
      <4> QED
        BY <1>5, <4>8, MemoryFrom
    <3> QED
      BY <3>2, <3>3, <3>4
  <2>4. CASE ~list.open
    <3>1. list'.open = list.open
      BY <2>1, <2>2
    <3>2. MemoryOk' /\ ScopeOk'
      BY <1>5, <1>9, <1>10, <2>1, <2>4, <3>1 DEF MemoryOk, ScopeOk
    <3> QED
      BY <1>5, <3>2, MemoryFrom
  <2> QED
    BY <2>3, <2>4
<1>11. CASE ~batch
  <2>1. ~prepared /\ by = n /\ spec' = Meaning(spec, does, n)
    BY <1>2, <1>5, <1>9, <1>11 DEF ScopeOk
  <2>2. ASSUME ~failed PROVE Agree(mem', spec', Outer)
    <3>1. PICK c, H, s : c = r.cmds /\ H = r.heaps /\ s = spec
      OBVIOUS
    <3>2. Submit(c, n, H) /\ Means(c, does, n) /\ H \in SUBSET Nat /\ Agree(mem, s, Outer)
      BY <1>5, <1>6, <1>7, <1>9, <1>11, <2>1, <2>2, <3>1 DEF MemoryOk
    <3>3. Agree(mem', Meaning(s, does, n), Outer)
      BY ONLY <1>1, <1>3, <3>2, SubmitMeans
    <3> QED
      BY <2>1, <3>1, <3>3
  <2>3. MemoryOk' /\ ScopeOk'
    BY <1>5, <1>11, <2>1, <2>2 DEF MemoryOk, ScopeOk
  <2> QED
    BY <1>5, <2>3, MemoryFrom
<1> QED
  BY <1>10, <1>11

\* Commands with the stamp of a call yield what the call means.
LEMMA MeansYields ==
  ASSUME NEW b, NEW s, Agree(b, s, Outer), NEW k \in Nat, k # 0, NEW c, NEW does, Means(c, does, k)
  PROVE  Yields(c, b, Meaning(s, does, k))
<1>1. Yields(<<>>, b, s)
  BY YieldsNone
<1>2. PICK none : none = <<>>
  OBVIOUS
<1>3. Yields(none \o c, b, Meaning(s, does, k))
  <2>1. none \in Seq(BatchCommands(Nat)) /\ Yields(none, b, s)
    BY <1>1, <1>2
  <2> QED
    BY ONLY k \in Nat, k # 0, Means(c, does, k), <2>1, YieldsJoined
<1>4. none \o c = c
  BY <1>2 DEF Means
<1> QED
  BY <1>3, <1>4

\* A copy takes effect at once outside a scope, and closes the list of an open one: what it
\* drops later calls the end of the scope reports.
LEMMA TransferMemory ==
  ASSUME BatchInv, MemoryInv, NEW r, NEW does, NEW n \in Nat, NEW k \in Nat, k # 0, r.heaps \in SUBSET Nat,
         Means(r.cmds, does, k), Meaning(spec, does, k) = Meaning(spec, does, n), Transfer(r, does, n)
  PROVE  MemoryInv'
<1>1. HandlesOk /\ GpuOk /\ ListOk /\ DispOk
  BY DEF BatchInv
<1>2. /\ UNCHANGED <<batch, prepared, graph, disp>> /\ spec' = Meaning(spec, does, n)
      /\ IF batch
         THEN IF list.open
              THEN list' = Closed
              ELSE failed' = TRUE /\ UNCHANGED <<gpuVars, list>>
         ELSE Submit(r.cmds, n, r.heaps) /\ UNCHANGED <<list, failed>>
  BY DEF Transfer
<1>3. MemoryOk /\ ScopeOk
  BY DEF MemoryInv
<1>4. CASE batch
  <2>1. failed' \/ ~list'.open
    BY <1>2, <1>4 DEF Closed
  <2>2. list' = list \/ ~list'.open
    BY <1>2, <1>4 DEF Closed
  <2>3. MemoryOk' /\ ScopeOk'
    BY <1>2, <1>3, <1>4, <2>1, <2>2 DEF MemoryOk, ScopeOk
  <2> QED
    BY <1>2, <2>3, MemoryFrom
<1>5. CASE ~batch
  <2>1. ASSUME ~failed PROVE Agree(mem', spec', Outer)
    <3>1. PICK c, H, s, d, b : c = r.cmds /\ H = r.heaps /\ s = spec /\ d = Meaning(spec, does, k) /\ b = mem
      OBVIOUS
    <3>2. Submit(c, n, H) /\ Means(c, does, k) /\ H \in SUBSET Nat /\ Agree(b, s, Outer)
      BY <1>2, <1>3, <1>5, <2>1, <3>1 DEF MemoryOk
    <3>3. Yields(c, b, Meaning(s, does, k))
      BY ONLY k \in Nat, k # 0, <3>2, MeansYields
    <3>4. Yields(c, mem, d) /\ c \in Seq(BatchCommands(Nat))
      BY <3>1, <3>2, <3>3 DEF Means
    <3>5. Agree(mem', d, Outer)
      BY ONLY <1>1, n \in Nat, <3>2, <3>4, SubmitYields
    <3> QED
      BY <1>2, <3>1, <3>5
  <2>2. MemoryOk' /\ ScopeOk'
    BY <1>2, <1>3, <1>5, <2>1 DEF MemoryOk, ScopeOk
  <2> QED
    BY <1>2, <2>2, MemoryFrom
<1> QED
  BY <1>4, <1>5

\* A copy into a handle.
LEMMA UploadIntoMemory ==
  ASSUME BatchInv, MemoryInv, NEW h \in Handles, UploadInto(h)
  PROVE  MemoryInv'
<1>1. HandlesOk /\ calls \in Nat /\ BufOk
  BY DEF BatchInv, HandlesOk
<1>2. PICK n, e, does, r, t : /\ n = calls + 1 /\ e = Effect({}, h) /\ does = <<e>> /\ r = CopyIn(Record0, h, Elements(h), n)
                              /\ t = {"misstated"}
  OBVIOUS
<1>3. h \in py /\ n \in Nat /\ n # 0 /\ Transfer(r, does, n)
  BY <1>1, <1>2 DEF UploadInto
<1>4. Means(r.cmds, does, n)
  <2>1. Says(r.cmds, <<>> \o <<Effect({}, h)>>, n)
    BY ONLY <1>1, <1>2, <1>3, CopyInSays
  <2>2. <<>> \o <<e>> = <<e>>
    OBVIOUS
  <2>3. Says(r.cmds, does, n)
    BY <1>2, <2>1, <2>2
  <2>4. e \in OuterEffs
    <3>1. PICK I : I = {}
      OBVIOUS
    <3>2. I \subseteq py /\ h \in Known
      BY <1>1, <1>3, <3>1 DEF HandlesOk, Known
    <3>3. Effect(I, h) \in OuterEffs
      BY ONLY <1>1, <3>2, EffectOuter
    <3> QED
      BY <1>2, <3>1, <3>3
  <2>5. does \in Seq(OuterEffs)
    BY <1>2, <2>4
  <2> QED
    BY <1>3, <2>3, <2>5, SaysMeans
<1>5. r.heaps \in SUBSET Nat
  <2>1. PICK s, c, q, r0 : /\ s = "COPY_DEST" /\ c = Fill(n, LocalHeap, Elements(h)) /\ r0 = Record0
                           /\ q = Enter(Add(Enter(r0, h, s), c), h, r0.st[h])
    OBVIOUS
  <2>2. r = [q EXCEPT !.heaps = @ \cup {LocalHeap}]
    BY <1>2, <2>1 DEF CopyIn
  <2>3. Copies(Res(h), s, c)
    <3>1. h \in Known
      BY <1>1, <1>3 DEF HandlesOk, Known
    <3>2. PICK cells : cells = Elements(h)
      OBVIOUS
    <3>3. cells \in SUBSET Cells /\ ResourcesOf(cells) \subseteq {Res(h)} /\ LocalHeap \in Nat
      BY <1>1, <3>1, <3>2, CellSpace DEF LocalHeap
    <3> QED
      BY <1>3, <2>1, <3>2, <3>3 DEF Copies
  <2>4. q.heaps = {} /\ q = [cmds |-> q.cmds, st |-> q.st, heaps |-> q.heaps]
    BY ONLY <1>1, <1>3, <2>1, <2>3, CopiedClean
  <2> QED
    BY <2>2, <2>4 DEF LocalHeap
<1> QED
  BY <1>3, <1>4, <1>5, TransferMemory

\* A copy out of a handle.
LEMMA DownloadMemory ==
  ASSUME BatchInv, MemoryInv, NEW h \in Handles, Download(h)
  PROVE  MemoryInv'
<1>1. HandlesOk /\ calls \in Nat /\ BufOk
  BY DEF BatchInv, HandlesOk
<1>2. PICK does, r, k : does = <<>> /\ r = CopyOut(Record0, h, Elements(h)) /\ k = 1
  OBVIOUS
<1>3. h \in py /\ k \in Nat /\ k # 0 /\ Transfer(r, does, calls)
  BY <1>1, <1>2 DEF Download
<1>4. Means(r.cmds, does, k)
  <2>1. Says(r.cmds, <<>>, k)
    BY ONLY <1>1, <1>2, <1>3, CopyOutSays
  <2>2. does \in Seq(OuterEffs)
    BY <1>2
  <2> QED
    BY <1>2, <1>3, <2>1, <2>2, SaysMeans
<1>5. r.heaps \in SUBSET Nat
  <2>1. PICK s, c, q, r0 : /\ s = "COPY_SOURCE" /\ c = ReadBack(LocalHeap, Elements(h)) /\ r0 = Record0
                           /\ q = Enter(Add(Enter(r0, h, s), c), h, r0.st[h])
    OBVIOUS
  <2>2. r = [q EXCEPT !.heaps = @ \cup {LocalHeap}]
    BY <1>2, <2>1 DEF CopyOut
  <2>3. Copies(Res(h), s, c)
    <3>1. h \in Known
      BY <1>1, <1>3 DEF HandlesOk, Known
    <3>2. PICK cells : cells = Elements(h)
      OBVIOUS
    <3>3. cells \in SUBSET Cells /\ ResourcesOf(cells) \subseteq {Res(h)} /\ LocalHeap \in Nat
      BY <1>1, <3>1, <3>2, CellSpace DEF LocalHeap
    <3> QED
      BY <1>3, <2>1, <3>2, <3>3 DEF Copies
  <2>4. q.heaps = {} /\ q = [cmds |-> q.cmds, st |-> q.st, heaps |-> q.heaps]
    BY ONLY <1>1, <1>3, <2>1, <2>3, CopiedClean
  <2> QED
    BY <2>2, <2>4 DEF LocalHeap
<1>6. Meaning(spec, does, k) = Meaning(spec, does, calls)
  BY <1>2, MeaningNone
<1> QED
  BY <1>1, <1>3, <1>4, <1>5, <1>6, TransferMemory

\* A new buffer and the copy into it.
LEMMA UploadNewMemory ==
  ASSUME BatchInv, MemoryInv, NEW h \in Handles, UploadNew(h)
  PROVE  MemoryInv'
<1>1. calls \in Nat
  BY DEF BatchInv
<1>2. PICK n, cells, e, s, cmds, does, r :
        /\ n = calls + 1 /\ cells = {h} \X (0 .. Width - 1) /\ e = [in |-> {}, out |-> cells] /\ does = <<e>> /\ s = "COPY_DEST"
        /\ cmds = <<Barrier(h, "COMMON", s), Fill(n, LocalHeap, cells), Barrier(h, s, "COMMON")>>
        /\ r = [cmds |-> cmds, heaps |-> {LocalHeap, h}]
  OBVIOUS
<1>3. Transfer(r, does, n) /\ n \in Nat /\ n # 0
  BY <1>1, <1>2 DEF UploadNew
<1>4. h \in Resources /\ h \in Nat /\ LocalHeap \in Nat /\ s \in States
  BY <1>2, HandleSpace DEF LocalHeap, States
<1>5. cells \in SUBSET Cells
  BY <1>2, <1>4 DEF Cells
<1>6. Means(r.cmds, does, n)
  <2>1. Says(cmds, <<>> \o <<Eff({}, cells)>>, n)
    BY ONLY <1>2, <1>3, <1>4, <1>5, FillSays
  <2>2. <<>> \o <<e>> = <<e>> /\ Eff({}, cells) = e
    BY <1>2 DEF Eff
  <2>3. Says(r.cmds, does, n)
    BY <1>2, <2>1, <2>2
  <2>4. e \in OuterEffs
    BY <1>2, <1>5 DEF OuterEffs
  <2>5. does \in Seq(OuterEffs)
    BY <1>2, <2>4
  <2> QED
    BY <1>3, <2>3, <2>5, SaysMeans
<1>7. r.heaps \in SUBSET Nat
  BY <1>2, <1>4
<1> QED
  BY <1>3, <1>6, <1>7, TransferMemory

\* Handles that come and go change no byte.
LEMMA HandlesMemory ==
  ASSUME MemoryInv, UNCHANGED <<list, batch, prepared, graph, disp, mem, spec, failed>>
  PROVE  MemoryInv'
<1>1. MemoryOk' /\ ScopeOk'
  BY DEF MemoryInv, MemoryOk, ScopeOk
<1> QED
  BY <1>1, MemoryFrom

\* Nor does a scope that opens.
LEMMA BeginMemory ==
  ASSUME MemoryInv, BeginBatch \/ BeginPrepared
  PROVE  MemoryInv'
<1>1. /\ ~batch /\ list' = Opened /\ batch' /\ UNCHANGED <<graph, disp, mem, spec, failed>>
      /\ prepared' = prepared \/ prepared' = TRUE
  BY DEF BeginBatch, BeginPrepared, gpuVars
<1>2. ScopeOk /\ (~failed => Agree(mem, spec, Outer))
  BY <1>1 DEF MemoryInv, MemoryOk
<1>3. list'.cmds = <<>> /\ list'.does = <<>>
  BY <1>1 DEF Opened
<1>4. Means(list'.cmds, list'.does, 0)
  <2>1. Means(<<>>, <<>>, 0)
    BY MeansNone
  <2> QED
    BY <1>3, <2>1
<1>5. ~failed => Yields(list'.cmds, mem, spec)
  BY <1>2, <1>3, YieldsNone
<1>6. MemoryOk' /\ ScopeOk'
  BY <1>1, <1>2, <1>4, <1>5 DEF MemoryOk, ScopeOk
<1> QED
  BY <1>1, <1>6, MemoryFrom

\* The list of a scope in a form the submission lemmas take.
LEMMA ListCommands ==
  ASSUME BatchInv
  PROVE  list.cmds \in Seq(BatchCommands(Nat))
<1>1. PICK X : X = Within(PyRes \cup heaps) /\ list.cmds \in RestingLists(X)
  BY DEF BatchInv, ListOk
<1>2. X \subseteq Nat
  BY <1>1, KeptSpace DEF BatchInv, Within, ListOk
<1> QED
  BY <1>1, <1>2, CommandsIn DEF RestingLists

\* The end of a batch brings about what its calls mean, or fails.
LEMMA EndBatchMemory ==
  ASSUME Careful, BatchInv, MemoryInv, EndBatch
  PROVE  MemoryInv'
<1>1. HandlesOk /\ GpuOk /\ ListOk /\ DispOk /\ calls \in Nat
  BY DEF BatchInv
<1>2. /\ batch /\ ~prepared /\ ~batch' /\ UNCHANGED <<prepared, graph, disp, spec>>
      /\ IF list.open THEN Submit(list.cmds, calls, heaps) /\ UNCHANGED failed ELSE failed' = TRUE
  BY DEF EndBatch, CallerMay
<1>3. ASSUME ~failed' PROVE Agree(mem', spec', Outer)
  <2>1. list.open /\ ~failed
    BY <1>2, <1>3
  <2>2. PICK c, H, s : c = list.cmds /\ H = heaps /\ s = spec
    OBVIOUS
  <2>3. Submit(c, calls, H) /\ Yields(c, mem, s) /\ H \in SUBSET Nat
    BY <1>1, <1>2, <2>1, <2>2 DEF MemoryInv, MemoryOk, ListOk
  <2>4. c \in Seq(BatchCommands(Nat))
    BY <2>2, ListCommands
  <2>5. Agree(mem', s, Outer)
    BY ONLY <1>1, <2>3, <2>4, SubmitYields
  <2> QED
    BY <1>2, <2>2, <2>5
<1>4. MemoryOk' /\ ScopeOk'
  BY <1>2, <1>3 DEF MemoryOk, ScopeOk
<1> QED
  BY <1>2, <1>4, MemoryFrom

\* The end of a recording keeps what the graph means, or fails.
LEMMA EndPreparedMemory ==
  ASSUME MemoryInv, EndPrepared
  PROVE  MemoryInv'
<1>1. /\ prepared /\ ~batch' /\ ~prepared' /\ UNCHANGED <<disp, mem, spec>>
      /\ IF list.open
         THEN graph' = [cmds |-> list.cmds, does |-> list.does, heaps |-> heaps] /\ UNCHANGED failed
         ELSE failed' = TRUE /\ UNCHANGED graph
  BY DEF EndPrepared, gpuVars
<1>2. MemoryOk /\ ScopeOk
  BY DEF MemoryInv
<1>3. graph' = graph \/ Means(graph'.cmds, graph'.does, 0)
  <2>1. CASE list.open
    <3>1. graph'.cmds = list.cmds /\ graph'.does = list.does
      BY <1>1, <2>1
    <3>2. Means(list.cmds, list.does, 0)
      BY <1>1, <1>2, <2>1 DEF ScopeOk
    <3> QED
      BY <3>1, <3>2
  <2>2. CASE ~list.open
    BY <1>1, <2>2
  <2> QED
    BY <2>1, <2>2
<1>4. MemoryOk' /\ ScopeOk'
  BY <1>1, <1>2 DEF MemoryOk, ScopeOk
<1> QED
  BY <1>1, <1>3, <1>4, MemoryFrom

\* The prepared graph and the prepared dispatch do what they mean.
LEMMA ExecuteMemory ==
  ASSUME Careful, BatchInv, MemoryInv, ExecutePrepared \/ ExecuteDispatch
  PROVE  MemoryInv'
<1>1. HandlesOk /\ GpuOk /\ GraphOk /\ DispOk /\ calls \in Nat
  BY DEF BatchInv
<1>2. PICK n : n = calls + 1
  OBVIOUS
<1>3. UNCHANGED <<list, batch, prepared, graph, disp, failed>> /\ ~batch
  BY DEF ExecutePrepared, ExecuteDispatch, ctxVars, CallerMay
<1>4. PICK c, does, H : /\ Submit(c, n, H) /\ H \in SUBSET Nat /\ Means(c, does, 0)
                        /\ spec' = Meaning(spec, does, n)
  <2>1. CASE ExecutePrepared
    <3>1. Submit(graph.cmds, n, graph.heaps) /\ spec' = Meaning(spec, graph.does, n)
      BY <1>2, <2>1 DEF ExecutePrepared
    <3>2. graph.heaps \in SUBSET Nat /\ Means(graph.cmds, graph.does, 0)
      BY <1>1 DEF GraphOk, MemoryInv
    <3> QED
      BY <3>1, <3>2
  <2>2. CASE ExecuteDispatch
    <3>1. Submit(disp.lists[slot], n, {LocalHeap}) /\ spec' = Meaning(spec, disp.does, n) /\ disp.kind # "none"
      BY <1>2, <2>2 DEF ExecuteDispatch
    <3>2. {LocalHeap} \in SUBSET Nat /\ Means(disp.lists[slot], disp.does, 0)
      BY <1>1, <3>1 DEF DispOk, MemoryInv, DispMeans, LocalHeap
    <3> QED
      BY <3>1, <3>2
  <2> QED
    BY <2>1, <2>2
<1>5. ASSUME ~failed PROVE Agree(mem', spec', Outer)
  <2>1. PICK s, k : s = spec /\ k = 0 /\ k \in Nat
    OBVIOUS
  <2>2. Agree(mem, s, Outer) /\ n \in Nat /\ Means(c, does, k) /\ (k = 0 \/ k = n)
    BY <1>1, <1>2, <1>3, <1>4, <1>5, <2>1 DEF MemoryInv, MemoryOk
  <2>3. Agree(mem', Meaning(s, does, n), Outer)
    BY ONLY <1>1, <1>4, <2>1, <2>2, SubmitMeans
  <2> QED
    BY <1>4, <2>1, <2>3
<1>6. MemoryOk' /\ ScopeOk'
  BY <1>3, <1>5 DEF MemoryInv, MemoryOk, ScopeOk
<1> QED
  BY <1>3, <1>6, MemoryFrom

\* A dispatch recorded for later runs nothing.
LEMMA KeepMemory ==
  ASSUME MemoryInv, NEW kind, NEW r, NEW does, NEW a, Keep(kind, r, does, a), Means(r.cmds, does, 0)
  PROVE  MemoryInv'
<1>1. /\ disp' = [kind |-> kind, lists |-> [k \in 0 .. Ring - 1 |-> r.cmds], does |-> does, holds |-> HoldsOf(a)]
      /\ UNCHANGED <<list, batch, prepared, graph, mem, spec, failed>>
  BY DEF Keep, ctxVars, gpuVars
<1>2. \A k \in 0 .. Ring - 1 : Means(disp'.lists[k], disp'.does, 0)
  BY <1>1
<1>3. MemoryOk' /\ ScopeOk'
  BY <1>1 DEF MemoryInv, MemoryOk, ScopeOk
<1> QED
  BY <1>1, <1>2, <1>3, MemoryFrom

\* A convolution or a relu on its own does what it means.
LEMMA PlainMeans ==
  ASSUME HandlesOk, NEW ins \in Seq(Known), Range(ins) \subseteq py, NEW y \in Known, NEW r, r = Plain(Record0, 0, ins, y)
  PROVE  Means(r.cmds, <<Effect(Range(ins), y)>>, 0)
<1>1. PICK r0, k, none, e, I : r0 = Record0 /\ k = 0 /\ none = <<>> /\ I = Range(ins) /\ e = Effect(I, y)
  OBVIOUS
<1>2. BufOk /\ k \in Nat /\ Saying(r0, none, k) /\ r0.st = Resting /\ r = Plain(r0, k, ins, y)
  BY <1>1, StartSays DEF HandlesOk
<1>3. Saying(r, none \o <<Effect(Range(ins), y)>>, k)
  BY ONLY <1>2, ins \in Seq(Known), y \in Known, PlainSays
<1>4. none \o <<e>> = <<e>>
  BY <1>1
<1>5. Says(r.cmds, <<e>>, k)
  BY <1>1, <1>3, <1>4 DEF Saying
<1>6. e \in OuterEffs
  BY <1>1, EffectOuter
<1>7. <<e>> \in Seq(OuterEffs)
  BY <1>6
<1>8. Means(r.cmds, <<e>>, k)
  BY ONLY <1>2, <1>5, <1>7, SaysMeans
<1> QED
  BY <1>1, <1>8

\* A prepared relu.
LEMMA PrepareReluMemory ==
  ASSUME BatchInv, MemoryInv, NEW a \in Args["unary"], PrepareRelu(a)
  PROVE  MemoryInv'
<1>1. HandlesOk
  BY DEF BatchInv
<1>2. PICK ins, y, I, r, does, kind :
        /\ ins = <<a[1]>> /\ y = a[2] /\ I = {a[1]} /\ r = Plain(Record0, 0, ins, y)
        /\ does = <<Effect(I, y)>> /\ kind = "relu"
  OBVIOUS
<1>3. Range(a) \subseteq py /\ Keep(kind, r, does, a)
  BY <1>2 DEF PrepareRelu
<1>4. a \in Seq(Handles) /\ Len(a) = 2 /\ DOMAIN a = 1 .. 2
  <2>1. a \in Seq(Handles) /\ Len(a) \in Arity("unary")
    BY ArgsAssumption, KnownArgs
  <2>2. Len(a) = 2
    BY <2>1 DEF Arity
  <2> QED
    BY <2>1, <2>2, LenProperties
<1>5. a[1] \in py /\ a[2] \in py /\ py \subseteq Known
  BY <1>1, <1>3, <1>4 DEF Range, HandlesOk, Known
<1>6. ins \in Seq(Known) /\ Range(ins) = I /\ y \in Known /\ I \subseteq py
  BY <1>2, <1>5, SmallSeq
<1>7. Means(r.cmds, <<Effect(Range(ins), y)>>, 0)
  BY <1>1, <1>2, <1>6, PlainMeans
<1>8. Means(r.cmds, does, 0)
  BY <1>2, <1>6, <1>7
<1> QED
  BY ONLY MemoryInv, <1>3, <1>8, KeepMemory

\* A prepared convolution.
LEMMA PrepareConvSiluMemory ==
  ASSUME BatchInv, MemoryInv, NEW a \in Args["conv_silu"], PrepareConvSilu(a)
  PROVE  MemoryInv'
<1>1. HandlesOk
  BY DEF BatchInv
<1>2. PICK ins, y, I, r, does, kind :
        /\ ins = <<a[1], a[2], a[3]>> /\ y = a[4] /\ I = {a[1], a[2], a[3]} /\ r = Plain(Record0, 0, ins, y)
        /\ does = <<Effect(I, y)>> /\ kind = "conv"
  OBVIOUS
<1>3. a \in Seq(Handles) /\ Len(a) = 4 /\ DOMAIN a = 1 .. 4
  <2>1. a \in Seq(Handles) /\ Len(a) \in Arity("conv_silu")
    BY ArgsAssumption, KnownArgs
  <2>2. Len(a) = 4
    BY <2>1 DEF Arity
  <2> QED
    BY <2>1, <2>2, LenProperties
<1>4. Meant("conv_silu", a) = does
  <2>1. Range(Front(a)) = I /\ Last(a) = y
    <3>1. a \in Seq(Known) /\ Len(a) \in 2 .. 4
      <4>1. Range(a) \subseteq py
        BY DEF PrepareConvSilu
      <4> QED
        BY <1>1, <1>3, <4>1, OperandsKnown
    <3>2. Range(Front(a)) = {a[i] : i \in 1 .. Len(a) - 1} /\ Last(a) = a[Len(a)]
      BY ONLY <3>1, FrontRange
    <3>3. {a[i] : i \in 1 .. Len(a) - 1} = I
      BY <1>2, <1>3
    <3> QED
      BY <1>2, <1>3, <3>2, <3>3
  <2> QED
    BY <1>2, <2>1 DEF Meant
<1>5. Range(a) \subseteq py /\ Keep(kind, r, does, a)
  BY <1>2, <1>4 DEF PrepareConvSilu, ConvSiluInto
<1>6. a[1] \in py /\ a[2] \in py /\ a[3] \in py /\ a[4] \in py /\ py \subseteq Known
  BY <1>1, <1>3, <1>5 DEF Range, HandlesOk, Known
<1>7. ins \in Seq(Known) /\ Range(ins) = I /\ y \in Known /\ I \subseteq py
  BY <1>2, <1>6, SmallSeq
<1>8. Means(r.cmds, <<Effect(Range(ins), y)>>, 0)
  BY <1>1, <1>2, <1>7, PlainMeans
<1>9. Means(r.cmds, does, 0)
  BY <1>2, <1>7, <1>8
<1> QED
  BY ONLY MemoryInv, <1>5, <1>9, KeepMemory

\* A prepared chain.
LEMMA PrepareChainMemory ==
  ASSUME BatchInv, MemoryInv, NEW k \in Nat, k >= 1, NEW w, NEW b, NEW y, PrepareChain(k, w, b, y)
  PROVE  MemoryInv'
<1>1. HandlesOk
  BY DEF BatchInv
<1>2. PICK r, does, kind, a : /\ r = ChainCommands(Record0, k, w, b, y) /\ does = <<Effect({w, b}, y)>>
                              /\ kind = "chain" /\ a = <<w, b, y>>
  OBVIOUS
<1>3. w \in py /\ b \in py /\ y \in py /\ Keep(kind, r, does, a)
  BY <1>2 DEF PrepareChain
<1>4. Means(r.cmds, <<Effect({w, b}, y)>>, 0)
  BY ONLY HandlesOk, k \in Nat, k >= 1, <1>1, <1>2, <1>3, ChainMeans
<1>5. Means(r.cmds, does, 0)
  BY <1>2, <1>4
<1> QED
  BY ONLY MemoryInv, <1>3, <1>5, KeepMemory

\* At the start the memory is the caller's,
LEMMA MemoryInit ==
  ASSUME Init
  PROVE  MemoryInv
<1>1. /\ mem = [c \in Cells |-> {}] /\ spec = mem /\ ~batch /\ ~prepared
      /\ graph.cmds = <<>> /\ graph.does = <<>> /\ disp.kind = "none"
  BY DEF Init, NoGraph, NoPrepared
<1>2. Agree(mem, spec, Outer)
  BY <1>1 DEF Agree, Mems
<1>3. Means(<<>>, <<>>, 0)
  BY MeansNone
<1> QED
  BY <1>1, <1>2, <1>3 DEF MemoryInv, MemoryOk, ScopeOk, DispMeans

\* and every call keeps it so.
LEMMA MemoryNext ==
  ASSUME Careful, BatchInv, MemoryInv, OutputsApart, DecodesWhole, [Next]_vars
  PROVE  MemoryInv'
<1>1. CASE Dispatches
  <2>1. PICK kind \in DOMAIN Args : \E a \in Args[kind] : Invoke(kind, a)
    BY <1>1 DEF Dispatches
  <2> QED
    BY <2>1, InvokeMemory
<1>2. CASE \E h \in Handles : UploadInto(h) \/ Download(h) \/ UploadNew(h)
  BY <1>2, UploadIntoMemory, DownloadMemory, UploadNewMemory
<1>3. CASE \/ \E h \in Handles : Allocate(h) \/ Drop(h)
           \/ \E h \in Spare, p \in Handles, n \in 1 .. Width : CreateView(h, p, n)
           \/ UNCHANGED vars
  <2>1. UNCHANGED <<list, batch, prepared, graph, disp, mem, spec, failed>>
    BY <1>3 DEF Allocate, Drop, CreateView, vars, ctxVars, gpuVars
  <2> QED
    BY <2>1, HandlesMemory
<1>4. CASE BeginBatch \/ BeginPrepared
  BY <1>4, BeginMemory
<1>5. CASE EndBatch
  BY <1>5, EndBatchMemory
<1>6. CASE EndPrepared
  BY <1>6, EndPreparedMemory
<1>7. CASE ExecutePrepared \/ ExecuteDispatch
  BY <1>7, ExecuteMemory
<1>8. CASE Prepares
  <2>1. CASE \E a \in Args["unary"] : PrepareRelu(a)
    BY <2>1, PrepareReluMemory
  <2>2. CASE \E a \in Args["conv_silu"] : PrepareConvSilu(a)
    BY <2>2, PrepareConvSiluMemory
  <2>3. CASE \E a \in Args["conv_silu"] : \E k \in Depths : PrepareChain(k, a[2], a[3], a[4])
    <3>1. PICK a \in Args["conv_silu"], k \in Depths : PrepareChain(k, a[2], a[3], a[4])
      BY <2>3
    <3>2. k \in Nat /\ k >= 1
      BY BatchAssumption
    <3> QED
      BY <3>1, <3>2, PrepareChainMemory
  <2> QED
    BY <1>8, <2>1, <2>2, <2>3 DEF Prepares
<1> QED
  BY <1>1, <1>2, <1>3, <1>4, <1>5, <1>6, <1>7, <1>8 DEF Next

------------------------------------------------------------------------------
(* Theorems                                                                   *)

\* What handles say, the true states and everything recorded for later agree at
\* every call: each list starts from COMMON, returns to it and touches what is kept
\* (batch_resources, PreparedGraphHandle::resources, the buffers of dispatch handles).
THEOREM BatchInvariant == Spec => []BatchInv
BY BatchInit, BatchNext, PTL DEF Spec

\* Between calls every handle says COMMON and every resource is in COMMON:
\* whatever is dispatched, copied, batched, recorded for later or replayed, in
\* any order and over any views (transition_if_needed of the bindings).
THEOREM StatesRest == Spec => []RestInCommon
<1>1. BatchInv => RestInCommon
  BY DEF BatchInv, HandlesOk, GpuOk, Resting, RestInCommon
<1> QED
  BY <1>1, BatchInvariant, PTL

\* When callers drop no buffer that an open list or a prepared graph names, no
\* executed list names a resource that is gone (batch_resources, the capsules of
\* prepared dispatches and graphs).
THEOREM NothingFreed ==
  ASSUME Careful
  PROVE  Spec => []NothingFreedRuns
<1>1. BatchInv => NothingFreedRuns
  BY DEF BatchInv, GpuOk, NothingFreedRuns
<1> QED
  BY <1>1, BatchInvariant, PTL

\* As long as callers give every call outputs apart from its other operands, no executed
\* list uses a resource in a wrong state or touches what was written without a barrier,
\* and a transition starts from a wrong state only after a call outside the concat family
\* named one resource twice (transition_if_needed and the restores of the bindings).
THEOREM FaultsAreOfAliases == Spec /\ []OutputsApart => []OnlyAliasesMisstate
<1>1. CleanInv => OnlyAliasesMisstate
  BY DEF CleanInv, FaultsOk, Told, OnlyAliasesMisstate
<1>2. Init => CleanInv
  BY CleanInit
<1>3. BatchInv /\ CleanInv /\ OutputsApart /\ [Next]_vars => CleanInv'
  BY CleanNext
<1> QED
  BY <1>1, <1>2, <1>3, BatchInvariant, PTL DEF Spec

\* As long as callers give every call outputs apart from its other operands and the decodes
\* buffers that start where their resource does, the bytes of every buffer Python holds are,
\* outside a scope and unless a call failed, those that the calls one after the other mean.
THEOREM BytesAreMeant ==
  ASSUME Careful
  PROVE  Spec /\ []OutputsApart /\ []DecodesWhole => []MemoryIsSequential
<1>1. BatchInv /\ MemoryInv => MemoryIsSequential
  <2> SUFFICES ASSUME BatchInv, MemoryInv, ~batch, ~failed, NEW c \in Cells, NEW h \in py, c[1] = buf[h].res
               PROVE  mem[c] = spec[c]
    BY DEF MemoryIsSequential
  <2>1. Agree(mem, spec, Outer)
    BY DEF MemoryInv, MemoryOk
  <2>2. buf[h].res \in Handles
    BY DEF BatchInv, HandlesOk, BufOk
  <2>3. c \in Outer
    BY <2>2, HandleSpace DEF Outer
  <2> QED
    BY <2>1, <2>3 DEF Agree
<1>2. Init => MemoryInv
  BY MemoryInit
<1>3. BatchInv /\ MemoryInv /\ OutputsApart /\ DecodesWhole /\ [Next]_vars => MemoryInv'
  BY MemoryNext
<1> QED
  BY <1>1, <1>2, <1>3, BatchInvariant, PTL DEF Spec

================================================================================
