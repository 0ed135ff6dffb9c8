--------------------------- MODULE EngineReplayProofs ---------------------------
(***************************************************************************)
(* Proofs about an engine replayed on one queue, for every program and     *)
(* every order in which the GPU runs what it is given: transitions start   *)
(* from the state a resource is in, kernels find their pages mapped; and   *)
(* while a kernel runs, what it reads is what this frame's kernels         *)
(* computed, and a frame runs every kernel once, after those it needs.     *)
(***************************************************************************)
EXTENDS EngineReplay, FiniteSetTheorems, TLAPS

------------------------------------------------------------------------------
(* Finite sets of numbers in order                                           *)

\* InOrder lists every member of a finite set of numbers once, rising.
LEMMA InOrderRises ==
  ASSUME NEW S, S \subseteq Nat, IsFiniteSet(S)
  PROVE  /\ Cardinality(S) \in Nat
         /\ InOrder(S) \in [1 .. Cardinality(S) -> S]
         /\ \A x \in S : \E i \in 1 .. Cardinality(S) : InOrder(S)[i] = x
         /\ \A i, j \in 1 .. Cardinality(S) : i < j => InOrder(S)[i] < InOrder(S)[j]
<1> DEFINE n == Cardinality(S)
           below(x) == {m \in S : m < x}
           r(x) == Cardinality(below(x))
           f == [x \in S |-> r(x) + 1]
<1>1. n \in Nat
  BY FS_CardinalityType
<1>2. \A x \in S : IsFiniteSet(below(x)) /\ r(x) \in Nat /\ r(x) < n
  <2> SUFFICES ASSUME NEW x \in S PROVE IsFiniteSet(below(x)) /\ r(x) \in Nat /\ r(x) < n
    OBVIOUS
  <2>1. below(x) \subseteq S /\ x \notin below(x)
    OBVIOUS
  <2>2. IsFiniteSet(below(x)) /\ r(x) <= n /\ (n = r(x) => S = below(x))
    BY <2>1, FS_Subset
  <2>3. r(x) \in Nat
    BY <2>2, FS_CardinalityType
  <2> QED
    BY <1>1, <2>1, <2>2, <2>3
<1>3. \A x, y \in S : x < y => r(x) < r(y)
  <2> SUFFICES ASSUME NEW x \in S, NEW y \in S, x < y PROVE r(x) < r(y)
    OBVIOUS
  <2>1. below(x) \subseteq below(y) /\ x \in below(y) /\ x \notin below(x)
    <3>1. x \in Nat /\ y \in Nat /\ \A m \in S : m \in Nat
      OBVIOUS
    <3>2. \A m \in S : m < x => m < y
      BY <3>1
    <3>3. x \in below(y)
      BY <3>1
    <3>4. ~(x < x)
      BY <3>1
    <3> QED
      BY <3>2, <3>3, <3>4
  <2> DEFINE A == below(x)
             B == below(y)
  <2>2. IsFiniteSet(B) /\ A \subseteq B /\ A # B
    BY <1>2, <2>1
  <2> HIDE DEF A, B
  <2>3. Cardinality(A) <= Cardinality(B) /\ Cardinality(A) # Cardinality(B)
    BY <2>2, FS_Subset
  <2> QED
    BY <1>2, <2>3 DEF A, B
<1> HIDE DEF n, below
<1>4. \A x, y \in S : r(x) = r(y) => x = y
  <2> SUFFICES ASSUME NEW x \in S, NEW y \in S, r(x) = r(y) PROVE x = y
    OBVIOUS
  <2>1. x \in Nat /\ y \in Nat
    OBVIOUS
  <2>2. ~(x < y) /\ ~(y < x)
    BY <1>2, <1>3
  <2> QED
    BY <2>1, <2>2
<1>5. f \in Injection(S, 1 .. n)
  BY <1>1, <1>2, <1>4 DEF Injection, IsInjective
<1>6. f \in Surjection(S, 1 .. n)
  <2>1. IsFiniteSet(1 .. n) /\ Cardinality(1 .. n) = n
    BY <1>1, FS_Interval
  <2> QED
    BY <1>5, <2>1, FS_Injection DEF n
<1>7. \A i \in 1 .. n : \E x \in S : r(x) = i - 1
  <2> SUFFICES ASSUME NEW i \in 1 .. n PROVE \E x \in S : r(x) = i - 1
    OBVIOUS
  <2>1. PICK x \in S : f[x] = i
    BY <1>6 DEF Surjection
  <2> QED
    BY <1>1, <1>2, <2>1
<1>8. InOrder(S) = [i \in 1 .. n |-> CHOOSE x \in S : r(x) = i - 1]
  BY DEF InOrder, n, below
<1>9. \A i \in 1 .. n : InOrder(S)[i] \in S /\ r(InOrder(S)[i]) = i - 1
  BY <1>7, <1>8
<1> HIDE DEF r
<1>10. \A x \in S : \E i \in 1 .. n : InOrder(S)[i] = x
  <2> SUFFICES ASSUME NEW x \in S PROVE InOrder(S)[r(x) + 1] = x /\ r(x) + 1 \in 1 .. n
    OBVIOUS
  <2>1. r(x) + 1 \in 1 .. n
    BY <1>1, <1>2
  <2>2. r(InOrder(S)[r(x) + 1]) = r(x)
    BY <1>2, <1>9, <2>1
  <2> QED
    BY <1>4, <1>9, <2>1, <2>2
<1>11. ASSUME NEW i \in 1 .. n, NEW j \in 1 .. n, i < j
       PROVE  InOrder(S)[i] < InOrder(S)[j]
  <2> DEFINE x == InOrder(S)[i]
             y == InOrder(S)[j]
  <2>3. x \in S /\ r(x) = i - 1 /\ y \in S /\ r(y) = j - 1
    BY <1>9
  <2> HIDE DEF x, y
  <2>1. x \in Nat /\ y \in Nat /\ x \in S /\ y \in S /\ r(x) < r(y)
    BY <1>1, <1>11, <2>3
  <2>2. x # y /\ ~(y < x)
    BY <1>2, <1>3, <2>1
  <2> QED
    BY <2>1, <2>2 DEF x, y
<1>12. InOrder(S) \in [1 .. n -> S]
  BY <1>8, <1>9
<1>13. \A i, j \in 1 .. n : i < j => InOrder(S)[i] < InOrder(S)[j]
  BY <1>11
<1> USE DEF n
<1> QED
  BY <1>1, <1>10, <1>12, <1>13

------------------------------------------------------------------------------
(* Command lists as changes of the states of pages                           *)

PageStates == {"COMMON", "SRV", "UAV", "COPY_DEST"}
States     == [Pages -> PageStates]
AllCommon  == [g \in Pages |-> "COMMON"]

\* What one queue is given when there is no other to wait for.
Command ==
  [op : {"to"}, page : Pages, from : PageStates, to : PageStates]
    \cup [op : {"uav"}, page : Pages] \cup [op : {"kernel"}, kernel : Nat]

\* With the pages in states s, kernel k finds what it needs.
Finds(k, s) ==
  /\ \A v \in ReadsOf(k) : page[v] \in Pages /\ s[page[v]] = "SRV"
  /\ \A v \in WritesOf(k) : page[v] \in Pages /\ s[page[v]] = WriteState(k)

Fits(c, s) ==
  /\ c.op = "to" => c.from = s[c.page]
  /\ c.op = "kernel" => Finds(c.kernel, s)

Change(c, s) == IF c.op = "to" THEN [s EXCEPT ![c.page] = c.to] ELSE s

\* h is the history of the states while the list L runs.
History(L, h, s, t) ==
  /\ h \in [0 .. Len(L) -> States]
  /\ h[0] = s /\ h[Len(L)] = t
  /\ \A i \in 1 .. Len(L) : Fits(L[i], h[i - 1]) /\ h[i] = Change(L[i], h[i - 1])

\* Started in states s, L runs without a command that does not fit, and ends in t.
Leads(L, s, t) == L \in Seq(Command) /\ \E h : History(L, h, s, t)

LEMMA CommandKinds ==
  ASSUME NEW c \in Command
  PROVE  /\ c.op \in {"to", "uav", "kernel"}
         /\ c.op = "to" => c.page \in Pages /\ c.from \in PageStates /\ c.to \in PageStates
         /\ c.op = "uav" => c.page \in Pages
         /\ c.op = "kernel" => c.kernel \in Nat
BY DEF Command

LEMMA ChangeStates ==
  ASSUME NEW c \in Command, NEW s \in States
  PROVE  Change(c, s) \in States
BY CommandKinds DEF Change, States

LEMMA LeadsNowhere ==
  ASSUME NEW s \in States
  PROVE  Leads(<< >>, s, s)
<1> DEFINE h == [i \in 0 .. 0 |-> s]
<1>1. << >> \in Seq(Command) /\ Len(<< >>) = 0
  OBVIOUS
<1>2. h \in [0 .. 0 -> States] /\ h[0] = s
  OBVIOUS
<1> HIDE DEF h
<1>3. History(<< >>, h, s, s)
  BY <1>1, <1>2 DEF History
<1> QED
  BY <1>1, <1>3 DEF Leads

\* A list ends in states of the pages.
LEMMA LeadsStates ==
  ASSUME NEW L, NEW s, NEW t, Leads(L, s, t)
  PROVE  L \in Seq(Command) /\ s \in States /\ t \in States
<1>1. PICK h : History(L, h, s, t)
  BY DEF Leads
<1>2. L \in Seq(Command) /\ Len(L) \in Nat
  BY DEF Leads
<1> QED
  BY <1>1, <1>2 DEF History

\* One list after another.
LEMMA LeadsOn ==
  ASSUME NEW L, NEW M, NEW s, NEW t, NEW u, Leads(L, s, t), Leads(M, t, u)
  PROVE  Leads(L \o M, s, u)
<1>1. PICK h : History(L, h, s, t)
  BY DEF Leads
<1>2. PICK k : History(M, k, t, u)
  BY DEF Leads
<1> DEFINE m == Len(L)
           n == Len(M)
           N == L \o M
           g == [i \in 0 .. m + n |-> IF i <= m THEN h[i] ELSE k[i - m]]
<1>3. L \in Seq(Command) /\ M \in Seq(Command) /\ m \in Nat /\ n \in Nat
  BY DEF Leads
<1>4. /\ N \in Seq(Command) /\ Len(N) = m + n
      /\ \A i \in 1 .. m : N[i] = L[i]
      /\ \A i \in m + 1 .. m + n : N[i] = M[i - m]
  BY <1>3
<1>5. /\ h \in [0 .. m -> States] /\ h[0] = s /\ h[m] = t
      /\ \A i \in 1 .. m : Fits(L[i], h[i - 1]) /\ h[i] = Change(L[i], h[i - 1])
  BY <1>1 DEF History
<1>6. /\ k \in [0 .. n -> States] /\ k[0] = t /\ k[n] = u
      /\ \A i \in 1 .. n : Fits(M[i], k[i - 1]) /\ k[i] = Change(M[i], k[i - 1])
  BY <1>2 DEF History
<1> HIDE DEF m, n, N
<1>7. g \in [0 .. m + n -> States]
  <2> SUFFICES ASSUME NEW i \in 0 .. m + n
               PROVE  (IF i <= m THEN h[i] ELSE k[i - m]) \in States
    OBVIOUS
  <2>1. CASE i <= m
    BY <1>3, <1>5, <2>1
  <2>2. CASE ~(i <= m)
    <3>1. i - m \in 0 .. n
      BY <1>3, <2>2
    <3> QED
      BY <1>6, <2>2, <3>1
  <2> QED
    BY <2>1, <2>2
<1>8. /\ \A i \in 0 .. m : g[i] = h[i]
      /\ \A i \in m .. m + n : g[i] = k[i - m]
  <2>1. \A i \in 0 .. m : g[i] = h[i]
    BY <1>3
  <2>2. ASSUME NEW i \in m .. m + n PROVE g[i] = k[i - m]
    <3>1. CASE i = m
      BY <1>3, <1>5, <1>6, <3>1
    <3>2. CASE i # m
      BY <1>3, <3>2
    <3> QED
      BY <3>1, <3>2
  <2> QED
    BY <2>1, <2>2
<1> HIDE DEF g
<1>9. ASSUME NEW i \in 1 .. m + n
      PROVE  Fits(N[i], g[i - 1]) /\ g[i] = Change(N[i], g[i - 1])
  <2>1. CASE i <= m
    <3>1. i \in 1 .. m /\ i \in 0 .. m /\ i - 1 \in 0 .. m
      BY <1>3, <2>1
    <3> QED
      BY <1>4, <1>5, <1>8, <3>1
  <2>2. CASE i > m
    <3>1. /\ i \in m + 1 .. m + n /\ i \in m .. m + n /\ i - 1 \in m .. m + n
          /\ i - m \in 1 .. n /\ (i - 1) - m = (i - m) - 1
      BY <1>3, <2>2
    <3>2. N[i] = M[i - m] /\ g[i] = k[i - m] /\ g[i - 1] = k[(i - m) - 1]
      BY <1>4, <1>8, <3>1
    <3> QED
      BY <1>6, <3>1, <3>2
  <2> QED
    BY <1>3, <2>1, <2>2
<1>10. g[0] = s /\ g[m + n] = u
  <2>1. 0 \in 0 .. m /\ m + n \in m .. m + n /\ (m + n) - m = n
    BY <1>3
  <2> QED
    BY <1>5, <1>6, <1>8, <2>1
<1>11. History(N, g, s, u)
  BY <1>4, <1>7, <1>9, <1>10 DEF History
<1> QED
  BY <1>4, <1>11 DEF Leads, N

\* A list of one command.
LEMMA LeadsOne ==
  ASSUME NEW c \in Command, NEW s \in States, Fits(c, s)
  PROVE  Leads(<<c>>, s, Change(c, s))
<1> DEFINE t == Change(c, s)
           h == [i \in 0 .. 1 |-> IF i = 0 THEN s ELSE t]
           L == <<c>>
<1>1. L \in Seq(Command) /\ Len(L) = 1 /\ L[1] = c
  OBVIOUS
<1>2. t \in States
  BY ChangeStates
<1> HIDE DEF t, L
<1>3. h \in [0 .. 1 -> States] /\ h[0] = s /\ h[1] = t
  BY <1>2
<1> HIDE DEF h
<1>4. ASSUME NEW i \in 1 .. 1
      PROVE  Fits(L[i], h[i - 1]) /\ h[i] = Change(L[i], h[i - 1])
  <2>1. i = 1 /\ i - 1 = 0
    OBVIOUS
  <2> QED
    BY <1>1, <1>3, <2>1 DEF t
<1>5. History(L, h, s, t)
  BY <1>1, <1>3, <1>4 DEF History
<1> QED
  BY <1>1, <1>5 DEF Leads, t, L

\* What is left of a list after its first command.
LEMMA LeadsTail ==
  ASSUME NEW L, NEW s, NEW t, Leads(L, s, t), L # << >>
  PROVE  /\ Head(L) \in Command /\ Fits(Head(L), s)
         /\ Leads(Tail(L), Change(Head(L), s), t)
<1>1. PICK h : History(L, h, s, t)
  BY DEF Leads
<1> DEFINE n == Len(L)
           T == Tail(L)
           k == [i \in 0 .. n - 1 |-> h[i + 1]]
<1>2. /\ L \in Seq(Command) /\ n \in Nat /\ n > 0
      /\ Head(L) = L[1] /\ L[1] \in Command
      /\ T \in Seq(Command) /\ Len(T) = n - 1
      /\ \A i \in 1 .. n - 1 : T[i] = L[i + 1]
  BY DEF Leads
<1>3. /\ h \in [0 .. n -> States] /\ h[0] = s /\ h[n] = t
      /\ \A i \in 1 .. n : Fits(L[i], h[i - 1]) /\ h[i] = Change(L[i], h[i - 1])
  BY <1>1 DEF History
<1> HIDE DEF n, T
<1>4. Fits(L[1], s) /\ h[1] = Change(L[1], s)
  BY <1>2, <1>3
<1>5. k \in [0 .. n - 1 -> States] /\ k[0] = h[1] /\ k[n - 1] = t
  BY <1>2, <1>3
<1>6. ASSUME NEW i \in 1 .. n - 1
      PROVE  Fits(T[i], k[i - 1]) /\ k[i] = Change(T[i], k[i - 1])
  <2>1. i \in 0 .. n - 1 /\ i - 1 \in 0 .. n - 1 /\ i + 1 \in 1 .. n /\ (i - 1) + 1 = (i + 1) - 1
    BY <1>2
  <2>2. T[i] = L[i + 1] /\ k[i] = h[i + 1] /\ k[i - 1] = h[(i + 1) - 1]
    BY <1>2, <2>1
  <2> HIDE DEF k
  <2> QED
    BY <1>3, <2>1, <2>2
<1> HIDE DEF k
<1>7. History(T, k, Change(L[1], s), t)
  BY <1>2, <1>4, <1>5, <1>6 DEF History
<1> QED
  BY <1>2, <1>4, <1>7 DEF Leads, T

------------------------------------------------------------------------------
(* What the barriers of a dispatch do                                        *)

\* A set of records the recorder takes together: one per page.
OnePerPage(S) ==
  /\ \A r \in S : r.page \in Pages /\ r.kind \in PageStates \cup {"REUSE"}
  /\ \A r, q \in S : r.page = q.page => r = q

LEMMA KindsOnPage ==
  ASSUME NEW S, OnePerPage(S), NEW was \in States
  PROVE  /\ After(S, was) \in States
         /\ \A g \in Pages : (\A r \in S : r.page # g) => After(S, was)[g] = was[g]
         /\ \A r \in S : After(S, was)[r.page] = IF r.kind = "REUSE" THEN was[r.page] ELSE r.kind
<1>1. \A g \in Pages : (\A r \in S : r.page # g) => After(S, was)[g] = was[g]
  <2> SUFFICES ASSUME NEW g \in Pages, \A r \in S : r.page # g
               PROVE  After(S, was)[g] = was[g]
    OBVIOUS
  <2>1. Kinds(S, g) = {}
    BY DEF Kinds
  <2> QED
    BY <2>1 DEF After
<1>2. ASSUME NEW r \in S
      PROVE  After(S, was)[r.page] = IF r.kind = "REUSE" THEN was[r.page] ELSE r.kind
  <2>1. r.page \in Pages /\ {s \in S : s.page = r.page} = {r}
    BY DEF OnePerPage
  <2>2. Kinds(S, r.page) = {r.kind} \ {"REUSE"}
    BY <2>1 DEF Kinds
  <2>3. CASE r.kind = "REUSE"
    BY <2>1, <2>2, <2>3 DEF After
  <2>4. CASE r.kind # "REUSE"
    <3>1. Kinds(S, r.page) = {r.kind}
      BY <2>2, <2>4
    <3>2. (CHOOSE k \in Kinds(S, r.page) : TRUE) = r.kind
      BY <3>1
    <3> QED
      BY <2>1, <2>4, <3>1, <3>2 DEF After
  <2> QED
    BY <2>3, <2>4
<1>3. After(S, was) \in States
  <2> SUFFICES ASSUME NEW g \in Pages PROVE After(S, was)[g] \in PageStates
    BY DEF After, States
  <2>1. CASE \E r \in S : r.page = g
    <3>1. PICK r \in S : r.page = g
      BY <2>1
    <3> QED
      BY <1>2, <3>1 DEF OnePerPage, States, PageStates
  <2>2. CASE ~ \E r \in S : r.page = g
    BY <1>1, <2>2 DEF States
  <2> QED
    BY <2>1, <2>2
<1> QED
  BY <1>1, <1>2, <1>3

\* The barriers of a set of records leave every page as the records say.
LEMMA CommandsLead ==
  ASSUME Pages \subseteq Nat, IsFiniteSet(Pages),
         NEW S, OnePerPage(S), NEW was \in States
  PROVE  Leads(Commands(S, was), was, After(S, was))
<1> DEFINE P == {r.page : r \in S}
           pages == InOrder(P)
           n == Cardinality(P)
           of(g) == CHOOSE r \in S : r.page = g
           t == After(S, was)
           L == Commands(S, was)
           done(i) == {pages[j] : j \in 1 .. i}
           h == [i \in 0 .. n |-> [g \in Pages |-> IF g \in done(i) THEN t[g] ELSE was[g]]]
<1>1. P \subseteq Pages /\ P \subseteq Nat /\ IsFiniteSet(P)
  <2>1. P \subseteq Pages
    BY DEF OnePerPage
  <2> QED
    BY <2>1, FS_Subset
<1>2. /\ n \in Nat /\ pages \in [1 .. n -> P]
      /\ \A x \in P : \E i \in 1 .. n : pages[i] = x
      /\ \A i, j \in 1 .. n : i < j => pages[i] < pages[j]
  BY <1>1, InOrderRises
<1>3. \A i, j \in 1 .. n : i < j => pages[i] # pages[j]
  <2> SUFFICES ASSUME NEW i \in 1 .. n, NEW j \in 1 .. n, i < j PROVE pages[i] # pages[j]
    OBVIOUS
  <2>1. pages[i] \in Nat /\ pages[i] < pages[j]
    BY <1>1, <1>2
  <2> QED
    BY <2>1
<1>4. \A g \in P : of(g) \in S /\ of(g).page = g
  OBVIOUS
<1>5. /\ t \in States
      /\ \A g \in Pages : g \notin P => t[g] = was[g]
      /\ \A g \in P : t[g] = IF of(g).kind = "REUSE" THEN was[g] ELSE of(g).kind
  <2>1. \A g \in Pages : g \notin P => \A r \in S : r.page # g
    OBVIOUS
  <2> QED
    BY <1>4, <2>1, KindsOnPage
<1>6. L = [i \in 1 .. n |-> IF of(pages[i]).kind = "REUSE" THEN Flush(pages[i])
                            ELSE To(pages[i], was[pages[i]], of(pages[i]).kind)]
  BY <1>2 DEF Commands
<1> HIDE DEF P, pages, n, t, L
<1>7. \A g \in P : of(g).kind # "REUSE" => of(g).kind \in PageStates
  BY <1>4 DEF OnePerPage, PageStates
<1>8. \A g \in P : g \in Pages /\ was[g] \in PageStates
  BY <1>1 DEF States
<1> HIDE DEF of
<1>9. \A i \in 1 .. n : L[i] \in Command
  <2> SUFFICES ASSUME NEW i \in 1 .. n PROVE L[i] \in Command
    OBVIOUS
  <2>1. pages[i] \in P
    BY <1>2
  <2>2. CASE of(pages[i]).kind = "REUSE"
    BY <1>6, <1>8, <2>1, <2>2 DEF Flush, Command
  <2>3. CASE of(pages[i]).kind # "REUSE"
    BY <1>6, <1>7, <1>8, <2>1, <2>3 DEF To, Command
  <2> QED
    BY <2>2, <2>3
<1>10. L \in Seq(Command) /\ Len(L) = n
  <2>1. L \in [1 .. n -> Command]
    BY <1>6, <1>9
  <2> QED
    BY <1>2, <2>1
<1>11. \A i \in 0 .. n : h[i] \in States
  <2> SUFFICES ASSUME NEW i \in 0 .. n
               PROVE  [g \in Pages |-> IF g \in done(i) THEN t[g] ELSE was[g]] \in States
    OBVIOUS
  <2> QED
    BY <1>5 DEF States
<1>12. h[0] = was
  <2>1. done(0) = {}
    OBVIOUS
  <2>2. h[0] = [g \in Pages |-> was[g]]
    BY <1>2, <2>1
  <2> QED
    BY <2>2 DEF States
<1>13. h[n] = t
  <2>1. \A g \in P : g \in done(n)
    BY <1>2
  <2>2. h[n] = [g \in Pages |-> IF g \in done(n) THEN t[g] ELSE was[g]]
    BY <1>2
  <2> HIDE DEF h, done
  <2>3. \A g \in Pages : (IF g \in done(n) THEN t[g] ELSE was[g]) = t[g]
    BY <1>5, <2>1
  <2>4. h[n] = [g \in Pages |-> t[g]]
    BY <2>2, <2>3
  <2> QED
    BY <1>5, <2>4 DEF States
<1>14. ASSUME NEW i \in 1 .. n
       PROVE  Fits(L[i], h[i - 1]) /\ h[i] = Change(L[i], h[i - 1])
  <2> DEFINE g == pages[i]
             s == h[i - 1]
  <2>1. i \in 0 .. n /\ i - 1 \in 0 .. n /\ g \in P /\ g \in Pages
    <3>1. i \in 0 .. n /\ i - 1 \in 0 .. n
      BY <1>2
    <3>2. g \in P
      BY <1>2
    <3> QED
      BY <1>1, <3>1, <3>2
  <2>2. g \notin done(i - 1)
    <3> SUFFICES ASSUME NEW j \in 1 .. i - 1 PROVE pages[j] # g
      OBVIOUS
    <3>1. j \in 1 .. n /\ j < i
      BY <1>2
    <3> QED
      BY <1>3, <3>1
  <2>3. done(i) = done(i - 1) \cup {g}
    <3>1. 1 .. i = (1 .. i - 1) \cup {i}
      OBVIOUS
    <3> QED
      BY <3>1
  <2>4. /\ s = [x \in Pages |-> IF x \in done(i - 1) THEN t[x] ELSE was[x]]
        /\ h[i] = [x \in Pages |-> IF x \in done(i) THEN t[x] ELSE was[x]]
    BY <2>1
  <2> HIDE DEF h, g, done, s
  <2>5. s[g] = was[g]
    BY <2>1, <2>2, <2>4
  <2>6. h[i] = [s EXCEPT ![g] = t[g]]
    BY <2>1, <2>3, <2>4
  <2>7. CASE of(g).kind = "REUSE"
    <3>1. L[i].op = "uav" /\ t[g] = s[g]
      BY <1>5, <1>6, <2>1, <2>5, <2>7 DEF Flush, g
    <3>2. h[i] = s
      BY <2>4, <2>6, <3>1
    <3> QED
      BY <3>1, <3>2 DEF Fits, Change, s
  <2>8. CASE of(g).kind # "REUSE"
    <3>1. L[i] = To(g, was[g], of(g).kind) /\ t[g] = of(g).kind
      BY <1>5, <1>6, <2>1, <2>8 DEF g
    <3>2. L[i].op = "to" /\ L[i].page = g /\ L[i].from = was[g] /\ L[i].to = t[g]
      BY <3>1 DEF To
    <3> QED
      BY <2>5, <2>6, <3>2 DEF Fits, Change, s
  <2> QED
    BY <2>7, <2>8
<1> HIDE DEF h
<1>15. h \in [0 .. n -> States]
  BY <1>11 DEF h
<1>16. History(L, h, was, t)
  BY <1>10, <1>12, <1>13, <1>14, <1>15 DEF History
<1> QED
  BY <1>10, <1>16 DEF Leads, L, t

------------------------------------------------------------------------------
(* The invariant                                                             *)

\* The barrier planner's lemmas, for the plan of the engine.
PlanFacts == INSTANCE BarrierPlanProofs WITH Jobs <- {}

\* No run records the lists of two queues.
OneQueue == ~EnableBranch \/ \A p \in Programs : ~p.parallel

Live == {"idle", "record", "submit", "run"}

\* The arena: which values have a page, and when all have.
ArenaBuilt ==
  /\ prog \in Programs
  /\ window = IF prog.parallel THEN Window(prog) ELSE NoWindow
  /\ task.values = ArenaValues(prog)
  /\ page \in [DOMAIN page -> Nat]
  /\ DOMAIN page \subseteq ArenaValues(prog)
  /\ phase \in {"place", "done"} => DOMAIN page = ArenaValues(prog)
  /\ stage # "arena" => phase = "done"

\* The plan has one record for a page before the kernel of a dispatch and one
\* after it, the second at the fork only.
PlanBuilt ==
  /\ next \in Nat /\ next > 0
  /\ stage = "arena" => records = {}
  /\ stage # "arena" => job = BarrierJob(prog, window, page, offset)
  /\ \A r \in records :
       /\ r.dispatch < next /\ r.page \in Pages /\ r.kind \in {"SRV", "UAV", "REUSE"}
       /\ r.dispatch \in Nat
       /\ r.step \in {"access", "fork"} /\ (r.step = "fork" => r.dispatch = job.fork)
  /\ \A r, s \in records :
       r.dispatch = s.dispatch /\ r.page = s.page /\ r.step = s.step => r = s

\* What is recorded so far leads from COMMON to the states tracked, and a whole
\* recording back to COMMON.
RecordingLeads ==
  /\ dual = FALSE /\ ready \in BOOLEAN
  /\ DOMAIN lists = Lists
  /\ stage \notin Live => ready = FALSE
  /\ stage \in Live =>
       /\ tracked \in States
       /\ \A r \in deferred : r \in records /\ r.step = "fork"
       /\ stage # "record" => tracked = AllCommon
       /\ stage = "submit" => ready
       /\ ready => stage # "record" /\ Leads(lists["main"], AllCommon, AllCommon)
       /\ stage = "record" => /\ Leads(lists["main"], AllCommon, tracked)
                              /\ todo \in Seq([list : {"main"}, at : Dispatches(prog)])

\* What the GPU has left of a frame leads back to COMMON, and the kernels that
\* run have what they need.
GpuLeads ==
  /\ DOMAIN queue = Queues /\ DOMAIN running = Queues
  /\ queue["q1"] = << >> /\ running["q1"] = {}
  /\ stage # "run" => queue["q0"] = << >> /\ running["q0"] = {}
  /\ stage \in Live => /\ Leads(queue["q0"], gpu, AllCommon)
                       /\ \A k \in running["q0"] : Finds(k, gpu)

Inv == ArenaBuilt /\ PlanBuilt /\ RecordingLeads /\ GpuLeads

LEMMA ProgramFacts ==
  ASSUME NEW p \in Programs
  PROVE  /\ ArenaValues(p) \subseteq Nat /\ IsFiniteSet(ArenaValues(p))
         /\ p.input \in ArenaValues(p) /\ Canonical(p)[p.output] \in ArenaValues(p)
         /\ Len(p.plan) \in Nat /\ Dispatches(p) = 1 .. Len(p.plan)
<1>1. WellFormed(p) /\ IsProgram(p)
  BY ReplayAssumption DEF WellFormed
<1>2. Len(p.size) \in Nat /\ Values(p) = 1 .. Len(p.size) /\ p.input \in Values(p)
  BY <1>1 DEF IsProgram, Values
<1>3. ArenaValues(p) \subseteq 1 .. Len(p.size)
  BY <1>2 DEF ArenaValues
<1>4. IsFiniteSet(ArenaValues(p))
  <2>1. IsFiniteSet(1 .. Len(p.size))
    BY <1>2, FS_Interval
  <2> QED
    BY <1>3, <2>1, FS_Subset
<1>5. Len(p.plan) \in Nat /\ Dispatches(p) = 1 .. Len(p.plan)
  BY <1>1 DEF IsProgram, Dispatches
<1> QED
  BY <1>1, <1>3, <1>4, <1>5 DEF WellFormed

LEMMA PagesFinite ==
  ASSUME ArenaBuilt
  PROVE  Pages \subseteq Nat /\ IsFiniteSet(Pages)
<1> DEFINE D == DOMAIN page
<1>1. IsFiniteSet(ArenaValues(prog)) /\ D \subseteq ArenaValues(prog)
  BY ProgramFacts DEF ArenaBuilt
<1>2. IsFiniteSet(D)
  BY <1>1, FS_Subset
<1>3. page \in [D -> Nat]
  BY DEF ArenaBuilt
<1> DEFINE P == {page[v] : v \in D}
<1> HIDE DEF D
<1>4. IsFiniteSet(P)
  <2>1. page \in Surjection(D, P)
    BY <1>3 DEF Surjection
  <2> QED
    BY <1>2, <2>1, FS_Surjection
<1>5. P \subseteq Nat
  BY <1>3
<1> QED
  BY <1>4, <1>5 DEF Pages, D

\* In use, every value of the arena has a page.
LEMMA PagesInUse ==
  ASSUME ArenaBuilt, stage # "arena"
  PROVE  DOMAIN page = ArenaValues(prog) /\ \A v \in ArenaValues(prog) : page[v] \in Pages
BY DEF ArenaBuilt, Pages

LEMMA InitInv == Init => Inv
<1> SUFFICES ASSUME Init PROVE Inv
  OBVIOUS
<1>1. page = << >> /\ phase = "color" /\ task = ArenaTask(prog, Hub(prog, window))
  BY DEF Init, Arena!Start
<1>2. ArenaBuilt
  <2>1. page \in [{} -> Nat] /\ DOMAIN page = {}
    BY <1>1
  <2>2. task.values = ArenaValues(prog)
    BY <1>1 DEF ArenaTask
  <2> QED
    BY <1>1, <2>1, <2>2 DEF Init, ArenaBuilt
<1>3. PlanBuilt
  BY DEF Init, PlanBuilt
<1>4. RecordingLeads
  BY DEF Init, RecordingLeads, Live
<1>5. GpuLeads
  BY DEF Init, GpuLeads, Live, Queues
<1> QED
  BY <1>2, <1>3, <1>4, <1>5 DEF Inv

------------------------------------------------------------------------------
(* Building the engine                                                       *)

\* One step of the planner adds records of the next dispatch only, at most one
\* for a page and a side of the kernel.
LEMMA PlanAdds ==
  ASSUME Plan!PlanDispatch
  PROVE  /\ next' = next + 1 /\ job' = job
         /\ \A r \in records' \ records :
              /\ r.dispatch = next /\ r.page \in Plan!Pages /\ r.kind \in {"SRV", "UAV", "REUSE"}
              /\ r.step \in {"access", "fork"} /\ (r.step = "fork" => r.dispatch = job.fork)
         /\ \A r, s \in records' \ records : r.page = s.page /\ r.step = s.step => r = s
<1> DEFINE A(p) == Plan!AccessRecords(next, p)
           F(p) == Plan!ForkRecords(next, p)
<1>1. records' = records \cup UNION {A(p) \cup F(p) : p \in Plan!Pages}
  BY DEF Plan!PlanDispatch
<1>2. \A p : A(p) = PlanFacts!AccessRecords(next, p)
  BY DEF PlanFacts!AccessRecords, Plan!AccessRecords, PlanFacts!Reads, Plan!Reads,
     PlanFacts!Writes, Plan!Writes, PlanFacts!Record, Plan!Record, PlanFacts!NoValue,
     Plan!NoValue, PlanFacts!LeastId, Plan!LeastId, PlanFacts!Lowest, Plan!Lowest,
     PlanFacts!Hazards, Plan!Hazards, PlanFacts!NamedHazard, Plan!NamedHazard,
     PlanFacts!NamedBefore, Plan!NamedBefore, PlanFacts!ValuesOn, Plan!ValuesOn,
     PlanFacts!Overlap, Plan!Overlap
<1>3. ASSUME NEW p, NEW r \in A(p)
      PROVE  /\ r.dispatch = next /\ r.page = p /\ r.kind \in {"SRV", "UAV", "REUSE"}
             /\ r.step = "access" /\ A(p) = {r}
  BY <1>2, PlanFacts!AccessCases
<1>4. ASSUME NEW p, NEW r \in F(p)
      PROVE  /\ r.dispatch = next /\ r.page = p /\ r.kind = "SRV" /\ r.step = "fork"
             /\ next = job.fork /\ F(p) = {r}
  BY <1>4 DEF Plan!ForkRecords, Plan!Record, Plan!Hoisted
<1> HIDE DEF A, F
<1>5. \A r \in records' \ records : \E p \in Plan!Pages : r \in A(p) \/ r \in F(p)
  BY <1>1
<1>6. ASSUME NEW r \in records' \ records
      PROVE  /\ r.dispatch = next /\ r.page \in Plan!Pages /\ r.kind \in {"SRV", "UAV", "REUSE"}
             /\ r.step \in {"access", "fork"} /\ (r.step = "fork" => r.dispatch = job.fork)
             /\ r.step = "access" => A(r.page) = {r}
             /\ r.step = "fork" => F(r.page) = {r}
  <2>1. PICK p \in Plan!Pages : r \in A(p) \/ r \in F(p)
    BY <1>5
  <2>2. CASE r \in A(p)
    BY <1>3, <2>2
  <2>3. CASE r \in F(p)
    BY <1>4, <2>3
  <2> QED
    BY <2>1, <2>2, <2>3
<1>7. ASSUME NEW r \in records' \ records, NEW s \in records' \ records,
             r.page = s.page, r.step = s.step
      PROVE  r = s
  <2>1. CASE r.step = "access"
    <3>1. A(r.page) = {r} /\ A(r.page) = {s}
      BY <1>6, <1>7, <2>1
    <3> QED
      BY <3>1
  <2>2. CASE r.step = "fork"
    <3>1. F(r.page) = {r} /\ F(r.page) = {s}
      BY <1>6, <1>7, <2>2
    <3> QED
      BY <3>1
  <2> QED
    BY <1>6, <2>1, <2>2
<1>8. next' = next + 1 /\ job' = job
  BY DEF Plan!PlanDispatch
<1> QED
  BY <1>6, <1>7, <1>8

\* What does not touch the plan keeps what is known of it.
LEMMA PlanKept ==
  ASSUME PlanBuilt, UNCHANGED <<page, offset, prog, window, job, next, records>>,
         stage' = "arena" => stage = "arena",
         stage = "arena" => stage' = "arena"
  PROVE  PlanBuilt'
BY DEF PlanBuilt, Pages

LEMMA PlanBarriersStep == Inv /\ PlanBarriers => PlanBuilt'
<1> SUFFICES ASSUME Inv, PlanBarriers PROVE PlanBuilt'
  OBVIOUS
<1>1. /\ stage = "barriers" /\ stage' = stage /\ Plan!Next
      /\ UNCHANGED <<page, offset, prog, window>>
  BY DEF PlanBarriers, arenaVars
<1>2. PlanBuilt /\ ArenaBuilt
  BY DEF Inv
<1>3. CASE Plan!PlanDispatch
  <2> DEFINE new == records' \ records
  <2>1. /\ next' = next + 1 /\ job' = job
        /\ \A r \in new :
             /\ r.dispatch = next /\ r.page \in Plan!Pages /\ r.kind \in {"SRV", "UAV", "REUSE"}
             /\ r.step \in {"access", "fork"} /\ (r.step = "fork" => r.dispatch = job.fork)
        /\ \A r, s \in new : r.page = s.page /\ r.step = s.step => r = s
    BY <1>3, PlanAdds
  <2>2. Plan!Pages = Pages /\ Pages' = Pages
    <3>1. job = BarrierJob(prog, window, page, offset) /\ DOMAIN page = ArenaValues(prog)
      BY <1>1, <1>2, PagesInUse DEF PlanBuilt
    <3>2. /\ DOMAIN job.where = DOMAIN page
          /\ \A v \in DOMAIN page : job.where[v].page = page[v]
      BY <3>1 DEF BarrierJob
    <3> QED
      BY <1>1, <3>2 DEF Plan!Pages, Pages
  <2> HIDE DEF new
  <2>3. \A r \in records' : r \in records \/ r \in new
    BY DEF new
  <2>4. next \in Nat /\ next > 0
    BY <1>2 DEF PlanBuilt
  <2>5. \A r \in records : r.dispatch < next /\ r.dispatch \in Nat
    BY <1>2 DEF PlanBuilt
  <2>6. ASSUME NEW r \in records'
        PROVE  /\ r.dispatch < next' /\ r.page \in Pages' /\ r.kind \in {"SRV", "UAV", "REUSE"}
               /\ r.dispatch \in Nat
               /\ r.step \in {"access", "fork"} /\ (r.step = "fork" => r.dispatch = job'.fork)
    <3>1. CASE r \in records
      BY <1>2, <2>1, <2>2, <2>4, <3>1 DEF PlanBuilt
    <3>2. CASE r \in new
      BY <2>1, <2>2, <2>4, <3>2
    <3> QED
      BY <2>3, <3>1, <3>2
  <2>7. ASSUME NEW r \in records', NEW s \in records',
               r.dispatch = s.dispatch, r.page = s.page, r.step = s.step
        PROVE  r = s
    <3>1. CASE r \in records /\ s \in records
      BY <1>2, <2>7, <3>1 DEF PlanBuilt
    <3>2. CASE r \in new /\ s \in new
      BY <2>1, <2>7, <3>2
    <3>3. CASE (r \in records /\ s \in new) \/ (r \in new /\ s \in records)
      BY <2>1, <2>4, <2>5, <2>7, <3>3
    <3> QED
      BY <2>3, <3>1, <3>2, <3>3
  <2>8. next' \in Nat /\ next' > 0 /\ (stage' = "arena" => records' = {})
        /\ (stage' # "arena" => job' = BarrierJob(prog', window', page', offset'))
    BY <1>1, <1>2, <2>1, <2>4 DEF PlanBuilt
  <2> QED
    BY <2>6, <2>7, <2>8 DEF PlanBuilt
<1>4. CASE Plan!RejectDispatch \/ Plan!PlanDone
  <2>1. UNCHANGED <<job, next, records>>
    BY <1>4 DEF Plan!RejectDispatch, Plan!PlanDone
  <2> QED
    BY <1>1, <1>2, <2>1, PlanKept
<1> QED
  BY <1>1, <1>3, <1>4 DEF Plan!Next

LEMMA ArenaKept ==
  ASSUME ArenaBuilt, UNCHANGED <<arenaVars, prog, window>>, stage' = "arena" => stage = "arena",
         stage' # "arena" => stage # "arena" \/ phase = "done"
  PROVE  ArenaBuilt'
BY DEF ArenaBuilt, arenaVars

LEMMA PlaceValuesStep == Inv /\ PlaceValues => ArenaBuilt'
<1> SUFFICES ASSUME ArenaBuilt, PlaceValues PROVE ArenaBuilt'
  BY DEF Inv
<1>1. stage = "arena" /\ stage' = stage /\ UNCHANGED <<prog, window>> /\ Arena!Next
  BY DEF PlaceValues
<1>2. CASE UNCHANGED <<task, phase, page>>
  BY <1>1, <1>2 DEF ArenaBuilt
<1>3. CASE Arena!ColoringDone
  BY <1>1, <1>3 DEF ArenaBuilt, Arena!ColoringDone
<1>4. CASE Arena!RemapValue
  <2>1. PICK v \in task.values \ DOMAIN page, p \in Nat :
           page' = [x \in DOMAIN page \cup {v} |-> IF x = v THEN p ELSE page[x]]
    BY <1>4 DEF Arena!RemapValue
  <2>2. phase = "remap" /\ UNCHANGED <<task, phase>>
    BY <1>4 DEF Arena!RemapValue
  <2>3. /\ page' \in [DOMAIN page' -> Nat]
        /\ DOMAIN page' \subseteq ArenaValues(prog)
    BY <2>1 DEF ArenaBuilt
  <2> QED
    BY <1>1, <2>2, <2>3 DEF ArenaBuilt
<1>5. CASE Arena!RemapDone
  BY <1>1, <1>5 DEF ArenaBuilt, Arena!RemapDone
<1>6. CASE Arena!PlacingDone
  BY <1>1, <1>6 DEF ArenaBuilt, Arena!PlacingDone
<1>7. Arena!Color \/ Arena!PlaceValue => UNCHANGED <<task, phase, page>>
  BY DEF Arena!Color, Arena!PlaceValue
<1> QED
  BY <1>1, <1>2, <1>3, <1>4, <1>5, <1>6, <1>7 DEF Arena!Next


\* The terms of the invariant depend on the pages and the program alone.
LEMMA SameGraph ==
  ASSUME UNCHANGED <<page, prog>>
  PROVE  /\ Pages' = Pages /\ AllCommon' = AllCommon /\ States' = States
         /\ \A L, s, t : Leads(L, s, t) => Leads(L, s, t)'
         /\ \A k, s : Finds(k, s) => Finds(k, s)'
<1>1. Pages' = Pages
  BY DEF Pages
<1>2. AllCommon' = AllCommon /\ States' = States /\ Command' = Command
  BY <1>1 DEF AllCommon, States, Command
<1>3. ASSUME NEW k, NEW s, Finds(k, s)
      PROVE  Finds(k, s)'
  <2>1. ReadsOf(k)' = ReadsOf(k) /\ WritesOf(k)' = WritesOf(k) /\ WriteState(k)' = WriteState(k)
    BY DEF ReadsOf, WritesOf, WriteState, InputCopy, HeadKernel, Replay!InputCopy, Replay!HeadOf
  <2> QED
    BY <1>1, <1>3, <2>1 DEF Finds
<1>4. ASSUME NEW c, NEW s, Fits(c, s)
      PROVE  Fits(c, s)'
  BY <1>3, <1>4 DEF Fits
<1>5. ASSUME NEW L, NEW s, NEW t, Leads(L, s, t)
      PROVE  Leads(L, s, t)'
  <2>1. PICK h : History(L, h, s, t)
    BY <1>5 DEF Leads
  <2>2. \A c, x : Change(c, x)' = Change(c, x)
    BY DEF Change
  <2>3. History(L, h, s, t)'
    BY <1>2, <1>4, <2>1, <2>2 DEF History
  <2>4. L \in Seq(Command')
    BY <1>2, <1>5 DEF Leads
  <2> QED
    BY <2>3, <2>4 DEF Leads
<1> QED
  BY <1>1, <1>2, <1>3, <1>5

LEMMA BuildingKept ==
  ASSUME stage \notin Live, stage' \notin Live, UNCHANGED <<ready, dual, lists, queue, running>>
  PROVE  /\ RecordingLeads => RecordingLeads'
         /\ GpuLeads => GpuLeads'
BY DEF RecordingLeads, GpuLeads, Live

LEMMA RecordingKept ==
  ASSUME RecordingLeads, stage \in Live, stage' \in Live,
         UNCHANGED <<page, prog, records, ready, dual, tracked, deferred, todo, lists>>,
         stage' = "record" => stage = "record",
         stage = "record" => stage' = "record",
         stage' = "submit" => stage = "submit"
  PROVE  RecordingLeads'
<1>1. tracked = AllCommon => tracked' = AllCommon'
  BY SameGraph
<1>2. \A t : Leads(lists["main"], AllCommon, t) => (Leads(lists["main"], AllCommon, t))'
  BY SameGraph
<1> QED
  BY <1>1, <1>2, SameGraph DEF RecordingLeads

LEMMA BuildingSteps ==
  ASSUME Inv, PlaceValues \/ StartPlan \/ PlanBarriers \/ PlanOver
  PROVE  Inv'
<1>1. stage \notin Live /\ stage' \notin Live
  BY DEF PlaceValues, StartPlan, PlanBarriers, PlanOver, Live
<1>2. UNCHANGED <<ready, dual, lists, queue, running>>
  BY DEF PlaceValues, StartPlan, PlanBarriers, PlanOver, recordVars, gpuVars
<1>3. RecordingLeads' /\ GpuLeads'
  BY <1>1, <1>2, BuildingKept DEF Inv
<1>4. CASE PlaceValues
  <2>1. stage = "arena" /\ stage' = stage /\ UNCHANGED <<next, records>>
    BY <1>4 DEF PlaceValues, planVars
  <2>2. PlanBuilt'
    BY <2>1 DEF Inv, PlanBuilt
  <2> QED
    BY <1>3, <1>4, <2>2, PlaceValuesStep DEF Inv
<1>5. CASE StartPlan
  <2>1. ArenaBuilt'
    BY <1>5, ArenaKept DEF Inv, StartPlan
  <2>2. /\ stage = "arena" /\ stage' = "barriers" /\ UNCHANGED <<next, records>>
        /\ UNCHANGED <<page, offset, prog, window>>
        /\ job' = BarrierJob(prog, window, page, offset)
    BY <1>5 DEF StartPlan, arenaVars
  <2>3. job' = BarrierJob(prog', window', page', offset')
    BY <2>2
  <2>4. next' \in Nat /\ next' > 0 /\ records' = {}
    BY <2>2 DEF Inv, PlanBuilt
  <2>5. PlanBuilt'
    BY <2>2, <2>3, <2>4 DEF PlanBuilt
  <2> QED
    BY <1>3, <2>1, <2>5 DEF Inv
<1>6. CASE PlanBarriers
  <2>1. ArenaBuilt'
    BY <1>6, ArenaKept DEF Inv, PlanBarriers
  <2> QED
    BY <1>3, <1>6, <2>1, PlanBarriersStep DEF Inv
<1>7. CASE PlanOver
  <2>1. ArenaBuilt'
    BY <1>7, ArenaKept DEF Inv, PlanOver
  <2>2. PlanBuilt'
    BY <1>7, PlanKept DEF Inv, PlanOver, arenaVars, planVars
  <2> QED
    BY <1>3, <2>1, <2>2 DEF Inv
<1> QED
  BY <1>4, <1>5, <1>6, <1>7

\* From the load on, the arena and the plan stay as they are.
LEMMA EngineKept ==
  ASSUME ArenaBuilt, PlanBuilt, stage # "arena", stage' # "arena",
         UNCHANGED <<arenaVars, planVars, prog, window>>
  PROVE  ArenaBuilt' /\ PlanBuilt'
<1>1. ArenaBuilt'
  BY ArenaKept
<1>2. PlanBuilt'
  BY PlanKept DEF arenaVars, planVars
<1> QED
  BY <1>1, <1>2

LEMMA LoadStep == Inv /\ Load => Inv'
<1> SUFFICES ASSUME Inv, Load PROVE Inv'
  OBVIOUS
<1>1. /\ stage = "load" /\ stage' \in {"idle", "refused"}
      /\ UNCHANGED <<arenaVars, planVars, prog, window>>
      /\ UNCHANGED <<ready, dual, lists, queue, running>>
      /\ tracked' = AllCommon /\ gpu' = AllCommon /\ deferred' = {}
  BY DEF Load, AllCommon
<1>2. ArenaBuilt' /\ PlanBuilt'
  BY <1>1, EngineKept DEF Inv
<1>3. AllCommon' = AllCommon /\ States' = States /\ AllCommon \in States
  BY <1>1, SameGraph DEF arenaVars, AllCommon, States, PageStates
<1>4. RecordingLeads'
  BY <1>1, <1>3 DEF Inv, RecordingLeads, Live
<1>5. queue' = queue /\ queue["q0"] = << >> /\ running'["q0"] = {}
  BY <1>1 DEF Inv, GpuLeads
<1>6. Leads(queue["q0"], gpu, AllCommon)'
  <2>1. Leads(queue'["q0"], gpu', AllCommon')
    BY <1>1, <1>3, <1>5, LeadsNowhere
  <2>2. UNCHANGED <<page, prog>>
    BY <1>1 DEF arenaVars
  <2> QED
    BY <2>1, <2>2, SameGraph
<1>7. GpuLeads'
  BY <1>1, <1>5, <1>6 DEF Inv, GpuLeads, Live
<1> QED
  BY <1>2, <1>4, <1>7 DEF Inv

------------------------------------------------------------------------------
(* Recording                                                                 *)

\* On one queue, no call records for two.
LEMMA NoDual ==
  ASSUME OneQueue, ArenaBuilt
  PROVE  ~WantsDual
<1>1. CASE ~EnableBranch
  BY <1>1 DEF WantsDual
<1>2. CASE \A p \in Programs : ~p.parallel
  BY <1>2 DEF WantsDual, ArenaBuilt
<1> QED
  BY <1>1, <1>2 DEF OneQueue

LEMMA StartCallStep ==
  ASSUME OneQueue, Inv, StartCall
  PROVE  Inv'
<1>1. /\ stage = "idle" /\ stage' = IF ready THEN "submit" ELSE "record"
      /\ UNCHANGED <<arenaVars, planVars, prog, window, ready, tracked, deferred, gpuVars>>
  BY DEF StartCall
<1> DEFINE n == Cardinality(Dispatches(prog))
           agenda == [i \in 1 .. n |-> [list |-> "main", at |-> InOrder(Dispatches(prog))[i]]]
<1>2. IF ready THEN UNCHANGED <<dual, todo, lists>>
      ELSE dual' = FALSE /\ todo' = agenda /\ lists' = [l \in Lists |-> << >>]
  BY NoDual DEF StartCall, Inv, Agenda
<1>3. ArenaBuilt' /\ PlanBuilt'
  BY <1>1, EngineKept DEF Inv
<1>4. UNCHANGED <<page, prog, records>>
  BY <1>1 DEF arenaVars, planVars
<1>5. tracked = AllCommon /\ tracked \in States
  BY <1>1 DEF Inv, RecordingLeads, Live
<1>6. RecordingLeads'
  <2>1. CASE ready
    <3>1. Leads(lists["main"], AllCommon, AllCommon)'
      <4>1. Leads(lists'["main"], AllCommon, AllCommon)
        BY <1>1, <1>2, <2>1 DEF Inv, RecordingLeads, Live
      <4> QED
        BY <1>4, <4>1, SameGraph
    <3> QED
      BY <1>1, <1>2, <1>4, <2>1, <3>1, SameGraph DEF Inv, RecordingLeads, Live
  <2>2. CASE ~ready
    <3>1. agenda \in Seq([list : {"main"}, at : Dispatches(prog)])
      <4>1. /\ Dispatches(prog) \subseteq Nat /\ IsFiniteSet(Dispatches(prog))
        <5>1. Len(prog.plan) \in Nat /\ Dispatches(prog) = 1 .. Len(prog.plan)
          BY ProgramFacts DEF Inv, ArenaBuilt
        <5> QED
          BY <5>1, FS_Interval
      <4>2. n \in Nat /\ InOrder(Dispatches(prog)) \in [1 .. n -> Dispatches(prog)]
        BY <4>1, InOrderRises
      <4> HIDE DEF n
      <4>3. agenda \in [1 .. n -> [list : {"main"}, at : Dispatches(prog)]]
        BY <4>2
      <4> QED
        BY <4>2, <4>3
    <3> HIDE DEF agenda
    <3>2. Leads(lists["main"], AllCommon, tracked)'
      <4>1. lists'["main"] = << >>
        BY <1>2, <2>2 DEF Lists
      <4>2. Leads(lists'["main"], AllCommon, tracked')
        BY <1>1, <1>5, <4>1, LeadsNowhere
      <4> QED
        BY <1>4, <4>2, SameGraph
    <3>3. stage' = "record"
      BY <1>1, <2>2
    <3> QED
      BY <1>1, <1>2, <1>4, <1>5, <2>2, <3>1, <3>2, <3>3, SameGraph
         DEF Inv, RecordingLeads, Live
  <2> QED
    BY <2>1, <2>2
<1>7. GpuLeads'
  <2>1. Leads(queue["q0"], gpu, AllCommon)' /\ running'["q0"] = {}
    BY <1>1, <1>4, SameGraph DEF Inv, GpuLeads, Live, gpuVars
  <2> QED
    BY <1>1, <2>1 DEF Inv, GpuLeads, Live, gpuVars
<1> QED
  BY <1>3, <1>6, <1>7 DEF Inv

\* A recording that fails on one list leaves every page COMMON.
LEMMA GiveUpStep ==
  ASSUME Inv, stage = "record", NEW left, GiveUp(left),
         \A r \in left : r \in records /\ r.step = "fork",
         UNCHANGED <<arenaVars, planVars, prog, window, ready, gpuVars>>
  PROVE  Inv'
<1>1. dual = FALSE
  BY DEF Inv, RecordingLeads
<1>2. /\ stage' = "idle" /\ dual' = FALSE /\ deferred' = left
      /\ tracked' = AllCommon /\ lists' = [l \in Lists |-> << >>]
  BY <1>1 DEF GiveUp, RollBack, AllCommon
<1>3. ArenaBuilt' /\ PlanBuilt'
  BY <1>2, EngineKept DEF Inv
<1>4. UNCHANGED <<page, prog, records>>
  BY DEF arenaVars, planVars
<1>5. ready' = FALSE
  BY DEF Inv, RecordingLeads, Live
<1>6. RecordingLeads'
  <2>1. AllCommon' = AllCommon /\ States' = States /\ AllCommon \in States
    BY <1>4, SameGraph DEF AllCommon, States, PageStates
  <2> QED
    BY <1>2, <1>4, <1>5, <2>1 DEF RecordingLeads, Live
<1>7. GpuLeads'
  <2>1. Leads(queue["q0"], gpu, AllCommon)' /\ running'["q0"] = {}
    BY <1>4, SameGraph DEF Inv, GpuLeads, Live, gpuVars
  <2> QED
    BY <1>2, <2>1 DEF Inv, GpuLeads, Live, gpuVars
<1> QED
  BY <1>3, <1>6, <1>7 DEF Inv

\* What may be left over of a plan's hoists.
LEMMA HoistsLeft ==
  ASSUME Inv, stage \in Live
  PROVE  /\ \A r \in deferred : r \in records /\ r.step = "fork"
         /\ \A d : \A r \in LateAt(d) : r \in records /\ r.step = "fork"
<1>1. \A r \in deferred : r \in records /\ r.step = "fork"
  BY DEF Inv, RecordingLeads
<1>2. \A d : \A r \in LateAt(d) : r \in records /\ r.step = "fork"
  BY DEF LateAt, RecordsAt
<1> QED
  BY <1>1, <1>2

LEMMA FailingSteps ==
  ASSUME Inv, RefuseBarrier \/ KernelFails \/ PlanMismatch
  PROVE  Inv'
<1>1. stage = "record" /\ stage \in Live
  BY DEF RefuseBarrier, KernelFails, PlanMismatch, Live
<1>2. UNCHANGED <<arenaVars, planVars, prog, window, ready, gpuVars>>
  BY DEF RefuseBarrier, KernelFails, PlanMismatch
<1>3. /\ \A r \in deferred : r \in records /\ r.step = "fork"
      /\ \A d : \A r \in LateAt(d) : r \in records /\ r.step = "fork"
  BY <1>1, HoistsLeft
<1>4. \E left : GiveUp(left) /\ \A r \in left : r \in records /\ r.step = "fork"
  <2>1. CASE RefuseBarrier
    <3> DEFINE d    == Head(todo).at
               left == deferred \cup {r \in LateAt(d) :
                         r.page < Min({s.page : s \in {x \in Ahead(d) : Refused(x)}})}
    <3>1. GiveUp(left)
      BY <2>1 DEF RefuseBarrier
    <3>2. \A r \in left : r \in deferred \/ r \in LateAt(d)
      OBVIOUS
    <3> HIDE DEF left
    <3> QED
      BY <1>3, <3>1, <3>2
  <2>2. CASE KernelFails
    <3> DEFINE d    == Head(todo).at
               left == deferred \cup LateAt(d)
    <3>1. GiveUp(left)
      BY <2>2 DEF KernelFails
    <3>2. \A r \in left : r \in deferred \/ r \in LateAt(d)
      OBVIOUS
    <3> HIDE DEF left
    <3> QED
      BY <1>3, <3>1, <3>2
  <2>3. CASE PlanMismatch
    BY <2>3 DEF PlanMismatch
  <2> QED
    BY <2>1, <2>2, <2>3
<1>5. PICK left : GiveUp(left) /\ \A r \in left : r \in records /\ r.step = "fork"
  BY <1>4
<1> QED
  BY <1>1, <1>2, <1>5, GiveUpStep

\* The records taken ahead of a dispatch, and the hoists taken after it, are on
\* different pages.
LEMMA RecordsApart ==
  ASSUME Inv, stage \in Live, NEW d
  PROVE  /\ OnePerPage(Ahead(d))
         /\ \A now : OnePerPage({r \in deferred \cup LateAt(d) : now[r.page] # "SRV"})
<1>1. /\ \A r \in records : /\ r.page \in Pages /\ r.kind \in {"SRV", "UAV", "REUSE"}
                            /\ r.step \in {"access", "fork"}
                            /\ r.step = "fork" => r.dispatch = job.fork
      /\ \A r, s \in records :
           r.dispatch = s.dispatch /\ r.page = s.page /\ r.step = s.step => r = s
  BY DEF Inv, PlanBuilt
<1>2. \A S : S \subseteq records => \A r \in S : r.page \in Pages /\ r.kind \in PageStates \cup {"REUSE"}
  BY <1>1 DEF PageStates
<1>3. OnePerPage(Ahead(d))
  <2>1. \A r \in Ahead(d) : r \in records /\ r.dispatch = d /\ r \notin LateAt(d)
    BY DEF Ahead, RecordsAt
  <2>2. \A r, q \in Ahead(d) : r.page = q.page => r.step = q.step
    <3> SUFFICES ASSUME NEW r \in Ahead(d), NEW q \in Ahead(d), r.page = q.page,
                        r.step = "fork", q.step = "access"
                 PROVE  r \in LateAt(d)
      BY <1>1, <2>1
    <3> QED
      BY <2>1 DEF LateAt, RecordsAt
  <2> QED
    BY <1>1, <1>2, <2>1, <2>2 DEF OnePerPage
<1>4. ASSUME NEW now
      PROVE  OnePerPage({r \in deferred \cup LateAt(d) : now[r.page] # "SRV"})
  <2> DEFINE S == {r \in deferred \cup LateAt(d) : now[r.page] # "SRV"}
  <2>1. \A r \in S : r \in records /\ r.step = "fork"
    BY HoistsLeft
  <2> HIDE DEF S
  <2>2. \A r, q \in S : r.page = q.page => r = q
    BY <1>1, <2>1
  <2>3. OnePerPage(S)
    BY <1>2, <2>1, <2>2 DEF OnePerPage
  <2> QED
    BY <2>3 DEF S
<1> QED
  BY <1>3, <1>4

\* After its barriers, a dispatch that is recorded finds its pages.
LEMMA DispatchFinds ==
  ASSUME Inv, stage \in Live, NEW d \in Dispatches(prog), NEW now, ~Mismatch(d, now)
  PROVE  Finds(d, now)
<1>1. prog \in Programs /\ \A v \in ArenaValues(prog) : page[v] \in Pages
  BY PagesInUse DEF Inv, ArenaBuilt, Live
<1>2. d \in Nat /\ d # InputCopy /\ d # HeadKernel
  <2>1. Len(prog.plan) \in Nat /\ d \in 1 .. Len(prog.plan)
    BY <1>1, ProgramFacts
  <2> QED
    BY <2>1 DEF InputCopy, HeadKernel, Replay!InputCopy, Replay!HeadOf
<1>3. /\ ReadsOf(d) = KernelReads(prog, d) /\ WritesOf(d) = KernelWrites(prog, d)
      /\ WriteState(d) = "UAV"
  BY <1>2 DEF ReadsOf, WritesOf, WriteState
<1>4. /\ \A v \in KernelReads(prog, d) : v \in ArenaValues(prog) /\ now[page[v]] = "SRV"
      /\ \A v \in KernelWrites(prog, d) : v \in ArenaValues(prog) /\ now[page[v]] = "UAV"
  BY DEF Mismatch, KernelReads, KernelWrites
<1> QED
  BY <1>1, <1>3, <1>4 DEF Finds

\* A kernel that finds its pages, recorded.
LEMMA KernelLeads ==
  ASSUME NEW k \in Nat, NEW s \in States, Finds(k, s)
  PROVE  Leads(<<Run(k)>>, s, s)
<1>1. Run(k) \in Command /\ Run(k).op = "kernel" /\ Run(k).kernel = k
  BY DEF Run, Command
<1>2. Fits(Run(k), s) /\ Change(Run(k), s) = s
  BY <1>1 DEF Fits, Change
<1> QED
  BY <1>1, <1>2, LeadsOne

\* A transition from the state a page is in.
LEMMA TransitionLeads ==
  ASSUME NEW s \in States, NEW g \in Pages, NEW to \in PageStates
  PROVE  Leads(<<To(g, s[g], to)>>, s, [s EXCEPT ![g] = to])
<1> DEFINE c == To(g, s[g], to)
<1>1. s[g] \in PageStates
  BY DEF States
<1>2. c \in Command /\ c.op = "to" /\ c.page = g /\ c.from = s[g] /\ c.to = to
  BY <1>1 DEF To, Command
<1> HIDE DEF c
<1>3. Fits(c, s) /\ Change(c, s) = [s EXCEPT ![g] = to]
  BY <1>2 DEF Fits, Change
<1>4. Leads(<<c>>, s, [s EXCEPT ![g] = to])
  BY <1>2, <1>3, LeadsOne
<1> QED
  BY <1>4 DEF c

LEMMA RecordDispatchStep == Inv /\ RecordDispatch => Inv'
<1> SUFFICES ASSUME Inv, RecordDispatch PROVE Inv'
  OBVIOUS
<1> DEFINE d   == Head(todo).at
           now == After(Ahead(d), tracked)
           due == HoistsDue(now)
           A   == Commands(Ahead(d), tracked)
           K   == IF Material(prog, d) = {} THEN << >> ELSE <<Run(d)>>
           C   == Commands(due, now)
           l   == Head(todo).list
           m   == lists["main"]
<1>1. /\ stage = "record" /\ todo # << >> /\ stage' = stage /\ stage \in Live
      /\ UNCHANGED <<arenaVars, planVars, prog, window, ready, dual, gpuVars>>
      /\ deferred' = {} /\ todo' = Tail(todo) /\ ~Mismatch(d, now)
      /\ lists' = [lists EXCEPT ![l] = @ \o A \o K \o C]
      /\ tracked' = After(due, now)
  BY DEF RecordDispatch, Live
<1>2. /\ tracked \in States /\ Leads(m, AllCommon, tracked) /\ DOMAIN lists = Lists
      /\ todo \in Seq([list : {"main"}, at : Dispatches(prog)])
      /\ dual = FALSE /\ ready = FALSE
  BY <1>1 DEF Inv, RecordingLeads
<1>3. d \in Dispatches(prog) /\ l = "main" /\ Tail(todo) \in Seq([list : {"main"}, at : Dispatches(prog)])
  <2> DEFINE E == [list : {"main"}, at : Dispatches(prog)]
  <2>1. todo \in Seq(E) /\ todo # << >>
    BY <1>1, <1>2
  <2> HIDE DEF E
  <2>2. Head(todo) \in E /\ Tail(todo) \in Seq(E)
    BY <2>1
  <2> QED
    BY <2>2 DEF E
<1>4. OnePerPage(Ahead(d)) /\ OnePerPage(due)
  BY <1>1, RecordsApart DEF HoistsDue
<1>5. Pages \subseteq Nat /\ IsFiniteSet(Pages)
  BY PagesFinite DEF Inv
<1>6. now \in States /\ Leads(A, tracked, now)
  BY <1>2, <1>4, <1>5, CommandsLead, KindsOnPage
<1>7. Leads(C, now, After(due, now)) /\ After(due, now) \in States
  BY <1>4, <1>5, <1>6, CommandsLead, KindsOnPage
<1>8. Leads(K, now, now)
  <2>1. CASE Material(prog, d) = {}
    BY <1>6, <2>1, LeadsNowhere
  <2>2. CASE Material(prog, d) # {}
    <3>1. Finds(d, now)
      BY <1>1, <1>3, DispatchFinds
    <3>2. d \in Nat
      BY <1>3, ProgramFacts DEF Inv, ArenaBuilt
    <3> QED
      BY <1>6, <2>2, <3>1, <3>2, KernelLeads
  <2> QED
    BY <2>1, <2>2
<1> HIDE DEF d, now, due, A, K, C, l, m
<1>9. Leads(m \o A, AllCommon, now)
  BY <1>2, <1>6, LeadsOn
<1>10. Leads((m \o A) \o K, AllCommon, now)
  BY <1>8, <1>9, LeadsOn
<1>11. Leads(((m \o A) \o K) \o C, AllCommon, After(due, now))
  BY <1>7, <1>10, LeadsOn
<1>12. DOMAIN lists' = Lists /\ lists'["main"] = ((m \o A) \o K) \o C
  BY <1>1, <1>2, <1>3 DEF Lists, m
<1>13. UNCHANGED <<page, prog, records>>
  BY <1>1 DEF arenaVars, planVars
<1>14. ArenaBuilt' /\ PlanBuilt'
  BY <1>1, EngineKept DEF Inv
<1>15. RecordingLeads'
  <2>1. Leads(lists["main"], AllCommon, tracked)'
    <3>1. Leads(lists'["main"], AllCommon, tracked')
      BY <1>1, <1>11, <1>12
    <3> QED
      BY <1>13, <3>1, SameGraph
  <2>2. tracked' \in States'
    BY <1>1, <1>7, <1>13, SameGraph
  <2>3. todo' \in Seq([list : {"main"}, at : Dispatches(prog')])
    BY <1>1, <1>3, <1>13
  <2> QED
    BY <1>1, <1>2, <1>12, <2>1, <2>2, <2>3 DEF RecordingLeads, Live
<1>16. GpuLeads'
  <2>1. Leads(queue["q0"], gpu, AllCommon)' /\ running'["q0"] = {}
    BY <1>1, <1>13, SameGraph DEF Inv, GpuLeads, Live, gpuVars
  <2> QED
    BY <1>1, <2>1 DEF Inv, GpuLeads, Live, gpuVars
<1> QED
  BY <1>14, <1>15, <1>16 DEF Inv

\* The reads of the head and the way back to COMMON.
LEMMA HeadLeads ==
  ASSUME Inv, stage \in Live, ~Replay!FusedHead(prog), NEW was \in States
  PROVE  LET out == page[Canonical(prog)[prog.output]]
         IN  Leads((IF was[out] = "SRV" THEN << >> ELSE <<To(out, was[out], "SRV")>>)
                     \o <<Run(HeadKernel)>>, was, [was EXCEPT ![out] = "SRV"])
<1> DEFINE v    == Canonical(prog)[prog.output]
           out  == page[v]
           seen == [was EXCEPT ![out] = "SRV"]
           T    == IF was[out] = "SRV" THEN << >> ELSE <<To(out, was[out], "SRV")>>
<1>1. v \in ArenaValues(prog) /\ Len(prog.plan) \in Nat
  BY ProgramFacts DEF Inv, ArenaBuilt
<1>2. out \in Pages
  BY <1>1, PagesInUse DEF Inv, Live
<1>3. seen \in States /\ seen[out] = "SRV"
  BY <1>2 DEF States, PageStates
<1>4. Leads(T, was, seen)
  <2>1. CASE was[out] = "SRV"
    <3>1. seen = was
      BY <1>2, <2>1 DEF States
    <3> QED
      BY <2>1, <3>1, LeadsNowhere
  <2>2. CASE was[out] # "SRV"
    BY <1>2, <2>2, TransitionLeads DEF PageStates
  <2> QED
    BY <2>1, <2>2
<1>5. HeadKernel \in Nat /\ HeadKernel # InputCopy
  BY <1>1 DEF HeadKernel, InputCopy, Replay!HeadOf, Replay!InputCopy
<1>6. ReadsOf(HeadKernel) = {v} /\ WritesOf(HeadKernel) = {}
  BY <1>5 DEF ReadsOf, WritesOf
<1>7. Finds(HeadKernel, seen)
  BY <1>2, <1>3, <1>6 DEF Finds
<1>8. Leads(<<Run(HeadKernel)>>, seen, seen)
  BY <1>3, <1>5, <1>7, KernelLeads
<1> HIDE DEF seen, T
<1>9. Leads(T \o <<Run(HeadKernel)>>, was, seen)
  BY <1>4, <1>8, LeadsOn
<1> QED
  BY <1>9 DEF T, seen

LEMMA ResetLeads ==
  ASSUME Inv, NEW seen \in States
  PROVE  LET used == InOrder({g \in Pages : seen[g] # "COMMON"})
         IN  Leads([i \in DOMAIN used |-> To(used[i], seen[used[i]], "COMMON")], seen, AllCommon)
<1> DEFINE U    == {g \in Pages : seen[g] # "COMMON"}
           used == InOrder(U)
           S    == {[page |-> g, kind |-> "COMMON"] : g \in U}
           L    == [i \in DOMAIN used |-> To(used[i], seen[used[i]], "COMMON")]
<1>1. Pages \subseteq Nat /\ IsFiniteSet(Pages)
  BY PagesFinite DEF Inv
<1>2. OnePerPage(S)
  BY DEF OnePerPage, PageStates
<1>3. {r.page : r \in S} = U
  <2>1. ASSUME NEW g \in U PROVE \E r \in S : r.page = g
    <3>1. [page |-> g, kind |-> "COMMON"] \in S
      OBVIOUS
    <3> QED
      BY <3>1
  <2>2. \A r \in S : r.page \in U
    OBVIOUS
  <2> HIDE DEF S, U
  <2> QED
    BY <2>1, <2>2
<1>4. \A g \in U : (CHOOSE r \in S : r.page = g).kind = "COMMON"
  <2> SUFFICES ASSUME NEW g \in U PROVE (CHOOSE r \in S : r.page = g).kind = "COMMON"
    OBVIOUS
  <2>1. [page |-> g, kind |-> "COMMON"] \in S
    OBVIOUS
  <2>2. \A r \in S : r.kind = "COMMON"
    OBVIOUS
  <2>3. (CHOOSE r \in S : r.page = g) \in S
    BY <2>1
  <2> QED
    BY <2>2, <2>3
<1>5. \A i \in DOMAIN used : used[i] \in U
  <2>1. U \subseteq Nat /\ IsFiniteSet(U)
    BY <1>1, FS_Subset
  <2> QED
    BY <2>1, InOrderRises
<1> HIDE DEF U, used, S
<1>6. Commands(S, seen) = L
  <2> DEFINE kind(g) == (CHOOSE r \in S : r.page = g).kind
             P == {r.page : r \in S}
  <2>1. Commands(S, seen) =
          [i \in DOMAIN InOrder(P) |->
             IF kind(InOrder(P)[i]) = "REUSE" THEN Flush(InOrder(P)[i])
             ELSE To(InOrder(P)[i], seen[InOrder(P)[i]], kind(InOrder(P)[i]))]
    BY DEF Commands
  <2>2. \A i \in DOMAIN used : kind(used[i]) = "COMMON"
    BY <1>4, <1>5
  <2>3. InOrder(P) = used
    BY <1>3 DEF used
  <2> HIDE DEF kind, P
  <2>4. Commands(S, seen) =
          [i \in DOMAIN used |->
             IF kind(used[i]) = "REUSE" THEN Flush(used[i])
             ELSE To(used[i], seen[used[i]], kind(used[i]))]
    BY <2>1, <2>3
  <2> QED
    BY <2>2, <2>4
<1>7. After(S, seen) = AllCommon
  <2>1. After(S, seen) \in States
    BY <1>2, KindsOnPage
  <2>2. ASSUME NEW g \in Pages PROVE After(S, seen)[g] = "COMMON"
    <3>1. CASE g \in U
      <4>1. PICK r \in S : r.page = g
        BY <1>3, <3>1
      <4>2. r.kind = "COMMON"
        BY <4>1 DEF S
      <4> QED
        BY <1>2, <4>1, <4>2, KindsOnPage
    <3>2. CASE g \notin U
      <4>1. \A r \in S : r.page # g
        BY <1>3, <3>2
      <4>2. seen[g] = "COMMON"
        BY <3>2 DEF U
      <4> QED
        BY <1>2, <4>1, <4>2, KindsOnPage
    <3> QED
      BY <3>1, <3>2
  <2> QED
    BY <2>1, <2>2 DEF AllCommon, States
<1>8. Leads(L, seen, AllCommon)
  BY <1>1, <1>2, <1>6, <1>7, CommandsLead
<1> QED
  BY <1>8 DEF used, U

LEMMA FinishRecordingStep == Inv /\ FinishRecording => Inv'
<1> SUFFICES ASSUME Inv, FinishRecording PROVE Inv'
  OBVIOUS
<1> DEFINE out  == page[Canonical(prog)[prog.output]]
           seen == IF Replay!FusedHead(prog) THEN tracked ELSE [tracked EXCEPT ![out] = "SRV"]
           head == IF Replay!FusedHead(prog) THEN << >>
                   ELSE (IF tracked[out] = "SRV" THEN << >> ELSE <<To(out, tracked[out], "SRV")>>)
                        \o <<Run(HeadKernel)>>
           used == InOrder({g \in Pages : seen[g] # "COMMON"})
           back == [i \in DOMAIN used |-> To(used[i], seen[used[i]], "COMMON")]
           m    == lists["main"]
<1>1. /\ stage = "record" /\ stage \in Live /\ stage' = "submit" /\ ready' = TRUE
      /\ UNCHANGED <<arenaVars, planVars, prog, window, dual, deferred, gpuVars>>
      /\ tracked' = AllCommon
  BY DEF FinishRecording, Live, AllCommon
<1>2. /\ tracked \in States /\ Leads(m, AllCommon, tracked) /\ DOMAIN lists = Lists
      /\ dual = FALSE /\ \A r \in deferred : r \in records /\ r.step = "fork"
  BY <1>1 DEF Inv, RecordingLeads
<1>3. lists' = [lists EXCEPT !["main"] = @ \o head \o back]
  BY <1>2 DEF FinishRecording
<1>4. Leads(head, tracked, seen)
  <2>1. CASE Replay!FusedHead(prog)
    BY <1>2, <2>1, LeadsNowhere
  <2>2. CASE ~Replay!FusedHead(prog)
    BY <1>1, <1>2, <2>2, HeadLeads
  <2> QED
    BY <2>1, <2>2
<1>5. seen \in States
  <2> HIDE DEF seen, head
  <2> QED
    BY <1>4, LeadsStates
<1>6. Leads(back, seen, AllCommon)
  BY <1>5, ResetLeads
<1> HIDE DEF seen, head, back, m
<1>7. Leads(m \o head, AllCommon, seen)
  BY <1>2, <1>4, LeadsOn
<1>8. Leads((m \o head) \o back, AllCommon, AllCommon)
  BY <1>6, <1>7, LeadsOn
<1>9. DOMAIN lists' = Lists /\ lists'["main"] = (m \o head) \o back
  BY <1>2, <1>3 DEF Lists, m
<1>10. UNCHANGED <<page, prog, records>>
  BY <1>1 DEF arenaVars, planVars
<1>11. ArenaBuilt' /\ PlanBuilt'
  BY <1>1, EngineKept DEF Inv
<1>12. RecordingLeads'
  <2>1. Leads(lists["main"], AllCommon, AllCommon)'
    <3>1. Leads(lists'["main"], AllCommon, AllCommon)
      BY <1>8, <1>9
    <3> QED
      BY <1>10, <3>1, SameGraph
  <2>2. tracked' \in States' /\ tracked' = AllCommon'
    BY <1>1, <1>10, SameGraph DEF AllCommon, States, PageStates
  <2> QED
    BY <1>1, <1>2, <1>9, <1>10, <2>1, <2>2 DEF RecordingLeads, Live
<1>13. GpuLeads'
  <2>1. Leads(queue["q0"], gpu, AllCommon)' /\ running'["q0"] = {}
    BY <1>1, <1>10, SameGraph DEF Inv, GpuLeads, Live, gpuVars
  <2> QED
    BY <1>1, <2>1 DEF Inv, GpuLeads, Live, gpuVars
<1> QED
  BY <1>11, <1>12, <1>13 DEF Inv

------------------------------------------------------------------------------
(* Execution                                                                 *)

LEMMA LeadsEmpty ==
  ASSUME NEW s, NEW t, Leads(<< >>, s, t)
  PROVE  s = t
<1>1. PICK h : History(<< >>, h, s, t)
  BY DEF Leads
<1> QED
  BY <1>1 DEF History

LEMMA SubmitStep == Inv /\ Submit => Inv'
<1> SUFFICES ASSUME Inv, Submit PROVE Inv'
  OBVIOUS
<1> DEFINE in   == page[prog.input]
           C1   == <<To(in, "COMMON", "COPY_DEST")>>
           C2   == <<Run(InputCopy)>>
           C3   == <<To(in, "COPY_DEST", "COMMON")>>
           copy == <<To(in, "COMMON", "COPY_DEST"), Run(InputCopy), To(in, "COPY_DEST", "COMMON")>>
           m    == lists["main"]
           s    == [AllCommon EXCEPT ![in] = "COPY_DEST"]
<1>1. /\ stage = "submit" /\ stage \in Live /\ stage' = "run"
      /\ UNCHANGED <<arenaVars, planVars, prog, window, recordVars, running, fence, gpu>>
  BY DEF Submit, Live
<1>2. /\ dual = FALSE /\ ready /\ tracked = AllCommon /\ Leads(m, AllCommon, AllCommon)
  BY <1>1 DEF Inv, RecordingLeads
<1>3. queue' = [q0 |-> copy \o m, q1 |-> << >>]
  BY <1>2 DEF Submit
<1>4. running["q0"] = {} /\ running["q1"] = {} /\ DOMAIN running = Queues /\ gpu = AllCommon
  <2>1. queue["q0"] = << >> /\ Leads(queue["q0"], gpu, AllCommon)
    BY <1>1 DEF Inv, GpuLeads, Live
  <2> QED
    BY <1>1, <2>1, LeadsEmpty DEF Inv, GpuLeads
<1>5. prog.input \in ArenaValues(prog) /\ in \in Pages
  BY <1>1, ProgramFacts, PagesInUse DEF Inv, ArenaBuilt, Live
<1>6. AllCommon \in States /\ s \in States /\ AllCommon[in] = "COMMON" /\ s[in] = "COPY_DEST"
      /\ [s EXCEPT ![in] = "COMMON"] = AllCommon
  BY <1>5 DEF AllCommon, States, PageStates
<1>7. Leads(C1, AllCommon, s)
  BY <1>5, <1>6, TransitionLeads DEF PageStates
<1>8. Leads(C2, s, s)
  <2>1. ReadsOf(InputCopy) = {} /\ WritesOf(InputCopy) = {prog.input} /\ WriteState(InputCopy) = "COPY_DEST"
    <3>1. HeadKernel # InputCopy
      BY ProgramFacts DEF Inv, ArenaBuilt, HeadKernel, InputCopy, Replay!HeadOf, Replay!InputCopy
    <3> QED
      BY <3>1 DEF ReadsOf, WritesOf, WriteState
  <2>2. Finds(InputCopy, s) /\ InputCopy \in Nat
    BY <1>5, <1>6, <2>1 DEF Finds, InputCopy, Replay!InputCopy
  <2> QED
    BY <1>6, <2>2, KernelLeads
<1>9. Leads(C3, s, AllCommon)
  BY <1>5, <1>6, TransitionLeads DEF PageStates
<1>10. copy = (C1 \o C2) \o C3
  <2> DEFINE a == To(in, "COMMON", "COPY_DEST")
             b == Run(InputCopy)
             c == To(in, "COPY_DEST", "COMMON")
             Q == (<<a>> \o <<b>>) \o <<c>>
             D == {a, b, c}
  <2> HIDE DEF a, b, c
  <2>1. <<a>> \in Seq(D) /\ <<b>> \in Seq(D) /\ <<c>> \in Seq(D)
    OBVIOUS
  <2> HIDE DEF D
  <2>2. Q \in Seq(D) /\ Len(Q) = 3 /\ Q[1] = a /\ Q[2] = b /\ Q[3] = c
    BY <2>1
  <2> HIDE DEF Q
  <2>3. Q = [i \in 1 .. 3 |-> Q[i]]
    BY <2>2
  <2>4. Q = <<a, b, c>>
    BY <2>2, <2>3
  <2> QED
    BY <2>4 DEF a, b, c, Q
<1> HIDE DEF copy, C1, C2, C3, m, s
<1>11. Leads(copy, AllCommon, AllCommon)
  <2>1. Leads(C1 \o C2, AllCommon, s)
    BY <1>7, <1>8, LeadsOn
  <2>2. Leads((C1 \o C2) \o C3, AllCommon, AllCommon)
    BY <1>9, <2>1, LeadsOn
  <2> QED
    BY <1>10, <2>2
<1>12. Leads(copy \o m, AllCommon, AllCommon)
  BY <1>2, <1>11, LeadsOn
<1>13. UNCHANGED <<page, prog, records, ready, dual, tracked, deferred, todo, lists>>
  BY <1>1 DEF arenaVars, planVars, recordVars
<1>14. ArenaBuilt' /\ PlanBuilt'
  BY <1>1, EngineKept DEF Inv
<1>15. RecordingLeads'
  BY <1>1, <1>13, RecordingKept DEF Inv, Live
<1>16. GpuLeads'
  <2>1. /\ queue'["q0"] = copy \o m /\ queue'["q1"] = << >>
        /\ DOMAIN queue' = Queues
    BY <1>3 DEF Queues
  <2>2. Leads(queue'["q0"], gpu', AllCommon)
    BY <1>1, <1>4, <1>12, <2>1
  <2>3. Leads(queue["q0"], gpu, AllCommon)'
    BY <1>13, <2>2, SameGraph
  <2> QED
    BY <1>1, <1>4, <2>1, <2>3 DEF GpuLeads, Live
<1> QED
  BY <1>14, <1>15, <1>16 DEF Inv

LEMMA FrameDoneStep == Inv /\ FrameDone => Inv'
<1> SUFFICES ASSUME Inv, FrameDone PROVE Inv'
  OBVIOUS
<1>1. /\ stage = "run" /\ stage \in Live /\ stage' = "idle"
      /\ queue["q0"] = << >> /\ running["q0"] = {}
      /\ UNCHANGED <<arenaVars, planVars, prog, window, recordVars, gpuVars>>
  BY DEF FrameDone, Live
<1>2. UNCHANGED <<page, prog, records, ready, dual, tracked, deferred, todo, lists>>
  BY <1>1 DEF arenaVars, planVars, recordVars
<1>3. ArenaBuilt' /\ PlanBuilt'
  BY <1>1, EngineKept DEF Inv
<1>4. RecordingLeads'
  BY <1>1, <1>2, RecordingKept DEF Inv, Live
<1>5. GpuLeads'
  <2>1. Leads(queue["q0"], gpu, AllCommon)'
    BY <1>1, <1>2, SameGraph DEF Inv, GpuLeads, gpuVars
  <2> QED
    BY <1>1, <2>1 DEF Inv, GpuLeads, Live, gpuVars
<1> QED
  BY <1>3, <1>4, <1>5 DEF Inv

\* One step of the GPU takes a command that fits, or ends a kernel.
LEMMA GpuStepKeeps ==
  ASSUME Inv, NEW q \in Queues, GpuStep(q)
  PROVE  Inv'
<1>1. UNCHANGED <<arenaVars, planVars, prog, window, stage, recordVars>>
  BY DEF GpuStep
<1>2. q = "q0" /\ stage = "run" /\ stage \in Live
  <2>1. queue[q] # << >> \/ running[q] # {}
    BY DEF GpuStep, StartKernel, EndKernel, Barrier, SignalFence, WaitFence
  <2> QED
    BY <2>1 DEF Inv, GpuLeads, Queues, Live
<1>3. /\ DOMAIN queue = Queues /\ DOMAIN running = Queues
      /\ queue["q1"] = << >> /\ running["q1"] = {}
      /\ Leads(queue["q0"], gpu, AllCommon) /\ \A k \in running["q0"] : Finds(k, gpu)
  BY <1>2 DEF Inv, GpuLeads
<1>4. UNCHANGED <<page, prog, records, ready, dual, tracked, deferred, todo, lists>>
  BY <1>1 DEF arenaVars, planVars, recordVars
<1>5. ArenaBuilt' /\ PlanBuilt'
  BY <1>1, <1>2, EngineKept DEF Inv, Live
<1>6. RecordingLeads'
  BY <1>1, <1>2, <1>4, RecordingKept DEF Inv
<1> DEFINE c == Head(queue["q0"])
<1>7. queue["q0"] # << >> => /\ c \in Command /\ Fits(c, gpu)
                             /\ Leads(Tail(queue["q0"]), Change(c, gpu), AllCommon)
  BY <1>3, LeadsTail
<1>8. /\ DOMAIN queue' = Queues /\ DOMAIN running' = Queues
      /\ queue'["q1"] = << >> /\ running'["q1"] = {}
      /\ Leads(queue'["q0"], gpu', AllCommon)
      /\ \A k \in running'["q0"] : Finds(k, gpu')
  <2>1. CASE StartKernel(q)
    <3>1. /\ queue["q0"] # << >> /\ c.op = "kernel" /\ gpu' = gpu
          /\ running' = [running EXCEPT !["q0"] = @ \cup {c.kernel}]
          /\ queue' = [queue EXCEPT !["q0"] = Tail(@)]
      BY <1>2, <2>1 DEF StartKernel
    <3>2. Change(c, gpu) = gpu /\ Finds(c.kernel, gpu)
      BY <1>7, <3>1 DEF Change, Fits
    <3> QED
      BY <1>3, <1>7, <3>1, <3>2 DEF Queues
  <2>2. CASE EndKernel(q)
    <3>1. PICK k : running' = [running EXCEPT !["q0"] = @ \ {k}]
      BY <1>2, <2>2 DEF EndKernel
    <3>2. UNCHANGED <<queue, gpu>>
      BY <2>2 DEF EndKernel
    <3> QED
      BY <1>3, <3>1, <3>2 DEF Queues
  <2>3. CASE Barrier(q)
    <3>1. /\ queue["q0"] # << >> /\ c.op \in {"to", "uav"} /\ UNCHANGED running
          /\ \A k \in running["q0"] : c.page \notin PagesOf(k)
          /\ gpu' = IF c.op = "uav" THEN gpu ELSE [gpu EXCEPT ![c.page] = c.to]
          /\ queue' = [queue EXCEPT !["q0"] = Tail(@)]
      BY <1>2, <2>3 DEF Barrier
    <3>2. gpu' = Change(c, gpu)
      BY <3>1 DEF Change
    <3>3. ASSUME NEW k \in running["q0"] PROVE Finds(k, gpu')
      <4>1. Finds(k, gpu) /\ c.page \notin PagesOf(k)
        BY <1>3, <3>1
      <4>2. \A v \in ReadsOf(k) \cup WritesOf(k) : page[v] # c.page
        BY <4>1 DEF PagesOf
      <4>3. gpu \in States
        BY <1>3, LeadsStates
      <4>4. \A g \in Pages : g # c.page => gpu'[g] = gpu[g]
        BY <3>1, <4>3 DEF States
      <4> QED
        BY <4>1, <4>2, <4>4 DEF Finds
    <3>4. queue' = [queue EXCEPT !["q0"] = Tail(@)] /\ running' = running
      BY <3>1
    <3>5. queue'["q0"] = Tail(queue["q0"]) /\ queue'["q1"] = << >> /\ DOMAIN queue' = Queues
      BY <1>3, <3>4 DEF Queues
    <3> QED
      BY <1>3, <1>7, <3>1, <3>2, <3>3, <3>4, <3>5
  <2>4. CASE SignalFence(q) \/ WaitFence(q)
    <3>1. queue["q0"] # << >> /\ c.op \in {"signal", "wait"}
      BY <1>2, <2>4 DEF SignalFence, WaitFence
    <3> QED
      BY <1>7, <3>1, CommandKinds
  <2> QED
    BY <2>1, <2>2, <2>3, <2>4 DEF GpuStep
<1>9. GpuLeads'
  <2>1. Leads(queue["q0"], gpu, AllCommon)'
    BY <1>4, <1>8, SameGraph
  <2>2. \A k \in running'["q0"] : Finds(k, gpu)'
    BY <1>4, <1>8, SameGraph
  <2> QED
    BY <1>1, <1>2, <1>8, <2>1, <2>2 DEF GpuLeads
<1> QED
  BY <1>5, <1>6, <1>9 DEF Inv

LEMMA StutterStep == Inv /\ UNCHANGED vars => Inv'
<1> SUFFICES ASSUME Inv, UNCHANGED vars PROVE Inv'
  OBVIOUS
<1>1. UNCHANGED <<arenaVars, planVars, prog, window, stage, recordVars, gpuVars>>
  BY DEF vars
<1>2. UNCHANGED <<page, offset, prog, window, job, next, records, ready, dual, tracked, deferred,
                  todo, lists, queue, running, gpu>>
  BY <1>1 DEF arenaVars, planVars, recordVars, gpuVars
<1>3. ArenaBuilt' /\ PlanBuilt'
  BY <1>1, <1>2, ArenaKept, PlanKept DEF Inv, ArenaBuilt
<1>4. CASE stage \in Live
  <2>1. RecordingLeads'
    BY <1>1, <1>2, <1>4, RecordingKept DEF Inv
  <2>2. Leads(queue["q0"], gpu, AllCommon)'
    BY <1>2, <1>4, SameGraph DEF Inv, GpuLeads
  <2>3. \A k \in running["q0"] : Finds(k, gpu)'
    BY <1>2, <1>4, SameGraph DEF Inv, GpuLeads
  <2>4. GpuLeads'
    BY <1>1, <1>2, <1>4, <2>2, <2>3 DEF Inv, GpuLeads
  <2> QED
    BY <1>3, <2>1, <2>4 DEF Inv
<1>5. CASE stage \notin Live
  BY <1>1, <1>2, <1>3, <1>5, BuildingKept DEF Inv
<1> QED
  BY <1>4, <1>5

------------------------------------------------------------------------------
(* The theorems                                                              *)

\* On one queue, what is recorded and what the GPU has left always leads from
\* the states the pages are in back to COMMON.
THEOREM ReplayInvariant ==
  ASSUME OneQueue
  PROVE  Spec => []Inv
<1>1. Init => Inv
  BY InitInv
<1>2. Inv /\ [Next]_vars => Inv'
  <2> SUFFICES ASSUME Inv, [Next]_vars PROVE Inv'
    OBVIOUS
  <2>1. CASE PlaceValues \/ StartPlan \/ PlanBarriers \/ PlanOver
    BY <2>1, BuildingSteps
  <2>2. CASE Load
    BY <2>2, LoadStep
  <2>3. CASE StartCall
    BY <2>3, StartCallStep
  <2>4. CASE RefuseBarrier \/ KernelFails \/ PlanMismatch
    BY <2>4, FailingSteps
  <2>5. CASE RecordDispatch
    BY <2>5, RecordDispatchStep
  <2>6. CASE FinishRecording
    BY <2>6, FinishRecordingStep
  <2>7. CASE Submit
    BY <2>7, SubmitStep
  <2>8. CASE FrameDone
    BY <2>8, FrameDoneStep
  <2>9. ASSUME NEW q \in Queues, GpuStep(q) PROVE Inv'
    BY <2>9, GpuStepKeeps
  <2>10. CASE UNCHANGED vars
    BY <2>10, StutterStep
  <2> QED
    BY <2>1, <2>2, <2>3, <2>4, <2>5, <2>6, <2>7, <2>8, <2>9, <2>10 DEF Next, Host
<1> QED
  BY <1>1, <1>2, PTL DEF Spec

\* On one queue, no transition names a state its page is not in, in the first
\* frame and in all later ones, after recordings that failed too.
THEOREM TransitionsRight ==
  ASSUME OneQueue
  PROVE  Spec => []TransitionsStartRight
<1>1. Inv => TransitionsStartRight
  <2> SUFFICES ASSUME Inv, NEW q \in Queues, queue[q] # << >>, Head(queue[q]).op = "to"
               PROVE  gpu[Head(queue[q]).page] = Head(queue[q]).from
    BY DEF TransitionsStartRight
  <2>1. q = "q0" /\ stage = "run"
    BY DEF Inv, GpuLeads, Queues
  <2>2. Leads(queue["q0"], gpu, AllCommon)
    BY <2>1 DEF Inv, GpuLeads, Live
  <2> QED
    BY <2>1, <2>2, LeadsTail DEF Fits
<1> QED
  BY <1>1, ReplayInvariant, PTL

\* On one queue, the pages a kernel uses are and stay in the states it needs
\* while it runs.
THEOREM PagesFound ==
  ASSUME OneQueue
  PROVE  Spec => []KernelsFindTheirPages
<1>1. Inv => KernelsFindTheirPages
  <2> SUFFICES ASSUME Inv, NEW q \in Queues, NEW k \in running[q]
               PROVE  /\ \A v \in ReadsOf(k) : gpu[page[v]] = "SRV"
                      /\ \A v \in WritesOf(k) : gpu[page[v]] = WriteState(k)
    BY DEF KernelsFindTheirPages
  <2>1. q = "q0" /\ stage = "run"
    BY DEF Inv, GpuLeads, Queues
  <2>2. Finds(k, gpu)
    BY <2>1 DEF Inv, GpuLeads, Live
  <2> QED
    BY <2>2 DEF Finds
<1> QED
  BY <1>1, ReplayInvariant, PTL

------------------------------------------------------------------------------
(* Stages and lives of a program's values                                    *)

\* A finite set of numbers has a greatest member.
LEMMA MaxOfSet ==
  ASSUME NEW S, S \subseteq Nat, IsFiniteSet(S), S # {}
  PROVE  Max(S) \in S /\ \A x \in S : Max(S) >= x
<1> DEFINE n == Cardinality(S)
           m == InOrder(S)[n]
<1>1. /\ n \in Nat /\ InOrder(S) \in [1 .. n -> S]
      /\ \A x \in S : \E i \in 1 .. n : InOrder(S)[i] = x
      /\ \A i, j \in 1 .. n : i < j => InOrder(S)[i] < InOrder(S)[j]
  BY InOrderRises
<1> HIDE DEF n
<1>2. n \in 1 .. n
  <2>1. PICK x \in S : TRUE
    OBVIOUS
  <2>2. PICK i \in 1 .. n : InOrder(S)[i] = x
    BY <1>1, <2>1
  <2> QED
    BY <1>1, <2>2
<1>3. m \in S
  BY <1>1, <1>2
<1>4. ASSUME NEW x \in S PROVE m >= x
  <2>1. PICK i \in 1 .. n : InOrder(S)[i] = x
    BY <1>1
  <2>2. i = n \/ i < n
    BY <1>1
  <2>3. i < n => x < m
    BY <1>1, <1>2, <2>1
  <2>4. x \in Nat /\ m \in Nat
    BY <1>3
  <2> QED
    BY <2>1, <2>2, <2>3, <2>4
<1> HIDE DEF m
<1>5. \E x \in S : \A y \in S : x >= y
  BY <1>3, <1>4
<1> QED
  BY <1>5 DEF Max

\* A set of at most one member has no two.
LEMMA AtMostOne ==
  ASSUME NEW S, IsFiniteSet(S), Cardinality(S) <= 1, NEW x \in S, NEW y \in S
  PROVE  x = y
<1>1. Cardinality({x}) = 1 /\ Cardinality(S) \in Nat
  BY FS_Singleton, FS_CardinalityType
<1>2. {x} \subseteq S
  OBVIOUS
<1>3. Cardinality({x}) <= Cardinality(S) /\ (Cardinality({x}) = Cardinality(S) => {x} = S)
  BY <1>2, FS_Subset
<1>4. {x} = S
  BY <1>1, <1>3
<1> QED
  BY <1>4

\* The dispatches that run a kernel, before dispatch d.
Earlier(p, d) == {e \in 1 .. d - 1 : Material(p, e) # {}}

LEMMA StageFacts ==
  ASSUME NEW p \in Programs
  PROVE  /\ StageCount(p) \in Nat
         /\ \A d \in Dispatches(p) : Stage(p, d) \in Nat /\ Stage(p, d) <= StageCount(p)
         /\ \A d, e \in Dispatches(p) :
              e < d /\ Material(p, e) # {} => Stage(p, e) < Stage(p, d)
<1> DEFINE n == Len(p.plan)
           A == {d \in Dispatches(p) : Material(p, d) # {}}
<1>1. n \in Nat /\ Dispatches(p) = 1 .. n
  BY ProgramFacts
<1>2. IsFiniteSet(A) /\ Cardinality(A) \in Nat
  <2>1. IsFiniteSet(1 .. n) /\ A \subseteq 1 .. n
    BY <1>1, FS_Interval
  <2> QED
    BY <2>1, FS_Subset, FS_CardinalityType
<1>3. StageCount(p) = Cardinality(A)
  BY DEF StageCount
<1>4. \A d \in Dispatches(p) : Earlier(p, d) \subseteq A /\ Stage(p, d) = Cardinality(Earlier(p, d))
  BY <1>1 DEF Earlier, Stage
<1> HIDE DEF A
<1>5. ASSUME NEW d \in Dispatches(p)
      PROVE  /\ IsFiniteSet(Earlier(p, d))
             /\ Stage(p, d) \in Nat /\ Stage(p, d) <= StageCount(p)
  <2>1. IsFiniteSet(Earlier(p, d)) /\ Cardinality(Earlier(p, d)) <= Cardinality(A)
    BY <1>2, <1>4, FS_Subset
  <2> QED
    BY <1>3, <1>4, <2>1, FS_CardinalityType
<1>6. ASSUME NEW d \in Dispatches(p), NEW e \in Dispatches(p), e < d, Material(p, e) # {}
      PROVE  Stage(p, e) < Stage(p, d)
  <2> DEFINE B == Earlier(p, e)
             C == Earlier(p, d)
  <2>1. B \subseteq C /\ e \in C /\ e \notin B
    BY <1>1, <1>6 DEF Earlier
  <2>2. IsFiniteSet(B) /\ IsFiniteSet(C)
    BY <1>5
  <2>3. Stage(p, e) = Cardinality(B) /\ Stage(p, d) = Cardinality(C)
    BY <1>4
  <2> HIDE DEF B, C
  <2>4. Cardinality(B) <= Cardinality(C) /\ (Cardinality(B) = Cardinality(C) => B = C)
    BY <2>1, <2>2, FS_Subset
  <2> QED
    BY <1>5, <2>1, <2>3, <2>4
<1> QED
  BY <1>2, <1>3, <1>5, <1>6

LEMMA DispatchesFinite ==
  ASSUME NEW p \in Programs
  PROVE  IsFiniteSet(Dispatches(p))
<1>1. Len(p.plan) \in Nat /\ Dispatches(p) = 1 .. Len(p.plan)
  BY ProgramFacts
<1>2. IsFiniteSet(1 .. Len(p.plan))
  BY <1>1, FS_Interval
<1> QED
  BY <1>1, <1>2

\* The one dispatch that produces a value.
LEMMA OneProducer ==
  ASSUME NEW p \in Programs, NEW v \in Values(p), NEW d \in Producers(p, v)
  PROVE  Producers(p, v) = {d}
<1>1. WellFormed(p)
  BY ReplayAssumption
<1>2. IsFiniteSet(Producers(p, v))
  <2>1. Producers(p, v) \subseteq Dispatches(p)
    BY DEF Producers
  <2> QED
    BY <2>1, DispatchesFinite, FS_Subset
<1>3. Cardinality(Producers(p, v)) <= 1
  BY <1>1 DEF WellFormed
<1> QED
  BY <1>2, <1>3, AtMostOne

\* When a value starts: with the input, or one stage after its producer.
LEMMA StartFacts ==
  ASSUME NEW p \in Programs
  PROVE  /\ \A v \in ArenaValues(p) : v \in Values(p) /\ StartOf(p, v) \in Nat
         /\ StartOf(p, p.input) = 0
         /\ \A d \in Dispatches(p) : \A v \in Materialized(p, d) \cap ArenaValues(p) :
              StartOf(p, v) = Stage(p, d) + 1 /\ Material(p, d) # {}
<1>1. WellFormed(p) /\ IsProgram(p)
  BY ReplayAssumption DEF WellFormed
<1>2. \A v \in ArenaValues(p) : v \in Values(p)
  BY <1>1 DEF IsProgram, ArenaValues
<1>3. ASSUME NEW v \in ArenaValues(p) PROVE StartOf(p, v) \in Nat
  <2>1. CASE v = p.input \/ Producers(p, v) = {}
    BY <2>1 DEF StartOf
  <2>2. CASE ~(v = p.input \/ Producers(p, v) = {})
    <3>1. (CHOOSE d \in Producers(p, v) : TRUE) \in Dispatches(p)
      BY <2>2 DEF Producers
    <3> QED
      BY <2>2, <3>1, StageFacts DEF StartOf
  <2> QED
    BY <2>1, <2>2
<1>4. StartOf(p, p.input) = 0
  BY DEF StartOf
<1>5. ASSUME NEW d \in Dispatches(p), NEW v \in Materialized(p, d) \cap ArenaValues(p)
      PROVE  StartOf(p, v) = Stage(p, d) + 1 /\ Material(p, d) # {}
  <2>1. v \in Produced(p, d)
    BY <1>1 DEF WellFormed
  <2>2. d \in Producers(p, v) /\ Material(p, d) # {}
    BY <2>1 DEF Producers, Produced
  <2>3. Producers(p, v) = {d}
    BY <1>2, <2>2, OneProducer
  <2>4. v # p.input
    BY <1>1, <2>2 DEF WellFormed
  <2>5. (CHOOSE e \in Producers(p, v) : TRUE) = d
    BY <2>3
  <2> QED
    BY <2>2, <2>4, <2>5 DEF StartOf
<1> QED
  BY <1>2, <1>3, <1>4, <1>5

\* A value's life does not end before its last reader, the head included.
LEMMA EndFacts ==
  ASSUME NEW p \in Programs, NEW v \in ArenaValues(p)
  PROVE  /\ EndOf(p, v) \in Nat /\ StartOf(p, v) <= EndOf(p, v)
         /\ \A d \in Dispatches(p) : v \in External(p, d) => Stage(p, d) + 1 <= EndOf(p, v)
         /\ v = Canonical(p)[p.output] => StageCount(p) + 2 <= EndOf(p, v)
<1> DEFINE A == {Stage(p, d) : d \in Consumers(p, v)}
           B == IF v = Canonical(p)[p.output] THEN {StageCount(p) + 1} ELSE {}
           used == A \cup B
<1>1. StageCount(p) \in Nat /\ \A d \in Dispatches(p) : Stage(p, d) \in Nat
  BY StageFacts
<1>2. IsFiniteSet(A) /\ A \subseteq Nat
  <2> DEFINE C == Consumers(p, v)
             f == [d \in C |-> Stage(p, d)]
  <2>1. IsFiniteSet(Dispatches(p)) /\ C \subseteq Dispatches(p)
    BY DispatchesFinite DEF Consumers
  <2>2. IsFiniteSet(C)
    BY <2>1, FS_Subset
  <2>3. f \in Surjection(C, A)
    BY DEF Surjection
  <2>4. A \subseteq Nat
    BY <1>1, <2>1
  <2> HIDE DEF A, C, f
  <2> QED
    BY <2>2, <2>3, <2>4, FS_Surjection
<1>3. IsFiniteSet(B) /\ B \subseteq Nat
  <2>1. CASE v = Canonical(p)[p.output]
    <3>1. B = {StageCount(p) + 1}
      BY <2>1
    <3> QED
      BY <1>1, <3>1, FS_Singleton
  <2>2. CASE v # Canonical(p)[p.output]
    <3>1. B = {}
      BY <2>2
    <3> QED
      BY <3>1, FS_EmptySet
  <2> QED
    BY <2>1, <2>2
<1>4. IsFiniteSet(used) /\ used \subseteq Nat
  <2> HIDE DEF A, B
  <2> QED
    BY <1>2, <1>3, FS_Union
<1>5. LastUse(p, v) = IF used = {} THEN -1 ELSE Max(used)
  BY DEF LastUse
<1>6. /\ LastUse(p, v) + 1 \in Nat /\ LastUse(p, v) \in Int
      /\ \A x \in used : x <= LastUse(p, v)
  <2> HIDE DEF used
  <2>1. CASE used = {}
    BY <1>5, <2>1
  <2>2. CASE used # {}
    <3>1. Max(used) \in used /\ \A x \in used : Max(used) >= x
      BY <1>4, <2>2, MaxOfSet
    <3>2. Max(used) \in Nat
      BY <1>4, <3>1
    <3> QED
      BY <1>4, <1>5, <2>2, <3>1, <3>2
  <2> QED
    BY <2>1, <2>2
<1> DEFINE s == StartOf(p, v)
           l == LastUse(p, v) + 1
<1>7. s \in Nat
  BY StartFacts
<1>8. EndOf(p, v) = Max({s, l})
  BY DEF EndOf
<1> HIDE DEF s, l
<1>9. Max({s, l}) \in {s, l} /\ Max({s, l}) >= s /\ Max({s, l}) >= l
  <2> DEFINE D == {s, l}
  <2>1. IsFiniteSet(D)
    <3>1. IsFiniteSet({s}) /\ IsFiniteSet({l})
      BY FS_Singleton
    <3>2. D = {s} \cup {l}
      OBVIOUS
    <3> QED
      BY <3>1, <3>2, FS_Union
  <2>2. D \subseteq Nat /\ D # {} /\ s \in D /\ l \in D
    BY <1>6, <1>7 DEF l
  <2> HIDE DEF D
  <2>3. Max(D) \in D /\ \A x \in D : Max(D) >= x
    BY <2>1, <2>2, MaxOfSet
  <2> QED
    BY <2>2, <2>3 DEF D
<1>10. EndOf(p, v) \in Nat /\ s <= EndOf(p, v) /\ l <= EndOf(p, v)
  <2>1. l \in Nat
    BY <1>6 DEF l
  <2> QED
    BY <1>7, <1>8, <1>9, <2>1
<1>11. \A x \in used : x \in Nat /\ x + 1 <= EndOf(p, v)
  <2> HIDE DEF used
  <2> SUFFICES ASSUME NEW x \in used PROVE x \in Nat /\ x + 1 <= EndOf(p, v)
    OBVIOUS
  <2>1. x \in Nat /\ x <= LastUse(p, v)
    BY <1>4, <1>6
  <2>2. LastUse(p, v) + 1 <= EndOf(p, v)
    BY <1>10 DEF l
  <2> QED
    BY <1>6, <1>10, <2>1, <2>2
<1>12. ASSUME NEW d \in Dispatches(p), v \in External(p, d)
       PROVE  Stage(p, d) + 1 <= EndOf(p, v)
  <2>1. d \in Consumers(p, v)
    BY <1>12 DEF Consumers
  <2>2. Stage(p, d) \in used
    BY <2>1
  <2> QED
    BY <1>11, <2>2
<1>13. ASSUME v = Canonical(p)[p.output]
       PROVE  StageCount(p) + 2 <= EndOf(p, v)
  <2>1. StageCount(p) + 1 \in used
    BY <1>13
  <2> HIDE DEF used
  <2>2. (StageCount(p) + 1) + 1 <= EndOf(p, v)
    BY <1>11, <2>1
  <2> QED
    BY <1>1, <1>10, <2>2
<1> QED
  BY <1>10, <1>12, <1>13 DEF s

------------------------------------------------------------------------------
(* Kernels, what they read, and who makes it                                 *)

\* The semantics speaks of the same graph.
LEMMA SameSemantics ==
  ASSUME NEW p
  PROVE  /\ Replay!Dispatches(p) = Dispatches(p)
         /\ \A d : Replay!Material(p, d) = Material(p, d)
         /\ Replay!Canonical(p) = Canonical(p)
         /\ \A d : Replay!External(p, d) = External(p, d)
         /\ \A v : Replay!Producers(p, v) = Producers(p, v)
<1>1. Replay!Dispatches(p) = Dispatches(p)
  BY DEF Replay!Dispatches, Dispatches
<1>2. \A c : Replay!IsView(p, c) = IsView(p, c)
  BY DEF Replay!IsView, IsView
<1>3. \A d : Replay!Owned(p, d) = Owned(p, d)
  BY DEF Replay!Owned, Owned, Replay!Range, Range
<1>4. \A d : Replay!Material(p, d) = Material(p, d)
  BY <1>2, <1>3 DEF Replay!Material, Material
<1>5. Replay!AliasSource(p) = AliasSource(p)
  BY DEF Replay!AliasSource, AliasSource, Replay!IsView, IsView
<1>6. Replay!Canonical(p) = Canonical(p)
  BY <1>5 DEF Replay!Canonical, Canonical, Replay!Values, Values
<1>7. \A c : Replay!ReadBy(p, c) = ReadBy(p, c) /\ Replay!WrittenBy(p, c) = WrittenBy(p, c)
  BY <1>6 DEF Replay!ReadBy, ReadBy, Replay!WrittenBy, WrittenBy, Replay!Range, Range
<1>8. \A d : Replay!Produced(p, d) = Produced(p, d)
  BY <1>4, <1>7 DEF Replay!Produced, Produced
<1>9. \A d : Replay!External(p, d) = External(p, d)
  BY <1>4, <1>7, <1>8 DEF Replay!External, External
<1>10. \A v : Replay!Producers(p, v) = Producers(p, v)
  BY <1>1, <1>8 DEF Replay!Producers, Producers
<1> QED
  BY <1>1, <1>4, <1>6, <1>9, <1>10

\* The three kinds of kernel.
LEMMA KernelKinds ==
  ASSUME prog \in Programs, NEW k \in Replay!Kernels(prog)
  PROVE  /\ k \in Nat
         /\ \/ k = InputCopy /\ ReadsOf(k) = {} /\ WritesOf(k) = {prog.input}
            \/ /\ k \in Dispatches(prog) /\ k > InputCopy /\ k < HeadKernel /\ Material(prog, k) # {}
               /\ ReadsOf(k) = KernelReads(prog, k) /\ WritesOf(k) = KernelWrites(prog, k)
            \/ /\ k = HeadKernel /\ k > InputCopy /\ ~Replay!FusedHead(prog)
               /\ ReadsOf(k) = {Canonical(prog)[prog.output]} /\ WritesOf(k) = {}
<1> DEFINE n == Len(prog.plan)
<1>1. n \in Nat /\ Dispatches(prog) = 1 .. n
  BY ProgramFacts
<1>2. InputCopy = 0 /\ HeadKernel = n + 1
  BY DEF InputCopy, HeadKernel, Replay!InputCopy, Replay!HeadOf
<1> HIDE DEF n
<1>3. \/ k = InputCopy
      \/ k \in Dispatches(prog) /\ Material(prog, k) # {}
      \/ k = HeadKernel /\ ~Replay!FusedHead(prog)
  <2>1. Replay!Dispatches(prog) = Dispatches(prog) /\ \A d : Replay!Material(prog, d) = Material(prog, d)
    BY SameSemantics
  <2> QED
    BY <2>1 DEF Replay!Kernels, InputCopy, HeadKernel
<1>4. CASE k = InputCopy
  BY <1>1, <1>2, <1>4 DEF ReadsOf, WritesOf
<1>5. CASE k \in Dispatches(prog) /\ Material(prog, k) # {}
  <2>1. k \in Nat /\ k > InputCopy /\ k < HeadKernel /\ k # InputCopy /\ k # HeadKernel
    BY <1>1, <1>2, <1>5
  <2> QED
    BY <1>5, <2>1 DEF ReadsOf, WritesOf
<1>6. CASE k = HeadKernel /\ ~Replay!FusedHead(prog)
  <2>1. k \in Nat /\ k > InputCopy /\ k # InputCopy
    BY <1>1, <1>2, <1>6
  <2> QED
    BY <1>6, <2>1 DEF ReadsOf, WritesOf
<1> QED
  BY <1>3, <1>4, <1>5, <1>6

LEMMA KernelSet ==
  ASSUME prog \in Programs
  PROVE  /\ InputCopy \in Replay!Kernels(prog)
         /\ \A d \in Dispatches(prog) : Material(prog, d) # {} => d \in Replay!Kernels(prog)
         /\ ~Replay!FusedHead(prog) => HeadKernel \in Replay!Kernels(prog)
<1>1. Replay!Dispatches(prog) = Dispatches(prog) /\ \A d : Replay!Material(prog, d) = Material(prog, d)
  BY SameSemantics
<1> QED
  BY <1>1 DEF Replay!Kernels, InputCopy, HeadKernel

\* The stage of a kernel: the copy before all, the head after all.
Rank(k) ==
  IF k = InputCopy THEN -1
  ELSE IF k = HeadKernel THEN StageCount(prog) + 1 ELSE Stage(prog, k)

\* Later kernels have later stages.
LEMMA RankRises ==
  ASSUME prog \in Programs, NEW k \in Replay!Kernels(prog), NEW l \in Replay!Kernels(prog)
  PROVE  /\ Rank(k) \in Int
         /\ k < l => Rank(k) < Rank(l)
<1>1. StageCount(prog) \in Nat
  BY StageFacts
<1>2. HeadKernel \in Nat /\ InputCopy = 0
  BY ProgramFacts DEF InputCopy, HeadKernel, Replay!InputCopy, Replay!HeadOf
<1>3. ASSUME NEW x \in Replay!Kernels(prog)
      PROVE  /\ x \in Nat
             /\ \/ x = InputCopy /\ Rank(x) = -1
                \/ /\ x \in Dispatches(prog) /\ x > InputCopy /\ x < HeadKernel
                   /\ Material(prog, x) # {} /\ Rank(x) = Stage(prog, x)
                   /\ Rank(x) \in Nat /\ Rank(x) <= StageCount(prog)
                \/ x = HeadKernel /\ x > InputCopy /\ Rank(x) = StageCount(prog) + 1
  <2>1. CASE x = InputCopy
    BY <1>2, <2>1 DEF Rank
  <2>2. CASE x \in Dispatches(prog) /\ x > InputCopy /\ x < HeadKernel /\ Material(prog, x) # {}
    <3>1. x \in Nat /\ x # InputCopy /\ x # HeadKernel
      BY <1>2, <2>2, KernelKinds
    <3> QED
      BY <2>2, <3>1, StageFacts DEF Rank
  <2>3. CASE x = HeadKernel /\ x > InputCopy
    BY <1>2, <2>3 DEF Rank
  <2> QED
    BY <2>1, <2>2, <2>3, KernelKinds
<1>4. Rank(k) \in Int /\ Rank(l) \in Int
  BY <1>1, <1>3
<1>5. ASSUME k < l PROVE Rank(k) < Rank(l)
  <2>1. CASE k \in Dispatches(prog) /\ l \in Dispatches(prog) /\ Material(prog, k) # {}
             /\ Rank(k) = Stage(prog, k) /\ Rank(l) = Stage(prog, l)
    BY <1>5, <2>1, StageFacts
  <2> QED
    BY <1>1, <1>2, <1>3, <1>5, <2>1
<1> QED
  BY <1>4, <1>5

\* Kernels read and write values of the arena; what one writes starts after its
\* stage, and what one reads ends after it.
LEMMA KernelLives ==
  ASSUME prog \in Programs, NEW k \in Replay!Kernels(prog)
  PROVE  /\ ReadsOf(k) \subseteq ArenaValues(prog) /\ WritesOf(k) \subseteq ArenaValues(prog)
         /\ \A v \in WritesOf(k) : StartOf(prog, v) = Rank(k) + 1
         /\ \A v \in ReadsOf(k) : Rank(k) + 1 <= EndOf(prog, v)
<1>1. prog.input \in ArenaValues(prog) /\ Canonical(prog)[prog.output] \in ArenaValues(prog)
  BY ProgramFacts
<1>2. StageCount(prog) \in Nat
  BY StageFacts
<1>3. CASE k = InputCopy /\ ReadsOf(k) = {} /\ WritesOf(k) = {prog.input}
  BY <1>1, <1>3, StartFacts DEF Rank
<1>4. CASE /\ k \in Dispatches(prog) /\ k > InputCopy /\ k < HeadKernel
           /\ ReadsOf(k) = KernelReads(prog, k) /\ WritesOf(k) = KernelWrites(prog, k)
  <2>1. Rank(k) = Stage(prog, k)
    <3>1. k # InputCopy /\ k # HeadKernel
      <4>1. k \in Nat /\ HeadKernel \in Nat /\ InputCopy \in Nat
        BY ProgramFacts, KernelKinds DEF InputCopy, HeadKernel, Replay!InputCopy, Replay!HeadOf
      <4> QED
        BY <1>4, <4>1
    <3> QED
      BY <3>1 DEF Rank
  <2>2. ReadsOf(k) \subseteq ArenaValues(prog) /\ WritesOf(k) \subseteq ArenaValues(prog)
    BY <1>4 DEF KernelReads, KernelWrites
  <2>3. \A v \in WritesOf(k) : StartOf(prog, v) = Rank(k) + 1
    BY <1>4, <2>1, StartFacts DEF KernelWrites
  <2>4. \A v \in ReadsOf(k) : Rank(k) + 1 <= EndOf(prog, v)
    BY <1>4, <2>1, EndFacts DEF KernelReads
  <2> QED
    BY <2>2, <2>3, <2>4
<1>5. CASE /\ k = HeadKernel /\ k > InputCopy
           /\ ReadsOf(k) = {Canonical(prog)[prog.output]} /\ WritesOf(k) = {}
  <2>1. Rank(k) = StageCount(prog) + 1
    <3>1. k # InputCopy
      BY <1>5, KernelKinds DEF InputCopy, Replay!InputCopy
    <3> QED
      BY <1>5, <3>1 DEF Rank
  <2>2. StageCount(prog) + 2 <= EndOf(prog, Canonical(prog)[prog.output])
    BY <1>1, EndFacts
  <2>3. Rank(k) + 1 = StageCount(prog) + 2
    BY <1>2, <2>1
  <2> QED
    BY <1>1, <1>5, <2>2, <2>3
<1> QED
  BY <1>3, <1>4, <1>5, KernelKinds

LEMMA ProgramTypes ==
  ASSUME NEW p \in Programs
  PROVE  /\ \A d \in Dispatches(p) : p.plan[d].logical \in Seq(DOMAIN p.cmds)
         /\ \A c \in DOMAIN p.cmds : p.cmds[c].out \in Values(p)
<1> DEFINE R == [fusion : Nat, logical : Seq(DOMAIN p.cmds), exec : DOMAIN p.cmds]
           C == [kind : {"CONV", "VIEW", "OTHER"}, ins : Seq(Values(p)), out : Values(p)]
<1>1. p.plan \in Seq(R) /\ p.cmds \in Seq(C)
  BY ReplayAssumption DEF WellFormed, IsProgram
<1>2. (\A x \in R : x.logical \in Seq(DOMAIN p.cmds)) /\ (\A x \in C : x.out \in Values(p))
  OBVIOUS
<1> HIDE DEF R, C
<1>3. (\A d \in DOMAIN p.plan : p.plan[d] \in R) /\ (\A c \in DOMAIN p.cmds : p.cmds[c] \in C)
  BY <1>1
<1> QED
  BY <1>2, <1>3 DEF Dispatches

\* What a dispatch reads of another reaches the arena, from an earlier one.
LEMMA ExternalMade ==
  ASSUME NEW p \in Programs, NEW d \in Dispatches(p), NEW v \in External(p, d),
         v \notin p.consts, v # p.input
  PROVE  /\ v \in ArenaValues(p)
         /\ \E e \in Dispatches(p) : /\ e < d /\ Material(p, e) # {}
                                     /\ v \in Materialized(p, e) /\ Producers(p, v) = {e}
<1>1. WellFormed(p) /\ IsProgram(p)
  BY ReplayAssumption DEF WellFormed
<1>2. PICK e \in Producers(p, v) : e < d /\ v \in Materialized(p, e)
  BY <1>1 DEF WellFormed
<1>3. e \in Dispatches(p) /\ v \in Produced(p, e) /\ Material(p, e) # {}
  BY <1>2 DEF Producers, Produced
<1>4. PICK c \in Material(p, e) : v = WrittenBy(p, c)
  BY <1>3 DEF Produced
<1>5. v \in Values(p) /\ v \notin DOMAIN AliasSource(p)
  <2>1. p.plan[e].logical \in Seq(DOMAIN p.cmds)
    BY <1>3, ProgramTypes
  <2>2. c \in DOMAIN p.cmds
    BY <1>4, <2>1 DEF Material, Owned, Range
  <2>3. p.cmds[c].out \in Values(p)
    BY <2>2, ProgramTypes
  <2> QED
    BY <1>1, <1>4, <2>3 DEF WellFormed, WrittenBy
<1>6. Producers(p, v) = {e}
  BY <1>2, <1>5, OneProducer
<1>7. v \notin Suppressed(p)
  <2> SUFFICES ASSUME NEW x \in Dispatches(p), v \in Produced(p, x), v \notin Materialized(p, x)
               PROVE  FALSE
    BY DEF Suppressed
  <2>1. x \in Producers(p, v)
    BY DEF Producers
  <2> QED
    BY <1>2, <1>6, <2>1
<1>8. v \in ArenaValues(p)
  BY <1>5, <1>6, <1>7 DEF ArenaValues
<1> QED
  BY <1>2, <1>3, <1>6, <1>8

\* The one producer of the output, when the head is a kernel of its own.
LEMMA OutputMade ==
  ASSUME NEW p \in Programs, ~Replay!FusedHead(p)
  PROVE  LET v == Canonical(p)[p.output]
         IN  /\ v # p.input
             /\ \E e \in Dispatches(p) : /\ Material(p, e) # {} /\ v \in Materialized(p, e)
                                         /\ Producers(p, v) = {e}
<1> DEFINE v == Canonical(p)[p.output]
<1>1. WellFormed(p) /\ IsProgram(p)
  BY ReplayAssumption DEF WellFormed
<1>2. PICK e \in Producers(p, v) : v \in Materialized(p, e) \/ p.plan[e].fusion = 4
  BY <1>1 DEF WellFormed
<1>3. e \in Dispatches(p) /\ v \in Produced(p, e) /\ Material(p, e) # {}
  BY <1>2 DEF Producers, Produced
<1>4. v \in Materialized(p, e)
  <2>1. Replay!Dispatches(p) = Dispatches(p)
    BY SameSemantics
  <2> QED
    BY <1>2, <1>3, <2>1 DEF Replay!FusedHead
<1>5. v \in Values(p)
  <2>1. p.output \in Values(p)
    BY <1>1 DEF IsProgram
  <2> QED
    BY <1>1, <2>1 DEF WellFormed
<1>6. Producers(p, v) = {e}
  BY <1>2, <1>5, OneProducer
<1>7. v # p.input
  BY <1>1, <1>6 DEF WellFormed
<1> QED
  BY <1>3, <1>4, <1>6, <1>7

\* Every value a kernel reads is written by an earlier kernel.
LEMMA ReadsMade ==
  ASSUME prog \in Programs, NEW k \in Replay!Kernels(prog), NEW v \in ReadsOf(k)
  PROVE  \E m \in Replay!Kernels(prog) : m < k /\ v \in WritesOf(m)
<1>1. /\ InputCopy \in Replay!Kernels(prog)
      /\ \A d \in Dispatches(prog) : Material(prog, d) # {} => d \in Replay!Kernels(prog)
  BY KernelSet
<1>2. WritesOf(InputCopy) = {prog.input}
  BY <1>1, KernelKinds
<1>3. ASSUME NEW e \in Dispatches(prog), Material(prog, e) # {}
      PROVE  e < HeadKernel /\ WritesOf(e) = KernelWrites(prog, e)
  <2>1. e # InputCopy /\ e # HeadKernel /\ e < HeadKernel
    BY ProgramFacts DEF InputCopy, HeadKernel, Replay!InputCopy, Replay!HeadOf
  <2> QED
    BY <2>1 DEF WritesOf
<1>4. CASE k \in Dispatches(prog) /\ k > InputCopy /\ ReadsOf(k) = KernelReads(prog, k)
  <2>1. v \in External(prog, k) /\ v \in ArenaValues(prog)
    BY <1>4 DEF KernelReads
  <2>2. CASE v = prog.input
    <3>1. InputCopy < k
      BY <1>4, KernelKinds DEF InputCopy, Replay!InputCopy
    <3> QED
      BY <1>1, <1>2, <2>2, <3>1
  <2>3. CASE v # prog.input
    <3>1. v \notin prog.consts
      BY <2>1 DEF ArenaValues
    <3>2. PICK e \in Dispatches(prog) : e < k /\ Material(prog, e) # {} /\ v \in Materialized(prog, e)
      BY <1>4, <2>1, <2>3, <3>1, ExternalMade
    <3>3. v \in WritesOf(e)
      BY <1>3, <2>1, <3>2 DEF KernelWrites
    <3> QED
      BY <1>1, <3>2, <3>3
  <2> QED
    BY <2>2, <2>3
<1>5. CASE k = HeadKernel /\ ~Replay!FusedHead(prog) /\ ReadsOf(k) = {Canonical(prog)[prog.output]}
  <2>1. v = Canonical(prog)[prog.output] /\ v \in ArenaValues(prog)
    BY <1>5, ProgramFacts
  <2>2. PICK e \in Dispatches(prog) : Material(prog, e) # {} /\ v \in Materialized(prog, e)
    BY <1>5, <2>1, OutputMade
  <2>3. v \in WritesOf(e) /\ e < k
    BY <1>3, <1>5, <2>1, <2>2 DEF KernelWrites
  <2> QED
    BY <1>1, <2>2, <2>3
<1> QED
  BY <1>4, <1>5, KernelKinds

\* The kernels a kernel needs are those that write what it reads.
LEMMA NeedsRead ==
  ASSUME prog \in Programs, NEW k \in Replay!Kernels(prog), NEW m \in Replay!Needs(prog, k)
  PROVE  /\ m \in Replay!Kernels(prog) /\ m < k
         /\ \E v \in ReadsOf(k) : v \in WritesOf(m)
<1>1. /\ InputCopy \in Replay!Kernels(prog)
      /\ \A d \in Dispatches(prog) : Material(prog, d) # {} => d \in Replay!Kernels(prog)
  BY KernelSet
<1>2. WritesOf(InputCopy) = {prog.input}
  BY <1>1, KernelKinds
<1>3. ASSUME NEW e \in Dispatches(prog), Material(prog, e) # {}
      PROVE  e < HeadKernel /\ WritesOf(e) = KernelWrites(prog, e)
  <2>1. e # InputCopy /\ e # HeadKernel /\ e < HeadKernel
    BY ProgramFacts DEF InputCopy, HeadKernel, Replay!InputCopy, Replay!HeadOf
  <2> QED
    BY <2>1 DEF WritesOf
<1>4. /\ \A d : Replay!External(prog, d) = External(prog, d)
      /\ \A v : Replay!Producers(prog, v) = Producers(prog, v)
      /\ Replay!Canonical(prog) = Canonical(prog)
  BY SameSemantics
<1>5. CASE k = InputCopy
  <2>1. InputCopy # HeadKernel
    BY ProgramFacts DEF InputCopy, HeadKernel, Replay!InputCopy, Replay!HeadOf
  <2> QED
    BY <1>5, <2>1 DEF Replay!Needs, InputCopy, HeadKernel
<1>6. CASE /\ k \in Dispatches(prog) /\ k > InputCopy /\ k < HeadKernel
           /\ ReadsOf(k) = KernelReads(prog, k)
  <2>1. k # InputCopy /\ k # HeadKernel
    <3>1. k \in Nat /\ HeadKernel \in Nat /\ InputCopy \in Nat
      BY ProgramFacts, KernelKinds DEF InputCopy, HeadKernel, Replay!InputCopy, Replay!HeadOf
    <3> QED
      BY <1>6, <3>1
  <2>2. PICK v \in External(prog, k) : m \in Replay!MakerOf(prog, v)
    BY <1>4, <2>1 DEF Replay!Needs, InputCopy, HeadKernel
  <2>3. CASE v = prog.input
    <3>1. m = InputCopy
      BY <2>2, <2>3 DEF Replay!MakerOf, InputCopy
    <3>2. v \in ReadsOf(k)
      BY <1>6, <2>3, ProgramFacts DEF KernelReads
    <3>3. m < k
      BY <1>6, <3>1, KernelKinds DEF InputCopy, Replay!InputCopy
    <3> QED
      BY <1>1, <1>2, <2>3, <3>1, <3>2, <3>3
  <2>4. CASE v # prog.input
    <3>1. m \in Producers(prog, v)
      BY <1>4, <2>2, <2>4 DEF Replay!MakerOf
    <3>2. v \notin prog.consts
      BY <3>1, ReplayAssumption DEF WellFormed
    <3>3. /\ v \in ArenaValues(prog)
          /\ \E e \in Dispatches(prog) : /\ e < k /\ Material(prog, e) # {}
                                         /\ v \in Materialized(prog, e) /\ Producers(prog, v) = {e}
      BY <1>6, <2>4, <3>2, ExternalMade
    <3>4. m \in Dispatches(prog) /\ m < k /\ Material(prog, m) # {} /\ v \in Materialized(prog, m)
      BY <3>1, <3>3
    <3>5. v \in WritesOf(m) /\ v \in ReadsOf(k)
      BY <1>3, <1>6, <3>3, <3>4 DEF KernelWrites, KernelReads
    <3> QED
      BY <1>1, <3>4, <3>5
  <2> QED
    BY <2>3, <2>4
<1>7. CASE /\ k = HeadKernel /\ k > InputCopy /\ ~Replay!FusedHead(prog)
           /\ ReadsOf(k) = {Canonical(prog)[prog.output]}
  <2> DEFINE v == Canonical(prog)[prog.output]
  <2>1. v # prog.input /\ v \in ArenaValues(prog)
    BY <1>7, OutputMade, ProgramFacts
  <2>2. PICK e \in Dispatches(prog) : /\ Material(prog, e) # {} /\ v \in Materialized(prog, e)
                                      /\ Producers(prog, v) = {e}
    BY <1>7, OutputMade
  <2>3. k # InputCopy
    BY <1>7, KernelKinds DEF InputCopy, Replay!InputCopy
  <2>4. Replay!Needs(prog, k) = Replay!MakerOf(prog, v)
    BY <1>4, <1>7, <2>3 DEF Replay!Needs, InputCopy, HeadKernel
  <2>5. m = e
    BY <1>4, <2>1, <2>2, <2>4 DEF Replay!MakerOf
  <2>6. v \in WritesOf(e) /\ e < k
    BY <1>3, <1>7, <2>1, <2>2 DEF KernelWrites
  <2> QED
    BY <1>1, <1>7, <2>2, <2>5, <2>6
<1> QED
  BY <1>5, <1>6, <1>7, KernelKinds

------------------------------------------------------------------------------
(* The arena of the engine                                                   *)

\* The arena planner's lemmas, for the arena of the engine.
ArenaFacts == INSTANCE PageArenaProofs WITH Tasks <- {}

\* The arena is the planner's, for the values of this program.
ArenaSound ==
  /\ task = ArenaTask(prog, Hub(prog, window))
  /\ ArenaFacts!IInv

\* What the compiler derives from a program is a task of the arena planner.
LEMMA TaskFits ==
  ASSUME NEW p \in Programs, NEW hub
  PROVE  ArenaFacts!IsTask(ArenaTask(p, hub))
<1> DEFINE t == ArenaTask(p, hub)
           V == ArenaValues(p)
           edge(v, w) == Conflicting(p, hub, v, w) \/ Conflicting(p, hub, w, v)
<1>1. /\ V \subseteq Nat /\ IsFiniteSet(V)
      /\ \A v \in V : v \in Values(p) /\ StartOf(p, v) \in Nat /\ EndOf(p, v) \in Nat
                      /\ StartOf(p, v) <= EndOf(p, v)
  BY ProgramFacts, StartFacts, EndFacts
<1>2. \A v \in Values(p) : p.size[v] \in Nat \ {0}
  <2>1. p.size \in Seq(Nat \ {0})
    BY ReplayAssumption DEF WellFormed, IsProgram
  <2> QED
    BY <2>1 DEF Values
<1>3. /\ t.values = V /\ t.input = {p.input} \cap V
      /\ t.adj = [v \in V |-> {w \in V : edge(v, w)}]
      /\ t.start = [v \in V |-> StartOf(p, v)] /\ t.end = [v \in V |-> EndOf(p, v)]
      /\ t.nbytes = [v \in V |-> p.size[v]]
      /\ t.store = [v \in V |-> IF v \in p.half THEN "fp16" ELSE "fp32"]
  BY DEF ArenaTask
<1> HIDE DEF t, V
<1>4. \A v, w : edge(v, w) <=> edge(w, v)
  OBVIOUS
<1> HIDE DEF edge
<1>5. t.adj \in [V -> SUBSET V] /\ \A v \in V, w \in V : w \in t.adj[v] => v \in t.adj[w]
  BY <1>3, <1>4
<1>6. /\ t.start \in [V -> Nat] /\ t.end \in [V -> Nat] /\ t.nbytes \in [V -> Nat \ {0}]
      /\ \A v \in V : t.start[v] <= t.end[v]
      /\ DOMAIN t.store = V
  BY <1>1, <1>2, <1>3
<1>7. ArenaFacts!IsFiniteSet(V)
  BY <1>1 DEF IsFiniteSet, ArenaFacts!IsFiniteSet
<1>8. t.input \subseteq V
  BY <1>3
<1>9. ArenaFacts!IsTask(t)
  BY <1>1, <1>3, <1>5, <1>6, <1>7, <1>8 DEF ArenaFacts!IsTask
<1> QED
  BY <1>9 DEF t

LEMMA ArenaSoundInit == Init => ArenaSound
<1> SUFFICES ASSUME Init PROVE ArenaSound
  OBVIOUS
<1>1. prog \in Programs /\ task = ArenaTask(prog, Hub(prog, window)) /\ Arena!Start(task)
  BY DEF Init
<1>2. ArenaFacts!IsTask(task)
  BY <1>1, TaskFits
<1>3. ArenaFacts!Start(task)
  BY <1>1 DEF Arena!Start, ArenaFacts!Start
<1>4. ArenaFacts!IInv
  BY <1>2, <1>3, ArenaFacts!StartInv, ReplayAssumption
<1> QED
  BY <1>1, <1>4 DEF ArenaSound

LEMMA SameArena ==
  /\ Arena!Next = ArenaFacts!Next
  /\ \A v, w : Arena!Overlap(v, w) = ArenaFacts!Overlap(v, w)
<1>1. \A v, w : Arena!Overlap(v, w) = ArenaFacts!Overlap(v, w)
  BY DEF Arena!Overlap, ArenaFacts!Overlap
<1>2. Arena!Color = ArenaFacts!Color
  BY DEF Arena!Color, ArenaFacts!Color, Arena!Uncolored, ArenaFacts!Uncolored,
     Arena!ColoredBefore, ArenaFacts!ColoredBefore, Arena!NeighbourColors, ArenaFacts!NeighbourColors,
     Arena!LeastUnused, ArenaFacts!LeastUnused, Arena!Cardinality, ArenaFacts!Cardinality,
     Arena!IsFiniteSet, ArenaFacts!IsFiniteSet
<1>3. Arena!ColoringDone = ArenaFacts!ColoringDone
  BY DEF Arena!ColoringDone, ArenaFacts!ColoringDone, Arena!Uncolored, ArenaFacts!Uncolored
<1>4. Arena!RemapValue = ArenaFacts!RemapValue
  BY DEF Arena!RemapValue, ArenaFacts!RemapValue, Arena!Key, ArenaFacts!Key,
     Arena!LeastUnused, ArenaFacts!LeastUnused, Arena!Cardinality, ArenaFacts!Cardinality,
     Arena!IsFiniteSet, ArenaFacts!IsFiniteSet
<1>5. Arena!RemapDone = ArenaFacts!RemapDone
  BY DEF Arena!RemapDone, ArenaFacts!RemapDone
<1>6. Arena!PlaceValue = ArenaFacts!PlaceValue
  <2>1. \A v : /\ Arena!SlotsFor(v) = ArenaFacts!SlotsFor(v)
               /\ Arena!CursorFor(v) = ArenaFacts!CursorFor(v)
               /\ Arena!Reusable(v) = ArenaFacts!Reusable(v)
    BY DEF Arena!SlotsFor, ArenaFacts!SlotsFor, Arena!CursorFor, ArenaFacts!CursorFor,
       Arena!Reusable, ArenaFacts!Reusable
  <2>2. \A v, w : Arena!PlacedBefore(v, w) = ArenaFacts!PlacedBefore(v, w)
    BY DEF Arena!PlacedBefore, ArenaFacts!PlacedBefore
  <2>3. \A v, o : Arena!PlaceAt(v, o) = ArenaFacts!PlaceAt(v, o)
    BY DEF Arena!PlaceAt, ArenaFacts!PlaceAt
  <2>4. \A n : Arena!AlignUp(n) = ArenaFacts!AlignUp(n)
    BY DEF Arena!AlignUp, ArenaFacts!AlignUp
  <2>5. \A v, s : Arena!ReuseSlot(v, s) = ArenaFacts!ReuseSlot(v, s)
    BY <2>1, <2>3 DEF Arena!ReuseSlot, ArenaFacts!ReuseSlot
  <2>6. \A v : Arena!NewSlot(v) = ArenaFacts!NewSlot(v)
    BY <2>1, <2>3, <2>4 DEF Arena!NewSlot, ArenaFacts!NewSlot
  <2>7. Arena!Unplaced = ArenaFacts!Unplaced
    BY DEF Arena!Unplaced, ArenaFacts!Unplaced
  <2> QED
    BY <2>1, <2>2, <2>5, <2>6, <2>7 DEF Arena!PlaceValue, ArenaFacts!PlaceValue
<1>7. Arena!PlacingDone = ArenaFacts!PlacingDone
  BY DEF Arena!PlacingDone, ArenaFacts!PlacingDone, Arena!Unplaced, ArenaFacts!Unplaced
<1> QED
  BY <1>1, <1>2, <1>3, <1>4, <1>5, <1>6, <1>7 DEF Arena!Next, ArenaFacts!Next

LEMMA ArenaSoundStep ==
  ASSUME ArenaSound, UNCHANGED <<prog, window>>, PlaceValues \/ UNCHANGED arenaVars
  PROVE  ArenaSound'
<1>1. [ArenaFacts!Next]_(ArenaFacts!arenaVars)
  BY SameArena DEF PlaceValues, arenaVars, ArenaFacts!arenaVars
<1>2. ArenaFacts!IInv'
  BY <1>1, ArenaFacts!ArenaNext, ReplayAssumption DEF ArenaSound
<1>3. task' = task
  BY DEF PlaceValues, arenaVars, Arena!Next, Arena!Color, Arena!ColoringDone, Arena!RemapValue,
     Arena!RemapDone, Arena!PlaceValue, Arena!PlacingDone
<1> QED
  BY <1>2, <1>3 DEF ArenaSound


------------------------------------------------------------------------------
(* Values that share bytes                                                   *)

\* v and w share bytes of a page.
Touch(v, w) == page[v] = page[w] /\ Arena!Overlap(v, w)

\* Values that share bytes are not alive together.
LEMMA TouchFacts ==
  ASSUME ArenaBuilt, ArenaSound, stage # "arena"
  PROVE  /\ \A v \in ArenaValues(prog) : Touch(v, v) /\ prog.size[v] \in Nat \ {0} /\ offset[v] \in Nat
         /\ \A v, w \in ArenaValues(prog) :
              /\ Touch(v, w) => Touch(w, v)
              /\ Touch(v, w) => /\ page[v] = page[w]
                                /\ offset[v] < offset[w] + prog.size[w]
                                /\ offset[w] < offset[v] + prog.size[v]
              /\ v # w /\ Touch(v, w) => \/ EndOf(prog, v) <= StartOf(prog, w)
                                         \/ EndOf(prog, w) <= StartOf(prog, v)
<1> DEFINE V == ArenaValues(prog)
<1>1. /\ task = ArenaTask(prog, Hub(prog, window)) /\ ArenaFacts!IInv /\ prog \in Programs
      /\ phase = "done"
  BY DEF ArenaSound, ArenaBuilt
<1>2. /\ task.values = V /\ task.start = [v \in V |-> StartOf(prog, v)]
      /\ task.end = [v \in V |-> EndOf(prog, v)] /\ task.nbytes = [v \in V |-> prog.size[v]]
  BY <1>1 DEF ArenaTask
<1>3. DOMAIN offset = V /\ \A v \in V : offset[v] \in Nat
  BY <1>1, <1>2 DEF ArenaFacts!IInv, ArenaFacts!TypeOK, ArenaFacts!PhaseInv
<1>4. \A v \in V : prog.size[v] \in Nat \ {0} /\ StartOf(prog, v) \in Nat /\ EndOf(prog, v) \in Nat
  <2>1. \A v \in V : v \in Values(prog) /\ StartOf(prog, v) \in Nat /\ EndOf(prog, v) \in Nat
    BY <1>1, StartFacts, EndFacts
  <2>2. prog.size \in Seq(Nat \ {0})
    BY <1>1, ReplayAssumption DEF WellFormed, IsProgram
  <2> QED
    BY <2>1, <2>2 DEF Values
<1>5. \A v, w \in V : Touch(v, w) <=> /\ page[v] = page[w]
                                       /\ offset[v] < offset[w] + prog.size[w]
                                       /\ offset[w] < offset[v] + prog.size[v]
  BY <1>2 DEF Touch, Arena!Overlap
<1>6. ASSUME NEW v \in V, NEW w \in V, v # w, Touch(v, w)
      PROVE  EndOf(prog, v) <= StartOf(prog, w) \/ EndOf(prog, w) <= StartOf(prog, v)
  <2>1. \/ task.end[v] + ReuseGap <= task.start[w]
        \/ task.end[w] + ReuseGap <= task.start[v]
    BY <1>1, <1>3, <1>6, SameArena DEF Touch, ArenaFacts!IInv, ArenaFacts!SlotInv, ArenaFacts!LivesApart
  <2>2. ReuseGap \in Nat
    BY ReplayAssumption
  <2> QED
    BY <1>2, <1>4, <2>1, <2>2
<1>7. \A v \in V : Touch(v, v)
  BY <1>3, <1>4, <1>5
<1> HIDE DEF V
<1>8. \A v, w \in V : Touch(v, w) => Touch(w, v)
  BY <1>5
<1> USE DEF V
<1> QED
  BY <1>3, <1>4, <1>5, <1>6, <1>7, <1>8

\* Kernels k and l share bytes that one of them writes.
Clash(k, l) ==
  \/ \E v \in WritesOf(k), w \in WritesOf(l) \cup ReadsOf(l) : Touch(v, w)
  \/ \E v \in ReadsOf(k), w \in WritesOf(l) : Touch(v, w)

LEMMA ClashTurns ==
  ASSUME ArenaBuilt, ArenaSound, stage # "arena",
         NEW k \in Replay!Kernels(prog), NEW l \in Replay!Kernels(prog), Clash(k, l)
  PROVE  Clash(l, k)
<1>1. /\ ReadsOf(k) \subseteq ArenaValues(prog) /\ WritesOf(k) \subseteq ArenaValues(prog)
      /\ ReadsOf(l) \subseteq ArenaValues(prog) /\ WritesOf(l) \subseteq ArenaValues(prog)
  BY KernelLives DEF ArenaBuilt
<1>2. \A v, w \in ArenaValues(prog) : Touch(v, w) => Touch(w, v)
  BY TouchFacts
<1> QED
  BY <1>1, <1>2 DEF Clash

------------------------------------------------------------------------------
(* The barrier plan of the engine                                            *)

\* The plan is the planner's, for the stream of this program, and covers all of
\* it once it is accepted; a hoist is to SRV, on a page the fork does not read.
PlanSound ==
  /\ stage = "arena" => next = 1 /\ records = {} /\ verdict = "planning"
  /\ stage # "arena" => PlanFacts!IInv
  /\ stage \in {"load"} \cup Live => verdict = "planned"
  /\ verdict = "planned" => next = Len(prog.plan) + 1
  /\ \A r \in records : r.step = "fork" => r.kind = "SRV" /\ Plan!Reads(r.dispatch, r.page) = {}

LEMMA PlanSoundInit == Init => PlanSound
BY DEF Init, PlanSound, Live

\* The stream of a program is a job of the planner.
LEMMA JobFits ==
  ASSUME ArenaBuilt, ArenaSound, phase = "done"
  PROVE  PlanFacts!IsJob(BarrierJob(prog, window, page, offset))
<1> DEFINE j == BarrierJob(prog, window, page, offset)
           V == ArenaValues(prog)
           n == Len(prog.plan)
<1>1. /\ prog \in Programs /\ V \subseteq Nat /\ n \in Nat /\ Dispatches(prog) = 1 .. n
  BY ProgramFacts DEF ArenaBuilt
<1>2. /\ j.reads = [d \in Dispatches(prog) |-> KernelReads(prog, d)]
      /\ j.writes = [d \in Dispatches(prog) |-> KernelWrites(prog, d)]
      /\ j.where = [v \in V |-> [page |-> page[v], lo |-> offset[v], hi |-> offset[v] + prog.size[v]]]
  BY DEF BarrierJob
<1>3. \A v \in V : offset[v] \in Nat /\ prog.size[v] \in Nat \ {0} /\ page[v] \in Nat
  <2>1. /\ task = ArenaTask(prog, Hub(prog, window)) /\ ArenaFacts!IInv
    BY DEF ArenaSound
  <2>2. task.values = V
    BY <2>1 DEF ArenaTask
  <2>3. \A v \in V : offset[v] \in Nat
    BY <2>1, <2>2 DEF ArenaFacts!IInv, ArenaFacts!TypeOK, ArenaFacts!PhaseInv
  <2>4. \A v \in V : prog.size[v] \in Nat \ {0}
    <3>1. prog.size \in Seq(Nat \ {0}) /\ \A v \in V : v \in Values(prog)
      BY <1>1, StartFacts, ReplayAssumption DEF WellFormed, IsProgram
    <3> QED
      BY <3>1 DEF Values
  <2>5. \A v \in V : page[v] \in Nat
    BY DEF ArenaBuilt
  <2> QED
    BY <2>3, <2>4, <2>5
<1>4. \A d \in 1 .. n : KernelReads(prog, d) \in SUBSET V /\ KernelWrites(prog, d) \in SUBSET V
  BY DEF KernelReads, KernelWrites
<1> HIDE DEF j, V, n
<1>5. DOMAIN j.where = V
  BY <1>2
<1>6. j.reads \in Seq(SUBSET V) /\ j.writes \in Seq(SUBSET V)
  <2> DEFINE D == SUBSET V
  <2>1. j.reads \in [1 .. n -> D] /\ j.writes \in [1 .. n -> D]
    BY <1>1, <1>2, <1>4
  <2> HIDE DEF D
  <2>2. j.reads \in Seq(D) /\ j.writes \in Seq(D)
    BY <1>1, <2>1
  <2> QED
    BY <2>2 DEF D
<1>7. Len(j.reads) = n /\ Len(j.writes) = n
  BY <1>1, <1>2
<1>8. \A v \in V : /\ v \in Nat /\ j.where[v].page \in Nat
                   /\ j.where[v].lo \in Nat /\ j.where[v].hi \in Nat
                   /\ j.where[v].lo < j.where[v].hi
  <2> SUFFICES ASSUME NEW v \in V
               PROVE  /\ v \in Nat /\ j.where[v].page \in Nat
                      /\ j.where[v].lo \in Nat /\ j.where[v].hi \in Nat
                      /\ j.where[v].lo < j.where[v].hi
    OBVIOUS
  <2>1. j.where[v].page = page[v] /\ j.where[v].lo = offset[v] /\ j.where[v].hi = offset[v] + prog.size[v]
    BY <1>2
  <2> QED
    BY <1>1, <1>3, <2>1
<1>9. PlanFacts!IsJob(j)
  BY <1>5, <1>6, <1>7, <1>8 DEF PlanFacts!IsJob
<1> QED
  BY <1>9 DEF j

LEMMA SameAccess ==
  ASSUME NEW d, NEW p
  PROVE  Plan!AccessRecords(d, p) = PlanFacts!AccessRecords(d, p)
BY DEF PlanFacts!AccessRecords, Plan!AccessRecords, PlanFacts!Reads, Plan!Reads,
   PlanFacts!Writes, Plan!Writes, PlanFacts!Record, Plan!Record, PlanFacts!NoValue,
   Plan!NoValue, PlanFacts!LeastId, Plan!LeastId, PlanFacts!Lowest, Plan!Lowest,
   PlanFacts!Hazards, Plan!Hazards, PlanFacts!NamedHazard, Plan!NamedHazard,
   PlanFacts!NamedBefore, Plan!NamedBefore, PlanFacts!ValuesOn, Plan!ValuesOn,
   PlanFacts!Overlap, Plan!Overlap

LEMMA SamePlan ==
  /\ Plan!Next = PlanFacts!Next
  /\ \A d, p : Plan!Reads(d, p) = PlanFacts!Reads(d, p) /\ Plan!Writes(d, p) = PlanFacts!Writes(d, p)
<1>1. /\ Plan!Pages = PlanFacts!Pages /\ Plan!Count = PlanFacts!Count
      /\ \A v, w : Plan!Overlap(v, w) = PlanFacts!Overlap(v, w)
      /\ \A p : Plan!ValuesOn(p) = PlanFacts!ValuesOn(p)
  BY DEF Plan!Pages, PlanFacts!Pages, Plan!Count, PlanFacts!Count, Plan!Overlap, PlanFacts!Overlap,
     Plan!ValuesOn, PlanFacts!ValuesOn
<1>2. \A d, p : Plan!Reads(d, p) = PlanFacts!Reads(d, p) /\ Plan!Writes(d, p) = PlanFacts!Writes(d, p)
  BY <1>1 DEF Plan!Reads, PlanFacts!Reads, Plan!Writes, PlanFacts!Writes
<1>3. \A d, p : Plan!AccessRecords(d, p) = PlanFacts!AccessRecords(d, p)
  BY SameAccess
<1>4. \A d, p : Plan!StateFor(d, p) = PlanFacts!StateFor(d, p)
  BY <1>2 DEF Plan!StateFor, PlanFacts!StateFor
<1>5. \A d, p : Plan!Hoisted(d, p) = PlanFacts!Hoisted(d, p)
  BY <1>4 DEF Plan!Hoisted, PlanFacts!Hoisted
<1>6. \A d, p : Plan!ForkRecords(d, p) = PlanFacts!ForkRecords(d, p)
  BY <1>5 DEF Plan!ForkRecords, PlanFacts!ForkRecords, PlanFacts!Record, Plan!Record,
     PlanFacts!NoValue, Plan!NoValue
<1>7. \A d, p : Plan!PendingFor(d, p) = PlanFacts!PendingFor(d, p)
  BY <1>2, <1>3, <1>5 DEF Plan!PendingFor, PlanFacts!PendingFor
<1>8. \A d : Plan!Simultaneous(d) = PlanFacts!Simultaneous(d) /\ Plan!SelfOverlap(d) = PlanFacts!SelfOverlap(d)
  BY <1>1, <1>2 DEF Plan!Simultaneous, PlanFacts!Simultaneous, Plan!SelfOverlap, PlanFacts!SelfOverlap
<1>9. Plan!PlanDispatch = PlanFacts!PlanDispatch
  BY <1>1, <1>3, <1>4, <1>5, <1>6, <1>7, <1>8 DEF Plan!PlanDispatch, PlanFacts!PlanDispatch
<1>10. Plan!RejectDispatch = PlanFacts!RejectDispatch /\ Plan!PlanDone = PlanFacts!PlanDone
  BY <1>1, <1>8 DEF Plan!RejectDispatch, PlanFacts!RejectDispatch, Plan!PlanDone, PlanFacts!PlanDone
<1> QED
  BY <1>2, <1>9, <1>10 DEF Plan!Next, PlanFacts!Next

\* The planner starts on the stream of the program.
LEMMA PlanSoundStart ==
  ASSUME Inv, ArenaSound, PlanSound, StartPlan
  PROVE  PlanSound'
<1>1. /\ stage = "arena" /\ stage' = "barriers" /\ phase = "done"
      /\ job' = BarrierJob(prog, window, page, offset)
      /\ state' = [g \in Pages |-> "COMMON"] /\ pending' = [g \in Pages |-> {}]
      /\ UNCHANGED <<next, records, verdict, prog>>
  BY DEF StartPlan
<1>2. next = 1 /\ records = {} /\ verdict = "planning"
  BY <1>1 DEF PlanSound
<1>3. PlanFacts!IsJob(job')
  BY <1>1, JobFits DEF Inv
<1>4. {job'.where[v].page : v \in DOMAIN job'.where} = Pages
  <2>1. DOMAIN page = ArenaValues(prog)
    BY <1>1 DEF Inv, ArenaBuilt
  <2>2. DOMAIN job'.where = DOMAIN page /\ \A v \in DOMAIN page : job'.where[v].page = page[v]
    BY <1>1, <2>1 DEF BarrierJob
  <2> QED
    BY <2>2 DEF Pages
<1>5. /\ next' = 1 /\ records' = {} /\ verdict' = "planning"
      /\ state' = [p \in Pages |-> "COMMON"] /\ pending' = [p \in Pages |-> {}]
      /\ PlanFacts!Pages' = Pages /\ Len(job'.reads) \in Nat /\ 1 .. next' - 1 = {}
  BY <1>1, <1>2, <1>3, <1>4 DEF PlanFacts!Pages, PlanFacts!IsJob
<1>6. PlanFacts!TypeOK'
  BY <1>3, <1>5 DEF PlanFacts!TypeOK, PlanFacts!Count
<1>7. PlanFacts!StateInv' /\ PlanFacts!LatestInv'
  BY <1>5 DEF PlanFacts!StateInv, PlanFacts!LatestInv
<1>8. PlanFacts!ConflictsAreOrdered' /\ PlanFacts!KernelsFindTheirState'
  BY <1>5 DEF PlanFacts!ConflictsAreOrdered, PlanFacts!KernelsFindTheirState
<1>9. PlanFacts!IInv'
  BY <1>6, <1>7, <1>8 DEF PlanFacts!IInv
<1> QED
  BY <1>1, <1>2, <1>9 DEF PlanSound, Live

\* The planner's steps keep its invariant, and add hoists of the kind told.
LEMMA PlanSoundStep ==
  ASSUME Inv, PlanSound, PlanBarriers
  PROVE  PlanSound'
<1>1. /\ stage = "barriers" /\ stage' = stage /\ Plan!Next /\ UNCHANGED <<page, offset, prog, window>>
  BY DEF PlanBarriers, arenaVars
<1>2. PlanFacts!IInv /\ job = BarrierJob(prog, window, page, offset)
  BY <1>1 DEF PlanSound, Inv, PlanBuilt
<1>3. PlanFacts!IInv'
  <2>1. [PlanFacts!Next]_(PlanFacts!barrierVars)
    BY <1>1, SamePlan
  <2> QED
    BY <1>2, <2>1, PlanFacts!PlanNext, ReplayAssumption
<1>4. verdict' = "planned" => next' = Len(prog'.plan) + 1
  <2>1. Len(job.reads) = Len(prog.plan)
    <3>1. job.reads = [d \in Dispatches(prog) |-> KernelReads(prog, d)]
      BY <1>2 DEF BarrierJob
    <3>2. Len(prog.plan) \in Nat /\ Dispatches(prog) = 1 .. Len(prog.plan)
      BY ProgramFacts DEF Inv, ArenaBuilt
    <3> QED
      BY <3>1, <3>2
  <2>2. CASE Plan!PlanDone
    BY <1>1, <2>1, <2>2 DEF Plan!PlanDone, Plan!Count
  <2>3. CASE Plan!PlanDispatch
    BY <2>3 DEF Plan!PlanDispatch
  <2>4. CASE Plan!RejectDispatch
    BY <2>4 DEF Plan!RejectDispatch
  <2> QED
    BY <1>1, <2>2, <2>3, <2>4 DEF Plan!Next
<1>5. job' = job /\ \A d, p : Plan!Reads(d, p)' = Plan!Reads(d, p)
  <2>1. job' = job
    BY <1>1 DEF Plan!Next, Plan!PlanDispatch, Plan!RejectDispatch, Plan!PlanDone
  <2> QED
    BY <2>1 DEF Plan!Reads, Plan!ValuesOn
<1>6. ASSUME NEW r \in records', r.step = "fork"
      PROVE  r.kind = "SRV" /\ Plan!Reads(r.dispatch, r.page) = {}
  <2>1. CASE r \in records
    BY <1>6, <2>1 DEF PlanSound
  <2>2. CASE r \notin records
    <3>1. Plan!PlanDispatch
      BY <1>1, <2>2 DEF Plan!Next, Plan!RejectDispatch, Plan!PlanDone
    <3>2. PICK p \in Plan!Pages : r \in Plan!AccessRecords(next, p) \cup Plan!ForkRecords(next, p)
      BY <2>2, <3>1 DEF Plan!PlanDispatch
    <3>3. r \notin PlanFacts!AccessRecords(next, p)
      BY <1>6, PlanFacts!AccessCases
    <3>4. r \in Plan!ForkRecords(next, p)
      <4>1. Plan!AccessRecords(next, p) = PlanFacts!AccessRecords(next, p)
        BY SameAccess
      <4> QED
        BY <3>2, <3>3, <4>1
    <3>5. /\ Plan!Hoisted(next, p) /\ r.kind = "SRV" /\ r.dispatch = next /\ r.page = p
      BY <3>4 DEF Plan!ForkRecords, Plan!Record
    <3>6. Plan!Reads(next, p) = {}
      BY <3>5 DEF Plan!Hoisted, Plan!StateFor
    <3> QED
      BY <3>5, <3>6
  <2> QED
    BY <2>1, <2>2
<1> QED
  BY <1>1, <1>3, <1>4, <1>5, <1>6 DEF PlanSound, Live

\* What leaves the plan alone keeps what is known of it.
LEMMA PlanSoundKept ==
  ASSUME PlanSound, UNCHANGED <<planVars, prog>>,
         stage' = "arena" => stage = "arena", stage = "arena" => stage' = "arena",
         stage' \in {"load"} \cup Live => stage \in {"load"} \cup Live \/ verdict = "planned"
  PROVE  PlanSound'
<1>1. UNCHANGED <<job, next, state, pending, records, verdict, prog>>
  BY DEF planVars
<1>2. PlanFacts!IInv => PlanFacts!IInv'
  BY <1>1, PlanFacts!PlanNext, ReplayAssumption DEF PlanFacts!barrierVars
<1>3. \A d, p : Plan!Reads(d, p)' = Plan!Reads(d, p)
  BY <1>1 DEF Plan!Reads, Plan!ValuesOn
<1> QED
  BY <1>1, <1>2, <1>3 DEF PlanSound

\* Two dispatches that share bytes have a barrier of the plan between them.
LEMMA ClashRecorded ==
  ASSUME Inv, ArenaSound, PlanSound, stage \in Live,
         NEW d \in Dispatches(prog), NEW e \in Dispatches(prog), e < d, Clash(e, d)
  PROVE  \E r \in records :
           /\ r.page \in PagesOf(e)
           /\ \/ e < r.dispatch /\ r.dispatch < d
              \/ r.dispatch = d /\ r.step = "access"
              \/ r.dispatch = e /\ r.step = "fork" /\ \E v \in WritesOf(e) : page[v] = r.page
<1> DEFINE V == ArenaValues(prog)
           n == Len(prog.plan)
<1>1. /\ stage # "arena" /\ verdict = "planned" /\ next = n + 1 /\ PlanFacts!IInv
      /\ job = BarrierJob(prog, window, page, offset) /\ prog \in Programs
      /\ DOMAIN page = V
  BY PagesInUse DEF PlanSound, Inv, PlanBuilt, ArenaBuilt, Live
<1>2. /\ n \in Nat /\ Dispatches(prog) = 1 .. n
  BY <1>1, ProgramFacts
<1>3. ASSUME NEW x \in Dispatches(prog)
      PROVE  /\ ReadsOf(x) = KernelReads(prog, x) /\ WritesOf(x) = KernelWrites(prog, x)
             /\ job.reads[x] = ReadsOf(x) /\ job.writes[x] = WritesOf(x)
             /\ ReadsOf(x) \subseteq V /\ WritesOf(x) \subseteq V
  <2>1. x \in Nat /\ x # InputCopy /\ x # HeadKernel
    BY <1>2 DEF InputCopy, HeadKernel, Replay!InputCopy, Replay!HeadOf
  <2>2. ReadsOf(x) = KernelReads(prog, x) /\ WritesOf(x) = KernelWrites(prog, x)
    BY <2>1 DEF ReadsOf, WritesOf
  <2>3. job.reads[x] = KernelReads(prog, x) /\ job.writes[x] = KernelWrites(prog, x)
    BY <1>1 DEF BarrierJob
  <2> QED
    BY <2>2, <2>3 DEF KernelReads, KernelWrites
<1>4. /\ DOMAIN job.where = V
      /\ \A v \in V : /\ job.where[v].page = page[v] /\ job.where[v].lo = offset[v]
                      /\ job.where[v].hi = offset[v] + prog.size[v]
  BY <1>1 DEF BarrierJob
<1>5. \A v, w \in V : Touch(v, w) => page[v] = page[w] /\ PlanFacts!Overlap(v, w)
  BY <1>1, <1>4, TouchFacts DEF Inv, PlanFacts!Overlap
<1>6. \A v \in V : v \in PlanFacts!ValuesOn(page[v]) /\ page[v] \in PlanFacts!Pages
  BY <1>4 DEF PlanFacts!ValuesOn, PlanFacts!Pages
<1> HIDE DEF V
<1>7. \E p \in PlanFacts!Pages : p \in PagesOf(e) /\ PlanFacts!ConflictOn(e, d, p)
  <2> DEFINE on(v, x) == v \in PlanFacts!Reads(x, page[v])
             by(v, x) == v \in PlanFacts!Writes(x, page[v])
  <2>1. \A x \in Dispatches(prog) : /\ \A v \in ReadsOf(x) : on(v, x)
                                    /\ \A v \in WritesOf(x) : by(v, x)
    BY <1>3, <1>6 DEF PlanFacts!Reads, PlanFacts!Writes
  <2>2. CASE \E v \in WritesOf(e), w \in WritesOf(d) \cup ReadsOf(d) : Touch(v, w)
    <3>1. PICK v \in WritesOf(e), w \in WritesOf(d) \cup ReadsOf(d) : Touch(v, w)
      BY <2>2
    <3>2. v \in V /\ w \in V
      BY <1>3
    <3>3. page[v] = page[w] /\ PlanFacts!Overlap(v, w)
      BY <1>5, <3>1, <3>2
    <3>4. PlanFacts!ConflictOn(e, d, page[v])
      BY <2>1, <3>3 DEF PlanFacts!ConflictOn
    <3> QED
      BY <1>6, <3>2, <3>4 DEF PagesOf
  <2>3. CASE \E v \in ReadsOf(e), w \in WritesOf(d) : Touch(v, w)
    <3>1. PICK v \in ReadsOf(e), w \in WritesOf(d) : Touch(v, w)
      BY <2>3
    <3>2. v \in V /\ w \in V
      BY <1>3
    <3>3. page[v] = page[w] /\ PlanFacts!Overlap(v, w)
      BY <1>5, <3>1, <3>2
    <3>4. PlanFacts!ConflictOn(e, d, page[v])
      BY <2>1, <3>3 DEF PlanFacts!ConflictOn
    <3> QED
      BY <1>6, <3>2, <3>4 DEF PagesOf
  <2> QED
    BY <2>2, <2>3 DEF Clash
<1>8. PICK p \in PlanFacts!Pages : p \in PagesOf(e) /\ PlanFacts!ConflictOn(e, d, p)
  BY <1>7
<1>9. e \in 1 .. next - 1 /\ d \in 1 .. next - 1
  BY <1>1, <1>2
<1>10. PICK r \in records : r.page = p /\ PlanFacts!Between(r, e, d)
  BY <1>1, <1>8, <1>9 DEF PlanFacts!IInv, PlanFacts!ConflictsAreOrdered
<1>11. ASSUME r.dispatch = e, r.step = "fork"
       PROVE  \E v \in WritesOf(e) : page[v] = p
  <2>1. PlanFacts!Reads(e, p) = {}
    BY <1>10, <1>11, SamePlan DEF PlanSound
  <2>2. PICK v \in PlanFacts!Writes(e, p) : TRUE
    BY <1>8, <2>1 DEF PlanFacts!ConflictOn
  <2>3. v \in WritesOf(e) /\ v \in V /\ job.where[v].page = p
    BY <1>3, <2>2 DEF PlanFacts!Writes, PlanFacts!ValuesOn
  <2> QED
    BY <1>4, <2>3
<1> QED
  BY <1>8, <1>10, <1>11 DEF PlanFacts!Between

------------------------------------------------------------------------------
(* Lists of commands: kernels in order, barriers between those that clash    *)

IsBarrier(c) == c.op \in {"to", "uav"}
Positions(L) == {i \in 1 .. Len(L) : L[i].op = "kernel"}
KernelsIn(L) == {L[i].kernel : i \in Positions(L)}

\* A barrier on page g comes after command i.
Since(L, i, g) == \E m \in i + 1 .. Len(L) : IsBarrier(L[m]) /\ L[m].page = g

\* A barrier on a page of kernel k comes between commands i and j.
Parted(L, i, j, k) == \E m \in i + 1 .. j - 1 : IsBarrier(L[m]) /\ L[m].page \in PagesOf(k)

Rising(L) == \A i, j \in Positions(L) : i < j => L[i].kernel < L[j].kernel

Guarded(L) ==
  \A i, j \in Positions(L) :
     i < j /\ Clash(L[i].kernel, L[j].kernel) => Parted(L, i, j, L[i].kernel)

\* The barriers that kernel k, which is running, still waits with.
GuardedFrom(k, L) == \A j \in Positions(L) : Clash(k, L[j].kernel) => Parted(L, 0, j, k)

LEMMA Joined ==
  ASSUME NEW L \in Seq(Command), NEW M \in Seq(Command)
  PROVE  LET N == L \o M
         IN  /\ N \in Seq(Command) /\ Len(L) \in Nat /\ Len(M) \in Nat /\ Len(N) = Len(L) + Len(M)
             /\ \A i \in 1 .. Len(L) : i \in 1 .. Len(N) /\ N[i] = L[i]
             /\ \A i \in 1 .. Len(M) : Len(L) + i \in 1 .. Len(N) /\ N[Len(L) + i] = M[i]
             /\ \A i \in 1 .. Len(N) : i \in 1 .. Len(L) \/ (i - Len(L) \in 1 .. Len(M) /\ i > Len(L))
OBVIOUS

\* What is known of a list stays true of it within a longer one.
LEMMA JoinKeeps ==
  ASSUME NEW L \in Seq(Command), NEW M \in Seq(Command)
  PROVE  LET N == L \o M
         IN  /\ Positions(L) \subseteq Positions(N) /\ Positions(L) \subseteq 1 .. Len(L)
             /\ \A i \in Positions(N) : i <= Len(L) => i \in Positions(L)
             /\ \A i \in Positions(L) : N[i] = L[i]
             /\ \A i \in Nat : \A g : Since(L, i, g) => Since(N, i, g)
             /\ \A i \in Positions(L) : \A g :
                  (\E m \in 1 .. Len(M) : IsBarrier(M[m]) /\ M[m].page = g) => Since(N, i, g)
             /\ \A i, j \in Positions(L) : \A k : Parted(L, i, j, k) => Parted(N, i, j, k)
<1> DEFINE N == L \o M
<1>1. /\ N \in Seq(Command) /\ Len(L) \in Nat /\ Len(M) \in Nat /\ Len(N) = Len(L) + Len(M)
      /\ \A i \in 1 .. Len(L) : i \in 1 .. Len(N) /\ N[i] = L[i]
      /\ \A i \in 1 .. Len(M) : Len(L) + i \in 1 .. Len(N) /\ N[Len(L) + i] = M[i]
      /\ \A i \in 1 .. Len(N) : i \in 1 .. Len(L) \/ (i - Len(L) \in 1 .. Len(M) /\ i > Len(L))
  BY Joined
<1> HIDE DEF N
<1>2. /\ Positions(L) \subseteq Positions(N) /\ Positions(L) \subseteq 1 .. Len(L)
      /\ \A i \in Positions(N) : i <= Len(L) => i \in Positions(L)
      /\ \A i \in Positions(L) : N[i] = L[i]
  BY <1>1 DEF Positions
<1>3. ASSUME NEW i \in Nat, NEW g, Since(L, i, g)
      PROVE  Since(N, i, g)
  <2>1. PICK m \in i + 1 .. Len(L) : IsBarrier(L[m]) /\ L[m].page = g
    BY <1>3 DEF Since
  <2>2. m \in 1 .. Len(L) /\ m \in i + 1 .. Len(N)
    BY <1>1, <2>1
  <2> QED
    BY <1>1, <2>1, <2>2 DEF Since
<1>4. ASSUME NEW i \in Positions(L), NEW g, NEW m \in 1 .. Len(M), IsBarrier(M[m]), M[m].page = g
      PROVE  Since(N, i, g)
  <2>1. Len(L) + m \in i + 1 .. Len(N) /\ N[Len(L) + m] = M[m]
    BY <1>1, <1>2
  <2> QED
    BY <1>4, <2>1 DEF Since
<1>5. ASSUME NEW i \in Positions(L), NEW j \in Positions(L), NEW k, Parted(L, i, j, k)
      PROVE  Parted(N, i, j, k)
  <2>1. PICK m \in i + 1 .. j - 1 : IsBarrier(L[m]) /\ L[m].page \in PagesOf(k)
    BY <1>5 DEF Parted
  <2>2. m \in 1 .. Len(L)
    BY <1>1, <1>2
  <2> QED
    BY <1>1, <2>1, <2>2 DEF Parted
<1> QED
  BY <1>2, <1>3, <1>4, <1>5 DEF N

\* More barriers change nothing about the kernels.
LEMMA JoinBarriers ==
  ASSUME NEW L \in Seq(Command), NEW M \in Seq(Command), Positions(M) = {}
  PROVE  LET N == L \o M
         IN  /\ Positions(N) = Positions(L) /\ KernelsIn(N) = KernelsIn(L)
             /\ Rising(L) => Rising(N)
             /\ Guarded(L) => Guarded(N)
<1> DEFINE N == L \o M
<1>1. /\ Positions(L) \subseteq Positions(N)
      /\ \A i \in Positions(N) : i <= Len(L) => i \in Positions(L)
      /\ \A i \in Positions(L) : N[i] = L[i]
      /\ \A i, j \in Positions(L) : \A k : Parted(L, i, j, k) => Parted(N, i, j, k)
  BY JoinKeeps
<1>2. Positions(N) \subseteq Positions(L)
  <2> SUFFICES ASSUME NEW i \in Positions(N), i > Len(L) PROVE FALSE
    BY <1>1, Joined DEF Positions
  <2>1. i - Len(L) \in 1 .. Len(M) /\ N[Len(L) + (i - Len(L))] = M[i - Len(L)] /\ Len(L) + (i - Len(L)) = i
    <3>1. i \in 1 .. Len(N)
      BY DEF Positions
    <3>2. i - Len(L) \in 1 .. Len(M) /\ Len(L) + (i - Len(L)) = i
      BY <3>1, Joined
    <3> QED
      BY <3>2, Joined
  <2>2. i - Len(L) \in Positions(M)
    BY <2>1 DEF Positions
  <2> QED
    BY <2>2
<1> HIDE DEF N
<1>3. Positions(N) = Positions(L)
  BY <1>1, <1>2
<1>4. KernelsIn(N) = KernelsIn(L)
  BY <1>1, <1>3 DEF KernelsIn
<1>5. Rising(L) => Rising(N)
  BY <1>1, <1>3 DEF Rising
<1>6. Guarded(L) => Guarded(N)
  BY <1>1, <1>3 DEF Guarded
<1> QED
  BY <1>3, <1>4, <1>5, <1>6 DEF N

\* A kernel after all others, with barriers since those it clashes with.
LEMMA JoinKernel ==
  ASSUME NEW L \in Seq(Command), NEW k \in Nat
  PROVE  LET N == L \o <<Run(k)>>
         IN  /\ N \in Seq(Command) /\ Len(N) = Len(L) + 1
             /\ Positions(N) = Positions(L) \cup {Len(N)} /\ Positions(L) \subseteq 1 .. Len(L)
             /\ N[Len(N)].kernel = k /\ KernelsIn(N) = KernelsIn(L) \cup {k}
             /\ Rising(L) /\ (\A x \in KernelsIn(L) : x < k) => Rising(N)
             /\ Guarded(L) /\ (\A i \in Positions(L) : Clash(L[i].kernel, k) =>
                                 \E g \in PagesOf(L[i].kernel) : Since(L, i, g))
                  => Guarded(N)
<1> DEFINE c == Run(k)
           N == L \o <<c>>
           n == Len(L)
<1>1. c \in Command /\ c.op = "kernel" /\ c.kernel = k
  BY DEF Run, Command
<1>2. n \in Nat /\ N \in Seq(Command) /\ Len(N) = n + 1 /\ N[n + 1] = c
      /\ \A i \in 1 .. n : N[i] = L[i]
  <2> HIDE DEF c
  <2> QED
    BY <1>1
<1>3. /\ Positions(L) \subseteq Positions(N) /\ Positions(L) \subseteq 1 .. n
      /\ \A i \in Positions(N) : i <= n => i \in Positions(L)
      /\ \A i, j \in Positions(L) : \A x : Parted(L, i, j, x) => Parted(N, i, j, x)
  <2>1. <<c>> \in Seq(Command)
    BY <1>1
  <2> HIDE DEF c
  <2> QED
    BY <2>1, JoinKeeps
<1> HIDE DEF N, c
<1>4. Positions(N) = Positions(L) \cup {n + 1}
  <2>1. n + 1 \in Positions(N)
    BY <1>1, <1>2 DEF Positions
  <2>2. \A i \in Positions(N) : i <= n \/ i = n + 1
    BY <1>2 DEF Positions
  <2> QED
    BY <1>3, <2>1, <2>2
<1>5. \A i \in Positions(L) : N[i] = L[i] /\ i < n + 1 /\ i \in Nat
  BY <1>2, <1>3
<1>6. KernelsIn(N) = KernelsIn(L) \cup {k}
  BY <1>1, <1>2, <1>4, <1>5 DEF KernelsIn
<1>7. ASSUME Rising(L), \A x \in KernelsIn(L) : x < k
      PROVE  Rising(N)
  <2> SUFFICES ASSUME NEW i \in Positions(N), NEW j \in Positions(N), i < j
               PROVE  N[i].kernel < N[j].kernel
    BY DEF Rising
  <2>1. i \in Positions(L)
    BY <1>2, <1>4, <1>5
  <2>2. CASE j \in Positions(L)
    BY <1>5, <1>7, <2>1, <2>2 DEF Rising
  <2>3. CASE j = n + 1
    BY <1>1, <1>2, <1>5, <1>7, <2>1, <2>3 DEF KernelsIn
  <2> QED
    BY <1>4, <2>2, <2>3
<1>8. ASSUME Guarded(L),
             \A i \in Positions(L) : Clash(L[i].kernel, k) =>
               \E g \in PagesOf(L[i].kernel) : Since(L, i, g)
      PROVE  Guarded(N)
  <2> SUFFICES ASSUME NEW i \in Positions(N), NEW j \in Positions(N), i < j,
                      Clash(N[i].kernel, N[j].kernel)
               PROVE  Parted(N, i, j, N[i].kernel)
    BY DEF Guarded
  <2>1. i \in Positions(L) /\ N[i] = L[i]
    BY <1>2, <1>4, <1>5
  <2>2. CASE j \in Positions(L)
    <3>1. N[j] = L[j]
      BY <1>5, <2>2
    <3> QED
      BY <1>3, <1>8, <2>1, <2>2, <3>1 DEF Guarded
  <2>3. CASE j = n + 1
    <3>1. PICK g \in PagesOf(L[i].kernel) : Since(L, i, g)
      BY <1>1, <1>2, <1>8, <2>1, <2>3
    <3>2. PICK m \in i + 1 .. n : IsBarrier(L[m]) /\ L[m].page = g
      BY <3>1 DEF Since
    <3>3. m \in 1 .. n /\ m \in i + 1 .. j - 1
      BY <1>2, <1>3, <2>1, <2>3, <3>2
    <3>4. N[m] = L[m]
      BY <1>2, <3>3
    <3> QED
      BY <2>1, <3>1, <3>2, <3>3, <3>4 DEF Parted
  <2> QED
    BY <1>4, <2>2, <2>3
<1> QED
  BY <1>2, <1>3, <1>4, <1>6, <1>7, <1>8, <1>1 DEF N, c, n

\* While a list runs, only a barrier changes the state of a page.
LEMMA ChangedSince ==
  ASSUME NEW L \in Seq(Command), NEW h, NEW s, NEW t, History(L, h, s, t),
         NEW i \in 0 .. Len(L), NEW g \in Pages, h[i][g] # t[g]
  PROVE  Since(L, i, g)
<1> DEFINE n == Len(L)
           S == {j \in 0 .. n : j >= i /\ h[j][g] = h[i][g]}
           m == Max(S)
<1>1. n \in Nat
  OBVIOUS
<1>2. S \subseteq Nat /\ IsFiniteSet(S) /\ i \in S
  <2>1. IsFiniteSet(0 .. n) /\ S \subseteq 0 .. n
    BY <1>1, FS_Interval
  <2> QED
    BY <1>1, <2>1, FS_Subset
<1> HIDE DEF S
<1>3. m \in S /\ \A x \in S : m >= x
  BY <1>2, MaxOfSet
<1> HIDE DEF m
<1>4. m \in 0 .. n /\ m >= i /\ h[m][g] = h[i][g]
  BY <1>3 DEF S
<1>5. h[n] = t /\ \A j \in 1 .. n : h[j] = Change(L[j], h[j - 1])
  BY DEF History
<1>6. m + 1 \in 1 .. n /\ m + 1 \in i + 1 .. n
  <2>1. m # n
    BY <1>4, <1>5
  <2> QED
    BY <1>1, <1>4, <2>1
<1>7. h[m + 1][g] # h[m][g]
  <2>1. m + 1 \notin S
    BY <1>3, <1>4
  <2> QED
    BY <1>1, <1>4, <1>6, <2>1 DEF S
<1>8. h[m + 1] = Change(L[m + 1], h[m])
  BY <1>1, <1>4, <1>5, <1>6
<1>9. h[m] \in States
  BY <1>4 DEF History
<1>10. L[m + 1].op = "to" /\ L[m + 1].page = g
  <2>1. L[m + 1].op = "to"
    BY <1>7, <1>8 DEF Change
  <2>2. h[m + 1] = [h[m] EXCEPT ![L[m + 1].page] = L[m + 1].to]
    BY <1>8, <2>1 DEF Change
  <2> QED
    BY <1>7, <1>9, <2>1, <2>2 DEF States
<1> QED
  BY <1>6, <1>10 DEF Since, IsBarrier

------------------------------------------------------------------------------
(* Recording                                                                 *)

\* The records up to dispatch n have their barrier after every kernel before them.
Honoured(L, n) ==
  \A i \in Positions(L) : \A r \in records :
     /\ r.dispatch <= n
     /\ \/ L[i].kernel < r.dispatch
        \/ /\ L[i].kernel = r.dispatch /\ r.step = "fork"
           /\ \E v \in WritesOf(r.dispatch) : page[v] = r.page
     => Since(L, i, r.page)

\* L holds the kernels of the dispatches up to n.
Recorded(L, n) ==
  /\ KernelsIn(L) = {d \in 1 .. n : Material(prog, d) # {}}
  /\ Rising(L) /\ Guarded(L) /\ Honoured(L, n)

\* L holds every kernel of a frame but the copy of the input.
Whole(L) ==
  KernelsIn(L) = Replay!Kernels(prog) \ {InputCopy} /\ Rising(L) /\ Guarded(L)

RecordingSound ==
  /\ stage = "record" =>
       \E n \in Nat : /\ n + Len(todo) = Len(prog.plan)
                      /\ \A i \in 1 .. Len(todo) : todo[i].at = n + i
                      /\ Recorded(lists["main"], n)
  /\ ready => Whole(lists["main"])

\* What the graph and the arena decide is the same after a step that keeps them.
LEMMA SameKernels ==
  ASSUME UNCHANGED <<page, offset, task, prog>>
  PROVE  /\ \A k : /\ ReadsOf(k)' = ReadsOf(k) /\ WritesOf(k)' = WritesOf(k)
                   /\ PagesOf(k)' = PagesOf(k)
         /\ \A v, w : Touch(v, w)' = Touch(v, w)
         /\ \A k, l : Clash(k, l)' = Clash(k, l)
         /\ \A L, k : GuardedFrom(k, L) => GuardedFrom(k, L)'
         /\ \A L : Guarded(L) => Guarded(L)'
         /\ Replay!Kernels(prog)' = Replay!Kernels(prog)
<1>1. \A k : ReadsOf(k)' = ReadsOf(k) /\ WritesOf(k)' = WritesOf(k)
  BY DEF ReadsOf, WritesOf, InputCopy, HeadKernel, Replay!InputCopy, Replay!HeadOf
<1>2. \A k : PagesOf(k)' = PagesOf(k)
  BY <1>1 DEF PagesOf
<1>3. \A v, w : Touch(v, w)' = Touch(v, w)
  BY DEF Touch, Arena!Overlap
<1>4. \A k, l : Clash(k, l)' = Clash(k, l)
  BY <1>1, <1>3 DEF Clash
<1>5. \A L, i, j, k : Parted(L, i, j, k)' = Parted(L, i, j, k)
  BY <1>2 DEF Parted
<1>6. \A L, k : GuardedFrom(k, L) => GuardedFrom(k, L)'
  BY <1>4, <1>5 DEF GuardedFrom
<1>7. \A L : Guarded(L) => Guarded(L)'
  BY <1>4, <1>5 DEF Guarded
<1> QED
  BY <1>1, <1>2, <1>3, <1>4, <1>6, <1>7

LEMMA SameRecording ==
  ASSUME UNCHANGED <<page, offset, task, prog, records>>
  PROVE  /\ \A L, n : Recorded(L, n) => Recorded(L, n)'
         /\ \A L : Whole(L) => Whole(L)'
<1>1. ASSUME NEW L, NEW n, Recorded(L, n) PROVE Recorded(L, n)'
  <2>1. Honoured(L, n)'
    BY <1>1, SameKernels DEF Recorded, Honoured
  <2>2. Guarded(L)'
    BY <1>1, SameKernels DEF Recorded
  <2> QED
    BY <1>1, <2>1, <2>2 DEF Recorded
<1>2. ASSUME NEW L, Whole(L) PROVE Whole(L)'
  <2>1. Guarded(L)' /\ Replay!Kernels(prog)' = Replay!Kernels(prog)
    BY <1>2, SameKernels DEF Whole
  <2> QED
    BY <1>2, <2>1 DEF Whole, InputCopy, Replay!InputCopy
<1> QED
  BY <1>1, <1>2

LEMMA RecordingSoundInit == Init => RecordingSound
BY DEF Init, RecordingSound

\* A step that records nothing.
LEMMA RecordingSoundKept ==
  ASSUME RecordingSound, UNCHANGED <<page, offset, task, prog, records, ready, todo, lists>>,
         stage' = "record" => stage = "record"
  PROVE  RecordingSound'
<1>1. lists' = lists /\ todo' = todo /\ ready' = ready /\ prog' = prog
  OBVIOUS
<1>2. ASSUME NEW n, Recorded(lists["main"], n)
      PROVE  Recorded(lists["main"], n)'
  <2>1. Recorded(lists'["main"], n)
    BY <1>1, <1>2
  <2> QED
    BY <2>1, SameRecording
<1>3. Whole(lists["main"]) => Whole(lists["main"])'
  <2>1. Whole(lists["main"]) => Whole(lists'["main"])
    BY <1>1
  <2> QED
    BY <2>1, SameRecording
<1> QED
  BY <1>1, <1>2, <1>3 DEF RecordingSound

\* A step without a recording, before or after it.
LEMMA RecordingSoundNone ==
  ASSUME stage' # "record", ready' = FALSE
  PROVE  RecordingSound'
BY DEF RecordingSound

\* The numbers up to n, in order.
LEMMA InOrderUpTo ==
  ASSUME NEW n \in Nat
  PROVE  /\ Cardinality(1 .. n) = n
         /\ InOrder(1 .. n) = [i \in 1 .. n |-> i]
<1>1. \A k \in 0 .. n : IsFiniteSet(1 .. k) /\ Cardinality(1 .. k) = k
  <2> SUFFICES ASSUME NEW k \in 0 .. n PROVE IsFiniteSet(1 .. k) /\ Cardinality(1 .. k) = k
    OBVIOUS
  <2> QED
    BY FS_Interval
<1>2. Cardinality(1 .. n) = n
  BY <1>1
<1> DEFINE S == 1 .. n
           below(x) == {m \in S : m < x}
<1>3. \A x \in S : below(x) = 1 .. x - 1 /\ Cardinality(below(x)) = x - 1
  <2> SUFFICES ASSUME NEW x \in S PROVE below(x) = 1 .. x - 1 /\ Cardinality(below(x)) = x - 1
    OBVIOUS
  <2>1. below(x) = 1 .. x - 1 /\ x - 1 \in 0 .. n
    OBVIOUS
  <2> HIDE DEF below
  <2> QED
    BY <1>1, <2>1
<1>4. \A i \in S : (CHOOSE x \in S : Cardinality(below(x)) = i - 1) = i
  <2> SUFFICES ASSUME NEW i \in S PROVE (CHOOSE x \in S : Cardinality(below(x)) = i - 1) = i
    OBVIOUS
  <2> DEFINE y == CHOOSE x \in S : Cardinality(below(x)) = i - 1
  <2>1. y \in S /\ Cardinality(below(y)) = i - 1
    BY <1>3
  <2> HIDE DEF y, below
  <2>2. y - 1 = i - 1
    BY <1>3, <2>1
  <2>3. y = i
    BY <2>1, <2>2
  <2> QED
    BY <2>3 DEF y
<1>5. InOrder(S) = [i \in 1 .. Cardinality(S) |-> CHOOSE x \in S : Cardinality(below(x)) = i - 1]
  BY DEF InOrder
<1> HIDE DEF S, below
<1>6. InOrder(S) = [i \in S |-> i]
  <2>1. 1 .. Cardinality(S) = S
    BY <1>2 DEF S
  <2> QED
    BY <1>4, <1>5, <2>1
<1> QED
  BY <1>2, <1>6 DEF S

LEMMA StartCallSound ==
  ASSUME OneQueue, Inv, RecordingSound, StartCall
  PROVE  RecordingSound'
<1> DEFINE N == Len(prog.plan)
           D == Dispatches(prog)
<1>1. /\ stage = "idle" /\ stage' = IF ready THEN "submit" ELSE "record"
      /\ UNCHANGED <<page, offset, task, prog, records, ready>>
  BY DEF StartCall, arenaVars, planVars
<1>2. N \in Nat /\ D = 1 .. N
  BY ProgramFacts DEF Inv, ArenaBuilt
<1>3. CASE ready
  <2>1. UNCHANGED <<todo, lists>>
    BY <1>3 DEF StartCall
  <2> QED
    BY <1>1, <1>3, <2>1, RecordingSoundKept
<1>4. CASE ~ready
  <2>1. /\ lists' = [l \in Lists |-> << >>]
        /\ todo' = [i \in 1 .. Cardinality(D) |-> [list |-> "main", at |-> InOrder(D)[i]]]
    BY <1>4, NoDual DEF StartCall, Inv, Agenda
  <2>2. Cardinality(D) = N /\ InOrder(D) = [i \in 1 .. N |-> i]
    BY <1>2, InOrderUpTo
  <2>3. todo' = [i \in 1 .. N |-> [list |-> "main", at |-> i]]
    BY <2>1, <2>2
  <2> HIDE DEF N, D
  <2>4. 0 + Len(todo') = N /\ \A i \in 1 .. Len(todo') : todo'[i].at = 0 + i
    BY <1>2, <2>3
  <2>5. lists'["main"] = << >>
    BY <2>1 DEF Lists
  <2>6. Recorded(<< >>, 0)
    <3>1. Positions(<< >>) = {} /\ 1 .. 0 = {}
      BY DEF Positions
    <3> QED
      BY <3>1 DEF Recorded, KernelsIn, Rising, Guarded, Honoured
  <2>7. Recorded(lists["main"], 0)'
    <3>1. Recorded(lists'["main"], 0)
      BY <2>5, <2>6
    <3> QED
      BY <1>1, <3>1, SameRecording
  <2>8. N = Len(prog'.plan) /\ ready' = FALSE
    BY <1>1, <1>4 DEF N, Inv, RecordingLeads
  <2> QED
    BY <2>4, <2>7, <2>8 DEF RecordingSound
<1> QED
  BY <1>3, <1>4

LEMMA FailingSound ==
  ASSUME Inv, RefuseBarrier \/ KernelFails \/ PlanMismatch
  PROVE  RecordingSound'
<1>1. stage = "record" /\ UNCHANGED ready /\ \E left : GiveUp(left)
  BY DEF RefuseBarrier, KernelFails, PlanMismatch
<1>2. dual = FALSE /\ ready = FALSE
  BY <1>1 DEF Inv, RecordingLeads, Live
<1>3. stage' = "idle"
  BY <1>1, <1>2 DEF GiveUp
<1> QED
  BY <1>1, <1>2, <1>3, RecordingSoundNone

\* The commands for a set of records: a barrier for each, and nothing else.
LEMMA CommandsBar ==
  ASSUME Pages \subseteq Nat, IsFiniteSet(Pages),
         NEW S, OnePerPage(S), NEW was \in States
  PROVE  LET L == Commands(S, was)
         IN  /\ L \in Seq(Command) /\ Positions(L) = {}
             /\ \A r \in S : \E m \in 1 .. Len(L) : IsBarrier(L[m]) /\ L[m].page = r.page
<1> DEFINE L == Commands(S, was)
           P == {r.page : r \in S}
           pages == InOrder(P)
           n == Cardinality(P)
           of(g) == CHOOSE r \in S : r.page = g
<1>1. L \in Seq(Command)
  BY CommandsLead, LeadsStates
<1>2. P \subseteq Nat /\ IsFiniteSet(P)
  <2>1. P \subseteq Pages
    BY DEF OnePerPage
  <2> QED
    BY <2>1, FS_Subset
<1>3. /\ n \in Nat /\ pages \in [1 .. n -> P]
      /\ \A x \in P : \E i \in 1 .. n : pages[i] = x
  BY <1>2, InOrderRises
<1>4. L = [i \in 1 .. n |-> IF of(pages[i]).kind = "REUSE" THEN Flush(pages[i])
                            ELSE To(pages[i], was[pages[i]], of(pages[i]).kind)]
  BY <1>3 DEF Commands
<1>5. \A r \in S : r.page \in P
  OBVIOUS
<1> HIDE DEF P, pages, n, L, of
<1>6. Len(L) = n
  BY <1>3, <1>4
<1>7. \A i \in 1 .. n : IsBarrier(L[i]) /\ L[i].page = pages[i] /\ L[i].op # "kernel"
  <2> SUFFICES ASSUME NEW i \in 1 .. n
               PROVE  IsBarrier(L[i]) /\ L[i].page = pages[i] /\ L[i].op # "kernel"
    OBVIOUS
  <2>1. CASE of(pages[i]).kind = "REUSE"
    BY <1>4, <2>1 DEF Flush, IsBarrier
  <2>2. CASE of(pages[i]).kind # "REUSE"
    BY <1>4, <2>2 DEF To, IsBarrier
  <2> QED
    BY <2>1, <2>2
<1>8. Positions(L) = {}
  BY <1>6, <1>7 DEF Positions
<1>9. ASSUME NEW r \in S
      PROVE  \E m \in 1 .. Len(L) : IsBarrier(L[m]) /\ L[m].page = r.page
  BY <1>3, <1>5, <1>6, <1>7
<1> QED
  BY <1>1, <1>8, <1>9 DEF L

\* The barriers ahead of a dispatch part its kernel from all it clashes with.
LEMMA BarriersAhead ==
  ASSUME Inv, ArenaSound, PlanSound, stage \in Live,
         NEW d \in Dispatches(prog), NEW L \in Seq(Command), Recorded(L, d - 1),
         NEW A \in Seq(Command), Positions(A) = {},
         \A r \in Ahead(d) : \E m \in 1 .. Len(A) : IsBarrier(A[m]) /\ A[m].page = r.page
  PROVE  LET N == L \o A
         IN  /\ N \in Seq(Command)
             /\ KernelsIn(N) = {e \in 1 .. d - 1 : Material(prog, e) # {}}
             /\ Rising(N) /\ Guarded(N) /\ Honoured(N, d)
             /\ \A i \in Positions(N) : Clash(N[i].kernel, d) =>
                  \E g \in PagesOf(N[i].kernel) : Since(N, i, g)
<1> DEFINE N == L \o A
<1>1. /\ d \in Nat /\ d > 0 /\ \A e \in 1 .. d - 1 : e \in Dispatches(prog) /\ e < d
  <2>1. Len(prog.plan) \in Nat /\ Dispatches(prog) = 1 .. Len(prog.plan)
    BY ProgramFacts DEF Inv, ArenaBuilt
  <2> QED
    BY <2>1
<1>2. /\ Positions(N) = Positions(L) /\ KernelsIn(N) = KernelsIn(L) /\ Rising(N) /\ Guarded(N)
      /\ N \in Seq(Command)
  BY JoinBarriers DEF Recorded
<1>3. /\ \A i \in Positions(L) : N[i] = L[i] /\ i \in Nat
      /\ \A i \in Nat : \A g : Since(L, i, g) => Since(N, i, g)
      /\ \A i \in Positions(L) : \A g :
           (\E m \in 1 .. Len(A) : IsBarrier(A[m]) /\ A[m].page = g) => Since(N, i, g)
  BY JoinKeeps DEF Positions
<1> HIDE DEF N
<1>4. \A i \in Positions(N) : /\ N[i].kernel \in KernelsIn(N) /\ N[i].kernel \in 1 .. d - 1
  BY <1>2 DEF KernelsIn, Recorded
<1>5. ASSUME NEW r \in records, r.dispatch = d
      PROVE  \E s \in Ahead(d) : s.page = r.page
  <2>1. CASE r \in LateAt(d)
    <3>1. PICK s \in RecordsAt(d) : s.page = r.page /\ s.step = "access"
      BY <2>1 DEF LateAt
    <3>2. s \in Ahead(d)
      BY <3>1 DEF Ahead, LateAt
    <3> QED
      BY <3>1, <3>2
  <2>2. CASE r \notin LateAt(d)
    BY <1>5, <2>2 DEF Ahead, RecordsAt
  <2> QED
    BY <2>1, <2>2
<1>6. \A i \in Positions(N) : \A r \in records : r.dispatch = d => Since(N, i, r.page)
  BY <1>2, <1>3, <1>5
<1>7. Honoured(N, d)
  <2> SUFFICES ASSUME NEW i \in Positions(N), NEW r \in records, r.dispatch <= d,
                      \/ N[i].kernel < r.dispatch
                      \/ /\ N[i].kernel = r.dispatch /\ r.step = "fork"
                         /\ \E v \in WritesOf(r.dispatch) : page[v] = r.page
               PROVE  Since(N, i, r.page)
    BY DEF Honoured
  <2>1. r.dispatch \in Nat
    BY DEF Inv, PlanBuilt
  <2>2. CASE r.dispatch = d
    BY <1>6, <2>2
  <2>3. CASE r.dispatch # d
    <3>1. r.dispatch <= d - 1
      BY <1>1, <2>1, <2>3
    <3>2. Since(L, i, r.page)
      BY <1>2, <1>3, <3>1 DEF Recorded, Honoured
    <3> QED
      BY <1>2, <1>3, <3>2
  <2> QED
    BY <2>2, <2>3
<1>8. ASSUME NEW i \in Positions(N), Clash(N[i].kernel, d)
      PROVE  \E g \in PagesOf(N[i].kernel) : Since(N, i, g)
  <2> DEFINE e == N[i].kernel
  <2>1. e \in Dispatches(prog) /\ e < d /\ e \in Nat
    BY <1>1, <1>4
  <2>2. PICK r \in records :
           /\ r.page \in PagesOf(e)
           /\ \/ e < r.dispatch /\ r.dispatch < d
              \/ r.dispatch = d /\ r.step = "access"
              \/ r.dispatch = e /\ r.step = "fork" /\ \E v \in WritesOf(e) : page[v] = r.page
    BY <1>8, <2>1, ClashRecorded
  <2>3. r.dispatch \in Nat
    BY DEF Inv, PlanBuilt
  <2>4. r.dispatch <= d /\ \/ e < r.dispatch
                           \/ /\ e = r.dispatch /\ r.step = "fork"
                              /\ \E v \in WritesOf(r.dispatch) : page[v] = r.page
    BY <1>1, <2>1, <2>2, <2>3
  <2>5. Since(N, i, r.page)
    BY <1>7, <2>4 DEF Honoured
  <2> QED
    BY <2>2, <2>5
<1>9. KernelsIn(N) = {e \in 1 .. d - 1 : Material(prog, e) # {}}
  BY <1>2 DEF Recorded
<1> QED
  BY <1>2, <1>7, <1>8, <1>9 DEF N

\* A hoist whose page the kernel of its dispatch writes comes after the kernel.
LEMMA HoistIsDue ==
  ASSUME Inv, PlanSound, RecordDispatch,
         NEW r \in records, r.dispatch = Head(todo).at, r.step = "fork",
         Head(todo).at \in Dispatches(prog),
         \E v \in WritesOf(Head(todo).at) : page[v] = r.page
  PROVE  r \in HoistsDue(After(Ahead(Head(todo).at), tracked))
<1> DEFINE d   == Head(todo).at
           now == After(Ahead(d), tracked)
<1>1. stage \in Live /\ tracked \in States /\ ~Mismatch(d, now)
  BY DEF RecordDispatch, Live, Inv, RecordingLeads
<1>2. d # InputCopy /\ d # HeadKernel
  BY ProgramFacts DEF Inv, ArenaBuilt, InputCopy, HeadKernel, Replay!InputCopy, Replay!HeadOf
<1>3. WritesOf(d) = KernelWrites(prog, d)
  BY <1>2 DEF WritesOf
<1>4. now[r.page] = "UAV"
  BY <1>1, <1>3 DEF Mismatch
<1>5. r.kind = "SRV"
  BY DEF PlanSound
<1>6. r \in LateAt(d)
  <2> SUFFICES ASSUME r \notin LateAt(d) PROVE FALSE
    OBVIOUS
  <2>1. r \in Ahead(d)
    BY DEF Ahead, RecordsAt
  <2>2. now[r.page] = "SRV"
    BY <1>1, <1>5, <2>1, RecordsApart, KindsOnPage
  <2> QED
    BY <1>4, <2>2
<1> QED
  BY <1>4, <1>6 DEF HoistsDue

LEMMA RecordDispatchSound ==
  ASSUME Inv, ArenaSound, PlanSound, RecordingSound, RecordDispatch
  PROVE  RecordingSound'
<1> DEFINE d   == Head(todo).at
           now == After(Ahead(d), tracked)
           due == HoistsDue(now)
           A   == Commands(Ahead(d), tracked)
           K   == IF Material(prog, d) = {} THEN << >> ELSE <<Run(d)>>
           C   == Commands(due, now)
           m   == lists["main"]
           N1  == m \o A
           N2  == N1 \o K
           N3  == N2 \o C
           T   == Tail(todo)
<1>1. /\ stage = "record" /\ todo # << >> /\ stage' = stage /\ stage \in Live
      /\ UNCHANGED <<page, offset, task, prog, records, ready>>
      /\ todo' = T
      /\ lists' = [lists EXCEPT ![Head(todo).list] = @ \o A \o K \o C]
  BY DEF RecordDispatch, Live, arenaVars, planVars
<1>2. /\ tracked \in States /\ m \in Seq(Command) /\ DOMAIN lists = Lists
      /\ todo \in Seq([list : {"main"}, at : Dispatches(prog)]) /\ ready = FALSE
  BY <1>1 DEF Inv, RecordingLeads, Leads
<1>3. PICK n \in Nat : /\ n + Len(todo) = Len(prog.plan)
                       /\ \A i \in 1 .. Len(todo) : todo[i].at = n + i
                       /\ Recorded(m, n)
  BY <1>1 DEF RecordingSound
<1>4. /\ Head(todo).list = "main" /\ d \in Dispatches(prog) /\ d = n + 1 /\ d \in Nat
      /\ Len(T) = Len(todo) - 1 /\ Len(todo) \in Nat
      /\ \A i \in 1 .. Len(T) : T[i] = todo[i + 1] /\ i + 1 \in 1 .. Len(todo)
  <2> DEFINE E == [list : {"main"}, at : Dispatches(prog)]
  <2>1. todo \in Seq(E) /\ todo # << >>
    BY <1>1, <1>2
  <2> HIDE DEF E
  <2>2. /\ Head(todo) \in E /\ Head(todo) = todo[1] /\ 1 \in 1 .. Len(todo)
        /\ Len(T) = Len(todo) - 1 /\ Len(todo) \in Nat
        /\ \A i \in 1 .. Len(T) : T[i] = todo[i + 1] /\ i + 1 \in 1 .. Len(todo)
    BY <2>1
  <2> QED
    BY <1>3, <2>2 DEF E
<1>5. Pages \subseteq Nat /\ IsFiniteSet(Pages)
  BY PagesFinite DEF Inv
<1>6. OnePerPage(Ahead(d)) /\ OnePerPage(due) /\ now \in States
  BY <1>1, <1>2, RecordsApart, KindsOnPage DEF HoistsDue
<1>7. /\ A \in Seq(Command) /\ Positions(A) = {}
      /\ \A r \in Ahead(d) : \E i \in 1 .. Len(A) : IsBarrier(A[i]) /\ A[i].page = r.page
  BY <1>2, <1>5, <1>6, CommandsBar
<1>8. /\ C \in Seq(Command) /\ Positions(C) = {}
      /\ \A r \in due : \E i \in 1 .. Len(C) : IsBarrier(C[i]) /\ C[i].page = r.page
  BY <1>5, <1>6, CommandsBar
<1>9. \A r \in records : /\ r.dispatch = d /\ r.step = "fork"
                         /\ \E v \in WritesOf(d) : page[v] = r.page
                         => r \in due
  BY <1>4, HoistIsDue
<1> HIDE DEF A, C, now, due, d, m, T
<1>10. /\ N1 \in Seq(Command)
       /\ KernelsIn(N1) = {e \in 1 .. d - 1 : Material(prog, e) # {}}
       /\ Rising(N1) /\ Guarded(N1) /\ Honoured(N1, d)
       /\ \A i \in Positions(N1) : Clash(N1[i].kernel, d) =>
            \E g \in PagesOf(N1[i].kernel) : Since(N1, i, g)
  <2>1. Recorded(m, d - 1)
    BY <1>3, <1>4
  <2> QED
    BY <1>1, <1>2, <1>4, <1>7, <2>1, BarriersAhead
<1> HIDE DEF N1
<1>11. /\ N2 \in Seq(Command) /\ Rising(N2) /\ Guarded(N2)
       /\ KernelsIn(N2) = {e \in 1 .. d : Material(prog, e) # {}}
       /\ \A i \in Positions(N2) : \/ i \in Positions(N1) /\ N2[i] = N1[i]
                                   \/ N2[i].kernel = d
       /\ \A i \in Nat : \A g : Since(N1, i, g) => Since(N2, i, g)
  <2>1. 1 .. d = (1 .. d - 1) \cup {d} /\ \A e \in 1 .. d - 1 : e < d
    BY <1>4
  <2>2. CASE Material(prog, d) = {}
    <3>1. N2 = N1
      BY <1>10, <2>2
    <3>2. KernelsIn(N1) = {e \in 1 .. d : Material(prog, e) # {}}
      BY <1>10, <2>1, <2>2
    <3> QED
      BY <1>10, <3>1, <3>2
  <2>3. CASE Material(prog, d) # {}
    <3>1. N2 = N1 \o <<Run(d)>>
      BY <2>3
    <3>2. \A x \in KernelsIn(N1) : x < d
      BY <1>10, <2>1
    <3>3. /\ N2 \in Seq(Command) /\ Positions(N2) = Positions(N1) \cup {Len(N2)}
          /\ N2[Len(N2)].kernel = d /\ KernelsIn(N2) = KernelsIn(N1) \cup {d}
          /\ (\A x \in KernelsIn(N1) : x < d) => Rising(N2)
          /\ Guarded(N2)
      <4> HIDE DEF Run, Positions, KernelsIn, N2, K
      <4> QED
        BY <1>4, <1>10, <3>1, JoinKernel
    <3>6. Rising(N2)
      BY <3>2, <3>3
    <3>4. /\ \A i \in Positions(N1) : N2[i] = N1[i]
          /\ \A i \in Nat : \A g : Since(N1, i, g) => Since(N2, i, g)
      <4>1. <<Run(d)>> \in Seq(Command)
        BY <1>4 DEF Run, Command
      <4> QED
        BY <1>10, <3>1, <4>1, JoinKeeps
    <3>5. KernelsIn(N2) = {e \in 1 .. d : Material(prog, e) # {}}
      BY <1>10, <2>1, <2>3, <3>3
    <3> QED
      BY <3>3, <3>4, <3>5, <3>6
  <2> QED
    BY <2>2, <2>3
<1> HIDE DEF N2
<1>12. /\ Positions(N3) = Positions(N2) /\ KernelsIn(N3) = KernelsIn(N2)
       /\ Rising(N3) /\ Guarded(N3)
  BY <1>8, <1>11, JoinBarriers
<1>13. /\ \A i \in Positions(N2) : N3[i] = N2[i] /\ i \in Nat
       /\ \A i \in Nat : \A g : Since(N2, i, g) => Since(N3, i, g)
       /\ \A i \in Positions(N2) : \A g :
            (\E x \in 1 .. Len(C) : IsBarrier(C[x]) /\ C[x].page = g) => Since(N3, i, g)
  BY <1>8, <1>11, JoinKeeps DEF Positions
<1> HIDE DEF N3
<1>14. Honoured(N3, d)
  <2> SUFFICES ASSUME NEW i \in Positions(N3), NEW r \in records, r.dispatch <= d,
                      \/ N3[i].kernel < r.dispatch
                      \/ /\ N3[i].kernel = r.dispatch /\ r.step = "fork"
                         /\ \E v \in WritesOf(r.dispatch) : page[v] = r.page
               PROVE  Since(N3, i, r.page)
    BY DEF Honoured
  <2>1. i \in Positions(N2) /\ N3[i] = N2[i] /\ i \in Nat
    BY <1>12, <1>13
  <2>2. CASE i \in Positions(N1) /\ N2[i] = N1[i]
    <3>1. Since(N1, i, r.page)
      BY <1>10, <2>1, <2>2 DEF Honoured
    <3> QED
      BY <1>11, <1>13, <2>1, <3>1
  <2>3. CASE N2[i].kernel = d
    <3>1. r.dispatch \in Nat
      BY DEF Inv, PlanBuilt
    <3>2. r.dispatch = d /\ r.step = "fork" /\ \E v \in WritesOf(d) : page[v] = r.page
      BY <1>4, <2>1, <2>3, <3>1
    <3> QED
      BY <1>8, <1>9, <1>13, <2>1, <3>2
  <2> QED
    BY <1>11, <2>1, <2>2, <2>3
<1>15. Recorded(N3, d)
  BY <1>11, <1>12, <1>14 DEF Recorded
<1>16. Recorded(lists["main"], n + 1)'
  <2>1. lists'["main"] = N3
    BY <1>1, <1>2, <1>4 DEF Lists, m, N1, N2, N3
  <2>2. Recorded(lists'["main"], n + 1)
    BY <1>4, <1>15, <2>1
  <2>3. \A L, x : Recorded(L, x) => Recorded(L, x)'
    BY <1>1, SameRecording
  <2> QED
    BY <2>2, <2>3
<1>17. /\ (n + 1) + Len(todo') = Len(prog'.plan) /\ n + 1 \in Nat
       /\ \A i \in 1 .. Len(todo') : todo'[i].at = (n + 1) + i
  <2>1. todo' = T /\ prog' = prog
    BY <1>1
  <2>2. (n + 1) + Len(T) = Len(prog.plan) /\ n + 1 \in Nat
    <3> DEFINE a == Len(todo)
               b == Len(T)
    <3>1. n \in Nat /\ a \in Nat /\ b = a - 1
      BY <1>3, <1>4
    <3>2. n + a = Len(prog.plan)
      BY <1>3
    <3> HIDE DEF a, b
    <3>3. (n + 1) + b = n + a
      BY <3>1
    <3> QED
      BY <3>1, <3>2, <3>3 DEF b
  <2>3. \A i \in 1 .. Len(T) : T[i].at = (n + 1) + i
    <3> SUFFICES ASSUME NEW i \in 1 .. Len(T) PROVE T[i].at = (n + 1) + i
      OBVIOUS
    <3>1. T[i] = todo[i + 1] /\ i + 1 \in 1 .. Len(todo)
      BY <1>4
    <3>2. todo[i + 1].at = n + (i + 1)
      BY <1>3, <3>1
    <3> QED
      BY <3>1, <3>2
  <2> QED
    BY <2>1, <2>2, <2>3
<1>18. ready' = FALSE
  BY <1>1, <1>2
<1> HIDE DEF Recorded
<1> QED
  BY <1>16, <1>17, <1>18 DEF RecordingSound

LEMMA JoinTwice ==
  ASSUME NEW L \in Seq(Command), NEW M \in Seq(Command), NEW R \in Seq(Command)
  PROVE  L \o (M \o R) = (L \o M) \o R
<1> DEFINE A == L \o (M \o R)
           B == (L \o M) \o R
           n == Len(L) + Len(M) + Len(R)
<1>1. A \in Seq(Command) /\ B \in Seq(Command) /\ Len(A) = n /\ Len(B) = n /\ n \in Nat
  OBVIOUS
<1>2. \A i \in 1 .. n : A[i] = B[i]
  OBVIOUS
<1> HIDE DEF A, B, n
<1>3. A = [i \in 1 .. n |-> A[i]] /\ B = [i \in 1 .. n |-> B[i]]
  BY <1>1
<1> QED
  BY <1>2, <1>3 DEF A, B

\* The kernels of a frame: the copy, the dispatches, the head.
LEMMA FrameKernels ==
  ASSUME prog \in Programs
  PROVE  Replay!Kernels(prog) \ {InputCopy} =
           {d \in 1 .. Len(prog.plan) : Material(prog, d) # {}} \cup
           (IF Replay!FusedHead(prog) THEN {} ELSE {HeadKernel})
<1>1. Len(prog.plan) \in Nat /\ Replay!Dispatches(prog) = 1 .. Len(prog.plan)
      /\ \A d : Replay!Material(prog, d) = Material(prog, d)
  BY ProgramFacts, SameSemantics
<1>2. HeadKernel = Len(prog.plan) + 1 /\ InputCopy = 0 /\ Replay!HeadOf(prog) = HeadKernel
      /\ Replay!InputCopy = InputCopy
  BY DEF HeadKernel, InputCopy, Replay!HeadOf, Replay!InputCopy
<1>3. InputCopy \notin 1 .. Len(prog.plan) /\ HeadKernel # InputCopy
  BY <1>1, <1>2
<1>4. Replay!Kernels(prog) =
        {InputCopy} \cup {d \in 1 .. Len(prog.plan) : Material(prog, d) # {}} \cup
        (IF Replay!FusedHead(prog) THEN {} ELSE {HeadKernel})
  BY <1>1, <1>2 DEF Replay!Kernels
<1> HIDE DEF HeadKernel, InputCopy
<1> QED
  BY <1>3, <1>4

\* The head comes after the kernel that writes the output, with a barrier
\* between them: the one recorded for the head or, when the output is SRV
\* already, the one that made it so.
LEMMA HeadWhole ==
  ASSUME Inv, ArenaSound, stage \in Live, ~Replay!FusedHead(prog), tracked \in States,
         NEW L \in Seq(Command), Leads(L, AllCommon, tracked), Recorded(L, Len(prog.plan))
  PROVE  LET out == page[Canonical(prog)[prog.output]]
             T   == IF tracked[out] = "SRV" THEN << >> ELSE <<To(out, tracked[out], "SRV")>>
         IN  T \in Seq(Command) /\ Whole((L \o T) \o <<Run(HeadKernel)>>)
<1> DEFINE v    == Canonical(prog)[prog.output]
           out  == page[v]
           T    == IF tracked[out] = "SRV" THEN << >> ELSE <<To(out, tracked[out], "SRV")>>
           M    == L \o T
           N    == M \o <<Run(HeadKernel)>>
           n    == Len(prog.plan)
<1>1. /\ v \in ArenaValues(prog) /\ n \in Nat /\ prog \in Programs
      /\ Dispatches(prog) = 1 .. n
  BY ProgramFacts DEF Inv, ArenaBuilt
<1>2. out \in Pages /\ tracked[out] \in PageStates
  BY <1>1, PagesInUse DEF Inv, Live, States
<1>3. T \in Seq(Command) /\ Positions(T) = {}
      /\ (tracked[out] # "SRV" => \E m \in 1 .. Len(T) : IsBarrier(T[m]) /\ T[m].page = out)
  <2>1. CASE tracked[out] = "SRV"
    BY <2>1 DEF Positions
  <2>2. CASE tracked[out] # "SRV"
    <3> DEFINE c == To(out, tracked[out], "SRV")
    <3>1. c \in Command /\ c.op = "to" /\ c.page = out
      BY <1>2 DEF To, Command, PageStates
    <3> HIDE DEF c
    <3>2. T = <<c>>
      BY <2>2 DEF c
    <3> HIDE DEF T
    <3>3. T \in Seq(Command) /\ Len(T) = 1 /\ T[1] = c
      BY <3>1, <3>2
    <3> QED
      BY <3>1, <3>3 DEF Positions, IsBarrier
  <2> QED
    BY <2>1, <2>2
<1> HIDE DEF T
<1>4. /\ Positions(M) = Positions(L) /\ KernelsIn(M) = KernelsIn(L) /\ Rising(M) /\ Guarded(M)
      /\ M \in Seq(Command)
  BY <1>3, JoinBarriers DEF Recorded
<1>5. /\ \A i \in Positions(L) : M[i] = L[i] /\ i \in 1 .. Len(L) /\ i \in Nat
      /\ \A i \in Nat : \A g : Since(L, i, g) => Since(M, i, g)
      /\ \A i \in Positions(L) : \A g :
           (\E m \in 1 .. Len(T) : IsBarrier(T[m]) /\ T[m].page = g) => Since(M, i, g)
  BY <1>3, JoinKeeps DEF Positions
<1> HIDE DEF M
<1>6. HeadKernel = n + 1 /\ HeadKernel \in Nat /\ HeadKernel # InputCopy
  BY <1>1 DEF HeadKernel, InputCopy, Replay!HeadOf, Replay!InputCopy
<1>7. ReadsOf(HeadKernel) = {v} /\ WritesOf(HeadKernel) = {}
  BY <1>6 DEF ReadsOf, WritesOf
<1>8. KernelsIn(L) = {d \in 1 .. n : Material(prog, d) # {}}
  BY DEF Recorded
<1>9. ASSUME NEW i \in Positions(L), Clash(L[i].kernel, HeadKernel)
      PROVE  \E g \in PagesOf(L[i].kernel) : Since(M, i, g)
  <2> DEFINE e == L[i].kernel
  <2>1. e \in 1 .. n /\ e # InputCopy
    <3>1. e \in KernelsIn(L)
      BY DEF KernelsIn
    <3> QED
      BY <1>1, <1>8, <3>1 DEF InputCopy, Replay!InputCopy
  <2>2. PICK w \in WritesOf(e) : page[w] = out
    BY <1>7, <1>9 DEF Clash, Touch
  <2>3. out \in PagesOf(e)
    BY <2>2 DEF PagesOf
  <2>4. CASE tracked[out] # "SRV"
    BY <1>3, <1>5, <2>3, <2>4
  <2>5. CASE tracked[out] = "SRV"
    <3>1. PICK h : History(L, h, AllCommon, tracked)
      BY DEF Leads
    <3>2. i \in 1 .. Len(L) /\ L[i].op = "kernel"
      BY DEF Positions
    <3>3. Fits(L[i], h[i - 1]) /\ h[i] = Change(L[i], h[i - 1])
      BY <3>1, <3>2 DEF History
    <3>4. h[i] = h[i - 1] /\ Finds(e, h[i - 1])
      BY <3>2, <3>3 DEF Change, Fits
    <3>5. h[i][out] = "UAV"
      BY <2>1, <2>2, <3>4 DEF Finds, WriteState
    <3>6. i \in 0 .. Len(L) /\ h[i][out] # tracked[out]
      BY <2>5, <3>2, <3>5
    <3>7. Since(L, i, out)
      BY <1>2, <3>1, <3>6, ChangedSince
    <3> QED
      BY <1>5, <2>3, <3>7
  <2> QED
    BY <2>4, <2>5
<1>10. ASSUME NEW i \in Positions(M), Clash(M[i].kernel, HeadKernel)
       PROVE  \E g \in PagesOf(M[i].kernel) : Since(M, i, g)
  BY <1>4, <1>5, <1>9, <1>10
<1>11. \A x \in KernelsIn(M) : x < HeadKernel
  BY <1>1, <1>4, <1>6, <1>8
<1>12. /\ KernelsIn(N) = KernelsIn(M) \cup {HeadKernel}
       /\ (\A x \in KernelsIn(M) : x < HeadKernel) => Rising(N)
       /\ Guarded(N)
  <2> HIDE DEF Run, Positions, KernelsIn, HeadKernel
  <2> QED
    BY <1>4, <1>6, <1>10, JoinKernel
<1> HIDE DEF N
<1>13. KernelsIn(N) = Replay!Kernels(prog) \ {InputCopy}
  BY <1>1, <1>4, <1>8, <1>12, FrameKernels
<1>14. Whole(N)
  BY <1>11, <1>12, <1>13 DEF Whole
<1> QED
  BY <1>3, <1>14 DEF T, M, N

LEMMA FinishRecordingSound ==
  ASSUME Inv, ArenaSound, RecordingSound, FinishRecording
  PROVE  RecordingSound'
<1> DEFINE out  == page[Canonical(prog)[prog.output]]
           seen == IF Replay!FusedHead(prog) THEN tracked ELSE [tracked EXCEPT ![out] = "SRV"]
           T    == IF tracked[out] = "SRV" THEN << >> ELSE <<To(out, tracked[out], "SRV")>>
           R    == <<Run(HeadKernel)>>
           head == IF Replay!FusedHead(prog) THEN << >> ELSE T \o R
           used == InOrder({g \in Pages : seen[g] # "COMMON"})
           back == [i \in DOMAIN used |-> To(used[i], seen[used[i]], "COMMON")]
           m    == lists["main"]
           X    == m \o head
           N    == X \o back
<1>1. /\ stage = "record" /\ stage \in Live /\ stage' = "submit" /\ ready' = TRUE
      /\ todo = << >>
      /\ UNCHANGED <<page, offset, task, prog, records>>
  BY DEF FinishRecording, Live, arenaVars, planVars
<1>2. /\ tracked \in States /\ Leads(m, AllCommon, tracked) /\ DOMAIN lists = Lists
      /\ dual = FALSE /\ prog \in Programs /\ m \in Seq(Command)
  <2>1. /\ tracked \in States /\ Leads(m, AllCommon, tracked) /\ DOMAIN lists = Lists
        /\ dual = FALSE /\ prog \in Programs
    BY <1>1 DEF Inv, RecordingLeads, ArenaBuilt
  <2> QED
    BY <2>1, LeadsStates
<1>3. lists' = [lists EXCEPT !["main"] = @ \o head \o back]
  BY <1>2 DEF FinishRecording
<1>4. Recorded(m, Len(prog.plan))
  <2>1. PICK n \in Nat : n + Len(todo) = Len(prog.plan) /\ Recorded(m, n)
    BY <1>1 DEF RecordingSound
  <2>2. n = Len(prog.plan)
    BY <1>1, <2>1
  <2> QED
    BY <2>1, <2>2
<1>5. seen \in States
  <2>1. out \in Pages
    BY <1>1, <1>2, ProgramFacts, PagesInUse DEF Inv, Live
  <2> QED
    BY <1>2, <2>1 DEF States, PageStates
<1>6. back \in Seq(Command) /\ Positions(back) = {}
  <2>1. back \in Seq(Command)
    BY <1>5, ResetLeads, LeadsStates
  <2>2. \A i \in 1 .. Len(back) : back[i].op = "to"
    <3>1. DOMAIN back = DOMAIN used
      OBVIOUS
    <3>2. \A g, a, b : To(g, a, b).op = "to"
      BY DEF To
    <3> HIDE DEF used
    <3>3. \A i \in DOMAIN used : back[i].op = "to"
      BY <3>2
    <3> HIDE DEF back
    <3>4. DOMAIN back = 1 .. Len(back)
      BY <2>1
    <3> QED
      BY <3>1, <3>3, <3>4
  <2> QED
    BY <2>1, <2>2 DEF Positions
<1> HIDE DEF seen, back, m
<1>7. X \in Seq(Command) /\ Whole(X)
  <2>1. CASE Replay!FusedHead(prog)
    <3>1. X = m
      BY <1>2, <2>1
    <3>2. KernelsIn(m) = Replay!Kernels(prog) \ {InputCopy}
      BY <1>2, <1>4, <2>1, FrameKernels DEF Recorded
    <3>3. Whole(m)
      BY <1>4, <3>2 DEF Whole, Recorded
    <3> QED
      BY <1>2, <3>1, <3>3
  <2>2. CASE ~Replay!FusedHead(prog)
    <3>1. T \in Seq(Command) /\ Whole((m \o T) \o R)
      BY <1>1, <1>2, <1>4, <2>2, HeadWhole
    <3>2. R \in Seq(Command)
      <4>1. HeadKernel \in Nat
        BY <1>2, ProgramFacts DEF HeadKernel, Replay!HeadOf
      <4>2. Run(HeadKernel) \in Command
        BY <4>1 DEF Run, Command
      <4> QED
        BY <4>2
    <3> HIDE DEF T, R
    <3>3. X = m \o (T \o R)
      BY <2>2
    <3>4. X = (m \o T) \o R
      BY <1>2, <3>1, <3>2, <3>3, JoinTwice
    <3>5. (m \o T) \o R \in Seq(Command)
      BY <1>2, <3>1, <3>2
    <3> QED
      BY <3>1, <3>4, <3>5
  <2> QED
    BY <2>1, <2>2
<1> HIDE DEF head, X
<1>8. Whole(N)
  <2>1. KernelsIn(N) = KernelsIn(X) /\ (Rising(X) => Rising(N)) /\ (Guarded(X) => Guarded(N))
    BY <1>6, <1>7, JoinBarriers
  <2> HIDE DEF N
  <2> QED
    BY <1>7, <2>1 DEF Whole
<1>9. lists'["main"] = N
  BY <1>2, <1>3 DEF Lists, m, X
<1>10. Whole(lists["main"])'
  <2>1. Whole(lists'["main"])
    BY <1>8, <1>9
  <2>2. \A L : Whole(L) => Whole(L)'
    BY <1>1, SameRecording
  <2> QED
    BY <2>1, <2>2
<1> HIDE DEF Whole
<1> QED
  BY <1>1, <1>10 DEF RecordingSound

------------------------------------------------------------------------------
(* Execution                                                                 *)

\* A frame in which the queue has rest left, the kernels run are running, those
\* of done have ended and the values of good hold their results: what is left
\* is later than what was started, no two kernels that share bytes run
\* together, and a result is lost only to a later kernel.
Ordered(rest, run, done, good) ==
  /\ Rising(rest) /\ Guarded(rest)
  /\ \A k \in run : GuardedFrom(k, rest)
  /\ \A k \in run \cup done : \A d \in KernelsIn(rest) : k < d
  /\ run \cap done = {}
  /\ \A k, l \in run : k # l => ~Clash(k, l)
  /\ \A k \in run : \A f \in done : k < f => ~Clash(k, f)
  /\ \A f \in done : \A v \in WritesOf(f) :
       v \in good \/ \E x \in run \cup done : f < x /\ \E w \in WritesOf(x) : v # w /\ Touch(v, w)

FrameSound ==
  /\ stage \notin Live => frame = 0 /\ finished = {}
  /\ frame \in Nat /\ (stage = "run" => frame > 0)
  /\ stage \in Live =>
       /\ Ordered(queue["q0"], running["q0"], finished, intact)
       /\ running["q0"] \cup finished \cup KernelsIn(queue["q0"]) =
            IF frame = 0 THEN {} ELSE Replay!Kernels(prog)

LEMMA SameOrder ==
  ASSUME UNCHANGED <<page, offset, task, prog>>
  PROVE  /\ \A rest, run, done, good :
              Ordered(rest, run, done, good) => Ordered(rest, run, done, good)'
         /\ Replay!Kernels(prog)' = Replay!Kernels(prog)
<1>1. ASSUME NEW rest, NEW run, NEW done, NEW good, Ordered(rest, run, done, good)
      PROVE  Ordered(rest, run, done, good)'
  <2>1. /\ \A k : WritesOf(k)' = WritesOf(k)
        /\ \A v, w : Touch(v, w)' = Touch(v, w)
        /\ \A k, l : Clash(k, l)' = Clash(k, l)
        /\ \A L, k : GuardedFrom(k, L) => GuardedFrom(k, L)'
        /\ \A L : Guarded(L) => Guarded(L)'
    BY SameKernels
  <2>2. \A k \in run : GuardedFrom(k, rest)'
    BY <1>1, <2>1 DEF Ordered
  <2>3. Guarded(rest)'
    BY <1>1, <2>1 DEF Ordered
  <2>4. /\ \A k, l \in run : k # l => ~Clash(k, l)'
        /\ \A k \in run : \A f \in done : k < f => ~Clash(k, f)'
    BY <1>1, <2>1 DEF Ordered
  <2>5. ASSUME NEW f \in done, NEW v \in WritesOf(f)'
        PROVE  v \in good \/ \E x \in run \cup done : f < x /\ \E w \in WritesOf(x)' : v # w /\ Touch(v, w)'
    BY <1>1, <2>1 DEF Ordered
  <2> QED
    BY <1>1, <2>2, <2>3, <2>4, <2>5 DEF Ordered
<1>2. Replay!Kernels(prog)' = Replay!Kernels(prog)
  BY SameKernels
<1> QED
  BY <1>1, <1>2

LEMMA EmptyList ==
  /\ Positions(<< >>) = {} /\ KernelsIn(<< >>) = {} /\ Rising(<< >>) /\ Guarded(<< >>)
<1>1. Positions(<< >>) = {}
  BY DEF Positions
<1> QED
  BY <1>1 DEF KernelsIn, Rising, Guarded

LEMMA OrderedEmpty == \A good : Ordered(<< >>, {}, {}, good)
BY EmptyList DEF Ordered

LEMMA FrameSoundInit == Init => FrameSound
BY DEF Init, FrameSound, Live

\* A step that leaves the GPU alone, within a call or outside of one.
LEMMA FrameSoundKept ==
  ASSUME FrameSound,
         UNCHANGED <<page, offset, task, prog, queue, running, frame, intact, finished>>,
         stage \in Live, stage' \in Live, stage' = "run" => stage = "run"
  PROVE  FrameSound'
<1>1. /\ queue' = queue /\ running' = running /\ frame' = frame /\ intact' = intact
      /\ finished' = finished
  OBVIOUS
<1>2. Ordered(queue'["q0"], running'["q0"], finished', intact')
  BY <1>1 DEF FrameSound
<1>3. Ordered(queue["q0"], running["q0"], finished, intact)'
  BY <1>2, SameOrder
<1>4. Replay!Kernels(prog)' = Replay!Kernels(prog)
  BY SameOrder
<1> QED
  BY <1>1, <1>3, <1>4 DEF FrameSound, KernelsIn, Positions

\* A step before the engine is loaded, or the one that loads it.
LEMMA FrameSoundNone ==
  ASSUME FrameSound, stage \notin Live, Inv, UNCHANGED <<queue, running, frame, finished>>,
         stage' # "run"
  PROVE  FrameSound'
<1>1. frame' = 0 /\ finished' = {} /\ queue'["q0"] = << >> /\ running'["q0"] = {}
  BY DEF FrameSound, Inv, GpuLeads, Live
<1>2. Ordered(<< >>, {}, {}, intact)'
  <2>1. {i \in 1 .. Len(<< >>) : << >>[i].op = "kernel"} = {}
    OBVIOUS
  <2> QED
    BY <2>1 DEF Ordered, Positions, Rising, Guarded
<1>3. Ordered(queue["q0"], running["q0"], finished, intact)'
  BY <1>1, <1>2
<1>4. KernelsIn(queue'["q0"]) = {}
  BY <1>1, EmptyList
<1> QED
  BY <1>1, <1>3, <1>4 DEF FrameSound, KernelsIn, Positions

\* What is left of a list after its first command.
LEMMA Shortened ==
  ASSUME NEW L \in Seq(Command), L # << >>
  PROVE  LET T == Tail(L)
             c == Head(L)
         IN  /\ T \in Seq(Command) /\ c \in Command
             /\ KernelsIn(L) = IF c.op = "kernel" THEN {c.kernel} \cup KernelsIn(T) ELSE KernelsIn(T)
             /\ Rising(L) => Rising(T) /\ (c.op = "kernel" => \A d \in KernelsIn(T) : c.kernel < d)
             /\ Guarded(L) => Guarded(T) /\ (c.op = "kernel" => GuardedFrom(c.kernel, T))
             /\ \A k : /\ GuardedFrom(k, L)
                       /\ IsBarrier(c) => c.page \notin PagesOf(k)
                       => GuardedFrom(k, T)
             /\ \A k : GuardedFrom(k, L) /\ c.op = "kernel" => ~Clash(k, c.kernel)
<1> DEFINE T == Tail(L)
           c == Head(L)
           n == Len(L)
<1>1. /\ T \in Seq(Command) /\ c \in Command /\ n \in Nat /\ n > 0 /\ c = L[1] /\ Len(T) = n - 1
      /\ \A i \in 1 .. n - 1 : T[i] = L[i + 1]
  OBVIOUS
<1> HIDE DEF T, c, n
<1>2. \A j \in Positions(T) : j \in 1 .. n - 1 /\ j + 1 \in Positions(L) /\ T[j] = L[j + 1]
  BY <1>1 DEF Positions, n
<1>3. \A j \in Positions(L) : j \in 1 .. n /\ (j = 1 \/ (j - 1 \in Positions(T) /\ T[j - 1] = L[j]))
  BY <1>1 DEF Positions, n
<1>4. 1 \in Positions(L) <=> c.op = "kernel"
  BY <1>1 DEF Positions, n
<1>5. KernelsIn(L) = IF c.op = "kernel" THEN {c.kernel} \cup KernelsIn(T) ELSE KernelsIn(T)
  <2>1. ASSUME NEW x \in KernelsIn(T) PROVE x \in KernelsIn(L)
    BY <1>2 DEF KernelsIn
  <2>2. ASSUME c.op = "kernel" PROVE c.kernel \in KernelsIn(L)
    BY <1>1, <1>4, <2>2 DEF KernelsIn
  <2>3. ASSUME NEW x \in KernelsIn(L)
        PROVE  x \in KernelsIn(T) \/ (c.op = "kernel" /\ x = c.kernel)
    <3>1. PICK j \in Positions(L) : x = L[j].kernel
      BY DEF KernelsIn
    <3>2. CASE j = 1
      BY <1>1, <1>4, <3>1, <3>2
    <3>3. CASE j # 1
      BY <1>3, <3>1, <3>3 DEF KernelsIn
    <3> QED
      BY <3>2, <3>3
  <2> QED
    BY <2>1, <2>2, <2>3
<1>6. ASSUME Rising(L)
      PROVE  Rising(T) /\ (c.op = "kernel" => \A d \in KernelsIn(T) : c.kernel < d)
  <2>1. Rising(T)
    <3> SUFFICES ASSUME NEW i \in Positions(T), NEW j \in Positions(T), i < j
                 PROVE  T[i].kernel < T[j].kernel
      BY DEF Rising
    <3>1. i + 1 < j + 1
      BY <1>2
    <3> QED
      BY <1>2, <1>6, <3>1 DEF Rising
  <2>2. ASSUME c.op = "kernel", NEW d \in KernelsIn(T) PROVE c.kernel < d
    <3>1. PICK j \in Positions(T) : d = T[j].kernel
      BY DEF KernelsIn
    <3>2. 1 \in Positions(L) /\ j + 1 \in Positions(L) /\ 1 < j + 1
      BY <1>2, <1>4, <2>2
    <3> QED
      BY <1>1, <1>2, <1>6, <3>1, <3>2 DEF Rising
  <2> QED
    BY <2>1, <2>2
<1>7. ASSUME NEW i \in Nat, NEW j \in Positions(T), NEW k, Parted(L, i + 1, j + 1, k)
      PROVE  Parted(T, i, j, k)
  <2>1. PICK m \in i + 2 .. j : IsBarrier(L[m]) /\ L[m].page \in PagesOf(k)
    <3>1. j \in Nat /\ (i + 1) + 1 = i + 2 /\ (j + 1) - 1 = j
      BY <1>2
    <3> QED
      BY <1>7, <3>1 DEF Parted
  <2>2. m - 1 \in 1 .. n - 1 /\ (m - 1) + 1 = m /\ m - 1 \in i + 1 .. j - 1
    BY <1>1, <1>2
  <2>3. T[m - 1] = L[m]
    BY <1>1, <2>2
  <2> QED
    BY <2>1, <2>2, <2>3 DEF Parted
<1>8. ASSUME Guarded(L)
      PROVE  Guarded(T) /\ (c.op = "kernel" => GuardedFrom(c.kernel, T))
  <2>1. Guarded(T)
    <3> SUFFICES ASSUME NEW i \in Positions(T), NEW j \in Positions(T), i < j,
                        Clash(T[i].kernel, T[j].kernel)
                 PROVE  Parted(T, i, j, T[i].kernel)
      BY DEF Guarded
    <3>1. /\ i \in Nat /\ i + 1 \in Positions(L) /\ j + 1 \in Positions(L) /\ i + 1 < j + 1
          /\ T[i] = L[i + 1] /\ T[j] = L[j + 1]
      BY <1>2
    <3>2. Parted(L, i + 1, j + 1, T[i].kernel)
      BY <1>8, <3>1 DEF Guarded
    <3> QED
      BY <1>7, <3>1, <3>2
  <2>2. ASSUME c.op = "kernel" PROVE GuardedFrom(c.kernel, T)
    <3> SUFFICES ASSUME NEW j \in Positions(T), Clash(c.kernel, T[j].kernel)
                 PROVE  Parted(T, 0, j, c.kernel)
      BY DEF GuardedFrom
    <3>1. 1 \in Positions(L) /\ j + 1 \in Positions(L) /\ 1 < j + 1 /\ T[j] = L[j + 1]
      BY <1>2, <1>4, <2>2
    <3>2. Parted(L, 0 + 1, j + 1, c.kernel)
      BY <1>1, <1>8, <3>1 DEF Guarded
    <3> QED
      BY <1>7, <3>2
  <2> QED
    BY <2>1, <2>2
<1>9. ASSUME NEW k, GuardedFrom(k, L), IsBarrier(c) => c.page \notin PagesOf(k)
      PROVE  GuardedFrom(k, T)
  <2> SUFFICES ASSUME NEW j \in Positions(T), Clash(k, T[j].kernel)
               PROVE  Parted(T, 0, j, k)
    BY DEF GuardedFrom
  <2>1. j \in Nat /\ j + 1 \in Positions(L) /\ T[j] = L[j + 1]
    BY <1>2
  <2>2. Parted(L, 0, j + 1, k)
    BY <1>9, <2>1 DEF GuardedFrom
  <2>3. PICK m \in 0 + 1 .. (j + 1) - 1 : IsBarrier(L[m]) /\ L[m].page \in PagesOf(k)
    BY <2>2 DEF Parted
  <2>4. m # 1
    BY <1>1, <1>9, <2>3
  <2>5. m \in (0 + 1) + 1 .. (j + 1) - 1
    BY <2>1, <2>3, <2>4
  <2>6. Parted(L, 0 + 1, j + 1, k)
    BY <2>3, <2>5 DEF Parted
  <2> QED
    BY <1>7, <2>6
<1>10. ASSUME NEW k, GuardedFrom(k, L), c.op = "kernel" PROVE ~Clash(k, c.kernel)
  <2>1. Clash(k, c.kernel) => Parted(L, 0, 1, k)
    BY <1>1, <1>4, <1>10 DEF GuardedFrom
  <2>2. ~Parted(L, 0, 1, k)
    <3>1. 0 + 1 .. 1 - 1 = {}
      OBVIOUS
    <3> QED
      BY <3>1 DEF Parted
  <2> QED
    BY <2>1, <2>2
<1> QED
  BY <1>1, <1>5, <1>6, <1>8, <1>9, <1>10 DEF T, c

\* A kernel that starts.
LEMMA StartOrdered ==
  ASSUME ArenaBuilt, ArenaSound, stage # "arena",
         NEW L \in Seq(Command), L # << >>, Head(L).op = "kernel", NEW run, NEW done,
         Ordered(L, run, done, intact), done \subseteq Nat,
         run \cup done \cup KernelsIn(L) = Replay!Kernels(prog)
  PROVE  LET k == Head(L).kernel
         IN  /\ Ordered(Tail(L), run \cup {k}, done, intact \ Clobbered(k))
             /\ (run \cup {k}) \cup done \cup KernelsIn(Tail(L)) = Replay!Kernels(prog)
<1> DEFINE k == Head(L).kernel
           T == Tail(L)
           C == Clobbered(k)
<1>1. /\ KernelsIn(L) = {k} \cup KernelsIn(T)
      /\ Rising(L) => Rising(T) /\ \A d \in KernelsIn(T) : k < d
      /\ Guarded(L) => Guarded(T) /\ GuardedFrom(k, T)
      /\ \A l : GuardedFrom(l, L) => GuardedFrom(l, T) /\ ~Clash(l, k)
  <2>1. ~IsBarrier(Head(L))
    BY DEF IsBarrier
  <2> QED
    BY <2>1, Shortened
<1> HIDE DEF T, k
<1>2. prog \in Programs
  BY DEF ArenaBuilt
<1>3. k \in KernelsIn(L) /\ k \in Replay!Kernels(prog)
  BY <1>1
<1>4. \A x \in Replay!Kernels(prog) : x \in Nat
  BY <1>2, KernelKinds
<1>5. \A x \in run \cup done : x < k /\ x # k /\ ~(k < x) /\ x \in Replay!Kernels(prog)
  BY <1>3, <1>4 DEF Ordered
<1>6. \A l \in run : ~Clash(l, k) /\ ~Clash(k, l)
  <2>1. \A l \in run : ~Clash(l, k)
    BY <1>1 DEF Ordered
  <2> QED
    BY <1>2, <1>3, <1>5, <2>1, ClashTurns
<1>7. Rising(T) /\ Guarded(T) /\ \A l \in run \cup {k} : GuardedFrom(l, T)
  BY <1>1 DEF Ordered
<1>8. \A x \in (run \cup {k}) \cup done : \A d \in KernelsIn(T) : x < d
  BY <1>1 DEF Ordered
<1>9. (run \cup {k}) \cap done = {}
  BY <1>5 DEF Ordered
<1>10. \A l, m \in run \cup {k} : l # m => ~Clash(l, m)
  BY <1>6 DEF Ordered
<1>11. \A l \in run \cup {k} : \A f \in done : l < f => ~Clash(l, f)
  BY <1>5 DEF Ordered
<1>12. ASSUME NEW f \in done, NEW v \in WritesOf(f)
       PROVE  \/ v \in intact \ C
              \/ \E x \in (run \cup {k}) \cup done :
                   f < x /\ \E w \in WritesOf(x) : v # w /\ Touch(v, w)
  <2>1. CASE v \in C
    <3>1. \E w \in WritesOf(k) : v # w /\ Touch(v, w)
      BY <2>1 DEF Clobbered, Touch
    <3> QED
      BY <1>5, <3>1
  <2>2. CASE v \notin C
    <3> HIDE DEF C
    <3> QED
      BY <1>12, <2>2 DEF Ordered
  <2> QED
    BY <2>1, <2>2
<1> HIDE DEF C
<1>13. Ordered(T, run \cup {k}, done, intact \ C)
  BY <1>7, <1>8, <1>9, <1>10, <1>11, <1>12 DEF Ordered
<1>14. (run \cup {k}) \cup done \cup KernelsIn(T) = Replay!Kernels(prog)
  BY <1>1
<1> QED
  BY <1>13, <1>14 DEF T, k, C

\* A kernel that ends.
LEMMA EndOrdered ==
  ASSUME prog \in Programs, NEW L, NEW run, NEW done, Ordered(L, run, done, intact), NEW k \in run,
         run \cup done \subseteq Replay!Kernels(prog)
  PROVE  Ordered(L, run \ {k}, done \cup {k}, (intact \ Clobbered(k)) \cup WritesOf(k))
<1> DEFINE C == Clobbered(k)
           good == (intact \ C) \cup WritesOf(k)
<1>1. (run \ {k}) \cup (done \cup {k}) = run \cup done
  OBVIOUS
<1>2. \A x \in run \cup done : x \in Nat
  BY KernelKinds
<1>3. k \notin done /\ k \in Nat
  BY <1>2 DEF Ordered
<1>4. (run \ {k}) \cap (done \cup {k}) = {}
  BY DEF Ordered
<1>5. \A l \in run \ {k} : \A f \in done \cup {k} : l < f => ~Clash(l, f)
  BY DEF Ordered
<1>6. ASSUME NEW f \in done \cup {k}, NEW v \in WritesOf(f), v \notin good
      PROVE  \E x \in run \cup done : f < x /\ \E w \in WritesOf(x) : v # w /\ Touch(v, w)
  <2>1. f \in done /\ f # k
    BY <1>3, <1>6
  <2>2. CASE v \in C
    <3>1. PICK w \in WritesOf(k) : v # w /\ Touch(v, w) /\ Touch(w, v)
      BY <2>2 DEF Clobbered, Touch, Arena!Overlap
    <3>2. Clash(k, f)
      BY <3>1 DEF Clash
    <3>3. ~(k < f)
      BY <2>1, <3>2 DEF Ordered
    <3>4. f < k
      <4>1. f \in Nat
        BY <1>2, <2>1
      <4> QED
        BY <1>3, <2>1, <3>3, <4>1
    <3> QED
      BY <3>1, <3>4
  <2>3. CASE v \notin C
    BY <1>6, <2>1, <2>3 DEF Ordered
  <2> QED
    BY <2>2, <2>3
<1> HIDE DEF C, good
<1>7. Ordered(L, run \ {k}, done \cup {k}, good)
  <2>1. /\ Rising(L) /\ Guarded(L) /\ \A l \in run \ {k} : GuardedFrom(l, L)
        /\ \A l \in run \cup done : \A d \in KernelsIn(L) : l < d
        /\ \A l, m \in run \ {k} : l # m => ~Clash(l, m)
    BY DEF Ordered
  <2> QED
    BY <1>1, <1>4, <1>5, <1>6, <2>1 DEF Ordered
<1> QED
  BY <1>7 DEF C, good

\* A barrier that no running kernel has to end for.
LEMMA BarrierOrdered ==
  ASSUME NEW L \in Seq(Command), L # << >>, Head(L).op # "kernel", NEW run, NEW done,
         Ordered(L, run, done, intact),
         \A k \in run : Head(L).page \notin PagesOf(k)
  PROVE  Ordered(Tail(L), run, done, intact) /\ KernelsIn(Tail(L)) = KernelsIn(L)
<1> DEFINE T == Tail(L)
<1>1. /\ KernelsIn(L) = KernelsIn(T)
      /\ Rising(L) => Rising(T)
      /\ Guarded(L) => Guarded(T)
      /\ \A k \in run : GuardedFrom(k, L) => GuardedFrom(k, T)
  BY Shortened
<1> HIDE DEF T
<1>2. Ordered(T, run, done, intact)
  BY <1>1 DEF Ordered
<1> QED
  BY <1>1, <1>2 DEF T

\* One step of the GPU.
LEMMA GpuStepSound ==
  ASSUME Inv, ArenaSound, FrameSound, NEW q \in Queues, GpuStep(q)
  PROVE  FrameSound'
<1> DEFINE L    == queue["q0"]
           run  == running["q0"]
           c    == Head(L)
<1>1. UNCHANGED <<page, offset, task, prog, stage>>
  BY DEF GpuStep, arenaVars
<1>2. q = "q0" /\ stage = "run" /\ stage \in Live
  <2>1. queue[q] # << >> \/ running[q] # {}
    BY DEF GpuStep, StartKernel, EndKernel, Barrier, SignalFence, WaitFence
  <2> QED
    BY <2>1 DEF Inv, GpuLeads, Queues, Live
<1>3. /\ DOMAIN queue = Queues /\ DOMAIN running = Queues
      /\ L \in Seq(Command) /\ prog \in Programs /\ ArenaBuilt /\ stage # "arena"
  BY <1>2, LeadsStates DEF Inv, GpuLeads, ArenaBuilt
<1>4. /\ frame \in Nat /\ frame > 0 /\ Ordered(L, run, finished, intact)
      /\ run \cup finished \cup KernelsIn(L) = Replay!Kernels(prog)
  BY <1>2 DEF FrameSound
<1>5. L # << >> => c \in Command
  BY <1>3, Shortened
<1>6. /\ frame' = frame
      /\ Ordered(queue'["q0"], running'["q0"], finished', intact')
      /\ running'["q0"] \cup finished' \cup KernelsIn(queue'["q0"]) = Replay!Kernels(prog)
  <2>1. CASE StartKernel(q)
    <3>1. /\ L # << >> /\ c.op = "kernel" /\ UNCHANGED <<frame, finished>>
          /\ running' = [running EXCEPT !["q0"] = @ \cup {c.kernel}]
          /\ queue' = [queue EXCEPT !["q0"] = Tail(@)]
          /\ intact' = intact \ Clobbered(c.kernel)
      BY <1>2, <2>1 DEF StartKernel
    <3>2. running'["q0"] = run \cup {c.kernel} /\ queue'["q0"] = Tail(L)
      BY <1>3, <3>1 DEF Queues
    <3>3. finished \subseteq Nat
      BY <1>3, <1>4, KernelKinds
    <3>4. /\ Ordered(Tail(L), run \cup {c.kernel}, finished, intact \ Clobbered(c.kernel))
          /\ (run \cup {c.kernel}) \cup finished \cup KernelsIn(Tail(L)) = Replay!Kernels(prog)
      BY <1>3, <1>4, <3>1, <3>3, StartOrdered
    <3> QED
      BY <3>1, <3>2, <3>4
  <2>2. CASE EndKernel(q)
    <3>1. PICK k \in run : /\ running' = [running EXCEPT !["q0"] = @ \ {k}]
                           /\ intact' = (intact \ Clobbered(k)) \cup WritesOf(k)
                           /\ finished' = finished \cup {k}
      BY <1>2, <2>2 DEF EndKernel
    <3>2. UNCHANGED <<queue, frame>>
      BY <2>2 DEF EndKernel
    <3>3. running'["q0"] = run \ {k} /\ queue'["q0"] = L /\ frame' = frame
      BY <1>3, <3>1, <3>2 DEF Queues
    <3>4. Ordered(L, run \ {k}, finished \cup {k}, (intact \ Clobbered(k)) \cup WritesOf(k))
      <4>1. run \cup finished \subseteq Replay!Kernels(prog)
        BY <1>4
      <4> QED
        BY <1>3, <1>4, <4>1, EndOrdered
    <3>5. (run \ {k}) \cup (finished \cup {k}) = run \cup finished
      OBVIOUS
    <3> QED
      BY <1>4, <3>1, <3>3, <3>4, <3>5
  <2>3. CASE Barrier(q)
    <3>1. /\ L # << >> /\ c.op \in {"to", "uav"} /\ UNCHANGED <<frame, running, intact, finished>>
          /\ \A k \in run : c.page \notin PagesOf(k)
          /\ queue' = [queue EXCEPT !["q0"] = Tail(@)]
      BY <1>2, <2>3 DEF Barrier
    <3>2. queue'["q0"] = Tail(L)
      BY <1>3, <3>1 DEF Queues
    <3>3. Ordered(Tail(L), run, finished, intact) /\ KernelsIn(Tail(L)) = KernelsIn(L)
      BY <1>3, <1>4, <3>1, BarrierOrdered
    <3> QED
      BY <1>4, <3>1, <3>2, <3>3
  <2>4. CASE SignalFence(q) \/ WaitFence(q)
    <3>1. L # << >> /\ c.op \in {"signal", "wait"}
      BY <1>2, <2>4 DEF SignalFence, WaitFence
    <3> QED
      BY <1>5, <3>1, CommandKinds
  <2> QED
    BY <2>1, <2>2, <2>3, <2>4 DEF GpuStep
<1>7. Ordered(queue["q0"], running["q0"], finished, intact)'
  BY <1>1, <1>6, SameOrder
<1>8. Replay!Kernels(prog)' = Replay!Kernels(prog)
  BY <1>1, SameOrder
<1> QED
  BY <1>1, <1>2, <1>4, <1>6, <1>7, <1>8 DEF FrameSound, KernelsIn, Positions

\* The copy of the input, a barrier after it, and then the list.
LEMMA CopyOrdered ==
  ASSUME Inv, stage \in Live, NEW m \in Seq(Command), Whole(m)
  PROVE  LET in == page[prog.input]
             N  == <<To(in, "COMMON", "COPY_DEST"), Run(InputCopy), To(in, "COPY_DEST", "COMMON")>>
                     \o m
         IN  Rising(N) /\ Guarded(N) /\ KernelsIn(N) = Replay!Kernels(prog)
<1> DEFINE in   == page[prog.input]
           a    == To(in, "COMMON", "COPY_DEST")
           b    == Run(InputCopy)
           c    == To(in, "COPY_DEST", "COMMON")
           copy == <<a, b, c>>
           N    == copy \o m
           n    == Len(m)
<1>1. prog \in Programs /\ InputCopy = 0 /\ InputCopy \in Replay!Kernels(prog)
  BY KernelSet DEF Inv, ArenaBuilt, InputCopy, Replay!InputCopy
<1>2. in \in Pages /\ prog.input \in ArenaValues(prog)
  BY <1>1, ProgramFacts, PagesInUse DEF Inv, Live
<1>3. /\ a.op = "to" /\ b.op = "kernel" /\ b.kernel = InputCopy /\ c.op = "to" /\ c.page = in
      /\ a \in Command /\ b \in Command /\ c \in Command
  BY <1>1, <1>2 DEF To, Run, Command, PageStates
<1> HIDE DEF a, b, c
<1>4. /\ n \in Nat /\ Len(N) = n + 3 /\ N[1] = a /\ N[2] = b /\ N[3] = c
      /\ \A i \in 1 .. n : N[i + 3] = m[i]
  <2>1. copy \in Seq(Command) /\ Len(copy) = 3 /\ copy[1] = a /\ copy[2] = b /\ copy[3] = c
    BY <1>3
  <2> HIDE DEF copy
  <2> DEFINE k == Len(copy)
  <2>4. /\ N \in Seq(Command) /\ Len(N) = k + n /\ n \in Nat
        /\ \A i \in 1 .. k : N[i] = copy[i]
        /\ \A i \in 1 .. n : N[k + i] = m[i]
    BY <2>1, Joined
  <2> HIDE DEF N, n, k
  <2>5. k = 3
    BY <2>1 DEF k
  <2>2. /\ N \in Seq(Command) /\ Len(N) = 3 + n /\ n \in Nat
        /\ \A i \in 1 .. 3 : N[i] = copy[i]
        /\ \A i \in 1 .. n : N[3 + i] = m[i]
    BY <2>4, <2>5
  <2>3. \A i \in 1 .. n : i + 3 = 3 + i
    BY <2>2
  <2> QED
    BY <2>1, <2>2, <2>3
<1> HIDE DEF N, n
<1>5. \A j \in Positions(m) : j \in 1 .. n /\ j \in Nat /\ j + 3 \in Positions(N) /\ N[j + 3] = m[j]
  BY <1>4 DEF Positions, n
<1>6. 2 \in Positions(N) /\ N[2].kernel = InputCopy
  BY <1>3, <1>4 DEF Positions
<1>7. \A j \in Positions(N) : \/ j = 2
                             \/ /\ j - 3 \in Positions(m) /\ j > 3 /\ N[j] = m[j - 3]
                                /\ j \in Nat /\ j - 3 \in Nat
  <2> SUFFICES ASSUME NEW j \in Positions(N), j # 2
               PROVE  /\ j - 3 \in Positions(m) /\ j > 3 /\ N[j] = m[j - 3]
                      /\ j \in Nat /\ j - 3 \in Nat
    OBVIOUS
  <2>1. j \in 1 .. n + 3 /\ N[j].op = "kernel"
    BY <1>4 DEF Positions
  <2>2. j # 1 /\ j # 3
    BY <1>3, <1>4, <2>1
  <2>3. j - 3 \in 1 .. n /\ (j - 3) + 3 = j /\ j > 3
    BY <1>4, <2>1, <2>2
  <2>4. N[j] = m[j - 3]
    BY <1>4, <2>3
  <2> QED
    BY <2>1, <2>3, <2>4 DEF Positions, n
<1>8. KernelsIn(N) = {InputCopy} \cup KernelsIn(m)
  <2>1. ASSUME NEW x \in KernelsIn(m) PROVE x \in KernelsIn(N)
    BY <1>5 DEF KernelsIn
  <2>2. InputCopy \in KernelsIn(N)
    BY <1>6 DEF KernelsIn
  <2>3. ASSUME NEW x \in KernelsIn(N) PROVE x = InputCopy \/ x \in KernelsIn(m)
    BY <1>6, <1>7 DEF KernelsIn
  <2> QED
    BY <2>1, <2>2, <2>3
<1>9. KernelsIn(m) = Replay!Kernels(prog) \ {InputCopy} /\ Rising(m) /\ Guarded(m)
  BY DEF Whole
<1>10. \A x \in KernelsIn(m) : x > InputCopy
  <2> SUFFICES ASSUME NEW x \in KernelsIn(m) PROVE x > InputCopy
    OBVIOUS
  <2>1. x \in Nat /\ x # InputCopy
    BY <1>1, <1>9, KernelKinds
  <2> QED
    BY <1>1, <2>1
<1>11. Rising(N)
  <2> SUFFICES ASSUME NEW i \in Positions(N), NEW j \in Positions(N), i < j
               PROVE  N[i].kernel < N[j].kernel
    BY DEF Rising
  <2>1. /\ j - 3 \in Positions(m) /\ j > 3 /\ N[j] = m[j - 3]
        /\ j \in Nat /\ j - 3 \in Nat
    <3>1. i = 2 \/ (i > 3 /\ i \in Nat)
      BY <1>7
    <3>2. j # 2
      BY <3>1
    <3> QED
      BY <1>7, <3>2
  <2>2. CASE i = 2
    <3>1. N[j].kernel \in KernelsIn(m)
      BY <2>1 DEF KernelsIn
    <3>2. InputCopy < N[j].kernel
      BY <1>1, <1>9, <1>10, <3>1, KernelKinds
    <3> QED
      BY <1>6, <2>2, <3>2
  <2>3. CASE i # 2
    <3>1. i - 3 \in Positions(m) /\ N[i] = m[i - 3] /\ i - 3 \in Nat /\ i \in Nat
      BY <1>5, <1>7, <2>3
    <3>2. i - 3 < j - 3
      BY <2>1, <3>1
    <3> QED
      BY <1>9, <2>1, <3>1, <3>2 DEF Rising
  <2> QED
    BY <2>2, <2>3
<1>12. Guarded(N)
  <2> SUFFICES ASSUME NEW i \in Positions(N), NEW j \in Positions(N), i < j,
                      Clash(N[i].kernel, N[j].kernel)
               PROVE  Parted(N, i, j, N[i].kernel)
    BY DEF Guarded
  <2>1. /\ j - 3 \in Positions(m) /\ j > 3 /\ N[j] = m[j - 3]
        /\ j \in Nat /\ j - 3 \in Nat
    <3>1. i = 2 \/ (i > 3 /\ i \in Nat)
      BY <1>7
    <3>2. j # 2
      BY <3>1
    <3> QED
      BY <1>7, <3>2
  <2>2. CASE i = 2
    <3>1. in \in PagesOf(InputCopy)
      BY <1>1, KernelKinds DEF PagesOf
    <3>2. 3 \in i + 1 .. j - 1 /\ IsBarrier(N[3]) /\ N[3].page = in
      BY <1>3, <1>4, <2>1, <2>2 DEF IsBarrier
    <3> HIDE DEF in
    <3> QED
      BY <1>6, <2>2, <3>1, <3>2 DEF Parted
  <2>3. CASE i # 2
    <3>1. i - 3 \in Positions(m) /\ N[i] = m[i - 3] /\ i - 3 \in Nat /\ i > 3 /\ i \in Nat
      BY <1>5, <1>7, <2>3
    <3>2. i - 3 < j - 3
      BY <2>1, <3>1
    <3>3. Parted(m, i - 3, j - 3, N[i].kernel)
      BY <1>9, <2>1, <3>1, <3>2 DEF Guarded
    <3>4. PICK x \in (i - 3) + 1 .. (j - 3) - 1 : IsBarrier(m[x]) /\ m[x].page \in PagesOf(N[i].kernel)
      BY <3>3 DEF Parted
    <3>5. x \in 1 .. n /\ x + 3 \in i + 1 .. j - 1
      BY <1>4, <1>5, <2>1, <3>1, <3>4
    <3>6. N[x + 3] = m[x]
      BY <1>4, <3>5
    <3> QED
      BY <3>4, <3>5, <3>6 DEF Parted
  <2> QED
    BY <2>2, <2>3
<1>13. KernelsIn(N) = Replay!Kernels(prog)
  BY <1>1, <1>8, <1>9
<1> QED
  BY <1>11, <1>12, <1>13 DEF N, a, b, c

LEMMA SubmitSound ==
  ASSUME Inv, RecordingSound, FrameSound, Submit
  PROVE  FrameSound'
<1> DEFINE in   == page[prog.input]
           copy == <<To(in, "COMMON", "COPY_DEST"), Run(InputCopy), To(in, "COPY_DEST", "COMMON")>>
           m    == lists["main"]
           N    == copy \o m
<1>1. /\ stage = "submit" /\ stage \in Live /\ stage' = "run"
      /\ UNCHANGED <<page, offset, task, prog, running>>
      /\ frame' = frame + 1 /\ intact' = {} /\ finished' = {}
  BY DEF Submit, Live, arenaVars
<1>2. dual = FALSE /\ ready /\ Leads(m, AllCommon, AllCommon)
  BY <1>1 DEF Inv, RecordingLeads
<1>3. queue' = [q0 |-> copy \o m, q1 |-> << >>]
  BY <1>2 DEF Submit
<1>4. queue'["q0"] = N /\ running'["q0"] = {} /\ frame \in Nat
  BY <1>1, <1>3 DEF Inv, GpuLeads, FrameSound
<1>5. Whole(m) /\ m \in Seq(Command)
  BY <1>2, LeadsStates DEF RecordingSound
<1> HIDE DEF m
<1>6. Rising(N) /\ Guarded(N) /\ KernelsIn(N) = Replay!Kernels(prog)
  BY <1>1, <1>5, CopyOrdered
<1> HIDE DEF N
<1>7. Ordered(N, {}, {}, {})
  BY <1>6 DEF Ordered
<1>8. Ordered(queue'["q0"], running'["q0"], finished', intact')
  BY <1>1, <1>4, <1>7
<1>9. Ordered(queue["q0"], running["q0"], finished, intact)'
  BY <1>1, <1>8, SameOrder
<1>10. Replay!Kernels(prog)' = Replay!Kernels(prog)
  BY <1>1, SameOrder
<1>11. KernelsIn(queue'["q0"]) = Replay!Kernels(prog)
  BY <1>4, <1>6
<1>12. /\ frame' \in Nat /\ frame' > 0
       /\ running'["q0"] \cup finished' \cup KernelsIn(queue'["q0"]) =
            IF frame' = 0 THEN {} ELSE Replay!Kernels(prog)
  <2> HIDE DEF KernelsIn
  <2> QED
    BY <1>1, <1>4, <1>11
<1> QED
  BY <1>1, <1>9, <1>10, <1>12 DEF FrameSound, KernelsIn, Positions, Live

------------------------------------------------------------------------------
(* The theorems                                                              *)

DataInv == Inv /\ ArenaSound /\ PlanSound /\ RecordingSound /\ FrameSound

LEMMA DataBuilding ==
  ASSUME DataInv, PlaceValues \/ StartPlan \/ PlanBarriers \/ PlanOver \/ Load
  PROVE  ArenaSound' /\ PlanSound' /\ RecordingSound' /\ FrameSound'
<1>1. /\ UNCHANGED <<prog, window, ready, queue, running, frame, finished>>
      /\ stage \notin Live /\ stage' # "run" /\ stage' # "record"
  BY DEF PlaceValues, StartPlan, PlanBarriers, PlanOver, Load, recordVars, gpuVars, Live
<1>2. ready = FALSE
  BY <1>1 DEF DataInv, Inv, RecordingLeads
<1>3. RecordingSound' /\ FrameSound'
  BY <1>1, <1>2, RecordingSoundNone, FrameSoundNone DEF DataInv
<1>4. ArenaSound'
  <2>1. PlaceValues \/ UNCHANGED arenaVars
    BY DEF StartPlan, PlanBarriers, PlanOver, Load
  <2> QED
    BY <1>1, <2>1, ArenaSoundStep DEF DataInv
<1>5. PlanSound'
  <2>1. CASE StartPlan
    BY <2>1, PlanSoundStart DEF DataInv
  <2>2. CASE PlanBarriers
    BY <2>2, PlanSoundStep DEF DataInv
  <2>3. CASE PlaceValues \/ PlanOver \/ Load
    <3>1. /\ UNCHANGED planVars /\ UNCHANGED prog
          /\ stage' = "arena" => stage = "arena"
          /\ stage = "arena" => stage' = "arena"
          /\ stage' \in {"load"} \cup Live => stage = "load" \/ verdict = "planned"
      BY <2>3 DEF PlaceValues, PlanOver, Load, Live
    <3> QED
      BY <3>1, PlanSoundKept DEF DataInv
  <2> QED
    BY <2>1, <2>2, <2>3
<1> QED
  BY <1>3, <1>4, <1>5

\* A step of an engine in use.
LEMMA DataInUse ==
  ASSUME DataInv, stage \in Live, stage' \in Live, UNCHANGED <<arenaVars, planVars, prog, window>>
  PROVE  ArenaSound' /\ PlanSound'
<1>1. ArenaSound'
  BY ArenaSoundStep DEF DataInv
<1>2. PlanSound'
  <2>1. UNCHANGED <<planVars, prog>> /\ stage # "arena" /\ stage' # "arena"
    BY DEF Live
  <2> QED
    BY <2>1, PlanSoundKept DEF DataInv
<1> QED
  BY <1>1, <1>2

LEMMA DataRecording ==
  ASSUME OneQueue, DataInv,
         StartCall \/ RefuseBarrier \/ KernelFails \/ PlanMismatch \/ RecordDispatch \/ FinishRecording
  PROVE  ArenaSound' /\ PlanSound' /\ RecordingSound' /\ FrameSound'
<1>1. /\ UNCHANGED <<arenaVars, planVars, prog, window, gpuVars>>
      /\ stage \in Live /\ stage' \in Live /\ stage' # "run"
  <2>1. CASE StartCall
    BY <2>1 DEF StartCall, Live
  <2>2. CASE RecordDispatch \/ FinishRecording
    BY <2>2 DEF RecordDispatch, FinishRecording, Live
  <2>3. CASE RefuseBarrier \/ KernelFails \/ PlanMismatch
    <3>1. /\ UNCHANGED <<arenaVars, planVars, prog, window, gpuVars>>
          /\ stage = "record" /\ \E left : GiveUp(left)
      BY <2>3 DEF RefuseBarrier, KernelFails, PlanMismatch
    <3>2. stage' \in {"idle", "record"}
      BY <3>1 DEF GiveUp
    <3> QED
      BY <3>1, <3>2 DEF Live
  <2> QED
    BY <2>1, <2>2, <2>3
<1>2. ArenaSound' /\ PlanSound'
  BY <1>1, DataInUse
<1>3. FrameSound'
  <2>1. UNCHANGED <<page, offset, task, prog, queue, running, frame, intact, finished>>
    BY <1>1 DEF arenaVars, gpuVars
  <2> QED
    BY <1>1, <2>1, FrameSoundKept DEF DataInv
<1>4. RecordingSound'
  BY StartCallSound, FailingSound, RecordDispatchSound, FinishRecordingSound DEF DataInv
<1> QED
  BY <1>2, <1>3, <1>4

LEMMA DataRunning ==
  ASSUME DataInv, Submit \/ FrameDone \/ (\E q \in Queues : GpuStep(q))
  PROVE  ArenaSound' /\ PlanSound' /\ RecordingSound' /\ FrameSound'
<1>1. /\ UNCHANGED <<arenaVars, planVars, prog, window, recordVars>>
      /\ stage \in Live /\ stage' \in Live /\ stage' # "record"
  <2>1. CASE Submit \/ FrameDone
    BY <2>1 DEF Submit, FrameDone, Live
  <2>2. CASE \E q \in Queues : GpuStep(q)
    <3>1. PICK q \in Queues : GpuStep(q)
      BY <2>2
    <3>2. queue[q] # << >> \/ running[q] # {}
      BY <3>1 DEF GpuStep, StartKernel, EndKernel, Barrier, SignalFence, WaitFence
    <3>3. stage = "run"
      BY <3>2 DEF DataInv, Inv, GpuLeads, Queues
    <3> QED
      BY <3>1, <3>3 DEF GpuStep, Live
  <2> QED
    BY <2>1, <2>2
<1>2. ArenaSound' /\ PlanSound'
  BY <1>1, DataInUse
<1>3. UNCHANGED <<page, offset, task, prog, records, ready, todo, lists>>
  BY <1>1 DEF arenaVars, planVars, recordVars
<1>4. RecordingSound'
  BY <1>1, <1>3, RecordingSoundKept DEF DataInv
<1>5. FrameSound'
  <2>1. CASE Submit
    BY <2>1, SubmitSound DEF DataInv
  <2>2. CASE FrameDone
    <3>1. UNCHANGED <<queue, running, frame, intact, finished>> /\ stage' = "idle"
      BY <2>2 DEF FrameDone, gpuVars
    <3> QED
      BY <1>1, <1>3, <3>1, FrameSoundKept DEF DataInv
  <2>3. CASE \E q \in Queues : GpuStep(q)
    BY <2>3, GpuStepSound DEF DataInv
  <2> QED
    BY <2>1, <2>2, <2>3
<1> QED
  BY <1>2, <1>4, <1>5

LEMMA DataStutter ==
  ASSUME DataInv, UNCHANGED vars
  PROVE  ArenaSound' /\ PlanSound' /\ RecordingSound' /\ FrameSound'
<1>1. UNCHANGED <<arenaVars, planVars, prog, window, stage, recordVars, gpuVars>>
  BY DEF vars
<1>2. UNCHANGED <<page, offset, task, records, ready, todo, lists, queue, running, frame, intact,
                  finished>>
  BY <1>1 DEF arenaVars, planVars, recordVars, gpuVars
<1>3. ArenaSound'
  BY <1>1, ArenaSoundStep DEF DataInv
<1>4. PlanSound'
  BY <1>1, PlanSoundKept DEF DataInv
<1>5. RecordingSound'
  BY <1>1, <1>2, RecordingSoundKept DEF DataInv
<1>6. FrameSound'
  <2>1. CASE stage \in Live
    BY <1>1, <1>2, <2>1, FrameSoundKept DEF DataInv
  <2>2. CASE stage \notin Live
    <3>1. stage' # "run"
      BY <1>1, <2>2 DEF Live
    <3> QED
      BY <1>2, <2>2, <3>1, FrameSoundNone DEF DataInv
  <2> QED
    BY <2>1, <2>2
<1> QED
  BY <1>3, <1>4, <1>5, <1>6

\* On one queue, what is recorded keeps the kernels that share bytes apart, in
\* their order, and so does what the GPU has left of a frame.
THEOREM DataInvariant ==
  ASSUME OneQueue
  PROVE  Spec => []DataInv
<1>1. Init => DataInv
  BY InitInv, ArenaSoundInit, PlanSoundInit, RecordingSoundInit, FrameSoundInit DEF DataInv
<1>2. Inv /\ DataInv /\ Inv' /\ [Next]_vars => DataInv'
  <2> SUFFICES ASSUME DataInv, Inv', [Next]_vars
               PROVE  ArenaSound' /\ PlanSound' /\ RecordingSound' /\ FrameSound'
    BY DEF DataInv
  <2>1. CASE PlaceValues \/ StartPlan \/ PlanBarriers \/ PlanOver \/ Load
    BY <2>1, DataBuilding
  <2>2. CASE \/ StartCall \/ RefuseBarrier \/ KernelFails \/ PlanMismatch \/ RecordDispatch
             \/ FinishRecording
    BY <2>2, DataRecording
  <2>3. CASE Submit \/ FrameDone \/ (\E q \in Queues : GpuStep(q))
    BY <2>3, DataRunning
  <2>4. CASE UNCHANGED vars
    BY <2>4, DataStutter
  <2> QED
    BY <2>1, <2>2, <2>3, <2>4 DEF Next, Host
<1> QED
  BY <1>1, <1>2, ReplayInvariant, PTL DEF Spec

\* A running kernel, and where the results it reads come from.
LEMMA MakerEnded ==
  ASSUME DataInv, NEW q \in Queues, NEW k \in running[q],
         NEW m \in Replay!Kernels(prog), m < k, NEW v \in ReadsOf(k), v \in WritesOf(m)
  PROVE  m \in finished
<1>1. q = "q0" /\ stage = "run" /\ prog \in Programs /\ ArenaBuilt /\ stage # "arena"
  BY DEF DataInv, Inv, ArenaBuilt, GpuLeads, Queues
<1>2. /\ Ordered(queue["q0"], running["q0"], finished, intact)
      /\ running["q0"] \cup finished \cup KernelsIn(queue["q0"]) = Replay!Kernels(prog)
  BY <1>1 DEF DataInv, FrameSound, Live
<1>3. k \in Nat /\ m \in Nat /\ k \in Replay!Kernels(prog)
  BY <1>1, <1>2, KernelKinds
<1>4. m \notin KernelsIn(queue["q0"])
  <2>1. ~(k < m)
    BY <1>3
  <2> QED
    BY <1>1, <1>2, <2>1 DEF Ordered
<1>5. m \notin running["q0"]
  <2>1. Touch(v, v)
    BY <1>1, <1>3, KernelLives, TouchFacts DEF DataInv
  <2>2. Clash(m, k)
    BY <2>1 DEF Clash
  <2>3. m # k
    BY <1>3
  <2> QED
    BY <1>1, <1>2, <2>2, <2>3 DEF Ordered
<1> QED
  BY <1>2, <1>4, <1>5

LEMMA InputsIntact ==
  ASSUME DataInv, NEW q \in Queues, NEW k \in running[q], NEW v \in ReadsOf(k)
  PROVE  v \in intact
<1>1. q = "q0" /\ stage = "run" /\ prog \in Programs /\ ArenaBuilt /\ stage # "arena"
  BY DEF DataInv, Inv, ArenaBuilt, GpuLeads, Queues
<1>2. /\ Ordered(queue["q0"], running["q0"], finished, intact)
      /\ running["q0"] \cup finished \cup KernelsIn(queue["q0"]) = Replay!Kernels(prog)
      /\ Finds(k, gpu)
  BY <1>1 DEF DataInv, FrameSound, Live, Inv, GpuLeads
<1>3. k \in Replay!Kernels(prog) /\ k \in Nat
  BY <1>1, <1>2, KernelKinds
<1>4. PICK m \in Replay!Kernels(prog) : m < k /\ v \in WritesOf(m)
  BY <1>1, <1>3, ReadsMade
<1>5. m \in finished
  BY <1>4, MakerEnded
<1> SUFFICES ASSUME v \notin intact PROVE FALSE
  OBVIOUS
<1>6. PICK x \in running["q0"] \cup finished : m < x /\ \E w \in WritesOf(x) : v # w /\ Touch(v, w)
  BY <1>2, <1>4, <1>5 DEF Ordered
<1>7. PICK w \in WritesOf(x) : v # w /\ Touch(v, w)
  BY <1>6
<1>8. x \in Replay!Kernels(prog) /\ x \in Nat
  BY <1>1, <1>2, KernelKinds
<1>9. CASE x = k
  <2>1. page[v] = page[w]
    BY <1>7 DEF Touch
  <2> QED
    BY <1>2, <1>9, <2>1 DEF Finds, WriteState
<1>10. CASE k < x
  <2>1. Clash(k, x)
    BY <1>7 DEF Clash
  <2>2. x # k
    BY <1>3, <1>10
  <2> QED
    BY <1>1, <1>2, <1>10, <2>1, <2>2 DEF Ordered
<1>11. CASE x < k
  <2>1. /\ Rank(m) \in Int /\ Rank(x) \in Int /\ Rank(k) \in Int
        /\ Rank(m) < Rank(x) /\ Rank(x) < Rank(k)
    BY <1>1, <1>3, <1>4, <1>6, <1>8, <1>11, RankRises
  <2>2. /\ v \in ArenaValues(prog) /\ w \in ArenaValues(prog)
        /\ StartOf(prog, v) = Rank(m) + 1 /\ StartOf(prog, w) = Rank(x) + 1
        /\ Rank(k) + 1 <= EndOf(prog, v)
    BY <1>1, <1>3, <1>4, <1>7, <1>8, KernelLives
  <2>3. EndOf(prog, v) \in Nat /\ EndOf(prog, w) \in Nat /\ StartOf(prog, w) <= EndOf(prog, w)
    BY <1>1, <2>2, EndFacts
  <2>4. EndOf(prog, v) <= StartOf(prog, w) \/ EndOf(prog, w) <= StartOf(prog, v)
    BY <1>1, <1>7, <2>2, TouchFacts DEF DataInv
  <2> QED
    BY <2>1, <2>2, <2>3, <2>4
<1> QED
  BY <1>3, <1>8, <1>9, <1>10, <1>11

\* On one queue, for every program, arena and order in which the GPU runs what
\* it may: while a kernel runs, the bytes of all it reads hold the results of
\* this frame, as no other kernel has overwritten them (memory_v2.py:371-376,
\* engine.py:234-237).
THEOREM InputsAreThisFrames ==
  ASSUME OneQueue
  PROVE  Spec => []KernelsReadTheirInputs
<1>1. DataInv => KernelsReadTheirInputs
  BY InputsIntact DEF KernelsReadTheirInputs
<1> QED
  BY <1>1, DataInvariant, PTL

LEMMA ReplayInit == Init => Replay!Init
BY DEF Init, Replay!Init

LEMMA ReplayStep ==
  ASSUME OneQueue, DataInv, [Next]_vars
  PROVE  Replay!NextFrame \/ Replay!RunKernel \/ UNCHANGED <<prog, frame, finished>>
<1>1. CASE UNCHANGED vars
  BY <1>1 DEF vars, gpuVars
<1>2. CASE \/ PlaceValues \/ StartPlan \/ PlanBarriers \/ PlanOver \/ Load \/ StartCall
           \/ RecordDispatch \/ FinishRecording \/ FrameDone
  BY <1>2 DEF PlaceValues, StartPlan, PlanBarriers, PlanOver, Load, StartCall, RecordDispatch,
     FinishRecording, FrameDone, gpuVars
<1>3. CASE RefuseBarrier \/ KernelFails \/ PlanMismatch
  BY <1>3 DEF RefuseBarrier, KernelFails, PlanMismatch, gpuVars
<1>4. CASE Submit
  <2>1. /\ stage = "submit" /\ frame' = frame + 1 /\ finished' = {} /\ prog' = prog
    BY <1>4 DEF Submit
  <2>2. queue["q0"] = << >> /\ running["q0"] = {}
    BY <2>1 DEF DataInv, Inv, GpuLeads
  <2>3. finished = IF frame = 0 THEN {} ELSE Replay!Kernels(prog)
    <3>1. KernelsIn(<< >>) = {}
      BY EmptyList
    <3> QED
      BY <2>1, <2>2, <3>1 DEF DataInv, FrameSound, Live
  <2> QED
    BY <2>1, <2>3 DEF Replay!NextFrame
<1>5. ASSUME NEW q \in Queues, GpuStep(q)
      PROVE  Replay!RunKernel \/ UNCHANGED <<prog, frame, finished>>
  <2>1. UNCHANGED <<prog, frame>>
    BY <1>5 DEF GpuStep, StartKernel, EndKernel, Barrier, SignalFence, WaitFence
  <2>2. CASE StartKernel(q) \/ Barrier(q) \/ SignalFence(q) \/ WaitFence(q)
    BY <2>1, <2>2 DEF StartKernel, Barrier, SignalFence, WaitFence
  <2>3. CASE EndKernel(q)
    <3>1. PICK k \in running[q] : finished' = finished \cup {k}
      BY <2>3 DEF EndKernel
    <3>2. q = "q0" /\ stage = "run" /\ prog \in Programs
      BY <3>1 DEF DataInv, Inv, ArenaBuilt, GpuLeads, Queues
    <3>3. /\ frame > 0 /\ frame \in Nat /\ running["q0"] \cap finished = {}
          /\ running["q0"] \cup finished \cup KernelsIn(queue["q0"]) = Replay!Kernels(prog)
      BY <3>2 DEF DataInv, FrameSound, Live, Ordered
    <3>4. k \in Replay!Kernels(prog) \ finished
      BY <3>1, <3>2, <3>3
    <3>5. Replay!Needs(prog, k) \subseteq finished
      <4> SUFFICES ASSUME NEW m \in Replay!Needs(prog, k) PROVE m \in finished
        OBVIOUS
      <4>1. /\ m \in Replay!Kernels(prog) /\ m < k
            /\ \E v \in ReadsOf(k) : v \in WritesOf(m)
        BY <3>2, <3>4, NeedsRead
      <4> QED
        BY <4>1, MakerEnded
    <3> QED
      BY <2>1, <3>1, <3>3, <3>4, <3>5 DEF Replay!RunKernel
  <2> QED
    BY <1>5, <2>2, <2>3 DEF GpuStep
<1> QED
  BY <1>1, <1>2, <1>3, <1>4, <1>5 DEF Next, Host

\* On one queue, an engine replayed is what replaying promises: every frame runs
\* the copy, every kernel once after those it needs, and the next frame starts
\* when all are done (aexrt_d3d12_runtime.cpp:29864-29932).
THEOREM ReplayImplements ==
  ASSUME OneQueue
  PROVE  Spec => RefinesReplay
<1>1. DataInv /\ [Next]_vars =>
        [Replay!NextFrame \/ Replay!RunKernel]_<<prog, frame, finished>>
  BY ReplayStep
<1> QED
  BY <1>1, ReplayInit, DataInvariant, PTL DEF Spec, RefinesReplay, Replay!Spec
------------------------------------------------------------------------------
(* The recorder takes the plan                                               *)

\* The two faults PlanIsRecordable allows for: a hoist ahead of the fork's own
\* kernel, which writes its page, and a failed recording that put a hoist off.
Excused ==
  \E r \in {x \in records : x.step = "fork"} :
    \/ r \notin LateAt(r.dispatch) /\ \E v \in KernelWrites(prog, r.dispatch) : page[v] = r.page
    \/ r \in LateAt(r.dispatch) /\ faults > 0

NeedSound == stage # "arena" => PlanFacts!NeedInv

\* Without such a fault no recording is refused, and one under way has left
\* each page where the plan has it after the n dispatches recorded.
RecordingFits ==
  /\ stage \notin Live => ~broken /\ deferred = {}
  /\ stage \in Live /\ ~Excused =>
       /\ ~broken /\ deferred = {}
       /\ stage = "record" =>
            \E n \in Nat : /\ n + Len(todo) = Len(prog.plan)
                           /\ \A i \in 1 .. Len(todo) : todo[i].at = n + i
                           /\ \A g \in Pages : PlanFacts!Stands(g, tracked[g], n + 1)

FitInv == NeedSound /\ RecordingFits /\ faults \in Nat


\* Two transitions cannot both be the last: where a page stands is one state.
LEMMA StandsOnce ==
  ASSUME Inv, PlanSound, stage \in Live, NEW g, NEW d \in Nat, NEW s, NEW t,
         PlanFacts!Stands(g, s, d), PlanFacts!Stands(g, t, d)
  PROVE  s = t
<1>1. /\ \A r \in records : r.dispatch \in Nat /\ r.step \in {"access", "fork"}
      /\ \A q, r \in records :
           q.dispatch = r.dispatch /\ q.page = r.page /\ q.step = r.step => q = r
  BY DEF Inv, PlanBuilt
<1>2. \A q, r \in records :
        q.page = r.page /\ ~PlanFacts!Later(q, r) /\ ~PlanFacts!Later(r, q) => q = r
  BY <1>1 DEF PlanFacts!Later
<1> DEFINE Latest(r, x) ==
             /\ r.page = g /\ r.kind = x /\ PlanFacts!IsTransition(r) /\ r.dispatch < d
             /\ \A q \in records :
                  q.page = g /\ PlanFacts!IsTransition(q) /\ q.dispatch < d => ~PlanFacts!Later(q, r)
           None == \A q \in records : q.page = g /\ PlanFacts!IsTransition(q) => q.dispatch >= d
<1>3. \A x : PlanFacts!Stands(g, x, d) =>
        (x = "COMMON" /\ None) \/ \E r \in records : Latest(r, x)
  BY DEF PlanFacts!Stands
<1>4. (\E r \in records, x \in {s, t} : Latest(r, x)) => ~None
  BY <1>1
<1>5. \A q, r \in records : Latest(q, s) /\ Latest(r, t) => q = r
  BY <1>2
<1> QED
  BY <1>3, <1>4, <1>5

\* What the plan of a live engine is known to be.
LEMMA PlanOfEngine ==
  ASSUME Inv, PlanSound, NeedSound, stage \in Live
  PROVE  /\ PlanFacts!IInv /\ PlanFacts!NeedInv
         /\ \A r \in records :
              /\ r.dispatch \in Nat /\ r.dispatch > 0 /\ r.page \in Pages
              /\ r.kind \in {"SRV", "UAV", "REUSE"} /\ r.step \in {"access", "fork"}
              /\ r.step = "fork" => r.kind = "SRV"
         /\ \A r, s \in records :
              r.dispatch = s.dispatch /\ r.page = s.page /\ r.step = s.step => r = s
<1>1. stage # "arena"
  BY DEF Live
<1>2. PlanFacts!IInv /\ PlanFacts!NeedInv
  BY <1>1 DEF PlanSound, NeedSound
<1>3. \A r \in records : r.dispatch \in 1 .. next - 1
  BY <1>2 DEF PlanFacts!IInv, PlanFacts!TypeOK
<1>4. next \in Nat
  BY DEF Inv, PlanBuilt
<1>5. \A r \in records : r.dispatch \in Nat /\ r.dispatch > 0
  BY <1>3, <1>4
<1> QED
  BY <1>2, <1>5 DEF Inv, PlanBuilt, PlanSound

\* Where the recording stands before dispatch d, as the plan has it.
AtDispatch(d) == \A g \in Pages : PlanFacts!Stands(g, tracked[g], d)

\* No barrier ahead of a dispatch is refused.
LEMMA NoneRefused ==
  ASSUME Inv, PlanSound, NeedSound, stage \in Live, NEW d \in Nat, AtDispatch(d),
         NEW r \in Ahead(d)
  PROVE  ~Refused(r)
<1>1. r \in records /\ r.dispatch = d /\ r \notin LateAt(d)
  BY DEF Ahead, RecordsAt
<1>2. /\ r.page \in Pages /\ r.kind \in {"SRV", "UAV", "REUSE"} /\ r.step \in {"access", "fork"}
      /\ r.step = "fork" => r.kind = "SRV"
      /\ PlanFacts!Needed(r)
  BY <1>1, PlanOfEngine DEF PlanFacts!NeedInv
<1>3. \A s : PlanFacts!Stands(r.page, s, d) => s = tracked[r.page]
  BY <1>2, StandsOnce DEF AtDispatch
<1>4. CASE r.step = "access"
  BY <1>1, <1>2, <1>3, <1>4 DEF PlanFacts!Needed, PlanFacts!IsTransition, Refused
<1>5. CASE r.step = "fork"
  <2>1. \A q \in records : q.step = "access" /\ q.page = r.page => q.dispatch # r.dispatch
    BY <1>1, <1>5 DEF LateAt, RecordsAt
  <2> QED
    BY <1>1, <1>2, <1>3, <1>5, <2>1 DEF PlanFacts!Needed, Refused
<1> QED
  BY <1>2, <1>4, <1>5

\* After the barriers ahead of dispatch d a page is where the kernel needs it,
\* unless the kernel writes it and a hoist came first.
LEMMA AheadGives ==
  ASSUME Inv, PlanSound, NeedSound, stage \in Live, NEW d \in Nat, AtDispatch(d), tracked \in States,
         NEW g \in Pages, NEW s \in {"SRV", "UAV"}, PlanFacts!InState(g, s, d),
         s = "SRV" \/ ~\E r \in Ahead(d) : r.page = g /\ r.step = "fork"
  PROVE  After(Ahead(d), tracked)[g] = s
<1> DEFINE now == After(Ahead(d), tracked)
<1>1. PICK x \in records :
        /\ x.page = g /\ x.kind = s /\ PlanFacts!Before(x, d)
        /\ \A q \in records : q.page = g /\ PlanFacts!IsTransition(q) /\ PlanFacts!Before(q, d)
                                => ~PlanFacts!Later(q, x)
  BY DEF PlanFacts!InState
<1>2. /\ \A r \in records :
           /\ r.dispatch \in Nat /\ r.kind \in {"SRV", "UAV", "REUSE"} /\ r.step \in {"access", "fork"}
           /\ r.step = "fork" => r.kind = "SRV"
      /\ \A r, q \in records :
           r.dispatch = q.dispatch /\ r.page = q.page /\ r.step = q.step => r = q
  BY PlanOfEngine
<1>3. \A r \in Ahead(d) : r \in records /\ r.dispatch = d
  BY DEF Ahead, RecordsAt
<1>4. \A r \in records : r.dispatch = d /\ r.step = "access" => r \in Ahead(d)
  BY DEF Ahead, RecordsAt, LateAt
<1>5. /\ \A r \in Ahead(d) : r.page = g => now[g] = IF r.kind = "REUSE" THEN tracked[g] ELSE r.kind
      /\ (\A r \in Ahead(d) : r.page # g) => now[g] = tracked[g]
  BY RecordsApart, KindsOnPage
<1> HIDE DEF now
<1>6. x.dispatch < d => tracked[g] = s
  <2> SUFFICES ASSUME x.dispatch < d PROVE tracked[g] = s
    OBVIOUS
  <2>1. \A q \in records : q.page = g /\ PlanFacts!IsTransition(q) /\ q.dispatch < d => ~PlanFacts!Later(q, x)
    BY <1>1 DEF PlanFacts!Before
  <2>2. PlanFacts!Stands(g, s, d)
    BY <1>1, <2>1 DEF PlanFacts!Stands, PlanFacts!IsTransition
  <2>3. PlanFacts!Stands(g, tracked[g], d)
    BY DEF AtDispatch
  <2> QED
    BY <2>2, <2>3, StandsOnce
<1>7. x.dispatch < d \/ (x.dispatch = d /\ x.step = "access")
  BY <1>1 DEF PlanFacts!Before
<1>8. CASE \E r \in Ahead(d) : r.page = g
  <2>1. PICK r \in Ahead(d) : r.page = g
    BY <1>8
  <2>2. r \in records /\ r.dispatch = d /\ now[g] = IF r.kind = "REUSE" THEN tracked[g] ELSE r.kind
    BY <1>3, <1>5, <2>1
  <2>3. CASE r.step = "fork"
    BY <1>2, <2>1, <2>2, <2>3 DEF now
  <2>4. CASE r.step = "access" /\ r.kind = "REUSE"
    <3>1. x.dispatch < d
      BY <1>1, <1>2, <1>7, <2>1, <2>2, <2>4
    <3> QED
      BY <1>6, <2>2, <2>4, <3>1 DEF now
  <2>5. CASE r.step = "access" /\ r.kind # "REUSE"
    <3>1. PlanFacts!IsTransition(r) /\ PlanFacts!Before(r, d)
      BY <1>2, <2>2, <2>5 DEF PlanFacts!IsTransition, PlanFacts!Before
    <3>2. ~PlanFacts!Later(r, x)
      BY <1>1, <2>1, <2>2, <3>1
    <3>3. x = r
      BY <1>1, <1>2, <1>7, <2>1, <2>2, <2>5, <3>2 DEF PlanFacts!Later
    <3> QED
      BY <1>1, <2>2, <2>5, <3>3 DEF now
  <2> QED
    BY <1>2, <2>2, <2>3, <2>4, <2>5
<1>9. CASE \A r \in Ahead(d) : r.page # g
  <2>1. x.dispatch < d
    BY <1>1, <1>4, <1>7, <1>9
  <2> QED
    BY <1>5, <1>6, <1>9, <2>1 DEF now
<1> QED
  BY <1>8, <1>9


\* A hoist ahead of the kernel of dispatch d that writes its page is a fault.
LEMMA NoHoistAhead ==
  ASSUME ~Excused, NEW d, NEW r \in Ahead(d), r.step = "fork", NEW v \in KernelWrites(prog, d),
         page[v] = r.page
  PROVE  FALSE
<1>1. r \in records /\ r.dispatch = d /\ r \notin LateAt(r.dispatch)
  BY DEF Ahead, RecordsAt
<1> QED
  BY <1>1 DEF Excused

\* A kernel whose barriers are recorded finds its pages.
LEMMA NoMismatch ==
  ASSUME DataInv, NeedSound, stage \in Live, NEW d \in Dispatches(prog), AtDispatch(d), ~Excused
  PROVE  ~Mismatch(d, After(Ahead(d), tracked))
<1> DEFINE now == After(Ahead(d), tracked)
<1>1. /\ Inv /\ PlanSound /\ tracked \in States /\ stage # "arena" /\ prog \in Programs
      /\ d \in 1 .. Len(prog.plan) /\ d \in Nat
      /\ next = Len(prog.plan) + 1 /\ Len(prog.plan) \in Nat
  <2>1. Inv /\ PlanSound /\ tracked \in States /\ stage # "arena" /\ prog \in Programs
    BY DEF DataInv, Inv, ArenaBuilt, RecordingLeads, Live
  <2>2. d \in 1 .. Len(prog.plan) /\ Len(prog.plan) \in Nat
    BY <2>1, ProgramFacts
  <2>3. next = Len(prog.plan) + 1
    BY <2>1 DEF PlanSound
  <2> QED
    BY <2>1, <2>2, <2>3
<1>2. /\ job = BarrierJob(prog, window, page, offset)
      /\ DOMAIN page = ArenaValues(prog) /\ \A v \in ArenaValues(prog) : page[v] \in Pages
  BY <1>1, PagesInUse DEF Inv, PlanBuilt
<1>3. /\ job.reads[d] = KernelReads(prog, d) /\ job.writes[d] = KernelWrites(prog, d)
      /\ DOMAIN job.where = ArenaValues(prog)
      /\ \A v \in ArenaValues(prog) : job.where[v].page = page[v]
  BY <1>1, <1>2 DEF BarrierJob
<1>4. KernelReads(prog, d) \subseteq ArenaValues(prog) /\ KernelWrites(prog, d) \subseteq ArenaValues(prog)
  BY DEF KernelReads, KernelWrites
<1>5. PlanFacts!Pages = Pages
  BY <1>2, <1>3 DEF PlanFacts!Pages, Pages
<1>6. d \in 1 .. next - 1 /\ PlanFacts!KernelsFindTheirState
  BY <1>1, PlanOfEngine DEF PlanFacts!IInv
<1>7. ASSUME NEW v \in KernelReads(prog, d)
      PROVE  now[page[v]] = "SRV"
  <2> DEFINE g == page[v]
  <2>1. v \in PlanFacts!Reads(d, g) /\ g \in Pages
    BY <1>2, <1>3, <1>4 DEF PlanFacts!Reads, PlanFacts!ValuesOn
  <2>2. PlanFacts!InState(g, "SRV", d)
    BY <1>5, <1>6, <2>1 DEF PlanFacts!KernelsFindTheirState
  <2> QED
    BY <1>1, <2>1, <2>2, AheadGives
<1>8. ASSUME NEW v \in KernelWrites(prog, d)
      PROVE  now[page[v]] = "UAV"
  <2> DEFINE g == page[v]
  <2>1. v \in PlanFacts!Writes(d, g) /\ g \in Pages
    BY <1>2, <1>3, <1>4 DEF PlanFacts!Writes, PlanFacts!ValuesOn
  <2>2. PlanFacts!InState(g, "UAV", d)
    BY <1>5, <1>6, <2>1 DEF PlanFacts!KernelsFindTheirState
  <2>3. ~\E r \in Ahead(d) : r.page = g /\ r.step = "fork"
    BY NoHoistAhead
  <2> QED
    BY <1>1, <2>1, <2>2, <2>3, AheadGives
<1> QED
  BY <1>7, <1>8 DEF Mismatch

\* Recording dispatch d leaves each page where it stands before the next one.
LEMMA DispatchStands ==
  ASSUME Inv, PlanSound, NeedSound, stage \in Live, NEW d \in Nat, AtDispatch(d), tracked \in States,
         NEW g \in Pages, NEW now, now = After(Ahead(d), tracked),
         NEW due, due = {r \in LateAt(d) : now[r.page] # "SRV"}
  PROVE  PlanFacts!Stands(g, After(due, now)[g], d + 1)
<1> DEFINE then == After(due, now)
<1> SUFFICES PlanFacts!Stands(g, then[g], d + 1)
  OBVIOUS
<1>1. /\ \A r \in records :
           /\ r.dispatch \in Nat /\ r.page \in Pages
           /\ r.kind \in {"SRV", "UAV", "REUSE"} /\ r.step \in {"access", "fork"}
           /\ r.step = "fork" => r.kind = "SRV"
      /\ \A r, q \in records :
           r.dispatch = q.dispatch /\ r.page = q.page /\ r.step = q.step => r = q
  BY PlanOfEngine
<1>2. \A r \in LateAt(d) : r \in records /\ r.dispatch = d /\ r.step = "fork"
  BY DEF LateAt, RecordsAt
<1>3. \A r \in records : r.dispatch = d => r \in Ahead(d) \/ r \in LateAt(d)
  BY DEF Ahead, RecordsAt
<1>4. \A r \in Ahead(d) : r \in records /\ r.dispatch = d /\ r \notin LateAt(d)
  BY DEF Ahead, RecordsAt
<1>5. OnePerPage(Ahead(d)) /\ now \in States
  BY RecordsApart, KindsOnPage
<1>6. OnePerPage(due)
  BY <1>1, <1>2 DEF OnePerPage, PageStates
<1>7. /\ \A r \in Ahead(d) : r.page = g => now[g] = IF r.kind = "REUSE" THEN tracked[g] ELSE r.kind
      /\ (\A r \in Ahead(d) : r.page # g) => now[g] = tracked[g]
  BY <1>5, KindsOnPage
<1>8. /\ \A r \in due : r.page = g => then[g] = IF r.kind = "REUSE" THEN now[g] ELSE r.kind
      /\ (\A r \in due : r.page # g) => then[g] = now[g]
  <2>1. now \in States /\ OnePerPage(due) /\ g \in Pages
    BY <1>5, <1>6
  <2>2. \A p \in Pages : (\A r \in due : r.page # p) => After(due, now)[p] = now[p]
    BY ONLY <2>1, KindsOnPage
  <2>3. \A r \in due : After(due, now)[r.page] = IF r.kind = "REUSE" THEN now[r.page] ELSE r.kind
    BY ONLY <2>1, KindsOnPage
  <2> QED
    BY <2>1, <2>2, <2>3
<1>9. due = {r \in LateAt(d) : now[r.page] # "SRV"}
  OBVIOUS
<1> HIDE DEF then
<1>10. ASSUME NEW x \in records, x.page = g, PlanFacts!IsTransition(x), x.dispatch = d,
              x.kind = then[g], \A q \in records : q.page = g /\ q.dispatch = d => ~PlanFacts!Later(q, x)
       PROVE  PlanFacts!Stands(g, then[g], d + 1)
  <2>1. x.dispatch < d + 1 /\ \A q \in records : q.dispatch < d + 1 => q.dispatch <= d
    BY <1>1, <1>10
  <2>2. \A q \in records : q.dispatch < d => ~PlanFacts!Later(q, x)
    BY <1>1, <1>10 DEF PlanFacts!Later
  <2>3. \A q \in records : q.page = g /\ q.dispatch < d + 1 => ~PlanFacts!Later(q, x)
    BY <1>1, <1>10, <2>1, <2>2
  <2> QED
    BY <1>10, <2>1, <2>3 DEF PlanFacts!Stands
<1>11. CASE \E r \in LateAt(d) : r.page = g
  <2>1. PICK r \in LateAt(d) : r.page = g
    BY <1>11
  <2>2. r \in records /\ r.dispatch = d /\ r.step = "fork" /\ r.kind = "SRV"
    BY <1>1, <1>2, <2>1
  <2>3. then[g] = "SRV"
    <3>1. CASE r \in due
      BY <1>8, <2>1, <2>2, <3>1
    <3>2. CASE r \notin due
      <4>1. now[g] = "SRV"
        BY <1>9, <2>1, <3>2
      <4>2. \A q \in due : q.page # g
        BY <1>1, <1>2, <2>1, <2>2, <3>2
      <4> QED
        BY <1>8, <4>1, <4>2
    <3> QED
      BY <3>1, <3>2
  <2>4. \A q \in records : q.page = g /\ q.dispatch = d => ~PlanFacts!Later(q, r)
    BY <1>1, <2>2 DEF PlanFacts!Later
  <2>5. PlanFacts!IsTransition(r)
    BY <2>2 DEF PlanFacts!IsTransition
  <2> QED
    BY <1>10, <2>1, <2>2, <2>3, <2>4, <2>5
<1>12. CASE \A r \in LateAt(d) : r.page # g
  <2>1. then[g] = now[g]
    BY <1>8, <1>9, <1>12
  <2>2. CASE \E r \in Ahead(d) : r.page = g /\ PlanFacts!IsTransition(r)
    <3>1. PICK r \in Ahead(d) : r.page = g /\ PlanFacts!IsTransition(r)
      BY <2>2
    <3>2. r \in records /\ r.dispatch = d
      BY <1>4, <3>1
    <3>3. then[g] = r.kind
      BY <1>7, <2>1, <3>1 DEF PlanFacts!IsTransition
    <3>4. \A q \in records : q.page = g /\ q.dispatch = d => q = r
      BY <1>3, <1>5, <1>12, <3>1 DEF OnePerPage
    <3>5. \A q \in records : q.page = g /\ q.dispatch = d => ~PlanFacts!Later(q, r)
      BY <1>1, <3>2, <3>4 DEF PlanFacts!Later
    <3> QED
      BY <1>10, <3>1, <3>2, <3>3, <3>5
  <2>3. CASE \A r \in Ahead(d) : r.page = g => ~PlanFacts!IsTransition(r)
    <3>1. then[g] = tracked[g]
      <4>1. \A r \in Ahead(d) : r.page = g => r.kind = "REUSE"
        BY <1>1, <1>4, <2>3 DEF PlanFacts!IsTransition
      <4> QED
        BY <1>7, <2>1, <4>1
    <3>2. \A q \in records : q.page = g /\ PlanFacts!IsTransition(q) => q.dispatch # d
      BY <1>3, <1>12, <2>3
    <3>3. \A q \in records : q.page = g /\ PlanFacts!IsTransition(q) =>
            /\ q.dispatch >= d => q.dispatch >= d + 1
            /\ q.dispatch < d + 1 => q.dispatch < d
            /\ q.dispatch < d => q.dispatch < d + 1
      BY <1>1, <3>2
    <3>4. PlanFacts!Stands(g, tracked[g], d)
      BY DEF AtDispatch
    <3>5. PlanFacts!Stands(g, tracked[g], d + 1)
      BY <3>3, <3>4 DEF PlanFacts!Stands
    <3> QED
      BY <3>1, <3>5
  <2> QED
    BY <2>2, <2>3
<1> QED
  BY <1>11, <1>12


\* What the plan and the pages say does not change with the rest.
LEMMA SameFit ==
  ASSUME UNCHANGED <<page, prog, records, job>>
  PROVE  /\ Pages' = Pages
         /\ \A g, s, d : PlanFacts!Stands(g, s, d) => PlanFacts!Stands(g, s, d)'
         /\ \A d : LateAt(d)' = LateAt(d)
         /\ faults \in Nat /\ faults' \in Nat /\ faults' >= faults /\ Excused => Excused'
<1>1. Pages' = Pages
  BY DEF Pages
<1>2. \A g, s, d : PlanFacts!Stands(g, s, d) => PlanFacts!Stands(g, s, d)'
  BY DEF PlanFacts!Stands, PlanFacts!IsTransition, PlanFacts!Later
<1>3. \A d : LateAt(d)' = LateAt(d)
  BY DEF LateAt, RecordsAt
<1>4. ASSUME faults \in Nat, faults' \in Nat, faults' >= faults, Excused
      PROVE  Excused'
  <2>1. PICK r \in {x \in records : x.step = "fork"} :
          \/ r \notin LateAt(r.dispatch) /\ \E v \in KernelWrites(prog, r.dispatch) : page[v] = r.page
          \/ r \in LateAt(r.dispatch) /\ faults > 0
    BY <1>4 DEF Excused
  <2>2. r \in {x \in records' : x.step = "fork"}
    BY <2>1
  <2>3. faults > 0 => faults' > 0
    BY <1>4
  <2>4. \/ r \notin LateAt(r.dispatch)' /\ \E v \in KernelWrites(prog', r.dispatch) : page'[v] = r.page
        \/ r \in LateAt(r.dispatch)' /\ faults' > 0
    BY <1>3, <2>1, <2>3
  <2> QED
    BY <2>2, <2>4 DEF Excused
<1> QED
  BY <1>1, <1>2, <1>3, <1>4

\* No barrier is planned before the barriers are.
LEMMA FitInit == Init => FitInv
BY DEF Init, FitInv, NeedSound, RecordingFits, Live

\* Every barrier stays needed, in every step of the engine.
LEMMA NeedSoundStep ==
  ASSUME DataInv, NeedSound, [Next]_vars
  PROVE  NeedSound'
<1>1. CASE StartPlan
  <2>1. /\ stage = "arena" /\ records' = records /\ state' = [g \in Pages |-> "COMMON"]
        /\ job' = BarrierJob(prog, window, page, offset)
    BY <1>1 DEF StartPlan
  <2>2. records' = {} /\ DOMAIN page = ArenaValues(prog)
    BY <1>1, <2>1 DEF DataInv, PlanSound, Inv, ArenaBuilt, StartPlan
  <2>3. DOMAIN job'.where = DOMAIN page /\ \A v \in DOMAIN page : job'.where[v].page = page[v]
    BY <2>1, <2>2 DEF BarrierJob
  <2>4. PlanFacts!Pages' = Pages
    BY <2>3 DEF Pages, PlanFacts!Pages
  <2>5. \A p \in PlanFacts!Pages' : state'[p] = "COMMON"
    BY <2>1, <2>4
  <2> QED
    BY <2>2, <2>5 DEF NeedSound, PlanFacts!NeedInv, PlanFacts!Stands
<1>2. CASE PlanBarriers
  <2>1. stage = "barriers" /\ Plan!Next
    BY <1>2 DEF PlanBarriers
  <2>2. PlanFacts!IInv /\ PlanFacts!NeedInv /\ PlanFacts!Next
    BY <2>1, SamePlan DEF DataInv, PlanSound, NeedSound
  <2>3. PlanFacts!NeedInv'
    BY <2>2, PlanFacts!NeedsNext, ReplayAssumption
  <2> QED
    BY <2>3 DEF NeedSound
<1>3. CASE UNCHANGED planVars /\ (stage' # "arena" => stage # "arena")
  <2>1. UNCHANGED <<job, next, state, pending, records, verdict>>
    BY <1>3 DEF planVars
  <2>2. CASE stage = "arena"
    BY <1>3, <2>2 DEF NeedSound
  <2>3. CASE stage # "arena"
    <3>1. PlanFacts!IInv /\ PlanFacts!NeedInv
      BY <2>3 DEF DataInv, PlanSound, NeedSound
    <3>2. UNCHANGED PlanFacts!barrierVars
      BY <2>1 DEF PlanFacts!barrierVars
    <3>3. PlanFacts!NeedInv'
      BY <3>1, <3>2, PlanFacts!NeedsNext, ReplayAssumption
    <3> QED
      BY <3>3 DEF NeedSound
  <2> QED
    BY <2>2, <2>3
<1>4. (UNCHANGED planVars /\ (stage' # "arena" => stage # "arena")) \/ StartPlan \/ PlanBarriers
  <2>1. CASE PlaceValues \/ PlanOver \/ Load
    BY <2>1 DEF PlaceValues, PlanOver, Load
  <2>2. CASE StartCall \/ RecordDispatch \/ FinishRecording \/ Submit \/ FrameDone
    <3>1. CASE StartCall
      BY <3>1 DEF StartCall
    <3>2. CASE RecordDispatch
      BY <3>2 DEF RecordDispatch
    <3>3. CASE FinishRecording
      <4>1. UNCHANGED planVars /\ stage = "record" /\ stage' = "submit"
        BY ONLY <3>3, Zenon DEF FinishRecording
      <4> QED
        BY <4>1
    <3>4. CASE Submit \/ FrameDone
      BY <3>4 DEF Submit, FrameDone
    <3> QED
      BY <2>2, <3>1, <3>2, <3>3, <3>4
  <2>3. CASE RefuseBarrier \/ KernelFails \/ PlanMismatch
    BY <2>3 DEF RefuseBarrier, KernelFails, PlanMismatch
  <2>4. CASE \E q \in Queues : GpuStep(q)
    BY <2>4 DEF GpuStep
  <2>5. CASE UNCHANGED vars
    BY <2>5 DEF vars
  <2> QED
    BY <2>1, <2>2, <2>3, <2>4, <2>5 DEF Next, Host
<1> QED
  BY <1>1, <1>2, <1>3, <1>4

\* Building the engine records nothing.
LEMMA FitBuilding ==
  ASSUME FitInv, PlaceValues \/ StartPlan \/ PlanBarriers \/ PlanOver \/ Load
  PROVE  RecordingFits' /\ faults' \in Nat
<1>1. /\ stage \notin Live /\ broken' = broken /\ faults' = faults /\ deferred' \in {deferred, {}}
      /\ stage' # "record"
  BY DEF PlaceValues, StartPlan, PlanBarriers, PlanOver, Load, recordVars, Live
<1>2. ~broken /\ deferred = {}
  BY <1>1 DEF FitInv, RecordingFits
<1> QED
  BY <1>1, <1>2 DEF FitInv, RecordingFits

\* The steps of a live engine that neither record nor fail.
LEMMA FitKept ==
  ASSUME FitInv, stage \in Live, stage' \in Live, stage' # "record",
         UNCHANGED <<page, prog, records, job, broken, deferred, faults>>
  PROVE  RecordingFits' /\ faults' \in Nat
<1>1. ~Excused' => ~broken /\ deferred = {}
  <2>1. Excused => Excused'
    BY SameFit DEF FitInv
  <2> QED
    BY <2>1 DEF FitInv, RecordingFits
<1> QED
  BY <1>1 DEF RecordingFits, FitInv

\* A recording starts at the first dispatch with every page COMMON.
LEMMA FitStart ==
  ASSUME OneQueue, DataInv, FitInv, StartCall
  PROVE  RecordingFits' /\ faults' \in Nat
<1> DEFINE N == Len(prog.plan)
           D == Dispatches(prog)
<1>1. /\ stage = "idle" /\ stage' = IF ready THEN "submit" ELSE "record"
      /\ UNCHANGED <<page, prog, records, job, broken, deferred, faults, tracked>>
      /\ stage \in Live /\ stage' \in Live
  BY DEF StartCall, arenaVars, planVars, Live
<1>2. CASE ready
  BY <1>1, <1>2, FitKept
<1>3. CASE ~ready
  <2>1. N \in Nat /\ D = 1 .. N
    BY ProgramFacts DEF DataInv, Inv, ArenaBuilt
  <2>2. todo' = [i \in 1 .. Cardinality(D) |-> [list |-> "main", at |-> InOrder(D)[i]]]
    BY <1>3, NoDual DEF StartCall, DataInv, Inv, Agenda
  <2>3. Cardinality(D) = N /\ InOrder(D) = [i \in 1 .. N |-> i]
    BY <2>1, InOrderUpTo
  <2>4. todo' = [i \in 1 .. N |-> [list |-> "main", at |-> i]]
    BY <2>2, <2>3
  <2> HIDE DEF N, D
  <2>5. 0 + Len(todo') = N /\ \A i \in 1 .. Len(todo') : todo'[i].at = 0 + i
    BY <2>1, <2>4
  <2>6. tracked = AllCommon
    BY <1>1 DEF DataInv, Inv, RecordingLeads
  <2>7. \A g \in Pages : PlanFacts!Stands(g, tracked[g], 0 + 1)
    <3>1. \A q \in records : q.dispatch >= 1
      BY <1>1, PlanOfEngine DEF DataInv, FitInv
    <3> QED
      BY <2>6, <3>1 DEF AllCommon, PlanFacts!Stands
  <2>8. \A g \in Pages' : PlanFacts!Stands(g, tracked[g], 0 + 1)'
    <3>1. Pages' = Pages /\ tracked' = tracked
      BY <1>1, SameFit
    <3>2. \A g, s, d : PlanFacts!Stands(g, s, d) => PlanFacts!Stands(g, s, d)'
      BY <1>1, SameFit
    <3> SUFFICES ASSUME NEW g \in Pages PROVE PlanFacts!Stands(g, tracked[g], 0 + 1)'
      BY <3>1
    <3>3. PICK s : s = tracked[g]
      OBVIOUS
    <3>4. PlanFacts!Stands(g, s, 0 + 1)'
      BY <2>7, <3>2, <3>3
    <3> QED
      BY <3>1, <3>3, <3>4 DEF PlanFacts!Stands
  <2>9. N = Len(prog'.plan)
    BY <1>1 DEF N
  <2>10. ~Excused' => ~broken' /\ deferred' = {}
    <3>1. Excused => Excused'
      BY <1>1, SameFit DEF FitInv
    <3> QED
      BY <1>1, <3>1 DEF FitInv, RecordingFits
  <2>11. \E n \in Nat : /\ n + Len(todo') = Len(prog'.plan)
                        /\ \A i \in 1 .. Len(todo') : todo'[i].at = n + i
                        /\ \A g \in Pages' : PlanFacts!Stands(g, tracked[g], n + 1)'
    BY <2>5, <2>8, <2>9
  <2> QED
    BY <1>1, <2>10, <2>11 DEF RecordingFits, FitInv
<1> QED
  BY <1>2, <1>3

\* The head of an agenda that goes through the dispatches n + 1 .. N.
LEMMA AgendaHead ==
  ASSUME NEW D, todo \in Seq([list : {"main"}, at : D]), todo # << >>, NEW n \in Nat, NEW N \in Nat,
         n + Len(todo) = N, \A i \in 1 .. Len(todo) : todo[i].at = n + i
  PROVE  /\ Head(todo).at = n + 1 /\ Head(todo).at \in D
         /\ (n + 1) + Len(Tail(todo)) = N
         /\ \A i \in 1 .. Len(Tail(todo)) : Tail(todo)[i].at = (n + 1) + i
<1> DEFINE E == [list : {"main"}, at : D]
           T == Tail(todo)
<1>1. todo \in Seq(E) /\ todo # << >>
  OBVIOUS
<1> HIDE DEF E
<1>2. /\ Head(todo) \in E /\ Head(todo) = todo[1] /\ 1 \in 1 .. Len(todo)
      /\ Len(T) = Len(todo) - 1 /\ Len(todo) \in Nat
      /\ \A i \in 1 .. Len(T) : T[i] = todo[i + 1] /\ i + 1 \in 1 .. Len(todo)
  BY <1>1
<1>3. (n + 1) + Len(T) = N
  <2>3. Len(todo) \in Nat
    BY <1>2
  <2>1. PICK a \in Nat : a = Len(todo)
    BY ONLY <2>3
  <2>2. n + a = N /\ Len(T) = a - 1
    BY <1>2, <2>1
  <2>4. (n + 1) + (a - 1) = N
    BY <2>2
  <2> QED
    BY <2>2, <2>4
<1> HIDE DEF T
<1>4. ASSUME NEW i \in 1 .. Len(T) PROVE T[i].at = (n + 1) + i
  <2>1. T[i] = todo[i + 1] /\ i + 1 \in 1 .. Len(todo)
    BY <1>2
  <2>2. todo[i + 1].at = n + (i + 1)
    BY <2>1
  <2> QED
    BY <2>1, <2>2
<1> QED
  BY <1>2, <1>3, <1>4 DEF E, T

\* A recording under way and without a fault stands where the plan has it.
LEMMA FitsAtHead ==
  ASSUME DataInv, FitInv, stage = "record", todo # << >>, ~Excused
  PROVE  \E n \in Nat :
           /\ Head(todo).at = n + 1 /\ Head(todo).at \in Dispatches(prog)
           /\ (n + 1) + Len(Tail(todo)) = Len(prog.plan)
           /\ \A i \in 1 .. Len(Tail(todo)) : Tail(todo)[i].at = (n + 1) + i
           /\ AtDispatch(n + 1)
<1>1. stage \in Live /\ todo \in Seq([list : {"main"}, at : Dispatches(prog)])
  BY DEF Live, DataInv, Inv, RecordingLeads
<1>2. PICK n \in Nat : /\ n + Len(todo) = Len(prog.plan)
                       /\ \A i \in 1 .. Len(todo) : todo[i].at = n + i
                       /\ \A g \in Pages : PlanFacts!Stands(g, tracked[g], n + 1)
  BY <1>1 DEF FitInv, RecordingFits
<1>3. Len(prog.plan) \in Nat
  BY ProgramFacts DEF DataInv, Inv, ArenaBuilt
<1>4. /\ Head(todo).at = n + 1 /\ Head(todo).at \in Dispatches(prog)
      /\ (n + 1) + Len(Tail(todo)) = Len(prog.plan)
      /\ \A i \in 1 .. Len(Tail(todo)) : Tail(todo)[i].at = (n + 1) + i
  BY <1>1, <1>2, <1>3, AgendaHead
<1> QED
  BY <1>2, <1>4 DEF AtDispatch

\* The recorder refuses nothing unless there is a fault.
LEMMA FitFailing ==
  ASSUME DataInv, FitInv, RefuseBarrier \/ KernelFails \/ PlanMismatch
  PROVE  RecordingFits' /\ faults' \in Nat
<1>1. /\ stage = "record" /\ stage \in Live /\ todo # << >> /\ \E left : GiveUp(left)
      /\ UNCHANGED <<page, prog, records, job>>
      /\ faults' \in {faults, faults + 1}
  BY DEF RefuseBarrier, KernelFails, PlanMismatch, Live, arenaVars, planVars
<1>2. faults \in Nat /\ faults' \in Nat /\ faults' >= faults
  BY <1>1 DEF FitInv
<1>3. Excused => Excused'
  BY <1>1, <1>2, SameFit
<1>4. stage' = "idle" /\ stage' \in Live
  BY <1>1 DEF GiveUp, DataInv, Inv, RecordingLeads, Live
<1>5. CASE Excused
  BY <1>2, <1>3, <1>4, <1>5 DEF RecordingFits
<1>6. CASE ~Excused
  <2>1. ~broken /\ deferred = {}
    BY <1>1, <1>6 DEF FitInv, RecordingFits
  <2>2. PICK n \in Nat : /\ Head(todo).at = n + 1 /\ Head(todo).at \in Dispatches(prog)
                         /\ AtDispatch(n + 1)
    BY <1>1, <1>6, FitsAtHead
  <2> DEFINE d == Head(todo).at
  <2>3. Inv /\ PlanSound /\ NeedSound /\ d \in Nat /\ AtDispatch(d)
    BY <2>2 DEF DataInv, FitInv
  <2>4. \A r \in Ahead(d) : ~Refused(r)
    BY <1>1, <2>3, NoneRefused
  <2>5. ~Mismatch(d, After(Ahead(d), tracked))
    BY <1>1, <1>6, <2>2, <2>3, NoMismatch
  <2>6. KernelFails
    BY <2>4, <2>5 DEF RefuseBarrier, PlanMismatch
  <2>7. GiveUp(deferred \cup LateAt(d)) /\ faults' = faults + 1 /\ broken' = broken
    BY <2>6 DEF KernelFails
  <2>8. deferred' = LateAt(d)
    BY <2>1, <2>7 DEF GiveUp
  <2>9. LateAt(d) # {} => Excused'
    <3> SUFFICES ASSUME NEW r \in LateAt(d) PROVE Excused'
      OBVIOUS
    <3>1. r \in records /\ r.dispatch = d /\ r.step = "fork"
      BY DEF LateAt, RecordsAt
    <3>2. r \in LateAt(r.dispatch)' /\ r \in records'
      BY <1>1, <3>1, SameFit
    <3>3. faults' > 0
      BY <1>2, <2>7
    <3> QED
      BY <3>1, <3>2, <3>3 DEF Excused
  <2> QED
    BY <1>2, <1>4, <2>1, <2>7, <2>8, <2>9 DEF RecordingFits
<1> QED
  BY <1>5, <1>6

\* Recording a dispatch leaves the pages where the plan has them after it.
LEMMA FitDispatch ==
  ASSUME DataInv, FitInv, RecordDispatch
  PROVE  RecordingFits' /\ faults' \in Nat
<1> DEFINE d == Head(todo).at
<1>1. /\ stage = "record" /\ stage \in Live /\ stage' = stage /\ todo # << >>
      /\ UNCHANGED <<page, prog, records, job, broken, faults>>
      /\ deferred' = {} /\ todo' = Tail(todo)
      /\ tracked' = After(HoistsDue(After(Ahead(d), tracked)), After(Ahead(d), tracked))
  BY DEF RecordDispatch, Live, arenaVars, planVars
<1>2. faults \in Nat /\ faults' \in Nat /\ faults' >= faults
  BY <1>1 DEF FitInv
<1>3. Excused => Excused'
  BY <1>1, <1>2, SameFit
<1>4. CASE Excused
  BY <1>1, <1>2, <1>3, <1>4 DEF RecordingFits
<1>5. CASE ~Excused
  <2>1. ~broken /\ deferred = {}
    BY <1>1, <1>5 DEF FitInv, RecordingFits
  <2>2. PICK n \in Nat : /\ d = n + 1
                         /\ (n + 1) + Len(Tail(todo)) = Len(prog.plan)
                         /\ \A i \in 1 .. Len(Tail(todo)) : Tail(todo)[i].at = (n + 1) + i
                         /\ AtDispatch(n + 1)
    BY <1>1, <1>5, FitsAtHead
  <2>3. Inv /\ PlanSound /\ NeedSound /\ d \in Nat /\ AtDispatch(d) /\ tracked \in States
    BY <1>1, <2>2 DEF DataInv, FitInv, Inv, RecordingLeads
  <2>4. PICK now : now = After(Ahead(d), tracked)
    OBVIOUS
  <2>5. PICK due : due = {r \in LateAt(d) : now[r.page] # "SRV"}
    OBVIOUS
  <2>6. tracked' = After(due, now)
    BY <1>1, <2>1, <2>4, <2>5 DEF HoistsDue
  <2>7. ASSUME NEW g \in Pages
        PROVE  PlanFacts!Stands(g, tracked'[g], d + 1)
    BY <1>1, <2>3, <2>4, <2>5, <2>6, DispatchStands
  <2>8. \A g \in Pages' : PlanFacts!Stands(g, tracked[g], (n + 1) + 1)'
    <3>1. Pages' = Pages /\ \A g, s, x : PlanFacts!Stands(g, s, x) => PlanFacts!Stands(g, s, x)'
      BY <1>1, SameFit
    <3> SUFFICES ASSUME NEW g \in Pages PROVE PlanFacts!Stands(g, tracked[g], (n + 1) + 1)'
      BY <3>1
    <3>2. PICK s : s = tracked'[g]
      OBVIOUS
    <3>3. PlanFacts!Stands(g, s, (n + 1) + 1)
      BY <2>2, <2>7, <3>2
    <3>4. PlanFacts!Stands(g, s, (n + 1) + 1)'
      BY <3>1, <3>3
    <3> QED
      BY <3>2, <3>4 DEF PlanFacts!Stands
  <2>9. \E m \in Nat : /\ m + Len(todo') = Len(prog'.plan)
                       /\ \A i \in 1 .. Len(todo') : todo'[i].at = m + i
                       /\ \A g \in Pages' : PlanFacts!Stands(g, tracked[g], m + 1)'
    <3>1. n + 1 \in Nat
      OBVIOUS
    <3> QED
      BY <1>1, <2>2, <2>8, <3>1
  <2> QED
    BY <1>1, <1>2, <2>1, <2>9 DEF RecordingFits
<1> QED
  BY <1>4, <1>5

\* For every program and every arena, with one queue: the plan the compiler
\* made is recorded without a refusal, but for the two faults named.
THEOREM PlanIsTaken ==
  ASSUME OneQueue
  PROVE  Spec => []PlanIsRecordable
<1>1. Init => FitInv
  BY FitInit
<1>2. DataInv /\ FitInv /\ [Next]_vars => FitInv'
  <2> SUFFICES ASSUME DataInv, FitInv, [Next]_vars PROVE RecordingFits' /\ faults' \in Nat
    BY NeedSoundStep DEF FitInv
  <2>1. CASE PlaceValues \/ StartPlan \/ PlanBarriers \/ PlanOver \/ Load
    BY <2>1, FitBuilding
  <2>2. CASE StartCall
    BY <2>2, FitStart
  <2>3. CASE RefuseBarrier \/ KernelFails \/ PlanMismatch
    BY <2>3, FitFailing
  <2>4. CASE RecordDispatch
    BY <2>4, FitDispatch
  <2>5. CASE FinishRecording \/ Submit \/ FrameDone
    <3>1. /\ stage \in Live /\ stage' \in Live /\ stage' # "record"
          /\ UNCHANGED <<page, prog, records, job, broken, deferred, faults>>
      <4>1. CASE FinishRecording
        <5>1. /\ UNCHANGED <<arenaVars, planVars, prog, deferred, broken, faults>>
              /\ stage = "record" /\ stage' = "submit"
          BY ONLY <4>1, Zenon DEF FinishRecording
        <5> QED
          BY <5>1 DEF Live, arenaVars, planVars
      <4>2. CASE Submit
        BY <4>2 DEF Submit, Live, arenaVars, planVars, recordVars
      <4>3. CASE FrameDone
        BY <4>3 DEF FrameDone, Live, arenaVars, planVars, recordVars
      <4> QED
        BY <2>5, <4>1, <4>2, <4>3
    <3> QED
      BY <3>1, FitKept
  <2>6. CASE (\E q \in Queues : GpuStep(q)) \/ UNCHANGED vars
    <3>1. /\ stage' = stage
          /\ UNCHANGED <<page, prog, records, job, broken, deferred, faults, todo, tracked>>
      BY <2>6 DEF GpuStep, vars, arenaVars, planVars, recordVars
    <3>2. /\ Pages' = Pages /\ (Excused => Excused')
          /\ \A g, s, d : PlanFacts!Stands(g, s, d) => PlanFacts!Stands(g, s, d)'
      BY <3>1, SameFit DEF FitInv
    <3>3. ASSUME NEW n, \A g \in Pages : PlanFacts!Stands(g, tracked[g], n + 1)
          PROVE  \A g \in Pages' : PlanFacts!Stands(g, tracked[g], n + 1)'
      BY <3>1, <3>2, <3>3 DEF PlanFacts!Stands, PlanFacts!IsTransition, PlanFacts!Later
    <3> HIDE DEF Excused
    <3> QED
      BY <3>1, <3>2, <3>3 DEF FitInv, RecordingFits
  <2> QED
    BY <2>1, <2>2, <2>3, <2>4, <2>5, <2>6 DEF Next, Host
<1>3. FitInv => PlanIsRecordable
  BY DEF FitInv, RecordingFits, PlanIsRecordable, Excused
<1> QED
  BY <1>1, <1>2, <1>3, DataInvariant, PTL DEF Spec


------------------------------------------------------------------------------
(* The engine is accepted                                                    *)

\* Of several arena values one dispatch writes, each is read by another dispatch
\* or is the output.
SiblingsRead ==
  \A p \in Programs : \A d \in Dispatches(p) : \A v, w \in KernelWrites(p, d) :
     v # w => v = Canonical(p)[p.output] \/ \E e \in Dispatches(p) : v \in External(p, e)

\* A value that is read lives past the stage that writes it.
LEMMA ReadLives ==
  ASSUME NEW p \in Programs, NEW d \in Dispatches(p), NEW v \in KernelWrites(p, d),
         v = Canonical(p)[p.output] \/ \E e \in Dispatches(p) : v \in External(p, e)
  PROVE  StartOf(p, v) = Stage(p, d) + 1 /\ StartOf(p, v) < EndOf(p, v)
<1>1. v \in Materialized(p, d) /\ v \in ArenaValues(p)
  BY DEF KernelWrites
<1>2. StartOf(p, v) = Stage(p, d) + 1 /\ Material(p, d) # {}
  BY <1>1, StartFacts
<1>3. Stage(p, d) \in Nat /\ StageCount(p) \in Nat /\ Stage(p, d) <= StageCount(p)
  BY StageFacts
<1>4. EndOf(p, v) \in Nat
  BY <1>1, EndFacts
<1>5. CASE v = Canonical(p)[p.output]
  <2>1. StageCount(p) + 2 <= EndOf(p, v)
    BY <1>1, <1>5, EndFacts
  <2> QED
    BY <1>2, <1>3, <1>4, <2>1
<1>6. CASE \E e \in Dispatches(p) : v \in External(p, e)
  <2>1. PICK e \in Dispatches(p) : v \in External(p, e)
    BY <1>6
  <2>2. d \in Producers(p, v)
    BY <1>1, ReplayAssumption DEF WellFormed, Producers
  <2>3. v \notin p.consts /\ v # p.input
    BY <2>2, ReplayAssumption DEF WellFormed
  <2>4. d < e
    BY <2>1, <2>2, <2>3, ExternalMade
  <2>5. Stage(p, d) < Stage(p, e) /\ Stage(p, e) \in Nat
    BY <1>2, <2>4, StageFacts
  <2>6. Stage(p, e) + 1 <= EndOf(p, v)
    BY <1>1, <2>1, EndFacts
  <2> QED
    BY <1>2, <1>3, <1>4, <2>5, <2>6
<1> QED
  BY <1>5, <1>6

\* No dispatch reads and writes one page.
LEMMA NeverSimultaneous ==
  ASSUME Inv, ArenaSound, stage = "barriers", NEW d \in Dispatches(prog),
         NEW v \in KernelReads(prog, d), NEW w \in KernelWrites(prog, d)
  PROVE  page[v] # page[w]
<1>1. /\ task = ArenaTask(prog, Hub(prog, window)) /\ ArenaFacts!IInv /\ prog \in Programs
      /\ phase = "done"
  BY DEF ArenaSound, Inv, ArenaBuilt
<1> DEFINE V == ArenaValues(prog)
<1>2. /\ task.values = V /\ task.input \subseteq {prog.input}
      /\ task.adj = [x \in V |-> {y \in V : \/ Conflicting(prog, Hub(prog, window), x, y)
                                            \/ Conflicting(prog, Hub(prog, window), y, x)}]
  BY <1>1 DEF ArenaTask
<1>3. v \in V /\ w \in V /\ v \in External(prog, d) /\ w \in Materialized(prog, d)
  BY DEF KernelReads, KernelWrites
<1>4. w \in Produced(prog, d) /\ v # w
  BY <1>1, <1>3, ReplayAssumption DEF WellFormed, External
<1>5. Conflicting(prog, Hub(prog, window), w, v)
  BY <1>3, <1>4 DEF Conflicting
<1>6. v \in task.adj[w]
  BY <1>2, <1>3, <1>5
<1>7. DOMAIN page = V /\ DOMAIN color = V
  BY <1>1, <1>2 DEF ArenaFacts!IInv, ArenaFacts!PhaseInv
<1>8. ASSUME page[v] = page[w] PROVE FALSE
  <2>1. /\ ArenaFacts!Key(v) \in DOMAIN remap /\ page[v] = remap[ArenaFacts!Key(v)]
        /\ ArenaFacts!Key(w) \in DOMAIN remap /\ page[w] = remap[ArenaFacts!Key(w)]
    BY <1>1, <1>3, <1>7 DEF ArenaFacts!IInv, ArenaFacts!RemapInv
  <2>2. ArenaFacts!Key(v) = ArenaFacts!Key(w)
    BY <1>1, <1>8, <2>1 DEF ArenaFacts!IInv, ArenaFacts!RemapInv
  <2>3. color[v] = color[w]
    BY <2>2 DEF ArenaFacts!Key
  <2>4. w = v \/ {w, v} \subseteq task.input
    BY <1>1, <1>3, <1>6, <1>7, <2>3 DEF ArenaFacts!IInv, ArenaFacts!ColorInv
  <2> QED
    BY <1>2, <1>4, <2>4
<1> QED
  BY <1>8

\* No dispatch writes two values to the same bytes.
LEMMA NeverOverlapping ==
  ASSUME SiblingsRead, Inv, ArenaSound, stage = "barriers", NEW d \in Dispatches(prog),
         NEW v \in KernelWrites(prog, d), NEW w \in KernelWrites(prog, d), v # w
  PROVE  ~Touch(v, w)
<1>1. ArenaBuilt /\ prog \in Programs /\ stage # "arena"
  BY DEF Inv, ArenaBuilt
<1>2. /\ v = Canonical(prog)[prog.output] \/ \E e \in Dispatches(prog) : v \in External(prog, e)
      /\ w = Canonical(prog)[prog.output] \/ \E e \in Dispatches(prog) : w \in External(prog, e)
  BY <1>1 DEF SiblingsRead
<1>3. StartOf(prog, v) = Stage(prog, d) + 1 /\ StartOf(prog, v) < EndOf(prog, v)
  BY <1>1, <1>2, ReadLives
<1>4. StartOf(prog, w) = Stage(prog, d) + 1 /\ StartOf(prog, w) < EndOf(prog, w)
  BY <1>1, <1>2, ReadLives
<1>5. v \in ArenaValues(prog) /\ w \in ArenaValues(prog)
  BY DEF KernelWrites
<1>6. EndOf(prog, v) \in Nat /\ EndOf(prog, w) \in Nat /\ Stage(prog, d) \in Nat
  BY <1>1, <1>5, EndFacts, StageFacts
<1>7. Touch(v, w) => \/ EndOf(prog, v) <= StartOf(prog, w)
                     \/ EndOf(prog, w) <= StartOf(prog, v)
  BY <1>1, <1>5, TouchFacts
<1> QED
  BY <1>3, <1>4, <1>6, <1>7

\* The compiler's plan of the barriers raises no error.
LEMMA NeverRejected ==
  ASSUME SiblingsRead, DataInv, stage = "barriers"
  PROVE  ~Plan!RejectDispatch
<1>1. Inv /\ ArenaSound /\ ArenaBuilt /\ stage # "arena"
  BY DEF DataInv, Inv
<1>2. /\ job = BarrierJob(prog, window, page, offset)
      /\ DOMAIN page = ArenaValues(prog) /\ next \in Nat /\ next > 0
  BY <1>1, PagesInUse DEF Inv, PlanBuilt
<1>3. Len(prog.plan) \in Nat /\ Dispatches(prog) = 1 .. Len(prog.plan)
  BY <1>1, ProgramFacts DEF ArenaBuilt
<1>4. /\ job.reads = [d \in Dispatches(prog) |-> KernelReads(prog, d)]
      /\ job.writes = [d \in Dispatches(prog) |-> KernelWrites(prog, d)]
      /\ job.where = [v \in ArenaValues(prog) |-> [page |-> page[v], lo |-> offset[v],
                                                    hi |-> offset[v] + prog.size[v]]]
  BY <1>2 DEF BarrierJob
<1> SUFFICES ASSUME next <= Plan!Count PROVE ~Plan!Simultaneous(next) /\ ~Plan!SelfOverlap(next)
  BY DEF Plan!RejectDispatch
<1>5. next \in Dispatches(prog)
  <2>1. Plan!Count = Len(prog.plan)
    BY <1>3, <1>4 DEF Plan!Count
  <2> QED
    BY <1>2, <1>3, <2>1
<1>6. job.reads[next] = KernelReads(prog, next) /\ job.writes[next] = KernelWrites(prog, next)
  BY <1>4, <1>5
<1>7. ASSUME NEW g, Plan!Reads(next, g) # {}, Plan!Writes(next, g) # {}
      PROVE  FALSE
  <2>1. PICK v \in Plan!Reads(next, g), w \in Plan!Writes(next, g) : TRUE
    BY <1>7
  <2>2. v \in KernelReads(prog, next) /\ w \in KernelWrites(prog, next)
    BY <1>6, <2>1 DEF Plan!Reads, Plan!Writes
  <2>3. page[v] = g /\ page[w] = g
    BY <1>4, <2>1, <2>2 DEF Plan!Reads, Plan!Writes, Plan!ValuesOn
  <2> QED
    BY <1>1, <1>5, <2>2, <2>3, NeverSimultaneous
<1>8. ASSUME NEW v \in job.writes[next], NEW w \in job.writes[next], v # w, Plan!Overlap(v, w)
      PROVE  FALSE
  <2>1. v \in ArenaValues(prog) /\ w \in ArenaValues(prog)
    BY <1>6 DEF KernelWrites
  <2>2. /\ page[v] = page[w]
        /\ offset[v] < offset[w] + prog.size[w] /\ offset[w] < offset[v] + prog.size[v]
    BY <1>4, <1>8, <2>1 DEF Plan!Overlap
  <2>3. task.nbytes = [x \in ArenaValues(prog) |-> prog.size[x]]
    BY <1>1 DEF ArenaSound, ArenaTask
  <2>4. Touch(v, w)
    BY <2>1, <2>2, <2>3 DEF Touch, Arena!Overlap
  <2> QED
    BY <1>1, <1>5, <1>6, <1>8, <2>4, NeverOverlapping
<1> QED
  BY <1>7, <1>8 DEF Plan!Simultaneous, Plan!SelfOverlap

\* Without a window no barrier is hoisted.
LEMMA NoWindowNoHoist ==
  ASSUME DataInv, stage = "load", ~prog.parallel
  PROVE  \A r \in records : r.step # "fork"
<1>1. stage # "arena" /\ Inv /\ PlanFacts!IInv
  BY DEF DataInv, PlanSound
<1>2. job.fork = 0
  <2>1. window = NoWindow /\ job = BarrierJob(prog, window, page, offset)
    BY <1>1 DEF Inv, ArenaBuilt, PlanBuilt
  <2> QED
    BY <2>1 DEF BarrierJob, NoWindow
<1>3. \A r \in records : r.dispatch \in 1 .. next - 1 /\ (r.step = "fork" => r.dispatch = job.fork)
  BY <1>1 DEF Inv, PlanBuilt, PlanFacts!IInv, PlanFacts!TypeOK
<1>4. next \in Nat
  BY <1>1 DEF Inv, PlanBuilt
<1> QED
  BY <1>2, <1>3, <1>4

\* Neither the planner nor the loader has refused, windows aside.
Accepted ==
  /\ verdict \in {"planning", "planned"}
  /\ stage = "refused" => prog.parallel

\* For every program whose dispatches write only what is read: no error of the
\* barrier planner refuses the engine, and the loader only over a window.
THEOREM RefusedForItsWindow ==
  ASSUME OneQueue, SiblingsRead
  PROVE  Spec => [](stage = "refused" => prog.parallel)
<1>1. Init => Accepted
  BY DEF Init, Accepted
<1>2. DataInv /\ Accepted /\ [Next]_vars => Accepted'
  <2> SUFFICES ASSUME DataInv, Accepted, [Next]_vars PROVE Accepted'
    OBVIOUS
  <2>1. CASE PlanBarriers
    <3>1. stage = "barriers" /\ stage' = stage /\ prog' = prog /\ Plan!Next
      BY <2>1 DEF PlanBarriers
    <3>2. ~Plan!RejectDispatch
      BY <3>1, NeverRejected
    <3>3. verdict' \in {verdict, "planned"}
      BY <3>1, <3>2 DEF Plan!Next, Plan!PlanDispatch, Plan!PlanDone
    <3> QED
      BY <3>1, <3>3 DEF Accepted
  <2>2. CASE PlanOver
    BY <2>2 DEF PlanOver, planVars, Accepted
  <2>3. CASE Load
    <3>1. stage = "load" /\ UNCHANGED <<prog, verdict>>
      BY <2>3 DEF Load, planVars
    <3>2. ~prog.parallel => SectionFits /\ PlanMatches
      BY <3>1, NoWindowNoHoist DEF SectionFits, PlanMatches
    <3> QED
      BY <2>3, <3>1, <3>2 DEF Load, Accepted
  <2>4. CASE UNCHANGED <<prog, verdict>> /\ stage' # "refused"
    BY <2>4 DEF Accepted
  <2>5. CASE UNCHANGED <<prog, verdict, stage>>
    BY <2>5 DEF Accepted
  <2>6. \/ PlanBarriers \/ PlanOver \/ Load
        \/ UNCHANGED <<prog, verdict>> /\ stage' # "refused"
        \/ UNCHANGED <<prog, verdict, stage>>
    <3>1. CASE PlaceValues \/ StartPlan
      BY <3>1 DEF PlaceValues, StartPlan, planVars
    <3>2. CASE StartCall
      BY <3>2 DEF StartCall, planVars
    <3>3. CASE RecordDispatch
      BY <3>3 DEF RecordDispatch, planVars
    <3>4. CASE FinishRecording
      <4>1. UNCHANGED <<planVars, prog>> /\ stage' = "submit"
        BY ONLY <3>4, Zenon DEF FinishRecording
      <4> QED
        BY <4>1 DEF planVars
    <3>5. CASE Submit \/ FrameDone
      BY <3>5 DEF Submit, FrameDone, planVars
    <3>6. CASE RefuseBarrier \/ KernelFails \/ PlanMismatch
      <4>1. UNCHANGED <<planVars, prog>> /\ stage = "record" /\ \E left : GiveUp(left)
        BY <3>6 DEF RefuseBarrier, KernelFails, PlanMismatch
      <4>2. stage' # "refused"
        BY <4>1 DEF GiveUp
      <4> QED
        BY <4>1, <4>2 DEF planVars
    <3>7. CASE \E q \in Queues : GpuStep(q)
      BY <3>7 DEF GpuStep, planVars
    <3>8. CASE UNCHANGED vars
      BY <3>8 DEF vars, planVars
    <3> QED
      BY <3>1, <3>2, <3>3, <3>4, <3>5, <3>6, <3>7, <3>8 DEF Next, Host
  <2> QED
    BY <2>1, <2>2, <2>3, <2>4, <2>5, <2>6
<1>3. Accepted => (stage = "refused" => prog.parallel)
  BY DEF Accepted
<1> QED
  BY <1>1, <1>2, <1>3, DataInvariant, PTL DEF Spec

\* For every program compiled for one queue whose dispatches write only what is
\* read: the engine built is planned and loaded.
THEOREM EngineAccepted ==
  ASSUME SiblingsRead, \A p \in Programs : ~p.parallel
  PROVE  Spec => []EngineIsAccepted
<1>1. OneQueue
  BY DEF OneQueue
<1>2. DataInv /\ (stage = "refused" => prog.parallel) => EngineIsAccepted
  BY DEF DataInv, Inv, ArenaBuilt, EngineIsAccepted
<1> QED
  BY <1>1, <1>2, RefusedForItsWindow, DataInvariant, PTL

================================================================================
