--------------------------- MODULE BarrierPlanProofs ---------------------------
(***************************************************************************)
(* For every stream of dispatches, every placement of values and every     *)
(* window: the plan orders all conflicting accesses, and puts each page    *)
(* into the state its accesses need.                                       *)
(***************************************************************************)
EXTENDS BarrierPlan, TLAPS

\* Some record on page p comes after the kernel of dispatch i.
Follows(i, p) ==
  \E r \in records : r.page = p /\ (i < r.dispatch \/ (r.dispatch = i /\ r.step = "fork"))

\* What the tracked state of a page says of the dispatches planned.
StateInv ==
  \A p \in Pages : \A i \in 1 .. next - 1 :
     /\ state[p] = "COMMON" => Reads(i, p) = {} /\ Writes(i, p) = {}
     /\ state[p] = "SRV" /\ Writes(i, p) # {} => Follows(i, p)
     /\ state[p] = "UAV" /\ Reads(i, p) # {} => Follows(i, p)
     /\ state[p] = "UAV" => \A v \in Writes(i, p) : <<i, v>> \in pending[p] \/ Follows(i, p)

\* The last transition of a page is to its tracked state.
LatestInv ==
  \A p \in Pages :
     state[p] # "COMMON" =>
       \E r \in records : /\ r.page = p /\ r.kind = state[p]
                          /\ \A q \in records : q.page = p /\ IsTransition(q) => ~Later(q, r)

IInv == TypeOK /\ StateInv /\ LatestInv /\ ConflictsAreOrdered /\ KernelsFindTheirState

\* Before the first dispatch nothing is recorded and every page is COMMON.
LEMMA BeginInv == IsJob(job) /\ Begin(job) => IInv
<1> SUFFICES ASSUME IsJob(job), Begin(job) PROVE IInv
  OBVIOUS
<1> USE DEF Begin
<1>2. Len(job.reads) \in Nat
  BY DEF IsJob
<1>3. TypeOK
  BY <1>2 DEF TypeOK, Count, Pages
<1>4. StateInv /\ LatestInv
  BY DEF StateInv, LatestInv, Pages
<1>5. ConflictsAreOrdered /\ KernelsFindTheirState
  BY DEF ConflictsAreOrdered, KernelsFindTheirState
<1> QED BY <1>3, <1>4, <1>5 DEF IInv

--------------------------------------------------------------------------------
(* One dispatch                                                                 *)

\* The fields of a record.
LEMMA RecordFields ==
  ASSUME NEW d, NEW p, NEW kind, NEW before, NEW after, NEW step
  PROVE  LET r == Record(d, p, kind, before, after, step)
         IN  r.dispatch = d /\ r.page = p /\ r.kind = kind /\ r.step = step
BY DEF Record

\* The accesses of a dispatch have at most one record on a page, of the kind
\* its inputs or outputs and the tracked state call for.
LEMMA AccessCases ==
  ASSUME NEW d, NEW p
  PROVE  \/ /\ Reads(d, p) # {} /\ state[p] # "SRV"
            /\ \E r : /\ AccessRecords(d, p) = {r} /\ r.kind = "SRV"
                      /\ r.dispatch = d /\ r.page = p /\ r.step = "access"
         \/ /\ Reads(d, p) = {} /\ Writes(d, p) # {} /\ state[p] # "UAV"
            /\ \E r : /\ AccessRecords(d, p) = {r} /\ r.kind = "UAV"
                      /\ r.dispatch = d /\ r.page = p /\ r.step = "access"
         \/ /\ Reads(d, p) = {} /\ state[p] = "UAV" /\ Hazards(d, p) # {}
            /\ \E r : /\ AccessRecords(d, p) = {r} /\ r.kind = "REUSE"
                      /\ r.dispatch = d /\ r.page = p /\ r.step = "access"
         \/ /\ ~(Reads(d, p) # {} /\ state[p] # "SRV")
            /\ ~(Reads(d, p) = {} /\ Writes(d, p) # {} /\ state[p] # "UAV")
            /\ ~(Reads(d, p) = {} /\ state[p] = "UAV" /\ Hazards(d, p) # {})
            /\ AccessRecords(d, p) = {}
<1> DEFINE A == Reads(d, p) # {} /\ state[p] # "SRV"
           B == Reads(d, p) = {} /\ Writes(d, p) # {} /\ state[p] # "UAV"
           C == Reads(d, p) = {} /\ state[p] = "UAV" /\ Hazards(d, p) # {}
           a == Record(d, p, "SRV", NoValue, LeastId(Reads(d, p)), "access")
           b == Record(d, p, "UAV", NoValue, Lowest(Writes(d, p)), "access")
           c == Record(d, p, "REUSE", NamedHazard(d, p)[1][2], NamedHazard(d, p)[2], "access")
<1>1. AccessRecords(d, p) = CASE A -> {a} [] B -> {b} [] C -> {c} [] OTHER -> {}
  BY DEF AccessRecords
<1>2. ~(A /\ B) /\ ~(A /\ C) /\ ~(B /\ C)
  OBVIOUS
<1>3. a.dispatch = d /\ a.page = p /\ a.kind = "SRV" /\ a.step = "access"
  BY RecordFields
<1>4. b.dispatch = d /\ b.page = p /\ b.kind = "UAV" /\ b.step = "access"
  BY RecordFields
<1>5. c.dispatch = d /\ c.page = p /\ c.kind = "REUSE" /\ c.step = "access"
  BY RecordFields
<1> HIDE DEF a, b, c
<1>6. CASE A
  BY <1>1, <1>2, <1>3, <1>6
<1>7. CASE B
  BY <1>1, <1>2, <1>4, <1>7
<1>8. CASE C
  BY <1>1, <1>2, <1>5, <1>8
<1>9. CASE ~A /\ ~B /\ ~C
  BY <1>1, <1>9
<1> QED BY <1>6, <1>7, <1>8, <1>9

\* The records added for a page are those of the dispatch's accesses and of
\* the hoist, all of the dispatch being planned.
LEMMA RecordsAdded ==
  ASSUME NEW d, NEW p
  PROVE  /\ \A r \in AccessRecords(d, p) :
              /\ r.dispatch = d /\ r.page = p /\ r.step = "access"
              /\ r.kind \in {"SRV", "UAV", "REUSE"}
         /\ \A r \in ForkRecords(d, p) :
              /\ r.dispatch = d /\ r.page = p /\ r.step = "fork" /\ r.kind = "SRV"
         /\ Hoisted(d, p) => ForkRecords(d, p) # {}
         /\ ~Hoisted(d, p) => ForkRecords(d, p) = {}
<1>1. \A r \in AccessRecords(d, p) :
         /\ r.dispatch = d /\ r.page = p /\ r.step = "access"
         /\ r.kind \in {"SRV", "UAV", "REUSE"}
  BY AccessCases
<1>2. /\ \A r \in ForkRecords(d, p) :
           r.dispatch = d /\ r.page = p /\ r.step = "fork" /\ r.kind = "SRV"
      /\ Hoisted(d, p) => ForkRecords(d, p) # {}
      /\ ~Hoisted(d, p) => ForkRecords(d, p) = {}
  BY RecordFields DEF ForkRecords
<1> QED BY <1>1, <1>2

\* When the accesses of a dispatch have a record on a page.
LEMMA WhenRecorded ==
  ASSUME NEW d, NEW p, ~(Reads(d, p) # {} /\ Writes(d, p) # {})
  PROVE  /\ Reads(d, p) # {} /\ state[p] # "SRV" =>
              \E r \in AccessRecords(d, p) : r.kind = "SRV"
         /\ Writes(d, p) # {} /\ state[p] # "UAV" =>
              \E r \in AccessRecords(d, p) : r.kind = "UAV"
         /\ Writes(d, p) # {} /\ state[p] = "UAV" /\ Hazards(d, p) # {} =>
              \E r \in AccessRecords(d, p) : r.kind = "REUSE"
         /\ \A r \in AccessRecords(d, p) :
              IsTransition(r) => state[p] # r.kind /\ r.kind = StateFor(d, p)
         /\ AccessRecords(d, p) # {} => Reads(d, p) # {} \/ Writes(d, p) # {}
<1>1. Hazards(d, p) # {} => Writes(d, p) # {}
  BY DEF Hazards
<1> QED BY <1>1, AccessCases DEF IsTransition, StateFor

\* What a planned dispatch does to the records, states and pending writes of
\* one page.
LEMMA OnePage ==
  ASSUME IInv, PlanDispatch, NEW p \in Pages
  PROVE  /\ AccessRecords(next, p) \cup ForkRecords(next, p) \subseteq records'
         /\ \A r \in records' : r.page = p =>
              r \in records \/ r \in AccessRecords(next, p) \/ r \in ForkRecords(next, p)
         /\ records \subseteq records'
         /\ state'[p] = IF Hoisted(next, p) THEN "SRV" ELSE StateFor(next, p)
         /\ pending'[p] = PendingFor(next, p)
         /\ ~(Reads(next, p) # {} /\ Writes(next, p) # {})
         /\ next \in Nat /\ next' = next + 1 /\ UNCHANGED job
         /\ \A r \in records : r.dispatch \in 1 .. next - 1 /\ r.dispatch < next
<1>1. records' = records \cup UNION {AccessRecords(next, q) \cup ForkRecords(next, q) : q \in Pages}
  BY DEF PlanDispatch
<1>2. \A r \in records' : r.page = p =>
         r \in records \/ r \in AccessRecords(next, p) \/ r \in ForkRecords(next, p)
  <2> SUFFICES ASSUME NEW r \in records', r.page = p, r \notin records
               PROVE  r \in AccessRecords(next, p) \/ r \in ForkRecords(next, p)
    OBVIOUS
  <2>1. PICK q \in Pages : r \in AccessRecords(next, q) \cup ForkRecords(next, q)
    BY <1>1
  <2>2. r.page = q
    BY <2>1, RecordsAdded
  <2> QED BY <2>1, <2>2
<1>3. next \in Nat
  BY DEF IInv, TypeOK
<1>4. \A r \in records : r.dispatch \in 1 .. next - 1
  BY DEF IInv, TypeOK
<1>5. /\ state'[p] = IF Hoisted(next, p) THEN "SRV" ELSE StateFor(next, p)
      /\ pending'[p] = PendingFor(next, p)
  BY DEF PlanDispatch
<1>6. ~(Reads(next, p) # {} /\ Writes(next, p) # {}) /\ next' = next + 1 /\ UNCHANGED job
  BY DEF PlanDispatch, Simultaneous
<1> QED BY <1>1, <1>2, <1>3, <1>4, <1>5, <1>6

\* A record after i stays after i, and is before every later dispatch.
LEMMA FollowsKept ==
  ASSUME IInv, PlanDispatch, NEW p \in Pages, NEW i \in 1 .. next - 1, Follows(i, p)
  PROVE  /\ Follows(i, p)'
         /\ \E r \in records' : r.page = p /\ Between(r, i, next)
<1>1. PICK r \in records : r.page = p /\ (i < r.dispatch \/ (r.dispatch = i /\ r.step = "fork"))
  BY DEF Follows
<1>2. r \in records' /\ r.dispatch \in 1 .. next - 1 /\ next \in Nat
  BY OnePage
<1> QED BY <1>1, <1>2 DEF Follows, Between

\* A record of the planned dispatch on p comes after every earlier dispatch.
LEMMA NewFollows ==
  ASSUME IInv, PlanDispatch, NEW p \in Pages, AccessRecords(next, p) # {} \/ ForkRecords(next, p) # {},
         NEW i \in 1 .. next - 1
  PROVE  Follows(i, p)'
<1>1. PICK r \in AccessRecords(next, p) \cup ForkRecords(next, p) : TRUE
  OBVIOUS
<1>2. r \in records' /\ r.page = p /\ r.dispatch = next
  BY <1>1, RecordsAdded, OnePage
<1>3. i < next
  BY OnePage
<1> QED BY <1>2, <1>3 DEF Follows

\* The conflicts of the planned dispatch with earlier ones are ordered.
LEMMA ConflictsStep == IInv /\ PlanDispatch => ConflictsAreOrdered'
<1> SUFFICES ASSUME IInv, PlanDispatch,
                    NEW i \in 1 .. next' - 1, NEW j \in 1 .. next' - 1, NEW p \in Pages',
                    i < j, ConflictOn(i, j, p)'
             PROVE  \E r \in records' : r.page = p /\ Between(r, i, j)
  BY DEF ConflictsAreOrdered, Between
<1>1. UNCHANGED job /\ Pages' = Pages
  BY DEF PlanDispatch, Pages
<1>2. ConflictOn(i, j, p)
  BY <1>1 DEF ConflictOn, Writes, Reads, Overlap, ValuesOn
<1>3. next \in Nat /\ next' = next + 1
  BY <1>1, OnePage
<1>4. CASE j < next
  <2>1. i \in 1 .. next - 1 /\ j \in 1 .. next - 1
    BY <1>3, <1>4
  <2>2. \E r \in records : r.page = p /\ Between(r, i, j)
    BY <2>1, <1>1, <1>2 DEF IInv, ConflictsAreOrdered
  <2> QED BY <2>2, <1>1, OnePage
<1>5. CASE j = next
  <2>1. i \in 1 .. next - 1
    BY <1>3, <1>5
  <2>2. CASE AccessRecords(next, p) # {}
    <3>1. PICK r \in AccessRecords(next, p) : TRUE
      BY <2>2
    <3>2. r \in records' /\ r.page = p /\ r.dispatch = next /\ r.step = "access"
      BY <3>1, <1>1, RecordsAdded, OnePage
    <3> QED BY <3>2, <1>5 DEF Between
  <2>3. CASE AccessRecords(next, p) = {}
    <3>1. ~(Reads(j, p) # {} /\ Writes(j, p) # {})
      BY <1>1, <1>5, OnePage
    <3>2. /\ Reads(j, p) # {} => state[p] = "SRV"
          /\ Writes(j, p) # {} => state[p] = "UAV" /\ Hazards(j, p) = {}
      BY <2>3, <3>1, <1>1, <1>5, WhenRecorded
    <3>3. Follows(i, p)
      <4>1. CASE Reads(j, p) # {}
        <5>1. Writes(i, p) # {}
          BY <1>2, <3>1, <4>1 DEF ConflictOn
        <5> QED BY <5>1, <4>1, <3>2, <2>1, <1>1 DEF IInv, StateInv
      <4>2. CASE Reads(j, p) = {} /\ Reads(i, p) # {}
        <5>1. Writes(j, p) # {}
          BY <1>2, <4>2 DEF ConflictOn
        <5> QED BY <5>1, <4>2, <3>2, <2>1, <1>1 DEF IInv, StateInv
      <4>3. CASE Reads(j, p) = {} /\ Reads(i, p) = {}
        <5>1. PICK v \in Writes(i, p), w \in Writes(j, p) : Overlap(v, w)
          BY <1>2, <4>3 DEF ConflictOn
        <5>2. <<i, v>> \notin pending[p]
          <6> SUFFICES ASSUME <<i, v>> \in pending[p] PROVE FALSE
            OBVIOUS
          <6>1. << <<i, v>>, w >> \in Hazards(j, p)
            BY <5>1 DEF Hazards
          <6> QED BY <6>1, <5>1, <3>2
        <5> QED BY <5>1, <5>2, <3>2, <2>1, <1>1 DEF IInv, StateInv
      <4> QED BY <4>1, <4>2, <4>3
    <3> QED BY <3>3, <2>1, <1>1, <1>5, FollowsKept
  <2> QED BY <2>2, <2>3
<1>6. j < next \/ j = next
  BY <1>3
<1> QED BY <1>4, <1>5, <1>6

\* Types are kept by a planned dispatch.
LEMMA TypeStep == IInv /\ PlanDispatch => TypeOK'
<1> SUFFICES ASSUME IInv, PlanDispatch PROVE TypeOK'
  OBVIOUS
<1> USE DEF IInv
<1>1. /\ UNCHANGED <<job, verdict>> /\ Pages' = Pages /\ Count' = Count
      /\ \A p : ValuesOn(p)' = ValuesOn(p)
      /\ next' = next + 1 /\ next <= Count
  BY DEF PlanDispatch, Pages, Count, ValuesOn
<1>2. next \in Nat /\ Count \in Nat
  <2>1. Len(job.reads) \in Nat
    BY DEF TypeOK, IsJob
  <2> QED BY <2>1 DEF TypeOK, Count
<1>3. next' \in 1 .. Count + 1 /\ next \in 1 .. next' - 1
  BY <1>1, <1>2 DEF TypeOK
<1>4. state' \in [Pages -> {"COMMON", "SRV", "UAV"}]
  BY DEF PlanDispatch, StateFor, TypeOK
<1>5. DOMAIN pending' = Pages
  BY DEF PlanDispatch
<1>6. ASSUME NEW p \in Pages
      PROVE  pending'[p] \subseteq (1 .. next' - 1) \X ValuesOn(p)
  <2>1. pending'[p] \subseteq pending[p] \cup ({next} \X Writes(next, p))
    BY OnePage DEF PendingFor
  <2>2. pending[p] \subseteq (1 .. next - 1) \X ValuesOn(p)
    BY DEF TypeOK
  <2>3. 1 .. next - 1 \subseteq 1 .. next' - 1
    BY <1>1, <1>2
  <2>4. Writes(next, p) \subseteq ValuesOn(p)
    BY DEF Writes
  <2> QED BY <2>1, <2>2, <2>3, <2>4, <1>3
<1>7. ASSUME NEW r \in records'
      PROVE  /\ r.dispatch \in 1 .. next' - 1 /\ r.page \in Pages
             /\ r.kind \in {"SRV", "UAV", "REUSE"} /\ r.step \in {"access", "fork"}
  <2>1. CASE r \in records
    BY <2>1, <1>1, <1>2 DEF TypeOK
  <2>2. CASE r \notin records
    <3>1. PICK p \in Pages : r \in AccessRecords(next, p) \cup ForkRecords(next, p)
      BY <2>2 DEF PlanDispatch
    <3>2. CASE r \in AccessRecords(next, p)
      <4>1. /\ r.dispatch = next /\ r.page = p /\ r.step = "access"
            /\ r.kind \in {"SRV", "UAV", "REUSE"}
        BY <3>2, RecordsAdded
      <4> QED BY <4>1, <1>3
    <3>3. CASE r \in ForkRecords(next, p)
      <4>1. r.dispatch = next /\ r.page = p /\ r.step = "fork" /\ r.kind = "SRV"
        BY <3>3, RecordsAdded
      <4> QED BY <4>1, <1>3
    <3> QED BY <3>1, <3>2, <3>3
  <2> QED BY <2>1, <2>2
<1>8. IsJob(job)' /\ verdict' \in {"planning", "planned", "simultaneous", "overlapping"}
  BY <1>1 DEF TypeOK, IsJob
<1> QED BY <1>1, <1>3, <1>4, <1>5, <1>6, <1>7, <1>8 DEF TypeOK

\* A dispatch does not change the job.
LEMMA JobKept ==
  ASSUME PlanDispatch
  PROVE  /\ Pages' = Pages
         /\ \A d, p : Reads(d, p)' = Reads(d, p) /\ Writes(d, p)' = Writes(d, p)
BY DEF PlanDispatch, Pages, Reads, Writes, ValuesOn

\* What the tracked state says of earlier dispatches stays true.
LEMMA StateStep == IInv /\ PlanDispatch => StateInv'
<1> SUFFICES ASSUME IInv, PlanDispatch PROVE StateInv'
  OBVIOUS
<1>0. Pages' = Pages /\ \A d, p : Reads(d, p)' = Reads(d, p) /\ Writes(d, p)' = Writes(d, p)
  BY JobKept
<1> SUFFICES ASSUME NEW p \in Pages, NEW i \in 1 .. next' - 1
             PROVE  /\ state'[p] = "COMMON" => Reads(i, p) = {} /\ Writes(i, p) = {}
                    /\ state'[p] = "SRV" /\ Writes(i, p) # {} => Follows(i, p)'
                    /\ state'[p] = "UAV" /\ Reads(i, p) # {} => Follows(i, p)'
                    /\ state'[p] = "UAV" =>
                         \A v \in Writes(i, p) : <<i, v>> \in pending'[p] \/ Follows(i, p)'
  BY <1>0 DEF StateInv
<1>1. /\ next \in Nat /\ next' = next + 1
      /\ ~(Reads(next, p) # {} /\ Writes(next, p) # {})
      /\ state'[p] = IF Hoisted(next, p) THEN "SRV" ELSE StateFor(next, p)
      /\ pending'[p] = PendingFor(next, p)
      /\ ForkRecords(next, p) \subseteq records'
  BY OnePage
<1>2. CASE Hoisted(next, p)
  <2>1. PICK r \in ForkRecords(next, p) : TRUE
    BY <1>2, RecordsAdded
  <2>2. r \in records' /\ r.page = p /\ r.dispatch = next /\ r.step = "fork"
    BY <2>1, <1>1, RecordsAdded
  <2>3. i < next \/ i = next
    BY <1>1
  <2>4. Follows(i, p)'
    BY <2>2, <2>3 DEF Follows
  <2> QED BY <2>4, <1>1, <1>2
<1>3. CASE ~Hoisted(next, p) /\ i = next
  <2>1. state'[p] = StateFor(next, p)
    BY <1>1, <1>3
  <2>2. \A v \in Writes(next, p) : <<next, v>> \in pending'[p]
    BY <1>1, <1>3 DEF PendingFor
  <2> QED BY <2>1, <2>2, <1>1, <1>3 DEF StateFor
<1>4. CASE ~Hoisted(next, p) /\ i < next /\ AccessRecords(next, p) # {}
  <2>1. i \in 1 .. next - 1
    BY <1>1, <1>4
  <2>2. Follows(i, p)'
    BY <2>1, <1>4, NewFollows
  <2>3. Reads(next, p) # {} \/ Writes(next, p) # {}
    BY <1>1, <1>4, WhenRecorded
  <2> QED BY <2>2, <2>3, <1>1, <1>4 DEF StateFor
<1>5. CASE ~Hoisted(next, p) /\ i < next /\ AccessRecords(next, p) = {}
  <2>1. i \in 1 .. next - 1
    BY <1>1, <1>5
  <2>2. pending[p] \subseteq pending'[p]
    BY <1>1, <1>5 DEF PendingFor
  <2>3. /\ Reads(next, p) # {} => state[p] = "SRV"
        /\ Writes(next, p) # {} => state[p] = "UAV"
    BY <1>1, <1>5, WhenRecorded
  <2>4. state'[p] = state[p]
    BY <2>3, <1>1, <1>5 DEF StateFor
  <2>5. Follows(i, p) => Follows(i, p)'
    BY <2>1, FollowsKept
  <2>6. /\ state[p] = "COMMON" => Reads(i, p) = {} /\ Writes(i, p) = {}
        /\ state[p] = "SRV" /\ Writes(i, p) # {} => Follows(i, p)
        /\ state[p] = "UAV" /\ Reads(i, p) # {} => Follows(i, p)
        /\ state[p] = "UAV" => \A v \in Writes(i, p) : <<i, v>> \in pending[p] \/ Follows(i, p)
    BY <2>1 DEF IInv, StateInv
  <2> QED BY <2>2, <2>4, <2>5, <2>6
<1>6. i = next \/ i < next
  BY <1>1
<1> QED BY <1>2, <1>3, <1>4, <1>5, <1>6

\* After the accesses of the planned dispatch, the last transition of a page
\* before its kernel is to the state the accesses need.
LEMMA AccessState ==
  ASSUME IInv, PlanDispatch, NEW p \in Pages, StateFor(next, p) # "COMMON"
  PROVE  \E r \in records' :
            /\ r.page = p /\ r.kind = StateFor(next, p) /\ Before(r, next)
            /\ \A q \in records' :
                 q.page = p /\ IsTransition(q) /\ Before(q, next) => ~Later(q, r)
<1>1. /\ AccessRecords(next, p) \cup ForkRecords(next, p) \subseteq records'
      /\ \A r \in records' : r.page = p =>
           r \in records \/ r \in AccessRecords(next, p) \/ r \in ForkRecords(next, p)
      /\ records \subseteq records'
      /\ ~(Reads(next, p) # {} /\ Writes(next, p) # {})
      /\ next \in Nat
      /\ \A r \in records : r.dispatch \in 1 .. next - 1 /\ r.dispatch < next
  BY OnePage
<1>2. CASE \E r \in AccessRecords(next, p) : IsTransition(r)
  <2>1. PICK r \in AccessRecords(next, p) : IsTransition(r)
    BY <1>2
  <2>2. /\ r \in records' /\ r.page = p /\ r.dispatch = next /\ r.step = "access"
        /\ r.kind = StateFor(next, p)
    BY <2>1, <1>1, RecordsAdded, WhenRecorded
  <2>3. ASSUME NEW q \in records', q.page = p, Before(q, next) PROVE ~Later(q, r)
    <3>1. CASE q \in records
      BY <3>1, <2>2, <1>1 DEF Later
    <3>2. CASE q \in AccessRecords(next, p) \/ q \in ForkRecords(next, p)
      <4>1. q.dispatch = next /\ q.step \in {"access", "fork"}
        BY <3>2, RecordsAdded
      <4>2. q.step = "access"
        BY <4>1, <2>3, <1>1 DEF Before
      <4> QED BY <4>1, <4>2, <2>2, <1>1 DEF Later
    <3> QED BY <3>1, <3>2, <2>3, <1>1
  <2> QED BY <2>2, <2>3 DEF Before
<1>3. CASE \A r \in AccessRecords(next, p) : ~IsTransition(r)
  <2>1. StateFor(next, p) = state[p]
    BY <1>1, <1>3, WhenRecorded DEF StateFor, IsTransition
  <2>2. PICK r \in records : /\ r.page = p /\ r.kind = state[p]
                             /\ \A q \in records : q.page = p /\ IsTransition(q) => ~Later(q, r)
    BY <2>1 DEF IInv, LatestInv
  <2>3. ASSUME NEW q \in records', q.page = p, IsTransition(q), Before(q, next)
        PROVE  ~Later(q, r)
    <3>1. CASE q \in records
      BY <3>1, <2>2, <2>3
    <3>2. CASE q \in ForkRecords(next, p)
      <4>1. q.dispatch = next /\ q.step = "fork"
        BY <3>2, RecordsAdded
      <4> QED BY <4>1, <2>3, <1>1 DEF Before
    <3> QED BY <3>1, <3>2, <2>3, <1>1, <1>3
  <2>4. Before(r, next) /\ r \in records'
    BY <2>2, <1>1 DEF Before
  <2> QED BY <2>1, <2>2, <2>3, <2>4
<1> QED BY <1>2, <1>3

\* The tracked state of a page stays that of its last transition.
LEMMA LatestStep == IInv /\ PlanDispatch => LatestInv'
<1> SUFFICES ASSUME IInv, PlanDispatch PROVE LatestInv'
  OBVIOUS
<1>0. Pages' = Pages
  BY JobKept
<1> SUFFICES ASSUME NEW p \in Pages, state'[p] # "COMMON"
             PROVE  \E r \in records' :
                       /\ r.page = p /\ r.kind = state'[p]
                       /\ \A q \in records' : q.page = p /\ IsTransition(q) => ~Later(q, r)
  BY <1>0 DEF LatestInv
<1>1. /\ AccessRecords(next, p) \cup ForkRecords(next, p) \subseteq records'
      /\ \A r \in records' : r.page = p =>
           r \in records \/ r \in AccessRecords(next, p) \/ r \in ForkRecords(next, p)
      /\ state'[p] = IF Hoisted(next, p) THEN "SRV" ELSE StateFor(next, p)
      /\ next \in Nat
      /\ \A r \in records : r.dispatch \in 1 .. next - 1 /\ r.dispatch < next
  BY OnePage
<1>2. CASE Hoisted(next, p)
  <2>1. PICK r \in ForkRecords(next, p) : TRUE
    BY <1>2, RecordsAdded
  <2>2. r \in records' /\ r.page = p /\ r.dispatch = next /\ r.step = "fork" /\ r.kind = "SRV"
    BY <2>1, <1>1, RecordsAdded
  <2>3. ASSUME NEW q \in records', q.page = p PROVE ~Later(q, r)
    <3>1. CASE q \in records
      BY <3>1, <2>2, <1>1 DEF Later
    <3>2. CASE q \in AccessRecords(next, p) \/ q \in ForkRecords(next, p)
      BY <3>2, <2>2, <1>1, RecordsAdded DEF Later
    <3> QED BY <3>1, <3>2, <2>3, <1>1
  <2> QED BY <2>2, <2>3, <1>1, <1>2
<1>3. CASE ~Hoisted(next, p)
  <2>1. ForkRecords(next, p) = {}
    BY <1>3, RecordsAdded
  <2>2. \A q \in records' : q.page = p => Before(q, next)
    BY <2>1, <1>1, RecordsAdded DEF Before
  <2> QED BY <2>2, <1>1, <1>3, AccessState
<1> QED BY <1>2, <1>3

\* Kernels planned earlier still find their state; the planned one does too.
LEMMA KernelsStep == IInv /\ PlanDispatch => KernelsFindTheirState'
<1> SUFFICES ASSUME IInv, PlanDispatch, NEW d \in 1 .. next' - 1, NEW p \in Pages
             PROVE  /\ Reads(d, p) # {} => InState(p, "SRV", d)'
                    /\ Writes(d, p) # {} => InState(p, "UAV", d)'
  BY DEF KernelsFindTheirState, PlanDispatch, Pages, Reads, Writes, ValuesOn
<1>1. /\ \A r \in records' : r.page = p =>
           r \in records \/ r \in AccessRecords(next, p) \/ r \in ForkRecords(next, p)
      /\ records \subseteq records'
      /\ ~(Reads(next, p) # {} /\ Writes(next, p) # {})
      /\ next \in Nat /\ next' = next + 1
  BY OnePage
<1>2. CASE d < next
  <2>1. \A q \in records' : q.page = p /\ Before(q, d) => q \in records
    <3> SUFFICES ASSUME NEW q \in records', q.page = p, Before(q, d), q \notin records
                 PROVE  FALSE
      OBVIOUS
    <3>1. q.dispatch = next
      BY <1>1, RecordsAdded
    <3> QED BY <3>1, <1>1, <1>2 DEF Before
  <2>2. \A s : InState(p, s, d) => InState(p, s, d)'
    BY <2>1, <1>1 DEF InState, Before, Later
  <2>3. d \in 1 .. next - 1
    BY <1>1, <1>2
  <2> QED BY <2>2, <2>3 DEF IInv, KernelsFindTheirState
<1>3. CASE d = next
  <2>1. Reads(d, p) # {} => StateFor(next, p) = "SRV"
    BY <1>3 DEF StateFor
  <2>2. Writes(d, p) # {} => StateFor(next, p) = "UAV"
    BY <1>1, <1>3 DEF StateFor
  <2>3. ASSUME NEW s, s = StateFor(next, p), s # "COMMON"
        PROVE  InState(p, s, d)'
    <3>1. \E r \in records' :
            /\ r.page = p /\ r.kind = s /\ Before(r, next)
            /\ \A q \in records' :
                 q.page = p /\ IsTransition(q) /\ Before(q, next) => ~Later(q, r)
      BY <2>3, AccessState
    <3> QED BY <3>1, <1>3 DEF InState
  <2>4. Reads(d, p) # {} => InState(p, "SRV", d)'
    BY <2>1, <2>3
  <2>5. Writes(d, p) # {} => InState(p, "UAV", d)'
    BY <2>2, <2>3
  <2> QED BY <2>4, <2>5
<1>4. d < next \/ d = next
  BY <1>1
<1> QED BY <1>2, <1>3, <1>4

--------------------------------------------------------------------------------
(* The theorems                                                                 *)

\* Every step of the planner keeps the inductive invariant.
LEMMA PlanNext == IInv /\ [Next]_barrierVars => IInv'
<1> SUFFICES ASSUME IInv, [Next]_barrierVars PROVE IInv'
  OBVIOUS
<1>1. CASE PlanDispatch
  BY <1>1, TypeStep, StateStep, LatestStep, ConflictsStep, KernelsStep DEF IInv
<1>2. CASE RejectDispatch \/ PlanDone \/ UNCHANGED barrierVars
  <2>1. UNCHANGED <<job, next, state, pending, records>>
    BY <1>2 DEF RejectDispatch, PlanDone, barrierVars
  <2>2. verdict' \in {"planning", "planned", "simultaneous", "overlapping"}
    BY <1>2 DEF RejectDispatch, PlanDone, barrierVars, IInv, TypeOK
  <2>3. TypeOK'
    BY <2>1, <2>2 DEF IInv, TypeOK, IsJob, Count, Pages, ValuesOn
  <2>4. StateInv'
    BY <2>1 DEF IInv, StateInv, Pages, Reads, Writes, ValuesOn, Follows
  <2>5. LatestInv'
    BY <2>1 DEF IInv, LatestInv, Pages
  <2>6. ConflictsAreOrdered'
    BY <2>1 DEF IInv, ConflictsAreOrdered, ConflictOn, Reads, Writes, ValuesOn, Pages, Overlap,
                Between
  <2>7. KernelsFindTheirState'
    BY <2>1 DEF IInv, KernelsFindTheirState, InState, Reads, Writes, ValuesOn, Pages
  <2> QED BY <2>3, <2>4, <2>5, <2>6, <2>7 DEF IInv
<1> QED BY <1>1, <1>2 DEF Next

\* The planner's inductive invariant holds in every run.
THEOREM PlanInvariant == Spec => []IInv
<1>1. Init => IInv
  BY BeginInv, BarrierAssumption DEF Init
<1> QED BY <1>1, PlanNext, PTL DEF Spec

\* The planner's state keeps its types, whatever it is given.
THEOREM TypeCorrect == Spec => []TypeOK
<1>1. IInv => TypeOK
  BY DEF IInv
<1> QED BY <1>1, PlanInvariant, PTL

\* Any two conflicting accesses have a barrier between them on their page,
\* for every stream of dispatches and every layout of the arena.
THEOREM ConflictsOrdered == Spec => []ConflictsAreOrdered
<1>1. IInv => ConflictsAreOrdered
  BY DEF IInv
<1> QED BY <1>1, PlanInvariant, PTL

\* Every kernel finds the pages it reads in SRV and those it writes in UAV.
THEOREM StatesMatchAccesses == Spec => []KernelsFindTheirState
<1>1. IInv => KernelsFindTheirState
  BY DEF IInv
<1> QED BY <1>1, PlanInvariant, PTL

------------------------------------------------------------------------------
(* Every barrier is needed                                                   *)

\* The last transition of page p before dispatch d is to state s; a page without
\* one is COMMON.
Stands(p, s, d) ==
  \/ s = "COMMON" /\ \A q \in records : q.page = p /\ IsTransition(q) => q.dispatch >= d
  \/ \E r \in records :
       /\ r.page = p /\ r.kind = s /\ IsTransition(r) /\ r.dispatch < d
       /\ \A q \in records : q.page = p /\ IsTransition(q) /\ q.dispatch < d => ~Later(q, r)

\* No barrier moves a page to the state it is in, and a REUSE barrier finds its
\* page in UAV; a hoist is needed unless its dispatch moves the page itself.
Needed(r) ==
  /\ r.step = "access" /\ IsTransition(r) =>
       \E s \in {"COMMON", "SRV", "UAV"} : s # r.kind /\ Stands(r.page, s, r.dispatch)
  /\ r.step = "access" /\ r.kind = "REUSE" => Stands(r.page, "UAV", r.dispatch)
  /\ /\ r.step = "fork"
     /\ \A q \in records : q.step = "access" /\ q.page = r.page => q.dispatch # r.dispatch
     => \E s \in {"COMMON", "SRV", "UAV"} : s # "SRV" /\ Stands(r.page, s, r.dispatch)

NeedInv ==
  /\ \A p \in Pages : Stands(p, state[p], next)
  /\ \A r \in records : Needed(r)

\* A new stream has no records and its pages are COMMON.
LEMMA BeginNeeds == IsJob(job) /\ Begin(job) => NeedInv
<1> SUFFICES ASSUME Begin(job) PROVE NeedInv
  OBVIOUS
<1>1. records = {} /\ \A p \in Pages : state[p] = "COMMON"
  BY DEF Begin, Pages
<1> QED
  BY <1>1 DEF NeedInv, Stands

\* Planning a dispatch adds no record of an earlier one: where a page stood
\* before stays what it was.
LEMMA StandsKept ==
  ASSUME IInv, PlanDispatch, NEW p \in Pages, NEW s, NEW d \in Nat, d <= next, Stands(p, s, d)
  PROVE  Stands(p, s, d)'
<1>1. /\ records \subseteq records' /\ next \in Nat
      /\ \A r \in records' : r.page = p =>
           r \in records \/ r \in AccessRecords(next, p) \/ r \in ForkRecords(next, p)
  BY OnePage
<1>2. \A q \in records' : q.page = p /\ q.dispatch < d => q \in records
  BY <1>1, RecordsAdded
<1>3. \A q \in records' : q.page = p => q \in records \/ q.dispatch = next
  BY <1>1, RecordsAdded
<1>4. CASE s = "COMMON" /\ \A q \in records : q.page = p /\ IsTransition(q) => q.dispatch >= d
  <2>1. \A q \in records' : q.page = p /\ IsTransition(q) => q.dispatch >= d
    BY <1>1, <1>3, <1>4
  <2> QED
    BY <1>4, <2>1 DEF Stands, IsTransition
<1>5. CASE \E r \in records :
             /\ r.page = p /\ r.kind = s /\ IsTransition(r) /\ r.dispatch < d
             /\ \A q \in records : q.page = p /\ IsTransition(q) /\ q.dispatch < d => ~Later(q, r)
  <2>1. PICK r \in records :
             /\ r.page = p /\ r.kind = s /\ IsTransition(r) /\ r.dispatch < d
             /\ \A q \in records : q.page = p /\ IsTransition(q) /\ q.dispatch < d => ~Later(q, r)
    BY <1>5
  <2>2. \A q \in records' : q.page = p /\ IsTransition(q) /\ q.dispatch < d => ~Later(q, r)
    BY <1>2, <2>1
  <2>3. r \in records'
    BY <1>1, <2>1
  <2> QED
    BY <2>1, <2>2, <2>3 DEF Stands, IsTransition, Later
<1> QED
  BY <1>4, <1>5 DEF Stands

\* After a dispatch every page stands where the planner says.
LEMMA StandsStep ==
  ASSUME IInv, NeedInv, PlanDispatch, NEW p \in Pages
  PROVE  Stands(p, state[p], next)'
<1>1. /\ AccessRecords(next, p) \cup ForkRecords(next, p) \subseteq records'
      /\ records \subseteq records'
      /\ \A r \in records' : r.page = p =>
           r \in records \/ r \in AccessRecords(next, p) \/ r \in ForkRecords(next, p)
      /\ state'[p] = IF Hoisted(next, p) THEN "SRV" ELSE StateFor(next, p)
      /\ ~(Reads(next, p) # {} /\ Writes(next, p) # {})
      /\ next \in Nat /\ next' = next + 1
      /\ \A r \in records : r.dispatch \in 1 .. next - 1 /\ r.dispatch < next
  BY OnePage
<1>2. \A q \in records' : q.page = p => q \in records \/ q.dispatch = next
  BY <1>1, RecordsAdded
<1>3. CASE Hoisted(next, p)
  <2>1. PICK r \in ForkRecords(next, p) : TRUE
    BY <1>3, RecordsAdded
  <2>2. r \in records' /\ r.page = p /\ r.dispatch = next /\ r.step = "fork" /\ r.kind = "SRV"
    BY <2>1, <1>1, RecordsAdded
  <2>3. ASSUME NEW q \in records', q.page = p PROVE ~Later(q, r)
    BY <1>1, <1>2, <2>2, <2>3 DEF Later
  <2> QED
    BY <1>1, <1>3, <2>2, <2>3 DEF Stands, IsTransition, Later
<1>4. CASE ~Hoisted(next, p) /\ \E r \in AccessRecords(next, p) : IsTransition(r)
  <2>1. PICK r \in AccessRecords(next, p) : IsTransition(r)
    BY <1>4
  <2>2. /\ r \in records' /\ r.page = p /\ r.dispatch = next /\ r.step = "access"
        /\ r.kind = state'[p]
    BY <1>1, <1>4, <2>1, RecordsAdded, WhenRecorded
  <2>3. ForkRecords(next, p) = {}
    BY <1>4, RecordsAdded
  <2>4. ASSUME NEW q \in records', q.page = p PROVE ~Later(q, r)
    <3>1. q \in records \/ (q.dispatch = next /\ q.step = "access")
      BY <1>1, <2>3, <2>4, RecordsAdded
    <3> QED
      BY <1>1, <2>2, <3>1 DEF Later
  <2> QED
    BY <1>1, <2>1, <2>2, <2>4 DEF Stands, IsTransition, Later
<1>5. CASE ~Hoisted(next, p) /\ ~\E r \in AccessRecords(next, p) : IsTransition(r)
  <2>1. StateFor(next, p) = state[p]
    <3>1. Reads(next, p) # {} => state[p] = "SRV"
      BY <1>1, <1>5, WhenRecorded DEF IsTransition
    <3>2. Writes(next, p) # {} => state[p] = "UAV"
      BY <1>1, <1>5, WhenRecorded DEF IsTransition
    <3> QED
      BY <3>1, <3>2 DEF StateFor
  <2>2. \A q \in records' : q.page = p /\ IsTransition(q) => q \in records
    BY <1>1, <1>5, RecordsAdded
  <2>3. state'[p] = state[p]
    BY <1>1, <1>5, <2>1
  <2>4. Stands(p, state[p], next)
    BY DEF NeedInv
  <2>5. CASE state[p] = "COMMON" /\ \A q \in records : q.page = p /\ IsTransition(q) => q.dispatch >= next
    <3>1. \A q \in records' : ~(q.page = p /\ IsTransition(q))
      BY <1>1, <2>2, <2>5
    <3> QED
      BY <2>3, <2>5, <3>1 DEF Stands, IsTransition
  <2>6. CASE \E r \in records :
               /\ r.page = p /\ r.kind = state[p] /\ IsTransition(r) /\ r.dispatch < next
               /\ \A q \in records :
                    q.page = p /\ IsTransition(q) /\ q.dispatch < next => ~Later(q, r)
    <3>1. PICK r \in records :
               /\ r.page = p /\ r.kind = state[p] /\ IsTransition(r) /\ r.dispatch < next
               /\ \A q \in records :
                    q.page = p /\ IsTransition(q) /\ q.dispatch < next => ~Later(q, r)
      BY <2>6
    <3>2. \A q \in records' : q.page = p /\ IsTransition(q) => ~Later(q, r)
      BY <1>1, <2>2, <3>1
    <3>3. r \in records' /\ r.dispatch < next' /\ r.kind = state'[p]
      BY <1>1, <2>3, <3>1
    <3> QED
      BY <3>1, <3>2, <3>3 DEF Stands, IsTransition, Later
  <2> QED
    BY <2>4, <2>5, <2>6 DEF Stands
<1> QED
  BY <1>3, <1>4, <1>5


\* A dispatch adds only barriers that are needed.
LEMMA NeedsStep == IInv /\ NeedInv /\ PlanDispatch => NeedInv'
<1> SUFFICES ASSUME IInv, NeedInv, PlanDispatch PROVE NeedInv'
  OBVIOUS
<1>1. Pages' = Pages
  BY JobKept
<1>2. \A p \in Pages' : Stands(p, state[p], next)'
  BY <1>1, StandsStep
<1>3. ASSUME NEW r \in records' PROVE Needed(r)'
  <2> DEFINE p == r.page
             d == r.dispatch
  <2>1. p \in Pages /\ next \in Nat /\ d \in Nat /\ d <= next
    BY TypeStep, <1>1, <1>3 DEF TypeOK, PlanDispatch, IInv
  <2>2. \A s : Stands(p, s, d) => Stands(p, s, d)'
    BY <2>1, StandsKept
  <2>3. /\ AccessRecords(next, p) \cup ForkRecords(next, p) \subseteq records'
        /\ records \subseteq records'
        /\ r \in records \/ r \in AccessRecords(next, p) \/ r \in ForkRecords(next, p)
        /\ ~(Reads(next, p) # {} /\ Writes(next, p) # {})
    BY <2>1, OnePage
  <2>4. CASE r \in records
    <3>1. Needed(r)
      BY <2>4 DEF NeedInv
    <3> QED
      BY <2>2, <2>3, <3>1 DEF Needed, IsTransition
  <2>5. PICK s \in {"COMMON", "SRV", "UAV"} : s = state[p] /\ (d = next => Stands(p, s, d)')
    <3>1. PICK s \in {"COMMON", "SRV", "UAV"} : s = state[p]
      BY <2>1 DEF IInv, TypeOK
    <3>2. Stands(p, s, next)
      BY <2>1, <3>1 DEF NeedInv
    <3> QED
      BY <2>2, <3>1, <3>2
  <2>6. CASE r \in AccessRecords(next, p)
    <3>1. d = next /\ r.step = "access"
      BY <2>6, RecordsAdded
    <3>2. /\ IsTransition(r) => state[p] # r.kind
          /\ r.kind = "REUSE" => state[p] = "UAV"
      BY <2>3, <2>6, WhenRecorded, AccessCases DEF IsTransition
    <3> QED
      BY <2>5, <3>1, <3>2 DEF Needed, IsTransition
  <2>7. CASE r \in ForkRecords(next, p)
    <3>1. d = next /\ r.step = "fork" /\ Hoisted(next, p)
      BY <2>7, RecordsAdded
    <3>2. StateFor(next, p) # "SRV"
      BY <3>1 DEF Hoisted
    <3>3. AccessRecords(next, p) = {} => state[p] # "SRV"
      BY <2>3, <3>2, WhenRecorded DEF StateFor
    <3>4. AccessRecords(next, p) # {} =>
            \E q \in records' : q.step = "access" /\ q.page = p /\ q.dispatch = next
      BY <2>3, RecordsAdded
    <3> QED
      BY <2>5, <3>1, <3>3, <3>4 DEF Needed, IsTransition
  <2> QED
    BY <2>3, <2>4, <2>6, <2>7
<1> QED
  BY <1>2, <1>3 DEF NeedInv

\* Every step of the planner keeps its barriers needed.
LEMMA NeedsNext == IInv /\ NeedInv /\ [Next]_barrierVars => NeedInv'
<1> SUFFICES ASSUME NeedInv, UNCHANGED <<job, next, state, records>> PROVE NeedInv'
  BY NeedsStep DEF Next, RejectDispatch, PlanDone, barrierVars
<1>1. Pages' = Pages
  BY DEF Pages
<1>2. \A p, s, d : Stands(p, s, d) => Stands(p, s, d)'
  BY DEF Stands, IsTransition, Later
<1>3. \A p \in Pages' : Stands(p, state[p], next)'
  BY <1>1 DEF NeedInv, Stands, IsTransition, Later
<1>4. ASSUME NEW r \in records' PROVE Needed(r)'
  BY <1>2, <1>4 DEF NeedInv, Needed, IsTransition
<1> QED
  BY <1>3, <1>4 DEF NeedInv

\* For every stream: no barrier of the plan is idle.
THEOREM BarriersNeeded == Spec => []NeedInv
<1>1. Init => NeedInv
  BY BeginNeeds, BarrierAssumption DEF Init
<1>2. IInv /\ NeedInv /\ [Next]_barrierVars => NeedInv'
  BY NeedsNext
<1> QED
  BY <1>1, <1>2, PlanInvariant, PTL DEF Spec

================================================================================
