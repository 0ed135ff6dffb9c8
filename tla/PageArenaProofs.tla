---------------------------- MODULE PageArenaProofs ----------------------------
(***************************************************************************)
(* For every allocation problem, alignment and reuse option: conflicting   *)
(* values are on different pages, a page has one element type and layout,  *)
(* and values that share bytes are never alive together.                   *)
(***************************************************************************)
EXTENDS PageArena, TLAPS

\* Colors separate neighbours.
ColorInv ==
  \A v \in DOMAIN color : \A w \in task.adj[v] \cap DOMAIN color :
     color[v] = color[w] => v = w \/ {v, w} \subseteq task.input

\* A page number stands for one color and one storage.
RemapInv ==
  /\ \A k \in DOMAIN remap : remap[k] \in Nat
  /\ \A k, l \in DOMAIN remap : remap[k] = remap[l] => k = l
  /\ \A v \in DOMAIN page : Key(v) \in DOMAIN remap /\ page[v] = remap[Key(v)]

PhaseInv ==
  /\ phase # "color" => DOMAIN color = task.values
  /\ phase = "color" => DOMAIN page = {}
  /\ phase \in {"place", "done"} => DOMAIN page = task.values
  /\ phase = "done" => DOMAIN offset = task.values
  /\ phase \in {"color", "remap"} => DOMAIN offset = {} /\ here = -1 /\ slots = {} /\ cursor = 0

SlotsDisjoint(S) ==
  \A s, t \in S : s # t => s.offset + s.size <= t.offset \/ t.offset + t.size <= s.offset

SlotsBelow(S, c) == \A s \in S : s.offset + s.size <= c

\* A value placed on page p is inside a slot of S, and over when the slot is.
InSlots(p, S) ==
  \A v \in DOMAIN offset :
     page[v] = p => \E s \in S : /\ offset[v] = s.offset
                                 /\ task.nbytes[v] <= s.size
                                 /\ task.end[v] <= s.end

\* The pages before `here' are finished, those after it not begun.
PagesInOrder ==
  /\ \A v \in DOMAIN offset : page[v] <= here
  /\ phase = "place" => \A v \in Unplaced : here <= page[v]

SlotInv ==
  /\ SlotsDisjoint(slots) /\ SlotsBelow(slots, cursor)
  /\ InSlots(here, slots)
  /\ PagesInOrder
  /\ LivesApart

IInv == TypeOK /\ PhaseInv /\ ColorInv /\ RemapInv /\ SlotInv

\* AlignUp returns a natural number that is not less than its argument.
LEMMA AlignUpGrows ==
  ASSUME NEW n \in Nat
  PROVE  AlignUp(n) \in Nat /\ AlignUp(n) >= n
<1> DEFINE A == Alignment
           q == (n + A - 1) \div A
           r == (n + A - 1) % A
<1>1. A \in Nat /\ A > 0 /\ n + A - 1 \in Nat
  BY ArenaAssumption
<1>2. q \in Nat /\ r \in 0 .. A - 1 /\ n + A - 1 = A * q + r
  BY <1>1, Z3
<1>3. q * A = A * q /\ A * q \in Nat
  BY <1>1, <1>2
<1>4. A * q >= n
  <2> HIDE DEF q, r
  <2> DEFINE m == A * q
  <2>1. m \in Nat /\ n + A - 1 = m + r
    BY <1>2, <1>3
  <2> HIDE DEF m
  <2>2. m >= n
    BY <2>1, <1>1, <1>2
  <2> QED BY <2>2 DEF m
<1> QED BY <1>3, <1>4 DEF AlignUp

--------------------------------------------------------------------------------
(* Coloring and remap                                                           *)

\* An allocator started on a problem satisfies the inductive invariant.
LEMMA StartInv == IsTask(task) /\ Start(task) => IInv
<1> SUFFICES ASSUME IsTask(task), Start(task) PROVE IInv
  OBVIOUS
<1> USE DEF Start
<1>2. DOMAIN << >> = {}
  OBVIOUS
<1>3. TypeOK
  BY <1>2 DEF TypeOK, IsTask
<1>4. PhaseInv
  BY <1>2 DEF PhaseInv
<1>5. ColorInv
  BY DEF ColorInv
<1>6. RemapInv
  BY <1>2 DEF RemapInv
<1>7. SlotInv
  <2>1. InSlots(here, slots) /\ PagesInOrder /\ LivesApart
    BY <1>2 DEF InSlots, PagesInOrder, LivesApart
  <2>2. SlotsDisjoint(slots) /\ SlotsBelow(slots, cursor)
    BY DEF SlotsDisjoint, SlotsBelow
  <2> QED BY <2>1, <2>2 DEF SlotInv
<1> QED BY <1>3, <1>4, <1>5, <1>6, <1>7 DEF IInv

\* While no page has been laid out, the parts of the invariant about slots
\* are kept by a step that touches neither slots nor offsets.
LEMMA SlotInvKept ==
  ASSUME SlotInv, UNCHANGED <<task, here, slots, cursor, offset>>,
         DOMAIN offset = {}, here = -1,
         \A v \in task.values \cap DOMAIN page' : page'[v] \in Nat,
         phase' = "place" => DOMAIN page' = task.values
  PROVE  SlotInv'
<1>1. PagesInOrder'
  BY DEF PagesInOrder, Unplaced
<1>2. InSlots(here, slots)' /\ LivesApart'
  BY DEF InSlots, LivesApart
<1> QED BY <1>1, <1>2 DEF SlotInv, SlotsDisjoint, SlotsBelow

\* Giving a value the least color that none of its neighbours has keeps
\* neighbours apart.
LEMMA ColorStep == IInv /\ Color => IInv'
<1> SUFFICES ASSUME IInv, Color PROVE IInv'
  OBVIOUS
<1> USE DEF IInv
<1>1. PICK v \in Uncolored, c \in 0 .. Cardinality(task.values) :
        /\ LeastUnused(c, NeighbourColors(v))
        /\ color' = [x \in DOMAIN color \cup {v} |-> IF x = v THEN c ELSE color[x]]
  BY DEF Color
<1>2. /\ UNCHANGED <<task, phase, remap, page, here, slots, cursor, offset>>
      /\ phase = "color"
  BY DEF Color
<1>3. c \in Nat /\ v \in task.values /\ v \notin DOMAIN color
  <2>1. c \in Nat
    OBVIOUS
  <2> QED BY <2>1 DEF Uncolored
<1>4. /\ DOMAIN color' = DOMAIN color \cup {v}
      /\ color'[v] = c
      /\ \A x \in DOMAIN color : color'[x] = color[x]
  BY <1>1, <1>3
<1>5. TypeOK'
  BY <1>2, <1>3, <1>4 DEF TypeOK
<1>6. ColorInv'
  <2> SUFFICES ASSUME NEW x \in DOMAIN color', NEW w \in task.adj[x] \cap DOMAIN color',
                      color'[x] = color'[w], x # w
               PROVE  {x, w} \subseteq task.input
    BY <1>2 DEF ColorInv
  <2>1. \A n \in task.adj[v] \cap DOMAIN color : color[n] # c
    BY <1>1 DEF LeastUnused, NeighbourColors
  <2>2. x \in task.values /\ w \in task.values /\ x \in task.adj[w]
    BY <1>3, <1>4 DEF TypeOK, IsTask
  <2>3. CASE x = v
    BY <2>1, <2>3, <1>4
  <2>4. CASE w = v
    BY <2>1, <2>2, <2>4, <1>4
  <2>5. CASE x # v /\ w # v
    BY <2>5, <1>4 DEF ColorInv
  <2> QED BY <2>3, <2>4, <2>5
<1>7. PhaseInv'
  BY <1>2 DEF PhaseInv
<1>8. DOMAIN page = {}
  BY <1>2 DEF PhaseInv
<1>9. RemapInv'
  BY <1>2, <1>8 DEF RemapInv
<1>10. SlotInv'
  BY <1>2, <1>8, SlotInvKept DEF PhaseInv
<1> QED BY <1>5, <1>6, <1>7, <1>9, <1>10

\* Ending the coloring changes the phase only.
LEMMA ColoringDoneStep == IInv /\ ColoringDone => IInv'
<1> SUFFICES ASSUME IInv, ColoringDone PROVE IInv'
  OBVIOUS
<1> USE DEF IInv, ColoringDone
<1>1. DOMAIN color = task.values
  BY DEF Uncolored, TypeOK
<1>2. TypeOK'
  BY DEF TypeOK
<1>3. PhaseInv'
  BY <1>1 DEF PhaseInv
<1>4. ColorInv'
  BY DEF ColorInv
<1>5. RemapInv'
  BY DEF RemapInv, Key
<1>6. SlotInv'
  <2>1. DOMAIN offset = {} /\ here = -1 /\ DOMAIN page = {}
    BY DEF PhaseInv
  <2> QED BY <2>1, SlotInvKept
<1> QED BY <1>2, <1>3, <1>4, <1>5, <1>6

\* A new key gets a number no other key has, so the remap stays injective.
LEMMA RemapValueStep == IInv /\ RemapValue => IInv'
<1> SUFFICES ASSUME IInv, RemapValue PROVE IInv'
  OBVIOUS
<1> USE DEF IInv
<1>1. PICK v \in task.values \ DOMAIN page, p \in 0 .. Cardinality(task.values) :
        /\ IF Key(v) \in DOMAIN remap
           THEN p = remap[Key(v)] /\ remap' = remap
           ELSE /\ LeastUnused(p, {remap[k] : k \in DOMAIN remap})
                /\ remap' = [k \in DOMAIN remap \cup {Key(v)} |->
                               IF k = Key(v) THEN p ELSE remap[k]]
        /\ page' = [x \in DOMAIN page \cup {v} |-> IF x = v THEN p ELSE page[x]]
  BY DEF RemapValue
<1>2. UNCHANGED <<task, phase, color, here, slots, cursor, offset>> /\ phase = "remap"
  BY DEF RemapValue
<1>3. p \in Nat
  OBVIOUS
<1>4. /\ DOMAIN page' = DOMAIN page \cup {v} /\ page'[v] = p
      /\ \A x \in DOMAIN page : page'[x] = page[x]
  BY <1>1
<1>5. \A x : Key(x)' = Key(x)
  BY <1>2 DEF Key
<1>6. TypeOK'
  BY <1>2, <1>3, <1>4 DEF TypeOK
<1>7. PhaseInv'
  BY <1>2 DEF PhaseInv
<1>8. ColorInv'
  BY <1>2 DEF ColorInv
<1>9. RemapInv'
  <2>1. CASE Key(v) \in DOMAIN remap
    BY <2>1, <1>1, <1>3, <1>4, <1>5 DEF RemapInv
  <2>2. CASE Key(v) \notin DOMAIN remap
    <3>1. /\ DOMAIN remap' = DOMAIN remap \cup {Key(v)} /\ remap'[Key(v)] = p
          /\ \A k \in DOMAIN remap : remap'[k] = remap[k] /\ remap[k] # p
      BY <2>2, <1>1 DEF LeastUnused
    <3>2. \A x \in DOMAIN page' : Key(x) \in DOMAIN remap' /\ page'[x] = remap'[Key(x)]
      BY <3>1, <2>2, <1>4 DEF RemapInv
    <3> QED BY <3>1, <3>2, <1>3, <1>5 DEF RemapInv
  <2> QED BY <2>1, <2>2
<1>10. SlotInv'
  <2>1. \A x \in task.values \cap DOMAIN page' : page'[x] \in Nat
    BY <1>3, <1>4 DEF TypeOK
  <2> QED BY <2>1, <1>2, SlotInvKept DEF PhaseInv
<1> QED BY <1>6, <1>7, <1>8, <1>9, <1>10

\* Ending the remap changes the phase only.
LEMMA RemapDoneStep == IInv /\ RemapDone => IInv'
<1> SUFFICES ASSUME IInv, RemapDone PROVE IInv'
  OBVIOUS
<1> USE DEF IInv, RemapDone
<1>1. TypeOK' /\ PhaseInv' /\ ColorInv'
  BY DEF TypeOK, PhaseInv, ColorInv
<1>2. RemapInv'
  BY DEF RemapInv, Key
<1>3. SlotInv'
  <2>1. \A x \in task.values \cap DOMAIN page' : page'[x] \in Nat
    BY DEF TypeOK
  <2> QED BY <2>1, SlotInvKept DEF PhaseInv
<1> QED BY <1>1, <1>2, <1>3

--------------------------------------------------------------------------------
(* Slots                                                                        *)

\* What the choice of a slot leaves: the value v is at o, in a page whose slots
\* S are disjoint and below c, and no value there is alive with v if they
\* overlap.
Placed(v, o, S, c) ==
  /\ SlotsDisjoint(S) /\ SlotsBelow(S, c)
  /\ \E s \in S : o = s.offset /\ task.nbytes[v] <= s.size /\ task.end[v] <= s.end
  /\ \A u \in DOMAIN offset : page[u] = page[v] =>
       /\ \E s \in S : /\ offset[u] = s.offset
                       /\ task.nbytes[u] <= s.size
                       /\ task.end[u] <= s.end
       /\ \/ task.end[u] + ReuseGap <= task.start[v]
          \/ offset[u] + task.nbytes[u] <= o
          \/ o + task.nbytes[v] <= offset[u]

\* The slots a page starts with are disjoint, below its cursor, and hold every
\* value placed on it.
LEMMA SlotsOfPage ==
  ASSUME IInv, phase = "place", NEW v \in Unplaced
  PROVE  /\ SlotsDisjoint(SlotsFor(v)) /\ SlotsBelow(SlotsFor(v), CursorFor(v))
         /\ InSlots(page[v], SlotsFor(v))
         /\ CursorFor(v) \in Nat
         /\ \A s \in SlotsFor(v) : /\ s.offset \in Nat /\ s.size \in Nat
                                   /\ s.nbytes \in Nat /\ s.end \in Nat
<1> USE DEF IInv, SlotInv
<1>1. v \in DOMAIN page /\ page[v] \in Nat /\ here <= page[v] /\ here \in Int
  BY DEF Unplaced, PhaseInv, TypeOK, PagesInOrder
<1>2. CASE page[v] = here
  BY <1>2 DEF SlotsFor, CursorFor, TypeOK
<1>3. CASE page[v] # here
  <2>1. \A u \in DOMAIN offset : u \in DOMAIN page /\ page[u] \in Nat /\ page[u] <= here
    BY DEF PhaseInv, TypeOK, PagesInOrder
  <2>2. \A u \in DOMAIN offset : page[u] # page[v]
    BY <2>1, <1>1, <1>3
  <2>3. SlotsFor(v) = {} /\ CursorFor(v) = 0
    BY <1>3 DEF SlotsFor, CursorFor
  <2> QED BY <2>2, <2>3 DEF SlotsDisjoint, SlotsBelow, InSlots
<1> QED BY <1>2, <1>3

\* A value put into a reusable slot starts after everything placed there ends.
LEMMA ReuseIsPlaced ==
  ASSUME IInv, phase = "place", NEW v \in Unplaced, NEW s \in Reusable(v), ReuseSlot(v, s)
  PROVE  Placed(v, s.offset, slots', cursor') /\ s.offset \in Nat /\ cursor' \in Nat
<1> DEFINE S == SlotsFor(v)
           n == [s EXCEPT !.end = task.end[v]]
<1>1. /\ SlotsDisjoint(S) /\ SlotsBelow(S, CursorFor(v)) /\ InSlots(page[v], S)
      /\ CursorFor(v) \in Nat
      /\ \A t \in S : t.offset \in Nat /\ t.size \in Nat /\ t.nbytes \in Nat /\ t.end \in Nat
  BY SlotsOfPage
<1>2. /\ s \in S /\ s.end + ReuseGap <= task.start[v] /\ task.nbytes[v] <= s.size
  BY DEF Reusable
<1>3. slots' = (S \ {s}) \cup {n} /\ cursor' = CursorFor(v)
  BY DEF ReuseSlot
<1>4. s = [offset |-> s.offset, size |-> s.size, nbytes |-> s.nbytes, end |-> s.end]
  BY <1>2 DEF IInv, TypeOK, SlotsFor
<1>5. n.offset = s.offset /\ n.size = s.size /\ n.end = task.end[v]
  BY <1>4
<1>6. /\ task.start[v] \in Nat /\ task.end[v] \in Nat /\ task.start[v] <= task.end[v]
      /\ task.nbytes[v] \in Nat /\ ReuseGap \in Nat
  BY ArenaAssumption DEF IInv, TypeOK, IsTask, Unplaced
<1>7. s.end <= n.end
  BY <1>1, <1>2, <1>5, <1>6
<1> HIDE DEF n
<1>8. SlotsDisjoint(slots') /\ SlotsBelow(slots', cursor')
  BY <1>1, <1>2, <1>3, <1>5 DEF SlotsDisjoint, SlotsBelow
<1>9. ASSUME NEW u \in DOMAIN offset, page[u] = page[v]
      PROVE  /\ \E t \in slots' : /\ offset[u] = t.offset /\ task.nbytes[u] <= t.size
                                  /\ task.end[u] <= t.end
             /\ \/ task.end[u] + ReuseGap <= task.start[v]
                \/ offset[u] + task.nbytes[u] <= s.offset
                \/ s.offset + task.nbytes[v] <= offset[u]
  <2>1. PICK t \in S : offset[u] = t.offset /\ task.nbytes[u] <= t.size /\ task.end[u] <= t.end
    BY <1>1, <1>9 DEF InSlots
  <2>2. task.nbytes[u] \in Nat /\ task.end[u] \in Nat /\ offset[u] \in Nat
    BY DEF IInv, TypeOK, IsTask
  <2>3. CASE t = s
    BY <2>1, <2>2, <2>3, <1>1, <1>2, <1>3, <1>5, <1>6, <1>7
  <2>4. CASE t # s
    <3>1. t \in slots'
      BY <2>4, <1>3
    <3>2. t.offset + t.size <= s.offset \/ s.offset + s.size <= t.offset
      BY <2>4, <1>1, <1>2 DEF SlotsDisjoint
    <3>3. t.offset \in Nat /\ t.size \in Nat /\ s.offset \in Nat /\ s.size \in Nat
      BY <1>1, <1>2
    <3>4. offset[u] + task.nbytes[u] <= s.offset \/ s.offset + task.nbytes[v] <= offset[u]
      BY <3>2, <3>3, <2>1, <2>2, <1>2, <1>6
    <3> QED BY <3>1, <3>4, <2>1
  <2> QED BY <2>3, <2>4
<1>10. \E t \in slots' : s.offset = t.offset /\ task.nbytes[v] <= t.size /\ task.end[v] <= t.end
  BY <1>2, <1>3, <1>5, <1>6
<1> QED BY <1>1, <1>2, <1>3, <1>8, <1>9, <1>10 DEF Placed

\* A new slot is after every slot of its page.
LEMMA NewIsPlaced ==
  ASSUME IInv, phase = "place", NEW v \in Unplaced, NewSlot(v)
  PROVE  /\ Placed(v, AlignUp(CursorFor(v)), slots', cursor')
         /\ AlignUp(CursorFor(v)) \in Nat /\ cursor' \in Nat /\ AlignUp(task.nbytes[v]) \in Nat
<1> DEFINE S == SlotsFor(v)
           at == AlignUp(CursorFor(v))
           sz == AlignUp(task.nbytes[v])
           n == [offset |-> at, size |-> sz, nbytes |-> task.nbytes[v], end |-> task.end[v]]
<1>1. /\ SlotsDisjoint(S) /\ SlotsBelow(S, CursorFor(v)) /\ InSlots(page[v], S)
      /\ CursorFor(v) \in Nat
      /\ \A t \in S : t.offset \in Nat /\ t.size \in Nat /\ t.nbytes \in Nat /\ t.end \in Nat
  BY SlotsOfPage
<1>2. task.nbytes[v] \in Nat /\ task.end[v] \in Nat
  BY DEF IInv, TypeOK, IsTask, Unplaced
<1>3. at \in Nat /\ at >= CursorFor(v) /\ sz \in Nat /\ sz >= task.nbytes[v]
  BY <1>1, <1>2, AlignUpGrows
<1>4. slots' = S \cup {n} /\ cursor' = at + sz
  BY DEF NewSlot
<1>5. n.offset = at /\ n.size = sz /\ n.end = task.end[v]
  OBVIOUS
<1> HIDE DEF n, at, sz
<1>6. \A t \in S : t.offset + t.size <= at
  BY <1>1, <1>3 DEF SlotsBelow
<1>7. SlotsDisjoint(slots')
  BY <1>1, <1>4, <1>5, <1>6 DEF SlotsDisjoint
<1>8. SlotsBelow(slots', cursor')
  <2> SUFFICES ASSUME NEW t \in slots' PROVE t.offset + t.size <= at + sz
    BY <1>4 DEF SlotsBelow
  <2> QED BY <1>1, <1>3, <1>4, <1>5, <1>6
<1>9. ASSUME NEW u \in DOMAIN offset, page[u] = page[v]
      PROVE  /\ \E t \in slots' : /\ offset[u] = t.offset /\ task.nbytes[u] <= t.size
                                  /\ task.end[u] <= t.end
             /\ offset[u] + task.nbytes[u] <= at
  <2>1. PICK t \in S : offset[u] = t.offset /\ task.nbytes[u] <= t.size /\ task.end[u] <= t.end
    BY <1>1, <1>9 DEF InSlots
  <2>2. task.nbytes[u] \in Nat /\ offset[u] \in Nat
    BY DEF IInv, TypeOK, IsTask
  <2> QED BY <2>1, <2>2, <1>1, <1>3, <1>4, <1>6
<1>10. \E t \in slots' : at = t.offset /\ task.nbytes[v] <= t.size /\ task.end[v] <= t.end
  BY <1>2, <1>3, <1>4, <1>5
<1>11. Placed(v, at, slots', cursor')
  BY <1>7, <1>8, <1>9, <1>10 DEF Placed
<1> QED BY <1>3, <1>4, <1>11 DEF at, sz

\* A step that places v well keeps the invariant.
LEMMA PlacedStep ==
  ASSUME IInv, phase = "place", NEW v \in Unplaced, NEW o \in Nat,
         \A w \in Unplaced : PlacedBefore(v, w),
         Placed(v, o, slots', cursor'), PlaceAt(v, o),
         cursor' \in Nat,
         UNCHANGED <<task, phase, color, remap, page>>,
         \A s \in slots' :
            /\ s = [offset |-> s.offset, size |-> s.size, nbytes |-> s.nbytes, end |-> s.end]
            /\ s.offset \in Nat /\ s.size \in Nat /\ s.nbytes \in Nat /\ s.end \in Nat
  PROVE  IInv'
<1> USE DEF IInv
<1>1. /\ v \in task.values /\ v \in DOMAIN page /\ page[v] \in Nat /\ v \notin DOMAIN offset
      /\ here \in Int /\ here <= page[v]
  BY DEF Unplaced, PhaseInv, TypeOK, SlotInv, PagesInOrder
<1>2. /\ DOMAIN offset' = DOMAIN offset \cup {v} /\ offset'[v] = o
      /\ \A u \in DOMAIN offset : offset'[u] = offset[u]
      /\ here' = page[v]
  BY <1>1 DEF PlaceAt
<1>3. TypeOK'
  BY <1>1, <1>2 DEF TypeOK
<1>4. PhaseInv' /\ ColorInv'
  BY DEF PhaseInv, ColorInv
<1>5. RemapInv'
  BY DEF RemapInv, Key
<1>6. PagesInOrder'
  <2>1. \A u \in DOMAIN offset : u \in DOMAIN page /\ page[u] \in Nat /\ page[u] <= here
    BY DEF SlotInv, PagesInOrder, TypeOK, PhaseInv
  <2>2. \A u \in DOMAIN offset' : page[u] <= page[v]
    BY <2>1, <1>1, <1>2
  <2>3. \A u \in Unplaced : u \in DOMAIN page /\ page[u] \in Nat /\ page[v] <= page[u]
    BY <1>1 DEF PlacedBefore, Unplaced, PhaseInv, TypeOK
  <2>4. Unplaced' \subseteq Unplaced
    BY <1>2 DEF Unplaced
  <2> QED BY <2>2, <2>3, <2>4, <1>2 DEF PagesInOrder
<1>7. InSlots(here, slots)'
  <2> SUFFICES ASSUME NEW u \in DOMAIN offset', page[u] = page[v]
               PROVE  \E s \in slots' : /\ offset'[u] = s.offset
                                        /\ task.nbytes[u] <= s.size
                                        /\ task.end[u] <= s.end
    BY <1>2 DEF InSlots
  <2> QED BY <1>2 DEF Placed
<1>8. LivesApart'
  <2>1. ASSUME NEW u \in DOMAIN offset, page[u] = page[v]
        PROVE  \/ task.end[u] + ReuseGap <= task.start[v]
               \/ ~Overlap(u, v)' /\ ~Overlap(v, u)'
    <3>1. \/ task.end[u] + ReuseGap <= task.start[v]
          \/ offset[u] + task.nbytes[u] <= o
          \/ o + task.nbytes[v] <= offset[u]
      BY <2>1 DEF Placed
    <3>2. /\ offset[u] \in Nat /\ task.nbytes[u] \in Nat /\ task.nbytes[v] \in Nat
      BY <1>1 DEF TypeOK, IsTask
    <3> QED BY <3>1, <3>2, <1>2 DEF Overlap
  <2>2. ASSUME NEW u \in DOMAIN offset, NEW w \in DOMAIN offset, u # w,
               page[u] = page[w], Overlap(u, w)'
        PROVE  \/ task.end[u] + ReuseGap <= task.start[w]
               \/ task.end[w] + ReuseGap <= task.start[u]
    BY <2>2, <1>2 DEF Overlap, SlotInv, LivesApart
  <2> SUFFICES ASSUME NEW u \in DOMAIN offset', NEW w \in DOMAIN offset', u # w,
                      page[u] = page[w], Overlap(u, w)'
               PROVE  \/ task.end[u] + ReuseGap <= task.start[w]
                      \/ task.end[w] + ReuseGap <= task.start[u]
    BY DEF LivesApart
  <2> QED BY <2>1, <2>2, <1>2
<1>9. SlotsDisjoint(slots)' /\ SlotsBelow(slots, cursor)'
  BY DEF Placed, SlotsDisjoint, SlotsBelow
<1> QED BY <1>3, <1>4, <1>5, <1>6, <1>7, <1>8, <1>9 DEF SlotInv

\* Placing the next value, in a slot in use or a new one, keeps the invariant.
LEMMA PlaceValueStep == IInv /\ PlaceValue => IInv'
<1> SUFFICES ASSUME IInv, PlaceValue PROVE IInv'
  OBVIOUS
<1>1. phase = "place" /\ UNCHANGED <<task, phase, color, remap, page>>
  BY DEF PlaceValue
<1>2. PICK v \in Unplaced : /\ \A w \in Unplaced : PlacedBefore(v, w)
                            /\ \/ \E s \in Reusable(v) : ReuseSlot(v, s)
                               \/ Reusable(v) = {} /\ NewSlot(v)
  BY DEF PlaceValue
<1>3. /\ \A s \in SlotsFor(v) :
           /\ s = [offset |-> s.offset, size |-> s.size, nbytes |-> s.nbytes, end |-> s.end]
           /\ s.offset \in Nat /\ s.size \in Nat /\ s.nbytes \in Nat /\ s.end \in Nat
      /\ task.nbytes[v] \in Nat /\ task.end[v] \in Nat
  BY DEF SlotsFor, IInv, TypeOK, IsTask, Unplaced
<1>4. CASE \E s \in Reusable(v) : ReuseSlot(v, s)
  <2>1. PICK s \in Reusable(v) : ReuseSlot(v, s)
    BY <1>4
  <2>2. s \in SlotsFor(v) /\ PlaceAt(v, s.offset)
    BY <2>1 DEF Reusable, ReuseSlot
  <2>3. \A t \in slots' :
           /\ t = [offset |-> t.offset, size |-> t.size, nbytes |-> t.nbytes, end |-> t.end]
           /\ t.offset \in Nat /\ t.size \in Nat /\ t.nbytes \in Nat /\ t.end \in Nat
    <3>1. slots' = (SlotsFor(v) \ {s}) \cup {[s EXCEPT !.end = task.end[v]]}
      BY <2>1 DEF ReuseSlot
    <3>2. [s EXCEPT !.end = task.end[v]]
            = [offset |-> s.offset, size |-> s.size, nbytes |-> s.nbytes, end |-> task.end[v]]
      BY <2>2, <1>3
    <3> QED BY <3>1, <3>2, <2>2, <1>3
  <2>4. Placed(v, s.offset, slots', cursor') /\ s.offset \in Nat /\ cursor' \in Nat
    BY <1>1, <2>1, ReuseIsPlaced
  <2> QED BY <1>1, <1>2, <2>2, <2>3, <2>4, PlacedStep
<1>5. CASE NewSlot(v)
  <2>1. /\ Placed(v, AlignUp(CursorFor(v)), slots', cursor')
        /\ AlignUp(CursorFor(v)) \in Nat /\ cursor' \in Nat /\ AlignUp(task.nbytes[v]) \in Nat
    BY <1>1, <1>5, NewIsPlaced
  <2>2. PlaceAt(v, AlignUp(CursorFor(v)))
    BY <1>5 DEF NewSlot
  <2>3. \A t \in slots' :
           /\ t = [offset |-> t.offset, size |-> t.size, nbytes |-> t.nbytes, end |-> t.end]
           /\ t.offset \in Nat /\ t.size \in Nat /\ t.nbytes \in Nat /\ t.end \in Nat
    BY <1>3, <1>5, <2>1 DEF NewSlot
  <2> QED BY <1>1, <1>2, <2>1, <2>2, <2>3, PlacedStep
<1> QED BY <1>2, <1>4, <1>5

\* Ending the layout changes the phase only.
LEMMA PlacingDoneStep == IInv /\ PlacingDone => IInv'
<1> SUFFICES ASSUME IInv, PlacingDone PROVE IInv'
  OBVIOUS
<1> USE DEF IInv, PlacingDone
<1>1. TypeOK' /\ ColorInv'
  BY DEF TypeOK, ColorInv
<1>4. PhaseInv'
  <2>1. DOMAIN offset = task.values
    BY DEF TypeOK, Unplaced
  <2> QED BY <2>1 DEF PhaseInv
<1>2. RemapInv'
  BY DEF RemapInv, Key
<1>3. SlotInv'
  <2>1. InSlots(here, slots)' /\ PagesInOrder'
    BY DEF SlotInv, InSlots, PagesInOrder
  <2>2. LivesApart'
    BY DEF SlotInv, LivesApart, Overlap
  <2>3. SlotsDisjoint(slots)' /\ SlotsBelow(slots, cursor)'
    BY DEF SlotInv, SlotsDisjoint, SlotsBelow
  <2> QED BY <2>1, <2>2, <2>3 DEF SlotInv
<1> QED BY <1>1, <1>2, <1>3, <1>4

--------------------------------------------------------------------------------
(* The theorems                                                                 *)

\* Every step of the allocator keeps the inductive invariant.
LEMMA ArenaNext == IInv /\ [Next]_arenaVars => IInv'
<1> SUFFICES ASSUME IInv, [Next]_arenaVars PROVE IInv'
  OBVIOUS
<1>1. CASE UNCHANGED arenaVars
  <2> USE <1>1 DEF arenaVars, IInv
  <2>1. TypeOK' /\ PhaseInv' /\ ColorInv'
    BY DEF TypeOK, PhaseInv, ColorInv
  <2>2. RemapInv'
    BY DEF RemapInv, Key
  <2>3. InSlots(here, slots)' /\ PagesInOrder'
    BY DEF SlotInv, InSlots, PagesInOrder, Unplaced
  <2>4. LivesApart'
    BY DEF SlotInv, LivesApart, Overlap
  <2>5. SlotsDisjoint(slots)' /\ SlotsBelow(slots, cursor)'
    BY DEF SlotInv, SlotsDisjoint, SlotsBelow
  <2> QED BY <2>1, <2>2, <2>3, <2>4, <2>5 DEF SlotInv
<1>2. CASE Next
  BY <1>2, ColorStep, ColoringDoneStep, RemapValueStep, RemapDoneStep, PlaceValueStep,
     PlacingDoneStep DEF Next
<1> QED BY <1>1, <1>2

\* The allocator's inductive invariant holds in every run.
THEOREM ArenaInvariant == Spec => []IInv
<1>1. Init => IInv
  BY StartInv, ArenaAssumption DEF Init
<1> QED BY <1>1, ArenaNext, PTL DEF Spec

\* The allocator's state keeps its types, whatever it is given.
THEOREM TypeCorrect == Spec => []TypeOK
<1>1. IInv => TypeOK
  BY DEF IInv
<1> QED BY <1>1, ArenaInvariant, PTL

\* Conflicting values are on different pages, whatever the graph of conflicts.
THEOREM PagesSeparateConflicts == Spec => []NeighboursApart
<1>1. IInv => NeighboursApart
  <2> SUFFICES ASSUME IInv, NEW v \in DOMAIN page, NEW w \in task.adj[v] \cap DOMAIN page,
                      page[v] = page[w]
               PROVE  v = w \/ {v, w} \subseteq task.input
    BY DEF NeighboursApart
  <2>1. Key(v) = Key(w)
    BY DEF IInv, RemapInv
  <2>2. v \in DOMAIN color /\ w \in DOMAIN color
    BY DEF IInv, PhaseInv, TypeOK
  <2> QED BY <2>1, <2>2 DEF IInv, ColorInv, Key
<1> QED BY <1>1, ArenaInvariant, PTL

\* Values that share bytes are never alive together, for any sizes, alignment
\* and reuse options.
THEOREM SharedBytesLivesApart == Spec => []LivesApart
<1>1. IInv => LivesApart
  BY DEF IInv, SlotInv
<1> QED BY <1>1, ArenaInvariant, PTL

\* A page never mixes element types or layouts.
THEOREM PagesAreTyped == Spec => []TypedPages
<1>1. IInv => TypedPages
  <2> SUFFICES ASSUME IInv, NEW v \in DOMAIN page, NEW w \in DOMAIN page, page[v] = page[w]
               PROVE  task.store[v] = task.store[w]
    BY DEF TypedPages
  <2>1. Key(v) = Key(w)
    BY DEF IInv, RemapInv
  <2> QED BY <2>1 DEF Key
<1> QED BY <1>1, ArenaInvariant, PTL

================================================================================
