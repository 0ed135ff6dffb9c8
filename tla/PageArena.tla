------------------------------- MODULE PageArena -------------------------------
(***************************************************************************)
(* build_page_colored_arena of memory_v2.py: where every value of a replay *)
(* lives.  A page is one GPU buffer, and all of a page is in one resource  *)
(* state at a time, so a dispatch's inputs and outputs must be on different*)
(* pages; within a page, byte ranges (slots) are reused by values whose    *)
(* life is over.                                                           *)
(*                                                                         *)
(* A task is what the function has derived from the replay before it starts*)
(* to allocate (ReplayGraph!ArenaTask):                                    *)
(*   values, input   the arena values, and those written by the caller     *)
(*   adj             the conflict edges                                    *)
(*   start, end      first and one past the last use of a value, as stages *)
(*   nbytes, store   a value's size, its element type and layout           *)
(* The loops of the function are the phases color, remap, place.           *)
(***************************************************************************)
EXTENDS Integers, FiniteSets

CONSTANTS
  Tasks,        \* the allocation problems considered
  Alignment,    \* arena_alignment
  ReuseSlots,   \* arena_reuse_slots
  ReuseGap,     \* arena_reuse_gap
  ReuseExact    \* arena_reuse_exact_size

IsTask(t) ==
  /\ t.values \subseteq Nat /\ IsFiniteSet(t.values)
  /\ t.input \subseteq t.values
  /\ t.adj \in [t.values -> SUBSET t.values]
  /\ \A v \in t.values, w \in t.values : w \in t.adj[v] => v \in t.adj[w]
  /\ t.start \in [t.values -> Nat] /\ t.end \in [t.values -> Nat]
  /\ \A v \in t.values : t.start[v] <= t.end[v]
  /\ t.nbytes \in [t.values -> Nat \ {0}]
  /\ DOMAIN t.store = t.values

ASSUME ArenaAssumption ==
  /\ \A t \in Tasks : IsTask(t)
  /\ Alignment \in Nat \ {0}
  /\ ReuseSlots \in BOOLEAN /\ ReuseExact \in BOOLEAN
  /\ ReuseGap \in Nat

VARIABLES
  task,     \* the problem being solved
  phase,    \* "color", "remap", "place", "done"
  color,    \* page_by_value as the coloring loop leaves it
  remap,    \* (color, storage) -> page
  page,     \* page_by_value after the remap
  here,     \* the page being laid out; -1: none yet
  slots,    \* its slots
  cursor,   \* its first byte past the last slot
  offset    \* value -> first byte, for the values placed

arenaVars == <<task, phase, color, remap, page, here, slots, cursor, offset>>

AlignUp(n) == ((n + Alignment - 1) \div Alignment) * Alignment

\* Before any value but the inputs has a color; the inputs are on page 0.
Start(t) ==
  /\ phase = "color"
  /\ color = [v \in t.input |-> 0]
  /\ remap = << >> /\ page = << >>
  /\ here = -1 /\ slots = {} /\ cursor = 0 /\ offset = << >>

Init == task \in Tasks /\ Start(task)

------------------------------------------------------------------------------
(* The coloring loop                                                         *)

Uncolored == task.values \ DOMAIN color

NeighbourColors(v) == {color[n] : n \in task.adj[v] \cap DOMAIN color}

\* The key of the max: colors around v, then neighbours, then the lower id.
ColoredBefore(v, w) ==
  LET seen(x) == Cardinality(NeighbourColors(x))
      near(x) == Cardinality(task.adj[x])
  IN  \/ seen(v) > seen(w)
      \/ seen(v) = seen(w) /\ near(v) > near(w)
      \/ seen(v) = seen(w) /\ near(v) = near(w) /\ v < w

LeastUnused(c, used) == c \notin used /\ \A d \in 0 .. c - 1 : d \in used

\* (mutant of Color: the colors of earlier values only)
ColorForgetsLater ==
  /\ phase = "color"
  /\ \E v \in Uncolored :
       /\ \A w \in Uncolored \ {v} : ColoredBefore(v, w)
       /\ \E c \in 0 .. Cardinality(task.values) :
            /\ LeastUnused(c, {color[n] : n \in {m \in task.adj[v] \cap DOMAIN color : m < v}})
            /\ color' = [x \in DOMAIN color \cup {v} |-> IF x = v THEN c ELSE color[x]]
  /\ UNCHANGED <<task, phase, remap, page, here, slots, cursor, offset>>

Color ==
  /\ phase = "color"
  /\ \E v \in Uncolored :
       /\ \A w \in Uncolored \ {v} : ColoredBefore(v, w)
       /\ \E c \in 0 .. Cardinality(task.values) :
            /\ LeastUnused(c, NeighbourColors(v))
            /\ color' = [x \in DOMAIN color \cup {v} |-> IF x = v THEN c ELSE color[x]]
  /\ UNCHANGED <<task, phase, remap, page, here, slots, cursor, offset>>

ColoringDone ==
  /\ phase = "color" /\ Uncolored = {}
  /\ phase' = "remap"
  /\ UNCHANGED <<task, color, remap, page, here, slots, cursor, offset>>

------------------------------------------------------------------------------
(* One element type and layout per page                                      *)

\* (mutant of Key: the storage is not part of the key)
ColorOnly(v) == <<color[v]>>

Key(v) == <<color[v], task.store[v]>>

\* The next value in order of id gets the page of its key, a new one if the
\* key is new: len(remap) is the least number not in use.
RemapValue ==
  /\ phase = "remap"
  /\ \E v \in task.values \ DOMAIN page :
       /\ \A w \in task.values \ DOMAIN page : v <= w
       /\ \E p \in 0 .. Cardinality(task.values) :
            /\ IF Key(v) \in DOMAIN remap
               THEN p = remap[Key(v)] /\ remap' = remap
               ELSE /\ LeastUnused(p, {remap[k] : k \in DOMAIN remap})
                    /\ remap' = [k \in DOMAIN remap \cup {Key(v)} |->
                                   IF k = Key(v) THEN p ELSE remap[k]]
            /\ page' = [x \in DOMAIN page \cup {v} |-> IF x = v THEN p ELSE page[x]]
  /\ UNCHANGED <<task, phase, color, here, slots, cursor, offset>>

RemapDone ==
  /\ phase = "remap" /\ DOMAIN page = task.values
  /\ phase' = "place"
  /\ UNCHANGED <<task, color, remap, page, here, slots, cursor, offset>>

------------------------------------------------------------------------------
(* Slots, page by page, in order of (start, id)                              *)

Unplaced == task.values \ DOMAIN offset

PlacedBefore(v, w) ==
  \/ page[v] < page[w]
  \/ page[v] = page[w] /\ task.start[v] < task.start[w]
  \/ page[v] = page[w] /\ task.start[v] = task.start[w] /\ v <= w

\* The slots and cursor that the page of v starts with.
SlotsFor(v)  == IF page[v] = here THEN slots ELSE {}
CursorFor(v) == IF page[v] = here THEN cursor ELSE 0

\* (mutant of Reusable: a slot may be taken one stage early)
ReusableEarly(v) ==
  {s \in SlotsFor(v) : /\ ReuseSlots
                       /\ s.end <= task.start[v] + 1
                       /\ s.size >= task.nbytes[v]
                       /\ ReuseExact => s.nbytes = task.nbytes[v]}

Reusable(v) ==
  {s \in SlotsFor(v) : /\ ReuseSlots
                       /\ s.end + ReuseGap <= task.start[v]
                       /\ s.size >= task.nbytes[v]
                       /\ ReuseExact => s.nbytes = task.nbytes[v]}

PlaceAt(v, o) ==
  /\ here' = page[v]
  /\ offset' = [x \in DOMAIN offset \cup {v} |-> IF x = v THEN o ELSE offset[x]]

ReuseSlot(v, s) ==
  /\ \A t \in Reusable(v) : s.size < t.size \/ (s.size = t.size /\ s.offset <= t.offset)
  /\ slots' = (SlotsFor(v) \ {s}) \cup {[s EXCEPT !.end = task.end[v]]}
  /\ cursor' = CursorFor(v)
  /\ PlaceAt(v, s.offset)

NewSlot(v) ==
  LET at == AlignUp(CursorFor(v))
  IN  /\ slots' = SlotsFor(v) \cup {[offset |-> at, size |-> AlignUp(task.nbytes[v]),
                                     nbytes |-> task.nbytes[v], end |-> task.end[v]]}
      /\ cursor' = at + AlignUp(task.nbytes[v])
      /\ PlaceAt(v, at)

PlaceValue ==
  /\ phase = "place"
  /\ \E v \in Unplaced :
       /\ \A w \in Unplaced : PlacedBefore(v, w)
       /\ \/ \E s \in Reusable(v) : ReuseSlot(v, s)
          \/ Reusable(v) = {} /\ NewSlot(v)
  /\ UNCHANGED <<task, phase, color, remap, page>>

PlacingDone ==
  /\ phase = "place" /\ Unplaced = {}
  /\ phase' = "done"
  /\ UNCHANGED <<task, color, remap, page, here, slots, cursor, offset>>

Next == Color \/ ColoringDone \/ RemapValue \/ RemapDone \/ PlaceValue \/ PlacingDone

Spec == Init /\ [][Next]_arenaVars

------------------------------------------------------------------------------
(* What the arena promises                                                   *)

Overlap(v, w) ==
  offset[v] < offset[w] + task.nbytes[w] /\ offset[w] < offset[v] + task.nbytes[v]

\* Types and domains of the allocator's state.
TypeOK ==
  /\ IsTask(task)
  /\ phase \in {"color", "remap", "place", "done"}
  /\ DOMAIN color \subseteq task.values /\ task.input \subseteq DOMAIN color
  /\ \A v \in DOMAIN color : color[v] \in Nat
  /\ DOMAIN page \subseteq task.values
  /\ \A v \in DOMAIN page : page[v] \in Nat
  /\ DOMAIN offset \subseteq task.values
  /\ \A v \in DOMAIN offset : offset[v] \in Nat
  /\ here \in Int /\ cursor \in Nat
  /\ \A s \in slots : /\ s = [offset |-> s.offset, size |-> s.size, nbytes |-> s.nbytes, end |-> s.end]
                      /\ s.offset \in Nat /\ s.size \in Nat /\ s.nbytes \in Nat /\ s.end \in Nat

\* Two values with a conflict edge are never on one page, unless the caller
\* writes both: a dispatch never reads and writes the same resource
\* (memory_v2.py:351-394, test_page_coloring_separates_every_dispatch_input_from_output).
NeighboursApart ==
  \A v \in DOMAIN page : \A w \in task.adj[v] \cap DOMAIN page :
     page[v] = page[w] => v = w \/ {v, w} \subseteq task.input

\* Values that share bytes are never alive together: one is over, by the gap
\* asked for, before the other starts (memory_v2.py:447-486).
LivesApart ==
  \A v, w \in DOMAIN offset :
     v # w /\ page[v] = page[w] /\ Overlap(v, w)
       => \/ task.end[v] + ReuseGap <= task.start[w]
          \/ task.end[w] + ReuseGap <= task.start[v]

\* All values of a page have the element type and layout of its typed views
\* (memory_v2.py:435-443).
TypedPages ==
  \A v, w \in DOMAIN page : page[v] = page[w] => task.store[v] = task.store[w]

================================================================================
