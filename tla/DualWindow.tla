------------------------------- MODULE DualWindow -------------------------------
(***************************************************************************)
(* _plan_dual_queue_window of engine.py: the part of the dispatch stream   *)
(* that two queues may run side by side, and the side of each dispatch.    *)
(* The search loop visits the dispatches in order and only looks back, so  *)
(* its result is the recursive definition below whatever the order of its  *)
(* worklist.                                                               *)
(***************************************************************************)
EXTENDS ReplayGraph

\* Dependencies between dispatches, through values as written (an alias
\* depends on its VIEW command).
Deps(p, d) ==
  {e \in Dispatches(p) \ {d} :
     \E c \in Owned(p, d), k \in Owned(p, e) : p.cmds[k].out \in Range(p.cmds[c].ins)}

Wave(p) ==
  LET wave[d \in Dispatches(p)] ==
        IF Deps(p, d) = {} THEN 0 ELSE Max({wave[e] + 1 : e \in Deps(p, d)})
  IN  wave

IsConv(p, d) == p.plan[d].fusion = 0 /\ p.cmds[p.plan[d].exec].kind = "CONV"

\* The convolutions of a wave, in order.
ConvsOf(p, w) == {d \in Dispatches(p) : IsConv(p, d) /\ Wave(p)[d] = w}

LastWave(p, w) ==
  CHOOSE x \in {Wave(p)[d] : d \in Dispatches(p)} :
    /\ x >= w /\ \A y \in w .. x : Cardinality(ConvsOf(p, y)) >= 2
    /\ Cardinality(ConvsOf(p, x + 1)) < 2

\* The second side grows from all but the first convolution of the first wave
\* along dependencies, through convolutions only.
SecondSide(p, w, first, last) ==
  LET seeds == ConvsOf(p, w) \ {Min(ConvsOf(p, w))}
      in[d \in Dispatches(p)] ==
        \/ d \in seeds
        \/ d \in first .. last /\ IsConv(p, d) /\ \E e \in Deps(p, d) : e < d /\ in[e]
  IN  {d \in Dispatches(p) : in[d]}

\* The window ends before the first dispatch that would have to join the
\* second side and is no convolution.
Cut(p, second, first, last) ==
  Min({last + 1} \cup {d \in first .. last : ~IsConv(p, d) /\ Deps(p, d) \cap second # {}}) - 1

NoWindow == [fork |-> 0, first |-> 1, last |-> 0, second |-> {}]

\* The window whose first wave is w, if it is one.
WindowAt(p, w) ==
  LET span   == {d \in Dispatches(p) : Wave(p)[d] \in w .. LastWave(p, w)}
      first  == Min(span)
      end    == Max(span)
      second == SecondSide(p, w, first, end)
      last   == Cut(p, second, first, end)
      window == first .. last
  IN  IF /\ end - first + 1 >= 4 /\ end < Len(p.plan) /\ first > 1
         /\ last > first
         /\ Cardinality(window \ second) >= 2 /\ Cardinality(window \cap second) >= 2
         /\ \A d \in window : \A e \in Deps(p, d) \cap window : (e \in second) <=> (d \in second)
      THEN [fork |-> first - 1, first |-> first, last |-> last, second |-> second]
      ELSE NoWindow

\* The first wave that gives a window gives the plan.
Window(p) ==
  LET waves == {w \in {Wave(p)[d] : d \in Dispatches(p)} :
                  Cardinality(ConvsOf(p, w)) >= 2 /\ WindowAt(p, w) # NoWindow}
  IN  IF Len(p.plan) < 6 \/ waves = {} THEN NoWindow ELSE WindowAt(p, Min(waves))

------------------------------------------------------------------------------
(* Sides of values (build_aexrt_engine)                                      *)

\* The values the commands of the window mention, in the order in which
\* parallel_side_values meets them.
Mentions(p, window) ==
  LET of(d) == FlattenSeq([i \in DOMAIN p.plan[d].logical |->
                 LET c == p.cmds[p.plan[d].logical[i]]
                 IN  <<[value |-> c.out, wrote |-> TRUE, at |-> d]>> \o
                     [k \in DOMAIN c.ins |-> [value |-> c.ins[k], wrote |-> FALSE, at |-> d]]])
  IN  FlattenSeq([d \in Dispatches(p) |->
                    IF d \in window.first .. window.last THEN of(d) ELSE << >>])

\* The values of the second side: a written value takes the side of its
\* writer, any other that of its first reader; aliases of one value are
\* settled by the one met last.
Hub(p, window) ==
  LET met      == Mentions(p, window)
      at(v)    == {i \in DOMAIN met : met[i].value = v}
      wrote(v) == {i \in at(v) : met[i].wrote}
      side(v)  == met[IF wrote(v) # {} THEN Max(wrote(v)) ELSE Min(at(v))].at
      names(c) == {v \in {met[i].value : i \in DOMAIN met} : Canonical(p)[v] = c}
      named(c) == CHOOSE v \in names(c) : \A w \in names(c) : Min(at(w)) <= Min(at(v))
  IN  {c \in ArenaValues(p) : names(c) # {} /\ side(named(c)) \in window.second}

================================================================================
