------------------------------ MODULE MCPageArena ------------------------------
(* Allocation problems on four values for TLC: one input and three values     *)
(* produced by stages 0, 1, 2, any conflict edges, small and large sizes.     *)
EXTENDS PageArena

MCValues == 1 .. 4

MCEdges == {e \in SUBSET MCValues : Cardinality(e) = 2}

MCTask(edges, last, big, typed) ==
  LET first == [v \in MCValues |-> v - 1]
  IN  [values |-> MCValues, input |-> {1},
       adj    |-> [v \in MCValues |-> {w \in MCValues \ {v} : {v, w} \in edges}],
       start  |-> first,
       end    |-> [v \in MCValues |-> first[v] + last[v]],
       nbytes |-> [v \in MCValues |-> IF v \in big THEN 6 ELSE 3],
       store  |-> [v \in MCValues |-> IF v \in typed THEN "fp16" ELSE "fp32"]]

MCTasks ==
  {MCTask(e, l, b, t) : e \in SUBSET MCEdges,
                        l \in {f \in [MCValues -> 0 .. 2] : f[1] > 0},
                        b \in {{2}, {1, 3}}, t \in {{}, {3}}}
================================================================================
