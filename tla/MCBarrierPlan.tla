----------------------------- MODULE MCBarrierPlan -----------------------------
(* Streams of four dispatches for TLC, over five values (1 is the input) that   *)
(* overlap or not on two pages: either dispatch d writes value d + 1 and reads  *)
(* one or two earlier ones, or one dispatch writes two values at once.  The     *)
(* window, if any, forks after dispatch 2 and its second side reads one page.   *)
EXTENDS BarrierPlan

MCValues == 1 .. 5

MCPlaces == {[page |-> 0, lo |-> 0, hi |-> 2], [page |-> 0, lo |-> 1, hi |-> 3],
             [page |-> 1, lo |-> 0, hi |-> 2], [page |-> 1, lo |-> 1, hi |-> 3]}

MCChains == {<<{1}, a, b, c>> : a \in {{1}, {2}, {1, 2}}, b \in {{1}, {3}, {2, 3}},
                                c \in {{2}, {4}, {1, 4}, {3, 4}}}

MCStreams == {<<r, <<{2}, {3}, {4}, {5}>>>> : r \in MCChains} \cup
             {<<<<{1}, a, b, {4}>>, <<{2}, {3, 4}, {5}, {2, 3}>>>> :
                a \in {{1}, {2}}, b \in {{3}, {3, 4}}}

MCAllJobs ==
  {[reads |-> s[1], writes |-> s[2], where |-> w,
    fork |-> IF h = -1 THEN 0 ELSE 2,
    hoist |-> [p \in {h} \cap {w[v].page : v \in MCValues} |->
                 CHOOSE v \in MCValues : w[v].page = p]] :
   s \in MCStreams, w \in [MCValues -> MCPlaces], h \in -1 .. 1}

MCApart(j, d) == \A v \in j.reads[d], w \in j.writes[d] : j.where[v].page # j.where[w].page

\* The arena sees to it that a dispatch reads and writes different pages; only
\* the last one may not.
MCJobs == {j \in MCAllJobs : \A d \in 1 .. 3 : MCApart(j, d)}
================================================================================
