----------------------------- MODULE MCNativeDevice -----------------------------
(* Two threads on one device: shared weights (2) and bias (3), a view (5) of    *)
(* the second half of 4, an output for each thread (6, 7).                      *)
EXTENDS NativeDevice

Node(op, a, b, y) == [op |-> op, in0 |-> a, in1 |-> b, out |-> y]
Desc(inputs, consts, nodes, y) == [inputs |-> inputs, consts |-> consts, nodes |-> nodes, output |-> y]

\* Fused, with a constant.
FusedGraph   == Desc(2, <<2>>, <<Node("add", 0, 1, 3), Node("mul", 3, 2, 4)>>, 4)
\* Node by node, as value 1 is written twice.
RewriteGraph == Desc(1, <<>>, <<Node("relu", 0, 0, 1), Node("add", 1, 0, 2), Node("gelu", 2, 0, 1)>>, 1)
MCGraphs == <<FusedGraph, RewriteGraph>>

MCBuffers ==
  [h \in 1 .. 7 |-> IF h = 5 THEN [res |-> 4, lo |-> 0, n |-> 1] ELSE [res |-> h, lo |-> 0, n |-> 1]]

MCDispatches ==
  <<[kind |-> "upload", args |-> <<2, 3, 6>>, ring |-> 2],
    [kind |-> "conv", args |-> <<1, 2, 3, 7>>, ring |-> 1]>>

C(kind, on) == [kind |-> kind, on |-> on]

MCUses ==
  <<{C("run", 1), C("execute_upload", 1), C("download", 6), C("concat", <<4, 2, 3, 6>>)},
    {C("run", 2), C("execute", 2), C("concat", <<4, 5, 2, 3, 7>>)}>>

ASSUME ThreadsOwnWhatTheyUse == OneOwner
================================================================================
