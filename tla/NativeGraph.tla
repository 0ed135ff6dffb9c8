------------------------------ MODULE NativeGraph ------------------------------
(***************************************************************************)
(* Graphs of the native C interface (aexrt_compile_graph): elementwise     *)
(* nodes over numbered values, of which the first are the inputs.  A graph *)
(* in which every node reads what is there and writes something new runs   *)
(* as one fused dispatch; any other runs node by node over one buffer per  *)
(* value, when all its nodes are of the three kinds that have a kernel.    *)
(*                                                                         *)
(* A description is [inputs, consts, nodes, output]: the number of inputs, *)
(* the values of the scalar constants, the nodes [op, in0, in1, out] and   *)
(* the value returned.                                                     *)
(***************************************************************************)
EXTENDS GpuCommands

MaxGraphInputs == 16

Unary  == {"relu", "gelu", "sigmoid", "tanh"}
Binary == {"add", "sub", "mul", "div"}

NodeValues(n) == {n.in0, n.in1, n.out}

\* The values a node's operation reads; in1 of a unary node is ignored.
NodeReads(n) == IF n.op \in Binary THEN {n.in0, n.in1} ELSE {n.in0}

\* The values a description names.
Named(d) ==
  {d.inputs - 1, d.output} \cup Range(d.consts) \cup UNION {NodeValues(n) : n \in Range(d.nodes)}

graph_value_count(d) == 1 + Max(Named(d))

\* What is there when the loop of validate_elementwise_dag gets to node i.
Available(d, i) ==
  (0 .. d.inputs - 1) \cup Range(d.consts) \cup {d.nodes[j].out : j \in 1 .. i - 1}

validate_elementwise_dag(d) ==
  /\ d.inputs \in 1 .. MaxGraphInputs /\ d.nodes # <<>>
  /\ Range(d.consts) \cap (0 .. d.inputs - 1) = {}
  /\ \A i \in DOMAIN d.nodes :
       /\ d.nodes[i].out \notin Available(d, i)
       /\ d.nodes[i].op \in Unary \cup Binary
       /\ NodeReads(d.nodes[i]) \subseteq Available(d, i)
  /\ \E n \in Range(d.nodes) : n.out = d.output

\* ensure_graph_pipelines and the checks of aexrt_compile_graph.
Compiles(d) ==
  /\ d.inputs \in 1 .. MaxGraphInputs /\ d.nodes # <<>>
  /\ \/ validate_elementwise_dag(d)
     \/ \A n \in Range(d.nodes) : n.op \in {"relu", "gelu", "add"}
  /\ IsInjective(d.consts)

\* The values that get a buffer.
Allocated(d) ==
  IF validate_elementwise_dag(d) THEN (0 .. d.inputs - 1) \cup {d.output}
  ELSE 0 .. graph_value_count(d) - 1

(* The lists, over the cells at[v] of the resources res[v] of the values.     *)

Around(ins, out, run) ==
  LET enter(r, s) == Barrier(r, "COMMON", s)
      leave(r, s) == Barrier(r, s, "COMMON")
  IN  [i \in DOMAIN ins |-> enter(ins[i], "SRV")] \o <<enter(out, "UAV"), run, leave(out, "UAV")>>
      \o [i \in DOMAIN ins |-> leave(Reverse(ins)[i], "SRV")]

\* Literals take the place of the constants, inner values are registers.
record_fused_graph(d, res, at) ==
  Around([i \in 1 .. d.inputs |-> res[i - 1]], res[d.output],
         Run(0, UNION {at[v] : v \in 0 .. d.inputs - 1}, at[d.output]))

NodeCommands(n, res, at) ==
  Around(IF n.op \in Binary THEN <<res[n.in0], res[n.in1]>> ELSE <<res[n.in0]>>, res[n.out],
         Run(0, UNION {at[v] : v \in NodeReads(n)}, at[n.out]))

record_compiled_graph(d, res, at) ==
  FlattenSeq([i \in DOMAIN d.nodes |-> NodeCommands(d.nodes[i], res, at)])

GraphList(d, res, at) ==
  IF validate_elementwise_dag(d) THEN record_fused_graph(d, res, at)
  ELSE record_compiled_graph(d, res, at)

(* What a caller has to know of a graph that is not fused (the code accepts   *)
(* it without a word).                                                        *)

\* Every node reads inputs or what an earlier node of the same run wrote.
ReadsOwnValues(d) ==
  \A i \in DOMAIN d.nodes :
     NodeReads(d.nodes[i]) \subseteq
       (0 .. d.inputs - 1) \cup {d.nodes[j].out : j \in 1 .. i - 1}

\* No node names one value twice.
OperandsDiffer(d) ==
  \A n \in Range(d.nodes) :
     n.out \notin NodeReads(n) /\ (n.op \in Binary => n.in0 # n.in1)

\* The value returned is an input or made by a node.
OutputIsMade(d) ==
  d.output \in (0 .. d.inputs - 1) \cup {n.out : n \in Range(d.nodes)}
================================================================================
