------------------------------ MODULE MemoryPlan ------------------------------
(***************************************************************************)
(* The memory plan of a graph: infer_value_specs, build_memory_plan with   *)
(* _allocate_buffers, and the arena of the schedule, which gives every     *)
(* allocation its place.                                                   *)
(*                                                                         *)
(* A spec is [shape, dtype]; -1 is a dimension not known before a run.     *)
(* What may be missing (a spec, a shape) is a set of at most one element.  *)
(* Steps count from 1, so 0 stands for the None of a producer or a reader. *)
(***************************************************************************)
EXTENDS GraphOptimizer

CONSTANT alignment   \* of an allocation in the arena

ASSUME AlignmentAssumption == alignment \in Nat \ {0}

SpecOf(shape, dtype) == [shape |-> shape, dtype |-> dtype]

Unknown == -1

The(S) == CHOOSE s \in S : TRUE

\* The arguments of key, the one with the least value first; no two are equal.
Sorted(key) ==
  [i \in 1 .. Cardinality(DOMAIN key) |->
     CHOOSE x \in DOMAIN key : Cardinality({y \in DOMAIN key : key[y] < key[x]}) = i - 1]

------------------------------------------------------------------------------
(* infer_value_specs                                                          *)

_broadcast_shape(a, b) ==
  LET n        == Max({Len(a), Len(b)})
      dims(i)  == {Padded(a, n)[i], Padded(b, n)[i]}
      known(i) == dims(i) \ {1, -1}
  IN  IF \E i \in 1 .. n : Cardinality(known(i)) > 1 THEN {}
      ELSE {[i \in 1 .. n |-> IF known(i) # {} THEN Min(known(i))
                              ELSE IF -1 \in dims(i) THEN -1 ELSE 1]}

\* (mutant of _matmul_shape: the right operand's batch dimensions are left out)
MatmulShape_Left(a, b) == {SubSeq(a, 1, Len(a) - 1) \o <<b[Len(b)]>>}

_matmul_shape(a, b) ==
  LET batch(s) == SubSeq(s, 1, Len(s) - 2)
  IN  IF a = <<>> \/ b = <<>> THEN {}
      ELSE IF Len(a) = 1 /\ Len(b) = 1 THEN {<<>>}
      ELSE IF Len(a) = 1 THEN {Append(batch(b), b[Len(b)])}
      ELSE IF Len(b) = 1 THEN {Append(batch(a), a[Len(a) - 1])}
      ELSE {s \o <<a[Len(a) - 1], b[Len(b)]>> : s \in _broadcast_shape(batch(a), batch(b))}

_reshape_shape(s, asked) ==
  LET total == Product(s)
      rest  == Product(SelectSeq(asked, LAMBDA d : d # -1))
  IN  IF \/ Cardinality({i \in DOMAIN asked : asked[i] = -1}) # 1
         \/ \E i \in DOMAIN s : s[i] < 0
         \/ rest = 0 \/ total % rest # 0
      THEN asked
      ELSE [i \in DOMAIN asked |-> IF asked[i] = -1 THEN total \div rest ELSE asked[i]]

_conv_pool_shape(s, a) ==
  LET out(n, p, k, t, d) == (n + p - d * (k - 1) - 1) \div t + 1
  IN  IF Len(s) # 4 THEN {}
      ELSE IF s[3] < 0 \/ s[4] < 0 THEN {<<s[1], s[2], -1, -1>>}
      ELSE {<<s[1], s[2], out(s[3], a[3] + a[5], a[1], a[7], a[9]),
              out(s[4], a[4] + a[6], a[2], a[8], a[10])>>}

SliceLength(dim, from, to, step) ==
  IF dim < 0 THEN -1
  ELSE LET start == Max({0, from})
           end   == Min({dim, to})
           count == end - start + step - 1
       IN  Max({0, IF step > 0 THEN count \div step ELSE (-count) \div (-step)})

ConcatLength(dims) ==
  IF \E i \in DOMAIN dims : dims[i] < 0 THEN -1 ELSE FoldLeft(LAMBDA m, n : m + n, 0, dims)

\* in: the specs of the inputs, each a set of at most one.
OutSpec(n, in) ==
  LET S(i)    == The(in[i]).shape
      D(i)    == The(in[i]).dtype
      has(I)  == \A i \in I : in[i] # {}
      axis    == Axis(n.attr[1], S(1))
      like(shapes) == {SpecOf(s, D(1)) : s \in shapes}
  IN
  CASE n.op \in {"Identity", "BatchNormalization", "Relu", "Gelu", "Sigmoid", "Tanh", "Softmax",
                  "LayerNorm", "RoPE"} -> in[1]
    [] n.op \in Elementwise /\ has({1, 2}) -> like(_broadcast_shape(S(1), S(2)))
    [] n.op \in {"MatMul", "FusedLinear"} /\ has({1, 2}) -> like(_matmul_shape(S(1), S(2)))
    [] n.op = "MaxPool" /\ has({1}) -> like(_conv_pool_shape(S(1), n.attr))
    [] n.op = "Reshape" /\ has({1}) -> like({_reshape_shape(S(1), n.attr)})
    [] n.op = "Transpose" /\ has({1}) -> like({[i \in DOMAIN n.attr |-> S(1)[n.attr[i] + 1]]})
    [] n.op = "Slice" /\ has({1}) ->
         like({[S(1) EXCEPT ![Axis(n.attr[3], S(1))] = SliceLength(@, n.attr[1], n.attr[2], n.attr[4])]})
    [] n.op = "Concat" /\ has(DOMAIN in) ->
         like({[S(1) EXCEPT ![axis] = ConcatLength([i \in DOMAIN in |-> S(i)[axis]])]})
    [] n.op = "Embedding" /\ has({1, 2}) -> {SpecOf(Append(S(1), Last(S(2))), D(2))}
    [] n.op = "SDPA" /\ has({1, 3}) -> like({Append(Front(S(1)), Last(S(3)))})
    [] OTHER -> {}

\* The spec of every value that has one.
infer_value_specs(g) ==
  LET given == [v \in DOMAIN g.constants |-> SpecOf(g.constants[v].shape, g.constants[v].dtype)]
      known(specs, v) == IF v \in DOMAIN specs THEN {specs[v]} ELSE {}
  IN  FoldLeft(LAMBDA specs, n :
                 LET inferred == OutSpec(n, [i \in DOMAIN n.in |-> known(specs, n.in[i])])
                 IN  IF inferred = {} THEN specs ELSE (n.out :> The(inferred)) @@ specs,
               g.inputs @@ given, g.nodes)

------------------------------------------------------------------------------
(* build_memory_plan                                                          *)

_DTYPE_NBYTES == [int32 |-> 4, float32 |-> 4, int64 |-> 8, float64 |-> 8]

_estimate_nbytes(specs, v) ==
  IF v \notin DOMAIN specs \/ \E i \in DOMAIN specs[v].shape : specs[v].shape[i] < 0
  THEN Unknown
  ELSE Product(specs[v].shape) * _DTYPE_NBYTES[specs[v].dtype]

\* One value of the plan: the step that makes it, the first and the last to read it.
ValuePlan(g, specs, v) ==
  LET made  == {i \in DOMAIN g.nodes : g.nodes[i].out = v}
      reads == {i \in DOMAIN g.nodes : v \in Range(g.nodes[i].in)}
  IN  [name      |-> v,
       kind      |-> IF v \in DOMAIN g.constants THEN "constant"
                     ELSE IF v \in DOMAIN g.inputs THEN "input"
                     ELSE IF v \in g.outputs THEN "output" ELSE "temporary",
       nbytes    |-> _estimate_nbytes(specs, v),
       producer  |-> Max({0} \cup made),
       first_use |-> IF reads = {} THEN 0 ELSE Min(reads),
       last_use  |-> Max({0} \cup reads)]

ValueNames(g) ==
  DOMAIN g.inputs \cup DOMAIN g.constants \cup g.outputs
    \cup UNION {Range(g.nodes[i].in) \cup {g.nodes[i].out} : i \in DOMAIN g.nodes}

\* (mutant of _ranges_overlap: the ends may meet)
RangesOverlap_Ends(a, b) == 0 \in {a[1], a[2], b[1], b[2]} \/ ~(a[2] <= b[1] \/ b[2] <= a[1])

_ranges_overlap(a, b) == 0 \in {a[1], a[2], b[1], b[2]} \/ ~(a[2] < b[1] \/ b[2] < a[1])

_value_lifetime(v) == <<IF v.producer # 0 THEN v.producer ELSE v.first_use,
                        IF v.last_use # 0 THEN v.last_use ELSE v.producer>>

\* The lifetime of an allocation that takes another value, 0 being no bound.
Widened(life, other) ==
  LET starts == {life[1], other[1]} \ {0}
      ends   == {life[2], other[2]} \ {0}
  IN  <<IF starts = {} THEN 0 ELSE Min(starts), IF ends = {} THEN 0 ELSE Max(ends)>>

\* The allocations a temporary may share.
Candidates(blocks, v) ==
  {b \in DOMAIN blocks :
     /\ blocks[b].kind \in {"temporary", "shared"}
     /\ blocks[b].nbytes # Unknown /\ blocks[b].nbytes >= v.nbytes
     /\ ~_ranges_overlap(blocks[b].life, <<v.first_use, v.last_use>>)}

\* The allocations of the values of s in order, the names of their values in each.
_allocate_buffers(s) ==
  LET alone(v) == [kind |-> v.kind, nbytes |-> v.nbytes, life |-> _value_lifetime(v),
                   values |-> {v.name}]
      placed(blocks, v) ==
        LET may == IF v.kind = "temporary" /\ v.nbytes # Unknown THEN Candidates(blocks, v) ELSE {}
        IN  IF may = {} THEN Append(blocks, alone(v))
            ELSE [blocks EXCEPT ![Min(may)] =
                    [@ EXCEPT !.kind = "shared", !.life = Widened(@, _value_lifetime(v)),
                              !.values = @ \cup {v.name}]]
  IN  FoldLeft(placed, <<>>, s)

------------------------------------------------------------------------------
(* The arena.                                                                 *)

_align(value) == ((value + alignment - 1) \div alignment) * alignment

kind_order == <<"constant", "input", "output", "shared", "temporary">>

\* The place of each allocation in the order: by its kind, then by its number.
_arena_sort_key(blocks) ==
  [b \in DOMAIN blocks |->
     Len(blocks) * (CHOOSE r \in DOMAIN kind_order : kind_order[r] = blocks[b].kind) + b]

\* The bytes an allocation is given: none when its size is not known.
SlotSize(block) == IF block.nbytes = Unknown THEN 0 ELSE block.nbytes

\* Where each allocation starts.
build_lifetime_colored_arena(blocks) ==
  LET order == Sorted(_arena_sort_key(blocks))
      place(at, b) ==
        [offset |-> at.offset @@ (b :> _align(at.end)), end |-> _align(at.end) + SlotSize(blocks[b])]
  IN  FoldLeft(place, [offset |-> <<>>, end |-> 0], order).offset

\* The plan of a graph: its values, and where the bytes of each are.
build_memory_plan(g, specs) ==
  LET values == [v \in ValueNames(g) |-> ValuePlan(g, specs, v)]
      order  == Sorted([v \in ValueNames(g) |-> v])
      blocks == _allocate_buffers([i \in DOMAIN order |-> values[order[i]]])
      offset == build_lifetime_colored_arena(blocks)
      block  == [v \in ValueNames(g) |-> CHOOSE b \in DOMAIN blocks : v \in blocks[b].values]
  IN  [values |-> values, block |-> block, start |-> [v \in ValueNames(g) |-> offset[block[v]]]]
================================================================================
