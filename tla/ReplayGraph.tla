------------------------------ MODULE ReplayGraph ------------------------------
(***************************************************************************)
(* What the engine compiler derives from a replay: the value DAG of        *)
(* build_physical_value_dag, and from it the allocation problem given to   *)
(* the arena (PageArena) and the stream given to the barrier planner       *)
(* (BarrierPlan).                                                          *)
(*                                                                         *)
(* A program p is                                                          *)
(*   size     bytes of value v, for v in 1 .. Len(size)                    *)
(*   input, consts, half   the input value, the constants, those in fp16   *)
(*   cmds     the commands: kind "CONV" (CONV, CONV_SILU), "VIEW" (VIEW,   *)
(*            ALIAS) or "OTHER", the values read in order, the one written *)
(*   plan     the physical dispatches: fusion kind, the commands owned in  *)
(*            order, the one executed                                      *)
(*   output   the value handed to the detection head                       *)
(*   parallel parallel_plan: the engine has a section 12                   *)
(* Commands, dispatches and values are numbered from 1, stages from 0.     *)
(***************************************************************************)
EXTENDS Integers, Sequences, FiniteSets, FiniteSetsExt, SequencesExt

Values(p)     == DOMAIN p.size
Dispatches(p) == DOMAIN p.plan
Owned(p, d)   == Range(p.plan[d].logical)
IsView(p, c)  == p.cmds[c].kind = "VIEW"

\* An alias is its source's storage: the canonical value of v.
AliasSource(p) ==
  [v \in {p.cmds[c].out : c \in {k \in DOMAIN p.cmds : IsView(p, k)}} |->
     p.cmds[CHOOSE c \in DOMAIN p.cmds : IsView(p, c) /\ p.cmds[c].out = v].ins[1]]

Canonical(p) ==
  LET source == AliasSource(p)
      resolve[v \in Values(p)] == IF v \in DOMAIN source THEN resolve[source[v]] ELSE v
  IN  resolve

Material(p, d) == {c \in Owned(p, d) : ~IsView(p, c)}

ReadBy(p, c)    == {Canonical(p)[v] : v \in Range(p.cmds[c].ins)}
WrittenBy(p, c) == Canonical(p)[p.cmds[c].out]

Produced(p, d) == {WrittenBy(p, c) : c \in Material(p, d)}
External(p, d) == (UNION {ReadBy(p, c) : c \in Material(p, d)}) \ Produced(p, d)

\* The outputs that reach the arena; the others stay in registers.
Materialized(p, d) ==
  CASE Material(p, d) = {}                -> {}
    [] p.plan[d].fusion \in {0, 1}       -> Produced(p, d)
    [] p.plan[d].fusion \in {2, 6, 8, 9} -> {WrittenBy(p, Last(p.plan[d].logical))}
    [] p.plan[d].fusion \in {3, 7}       -> {WrittenBy(p, p.plan[d].exec)}
    [] OTHER                             -> {}     \* 4: the detection head

\* Stages count the dispatches that run a kernel.
StageCount(p)  == Cardinality({d \in Dispatches(p) : Material(p, d) # {}})
Stage(p, d)    == Cardinality({e \in 1 .. d - 1 : Material(p, e) # {}})
Producers(p, v) == {d \in Dispatches(p) : v \in Produced(p, d)}
Consumers(p, v) == {d \in Dispatches(p) : v \in External(p, d)}

------------------------------------------------------------------------------
(* The allocation problem                                                    *)

\* Outputs a kind 9 chain keeps in registers have no place in the arena.
Suppressed(p) ==
  UNION {Produced(p, d) \ Materialized(p, d) : d \in {e \in Dispatches(p) : p.plan[e].fusion = 9}}

ArenaValues(p) ==
  ({p.input} \cup {v \in Values(p) : Producers(p, v) # {}})
    \ (DOMAIN AliasSource(p) \cup p.consts \cup (Suppressed(p) \ {p.input}))

\* The form of a replay and of its plan.
IsProgram(p) ==
  /\ p.size \in Seq(Nat \ {0})
  /\ p.cmds \in Seq([kind : {"CONV", "VIEW", "OTHER"}, ins : Seq(Values(p)), out : Values(p)])
  /\ p.plan \in Seq([fusion : Nat, logical : Seq(DOMAIN p.cmds), exec : DOMAIN p.cmds])
  /\ p.input \in Values(p) /\ p.output \in Values(p) /\ p.consts \subseteq Values(p)
  /\ p.parallel \in BOOLEAN

\* What the DAG's checks demand of a program, what the loader demands of its
\* input and output, what an ONNX graph gives (no node writes an input or a
\* constant), and what the fusion planner sees to: a value the fusion keeps in
\* registers has no other reader, the head included.
WellFormed(p) ==
  /\ IsProgram(p)
  /\ \A v \in Values(p) : Canonical(p)[v] \in Values(p) \ DOMAIN AliasSource(p)
  /\ \A c \in DOMAIN p.cmds : \E d \in Dispatches(p) : c \in Owned(p, d)
  /\ \A d, e \in Dispatches(p) : d # e => Owned(p, d) \cap Owned(p, e) = {}
  /\ \A d \in Dispatches(p) : p.plan[d].exec \in Owned(p, d)
  /\ \A v \in Values(p) : Cardinality(Producers(p, v)) <= 1
  /\ \A d \in Dispatches(p) :
       /\ Materialized(p, d) \subseteq Produced(p, d)
       /\ \A v \in External(p, d) \ (p.consts \cup {p.input}) :
            \E e \in Producers(p, v) : e < d /\ v \in Materialized(p, e)
  /\ \A v \in p.consts \cup {p.input} : Producers(p, v) = {}
  /\ \E d \in Producers(p, Canonical(p)[p.output]) :
       Canonical(p)[p.output] \in Materialized(p, d) \/ p.plan[d].fusion = 4
  /\ {p.input, Canonical(p)[p.output]} \subseteq ArenaValues(p)

\* (mutant of Conflicting: what a fused dispatch reads and writes may share a page)
ConflictingInCommands(p, hub, v, w) ==
  /\ v # w
  /\ \/ \E c \in DOMAIN p.cmds : WrittenBy(p, c) = v /\ w \in ReadBy(p, c)
     \/ v \in hub /\ w \notin hub

\* The pairs that may not share a page: a command's or a dispatch's output and
\* input, and every value of the window's second side with any other value.
Conflicting(p, hub, v, w) ==
  /\ v # w
  /\ \/ \E c \in DOMAIN p.cmds : WrittenBy(p, c) = v /\ w \in ReadBy(p, c)
     \/ \E d \in Dispatches(p) : v \in Produced(p, d) /\ w \in External(p, d)
     \/ v \in hub /\ w \notin hub

StartOf(p, v) ==
  IF v = p.input \/ Producers(p, v) = {} THEN 0
  ELSE Stage(p, CHOOSE d \in Producers(p, v) : TRUE) + 1

LastUse(p, v) ==
  LET used == {Stage(p, d) : d \in Consumers(p, v)} \cup
              (IF v = Canonical(p)[p.output] THEN {StageCount(p) + 1} ELSE {})
  IN  IF used = {} THEN -1 ELSE Max(used)

\* (mutant of EndOf: a value's last reader does not count)
EndOfExclusive(p, v) == Max({StartOf(p, v), LastUse(p, v)})

EndOf(p, v) == Max({StartOf(p, v), LastUse(p, v) + 1})

\* hub: the values of the window's second side.
ArenaTask(p, hub) ==
  LET values == ArenaValues(p)
  IN  [values |-> values,
       input  |-> {p.input} \cap values,
       adj    |-> [v \in values |-> {w \in values : \/ Conflicting(p, hub, v, w)
                                                    \/ Conflicting(p, hub, w, v)}],
       start  |-> [v \in values |-> StartOf(p, v)],
       end    |-> [v \in values |-> EndOf(p, v)],
       nbytes |-> [v \in values |-> p.size[v]],
       store  |-> [v \in values |-> IF v \in p.half THEN "fp16" ELSE "fp32"]]

------------------------------------------------------------------------------
(* The stream for the barrier planner                                        *)

KernelReads(p, d)  == External(p, d) \cap ArenaValues(p)
KernelWrites(p, d) == Materialized(p, d) \cap ArenaValues(p)

\* The arena values the second side of a window reads, in the order in which
\* the planner meets them.
SideInputs(p, window) ==
  LET of(d) == FlattenSeq([i \in DOMAIN p.plan[d].logical |->
                 LET c == p.plan[d].logical[i]
                 IN  IF IsView(p, c) THEN << >>
                     ELSE [k \in DOMAIN p.cmds[c].ins |-> Canonical(p)[p.cmds[c].ins[k]]]])
      one(d) == SelectSeq(of(d), LAMBDA v : v \in KernelReads(p, d))
      in(d)  == d \in window.first .. window.last /\ d \in window.second
  IN  FlattenSeq([d \in Dispatches(p) |-> IF in(d) THEN one(d) ELSE << >>])

\* Page -> the value its hoist record names: the first one met on the page.
Hoist(p, window, page) ==
  LET met   == SideInputs(p, window)
      pages == {page[v] : v \in Range(met)}
  IN  [g \in pages |-> met[Min({i \in DOMAIN met : page[met[i]] = g})]]

\* The loader's own choice: the lowest value of the first dispatch that reads
\* the page (a std::set of inputs per dispatch, a std::map of pages).
LoaderHoist(p, window, page) ==
  LET side      == {d \in window.first .. window.last : d \in window.second}
      readers(g) == {d \in side : \E v \in KernelReads(p, d) : page[v] = g}
      pages     == {page[v] : v \in UNION {KernelReads(p, d) : d \in side}}
  IN  [g \in pages |-> Min({v \in KernelReads(p, Min(readers(g))) : page[v] = g})]

\* window.fork = 0: there is no window.
BarrierJob(p, window, page, offset) ==
  [reads  |-> [d \in Dispatches(p) |-> KernelReads(p, d)],
   writes |-> [d \in Dispatches(p) |-> KernelWrites(p, d)],
   where  |-> [v \in ArenaValues(p) |-> [page |-> page[v], lo |-> offset[v],
                                         hi |-> offset[v] + p.size[v]]],
   fork   |-> window.fork,
   hoist  |-> IF window.fork = 0 THEN << >> ELSE Hoist(p, window, page)]

================================================================================
