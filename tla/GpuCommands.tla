------------------------------ MODULE GpuCommands ------------------------------
(***************************************************************************)
(* The Direct3D 12 contract the repository's command lists rely on, as far *)
(* as the modules that record lists need it (an external service: it is    *)
(* modelled from how the sources use it).                                  *)
(*                                                                         *)
(* A list is a sequence of commands; a queue executes a submitted list in  *)
(* order.  A resource has one actual state: a transition must name it as   *)
(* the state it starts from, a dispatch may read resources in state SRV    *)
(* and write resources in state UAV, a copy needs COPY_DEST or             *)
(* COPY_SOURCE.  Two dispatches of a list overlap unless a barrier on the  *)
(* resource stands between them, so touching what an earlier dispatch has  *)
(* written needs a transition or a UAV barrier.  A list keeps none of its  *)
(* resources alive.  What a list does wrong is collected in faults.        *)
(*                                                                         *)
(* A cell <<r, i>> is part i of resource r.  Data is provenance: the set   *)
(* of the calls whose results went into a cell.                            *)
(***************************************************************************)
EXTENDS Naturals, Sequences, FiniteSets, SequencesExt

States == {"COMMON", "SRV", "UAV", "COPY_DEST", "COPY_SOURCE"}

\* The kinds of wrong: a transition from a state the resource is not in, a
\* command on a resource in the wrong state, a missing barrier, a freed resource.
FaultKinds == {"misstated", "misuse", "race", "freed"}

Barrier(r, from, to) == [op |-> "transition", res |-> r, from |-> from, to |-> to]
UavBarrier(r)        == [op |-> "uav", res |-> r]
\* A dispatch of call by: cells read through SRVs, cells written through UAVs.
Run(by, in, out)     == [op |-> "run", by |-> by, in |-> in, out |-> out]
\* A copy of call by from an upload heap into the cells out, or of the cells
\* in into a readback heap; heap is the id of the heap.
Fill(by, heap, out)  == [op |-> "fill", by |-> by, heap |-> heap, out |-> out]
ReadBack(heap, in)   == [op |-> "read", heap |-> heap, in |-> in]

ResourcesOf(cells) == {c[1] : c \in cells}

Touched(c) ==
  CASE c.op \in {"transition", "uav"} -> {c.res}
    [] c.op = "run"  -> ResourcesOf(c.in \cup c.out)
    [] c.op = "fill" -> {c.heap} \cup ResourcesOf(c.out)
    [] c.op = "read" -> {c.heap} \cup ResourcesOf(c.in)

AllTouched(cmds) == UNION {Touched(cmds[i]) : i \in DOMAIN cmds}

(* A machine m: state and mem of the resources and cells, dirty: cells      *)
(* written by a dispatch with no barrier since, live: resources that exist, *)
(* faults.  by is the call a recorded 0 stands for (a list that is executed *)
(* again writes the results of that execution).                             *)
Fault(m, kind, wrong) ==
  IF wrong THEN [m EXCEPT !.faults = @ \cup {kind}] ELSE m

Synced(m, r) == [m EXCEPT !.dirty = {c \in @ : c[1] # r}]

AllIn(m, cells, s) == \A r \in ResourcesOf(cells) : r \in DOMAIN m.state => m.state[r] = s

Caller(c, by) == IF c.by = 0 THEN by ELSE c.by

Write(m, cells, value) ==
  [m EXCEPT !.mem = [x \in DOMAIN @ |-> IF x \in cells THEN value ELSE @[x]]]

ExecTransition(m, c) ==
  LET n == Fault(m, "misstated", m.state[c.res] # c.from)
  IN  Synced([n EXCEPT !.state[c.res] = c.to], c.res)

ExecRun(m, c, by) ==
  LET p == Fault(m, "misuse", ~AllIn(m, c.in, "SRV") \/ ~AllIn(m, c.out, "UAV"))
      q == Fault(p, "race", (c.in \cup c.out) \cap m.dirty # {})
      v == (UNION {m.mem[x] : x \in c.in}) \cup {Caller(c, by)}
  IN  [Write(q, c.out, v) EXCEPT !.dirty = @ \cup c.out]

ExecFill(m, c, by) ==
  LET n == Fault(m, "misuse", ~AllIn(m, c.out, "COPY_DEST"))
  IN  Write(n, c.out, {Caller(c, by)})

ExecCommand(m, c, by) ==
  CASE c.op = "transition" -> ExecTransition(m, c)
    [] c.op = "uav"        -> Synced(m, c.res)
    [] c.op = "run"        -> ExecRun(m, c, by)
    [] c.op = "fill"       -> ExecFill(m, c, by)
    [] c.op = "read"       -> Fault(m, "misuse", ~AllIn(m, c.in, "COPY_SOURCE"))

\* The machine before the first command and after each.  (Each machine is bound
\* by a set, so that TLC evaluates it before the next command.)
Machines(m, cmds, by) ==
  LET after[i \in 0 .. Len(cmds)] ==
        IF i = 0 THEN m
        ELSE CHOOSE n \in {ExecCommand(p, cmds[i], by) : p \in {after[i - 1]}} : TRUE
  IN  after

\* ExecuteCommandLists of one closed list, then the queue drains.
Execute(m, cmds, by) ==
  LET named == Fault(m, "freed", ~(AllTouched(cmds) \subseteq m.live))
  IN  [Machines(named, cmds, by)[Len(cmds)] EXCEPT !.dirty = {}]
================================================================================
