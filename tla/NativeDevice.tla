------------------------------ MODULE NativeDevice ------------------------------
(***************************************************************************)
(* The native C interface below the YOLO models: buffers, single kernels,  *)
(* prepared dispatches with their ring of upload slots, and compiled       *)
(* graphs, called by several threads on one AexrtDevice.                   *)
(*                                                                         *)
(* A call is a series of sections.  A section takes the device's mutex,    *)
(* records the device's list or takes a list recorded before, submits it,  *)
(* waits for the fence and lets go of the mutex.  What a call does between *)
(* its sections, and what is prepared, compiled or destroyed, happens      *)
(* without the mutex, while the GPU works for somebody else.               *)
(*                                                                         *)
(* spec is the memory the callers mean: a section takes effect when it is  *)
(* submitted, on the operands the call was given.                          *)
(***************************************************************************)
EXTENDS NativeGraph

CONSTANTS
  Threads,      \* callers, 1 .. n
  Buffers,      \* handle -> [res, lo, n]: the buffers and views there are
  Graphs,       \* 1 .. n -> description
  Dispatches,   \* 1 .. n -> [kind, args, ring]: what may be prepared
  Uses,         \* thread -> the calls it makes: [kind, on]
  Width,        \* elements of a resource
  Lengths,      \* the numbers of elements callers upload into a slot
  FailingWaits, \* kinds of sections whose signal_and_wait may fail
  MaxCalls,     \* bound: calls
  Apart         \* whether dispatches are prepared away from sections on their buffers

NoOne == 0
\* Memory nobody has written.
Blank == MaxCalls + 1
\* The result of a call that failed.
Unknown == MaxCalls + 2

ValueOf(g, v) == 10 * g + v
InputOf(d)    == 90 + d
\* The upload heap or readback of the call of thread t, the heap of dispatch d.
CallHeap(t)   == 100 + t
SlotHeap(d)   == 110 + d

GraphValues(g) == {ValueOf(g, v) : v \in Allocated(Graphs[g])}
Uploading      == {d \in DOMAIN Dispatches : Dispatches[d].kind = "upload"}
Owned          == (UNION {GraphValues(g) : g \in DOMAIN Graphs}) \cup {InputOf(d) : d \in Uploading}
Handles        == DOMAIN Buffers \cup Owned
Resources      == {Buffers[h].res : h \in DOMAIN Buffers} \cup Owned
Cells          == Resources \X (0 .. Width - 1)
Slots(d)       == 0 .. Dispatches[d].ring - 1

SectionKinds == {"fill", "kernel", "read", "graph", "prepared", "slot"}

ASSUME NativeAssumption ==
  /\ Threads \subseteq 1 .. 9 /\ DOMAIN Buffers \subseteq 1 .. 9
  /\ DOMAIN Graphs \subseteq 1 .. 8 /\ DOMAIN Dispatches \subseteq 1 .. 9
  /\ Width \in Nat \ {0} /\ Lengths \subseteq 1 .. Width /\ MaxCalls \in Nat
  /\ Apart \in BOOLEAN /\ FailingWaits \subseteq SectionKinds
  /\ \A h \in DOMAIN Buffers :
       /\ Buffers[h].res \in DOMAIN Buffers
       /\ Buffers[h].lo \in Nat /\ Buffers[h].n \in Nat \ {0}
       /\ Buffers[h].lo + Buffers[h].n <= Width
  /\ \A g \in DOMAIN Graphs :
       /\ Graphs[g].nodes \in Seq([op : STRING, in0 : 0 .. 9, in1 : 0 .. 9, out : 0 .. 9])
       /\ Graphs[g].consts \in Seq(0 .. 9) /\ Graphs[g].output \in 0 .. 9 /\ Graphs[g].inputs \in 1 .. 10
  /\ \A d \in DOMAIN Dispatches : Dispatches[d].ring \in 1 .. 8

\* The operands of a kernel, the output last: buffers of different resources, but
\* that concat_conv1x1 may be given several views of one.
Operands(kind, args) ==
  /\ args \in Seq(DOMAIN Buffers) /\ Len(args) > 1
  /\ \A i, j \in 1 .. Len(args) :
       i < j /\ Buffers[args[i]].res = Buffers[args[j]].res => kind = "concat" /\ j < Len(args)

\* Calls are of objects of their kind.
ASSUME CallsAssumption ==
  /\ \A d \in DOMAIN Dispatches : Operands(Dispatches[d].kind, Dispatches[d].args)
  /\ \A t \in Threads : \A c \in Uses[t] :
       /\ c.kind = "run" => c.on \in DOMAIN Graphs
       /\ c.kind = "download" => c.on \in DOMAIN Buffers
       /\ c.kind \in {"execute", "execute_upload"} =>
            /\ c.on \in DOMAIN Dispatches
            /\ (c.kind = "execute_upload") = (Dispatches[c.on].kind = "upload")
       /\ c.kind \notin {"run", "download", "execute", "execute_upload"} => Operands(c.kind, c.on)

VARIABLES
  state,     \* AexrtBuffer::state of each handle
  graph,     \* the compiled graphs: [cmds] or NoList
  disp,      \* the prepared dispatches: [cmds] or NoList
  slots,     \* the mapped bytes of each upload slot
  next,      \* next_upload_slot
  mutex,     \* the thread inside a section
  pc,        \* where the call of a thread is
  call,      \* the call of a thread
  id,        \* its number
  todo,      \* its sections, the one it is in first
  before,    \* the states in which a section found its operands
  issued,    \* fence_value
  awaits,    \* the value a thread waits for
  completed, \* the fence
  queue,     \* lists submitted and not executed
  readback,  \* what the last download of a thread copied
  gpu, mem, faults, \* resources, bytes and what lists did wrong
  spec,      \* the bytes the callers mean
  answers,   \* what calls returned: [id, got, want, of]
  calls      \* calls so far

objects == <<graph, disp>>
rings   == <<slots, next>>
fences  == <<issued, completed, awaits>>
gpuVars == <<gpu, mem, faults>>
local   == <<pc, call, id, todo, before>>
vars    == <<state, objects, rings, mutex, local, fences, queue, readback, gpuVars, spec, answers, calls>>

NoList == [there |-> FALSE, cmds |-> <<>>]
NoCall == [kind |-> "none", on |-> 0]

Init ==
  /\ state = [h \in Handles |-> "COMMON"]
  /\ graph = [g \in DOMAIN Graphs |-> NoList] /\ disp = [d \in DOMAIN Dispatches |-> NoList]
  /\ slots = [d \in DOMAIN Dispatches |-> [k \in Slots(d) |-> [i \in 1 .. Width |-> Blank]]]
  /\ next = [d \in DOMAIN Dispatches |-> 0]
  /\ mutex = NoOne
  /\ pc = [t \in Threads |-> "idle"] /\ call = [t \in Threads |-> NoCall] /\ id = [t \in Threads |-> 0]
  /\ todo = [t \in Threads |-> <<>>] /\ before = [t \in Threads |-> <<>>]
  /\ issued = 0 /\ completed = 0 /\ awaits = [t \in Threads |-> 0]
  /\ queue = <<>> /\ readback = [t \in Threads |-> {}]
  /\ gpu = [r \in Resources |-> "COMMON"]
  /\ mem = [c \in Cells |-> IF c[1] \in DOMAIN Buffers THEN {} ELSE {Blank}] /\ spec = mem
  /\ faults = {} /\ answers = {} /\ calls = 0

------------------------------------------------------------------------------
(* Handles and lists                                                          *)

Res(h) == IF h \in Owned THEN h ELSE Buffers[h].res

Elements(h) ==
  IF h \in Owned THEN {h} \X (0 .. Width - 1)
  ELSE {Buffers[h].res} \X (Buffers[h].lo .. Buffers[h].lo + Buffers[h].n - 1)

\* transition_if_needed of the handles hs in order, from[h] to to[h].
Transitions(hs, from, to) ==
  FlattenSeq([i \in DOMAIN hs |->
    IF from[hs[i]] = to[hs[i]] THEN <<>> ELSE <<Barrier(Res(hs[i]), from[hs[i]], to[hs[i]])>>])

\* The state a kernel with output y wants of its operand h.
Wanted(h, y) == IF h = y THEN "UAV" ELSE "SRV"

\* The first handle of each resource: add_unique of concat_conv1x1.
FirstOfResource(hs) ==
  FlattenSeq([i \in DOMAIN hs |->
    IF \E j \in 1 .. i - 1 : Res(hs[j]) = Res(hs[i]) THEN <<>> ELSE <<hs[i]>>])

\* (mutant of Entered: a view of a resource is entered again)
EnteredTwice(kind, args) == Front(args)

\* The inputs that are transitioned: each of them, or for concat_conv1x1 each
\* resource once.
Entered(kind, args) == IF kind = "concat" THEN FirstOfResource(Front(args)) ELSE Front(args)

\* Operands from their states st to those of the kernel, the dispatch, and back in
\* the opposite order.
KernelList(kind, args, st) ==
  LET y      == Last(args)
      ins    == Entered(kind, args)
      use    == [h \in Range(args) |-> Wanted(h, y)]
  IN  Transitions(ins, st, use) \o Transitions(<<y>>, st, use)
      \o <<Run(0, UNION {Elements(h) : h \in Range(Front(args))}, Elements(y))>>
      \o Transitions(<<y>>, use, st) \o Transitions(Reverse(ins), use, st)

\* A copy of handle h, which is in state s, and then in state left.
CopyList(h, s, during, copy, left) ==
  (IF s = during THEN <<>> ELSE <<Barrier(Res(h), s, during)>>)
  \o <<copy>> \o (IF during = left THEN <<>> ELSE <<Barrier(Res(h), during, left)>>)

\* A buffer that was filled is left in COMMON, one that was read as it was found.
FillList(h, heap, s) == CopyList(h, s, "COPY_DEST", Fill(0, heap, Elements(h)), "COMMON")
ReadList(h, heap, s) == CopyList(h, s, "COPY_SOURCE", ReadBack(heap, Elements(h)), s)

Common == [h \in Handles |-> "COMMON"]

\* record_upload_conv_silu_commands: the states are taken to be COMMON.  The copy
\* is one command for each element, as each may be of another call.
UploadConvList(d) ==
  LET x    == InputOf(d)
      copy == [i \in 1 .. Width |-> Fill(0, SlotHeap(d), {<<x, i - 1>>})]
  IN  <<Barrier(x, "COMMON", "COPY_DEST")>> \o copy \o <<Barrier(x, "COPY_DEST", "COMMON")>>
      \o KernelList("conv", <<x>> \o Dispatches[d].args, Common)

DispatchList(d, st) ==
  IF Dispatches[d].kind = "upload" THEN UploadConvList(d)
  ELSE KernelList(Dispatches[d].kind, Dispatches[d].args, st)

CompiledList(g) ==
  LET values == Allocated(Graphs[g])
  IN  GraphList(Graphs[g], [v \in values |-> ValueOf(g, v)], [v \in values |-> Elements(ValueOf(g, v))])

Effect(in, y) == [in |-> UNION {Elements(h) : h \in in}, out |-> Elements(y)]

\* A memory after call by has had effect e.
After(m, e, by) ==
  [c \in Cells |-> IF c \in e.out THEN (UNION {m[x] : x \in e.in}) \cup {by} ELSE m[c]]

------------------------------------------------------------------------------
(* Sections                                                                   *)

\* A section [kind, on] of a call with operands args.
SectionsOf(c) ==
  CASE c.kind = "run" ->
         LET d == Graphs[c.on]
         IN  [i \in 1 .. d.inputs |-> [kind |-> "fill", on |-> ValueOf(c.on, i - 1)]]
             \o <<[kind |-> "graph", on |-> c.on], [kind |-> "read", on |-> ValueOf(c.on, d.output)]>>
    [] c.kind = "download"       -> <<[kind |-> "read", on |-> c.on]>>
    [] c.kind = "execute"        -> <<[kind |-> "prepared", on |-> c.on]>>
    [] c.kind = "execute_upload" -> <<[kind |-> "slot", on |-> c.on]>>
    [] OTHER                     -> <<[kind |-> "kernel", on |-> c.on]>>

\* A call's objects exist.
MayCall(c) ==
  CASE c.kind = "run" -> graph[c.on].there
    [] c.kind \in {"execute", "execute_upload"} -> disp[c.on].there
    [] OTHER -> TRUE

\* The handles whose tracked state the section of thread t turns.
Turned(t) ==
  LET s == Head(todo[t])
  IN  CASE s.kind \in {"fill", "read"} -> {s.on}
        [] s.kind = "kernel" -> Range(Entered(call[t].kind, s.on)) \cup {Last(s.on)}
        [] OTHER -> {}

\* What it turns them to.
TurnedTo(t) ==
  LET s == Head(todo[t])
      to(h) == CASE s.kind = "fill" -> "COPY_DEST"
                 [] s.kind = "read" -> "COPY_SOURCE"
                 [] OTHER -> Wanted(h, Last(s.on))
  IN  [h \in Handles |-> IF h \in Turned(t) THEN to(h) ELSE state[h]]

\* The states the section leaves behind.
LeftIn(t) ==
  [h \in Handles |->
     IF h \notin Turned(t) THEN state[h]
     ELSE IF Head(todo[t]).kind = "fill" THEN "COMMON" ELSE before[t][h]]

\* Sections recorded into the device's own list.
OnDeviceList(s) == s.kind \in {"fill", "kernel", "read"}

SectionList(t) ==
  LET s == Head(todo[t])
  IN  CASE s.kind = "fill"     -> FillList(s.on, CallHeap(t), before[t][s.on])
        [] s.kind = "read"     -> ReadList(s.on, CallHeap(t), before[t][s.on])
        [] s.kind = "kernel"   -> KernelList(call[t].kind, s.on, before[t])
        [] s.kind = "graph"    -> graph[s.on].cmds
        [] s.kind \in {"prepared", "slot"} -> disp[s.on].cmds

NoEffect == [in |-> {}, out |-> {}]

SectionEffect(t) ==
  LET s == Head(todo[t])
      a == IF s.kind = "kernel" THEN s.on ELSE Dispatches[s.on].args
  IN  CASE s.kind = "fill" -> Effect({}, s.on)
        [] s.kind \in {"kernel", "prepared", "slot"} -> Effect(Range(Front(a)), Last(a))
        [] OTHER -> NoEffect

Submitted(t, fence) ==
  LET s == Head(todo[t])
  IN  [cmds |-> SectionList(t), by |-> id[t], who |-> t, fence |-> fence,
       device |-> OnDeviceList(s), ring |-> IF s.kind = "slot" THEN <<s.on, s.slot>> ELSE <<>>]

Meant(t, by) == After(spec, SectionEffect(t), by)

------------------------------------------------------------------------------
(* Threads                                                                    *)

Call(t, c) ==
  /\ pc[t] = "idle" /\ c \in Uses[t] /\ MayCall(c) /\ calls < MaxCalls
  /\ calls' = calls + 1 /\ id' = [id EXCEPT ![t] = calls + 1]
  /\ call' = [call EXCEPT ![t] = c] /\ todo' = [todo EXCEPT ![t] = SectionsOf(c)]
  /\ pc' = [pc EXCEPT ![t] = IF c.kind = "execute_upload" THEN "filling" ELSE "ready"]
  /\ UNCHANGED <<state, objects, rings, mutex, before, fences, queue, readback, gpuVars, spec, answers>>

\* (mutant of NextSlot: the list of the following slot is executed)
NextSlotAhead(d) == (next[d] + 1) % Dispatches[d].ring

NextSlot(d) == next[d] % Dispatches[d].ring

\* The caller's n elements into the next slot, before the mutex is taken.
FillSlot(t) ==
  LET d == call[t].on
      k == next[d] % Dispatches[d].ring
  IN  /\ pc[t] = "filling"
      /\ \E n \in Lengths :
           slots' = [slots EXCEPT ![d][k] = [i \in 1 .. Width |-> IF i <= n THEN id[t] ELSE @[i]]]
      /\ todo' = [todo EXCEPT ![t] = <<[kind |-> "slot", on |-> d, slot |-> NextSlot(d)]>>]
      /\ pc' = [pc EXCEPT ![t] = "ready"]
      /\ UNCHANGED <<state, objects, next, mutex, call, id, before, fences, queue, readback,
                     gpuVars, spec, answers, calls>>

\* (mutant of Record: the section is entered without the mutex)
RecordUnlocked(t) ==
  /\ pc[t] = "ready"
  /\ mutex' = t
  /\ before' = [before EXCEPT ![t] = [h \in Turned(t) |-> state[h]]] /\ state' = TurnedTo(t)
  /\ faults' = faults \cup
       IF OnDeviceList(Head(todo[t])) /\ \E i \in DOMAIN queue : queue[i].device THEN {"reset"} ELSE {}
  /\ pc' = [pc EXCEPT ![t] = "recording"]
  /\ UNCHANGED <<objects, rings, call, id, todo, fences, queue, readback, gpu, mem, spec, answers, calls>>

\* lock, begin_commands and the recording up to the dispatch: the tracked states
\* are those of the kernel for a while.
Record(t) ==
  /\ pc[t] = "ready" /\ mutex = NoOne
  /\ mutex' = t
  /\ before' = [before EXCEPT ![t] = [h \in Turned(t) |-> state[h]]] /\ state' = TurnedTo(t)
  /\ faults' = faults \cup
       IF OnDeviceList(Head(todo[t])) /\ \E i \in DOMAIN queue : queue[i].device THEN {"reset"} ELSE {}
  /\ pc' = [pc EXCEPT ![t] = "recording"]
  /\ UNCHANGED <<objects, rings, call, id, todo, fences, queue, readback, gpu, mem, spec, answers, calls>>

\* The rest of the recording, finish_commands and the signal.
Submit(t) ==
  /\ pc[t] = "recording"
  /\ queue' = Append(queue, Submitted(t, issued + 1))
  /\ issued' = issued + 1 /\ awaits' = [awaits EXCEPT ![t] = issued + 1]
  /\ state' = LeftIn(t) /\ spec' = Meant(t, id[t])
  /\ pc' = [pc EXCEPT ![t] = "waiting"]
  /\ UNCHANGED <<objects, rings, mutex, call, id, todo, before, completed, readback, gpuVars, answers, calls>>

Return(t, pcs) ==
  /\ pc' = pcs /\ todo' = [todo EXCEPT ![t] = <<>>] /\ call' = [call EXCEPT ![t] = NoCall]
  /\ id' = [id EXCEPT ![t] = 0] /\ before' = [before EXCEPT ![t] = <<>>]

\* signal_and_wait fails: without the signal (f = 0) or without the event.  The
\* list is on its way all the same, and the call returns 0.
FailWait(t) ==
  /\ pc[t] = "recording" /\ Head(todo[t]).kind \in FailingWaits
  /\ \E f \in {0, issued + 1} : queue' = Append(queue, Submitted(t, f))
  /\ issued' = issued + 1
  /\ state' = LeftIn(t) /\ spec' = Meant(t, Unknown)
  /\ mutex' = NoOne
  /\ Return(t, [pc EXCEPT ![t] = "idle"])
  /\ UNCHANGED <<objects, rings, completed, awaits, readback, gpuVars, answers, calls>>

\* (mutant of Reached: one signal short)
ReachedEarly(t) == completed + 1 >= awaits[t]

\* (mutant of Reached: waits for a value nobody signals)
ReachedLate(t) == completed > awaits[t]

Reached(t) == completed >= awaits[t]

\* What a download hands to its caller and what it should be.
Answer(t) ==
  LET c == call[t]
  IN  [id |-> id[t], got |-> readback[t], of |-> c,
       want |-> IF c.kind = "run" THEN {id[t]}
                ELSE UNION {spec[x] : x \in Elements(c.on)}]

\* The fence is reached: unlock, and on to the next section or back to the caller.
Wake(t) ==
  /\ pc[t] = "waiting" /\ Reached(t)
  /\ mutex' = NoOne
  /\ answers' = answers \cup IF Head(todo[t]).kind = "read" THEN {Answer(t)} ELSE {}
  /\ IF Len(todo[t]) > 1
     THEN /\ todo' = [todo EXCEPT ![t] = Tail(@)] /\ pc' = [pc EXCEPT ![t] = "ready"]
          /\ UNCHANGED <<call, id, before>>
     ELSE IF Head(todo[t]).kind = "slot"
     THEN /\ pc' = [pc EXCEPT ![t] = "bumping"] /\ UNCHANGED <<call, id, todo, before>>
     ELSE Return(t, [pc EXCEPT ![t] = "idle"])
  /\ UNCHANGED <<state, objects, rings, fences, queue, readback, gpuVars, spec, calls>>

\* next_upload_slot moves on after the mutex was let go.
Bump(t) ==
  LET d == call[t].on
  IN  /\ pc[t] = "bumping"
      /\ next' = [next EXCEPT ![d] = (@ + 1) % Dispatches[d].ring]
      /\ Return(t, [pc EXCEPT ![t] = "idle"])
      /\ UNCHANGED <<state, objects, slots, mutex, fences, queue, readback, gpuVars, spec, answers, calls>>

------------------------------------------------------------------------------
(* Without the mutex                                                          *)

\* The buffers of a dispatch, as far as its list names their tracked state.
Observed(d) == IF Dispatches[d].kind = "upload" THEN {} ELSE Range(Dispatches[d].args)

\* Its own buffers, or those of others while nobody turns their state.
MayPrepare(d) ==
  Apart => \A t \in Threads : pc[t] = "recording" => Turned(t) \cap Observed(d) = {}

\* Prepared with the states the handles have at the moment.
Prepare(t, d) ==
  /\ pc[t] = "idle" /\ ~disp[d].there /\ MayPrepare(d)
  /\ \E c \in Uses[t] : c.kind \in {"execute", "execute_upload"} /\ c.on = d
  /\ disp' = [disp EXCEPT ![d] = [there |-> TRUE, cmds |-> DispatchList(d, state)]]
  /\ UNCHANGED <<state, graph, rings, mutex, local, fences, queue, readback, gpuVars, spec, answers, calls>>

Compile(t, g) ==
  /\ pc[t] = "idle" /\ ~graph[g].there /\ Compiles(Graphs[g])
  /\ \E c \in Uses[t] : c.kind = "run" /\ c.on = g
  /\ graph' = [graph EXCEPT ![g] = [there |-> TRUE, cmds |-> CompiledList(g)]]
  /\ mem' = [c \in Cells |-> IF c[1] \in GraphValues(g) THEN {Blank} ELSE mem[c]]
  /\ UNCHANGED <<state, disp, rings, mutex, local, fences, queue, readback, gpu, faults, spec, answers, calls>>

\* aexrt_destroy_graph by a thread that uses the graph, with none inside it.
Destroy(t, g) ==
  /\ pc[t] = "idle" /\ graph[g].there
  /\ \E c \in Uses[t] : c.kind = "run" /\ c.on = g
  /\ \A u \in Threads : ~(call[u].kind = "run" /\ call[u].on = g)
  /\ graph' = [graph EXCEPT ![g] = NoList]
  /\ UNCHANGED <<state, disp, rings, mutex, local, fences, queue, readback, gpuVars, spec, answers, calls>>

------------------------------------------------------------------------------
(* The GPU                                                                    *)

\* The copy of a slot reads the slot when the queue gets there.
Loaded(item) ==
  IF item.ring = <<>> THEN item.cmds
  ELSE LET d == item.ring[1]
           bytes == slots[d][item.ring[2]]
           element(c) == (CHOOSE x \in c.out : TRUE)[2] + 1
       IN  [i \in DOMAIN item.cmds |->
              LET c == item.cmds[i]
              IN  IF c.op = "fill" THEN [c EXCEPT !.by = bytes[element(c)]] ELSE c]

Live ==
  {Buffers[h].res : h \in DOMAIN Buffers} \cup {CallHeap(t) : t \in Threads}
  \cup (UNION {GraphValues(g) : g \in {x \in DOMAIN Graphs : graph[x].there}})
  \cup (UNION {{InputOf(d), SlotHeap(d)} : d \in {x \in DOMAIN Dispatches : disp[x].there}})

\* Heaps and descriptors of a call on the device's list go when it returns.
StillHeld(item) == pc[item.who] = "waiting" /\ awaits[item.who] = item.fence

GpuExecute ==
  /\ queue # <<>>
  /\ \E item \in {Head(queue)} :
     \E m \in {Execute([state |-> gpu, mem |-> mem, dirty |-> {}, faults |-> faults, live |-> Live],
                       Loaded(item), item.by)} :
     LET copied == UNION {c.in : c \in {x \in Range(item.cmds) : x.op = "read"}}
     IN  /\ gpu' = m.state /\ mem' = m.mem
         /\ faults' = m.faults \cup IF item.device /\ ~StillHeld(item) THEN {"freed"} ELSE {}
         /\ readback' = [readback EXCEPT ![item.who] = IF copied = {} THEN @ ELSE UNION {m.mem[x] : x \in copied}]
         /\ completed' = IF item.fence = 0 THEN completed ELSE item.fence
         /\ queue' = Tail(queue)
  /\ UNCHANGED <<state, objects, rings, mutex, local, issued, awaits, spec, answers, calls>>

\* A thread inside a call.
Step(t) == FillSlot(t) \/ Record(t) \/ Submit(t) \/ Wake(t) \/ Bump(t)

Next ==
  \/ \E t \in Threads :
       \/ Step(t) \/ FailWait(t)
       \/ \E c \in Uses[t] : Call(t, c)
       \/ \E d \in DOMAIN Dispatches : Prepare(t, d)
       \/ \E g \in DOMAIN Graphs : Compile(t, g) \/ Destroy(t, g)
  \/ GpuExecute

\* How a thread gets on and how the queue does: the control of Step and GpuExecute.
Moves(t) ==
  \/ pc[t] \in {"filling", "recording", "bumping"} /\ pc' \in {[pc EXCEPT ![t] = p] : p \in {"ready", "waiting", "idle"}}
  \/ pc[t] = "ready" /\ mutex = NoOne /\ pc' = [pc EXCEPT ![t] = "recording"]
  \/ pc[t] = "waiting" /\ Reached(t) /\ pc' \in {[pc EXCEPT ![t] = p] : p \in {"ready", "bumping", "idle"}}

Retires == queue # <<>> /\ queue' = Tail(queue)

\* The queue works on what it is given and a thread goes on with its call, once
\* it gets the mutex: callers make finitely many calls, so none is passed over for ever.
Fairness == WF_queue(Retires) /\ \A t \in Threads : WF_pc(Moves(t))

Spec == Init /\ [][Next]_vars /\ Fairness

------------------------------------------------------------------------------
(* Properties                                                                 *)

\* Each graph and each upload ring has one thread that uses it.
OneOwner ==
  \A t, u \in Threads : t # u =>
    \A c \in Uses[t], e \in Uses[u] : c.kind = e.kind /\ c.kind \in {"run", "execute_upload"} => c.on # e.on

\* Graphs a caller may rely on: the fused ones, and others that read only what
\* the same run wrote.
Reliable(g) ==
  validate_elementwise_dag(Graphs[g]) \/ (ReadsOwnValues(Graphs[g]) /\ OutputIsMade(Graphs[g]))

\* A call returns what was computed from its own inputs and no other call's, or
\* for a download what the calls submitted before left in the buffer, whatever
\* other threads do between its sections; unless the buffer was last written by a
\* call that failed, or the graph reads values no run has written.
AnswersAreOfTheCall ==
  \A a \in answers :
     \/ Unknown \in a.want
     \/ a.of.kind = "run" /\ ~Reliable(a.of.on)
     \/ a.got = a.want

\* With nothing on the GPU the buffers hold what the callers mean, each call
\* taking effect at once in the order of submission: a slot of an upload ring
\* holds the bytes of the call whose list copies it.
MemoryIsSequential ==
  queue = <<>> =>
    \A c \in Cells :
       c[1] \in {Buffers[h].res : h \in DOMAIN Buffers} /\ Unknown \notin spec[c] => mem[c] = spec[c]

\* Graphs that run node by node with an operand named twice.
Doubled(g) == ~validate_elementwise_dag(Graphs[g]) /\ ~OperandsDiffer(Graphs[g])

\* No list finds a resource in another state than the one it was recorded for,
\* names a resource that is gone, or is reset while it runs, whichever thread
\* recorded it and whatever ran in between; but for graphs that name an operand
\* twice.
ListsRunClean ==
  /\ faults \cap {"race", "freed", "reset"} = {}
  /\ faults \cap {"misstated", "misuse"} # {} => \E g \in DOMAIN Graphs : Doubled(g)

\* Every call returns.
CallsReturn == \A t \in Threads : (pc[t] # "idle") ~> (pc[t] = "idle")
================================================================================
