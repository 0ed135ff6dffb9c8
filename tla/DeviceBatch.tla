------------------------------ MODULE DeviceBatch ------------------------------
(***************************************************************************)
(* The Python extension aexrt_native_d3d12: buffers and views, dispatches  *)
(* that either submit and wait or join the open recording scope of their   *)
(* device (begin_batch .. end_batch, begin_prepared_graph ..               *)
(* end_prepared_graph), and command lists recorded once and executed later *)
(* (prepared dispatches and prepared graphs).                              *)
(*                                                                         *)
(* Every call runs under the GIL and the device's mutex and a submission   *)
(* is waited for, so a call is one step.  What can go wrong is a matter of *)
(* order: a list records transitions from the states the handles have when *)
(* it is recorded and runs later, handles of one resource (views) have     *)
(* states of their own, and a list keeps nothing alive.                    *)
(*                                                                         *)
(* spec is the memory the caller means: every call takes effect where it   *)
(* stands, a call made while a prepared graph is recorded takes effect     *)
(* whenever the graph is executed.                                         *)
(***************************************************************************)
EXTENDS GpuCommands

CONSTANTS
  Buffers,  \* the buffers and views there are at the start: handle -> [res, lo, n]
  Spare,    \* handles that may still be made
  Width,    \* elements of a resource
  Args,     \* the operand lists callers pass to each kind of dispatch
  Copied,   \* handles callers copy to and from
  Dropped,  \* handles callers let go of
  Viewed,   \* handles callers make views of
  Depths,   \* the numbers of blocks of the chains callers prepare
  Ring,     \* ring_size of the prepared upload dispatches
  MaxCalls, \* bound: calls that compute or copy
  Careful   \* whether callers keep the order the backend keeps, see CallerMay

Handles   == DOMAIN Buffers \cup Spare
\* Owned by the prepared chain: its input and its two arenas.
ChainIn   == 20
Arena     == [k \in 0 .. 1 |-> 21 + k]
Owned     == {ChainIn, Arena[0], Arena[1]}
\* The upload heap of zeros of call n.
ZeroHeap(n) == 30 + n
\* A heap local to a call that waits for its copy.
LocalHeap == 30
Resources == Handles \cup Owned
Cells     == Resources \X (0 .. Width - 1)

ASSUME BatchAssumption ==
  /\ Handles \subseteq 1 .. 19 /\ Spare \cap DOMAIN Buffers = {}
  /\ Width \in Nat \ {0} /\ MaxCalls \in Nat /\ Ring \in Nat \ {0}
  /\ Careful \in BOOLEAN /\ Depths \subseteq 1 .. 32
  /\ \A h \in DOMAIN Buffers :
       /\ Buffers[h].res \in DOMAIN Buffers
       /\ Buffers[h].lo \in Nat /\ Buffers[h].n \in Nat \ {0}
       /\ Buffers[h].lo + Buffers[h].n <= Width

\* How many operands the bindings of a kind take.
Arity(kind) ==
  CASE kind \in {"relu", "unary", "table"}    -> {2}
    [] kind \in {"binary", "decode_filter"}   -> {3}
    [] kind \in {"conv2d", "conv_silu"}       -> {4}
    [] kind = "decode_nms"                    -> {6}
    [] kind = "head_nms"                      -> Nat \ (0 .. 5)
    [] kind \in {"c2f", "sppf", "concat", "concat_conv", "concat_int8", "concat_residual"} -> Nat \ (0 .. 1)
    [] OTHER                                  -> {}

ASSUME ArgsAssumption ==
  /\ {"unary", "conv_silu"} \subseteq DOMAIN Args
  /\ \A kind \in DOMAIN Args : \A a \in Args[kind] : a \in Seq(Handles) /\ Len(a) \in Arity(kind)

NoGraph    == [cmds |-> <<>>, does |-> <<>>, heaps |-> {}]
NoPrepared == [kind |-> "none", lists |-> <<>>, does |-> <<>>, holds |-> {}]
Closed     == [open |-> FALSE, cmds |-> <<>>, does |-> <<>>]
Opened     == [open |-> TRUE, cmds |-> <<>>, does |-> <<>>]

VARIABLES
  buf,      \* what a handle is a handle of: [res, lo, n]
  py,       \* the handles Python holds
  state,    \* BufferHandle::state
  list,     \* ctx->list, with the meaning of the calls in it
  saved,    \* ctx->saved_list
  batch,    \* ctx->batch_active
  prepared, \* ctx->prepared_recording
  heaps,    \* ctx->batch_resources
  graph,    \* the prepared graph Python holds
  disp,     \* the prepared dispatch Python holds
  slot,     \* its next_slot
  gpu,      \* actual state of each resource
  mem,      \* the bytes
  spec,     \* the bytes the caller means
  faults,   \* what executed lists did wrong
  failed,   \* some call raised an error
  aliased,  \* history: some call outside the concat family named one resource twice
  calls     \* calls so far that compute or copy

ctxVars  == <<list, saved, batch, prepared, heaps>>
gpuVars  == <<gpu, mem, faults>>
vars     == <<buf, py, state, ctxVars, graph, disp, slot, gpuVars, spec, failed, aliased, calls>>

Init ==
  /\ buf = Buffers /\ py = DOMAIN Buffers
  /\ state = [h \in Handles \cup Owned |-> "COMMON"]
  /\ list = Closed /\ saved = Closed /\ batch = FALSE /\ prepared = FALSE /\ heaps = {}
  /\ graph = NoGraph /\ disp = NoPrepared /\ slot = 0
  /\ gpu = [r \in Resources |-> "COMMON"]
  /\ mem = [c \in Cells |-> {}] /\ spec = [c \in Cells |-> {}]
  /\ faults = {} /\ failed = FALSE /\ aliased = FALSE /\ calls = 0

------------------------------------------------------------------------------
(* Handles                                                                    *)

Res(h)  == IF h \in Owned THEN h ELSE buf[h].res
Size(h) == IF h \in Owned THEN Width ELSE buf[h].n
\* The elements a view of handle h starts at its element_offset.
Elements(h) ==
  IF h \in Owned THEN {h} \X (0 .. Width - 1)
  ELSE {buf[h].res} \X (buf[h].lo .. buf[h].lo + buf[h].n - 1)
\* A descriptor created from the resource alone starts at its first element.
FromStart(h) == {Res(h)} \X (0 .. Size(h) - 1)

\* Resources some handle of Python or some capsule keeps.
Live ==
  {buf[h].res : h \in py} \cup disp.holds \cup (IF disp.kind = "chain" THEN Owned ELSE {})


Before(extra) ==
  [state |-> gpu, mem |-> mem, dirty |-> {}, faults |-> faults, live |-> Live \cup extra]

\* What an effect [in, out] of call by does to a memory,
Done(m, e, by) ==
  [x \in DOMAIN m |-> IF x \in e.out THEN (UNION {m[y] : y \in e.in}) \cup {by} ELSE m[x]]

\* the memory before the first of a sequence of effects and after each,
Memories(m, does, by) ==
  LET after[i \in 0 .. Len(does)] ==
        IF i = 0 THEN m
        ELSE CHOOSE n \in {Done(p, does[i], by) : p \in {after[i - 1]}} : TRUE
  IN  after

\* and after all of it.
Meaning(m, does, by) == Memories(m, does, by)[Len(does)]

Effect(in, out) == [in |-> UNION {Elements(h) : h \in in}, out |-> Elements(out)]

------------------------------------------------------------------------------
(* Recording: r holds the commands so far, the handles' states, the heaps    *)
(* kept for a scope.                                                          *)

Record0 == [cmds |-> <<>>, st |-> state, heaps |-> {}]

Add(r, c) == [r EXCEPT !.cmds = Append(@, c)]

\* transition_if_needed
Transition(h, from, to) == IF from = to THEN <<>> ELSE <<Barrier(Res(h), from, to)>>

\* Transitions of the handles hs to their states in to, then the states.
Turn(r, hs, to) ==
  [r EXCEPT !.cmds = @ \o FlattenSeq([i \in DOMAIN hs |-> Transition(hs[i], r.st[hs[i]], to[hs[i]])]),
            !.st = [h \in DOMAIN @ |-> IF h \in Range(hs) THEN to[h] ELSE @[h]]]

\* Transitions of the handles hs to s.
EnterAll(r, hs, s) == Turn(r, hs, [h \in DOMAIN r.st |-> s])

Enter(r, h, s) == EnterAll(r, <<h>>, s)

\* (mutant of Restore: the handles remember, the list does not)
RestoreSilently(r, hs, before) ==
  [r EXCEPT !.st = [h \in DOMAIN @ |-> IF h \in Range(hs) THEN before[h] ELSE @[h]]]

\* Transitions of the handles hs back to their states in before.
Restore(r, hs, before) == Turn(r, hs, before)

\* The handles in hs, each once (and a mutant of FirstOfResource).
FirstOfHandle(hs) ==
  FlattenSeq([i \in DOMAIN hs |-> IF \E j \in 1 .. i - 1 : hs[j] = hs[i] THEN <<>> ELSE <<hs[i]>>])

\* The first handle of each resource in hs: unique_resources.
FirstOfResource(hs) ==
  FlattenSeq([i \in DOMAIN hs |->
    IF \E j \in 1 .. i - 1 : Res(hs[j]) = Res(hs[i]) THEN <<>> ELSE <<hs[i]>>])

\* The handles hs one by one: one that is named again is in its state by then.
EnterEach(r, hs, s) == EnterAll(r, FirstOfHandle(hs), s)

Dispatch(r, by, in, out) == Add(r, Run(by, UNION {Elements(h) : h \in in}, UNION {Elements(h) : h \in out}))

\* The common shape: inputs and output to their states, dispatch, output and
\* inputs back in the opposite order.
Plain(r, by, ins, y) ==
  LET q == EnterAll(EnterAll(r, ins, "SRV"), <<y>>, "UAV")
  IN  Restore(Restore(Dispatch(q, by, Range(ins), {y}), <<y>>, r.st), Reverse(ins), r.st)

\* The same with the inputs entered one by one and left in order.
Stepwise(r, by, ins, y) ==
  LET q == Enter(EnterEach(r, ins, "SRV"), y, "UAV")
  IN  Restore(Restore(Dispatch(q, by, Range(ins), {y}), <<y>>, r.st), ins, r.st)

\* One transition for each resource among the inputs.
PerResource(r, by, ins, y) ==
  LET once == FirstOfResource(ins)
      q    == Enter(EnterAll(r, once, "SRV"), y, "UAV")
      back == Restore(Restore(Dispatch(q, by, Range(ins), {y}), <<y>>, r.st), once, r.st)
      same(h) == CHOOSE g \in Range(once) : Res(g) = Res(h)
  IN  [back EXCEPT !.st = [h \in DOMAIN @ |-> IF h \in Range(ins) THEN r.st[same(h)] ELSE @[h]]]

------------------------------------------------------------------------------
(* The dispatches.  a is the list of their buffers, the output last unless   *)
(* said otherwise; by is the call, 0 while a prepared graph is recorded.      *)

UnaryInto(r, by, a)   == Plain(r, by, <<a[1]>>, a[2])
BinaryInto(r, by, a)  == Plain(r, by, <<a[1], a[2]>>, a[3])
\* slice, transpose, resize, maxpool, softmax and the DFL projection.
TableInto(r, by, a)   == Plain(r, by, <<a[1]>>, a[2])
Conv2dInto(r, by, a)  == Plain(r, by, <<a[1], a[2], a[3]>>, a[4])
ConvSiluInto(r, by, a) == Plain(r, by, <<a[1], a[2], a[3]>>, a[4])
C2fInto(r, by, a)     == Stepwise(r, by, Front(a), Last(a))
SppfInto(r, by, a)    == Stepwise(r, by, Front(a), Last(a))
ConcatInto(r, by, a)          == PerResource(r, by, Front(a), Last(a))
ConcatConv1x1Into(r, by, a)   == PerResource(r, by, Front(a), Last(a))
ConcatConvInt8Into(r, by, a)  == PerResource(r, by, Front(a), Last(a))
ConcatResidualInto(r, by, a)  == PerResource(r, by, Front(a), Last(a))

\* The output ends in COMMON whatever it was in.
ReluInto(r, by, a) ==
  LET q == Dispatch(Enter(Enter(r, a[1], "SRV"), a[2], "UAV"), by, {a[1]}, {a[2]})
  IN  Enter(Enter(q, a[2], "COMMON"), a[1], r.st[a[1]])

\* (mutant of ZeroCounters: the scope does not keep the heap of zeros)
ZeroCountersUnkept(r, by, n, hs) ==
  [EnterAll(r, hs, "COPY_DEST")
     EXCEPT !.cmds = @ \o [i \in DOMAIN hs |-> Fill(by, ZeroHeap(n), FromStart(hs[i]))]]

\* Zeros into the counters hs.
ZeroCounters(r, by, n, hs) ==
  [EnterAll(r, hs, "COPY_DEST")
     EXCEPT !.cmds = @ \o [i \in DOMAIN hs |-> Fill(by, ZeroHeap(n), FromStart(hs[i]))],
            !.heaps = @ \cup {ZeroHeap(n)}]

\* decode_filter(yolo, detections, counter): descriptors from the resources.
DecodeFilter(r, by, n, a) ==
  LET zero == ZeroCounters(r, by, n, <<a[3]>>)
      q    == EnterAll(EnterAll(zero, <<a[1]>>, "SRV"), <<a[2], a[3]>>, "UAV")
      d    == Add(q, Run(by, FromStart(a[1]), FromStart(a[2]) \cup FromStart(a[3])))
  IN  Restore(d, <<a[3], a[2], a[1]>>, r.st)

\* Mark and compact: candidates, their counter, keep flags, detections, their
\* counter, with UAV barriers on what was written; At: a handle's descriptor.
NmsAndTopK(r, by, c, before, At(_)) ==
  LET s1 == Add(Add(r, UavBarrier(Res(c[1]))), UavBarrier(Res(c[2])))
      s2 == EnterAll(EnterAll(s1, <<c[1], c[2]>>, "SRV"), <<c[3]>>, "UAV")
      s3 == Add(s2, Run(by, At(c[1]) \cup At(c[2]), At(c[3])))
      s4 == EnterAll(EnterAll(Add(s3, UavBarrier(Res(c[3]))), <<c[3]>>, "SRV"), <<c[4], c[5]>>, "UAV")
      s5 == Add(s4, Run(by, UNION {At(c[i]) : i \in {1, 2, 3}}, At(c[4]) \cup At(c[5])))
  IN  Restore(s5, Reverse(c), before)

\* decode_nms(yolo, candidates, counter, keep, detections, counter)
DecodeNms(r, by, n, a) ==
  LET zero == ZeroCounters(r, by, n, <<a[3], a[6]>>)
      q    == EnterAll(EnterAll(zero, <<a[1]>>, "SRV"), <<a[2], a[3]>>, "UAV")
      d    == Add(q, Run(by, FromStart(a[1]), FromStart(a[2]) \cup FromStart(a[3])))
  IN  Restore(NmsAndTopK(d, by, Tail(a), r.st, FromStart), <<a[1]>>, r.st)

\* head_decode_nms(heads..., candidates, counter, keep, detections, counter)
HeadDecodeNms(r, by, n, a) ==
  LET k     == Len(a) - 5
      heads == SubSeq(a, 1, k)
      c     == SubSeq(a, k + 1, k + 5)
      zero  == ZeroCounters(EnterEach(r, heads, "SRV"), by, n, <<c[2], c[5]>>)
      q     == EnterAll(zero, <<c[1], c[2]>>, "UAV")
      d     == Add(q, Run(by, UNION {Elements(heads[i]) : i \in 1 .. k}, Elements(c[1]) \cup Elements(c[2])))
  IN  Restore(NmsAndTopK(d, by, c, r.st, Elements), heads, r.st)

Recorded(r, kind, by, n, a) ==
  CASE kind = "relu"           -> ReluInto(r, by, a)
    [] kind = "unary"          -> UnaryInto(r, by, a)
    [] kind = "binary"         -> BinaryInto(r, by, a)
    [] kind = "table"          -> TableInto(r, by, a)
    [] kind = "conv2d"         -> Conv2dInto(r, by, a)
    [] kind = "conv_silu"      -> ConvSiluInto(r, by, a)
    [] kind = "c2f"            -> C2fInto(r, by, a)
    [] kind = "sppf"           -> SppfInto(r, by, a)
    [] kind = "concat"         -> ConcatInto(r, by, a)
    [] kind = "concat_conv"    -> ConcatConv1x1Into(r, by, a)
    [] kind = "concat_int8"    -> ConcatConvInt8Into(r, by, a)
    [] kind = "concat_residual" -> ConcatResidualInto(r, by, a)
    [] kind = "decode_filter"  -> DecodeFilter(r, by, n, a)
    [] kind = "decode_nms"     -> DecodeNms(r, by, n, a)
    [] kind = "head_nms"       -> HeadDecodeNms(r, by, n, a)

NmsEffects(c) == <<Effect({c[1], c[2]}, c[3]), Effect({c[1], c[2], c[3]}, c[4]), Effect({c[1], c[2], c[3]}, c[5])>>

\* What the caller means by it.
Meant(kind, a) ==
  CASE kind = "decode_filter" -> <<Effect({a[1]}, a[2]), Effect({a[1]}, a[3])>>
    [] kind = "decode_nms"    -> <<Effect({a[1]}, a[2]), Effect({a[1]}, a[3])>> \o NmsEffects(Tail(a))
    [] kind = "head_nms"      ->
         LET k == Len(a) - 5
             heads == {a[i] : i \in 1 .. k}
         IN  <<Effect(heads, a[k + 1]), Effect(heads, a[k + 2])>> \o NmsEffects(SubSeq(a, k + 1, k + 5))
    [] OTHER -> <<Effect(Range(Front(a)), Last(a))>>

\* The sizes the bindings check: an elementwise output is no longer than its input.
Fits(kind, a) == kind \in {"relu", "unary"} => Size(a[2]) <= Size(a[1])

------------------------------------------------------------------------------
(* Submission                                                                 *)

\* finish_commands of the commands cmds of call by; extra: heaps alive meanwhile.
Submit(cmds, by, extra) ==
  LET m == Execute(Before(extra), cmds, by)
  IN  gpu' = m.state /\ mem' = m.mem /\ faults' = m.faults

\* (mutant of Join: a call made in a scope still submits by itself)
JoinAtOnce(r, does) ==
  /\ Submit(r.cmds, calls + 1, r.heaps)
  /\ UNCHANGED <<list, heaps>>

\* In a scope the call's own commands join the list; a list that a transfer has
\* closed drops them.
Join(r, does) ==
  /\ list' = IF list.open THEN [list EXCEPT !.cmds = @ \o r.cmds,
                                            !.does = IF prepared THEN @ \o does ELSE @]
             ELSE list
  /\ heaps' = heaps \cup r.heaps
  /\ UNCHANGED gpuVars

NextCall == calls' = calls + 1

PerResourceKinds == {"concat", "concat_conv", "concat_int8", "concat_residual"}

NamesOneTwice(a) == \E i, j \in DOMAIN a : i # j /\ Res(a[i]) = Res(a[j])

\* begin_or_join_commands .. finish_if_owned
Invoke(kind, a) ==
  LET n  == calls + 1
      by == IF prepared THEN 0 ELSE n
      r  == Recorded(Record0, kind, by, n, a)
  IN  /\ calls < MaxCalls /\ NextCall
      /\ Range(a) \subseteq py /\ Fits(kind, a)
      /\ kind = "relu" => ~batch   \* its begin_commands fails on an open list
      /\ state' = r.st
      /\ IF batch THEN Join(r, Meant(kind, a))
         ELSE Submit(r.cmds, n, r.heaps) /\ UNCHANGED <<list, heaps>>
      /\ spec' = IF prepared THEN spec ELSE Meaning(spec, Meant(kind, a), n)
      /\ aliased' = (aliased \/ (kind \notin PerResourceKinds /\ NamesOneTwice(a)))
      /\ UNCHANGED <<buf, py, saved, batch, prepared, graph, disp, slot, failed>>

Dispatches == \E kind \in DOMAIN Args : \E a \in Args[kind] : Invoke(kind, a)

\* Copies begin or join like a dispatch and then always finish, so in a scope
\* they close and submit the scope's list; on a closed list Close fails.
Transfer(r, does, n) ==
  /\ IF batch
     THEN IF list.open
          THEN /\ Submit(list.cmds \o r.cmds, n, heaps \cup r.heaps)
               /\ list' = Closed /\ UNCHANGED failed
          ELSE failed' = TRUE /\ UNCHANGED <<gpuVars, list>>
     ELSE Submit(r.cmds, n, r.heaps) /\ UNCHANGED <<list, failed>>
  /\ spec' = Meaning(spec, does, n)
  /\ UNCHANGED <<saved, batch, prepared, heaps, graph, disp, slot, aliased>>

CopyIn(r, h, cells, n) ==
  LET q == Add(Enter(r, h, "COPY_DEST"), Fill(n, LocalHeap, cells))
  IN  [Enter(q, h, r.st[h]) EXCEPT !.heaps = @ \cup {LocalHeap}]

CopyOut(r, h, cells) ==
  LET q == Add(Enter(r, h, "COPY_SOURCE"), ReadBack(LocalHeap, cells))
  IN  [Enter(q, h, r.st[h]) EXCEPT !.heaps = @ \cup {LocalHeap}]

UploadInto(h) ==
  LET r == CopyIn(Record0, h, Elements(h), calls + 1)
  IN  /\ calls < MaxCalls /\ NextCall /\ h \in Copied \cap py
      /\ state' = r.st
      /\ Transfer(r, <<Effect({}, h)>>, calls + 1)
      /\ UNCHANGED <<buf, py>>

Download(h) ==
  LET r == CopyOut(Record0, h, Elements(h))
  IN  /\ h \in Copied \cap py
      /\ state' = r.st
      /\ Transfer(r, <<>>, calls)
      /\ UNCHANGED <<buf, py, calls>>

------------------------------------------------------------------------------
(* Buffers                                                                    *)

\* allocate_buffer, allocate_uav_buffer
Allocate(h) ==
  /\ h \in Spare \ DOMAIN buf
  /\ buf' = [g \in DOMAIN buf \cup {h} |-> IF g = h THEN [res |-> h, lo |-> 0, n |-> Width] ELSE buf[g]]
  /\ py' = py \cup {h}
  /\ UNCHANGED <<state, ctxVars, graph, disp, slot, gpuVars, spec, failed, aliased, calls>>

\* upload_buffer: a new buffer and the copy into it; when the copy fails the
\* buffer is deleted.
UploadNew(h) ==
  LET cells == {h} \X (0 .. Width - 1)
      n     == calls + 1
      cmds  == <<Barrier(h, "COMMON", "COPY_DEST"), Fill(n, LocalHeap, cells),
                 Barrier(h, "COPY_DEST", "COMMON")>>
  IN  /\ h \in Spare \ DOMAIN buf /\ calls < MaxCalls /\ NextCall
      /\ batch => list.open
      /\ buf' = [g \in DOMAIN buf \cup {h} |-> IF g = h THEN [res |-> h, lo |-> 0, n |-> Width] ELSE buf[g]]
      /\ py' = py \cup {h}
      /\ Transfer([cmds |-> cmds, heaps |-> {LocalHeap, h}], <<[in |-> {}, out |-> cells]>>, n)
      /\ UNCHANGED state

\* create_buffer_view of the last n elements of p
CreateView(h, p, n) ==
  /\ h \in Spare \ DOMAIN buf /\ p \in Viewed \cap py /\ n \in 1 .. buf[p].n
  /\ buf' = [g \in DOMAIN buf \cup {h} |->
               IF g = h THEN [res |-> buf[p].res, lo |-> buf[p].lo + buf[p].n - n, n |-> n] ELSE buf[g]]
  /\ py' = py \cup {h}
  /\ state' = [state EXCEPT ![h] = state[p]]
  /\ UNCHANGED <<ctxVars, graph, disp, slot, gpuVars, spec, failed, aliased, calls>>

\* What Python's backend never does: drop a buffer that recorded work still
\* names, run a prepared list or end a batch inside the recording of a graph.
CallerMay(what) == Careful => what

\* The last reference to a handle goes: destroy_buffer.
Drop(h) ==
  /\ h \in Dropped \cap py
  /\ CallerMay(buf[h].res \notin AllTouched(list.cmds) \cup AllTouched(graph.cmds))
  /\ py' = py \ {h}
  /\ UNCHANGED <<buf, state, ctxVars, graph, disp, slot, gpuVars, spec, failed, aliased, calls>>

------------------------------------------------------------------------------
(* Recording scopes                                                           *)

BeginBatch ==
  /\ ~batch
  /\ list' = Opened /\ batch' = TRUE /\ heaps' = {}
  /\ UNCHANGED <<buf, py, state, saved, prepared, graph, disp, slot, gpuVars, spec, failed, aliased, calls>>

EndBatch ==
  /\ batch /\ CallerMay(~prepared)
  /\ IF list.open THEN Submit(list.cmds, calls, heaps) /\ UNCHANGED failed
     ELSE failed' = TRUE /\ UNCHANGED gpuVars
  /\ list' = Closed /\ batch' = FALSE /\ heaps' = {}
  /\ UNCHANGED <<buf, py, state, saved, prepared, graph, disp, slot, spec, aliased, calls>>

BeginPrepared ==
  /\ ~batch /\ ~prepared
  /\ saved' = list /\ list' = Opened
  /\ batch' = TRUE /\ prepared' = TRUE /\ heaps' = {}
  /\ UNCHANGED <<buf, py, state, graph, disp, slot, gpuVars, spec, failed, aliased, calls>>

EndPrepared ==
  /\ prepared
  /\ IF list.open
     THEN graph' = [cmds |-> list.cmds, does |-> list.does, heaps |-> heaps] /\ UNCHANGED failed
     ELSE failed' = TRUE /\ UNCHANGED graph
  /\ list' = saved /\ saved' = Closed
  /\ batch' = FALSE /\ prepared' = FALSE /\ heaps' = {}
  /\ UNCHANGED <<buf, py, state, disp, slot, gpuVars, spec, aliased, calls>>

ExecutePrepared ==
  /\ graph # NoGraph /\ calls < MaxCalls /\ NextCall
  /\ CallerMay(~batch)
  /\ Submit(graph.cmds, calls + 1, graph.heaps)
  /\ spec' = Meaning(spec, graph.does, calls + 1)
  /\ UNCHANGED <<buf, py, state, ctxVars, graph, disp, slot, failed, aliased>>

\* synchronize has nothing to wait for: every submission was waited for.

------------------------------------------------------------------------------
(* Dispatches recorded once                                                   *)

HoldsOf(a) == {buf[h].res : h \in Range(a)}

\* a: the operands
Keep(kind, r, does, a) ==
  /\ disp' = [kind |-> kind, lists |-> [k \in 0 .. Ring - 1 |-> r.cmds], does |-> does, holds |-> HoldsOf(a)]
  /\ slot' = 0 /\ aliased' = (aliased \/ NamesOneTwice(a))
  /\ UNCHANGED <<buf, py, state, ctxVars, graph, gpuVars, spec, failed, calls>>

PrepareRelu(a) ==
  /\ Range(a) \subseteq py /\ Fits("relu", a)
  /\ Keep("relu", Plain(Record0, 0, <<a[1]>>, a[2]), <<Effect({a[1]}, a[2])>>, a)

PrepareConvSilu(a) ==
  /\ Range(a) \subseteq py
  /\ Keep("conv", ConvSiluInto(Record0, 0, a), Meant("conv_silu", a), a)

\* The output of block i of a chain of k blocks.
BlockOutput(i, k, y) == IF i = k THEN y ELSE IF k = 2 THEN Arena[0] ELSE Arena[(i - 1) % 2]

BlockInput(i, k, y) == IF i = 1 THEN ChainIn ELSE BlockOutput(i - 1, k, y)

\* The upload, then k convolutions with weights w and biases b, each of which
\* leaves the states as it found them.
ChainCommands(r, k, w, b, y) ==
  LET up       == <<Barrier(ChainIn, "COMMON", "COPY_DEST"), Fill(0, LocalHeap, Elements(ChainIn)),
                    Barrier(ChainIn, "COPY_DEST", "COMMON")>>
      block(i) == ConvSiluInto(r, 0, <<BlockInput(i, k, y), w, b, BlockOutput(i, k, y)>>)
  IN  [r EXCEPT !.cmds = up \o FlattenSeq([i \in 1 .. k |-> block(i).cmds])]

\* prepare_conv2d_silu_upload (k = 1) and prepare_conv2d_silu_chain_upload
PrepareChain(k, w, b, y) ==
  /\ {w, b, y} \subseteq py
  /\ Keep("chain", ChainCommands(Record0, k, w, b, y), <<Effect({w, b}, y)>>, <<w, b, y>>)

Prepares ==
  \/ \E a \in Args["unary"] : PrepareRelu(a)
  \/ \E a \in Args["conv_silu"] : PrepareConvSilu(a) \/ \E k \in Depths : PrepareChain(k, a[2], a[3], a[4])

NextSlot(s) == (s + 1) % Ring

\* A chain copies the caller's bytes into the mapped heap of its slot first.
ExecuteDispatch ==
  /\ disp.kind # "none" /\ calls < MaxCalls /\ NextCall
  /\ CallerMay(~batch)
  /\ Submit(disp.lists[slot], calls + 1, {LocalHeap})
  /\ slot' = IF disp.kind = "chain" THEN NextSlot(slot) ELSE slot
  /\ spec' = Meaning(spec, disp.does, calls + 1)
  /\ UNCHANGED <<buf, py, state, ctxVars, graph, disp, failed, aliased>>

Next ==
  \/ Dispatches
  \/ \E h \in Handles : UploadInto(h) \/ Download(h) \/ Allocate(h) \/ UploadNew(h) \/ Drop(h)
  \/ \E h \in Spare, p \in Handles, n \in 1 .. Width : CreateView(h, p, n)
  \/ BeginBatch \/ EndBatch \/ BeginPrepared \/ EndPrepared \/ ExecutePrepared
  \/ Prepares \/ ExecuteDispatch

Spec == Init /\ [][Next]_vars

------------------------------------------------------------------------------
(* Properties                                                                 *)

\* Handles, states, memory and the slot of the prepared dispatch keep their types.
TypeOK ==
  /\ py \subseteq DOMAIN buf /\ DOMAIN buf \subseteq Handles
  /\ state \in [Handles \cup Owned -> States] /\ gpu \in [Resources -> States]
  /\ mem \in [Cells -> SUBSET (1 .. MaxCalls)] /\ spec \in [Cells -> SUBSET (1 .. MaxCalls)]
  /\ faults \subseteq FaultKinds /\ calls \in 0 .. MaxCalls /\ slot \in 0 .. Ring - 1

\* Between calls every handle says COMMON and every resource is in COMMON.
\* That is what makes a list that was recorded once (with COMMON as the state
\* before) right whenever it is executed.
RestInCommon ==
  (\A h \in DOMAIN state : state[h] = "COMMON") /\ (\A r \in Resources : gpu[r] = "COMMON")

\* No executed list uses a resource in a wrong state or touches what an earlier
\* dispatch wrote without a barrier, and a transition starts from a state the
\* resource is not in only when a call outside the concat family got two operands
\* of one resource.
OnlyAliasesMisstate ==
  /\ faults \cap {"misuse", "race"} = {}
  /\ "misstated" \in faults => aliased

\* No executed list names a resource that is gone: operands, the zeros a decode
\* copies from, the buffers of a prepared graph.
NothingFreedRuns == "freed" \notin faults

\* Outside a scope the buffers Python holds have the bytes the caller means,
\* whatever was batched, recorded, replayed or copied in the middle of a scope,
\* unless a call raised an error: nothing is lost silently.
MemoryIsSequential ==
  ~batch /\ ~failed =>
    \A c \in Cells : c[1] \in {buf[h].res : h \in py} => mem[c] = spec[c]
================================================================================
