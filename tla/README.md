# Verification of aexrt in TLA+

aexrt compiles an ONNX detection model into an *engine* file (Python,
`src/src/aexrt`) and replays it on Direct3D 12 (C++, `src/native`); a Python
session, a Python extension and a native C interface run graphs without an
engine. This directory models the parts of the system where testing helps
least: what the compiler promises about memory and barriers, what two GPU queues
and the CPU do with those promises, how frames go through the runtime while
others are in flight, which convolution kernel is recorded when something
fails, what threads and command lists share on one device, and what the
rewriting of a graph must not change. The modules are checked with TLC on small
instances; for the frame pipeline, the two planners, the convolutions and an
engine replayed on one queue the safety properties, and three refinements, are
proved with TLAPS for every value of the constants.

Line numbers refer to `src/native/aexrt_d3d12_runtime.cpp` ("R"), to
`src/native/aexrt_native_d3d12.cpp` ("N"), or to files of `src/src/aexrt`.

## 1. Inventory

### 1.1 Components

| Component | State it keeps | Operations | Correct when |
|---|---|---|---|
| **Frame pipeline** (R 29699–29944, 30871–31127) | recorded lists, upload slots, fence values, the frame in flight, shared readbacks | `aexrt_yolo_run`, `flush_pipeline`, `input_ptr`, `override_conv_algorithm`, destroy | results are of their own frame, in order, none twice; nothing the GPU uses is released or rewritten; every call returns |
| **Arena planner** (`memory_v2.py`) | colours, pages, slots, offsets | colour, remap, place | no dispatch reads and writes one page; bytes are shared only by lives that do not meet; one element type per page |
| **Barrier planner** (`barrier_v2.py`) | page states, pending writes, records | plan a dispatch, hoist at the fork, reject | conflicting accesses are ordered by a barrier; each kernel finds its pages in the state it needs |
| **Window planner** (`engine.py` 3146–3262) | waves, seeds, sides | choose a window and the side of each dispatch | the two sides are independent |
| **Engine builder** (`engine.py` 120–304) | value DAG, physical dispatches, sections | build | the loader accepts what is built |
| **Loader** (R 17317–18685) | model and engine sections | parse, recompute the barrier plan, compare | accepts exactly the builder's plan |
| **Recorder** (R 27512–29696) | tracked page states, deferred hoists, lists | record a planned stream on one or two queues, fall back, roll back | every transition starts from the state the page is in; a failed attempt leaves nothing behind |
| **Submission on two queues** (R 29864–29926) | fork and join fences | submit | first queue and second queue never touch what the other still uses |
| **Convolution kernels** (HLSL in R 1400–6900) and their recording (R 7100–7900, 9380–9620, 23250–26230) | pipelines, packed weights, descriptors | plan an algorithm, compile, pack weights, dispatch, fall back | every output is written once from every term; the view bound is the layout the shader reads; only a failure refuses |
| **Post-processing on the GPU** (R 15240–15760, 27860–28250) | candidates, keep flags, two counters | decode, mark, rank, copy back | detections permitted for the output of their own frame |
| **Native C interface** (R 16200–17000, 31130–32000) | tracked state of buffers, the device's list and mutex, rings of upload slots | buffers, kernels, prepared dispatches, compiled graphs | a call answers for its own inputs; lists meet the states they were recorded for; calls return |
| **Python extension** (N) | handles, views, the open recording scope, prepared graphs and dispatches | immediate dispatches, batches, prepared graphs, copies, views | a batch does what its calls would do one by one; states rest in COMMON |
| **Optimizer** (`optimizer.py`) | graph | fold, remove identities, fuse | the rewritten graph computes the same |
| **Execution plans, arena of the scheduler, session** (`execution.py`, `scheduler.py`, `session.py`) | value specs, lifetimes, allocations | open, run | inferred specs are true; bytes are shared only by disjoint lives |
| **NumPy backend** (`backends/numpy_backend.py`, `_numpy_ops.py`) | arrays by name | run nodes in order | – (it is the meaning of a graph) |
| Other kernels (pooling, attention, C2F, elementwise) | – | one recorder each | the kernel computes the operator |
| ONNX importer, other backends, YOLO front ends, CLI, bindings | – | import, run, decode | – |
| Mobile runtime (`src/mobile`) | flat layer list, Vulkan objects | load, run | – |
| Tests, examples, benchmarks, Dear ImGui | – | – | – |

### 1.2 How they interact

1. `build_aexrt_engine` plans the window, then the arena with the window's
   sides as extra conflicts, then the barriers over the arena's pages, and
   writes all three into sections of the engine. For each convolution it also
   writes the algorithm to use.
2. The loader parses the sections, plans the barriers a second time in C++ and
   refuses the engine when one record differs.
3. The first run records command lists from the plan: `main` on one queue, or
   `pre`, `second`, `mid`, `post` around the window on two. Later runs only
   submit. A conv override makes the next run record again. A convolution's
   planned algorithm is taken when its matcher agrees, otherwise the run-time
   planner chooses; each compile and each packed weight has a fall-back.
4. Each run copies the input to its page, submits the lists, and either waits
   (one frame) or collects the frame before and returns (two to four frames).
   The lists end with decode, suppression and ranking of the detections.
5. Below the models, one `AexrtDevice` is shared by kernels, prepared dispatches
   and compiled graphs. A call is one or more sections under the device's mutex;
   slots are chosen and filled, and lists prepared, without it.
6. The Python extension holds the GIL and its own mutex during a call, so its
   calls do not interleave; they do share the open recording scope, and their
   lists outlive them.
7. A Python session optimizes and plans a graph when it is opened; its backend
   looks values up by name, node by node.

All calls of a model come from one thread (the code takes no lock of the
model's own). Concurrency is between the CPU and the GPU queue, between the two
GPU queues, between the threads of one GPU dispatch, and between threads of the
native C interface.

### 1.3 Behaviours that are hard to test

- A frame in flight across API calls: which upload its copy reads, whether its
  result is collected, whether its resources survive a re-recording.
- Submission is several calls, and each can fail after the others took effect.
- Barriers: a missing one is invisible until two kernels overlap on one GPU.
- Two planners (Python, C++) that have to agree on every record.
- Interleavings of two queues between fork and join, on memory whose reuse was
  decided at compile time.
- A recording that fails half way and is made again in the same call.
- Grids, tile sizes and weight layouts that shader and host compute apart, for
  some fifty convolution kernels and the fall-backs between them, most of which
  need a failing compile or another device to be reached.
- Lists recorded now and executed later, with handles that share a resource and
  have tracked states of their own.
- What a call does before it takes the mutex and after it lets it go.
- Atomic counters and flags that one GPU dispatch leaves to the next, and one
  frame to the next.
- Graph passes whose preconditions are about other nodes than the ones they
  look at; lifetimes that a chain of nodes never shows to be short.

`PROJECT.json` lists each of them as a hazard at its line, with the properties
that cover it or the reason why none does.

## 2. Modules

| Module | Models | Abstract promise |
|---|---|---|
| `FramePipeline` | run, flush, override, input pointer, re-recording, destroy; the GPU queue and fences | `FrameStream` (refinement) |
| `FrameStream` | what a caller may rely on: frames accepted, answered in order, at most `Lag` outstanding | – |
| `PageArena` | `build_page_colored_arena`: colouring, typed pages, slot placement | its properties |
| `BarrierPlan` | `build_arena_barrier_plan` with the fork hoist and both errors | its properties |
| `ReplayGraph` | what is derived from a replay: value DAG, lifetimes, conflicts, the job for the barrier planner, the loader's own choice of hoist | – |
| `DualWindow` | `_plan_dual_queue_window` and the sides of values | – |
| `EngineReplay` | builder, loader, recorder, submission and the two GPU queues; instantiates `PageArena` and `BarrierPlan` | `ReplaySemantics` (refinement) |
| `ReplaySemantics` | every kernel once per frame, after those that make its inputs | – |
| `ConvKernels` | the convolution shaders: what a grid of each covers and what it reads | – |
| `ConvShapes` | the matchers, the run-time planner and its switches, the check of a planned algorithm | – |
| `ConvBuilder` | the algorithm the engine builder writes, the maps, the candidates of the tuner | – |
| `ConvWeights` | the packed weight buffers and when they exist | – |
| `ConvDispatch` | `record_replay_conv`: compile, weights, fall-backs, grids, INT8 branch | its properties |
| `ConcatConv` | `record_replay_concat_conv1x1` and its kernels | as `ConvDispatch` |
| `GpuCommands` | lists, transitions, barriers and queues as D3D12 defines them (external) | – |
| `DeviceBatch` | the Python extension | its properties (`spec`) |
| `NativeGraph` | graphs of the native C interface: fused, node by node, or refused | – |
| `NativeDevice` | threads, sections, prepared dispatches and slots of the native C interface | its properties (`spec`) |
| `YoloBoxes` | decoding, overlap, what the GPU permits, the CPU's greedy suppression | – |
| `YoloDecode` | the three post-processing kernels, thread by thread, for frame after frame | `Detections` (refinement) |
| `Detections` | every frame answered with detections permitted for its output | – |
| `GraphOptimizer` | graphs, what NumPy computes for them, `optimize_graph` | – |
| `MemoryPlan` | `infer_value_specs`, `build_memory_plan`, the arena of the schedule | – |
| `GraphSession` | a session: open with or without the optimizer, run node by node | its properties |
| `MC…` | instances for TLC | – |
| `FramePipelineProofs` | proofs: what the GPU uses; order, losses and pixels of frames | – |
| `PageArenaProofs`, `BarrierPlanProofs` | proofs about the planners | – |
| `EngineReplayProofs` | proofs: the page states, then the data, of an engine replayed on one queue; instantiates the proofs about the planners | – |
| `ConvDispatchProofs` | proofs: kernels and run-time planner; recorder and what is recorded | – |
| `GpuCommandsProofs` | proofs: what lists of any length do | – |
| `NativeDeviceProofs`, `DeviceBatchProofs` | proofs: threads, sections and lists of the native interface; calls, scopes and recorded work of the Python extension; both extend `GpuCommandsProofs` | – |

`FramePipeline` needs no MC module: its constants are given in the cfg files.

### 2.1 FramePipeline

`pc` is the place inside the call in progress; each value is an interval of
`ensure_prepared_yolo_replay` or `execute_prepared_yolo_replay` between two
points where the GPU can matter. `frames`, `nextSlot`, `hasInflight`, `awaited`
are the model's fields `pipeline_*`; `issued` and `completed` are the values
given to and reached by `pipeline_fence` and `device->fence`. `gen` counts
recordings: whatever carries an older number uses uploads and lists that have
been released. Data is abstracted to *which frame's pixels*: `upload`,
`gpuInput` and `readback` hold the number of a run.

The GPU (`GpuRetire`) takes the oldest item of the queue: an input copy, a
recorded list, or a fence signal. One queue executes in order, so finer steps
would add nothing here; the effect of overlapping kernels within a list is the
subject of `EngineReplay`.

Failures are a constant: recording fails, registering a wait fails, mapping a
readback fails, `Signal` fails after the lists were submitted. A cfg names the
failures its run allows.

### 2.2 PageArena

One step per value in the order of the code's loops: colour the value
with most colours around it (then most neighbours, then the lower number),
split colours by element type, place values page by page by (start, number), reusing the smallest free slot that fits. A task is any
conflict graph with lives, sizes and storages; `IsTask` says what a task is.

### 2.3 BarrierPlan

One step per dispatch. For a page it gives the record the accesses need
(transition to SRV or UAV, or a UAV barrier between overlapping writes), then
the record hoisted to the fork, and updates the tracked state and the pending
writes. The two `ValueError`s are verdicts. The plan is a set of records: their
order in the engine is by dispatch and page, with the access before the hoist.

### 2.4 EngineReplay

Stages `arena`, `barriers`, `load` build and check one engine from a program of
`Programs`. `record` takes one dispatch at a time: barriers of the plan, the
kernel, deferred hoists. `Refused`, `Mismatch` and a failing kernel end the
attempt (`GiveUp`): a dual recording starts again on one list, any other fails
the call. `Submit` gives the queues their commands, and the queues then run
independently:

- a queue starts its commands in order, and kernels without a barrier between
  them run together (`StartKernel`, `EndKernel`);
- a barrier on a page waits for the queue's kernels that use the page;
- a fence is signalled when the queue's earlier kernels are done; a wait stops
  only its queue.

A kernel spoils the bytes it writes from its start to its end; `intact` is the
set of values whose bytes hold this frame's result. This is what makes a lost
barrier or a wrong lifetime visible.

The C++ planner of the loader is not modelled a second time: it is the same
algorithm but for the value a hoist record names, which `LoaderHoist` computes
its own way and `PlanMatches` compares.

### 2.5 Convolutions: ConvKernels to ConcatConv

A shader is not written out. What matters of it is which outputs a grid of it
writes, which terms it adds, and in which layout and element size it reads
weights and activations. `ConvKernels` gives each shader as a set of index
spaces: for one axis (output positions, channels, taps, …) `need` is the number
of indices the convolution has and `reach` the number the grid and the shader's
own constants cover, after its bound checks. `Exact` is `need = reach` on each
axis; the product of the axes is the whole tensor. So a grid that is one tile
short, a tile constant that differs between shader and host, or a missing bound
check shows as a difference of two integers, for the real shapes of the models.

`ConvShapes` holds the predicates that pick a shader for a shape and the planner
that applies them in order under the environment switches. `ConvBuilder` is what
the Python builder, the algorithm maps and the override API put into a command.
`ConvWeights` is each packed buffer with the condition under which it is made.

`ConvDispatch` is the recorder, in stages `choose`, `compile`, `weights`,
`record`. `chain` is what is left to try when a pipeline does not compile,
`wanted` which weights the current pipeline is to get, `bound` the view made of
them, `packs` the buffers that exist. A compile, an upload, a quantisation or a
descriptor may fail wherever the code tests for it, and `failed` remembers it.
`ConcatConv` adds the 1x1 convolution over a concatenation, where the code
compiles in one order and selects what it records by flags in another: `chain`
is the first and `Recorded` the second.

### 2.6 DeviceBatch and GpuCommands

`GpuCommands` is the D3D12 contract: a list is a sequence of commands, a
resource has one actual state, a transition must name it, commands in a row
overlap unless a barrier parts them, a list keeps nothing alive. Data is
provenance: a cell holds the calls its content was computed by.

Every call of the extension runs under the GIL and the device's mutex and waits
for its submission, so it is one step of `DeviceBatch`; the hazards are in the
order of calls. `state` is what a handle says of its resource, `gpu` what is
true, `list` the open scope, `graph` and `disp` what was recorded for later.
`spec` is the memory the caller means: each call takes effect where it stands, a
call inside a prepared graph whenever the graph is executed.

`Careful` assumes three things the Python backend does
(`native_d3d12_backend.py` 446–497 keeps the buffers of a prepared graph as
long as the graph): it drops no buffer that recorded work names, executes
nothing recorded while a scope is open, and ends no batch inside a prepared
recording. The extension itself does not ask for any of them.

### 2.7 NativeGraph and NativeDevice

`NativeGraph` is the compilation of a graph: one fused dispatch, node by node,
or refused. `NativeDevice` runs threads. A call is a list of sections; `Record`
takes the mutex and turns tracked states, `Submit` hands the list to the queue,
`Wake` sees the fence and lets go. `FillSlot` (the caller's bytes into the slot of
an upload ring) and `Bump` (the next slot) happen outside, as do `Prepare`,
`Compile` and `Destroy`. A failing wait returns to the caller with the list on
its way. `spec` is the memory of sections that take effect at once, in the order
of submission; `answers` pairs what each call returned with what it should have.

The operands of one kernel are different handles, though they may be views of
one resource; `Apart` keeps dispatches from being prepared while a section has
one of their buffers turned (section 6). `CallsAssumption` states both of the
constants. `OneOwner` says that a graph and an upload ring each have one thread
that uses them; `MCNativeDevice` has TLC evaluate it for the calls of the run.

### 2.8 YoloBoxes, YoloDecode and Detections

The command list of a frame's end is built once, from the recorder's steps and
the tracked states (`list`), and executed for every frame. A dispatch starts a
set of threads, each of which moves alone: `Claim` takes a slot from the atomic
counter, `WriteCandidate` fills it, `Mark` reads all candidates and sets its flag, `Place`
puts a kept candidate at its rank. A barrier on a buffer waits only for the
threads that use the buffer, so a missing one lets the next dispatch overtake.
Buffers keep what the frame before left. Boxes are intervals with integer
corners and percentages; decoding an anchor is the choice of its best class.
`Detections` is the promise, and `AgreesWithCpu` relates it to the CPU's
post-processing, which is an operator (`run_yolo_output0_postprocess`).

### 2.9 GraphOptimizer, MemoryPlan and GraphSession

Values have numbers for names, which sort as the names do. An array is its shape,
its element type (`float32`, `float64`, `int32`, `int64`) and a *term* (which
operator of which arrays, `a + b` and `b + a` being one term), so two runs give
the same array exactly when they apply the same operators to the same inputs.
Shape and type of a result are computed twice. `ShapeOf` and `TypeOf` follow
`NumpyBackend._eval` and `_numpy_ops` and the rules of NumPy: windows counted,
slices as sets of indices, the common type of the operands (`Promoted`, where
`int32` and `float32` give `float64`), and `float64` for integers that are
divided, averaged, put through `exp` or `tanh` or multiplied by a Python float.
They are the rules of NumPy 2, in which `np.sqrt(2.0)` makes `_gelu` compute in
`float64`. `OutSpec` is `infer_value_specs`, which keeps the first operand's
type. `InferredSpecsHold` compares the two, exactly for types. The passes of `optimize_graph` and the memory plan are folds over the nodes.

`GraphSession` opens a graph with or without the optimizer and runs it node by
node. Beside the arrays by name, which is what the NumPy backend uses, it keeps
`intact`: the values whose bytes in the planned arena would still hold them, if
each were written at its planned place. A backend with an arena reads exactly
those bytes.

## 3. Runs

| Run | Instance | What it shows |
|---|---|---|
| `pipeline_sync` | one frame, input by pointer or by caller memory, failing readbacks, 5 runs | each result is computed from its own pixels (`ResultIsOfItsFrame`, and as a refinement `RefinesDataStream`); uploads are stable while read |
| `pipeline_nbuffer` | 2, 3 or 4 frames (9 is clamped), 3 recordings, failing recordings, waits and readbacks, 5 runs | one frame on the GPU at a time, nothing released in use, stable readbacks, in-order answers with a lag of one (`RefinesOrderedStream`), losses only where the code drops |
| `pipeline_faults` | one and two frames, every failure, 5 runs | no result twice, out of order or for a failed run, and no call hangs |
| `pipeline_stale_input` | two frames, no failures | a violation, see section 6 |
| `page_arena` | all 64 conflict graphs on 4 values, lives of 0–2 stages, two size patterns, two storages, a reuse gap of 1 | `NeighboursApart`, `LivesApart`, `TypedPages` |
| `barrier_plan` | 4 dispatches over 5 values on 2 pages with all overlaps, no hoist or one of either page; a dispatch reads and writes different pages, but for the last one | `ConflictsAreOrdered`, `KernelsFindTheirState` |
| `engine_replay` | 8 programs on one queue, 4 on two, 2 whose plan the recorder refuses, 2 calls, 1 failing kernel | kernels read their inputs and find their pages; transitions start right; every engine is accepted; a plan is refused only for a hoist recorded too early (`PlanIsRecordable`); `RefinesReplay`; `CallsReturn`, `AllFramesRun` |
| `conv_dispatch` | 48 shapes, planned by the builder, by a map or at run time, each environment switch alone and with the preferred kernels switched off; 11 concatenations under every set of 5 switches; 4 devices; anything failing | what is recorded computes the convolution, reads what is bound, refuses only after a failure; fall-backs go forward |
| `device_batch` | 7 buffers (one a view), one spare handle, 15 kinds of dispatch, chains of 1 and 3, 2 computing calls | states rest in COMMON, no race, no freed resource, memory as if every call ran where it stands |
| `native_device` | 2 threads, 3 calls, two graphs, an upload ring of 2, a prepared convolution, views, a download; waits that fail on lists of their own | every call answers for itself, memory is sequential, lists run clean, calls return |
| `yolo_decode` | 6 outputs, room for 3 candidates and 2 detections, 1 or 5 asked for, 2 frames, every order of the threads | `RefinesDetections`, `AgreesWithCpu` |
| `graph_session` | every graph of 3 nodes over 4 operators, every tree of 5 readers under 4 orders of names, 8 graphs for the fusions, 14 for shapes and types of the operators; 2 runs; alignment 16 | runs compute the graph's meaning and raise in two known cases; planned shapes hold but for two named causes, planned types exactly where three named causes are absent; bytes still to be read are lost only to values that wait for a reader |

**Bounds.** `MaxRuns` 5 is more than the largest number of slots, so every slot
is reused; `MaxRecords` 3 gives a recording after a recording with a frame in
flight each time. In the arena, 4 values with an input and lives of up to two
stages suffice for a slot to be freed, reused and reused again on a page shared
by three values, with an edge between any two. In the barrier planner 4
dispatches allow write–write, write–read–write and both on either side of the
fork. `EngineReplay` runs two frames because page states, fences and recorded
lists carry over from one frame to the next, and a third would start as the
second does. One failing kernel is enough for a fall-back followed by a second
recording; two failures repeat the first.

The shapes of `conv_dispatch` are those of the YOLO models the kernels are named
for, with neighbours on odd maps (13, 7), channels that no tile divides (30, 66,
2), groups, dilation and batches; `Cleared` switches off the preferred kernels
first, so that what stands behind them is reached. Two calls suffice in
`device_batch`, since a fault needs what one call leaves and another finds, and
copies, views, scopes and preparations come between them unlimited. With three
calls in `native_device` two threads
contend and one of them comes back to what it left. In `yolo_decode` four
anchors pass where three have room, and the second frame meets what the first
left. Three nodes are the least in which the optimizer can fuse, fold and
reroute at once; longer fusions are among the curated graphs. A second run is
needed since constants are written only when the session opens.

**Deadlock** is not checked: a caller may stop calling, a model may be
destroyed, and planners, recordings and sessions stop when they are done. That
nothing waits for ever is a liveness property instead (`CallsReturn`,
`AllFramesRun`, the promise of `Detections`).

**Fairness.** `FramePipeline` assumes weak fairness of the GPU's retirement and
of the call in progress (`CallStep`), and none of the caller or of failures:
nobody has to call, and no failure may rescue a call that waits.
`EngineReplay` assumes weak fairness of the host and of each queue: a D3D12
queue works on what it is given, and the host's loops do not wait except for
fences. `NativeDevice` assumes weak fairness of the queue and of each thread
inside a call, where a thread wants the mutex as long as it is free: callers
make finitely many calls, so a mutex without a queue passes nobody over for
ever. `YoloDecode` assumes weak fairness of the GPU (a D3D12 queue finishes its
threads) and of the collection. The planners, the recorder of convolutions
(`FallbacksGoForward` shows that it ends), `DeviceBatch` and `GraphSession` need
none, as they have no liveness property.

**Type invariants.** `TypeOK` of `FramePipeline`, `PageArena` and `BarrierPlan`
is proved (`TypeCorrect`). The other modules that define one leave it to their
own properties, which could not be evaluated in an ill-typed state.

**Refinements.** `RefinesOrderedStream` maps the frame in flight to
`outstanding` and the results to their frame numbers, with a lag of one;
`RefinesDataStream` maps results to the *pixels* they were computed from, with
no lag, and is checked for one frame at a time: with several it fails
(section 6). `RefinesReplay` maps `finished` kernels of the frame to `ran`.
`RefinesDetections` maps the flattened heads to `output` and a frame's threads,
counters and copies to one step.

## 4. Proofs

Each proof states an inductive invariant, proves it from the initial states and
for every action, and derives the properties the runs check. TLC checked the
invariants as invariants of the runs before they were proved.

**FramePipelineProofs**, for every number of runs, recordings and slots:
`TypeCorrect`, and under two assumptions `OneFrameAtATime`, `NoUseAfterRelease`,
`ReadbackIsStable`, `UploadIsStable`. The assumptions are
`SubmissionsSucceed` (no failing `Signal`, no failing device wait) and
`ModeFixed` (the environment variable does not switch between one frame and
several while the model lives); without the second, `NothingReleasedInUse` is
false (section 6), and without the first a frame is on the GPU that the model
forgot. `UploadIsStable` further assumes one frame at a time, for the same
reason. The properties are not inductive: from "one frame on the GPU" alone a
submission could add another. `IInv` adds that everything the GPU has not
finished belongs to the frame in flight, in the current generation, and ends
with the fence value the CPU waits for (`GpuIsAwaited`), that fence values only
grow (`FencesMonotone`), and that the mode in use is the one the environment
allows (`ModeKept`). The key lemma is `Quiet`: when the awaited value is
reached the queue is empty.

Its second half allows *every* failure, the failing `Signal` after a
submission included. `ResultsInOrder` (no result twice, out of order or for a
run that failed) and the refinement `PipelineIsStream` need `ModeStable` only:
the mode does not switch, or there is one recording. `FramesAreNotForgotten`
needs nothing. Work that the model forgot is still in the queue, so `IInv` is of
no use here; `OInv` says instead that no fence passes a value given out
(`SignalsIssued`), that whatever signal the CPU waits for has the newest frame's
readback before it in the queue, whichever older work is mixed in
(`WorkIsKnown`), and that the history is below the frame in flight
(`HistoryOrdered`). For the refinement every action is a step of `FrameStream`
on (frame in flight, results) or leaves both alone; a lost frame is its `Drop`.
`ResultsOfTheirFrames` and the refinement `SynchronousIsStream` follow the pixels
through caller, upload, input page and readback (`PixelsFollow`). They assume one
frame at a time, without which the property is false (section 6, 1), and
`InputsOutliveRecordings`: with a mapped input pointer there is one recording,
since a second one replaces the memory behind the pointer (section 6, 6).

**PageArenaProofs**, for every task, alignment and reuse option: `TypeCorrect`,
`PagesSeparateConflicts`, `SharedBytesLivesApart`, `PagesAreTyped`. `LivesApart`
alone says nothing about the free slots; `SlotInv` adds that slots are disjoint
and below the cursor, that every value of the open page lies inside a slot that
ends no earlier than the value, and that pages are finished in order. Placing a
value then compares it with each earlier one: in the slot it takes
(`ReuseIsPlaced`) or elsewhere (`NewIsPlaced`). Colours become pages through a
map that is one-to-one on (colour, storage), `RemapInv`.

**BarrierPlanProofs**, for every stream, placement and window: `TypeCorrect`,
`ConflictsOrdered`, `StatesMatchAccesses`, `BarriersNeeded`. `StateInv` says what the tracked
state of a page means for the dispatches already planned: in COMMON there were
none, in SRV every write has a later record, in UAV every read has one and
every write is pending or has one. `LatestInv` says that the last transition
recorded on a page is to its tracked state. `BarriersNeeded` is the converse of the
others: no record moves a page to the state it stands in, a REUSE record finds it
in UAV, and a hoist is idle only where its own dispatch moves the page (`NeedInv`).

The planners' theorems start from *any* task or stream that satisfies `IsTask`
or `IsJob`. The steps of `EngineReplay` that plan are steps of the planners, on
a task and a stream derived from a program, so their invariants hold there as
well (`TaskFits`, `JobFits`).

**EngineReplayProofs**, for every set of programs, arena option, number of calls
and failing recordings: `ReplayInvariant`, and from it `TransitionsRight` and
`PagesFound`. They assume `OneQueue`: the second queue is not enabled
(`AEXRT_NATIVE_D3D12_ENABLE_PARALLEL_BRANCH` is unset, the default) or no program
was compiled for it. Without the assumption both properties are false (section
6, 3). A list *leads* from page states to page states when a history of states
exists in which every transition names the state its page is in and every
kernel finds its pages (`Leads`); lists that lead are put together by `LeadsOn`
and taken apart by `LeadsTail`. `Inv` says of each stage what is already known:

- `ArenaBuilt`: the values placed are those of the program, pages are numbers;
- `PlanBuilt`: the stream planned is that of the program, a dispatch has one
  record per page and side of its kernel (`RecordsApart`), and hoists belong to
  the fork;
- `RecordingLeads`: the list recorded so far leads from COMMON to the tracked
  states, and a finished one back to COMMON;
- `GpuLeads`: what the GPU has not started leads from the states the pages are
  in to COMMON, and what runs finds its pages.

The recorder's own checks (`Refused`, `Mismatch`) are what makes a dispatch
lead; that they do not refuse needless is the third part below. A failed
recording keeps deferred hoists, which are one per page for any dispatch
(`HoistsLeft`).

Its second half goes on from there, under the same assumption, to the data:
`InputsAreThisFrames` (while a kernel runs, the bytes of all it reads hold this
frame's results, in whatever order the GPU runs what no barrier keeps apart) and
`ReplayImplements` (the refinement of `ReplaySemantics`). Neither is about one
component: a reader finds its input because the arena gives values that are
alive together different bytes, because the barrier planner puts a record
between any two dispatches that share bytes, because the recorder turns each
record into a barrier in the right place, and because the GPU waits at a barrier
for the kernels that use its page. `DataInv` has a part for each:

- `ArenaSound`, `PlanSound`: the invariants of `PageArenaProofs` and
  `BarrierPlanProofs`, for this program;
- `RecordingSound`: the list holds the kernels of the dispatches recorded so
  far, in order, and between two kernels that *clash* (one writes bytes the other
  uses) a barrier on a page of the first (`Guarded`). To keep that when a
  dispatch is added, the list must also have honoured every record planned so
  far (`Honoured`): a barrier on the record's page after all earlier kernels;
- `FrameSound`: what is left of the queue is later than what was started and
  guarded against it, no two clashing kernels run together, and a result is lost
  only to a later kernel that writes over it.

From the plan's invariant, two dispatches that clash have a record between them
on a shared page (`ClashRecorded`). The record may be the hoist of the earlier
dispatch itself, when that is the fork: then the recorder's check that outputs
are UAV forces the hoist after the kernel (`HoistIsDue`). The head has no record
in the plan; when its input is SRV already, the page's history shows that a
barrier has made it so since the output was written (`ChangedSince`). For the
first theorem, a later kernel that lost the reader its input would be between
maker and reader in stage order, against `SharedBytesLivesApart`, or clash with
the running reader, or be the reader itself, against `PagesFound`.

Its third part is about the verdicts on the plan. `PlanIsTaken`, on one queue:
the recorder refuses a plan only for the faults `PlanIsRecordable` names (windows
included). `FitInv` says that, without such a fault, a recording under way has
left each page where the plan has it before the next dispatch (`Stands`); since
barriers are needed (`NeedInv`), none is refused (`NoneRefused`), and since kernels
find their state in the plan, none is mismatched (`NoMismatch`). `EngineAccepted`,
for programs compiled for one queue: the barrier planner raises no error and the
loader takes the engine; `RefusedForItsWindow` says the same of any program but
for the loader's comparison of windows (section 6, 5). Inputs and outputs of a
dispatch are on different pages (`NeverSimultaneous`, from the colouring). That two
outputs of one dispatch share no bytes needs `SiblingsRead`: with one exception,
the paired convolutions, a dispatch writes one arena value, and both values of a
pair are read. Where a graph has a pair with a dead branch each, the arena gives
both one slot (`memory_v2.py` 451, 471) and `barrier_v2.py` 169 refuses the engine.

`WellFormed`, which the constants of `EngineReplay` satisfy, states what of a
program the proofs use: the form of a replay (`IsProgram`), that aliases end at
a value that is none (`memory_v2.py` 63–70), that no command writes the input or
a constant (as in an ONNX graph) and that the input and the output have a place
in the arena (R 18446–18499). TLC evaluates it for the programs of the run.

**ConvDispatchProofs**, for convolutions of any size, every set of environment
switches, every device and anything failing. The argument has four parts:

1. The shaders: a lemma for each. On the grid that the host
   computes, and on a convolution that has what the shader builds in, `need` and
   `reach` agree on every axis. `CeilCovers` is the tiling lemma they share:
   rounding up to whole groups covers everything.
2. The planner: `Apt(y, fp16, a)` collects what pipeline `a` asks of a
   command, in four parts: the geometry of its window, the sizes built in, the
   numbers it takes at a time, and the activation and element types it is for.
   `PlanApt`: whichever rule of `plan_tileflow_conv` applies first names an apt
   pipeline. Most rules do so by their own condition (`SoundRule`); one, the
   tile-flow kernel at 40x40, only because of the rules tried before it.
3. The recorder: the kernels of the builder and of the map are apt
   (`PlannedApt`), and so is everything tried after an apt one (`ChainApt`);
   hence `ChainInvariant`: all pipelines left to try are apt, and read the
   weights that are wanted for them. `ForwardOnly` follows from it.
   `RefusalsAreFailures` adds for the convolutions over concatenations that
   the kernel the flags select is the first one tried (`HeadInv`).
4. What is recorded: `ConvolutionIsComputed` combines the parts when a list
   is recorded. `ViewsAreRead` needs what was bound on the way there: the view is
   the one the pipeline asks for (`BoundInv`), and where halves are stored the
   pipeline reads halves unless something failed (`StoredInv`).

The theorems about the recorder assume `EngineSettings`: the commands are those
that engines hold, with a kernel that the builder chose, that the map brought to
a convolution of its family (`Suits`), or none. Commands overridden with the
candidates of the tuner are left out, as some of these are out of bounds
(section 6, 10). `MCConvDispatch` states the hypothesis as an assumption
(`SettingsAreOfEngines`), which TLC evaluates for the commands of the run. The
kernels with known faults are in the properties by name (`Misses`,
`KnownViews`), so the theorems say that there are no others.

The attempt to prove `ConvolutionIsComputed` failed at first for the stride-2
GEMM shaders, which no shape of the run then told apart: they have an even input
side built in and are also chosen for odd ones. The case is now in `Misses`, in
the run (`OddBuiltIn`) and in section 6 (8).

**GpuCommandsProofs**, about `Execute`, for lists of any length. The machine
after a list is a function over its positions (`Machines`), so what holds of it
takes an induction. The library's induction theorems cannot be instantiated
here; `Induct` is a form without an operator parameter (the set of positions at
which a claim holds is a variable), from the least position at which it fails
(`Least`, by `WFMin` and `NatLessThanWellFounded`). `Stages` carries it over to
machines, `RanConcat` and `RanFlatten` to lists that are put together. Then come
the lists this code records: transitions into a state, commands, transitions
back. `Square` says that the transitions start from COMMON and name each
resource once, `Closes` that they bring all back; between them a dispatch computes
what it reads and writes from the memory before the list, and nothing is blamed
(`BracketRun`, `BracketFills`, `BracketRead`).

**NativeDeviceProofs**, for any threads, calls, buffers, dispatches and graphs,
in three parts.

*Lists.* Those of the code are put together from handles in an order, from the
operands of a kernel and from the nodes of a graph. The first part shows of each
that it is `Clean` (from COMMON to COMMON, without a fault) and which cells it
`Makes`, `Keeps` or, for a compiled graph, `Carries` from its inputs to its output.

*`ListsAreClean`* has two hypotheses. `Apart` keeps dispatches from being prepared
while a section has their buffers turned, and waits fail on lists of their own
only; for both, section 6 (16) has the violation without it. The property is far
from inductive. `ListInv` adds the shapes of the variables, what a thread inside a
call holds (`InCall`), that whoever records or waits has the mutex and found its
operands in COMMON (`Locked`), that handles are in COMMON but while a section
on them is recorded (`Settled`), that what is prepared or compiled names COMMON
(`Recorded`), that the queue has lists left behind by failed waits and at most one
that somebody waits for, the last (`Lined`), and that fences come in its order
(`Ordered`). So every list finds the device at rest (`Resting`) and nothing is
blamed (`Blameless`). That at most one thread is inside a section follows
(`OneInside`).

*`MemoryAsMeant` and `AnswersAreTheCalls`* add `OneOwner` (two threads on one graph
do mix their inputs, section 6 (17)) and that an upload fills its slot
(`Lengths \subseteq {Width}`: after a shorter one the rest of the slot is left
from an upload before). For memory, a cell of a buffer holds what is meant and
no list in the queue writes it, or the last list is about to (`Faithful`), and
the slot of an upload under way holds its bytes (`Filled`). For answers, a run goes
through its sections in order, and the inputs filled and the output made are its
own (`AnswerInv`), because no other thread's list touches its graph
(`OthersSpareGraphs`); a thread that wakes finds the queue empty
(`WokenQueue`), so what it reads is what its list copied.

A graph whose nodes name an operand twice may misstate transitions in all three, as
the properties say.

**DeviceBatchProofs**, for any buffers, views, operands and order of calls. Handles
may be views of one resource, and each has a state of its own, so during a call
a resource may be in another state than a handle of it says, and a transition
may name a wrong one. `Tracks` is what remains true of everything that a call
records: from COMMON, a resource that ends elsewhere has *some* handle that says
so (`Follows`). `Turn`, of which every transition of a binding is an instance,
keeps it for any handles, repeated or aliased, as the last transition recorded
of a resource is of a handle that has the state now (`TurnTracks`). When all
handles say COMMON again, all resources are there. So each of the fifteen kinds
of dispatch records a list that *rests* (`RecordedRecords`, `RestingLists`),
lists that rest can be put one behind the other (`JoinedLists`, `FlatLists`), and
`BatchInv` says that the open list, the prepared graph and every list of the
prepared dispatch rest. `StatesRest` follows with no hypothesis about callers; that
the bindings of the concat family pick one handle per resource is not needed
for it. For `NothingFreed` the invariant adds what lists touch: the open list what
Python or the scope keeps, the prepared graph what Python or the graph keeps,
prepared dispatches what their handle keeps (`Within`). Its hypothesis `Careful` is
that callers do not drop a buffer that a scope or a graph names, nor execute a
graph or end a batch inside the recording of another, as Python's backend never
does.

`FaultsAreOfAliases` is about what happens *inside* a list. `Posed` describes a
recorder in the middle of a call: handles `I` in SRV, `O` in UAV, `K` in COPY_DEST,
the others in COMMON, with those of different poses in different resources, and `W`
written since the last barrier; whatever machine at rest runs the commands so far is
then in those states, with no fault but those of `t` (`Sound`). Each way of entering,
running and leaving takes one pose to the next (`PoseRead` .. `PoseUav`), the shapes
of the bindings are such sequences (`PlainPosed`, `StepwisePosed`, `PerResourcePosed`,
`ReluPosed`, `NmsPosed`), and `RecordedClean` collects the fifteen kinds: a call
records a *clean* list, one that is right from rest to rest. `t` is empty, or
{misstated} once some call outside the concat family has named a resource twice
(`Told`); in that family one handle per resource turns (`FirstOfResourceOnce`). Clean
lists stay clean one behind the other, so `CleanInv` carries it to scopes, prepared
graphs, prepared dispatches and chains. Its hypothesis `OutputsApart` is on callers:
what a call writes is in no resource of its other operands. The bindings do not check
it; Python's backend gives every call an output of its own
(`native_d3d12_backend.py` 1733, `device.py` 851-890), and so do the operands of
`MCDeviceBatch`. An output that is also an input would run in two states at once.

`BytesAreMeant` proves `MemoryIsSequential`: `mem` is what the executed commands
made, `spec` what the calls one after the other mean, each a list of effects
(`Meant`) applied by `Meaning`. A recorder *says* effects (`Saying`, `Says`) when its
commands, run from any memory, write what these mean; transitions say nothing
(`SayTurn`), a kernel says one effect (`SayRun`), and parts say what they say one
after the other (`SaysJoined`, `MeaningConcat`). `RecordedSays` collects the fifteen
kinds. Only the decodes are not literal: they zero their counters by a copy whose
bytes a kernel overwrites before any reads them (`ZerosLost`, `NmsLost`). A prepared chain is coarser: it
goes through resources of its own, and its single effect is reached stage by stage, a
bound on what each holds (`ChainStage`, `ChainStep`, `ChainMeans`). So what is compared
are the cells of `Outer`, all but those the chain owns. A list that is kept and run
under any later call *means* its effects there (`Means`; `Stamp` is the call that a
command names, or the one that executes it). `MemoryInv`: outside a scope, and while a
graph is being recorded, memory and meaning agree on `Outer`; in an open batch,
running what the list holds makes them agree (`Yields`); the graph so far, the
prepared graph and every list of the ring mean what is recorded of them. After a call that failed inside a scope
(`failed`) nothing is claimed, which is what the property says. Beside
`OutputsApart` and `Careful` the theorem has `DecodesWhole`: decodes get
buffers that start where their resource does. The bindings do not look
at the offset of a view, so without it the property is false
(`DeviceBatch_view.cfg`, section 6). Both hypotheses on operands hold in every state of
`device_batch`.

**Model-checked only.** Liveness under fairness: `CallsReturn`, `AllFramesRun`,
and `RefinesDetections`, whose abstract specification promises an answer to each
frame. Of `EngineReplay`, what two queues do (over the window that `DualWindow`
finds by recursion over the program), and whether the loader accepts the window.
Everything in `YoloDecode`, and in `GraphSession`, whose passes are folds that
rebuild a graph node by node.

## 5. What is not modelled, and why

- **Arithmetic of the kernels**: floating point, Winograd transforms, INT8
  scales, the decoding of box distributions. Kernels are what they read and
  write; arrays of the Python session are terms.
- **Other kernels** (pooling, attention, C2F, elementwise): their grids and
  layouts are plain; as dispatches they are in `DeviceBatch`.
- **Fusion patterns of the physical plan**: programs come with their physical
  dispatches; one of each kind of fusion is in `MCEngineReplay`, the pattern
  matching that finds them is not modelled. Nor is the choice of a fused head
  (`detect_yolo_head_fusion`).
- **The path without a plan** and the profile, timing and tracing code.
- **The engine file's other sections**, graph JSON and ONNX importing: parsing
  and validation of records.
- **Failing `Signal`/`Wait` on fork and join fences**, a scratch buffer shared by
  both queues, failures between two slots of a recording: hazards without a
  property, each with its reason in `PROJECT.json`.
- **Creation of devices and buffers**, adapter selection, and D3D12 calls of the
  Python extension that fail.
- **INT8 quantisation shared between convolutions** (`int8_quant_recorded_variants`).
- **Of the Python runtime**: fusion groups, tile plans and signatures of the
  scheduler (nothing that is run depends on them), the capability check, the
  Torch, DirectML and native backends (they dispatch node after node, as the
  NumPy backend does); `Conv`, `Resize`, `Split` and `Pow`, for which the NumPy
  backend has no operator; booleans; a mask or `causal` in `SDPA` and rotary
  embeddings of rows of odd length; the operators of `NUMPY_EVAL_OPS` other than
  `Identity`, `Reshape`, `Slice`, `MaxPool`, `Cast` and `LeakyRelu` (no spec is
  inferred for the others: `LeakyRelu` stands for them). Under NumPy 1, which
  `pyproject.toml` 11 admits, `_gelu` in its `tanh` form leaves `float32` as it is.
- **Failures of a convolution's descriptors and scratch memory** are modelled on
  the prequantised branch; in the INT8 branch, where `arena_alloc` and the
  descriptor heap fail in the same way (R 24054–24262), they are left out, as no
  property tells them apart.
- **Lazy creation of pipelines** in `NativeDevice`: `ensure_*_pipeline` (R 1364)
  is called before the device's mutex is taken (R 16050), so two threads may
  create the same pipeline at once. The model's pipelines exist from the start.
- **Mobile runtime**: a flat list of layers with a buffer each, one submission
  and one wait per frame.

## 6. Divergences

Where the code does something other than a comment, a document or its caller
expects. The first is a run of `PROJECT.json`; for the others of the table the
configuration is kept beside the modules and finds the violation:

| Command (`tlc -config …`) | Violated |
|---|---|
| `FramePipeline_stale.cfg FramePipeline.tla` (run `pipeline_stale_input`) | `ResultIsOfItsFrame` |
| `ConvDispatch_halved.cfg MCConvDispatch.tla` | `BuiltPlansAreComplete` |
| `ConcatConv_unset.cfg MCConvDispatch.tla` | `PipelinesAreMade` |
| `DeviceBatch_view.cfg MCDeviceBatch.tla` | `MemoryIsSequential` |
| `NativeDevice_waits.cfg MCNativeDevice.tla` | `ListsRunClean` |
| `NativeDevice_prepare.cfg MCNativeDevice.tla` | `ListsRunClean` |
| `YoloDecode_greedy.cfg MCYoloDecode.tla` | `GreedyAnswer` |

Five more are found by a configuration at hand with these values and the property:

| Configuration | Values | Violated |
|---|---|---|
| `FramePipeline_nbuffer.cfg` | `EnvFrames = {1, 2}`, `Faults = {}` | `NothingReleasedInUse` (2) |
| `EngineReplay.cfg` | `Programs <- MCSharedRootPrograms`, `MaxFaults = 0` | `KernelsReadTheirInputs` (3) |
| `EngineReplay.cfg` | `Programs <- MCForkPrograms`, `MaxFaults = 0` | `NothingRefused` (4) |
| `ConvDispatch_halved.cfg` | `Settings <- MCOverridden` | `CandidatesStayInBounds` (10) |
| `ConvDispatch_halved.cfg` | `Settings <- MCMapped` | `FallbacksReadTheirActivations` (11) |

**Engine and frames**

1. R 29815: with several frames, the copy of every frame reads slot 0's upload,
   whatever slot the CPU filled. Shortest run: two frames; the second result has
   the first one's pixels.
2. R 29005: a re-recording that is asked for one frame does not wait for the
   frame in flight and releases what it uses.
3. `engine.py` 241: a value made before the window and read by both sides is only
   protected against the outputs of the other side of its *first* reader. The
   dual-queue programs of `engine_replay` give each side a root of its own.
4. R 28684: a hoist on a page the fork writes, already UAV, is recorded before
   the kernel; the recorder then refuses its own plan. `PlanIsRecordable` states
   that this, and what follows in 7, are the only refusals.
5. `engine.py` 3268: section 12 of a program without a window has no side bytes,
   and the loader wants one per dispatch. Programs compiled for two queues in
   `engine_replay` all have a window.
6. A re-recording with a frame in flight clears it without collecting (R 29018):
   its result is never returned, though R 29755 promises FIFO results.
   `OnlyKnownDrops` states exactly where frames are lost.
   `aexrt_yolo_input_ptr` is called persistent (`aexrt.h` 462) and is replaced
   by every recording (R 29083); the zero-copy run keeps to one recording.
7. Deferred hoists survive a failed recording (R 28691): the program of
   `MCViewPrograms` fails at the fork, and the recording made in its place is
   refused.

**Convolutions**

8. The plain F(2x2) Winograd shader never adds its slices of channels (R
   2398–2425) and reads one float4 per pair of channels where the weights have
   16 points; the 20x20, 10x10 and 40x40 implicit GEMM shaders step by 10 (R
   7639) where the host counts tiles of 20 (R 24953), so the default plan of
   some shapes leaves half of the outputs unwritten (`ConvDispatch_halved.cfg`).
   The 10x10 256x64 variants overshoot instead. The stride-2 GEMM shaders and
   the interior kernel, which the environment has to ask for, have an input side
   of twice the output's built in (R 8776–8784); their matchers also accept one
   less (R 9028–9040, 5183–5198), as a padded convolution of an odd map has it.
9. `direct_pack4_packedw_pos2` takes `h * w / 2` pairs, so the last position of an
   odd map is not written. With three other Winograd and pair kernels it reads
   float4 weights from a view of scalars (R 24474–24479).
10. `enumerate_conv_candidates` adds kernels for one exact shape without asking
    for the shape, though R 9549 says they pass their predicate.
11. A planned kernel of half storage that does not fit, or does not compile, is
    replaced by one that reads raw floats, whatever the activations are stored
    as (R 9434).
12. The general Winograd variant falls back to the 20x20 GEMM for every map that
    is not 10 or 40 wide (R 23643).
13. `record_replay_concat_conv1x1` (R 25968–26224) records a pipeline state other
    than the one it compiled when the preferred one fails; it may be null
    (`ConcatConv_unset.cfg`).
14. Seen while reading, below what the models tell apart: the tiled 3x3 INT8
    shader (R 3579–3594) has no group barrier between filling shared memory and
    reading it, its siblings (R 3448, 3740) do; quantisation has no UAV barrier
    between zeroing and its maximum.

**Native C interface and Python extension**

15. A graph that runs node by node never uploads its constants, and reads of
    values not yet written see the run before (`Reliable` in `NativeDevice`
    leaves them out); nodes that name an operand twice misstate transitions
    (`ListsRunClean` says so).
16. After a failing wait the local heaps of a section are released and the
    allocator is reset while the list may still run (`NativeDevice_waits.cfg`).
    `prepare_*` reads the tracked state of buffers without the mutex
    (`NativeDevice_prepare.cfg`).
17. `aexrt_run_n` is several sections, so two threads on one graph may mix their
    inputs; two threads on one upload ring race for a slot (R 16595). In
    `native_device` graphs and rings have one caller each.
18. In the extension, calls outside the concat family that get two operands of
    one resource misstate transitions (`OnlyAliasesMisstate`); a copy inside a
    scope closes and submits the scope's list, and later calls are dropped with
    an error at its end; the decode ignores a view's offset (N 5697;
    `DeviceBatch_view.cfg`).

**Post-processing**

19. The GPU marks a candidate as suppressed by any better one that overlaps it,
    even one that is suppressed itself (R 15665); the CPU's suppression (R
    30168) and `yolo.py` `_nms` are greedy (`YoloDecode_greedy.cfg`). Candidates
    past `max_candidates` are dropped in order of arrival. `AgreesWithCpu` states
    where both agree.

**Python session**

20. `optimizer.py` 121–136 ("conservative semantics-preserving passes", line 69)
    fuses MatMul and Add at the MatMul's place though the bias may be made later,
    and lets a sum that is a graph output disappear into an activation: such
    graphs raise `KeyError` when run. `RunsComputeTheGraph` states that these
    are the only two cases.
21. `execution.py` 421 asks whether two temporaries are *read* at the same time
    and leaves out the step that makes each, though
    `docs/ARCHITECTURE.en.md` 61–62 says that lifetimes are disjoint: every chain
    shares the input and the output of a node. `OnlyWaitingValuesCollide` states
    which values lose bytes and that no others do.
22. `infer_value_specs` does not see every shape or type a run gives.
    *Shapes:* bounds of a slice that count from the end (`CountsFromTheEnd`), and
    operands that stretch what they are applied to: the bias of a `FusedLinear`,
    parameters of `LayerNorm` and `BatchNormalization`, rows of cosines, keys and
    values of more batches than the query (`Stretched`). *Types* (`Retyped`,
    `execution.py` 330–375 keeps the first operand's): operands whose common type
    is another, integers under `Div`, `Sigmoid`, `Tanh`, `Softmax`, `LayerNorm`,
    `BatchNormalization` or `SDPA`, and `Gelu`. `InferredSpecsHold` states that
    there are no other cases, and that in each of the three the planned type is
    wrong. A value of unknown size gets no bytes in the arena, and the next one
    lies at its place.

## 7. Plan

Done: (1) frame pipeline, (2) arena, (3) barriers, (4) composition with the
window, the recorder and two queues, (5) prepared dispatches and threads of the
native interface, (6) batches and prepared graphs of the extension, (7) grids,
layouts and fall-backs of the convolutions, (8) post-processing, (9) optimizer,
memory plan and session. Left:

10. The recorder's path without a plan: `transition_replay_buffer`, pending UAV
    ranges, split-K scratch across queues; the abstract promise is
    `ReplaySemantics` again.
11. `PhysicalPlan`: fusion of logical commands (`engine.py` 3275–4055); property:
    the dispatches satisfy `WellFormed`, which `EngineReplay` assumes.
12. `EngineFile`: sections and the loader's checks, as a relation between what
    the builder writes and the loader accepts.

Theorems to add: on two queues, the page-state part of `ReplayInvariant`, which
needs the window's fork and join records in the invariant; that the loader's
choice of hoists is the planner's where a page has one value to hoist.

## 8. Running the checks

    tlc -config EngineReplay.cfg MCEngineReplay.tla
    tlapm BarrierPlanProofs.tla

Each run of `PROJECT.json` names its module and cfg; the longest takes about two
minutes. A definition commented "(mutant of X)" is X with a plausible bug; put
in the place of X it makes the run named in `PROJECT.json` fail, which shows
that the property depends on the code it is about.
