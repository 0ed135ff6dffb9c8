---------------------------- MODULE FramePipeline ----------------------------
(***************************************************************************)
(* Frames through the prepared replay of a YOLO model: aexrt_yolo_run,     *)
(* aexrt_yolo_flush_pipeline, aexrt_yolo_override_conv_algorithm,          *)
(* aexrt_yolo_input_ptr and the destructor on the CPU; one in-order D3D12  *)
(* queue, its fences and the shared readback buffers on the GPU.           *)
(*                                                                         *)
(* One thread calls the API of a model (the code takes no lock of the      *)
(* model's own), so a call is a chain of CPU steps (pc) interleaved with   *)
(* the GPU.  A frame is the number of the run that brought it; data is     *)
(* "which frame's pixels".  With one frame (pipeline_frames = 1) a run     *)
(* submits and waits; with 2..4 it collects the previous frame, submits    *)
(* its own and returns.                                                    *)
(*                                                                         *)
(* A recording is one (re)build by ensure_prepared_yolo_replay; gen counts *)
(* them, and GPU work of an older gen uses uploads and lists that are gone.*)
(***************************************************************************)
EXTENDS Naturals, Sequences

CONSTANTS
  EnvFrames,   \* what AEXRT_NATIVE_D3D12_PIPELINE_FRAMES may hold at a recording
  Faults,      \* the calls that may fail, see FaultKinds
  ZeroCopy,    \* whether the caller writes frames through aexrt_yolo_input_ptr
  MaxRuns,     \* bound: calls of aexrt_yolo_run
  MaxRecords   \* bound: recordings

\* record: a recording fails; wait: registering a pipeline fence wait fails;
\* collect: mapping a readback fails; signal: Queue::Signal fails;
\* syncwait: registering the device fence wait fails.
FaultKinds == {"record", "wait", "collect", "signal", "syncwait"}

ASSUME PipelineAssumption ==
  /\ EnvFrames \subseteq Nat /\ EnvFrames # {}
  /\ Faults \subseteq FaultKinds
  /\ ZeroCopy \in BOOLEAN
  /\ MaxRuns \in Nat /\ MaxRecords \in Nat

MaxFrames == 4                  \* the clamp of the environment variable
Slots     == 0 .. MaxFrames - 1
Fences    == {"pipe", "device"} \* model->pipeline_fence, device->fence
NoFrame   == 0                  \* no frame, or bytes that are no frame's

VARIABLES
  pc,          \* where the call in progress is; "idle" between calls
  run,         \* number of the last aexrt_yolo_run; it is that call's frame
  inputGen,    \* gen of the mapped pointer passed as input; 0: caller's memory
  ptrGen,      \* gen in which the caller obtained its input_ptr; 0: none
  gen,         \* recordings so far
  ready,       \* prepared_replay_ready
  frames,      \* pipeline_frames
  nextSlot,    \* pipeline_next_slot
  hasInflight, \* pipeline_has_inflight
  awaited,     \* pipeline_inflight_fence_value
  issued,      \* last value of each fence given to Signal
  completed,   \* last value of each fence reached by the GPU
  upload,      \* data in each slot's input upload
  queue,       \* submitted GPU work, oldest first
  gpuInput,    \* data in the input page of the arena
  readback,    \* what the shared readback buffers hold: [run, data]
  accepted,    \* history: frames of runs that returned 1, in order
  delivered    \* history: results handed to the caller, in order

callVars   == <<pc, run, inputGen, ptrGen>>
recordVars == <<gen, ready, frames>>
flightVars == <<nextSlot, hasInflight, awaited, issued>>
gpuVars    == <<completed, queue, gpuInput, readback>>
histVars   == <<accepted, delivered>>
vars       == <<callVars, recordVars, flightVars, upload, gpuVars, histVars>>

Init ==
  /\ pc = "idle" /\ run = 0 /\ inputGen = 0 /\ ptrGen = 0
  /\ gen = 0 /\ ready = FALSE /\ frames = 1
  /\ nextSlot = 0 /\ hasInflight = FALSE /\ awaited = 0
  /\ issued = [f \in Fences |-> 0] /\ completed = [f \in Fences |-> 0]
  /\ upload = [s \in Slots |-> NoFrame]
  /\ queue = <<>> /\ gpuInput = NoFrame
  /\ readback = [run |-> NoFrame, data |-> NoFrame]
  /\ accepted = <<>> /\ delivered = <<>>

Pipelined == frames >= 2

\* min(max(requested, 1), 4)
Clamp(n) == IF n < 1 THEN 1 ELSE IF n > MaxFrames THEN MaxFrames ELSE n

\* The slot whose upload the CPU fills for the frame of this run.
FillSlot == IF Pipelined THEN nextSlot % frames ELSE 0

\* The slot bound to model->input_upload once a recording is over.  The copy
\* list submitted with every frame reads model->input_upload.
BoundSlot == 0

------------------------------------------------------------------------------
(* Calls of the API, entered between calls                                   *)

StartRun ==
  /\ pc = "idle" /\ run < MaxRuns
  /\ ready \/ gen < MaxRecords
  /\ run' = run + 1
  /\ \/ inputGen' = 0
     \/ /\ ptrGen # 0 /\ ptrGen = gen /\ upload[0] = run + 1
        /\ inputGen' = gen
  /\ pc' = IF ready THEN "fill" ELSE "ensure"
  /\ UNCHANGED <<ptrGen, recordVars, flightVars, upload, gpuVars, histVars>>

GetInputPtr ==
  /\ ZeroCopy /\ pc = "idle" /\ gen > 0
  /\ ptrGen' = gen
  /\ UNCHANGED <<pc, run, inputGen, recordVars, flightVars, upload, gpuVars, histVars>>

\* The caller writes its next frame through the pointer it holds.
CallerWrite ==
  /\ ZeroCopy /\ pc = "idle" /\ ptrGen # 0 /\ ptrGen = gen /\ run < MaxRuns
  /\ upload' = [upload EXCEPT ![0] = run + 1]
  /\ UNCHANGED <<callVars, recordVars, flightVars, gpuVars, histVars>>

StartFlush ==
  /\ pc = "idle" /\ hasInflight
  /\ pc' = "flush"
  /\ UNCHANGED <<run, inputGen, ptrGen, recordVars, flightVars, upload, gpuVars, histVars>>

OverrideConvAlgorithm ==
  /\ pc = "idle" /\ ready /\ gen < MaxRecords
  /\ ready' = FALSE
  /\ UNCHANGED <<callVars, gen, frames, flightVars, upload, gpuVars, histVars>>

\* The destructor waits for the frame in flight, then releases everything.
Destroy ==
  /\ pc = "idle"
  /\ hasInflight => completed["pipe"] >= awaited
  /\ pc' = "gone" /\ hasInflight' = FALSE /\ ready' = FALSE /\ gen' = gen + 1
  /\ UNCHANGED <<run, inputGen, ptrGen, frames, nextSlot, awaited, issued,
                 upload, gpuVars, histVars>>

------------------------------------------------------------------------------
(* ensure_prepared_yolo_replay                                               *)

\* (mutant of BeginRecording: the frame in flight is not waited for)
BeginRecordingNoDrain ==
  /\ pc = "ensure"
  /\ \E n \in EnvFrames : frames' = Clamp(n)
  /\ pc' = "record" /\ hasInflight' = FALSE
  /\ UNCHANGED <<run, inputGen, ptrGen, gen, ready, nextSlot, awaited, issued,
                 upload, gpuVars, histVars>>

\* The environment is read again at every recording; only a recording that
\* asks for two frames or more waits for the frame in flight.
BeginRecording ==
  /\ pc = "ensure"
  /\ \E n \in EnvFrames :
       /\ frames' = Clamp(n)
       /\ pc' = IF Clamp(n) >= 2 /\ hasInflight THEN "drain" ELSE "record"
  /\ UNCHANGED <<run, inputGen, ptrGen, gen, ready, flightVars, upload, gpuVars, histVars>>

\* The frame in flight has completed; its result is not collected.
DrainInflight ==
  /\ pc = "drain" /\ completed["pipe"] >= awaited
  /\ hasInflight' = FALSE
  /\ pc' = "record"
  /\ UNCHANGED <<run, inputGen, ptrGen, recordVars, nextSlot, awaited, issued,
                 upload, gpuVars, histVars>>

\* Old slots are released and new ones recorded; a recording that fails has
\* released the old slots all the same.
Record ==
  /\ pc = "record"
  /\ gen' = gen + 1 /\ nextSlot' = 0
  /\ upload' = [s \in Slots |-> NoFrame]
  /\ \/ ready' = TRUE /\ pc' = "fill"
     \/ "record" \in Faults /\ ready' = FALSE /\ pc' = "idle"
  /\ UNCHANGED <<run, inputGen, ptrGen, frames, hasInflight, awaited, issued,
                 gpuVars, histVars>>

------------------------------------------------------------------------------
(* execute_prepared_yolo_replay and aexrt_yolo_flush_pipeline                *)

\* What the memcpy into the slot reads: the caller's memory, or the mapped
\* upload it was given, which a recording inside this call has released.
Source ==
  IF inputGen = 0 THEN run ELSE IF inputGen = gen THEN upload[0] ELSE NoFrame

FillUpload ==
  /\ pc = "fill"
  /\ upload' = [upload EXCEPT ![FillSlot] = Source]
  /\ pc' = IF Pipelined THEN "collect" ELSE "submit"
  /\ UNCHANGED <<run, inputGen, ptrGen, recordVars, flightVars, gpuVars, histVars>>

NothingInflight ==
  /\ pc = "collect" /\ ~hasInflight
  /\ pc' = "submit"
  /\ UNCHANGED <<run, inputGen, ptrGen, recordVars, flightVars, upload, gpuVars, histVars>>

\* (mutant of CollectPrevious: the fence is not waited for)
CollectPreviousNoWait ==
  /\ pc \in {"collect", "flush"} /\ hasInflight
  /\ delivered' = Append(delivered, readback)
  /\ hasInflight' = FALSE
  /\ pc' = IF pc = "flush" THEN "idle" ELSE "submit"
  /\ UNCHANGED <<run, inputGen, ptrGen, recordVars, nextSlot, awaited, issued,
                 upload, gpuVars, accepted>>

\* (mutant of CollectPrevious: a collected frame stays in flight)
CollectPreviousKeepsFlag ==
  /\ pc \in {"collect", "flush"} /\ hasInflight
  /\ completed["pipe"] >= awaited
  /\ delivered' = Append(delivered, readback)
  /\ pc' = IF pc = "flush" THEN "idle" ELSE "submit"
  /\ UNCHANGED <<run, inputGen, ptrGen, recordVars, flightVars, upload, gpuVars, accepted>>

\* Wait for the previous frame and hand its result to this caller.
CollectPrevious ==
  /\ pc \in {"collect", "flush"} /\ hasInflight
  /\ completed["pipe"] >= awaited
  /\ delivered' = Append(delivered, readback)
  /\ hasInflight' = FALSE
  /\ pc' = IF pc = "flush" THEN "idle" ELSE "submit"
  /\ UNCHANGED <<run, inputGen, ptrGen, recordVars, nextSlot, awaited, issued,
                 upload, gpuVars, accepted>>

\* (mutant of CollectFails: a run, too, forgets the frame before it reads back)
CollectFailsForgets ==
  /\ "collect" \in Faults
  /\ pc \in {"collect", "flush"} /\ hasInflight
  /\ completed["pipe"] >= awaited
  /\ hasInflight' = FALSE /\ pc' = "idle"
  /\ UNCHANGED <<run, inputGen, ptrGen, recordVars, nextSlot, awaited, issued,
                 upload, gpuVars, histVars>>

\* A run leaves the frame in flight for the next call; a flush has already
\* forgotten it when the readback fails.
CollectFails ==
  /\ "collect" \in Faults
  /\ pc \in {"collect", "flush"} /\ hasInflight
  /\ completed["pipe"] >= awaited
  /\ hasInflight' = (pc = "collect")
  /\ pc' = "idle"
  /\ UNCHANGED <<run, inputGen, ptrGen, recordVars, nextSlot, awaited, issued,
                 upload, gpuVars, histVars>>

WaitSetupFails ==
  /\ "wait" \in Faults
  /\ pc \in {"collect", "flush", "drain"} /\ hasInflight
  /\ completed["pipe"] < awaited
  /\ pc' = "idle"
  /\ UNCHANGED <<run, inputGen, ptrGen, recordVars, flightVars, upload, gpuVars, histVars>>

\* (mutant of FrameWork: the graph is submitted before the input copy)
FrameWorkSwapped ==
  << [op |-> "list", gen |-> gen, slot |-> FillSlot, run |-> run],
     [op |-> "copy", gen |-> gen, slot |-> BoundSlot, run |-> run] >>

\* The two command lists of a frame: the input copy, then the recorded graph.
FrameWork ==
  << [op |-> "copy", gen |-> gen, slot |-> BoundSlot, run |-> run],
     [op |-> "list", gen |-> gen, slot |-> FillSlot, run |-> run] >>

SignalOf(f, v) == << [op |-> "signal", fence |-> f, value |-> v] >>

\* (mutant of SubmitPipelined: the result of Signal is not looked at)
SubmitPipelinedTrusting ==
  /\ pc = "submit" /\ Pipelined
  /\ LET value == issued["pipe"] + 1 IN
     /\ \/ queue' = queue \o FrameWork \o SignalOf("pipe", value)
        \/ "signal" \in Faults /\ queue' = queue \o FrameWork
     /\ issued' = [issued EXCEPT !["pipe"] = value]
     /\ awaited' = value /\ hasInflight' = TRUE
     /\ nextSlot' = nextSlot + 1
     /\ accepted' = Append(accepted, run)
  /\ pc' = "idle"
  /\ UNCHANGED <<run, inputGen, ptrGen, recordVars, upload, completed, gpuInput,
                 readback, delivered>>

SubmitPipelined ==
  /\ pc = "submit" /\ Pipelined
  /\ LET value == issued["pipe"] + 1 IN
     \/ /\ queue' = queue \o FrameWork \o SignalOf("pipe", value)
        /\ issued' = [issued EXCEPT !["pipe"] = value]
        /\ awaited' = value /\ hasInflight' = TRUE
        /\ nextSlot' = nextSlot + 1
        /\ accepted' = Append(accepted, run)
     \/ /\ "signal" \in Faults
        /\ queue' = queue \o FrameWork
        /\ UNCHANGED <<flightVars, accepted>>
  /\ pc' = "idle"
  /\ UNCHANGED <<run, inputGen, ptrGen, recordVars, upload, completed, gpuInput,
                 readback, delivered>>

\* (mutant of SubmitSync: the call returns without waiting for the fence)
SubmitSyncNoWait ==
  /\ pc = "submit" /\ ~Pipelined
  /\ LET value == issued["device"] + 1 IN
     /\ issued' = [issued EXCEPT !["device"] = value]
     /\ queue' = queue \o FrameWork \o SignalOf("device", value)
     /\ pc' = "idle"
  /\ UNCHANGED <<run, inputGen, ptrGen, recordVars, nextSlot, hasInflight, awaited,
                 upload, completed, gpuInput, readback, histVars>>

\* signal_and_wait counts the value before it asks the queue to signal it.
SubmitSync ==
  /\ pc = "submit" /\ ~Pipelined
  /\ LET value == issued["device"] + 1 IN
     /\ issued' = [issued EXCEPT !["device"] = value]
     /\ \/ /\ queue' = queue \o FrameWork \o SignalOf("device", value)
           /\ pc' = "syncwait"
        \/ /\ "signal" \in Faults
           /\ queue' = queue \o FrameWork
           /\ pc' = "idle"
  /\ UNCHANGED <<run, inputGen, ptrGen, recordVars, nextSlot, hasInflight, awaited,
                 upload, completed, gpuInput, readback, histVars>>

\* (mutant of CollectSync: the readback is mapped without the fence wait)
CollectSyncEarly ==
  /\ pc = "syncwait"
  /\ delivered' = Append(delivered, readback)
  /\ accepted' = Append(accepted, run)
  /\ pc' = "idle"
  /\ UNCHANGED <<run, inputGen, ptrGen, recordVars, flightVars, upload, gpuVars>>

CollectSync ==
  /\ pc = "syncwait" /\ completed["device"] >= issued["device"]
  /\ \/ /\ delivered' = Append(delivered, readback)
        /\ accepted' = Append(accepted, run)
     \/ "collect" \in Faults /\ UNCHANGED histVars
  /\ pc' = "idle"
  /\ UNCHANGED <<run, inputGen, ptrGen, recordVars, flightVars, upload, gpuVars>>

SyncWaitSetupFails ==
  /\ "syncwait" \in Faults
  /\ pc = "syncwait" /\ completed["device"] < issued["device"]
  /\ pc' = "idle"
  /\ UNCHANGED <<run, inputGen, ptrGen, recordVars, flightVars, upload, gpuVars, histVars>>

------------------------------------------------------------------------------
(* The queue retires its oldest item                                         *)

GpuRetire ==
  /\ queue # <<>>
  /\ queue' = Tail(queue)
  /\ LET item == Head(queue) IN
     \/ /\ item.op = "copy"
        /\ gpuInput' = IF item.gen = gen THEN upload[item.slot] ELSE NoFrame
        /\ UNCHANGED <<completed, readback>>
     \/ /\ item.op = "list"
        /\ readback' = [run |-> item.run, data |-> gpuInput]
        /\ UNCHANGED <<completed, gpuInput>>
     \/ /\ item.op = "signal"
        /\ completed' = [completed EXCEPT ![item.fence] = item.value]
        /\ UNCHANGED <<gpuInput, readback>>
  /\ UNCHANGED <<callVars, recordVars, flightVars, upload, histVars>>

------------------------------------------------------------------------------
CallerStep ==
  \/ StartRun \/ GetInputPtr \/ CallerWrite \/ StartFlush
  \/ OverrideConvAlgorithm \/ Destroy

CallStep ==
  \/ BeginRecording \/ DrainInflight \/ Record
  \/ FillUpload \/ NothingInflight \/ CollectPrevious
  \/ SubmitPipelined \/ SubmitSync \/ CollectSync

FaultStep == CollectFails \/ WaitSetupFails \/ SyncWaitSetupFails

Next == CallerStep \/ CallStep \/ FaultStep \/ GpuRetire

\* The GPU makes progress, and a call that can go on does; nobody has to call,
\* and no failure comes to the rescue of a call that waits.
Spec == Init /\ [][Next]_vars /\ WF_vars(CallStep) /\ WF_vars(GpuRetire)

------------------------------------------------------------------------------
(* Properties                                                                *)

Item == [op : {"copy", "list"}, gen : Nat, slot : Slots, run : Nat]
        \cup [op : {"signal"}, fence : Fences, value : Nat]

Result == [run : Nat, data : Nat]

TypeOK ==
  /\ pc \in {"idle", "ensure", "drain", "record", "fill", "collect", "submit",
             "syncwait", "flush", "gone"}
  /\ run \in Nat /\ inputGen \in Nat /\ ptrGen \in Nat
  /\ gen \in Nat /\ ready \in BOOLEAN /\ frames \in 1 .. MaxFrames
  /\ nextSlot \in Nat /\ hasInflight \in BOOLEAN /\ awaited \in Nat
  /\ issued \in [Fences -> Nat] /\ completed \in [Fences -> Nat]
  /\ upload \in [Slots -> Nat]
  /\ queue \in Seq(Item)
  /\ gpuInput \in Nat /\ readback \in Result
  /\ accepted \in Seq(Nat) /\ delivered \in Seq(Result)

Queued(ops) == {i \in DOMAIN queue : queue[i].op \in ops}

\* "At any time at most one frame executes on the GPU" (the comment on the
\* pipelined path): the arena, the scratch buffers and the readbacks are
\* shared by all slots, and every submission resets the one copy allocator.
AtMostOneFrameOnGpu ==
  \A i, j \in Queued({"copy", "list"}) : queue[i].run = queue[j].run

\* A recording or the destructor never releases an upload or a command list
\* that submitted GPU work still uses (the comment in ensure: waiting first
\* avoids a use-after-free).
NothingReleasedInUse ==
  \A i \in Queued({"copy", "list"}) : queue[i].gen = gen

\* The CPU never writes an upload that a submitted copy has yet to read.
UploadStableWhileRead ==
  [][gen' = gen => \A i \in Queued({"copy"}) :
       queue[i].gen = gen => upload'[queue[i].slot] = upload[queue[i].slot]]_upload

\* A result is handed out only when no submitted work can still write the
\* shared readback buffers it is read from.
ReadbackStableWhenCollected ==
  [][delivered' # delivered => Queued({"list"}) = {}]_delivered

\* Results come back in frame order, each frame at most once, and only for
\* frames whose run succeeded.
DeliveredInOrder ==
  /\ \A i, j \in DOMAIN delivered : i < j => delivered[i].run < delivered[j].run
  /\ \A i \in DOMAIN delivered : \E j \in DOMAIN accepted : accepted[j] = delivered[i].run

\* The result given for a frame was computed from that frame's pixels.
ResultIsOfItsFrame ==
  \A i \in DOMAIN delivered : delivered[i].data = delivered[i].run

\* The frame in flight is forgotten without its result being delivered only
\* by a recording, a flush whose readback failed, or the destructor.
OnlyKnownDrops ==
  [][hasInflight /\ ~hasInflight' /\ delivered' = delivered
       => pc \in {"drain", "flush"} \/ pc' = "gone"]_<<hasInflight, delivered>>

\* Every call returns: a fence value that is waited for is always signalled.
CallsReturn == pc \notin {"idle", "gone"} ~> pc = "idle"

------------------------------------------------------------------------------
(* Refinement: what the caller sees is a FrameStream.                        *)

InFlightFrame == IF hasInflight THEN <<accepted[Len(accepted)]>> ELSE <<>>

Order == INSTANCE FrameStream WITH
           Frames <- 1 .. MaxRuns,
           Lag <- 1, MayDrop <- TRUE,
           outstanding <- InFlightFrame,
           delivered <- [i \in DOMAIN delivered |-> delivered[i].run]

Data == INSTANCE FrameStream WITH
           Frames <- 1 .. MaxRuns,
           Lag <- 0, MayDrop <- FALSE,
           outstanding <- InFlightFrame,
           delivered <- [i \in DOMAIN delivered |-> delivered[i].data]

\* The runs whose results come back form a FIFO stream with a lag of one frame;
\* a recording, a failed flush and the destructor drop the frame in flight.
RefinesOrderedStream == Order!StreamSpec

\* In synchronous mode the pixels do, too, and there is no lag.
RefinesDataStream == Data!StreamSpec
==============================================================================
