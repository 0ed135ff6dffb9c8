------------------------- MODULE FramePipelineProofs -------------------------
(***************************************************************************)
(* Proofs about FramePipeline for every number of slots, runs, recordings  *)
(* and frames: what the GPU uses is not released or rewritten, results     *)
(* come back in order whichever call fails, a synchronous result was       *)
(* computed from its own frame's pixels, and the pipeline implements       *)
(* FrameStream.                                                            *)
(***************************************************************************)
EXTENDS FramePipeline, SequenceTheorems, TLAPS

\* Whether some recording may set up N-buffering.
Buffered == \E n \in EnvFrames : Clamp(n) >= 2

\* The environment never switches between one frame and several.
ModeFixed == \A m, n \in EnvFrames : Clamp(m) >= 2 => Clamp(n) >= 2

\* Submitting and waiting on the device fence do not fail.
SubmissionsSucceed == "signal" \notin Faults /\ "syncwait" \notin Faults

------------------------------------------------------------------------------
(* Type correctness                                                          *)

LEMMA ClampRange == \A n \in Nat : Clamp(n) \in 1 .. MaxFrames
  BY DEF Clamp, MaxFrames

LEMMA FillSlotRange == TypeOK => FillSlot \in Slots
<1> SUFFICES ASSUME TypeOK PROVE FillSlot \in Slots
  OBVIOUS
<1>1. frames \in {1, 2, 3, 4} /\ nextSlot \in Nat
  BY DEF TypeOK, MaxFrames
<1>2. nextSlot % frames \in 0 .. frames - 1
  BY <1>1
<1> QED
  BY <1>1, <1>2 DEF FillSlot, Slots, MaxFrames

\* Sequences of one type stay of it when they grow.
LEMMA SeqGrows ==
  ASSUME NEW S, NEW a \in Seq(S), NEW b \in Seq(S), NEW c \in Seq(S), NEW x \in S
  PROVE  a \o b \in Seq(S) /\ a \o b \o c \in Seq(S) /\ Append(a, x) \in Seq(S)
  OBVIOUS

LEMMA HistoryType ==
  ASSUME TypeOK
  PROVE  Append(delivered, readback) \in Seq(Result) /\ Append(accepted, run) \in Seq(Nat)
  BY SeqGrows DEF TypeOK

LEMMA WorkType ==
  ASSUME TypeOK, NEW f \in Fences, NEW v \in Nat
  PROVE  /\ FrameWork \in Seq(Item)
         /\ SignalOf(f, v) \in Seq(Item)
         /\ queue \in Seq(Item)
         /\ queue \o FrameWork \in Seq(Item)
         /\ queue \o FrameWork \o SignalOf(f, v) \in Seq(Item)
<1>1. BoundSlot \in Slots
  BY DEF BoundSlot, Slots, MaxFrames
<1>2. FrameWork \in Seq(Item)
  BY <1>1, FillSlotRange DEF FrameWork, Item, TypeOK
<1>3. SignalOf(f, v) \in Seq(Item)
  BY DEF SignalOf, Item
<1>4. queue \in Seq(Item)
  BY DEF TypeOK
<1>5. queue \o FrameWork \in Seq(Item)
  BY <1>2, <1>4
<1>6. queue \o FrameWork \o SignalOf(f, v) \in Seq(Item)
  BY <1>3, <1>5
<1> QED
  BY <1>2, <1>3, <1>4, <1>5, <1>6

LEMMA TypeNext == TypeOK /\ [Next]_vars => TypeOK'
<1> SUFFICES ASSUME TypeOK, [Next]_vars PROVE TypeOK'
  OBVIOUS
<1> USE PipelineAssumption DEF callVars, recordVars, flightVars, gpuVars, histVars
<1>1. CASE StartRun BY <1>1 DEF StartRun, TypeOK
<1>2. CASE GetInputPtr BY <1>2 DEF GetInputPtr, TypeOK
<1>3. CASE CallerWrite
  <2>1. upload \in [Slots -> Nat] /\ run + 1 \in Nat
    BY DEF TypeOK
  <2>2. upload' = [upload EXCEPT ![0] = run + 1]
    BY <1>3, Zenon DEF CallerWrite
  <2>3. upload' \in [Slots -> Nat]
    BY <2>1, <2>2
  <2> QED BY <1>3, <2>3 DEF CallerWrite, TypeOK
<1>4. CASE StartFlush BY <1>4 DEF StartFlush, TypeOK
<1>5. CASE OverrideConvAlgorithm BY <1>5 DEF OverrideConvAlgorithm, TypeOK
<1>6. CASE Destroy
  <2>1. gen' = gen + 1 /\ hasInflight' \in BOOLEAN /\ ready' \in BOOLEAN
    BY <1>6, Zenon DEF Destroy
  <2>2. gen' \in Nat
    BY <2>1 DEF TypeOK
  <2> QED BY <1>6, <2>1, <2>2 DEF Destroy, TypeOK
<1>7. CASE BeginRecording BY <1>7, ClampRange DEF BeginRecording, TypeOK
<1>8. CASE DrainInflight BY <1>8 DEF DrainInflight, TypeOK
<1>9. CASE Record
  <2>1. gen' = gen + 1 /\ nextSlot' = 0 /\ ready' \in BOOLEAN
    BY <1>9, Zenon DEF Record
  <2>2. gen' \in Nat /\ nextSlot' \in Nat
    BY <2>1 DEF TypeOK
  <2>3. upload' \in [Slots -> Nat]
    BY <1>9 DEF Record, NoFrame
  <2> QED BY <1>9, <2>1, <2>2, <2>3 DEF Record, TypeOK
<1>10. CASE FillUpload
  <2>1. Source \in Nat
    BY DEF Source, TypeOK, NoFrame, Slots, MaxFrames
  <2> QED BY <1>10, <2>1, FillSlotRange DEF FillUpload, TypeOK
<1>11. CASE NothingInflight BY <1>11 DEF NothingInflight, TypeOK
<1>12. CASE CollectPrevious
  <2>1. delivered' \in Seq(Result)
    BY <1>12, HistoryType DEF CollectPrevious
  <2> QED BY <1>12, <2>1 DEF CollectPrevious, TypeOK
<1>13. CASE CollectFails BY <1>13 DEF CollectFails, TypeOK
<1>14. CASE WaitSetupFails BY <1>14 DEF WaitSetupFails, TypeOK
<1>15. CASE SubmitPipelined
  <2>1. issued["pipe"] + 1 \in Nat /\ "pipe" \in Fences
    BY DEF TypeOK, Fences
  <2>2. queue' \in Seq(Item)
    BY <1>15, <2>1, WorkType DEF SubmitPipelined
  <2>3. issued' \in [Fences -> Nat]
    BY <1>15, <2>1 DEF SubmitPipelined, TypeOK, flightVars
  <2>4. accepted' \in Seq(Nat)
    BY <1>15, HistoryType DEF SubmitPipelined, TypeOK
  <2>5. hasInflight' \in BOOLEAN
    BY <1>15 DEF SubmitPipelined, TypeOK
  <2>6. awaited' \in Nat
    BY <1>15, <2>1 DEF SubmitPipelined, TypeOK
  <2>7. nextSlot' \in Nat
    BY <1>15 DEF SubmitPipelined, TypeOK
  <2> QED BY <1>15, <2>2, <2>3, <2>4, <2>5, <2>6, <2>7 DEF SubmitPipelined, TypeOK
<1>16. CASE SubmitSync
  <2>1. issued["device"] + 1 \in Nat /\ "device" \in Fences
    BY DEF TypeOK, Fences
  <2>2. queue' \in Seq(Item)
    BY <1>16, <2>1, WorkType DEF SubmitSync
  <2>3. issued' \in [Fences -> Nat]
    BY <1>16, <2>1 DEF SubmitSync, TypeOK
  <2> QED BY <1>16, <2>2, <2>3 DEF SubmitSync, TypeOK
<1>17. CASE CollectSync
  <2>1. delivered' \in Seq(Result) /\ accepted' \in Seq(Nat)
    BY <1>17, HistoryType DEF CollectSync, TypeOK
  <2> QED BY <1>17, <2>1 DEF CollectSync, TypeOK
<1>18. CASE SyncWaitSetupFails BY <1>18 DEF SyncWaitSetupFails, TypeOK
<1>19. CASE GpuRetire
  <2>1. queue \in Seq(Item) /\ queue # <<>> /\ Head(queue) \in Item
    BY <1>19 DEF GpuRetire, TypeOK
  <2>2. queue' \in Seq(Item)
    BY <1>19, <2>1 DEF GpuRetire
  <2>3. gpuInput' \in Nat
    BY <1>19, <2>1 DEF GpuRetire, TypeOK, Item, NoFrame
  <2>4. readback' \in Result
    BY <1>19, <2>1 DEF GpuRetire, TypeOK, Item, Result
  <2>5. completed' \in [Fences -> Nat]
    BY <1>19, <2>1 DEF GpuRetire, TypeOK, Item
  <2> QED BY <1>19, <2>2, <2>3, <2>4, <2>5 DEF GpuRetire, TypeOK
<1>20. CASE UNCHANGED vars BY <1>20 DEF vars, TypeOK
<1> QED
  BY <1>1, <1>2, <1>3, <1>4, <1>5, <1>6, <1>7, <1>8, <1>9, <1>10, <1>11, <1>12,
     <1>13, <1>14, <1>15, <1>16, <1>17, <1>18, <1>19, <1>20
  DEF Next, CallerStep, CallStep, FaultStep

LEMMA TypeInit == Init => TypeOK
  BY DEF Init, TypeOK, Result, NoFrame, Fences, Slots, MaxFrames

\* Every variable keeps its type: in particular pipeline_frames stays within
\* 1..4 whatever the environment says, and a slot index within the slots.
THEOREM TypeCorrect == Spec => []TypeOK
  BY TypeInit, TypeNext, PTL DEF Spec

------------------------------------------------------------------------------
(* The GPU and the buffers shared by all frames                              *)

\* q is the rest of one frame of recording g, closed by a signal of v on f.
RestOfFrame(q, g, f, v) ==
  /\ q[Len(q)] = [op |-> "signal", fence |-> f, value |-> v]
  /\ \A i \in 1 .. Len(q) - 1 :
       /\ q[i].op # "signal" /\ q[i].gen = g
       /\ \A j \in 1 .. Len(q) - 1 : q[i].run = q[j].run

\* Someone waits for whatever the GPU has not finished: the frame in flight,
\* or the call that submitted it.
AwaitedBy(c, f, v) == c /\ completed[f] < v /\ RestOfFrame(queue, gen, f, v)

GpuIsAwaited ==
  queue # <<>> => \/ AwaitedBy(hasInflight, "pipe", awaited)
                  \/ AwaitedBy(pc = "syncwait", "device", issued["device"])

FencesMonotone ==
  /\ \A f \in Fences : completed[f] <= issued[f]
  /\ awaited <= issued["pipe"]

\* A recording in use is of the mode the environment asks for.
ModeKept ==
  /\ hasInflight => Buffered
  /\ ready \/ pc \in {"drain", "record", "fill", "collect", "submit", "syncwait"}
       => (Pipelined <=> Buffered)
  /\ pc \in {"ensure", "drain", "record"} => ~ready
  /\ pc \in {"record", "submit", "syncwait"} => ~hasInflight
  /\ pc = "syncwait" => ~Pipelined

IInv == TypeOK /\ GpuIsAwaited /\ FencesMonotone /\ ModeKept


LEMMA RestSafe ==
  ASSUME IInv
  PROVE  AtMostOneFrameOnGpu /\ NothingReleasedInUse
<1>1. CASE queue = <<>>
  BY <1>1 DEF AtMostOneFrameOnGpu, NothingReleasedInUse, Queued
<1>2. CASE queue # <<>>
  <2>1. PICK f, v : RestOfFrame(queue, gen, f, v)
    BY <1>2 DEF IInv, GpuIsAwaited, AwaitedBy
  <2>2. \A i \in Queued({"copy", "list"}) : i \in 1 .. Len(queue) - 1
    BY <2>1 DEF RestOfFrame, Queued, IInv, TypeOK
  <2> QED
    BY <2>1, <2>2 DEF RestOfFrame, AtMostOneFrameOnGpu, NothingReleasedInUse
<1> QED
  BY <1>1, <1>2

\* Once what is awaited has been signalled, nothing is left on the GPU.
LEMMA Quiet ==
  ASSUME IInv
  PROVE  /\ pc # "syncwait" /\ (hasInflight => completed["pipe"] >= awaited) => queue = <<>>
         /\ pc = "syncwait" /\ completed["device"] >= issued["device"] => queue = <<>>
<1>1. completed["pipe"] \in Nat /\ completed["device"] \in Nat
      /\ issued["device"] \in Nat /\ awaited \in Nat
  BY DEF IInv, TypeOK, Fences
<1>2. pc = "syncwait" => ~hasInflight
  BY DEF IInv, ModeKept
<1>3. queue # <<>> => \/ hasInflight /\ completed["pipe"] < awaited
                      \/ pc = "syncwait" /\ completed["device"] < issued["device"]
  BY DEF IInv, GpuIsAwaited, AwaitedBy
<1> QED
  BY <1>1, <1>2, <1>3

LEMMA NonEmpty ==
  ASSUME NEW S, NEW q \in Seq(S), q # <<>>
  PROVE  /\ Len(q) \in Nat /\ Len(q) >= 1
         /\ Head(q) = q[1]
         /\ Len(q) = 1 => Tail(q) = <<>>
<1>1. Len(q) \in Nat \ {0}
  BY EmptySeq
<1>2. Len(Tail(q)) = Len(q) - 1 /\ Tail(q) \in Seq(S)
  BY HeadTailProperties
<1>3. Tail(q) # <<>> => Len(Tail(q)) \in Nat \ {0}
  BY <1>2, EmptySeq
<1>4. Head(q) = q[1]
  OBVIOUS
<1> QED
  BY <1>1, <1>2, <1>3, <1>4

LEMMA RestOfTail ==
  ASSUME NEW q \in Seq(Item), NEW g, NEW f, NEW v, q # <<>>, RestOfFrame(q, g, f, v)
  PROVE  /\ Tail(q) # <<>> => RestOfFrame(Tail(q), g, f, v) /\ Head(q).op # "signal"
         /\ Tail(q) = <<>> => Head(q) = [op |-> "signal", fence |-> f, value |-> v]
<1>0. Len(q) \in Nat /\ (Len(q) = 1 \/ Len(q) > 1)
  BY NonEmpty
<1>1. CASE Len(q) = 1
  <2>1. Tail(q) = <<>> /\ Head(q) = q[Len(q)]
    BY <1>1, NonEmpty
  <2> QED
    BY <2>1 DEF RestOfFrame
<1>2. CASE Len(q) > 1
  <2>1. /\ Tail(q) # <<>> /\ Len(Tail(q)) = Len(q) - 1
        /\ \A i \in 1 .. Len(q) - 1 : Tail(q)[i] = q[i + 1]
    BY <1>2
  <2>2. Head(q).op # "signal"
    BY <1>2 DEF RestOfFrame
  <2>3. Tail(q)[Len(Tail(q))] = [op |-> "signal", fence |-> f, value |-> v]
    BY <1>2, <2>1 DEF RestOfFrame
  <2>4. ASSUME NEW i \in 1 .. Len(q) - 2, NEW j \in 1 .. Len(q) - 2
        PROVE  /\ q[i + 1].op # "signal" /\ q[i + 1].gen = g
               /\ q[i + 1].run = q[j + 1].run
    BY <1>2 DEF RestOfFrame
  <2>5. \A i, j \in 1 .. Len(Tail(q)) - 1 :
          Tail(q)[i].op # "signal" /\ Tail(q)[i].gen = g /\ Tail(q)[i].run = Tail(q)[j].run
    <3>1. Len(Tail(q)) - 1 = Len(q) - 2
      BY <1>0, <2>1
    <3>2. \A i \in 1 .. Len(q) - 2 : Tail(q)[i] = q[i + 1]
      BY <1>0, <2>1
    <3> QED
      BY <2>4, <3>1, <3>2
  <2>6. RestOfFrame(Tail(q), g, f, v)
    BY <2>3, <2>5 DEF RestOfFrame
  <2> QED
    BY <2>1, <2>2, <2>6
<1> QED
  BY <1>0, <1>1, <1>2

LEMMA RestOfNewFrame ==
  ASSUME queue = <<>>, NEW f, NEW v
  PROVE  RestOfFrame(queue \o FrameWork \o SignalOf(f, v), gen, f, v)
<1> DEFINE q == queue \o FrameWork \o SignalOf(f, v)
<1>1. /\ Len(q) = 3 /\ q[3] = [op |-> "signal", fence |-> f, value |-> v]
      /\ q[1] = [op |-> "copy", gen |-> gen, slot |-> BoundSlot, run |-> run]
      /\ q[2] = [op |-> "list", gen |-> gen, slot |-> FillSlot, run |-> run]
  BY DEF FrameWork, SignalOf
<1> HIDE DEF q
<1> QED
  BY <1>1 DEF RestOfFrame, q


\* The GPU retires an item of the frame someone waits for: the closing signal
\* last, and only that one moves a fence.
LEMMA Retired ==
  ASSUME TypeOK, GpuRetire, NEW f, NEW v, RestOfFrame(queue, gen, f, v)
  PROVE  /\ queue' # <<>> => completed' = completed /\ RestOfFrame(queue', gen, f, v)
         /\ queue' = <<>> => completed' = [completed EXCEPT ![f] = v]
<1>1. queue \in Seq(Item) /\ queue # <<>> /\ queue' = Tail(queue)
  BY DEF TypeOK, GpuRetire
<1>2. CASE queue' # <<>>
  <2>1. RestOfFrame(queue', gen, f, v) /\ Head(queue).op # "signal"
    BY <1>1, <1>2, RestOfTail
  <2> QED
    BY <1>2, <2>1 DEF GpuRetire
<1>3. CASE queue' = <<>>
  <2>1. Head(queue) = [op |-> "signal", fence |-> f, value |-> v]
    BY <1>1, <1>3, RestOfTail
  <2> QED
    BY <1>3, <2>1 DEF GpuRetire
<1> QED
  BY <1>2, <1>3

\* Steps of a call that leave the GPU and the fences alone.
LEMMA GpuUntouched ==
  ASSUME IInv, pc # "syncwait",
         UNCHANGED <<queue, completed, gen, hasInflight, awaited, issued>>
  PROVE  GpuIsAwaited' /\ FencesMonotone'
  BY DEF IInv, GpuIsAwaited, FencesMonotone, AwaitedBy

\* Steps taken when the GPU has nothing left to do.
LEMMA GpuIdle ==
  ASSUME IInv, queue = <<>>, UNCHANGED <<queue, completed, awaited, issued>>
  PROVE  GpuIsAwaited' /\ FencesMonotone'
  BY DEF IInv, GpuIsAwaited, FencesMonotone

\* The mode the environment asks for is the one every recording asks for.
LEMMA ModeOfEnv ==
  ASSUME ModeFixed, NEW n \in EnvFrames
  PROVE  Clamp(n) >= 2 <=> Buffered
  BY DEF ModeFixed, Buffered

LEMMA SafetyInit == Init => IInv
<1> SUFFICES ASSUME Init PROVE IInv
  OBVIOUS
<1>1. TypeOK
  BY TypeInit
<1>2. GpuIsAwaited /\ FencesMonotone /\ ModeKept
  BY DEF Init, GpuIsAwaited, FencesMonotone, ModeKept, Fences
<1> QED
  BY <1>1, <1>2 DEF IInv

LEMMA SafetyNext ==
  ASSUME ModeFixed, SubmissionsSucceed, IInv, [Next]_vars
  PROVE  IInv'
<1> USE DEF callVars, recordVars, flightVars, gpuVars, histVars
<1>1. TypeOK /\ TypeOK'
  BY TypeNext DEF IInv
<1>2. ModeKept
  BY DEF IInv
<1>3. "signal" \notin Faults /\ "syncwait" \notin Faults
  BY DEF SubmissionsSucceed
<1> SUFFICES GpuIsAwaited' /\ FencesMonotone' /\ ModeKept'
  BY <1>1 DEF IInv
<1>4. CASE StartRun
  <2>1. GpuIsAwaited' /\ FencesMonotone'
    BY <1>4, GpuUntouched DEF StartRun
  <2>2. ModeKept'
    BY <1>4, <1>2 DEF StartRun, ModeKept, Pipelined
  <2> QED
    BY <2>1, <2>2
<1>5. CASE GetInputPtr
  <2>1. GpuIsAwaited' /\ FencesMonotone'
    BY <1>5, GpuUntouched DEF GetInputPtr
  <2>2. ModeKept'
    BY <1>5, <1>2 DEF GetInputPtr, ModeKept, Pipelined
  <2> QED
    BY <2>1, <2>2
<1>6. CASE CallerWrite
  <2>1. GpuIsAwaited' /\ FencesMonotone'
    BY <1>6, GpuUntouched DEF CallerWrite
  <2>2. ModeKept'
    BY <1>6, <1>2 DEF CallerWrite, ModeKept, Pipelined
  <2> QED
    BY <2>1, <2>2
<1>7. CASE StartFlush
  <2>1. GpuIsAwaited' /\ FencesMonotone'
    BY <1>7, GpuUntouched DEF StartFlush
  <2>2. ModeKept'
    BY <1>7, <1>2 DEF StartFlush, ModeKept, Pipelined
  <2> QED
    BY <2>1, <2>2
<1>8. CASE OverrideConvAlgorithm
  <2>1. GpuIsAwaited' /\ FencesMonotone'
    BY <1>8, GpuUntouched DEF OverrideConvAlgorithm
  <2>2. ModeKept'
    BY <1>8, <1>2 DEF OverrideConvAlgorithm, ModeKept, Pipelined
  <2> QED
    BY <2>1, <2>2
<1>9. CASE Destroy
  <2>1. queue = <<>>
    BY <1>9, Quiet DEF Destroy
  <2>2. GpuIsAwaited' /\ FencesMonotone'
    BY <1>9, <2>1, GpuIdle DEF Destroy
  <2>3. ModeKept'
    BY <1>9, <1>2 DEF Destroy, ModeKept, Pipelined
  <2> QED
    BY <2>2, <2>3
<1>10. CASE BeginRecording
  <2>1. GpuIsAwaited' /\ FencesMonotone'
    BY <1>10, GpuUntouched DEF BeginRecording
  <2>2. ModeKept'
    BY <1>10, <1>2, ModeOfEnv DEF BeginRecording, ModeKept, Pipelined
  <2> QED
    BY <2>1, <2>2
<1>11. CASE DrainInflight
  <2>1. queue = <<>>
    BY <1>11, Quiet DEF DrainInflight
  <2>2. GpuIsAwaited' /\ FencesMonotone'
    BY <1>11, <2>1, GpuIdle DEF DrainInflight
  <2>3. ModeKept'
    BY <1>11, <1>2 DEF DrainInflight, ModeKept, Pipelined
  <2> QED
    BY <2>2, <2>3
<1>12. CASE Record
  <2>1. queue = <<>>
    BY <1>12, Quiet, <1>2 DEF Record, ModeKept
  <2>2. GpuIsAwaited' /\ FencesMonotone'
    BY <1>12, <2>1, GpuIdle DEF Record
  <2>3. ModeKept'
    BY <1>12, <1>2 DEF Record, ModeKept, Pipelined
  <2> QED
    BY <2>2, <2>3
<1>13. CASE FillUpload
  <2>1. GpuIsAwaited' /\ FencesMonotone'
    BY <1>13, GpuUntouched DEF FillUpload
  <2>2. ModeKept'
    BY <1>13, <1>2 DEF FillUpload, ModeKept, Pipelined
  <2> QED
    BY <2>1, <2>2
<1>14. CASE NothingInflight
  <2>1. GpuIsAwaited' /\ FencesMonotone'
    BY <1>14, GpuUntouched DEF NothingInflight
  <2>2. ModeKept'
    BY <1>14, <1>2 DEF NothingInflight, ModeKept, Pipelined
  <2> QED
    BY <2>1, <2>2
<1>15. CASE CollectPrevious
  <2>1. queue = <<>>
    BY <1>15, Quiet DEF CollectPrevious
  <2>2. GpuIsAwaited' /\ FencesMonotone'
    BY <1>15, <2>1, GpuIdle DEF CollectPrevious
  <2>3. ModeKept'
    BY <1>15, <1>2 DEF CollectPrevious, ModeKept, Pipelined
  <2> QED
    BY <2>2, <2>3
<1>16. CASE CollectFails
  <2>1. queue = <<>>
    BY <1>16, Quiet DEF CollectFails
  <2>2. GpuIsAwaited' /\ FencesMonotone'
    BY <1>16, <2>1, GpuIdle DEF CollectFails
  <2>3. ModeKept'
    BY <1>16, <1>2 DEF CollectFails, ModeKept, Pipelined
  <2> QED
    BY <2>2, <2>3
<1>17. CASE WaitSetupFails
  <2>1. GpuIsAwaited' /\ FencesMonotone'
    BY <1>17, GpuUntouched DEF WaitSetupFails
  <2>2. ModeKept'
    BY <1>17, <1>2 DEF WaitSetupFails, ModeKept, Pipelined
  <2> QED
    BY <2>1, <2>2
<1>18. CASE SubmitPipelined
  <2>1. queue = <<>>
    BY <1>18, <1>2, Quiet DEF SubmitPipelined, ModeKept
  <2> DEFINE value == issued["pipe"] + 1
  <2>2. /\ queue' = queue \o FrameWork \o SignalOf("pipe", value)
        /\ issued' = [issued EXCEPT !["pipe"] = value]
        /\ awaited' = value /\ hasInflight' /\ UNCHANGED <<gen, completed>>
    BY <1>18, <1>3, <1>1 DEF SubmitPipelined, TypeOK, Fences
  <2>3. value \in Nat /\ completed["pipe"] < value
    <3>1. /\ issued["pipe"] \in Nat /\ completed["pipe"] \in Nat
          /\ completed["pipe"] <= issued["pipe"]
      BY <1>1 DEF IInv, FencesMonotone, TypeOK, Fences
    <3> QED
      BY <3>1
  <2>4. RestOfFrame(queue', gen', "pipe", value)
    BY <2>1, <2>2, RestOfNewFrame
  <2>5. GpuIsAwaited'
    BY <2>2, <2>3, <2>4 DEF GpuIsAwaited, AwaitedBy
  <2>6. FencesMonotone'
    BY <1>18, <1>1, <2>2, <2>3 DEF SubmitPipelined, IInv, FencesMonotone, TypeOK, Fences
  <2>7. ModeKept'
    BY <1>18, <1>2, <1>3 DEF SubmitPipelined, ModeKept, Pipelined
  <2> QED
    BY <2>5, <2>6, <2>7
<1>19. CASE SubmitSync
  <2>1. queue = <<>>
    BY <1>19, <1>2, Quiet DEF SubmitSync, ModeKept
  <2> DEFINE value == issued["device"] + 1
  <2>2. /\ queue' = queue \o FrameWork \o SignalOf("device", value)
        /\ issued' = [issued EXCEPT !["device"] = value]
        /\ issued'["device"] = value /\ pc' = "syncwait" /\ UNCHANGED <<gen, completed>>
    BY <1>19, <1>3, <1>1 DEF SubmitSync, TypeOK, Fences
  <2>3. value \in Nat /\ completed["device"] < value
    <3>1. /\ issued["device"] \in Nat /\ completed["device"] \in Nat
          /\ completed["device"] <= issued["device"]
      BY <1>1 DEF IInv, FencesMonotone, TypeOK, Fences
    <3> QED
      BY <3>1
  <2>4. RestOfFrame(queue', gen', "device", value)
    BY <2>1, <2>2, RestOfNewFrame
  <2>5. GpuIsAwaited'
    BY <2>2, <2>3, <2>4 DEF GpuIsAwaited, AwaitedBy
  <2>6. FencesMonotone'
    BY <1>19, <1>1, <2>2, <2>3 DEF SubmitSync, IInv, FencesMonotone, TypeOK, Fences
  <2>7. ModeKept'
    BY <1>19, <1>2, <1>3 DEF SubmitSync, ModeKept, Pipelined
  <2> QED
    BY <2>5, <2>6, <2>7
<1>20. CASE CollectSync
  <2>1. queue = <<>>
    BY <1>20, Quiet DEF CollectSync
  <2>2. GpuIsAwaited' /\ FencesMonotone'
    BY <1>20, <2>1, GpuIdle DEF CollectSync
  <2>3. ModeKept'
    BY <1>20, <1>2 DEF CollectSync, ModeKept, Pipelined
  <2> QED
    BY <2>2, <2>3
<1>21. CASE SyncWaitSetupFails
  BY <1>21, <1>3 DEF SyncWaitSetupFails
<1>22. CASE GpuRetire
  <2>1. queue \in Seq(Item) /\ queue # <<>> /\ queue' = Tail(queue)
        /\ UNCHANGED <<pc, gen, ready, frames, hasInflight, awaited, issued>>
    BY <1>22, <1>1 DEF GpuRetire, TypeOK
  <2>2. PICK f \in Fences, v \in Nat :
           /\ RestOfFrame(queue, gen, f, v) /\ v <= issued[f] /\ completed[f] < v
           /\ \/ f = "pipe" /\ v = awaited /\ hasInflight
              \/ f = "device" /\ v = issued["device"] /\ pc = "syncwait"
    <3>1. /\ issued["device"] \in Nat /\ awaited \in Nat /\ awaited <= issued["pipe"]
          /\ issued["device"] <= issued["device"] /\ "pipe" \in Fences /\ "device" \in Fences
      BY <1>1 DEF IInv, FencesMonotone, TypeOK, Fences
    <3>2. \/ AwaitedBy(hasInflight, "pipe", awaited)
          \/ AwaitedBy(pc = "syncwait", "device", issued["device"])
      BY <2>1 DEF IInv, GpuIsAwaited
    <3>3. CASE AwaitedBy(hasInflight, "pipe", awaited)
      <4> USE <3>1
      <4> WITNESS "pipe" \in Fences, awaited \in Nat
      <4> QED
        BY <3>1, <3>3 DEF AwaitedBy
    <3>4. CASE AwaitedBy(pc = "syncwait", "device", issued["device"])
      <4> USE <3>1
      <4> WITNESS "device" \in Fences, issued["device"] \in Nat
      <4> QED
        BY <3>1, <3>4 DEF AwaitedBy
    <3> QED
      BY <3>2, <3>3, <3>4
  <2>3. \A e \in Fences : completed[e] <= issued[e]
    BY DEF IInv, FencesMonotone
  <2>4. ModeKept'
    BY <1>2, <2>1 DEF ModeKept, Pipelined
  <2>5. GpuIsAwaited'
    BY <1>1, <2>1, <2>2, <2>3, Retired, <1>22 DEF GpuIsAwaited, AwaitedBy
  <2>6. FencesMonotone'
    <3>1. \A e \in Fences : completed'[e] <= issued[e]
      BY <1>1, <2>2, <2>3, Retired, <1>22 DEF TypeOK
    <3> QED
      BY <2>1, <3>1 DEF FencesMonotone, IInv
  <2> QED
    BY <2>4, <2>5, <2>6
<1>23. CASE UNCHANGED vars
  BY <1>23 DEF vars, IInv, GpuIsAwaited, FencesMonotone, ModeKept, AwaitedBy, Pipelined
<1> QED
  BY <1>4, <1>5, <1>6, <1>7, <1>8, <1>9, <1>10, <1>11, <1>12, <1>13, <1>14, <1>15, <1>16,
     <1>17, <1>18, <1>19, <1>20, <1>21, <1>22, <1>23
  DEF Next, CallerStep, CallStep, FaultStep


\* The strengthened invariant: whatever the GPU has not finished belongs to one
\* frame, and the CPU knows the fence value that closes it.
THEOREM SafetyInvariant ==
  ASSUME ModeFixed, SubmissionsSucceed
  PROVE  Spec => []IInv
<1>1. IInv /\ [Next]_vars => IInv'
  BY SafetyNext
<1> QED
  BY <1>1, SafetyInit, PTL DEF Spec

\* The arena, the scratch and readback buffers and the one copy allocator, shared
\* by all slots, are used by one frame at a time.
THEOREM OneFrameAtATime ==
  ASSUME ModeFixed, SubmissionsSucceed
  PROVE  Spec => []AtMostOneFrameOnGpu
<1>1. IInv => AtMostOneFrameOnGpu
  BY RestSafe
<1> QED
  BY <1>1, SafetyInvariant, PTL

\* No recording and no destructor releases what submitted work still uses.
THEOREM NoUseAfterRelease ==
  ASSUME ModeFixed, SubmissionsSucceed
  PROVE  Spec => []NothingReleasedInUse
<1>1. IInv => NothingReleasedInUse
  BY RestSafe
<1> QED
  BY <1>1, SafetyInvariant, PTL

\* A result is read back only when the GPU can no longer write the readbacks.
THEOREM ReadbackIsStable ==
  ASSUME ModeFixed, SubmissionsSucceed
  PROVE  Spec => ReadbackStableWhenCollected
<1>1. ASSUME IInv, [Next]_vars
      PROVE  [delivered' # delivered => Queued({"list"}) = {}]_delivered
  <2> SUFFICES ASSUME delivered' # delivered PROVE queue = <<>>
    BY DEF Queued
  <2>1. CollectPrevious \/ CollectSync
    BY <1>1 DEF Next, CallerStep, CallStep, FaultStep, StartRun, GetInputPtr, CallerWrite, StartFlush,
       OverrideConvAlgorithm, Destroy, BeginRecording, DrainInflight, Record, FillUpload,
       NothingInflight, CollectFails, WaitSetupFails, SubmitPipelined, SubmitSync,
       SyncWaitSetupFails, GpuRetire, vars, histVars
  <2> QED
    BY <1>1, <2>1, Quiet DEF CollectPrevious, CollectSync
<1> QED
  BY <1>1, SafetyInvariant, PTL DEF Spec, ReadbackStableWhenCollected

\* With one frame at a time, no write of the CPU - not even the caller's own
\* through the mapped pointer - reaches an upload the GPU has yet to read.
THEOREM UploadIsStable ==
  ASSUME ModeFixed, SubmissionsSucceed, ~Buffered
  PROVE  Spec => UploadStableWhileRead
<1>1. ASSUME IInv, [Next]_vars
      PROVE  [gen' = gen => \A i \in Queued({"copy"}) :
                queue[i].gen = gen => upload'[queue[i].slot] = upload[queue[i].slot]]_upload
  <2> SUFFICES ASSUME upload' # upload, gen' = gen PROVE queue = <<>>
    BY DEF Queued
  <2>1. CallerWrite \/ FillUpload \/ Record
    BY <1>1 DEF Next, CallerStep, CallStep, FaultStep, StartRun, GetInputPtr, StartFlush,
       OverrideConvAlgorithm, Destroy, BeginRecording, DrainInflight,
       NothingInflight, CollectPrevious, CollectFails, WaitSetupFails, SubmitPipelined,
       SubmitSync, CollectSync, SyncWaitSetupFails, GpuRetire, vars
  <2>2. ~Record
    BY <1>1 DEF Record, IInv, TypeOK
  <2> QED
    BY <1>1, <2>1, <2>2, Quiet DEF CallerWrite, FillUpload, IInv, ModeKept
<1> QED
  BY <1>1, SafetyInvariant, PTL DEF Spec, UploadStableWhileRead

------------------------------------------------------------------------------
(* Results in order, whichever calls fail                                    *)

\* No recording changes between one frame and several: the environment keeps
\* to one mode, or there is no second recording.
ModeStable == ModeFixed \/ MaxRecords <= 1

\* Only N-buffering leaves a frame in flight, and a call that submits has none.
ModeHeld ==
  /\ Pipelined => Buffered
  /\ hasInflight => gen > 0 /\ Buffered
  /\ hasInflight /\ (ready \/ pc \in {"drain", "fill", "collect"}) => Pipelined
  /\ ready \/ pc \in {"fill", "collect", "submit"} => gen > 0
  /\ pc = "ensure" => gen < MaxRecords
  /\ pc \in {"record", "submit", "syncwait"} => ~hasInflight

\* No fence reaches, and no queued signal sets, a value not yet given out.
SignalsIssued ==
  /\ \A f \in Fences : completed[f] <= issued[f]
  /\ awaited <= issued["pipe"]
  /\ \A i \in DOMAIN queue :
       queue[i].op = "signal" => queue[i].value <= issued[queue[i].fence]

\* Fence f at c reaches v exactly when the work q is done, and then the
\* readbacks, written by run rb so far, hold the result of run r.
ClosedBy(q, c, rb, f, v, r) ==
  IF q = <<>> THEN rb = r ELSE
  /\ c < v
  /\ q[Len(q)] = [op |-> "signal", fence |-> f, value |-> v]
  /\ \A i \in 1 .. Len(q) - 1 : q[i].op = "signal" /\ q[i].fence = f => q[i].value < v
  /\ IF Len(q) = 1 THEN rb = r ELSE q[Len(q) - 1].op = "list" /\ q[Len(q) - 1].run = r

LastAccepted == accepted[Len(accepted)]

\* What the caller waits for ends with the frame it will be given.
WorkIsKnown ==
  /\ hasInflight => /\ accepted # <<>>
                    /\ ClosedBy(queue, completed["pipe"], readback.run,
                                "pipe", awaited, LastAccepted)
  /\ pc = "syncwait" => ClosedBy(queue, completed["device"], readback.run,
                                 "device", issued["device"], run)

Outside == {"idle", "flush", "gone"}

\* The frames accepted are those of earlier runs, and a frame in flight is
\* newer than every result handed out.
HistoryOrdered ==
  /\ run <= MaxRuns
  /\ pc \notin Outside => run > 0
  /\ \A j \in DOMAIN accepted : accepted[j] <= run /\ (pc \notin Outside => accepted[j] < run)
  /\ hasInflight => \A i \in DOMAIN delivered : delivered[i].run < LastAccepted
  /\ DeliveredInOrder

OInv == TypeOK /\ ModeHeld /\ SignalsIssued /\ WorkIsKnown /\ HistoryOrdered

\* Submitting a frame closes the work with a new value of its fence.
LEMMA ClosedByNew ==
  ASSUME TypeOK, SignalsIssued, NEW f \in Fences
  PROVE  ClosedBy(queue \o FrameWork \o SignalOf(f, issued[f] + 1),
                  completed[f], readback.run, f, issued[f] + 1, run)
<1> DEFINE v == issued[f] + 1
           q == queue \o FrameWork \o SignalOf(f, v)
           n == Len(queue)
<1>1. /\ queue \in Seq(Item) /\ n \in Nat
      /\ issued[f] \in Nat /\ completed[f] \in Nat /\ completed[f] <= issued[f]
  BY DEF TypeOK, SignalsIssued
<1>2. /\ Len(q) = n + 3
      /\ q[n + 3] = [op |-> "signal", fence |-> f, value |-> v]
      /\ q[n + 2] = [op |-> "list", gen |-> gen, slot |-> FillSlot, run |-> run]
      /\ q[n + 1] = [op |-> "copy", gen |-> gen, slot |-> BoundSlot, run |-> run]
      /\ \A i \in 1 .. n : q[i] = queue[i]
  BY <1>1 DEF FrameWork, SignalOf
<1>3. ASSUME NEW i \in 1 .. n + 2, q[i].op = "signal", q[i].fence = f
      PROVE  q[i].value < v
  <2>1. i \in 1 .. n
    <3>1. q[n + 2].op = "list" /\ q[n + 1].op = "copy"
      BY <1>2
    <3> HIDE DEF q
    <3>2. i # n + 2 /\ i # n + 1
      BY <3>1, <1>3
    <3> QED
      BY <1>1, <3>2
  <2>2. q[i].value <= issued[f]
    BY <1>1, <1>2, <1>3, <2>1 DEF SignalsIssued
  <2>3. queue[i] \in Item
    BY <1>1, <2>1
  <2> QED
    BY <1>1, <1>2, <1>3, <2>1, <2>2, <2>3 DEF Item
<1> HIDE DEF q
<1>4. q # <<>>
  BY <1>1, <1>2
<1>5. ClosedBy(q, completed[f], readback.run, f, v, run)
  BY <1>1, <1>2, <1>3, <1>4 DEF ClosedBy
<1> QED
  BY <1>5 DEF q

\* Arithmetic of short queues.
LEMMA SmallCounts ==
  /\ \A n \in Nat : (n >= 1 => n = 1 \/ n > 1) /\ (n > 1 => n = 2 \/ n > 2)
  /\ \A n \in Nat : n > 2 => n = 3 \/ n > 3
  /\ 2 - 1 = 1 /\ 3 - 1 = 2 /\ 3 - 2 = 1 /\ 1 .. 1 - 1 = {}
  OBVIOUS

\* The tail of a sequence of two or more.
LEMMA TailIs ==
  ASSUME NEW S, NEW q \in Seq(S), Len(q) > 1
  PROVE  /\ Tail(q) \in Seq(S) /\ Tail(q) # <<>> /\ Len(Tail(q)) = Len(q) - 1
         /\ \A i \in 1 .. Len(q) - 1 : Tail(q)[i] = q[i + 1]
<1>1. q # <<>> /\ Len(q) \in Nat
  OBVIOUS
<1>2. /\ Tail(q) \in Seq(S) /\ Len(Tail(q)) = Len(q) - 1
      /\ \A i \in 1 .. Len(Tail(q)) : Tail(q)[i] = q[i + 1]
  BY <1>1, HeadTailProperties
<1>3. Tail(q) # <<>>
  <2>1. Len(Tail(q)) \in Nat \ {0}
    BY <1>1, <1>2
  <2> QED
    BY <1>2, <2>1, EmptySeq
<1> QED
  BY <1>2, <1>3

\* What is left of the work when the GPU has retired its oldest item.
LEMMA ClosedByTail ==
  ASSUME NEW q \in Seq(Item), NEW c \in Nat, NEW d \in Nat, NEW rb \in Nat, NEW sb \in Nat,
         NEW f \in Fences, NEW v \in Nat, NEW r \in Nat,
         q # <<>>, ClosedBy(q, c, rb, f, v, r),
         Head(q).op = "signal" /\ Head(q).fence = f => d = Head(q).value,
         ~(Head(q).op = "signal" /\ Head(q).fence = f) => d = c,
         Head(q).op = "list" => sb = Head(q).run,
         Head(q).op # "list" => sb = rb
  PROVE  ClosedBy(Tail(q), d, sb, f, v, r)
<1>0. Len(q) \in Nat /\ (Len(q) = 1 \/ Len(q) > 1)
  BY NonEmpty, SmallCounts
<1>1. Head(q) = q[1] /\ (Len(q) = 1 => Tail(q) = <<>>)
  BY NonEmpty
<1>2. CASE Len(q) = 1
  BY <1>1, <1>2 DEF ClosedBy
<1>3. CASE Len(q) > 1
  <2>1. /\ Tail(q) # <<>> /\ Len(Tail(q)) = Len(q) - 1
        /\ \A i \in 1 .. Len(q) - 1 : Tail(q)[i] = q[i + 1]
    BY <1>3, TailIs
  <2>2. d < v
    BY <1>0, <1>1, <1>3 DEF ClosedBy
  <2>3. Tail(q)[Len(q) - 1] = [op |-> "signal", fence |-> f, value |-> v]
    BY <1>0, <1>3, <2>1 DEF ClosedBy
  <2>4. \A i \in 1 .. Len(q) - 2 :
          Tail(q)[i].op = "signal" /\ Tail(q)[i].fence = f => Tail(q)[i].value < v
    <3> TAKE i \in 1 .. Len(q) - 2
    <3>1. i + 1 \in 1 .. Len(q) - 1 /\ Tail(q)[i] = q[i + 1]
      BY <1>0, <1>3, <2>1
    <3> QED
      BY <3>1, <1>3 DEF ClosedBy
  <2>5. CASE Len(q) = 2
    <3>1. Head(q).op = "list" /\ sb = r
      BY <1>1, <2>5 DEF ClosedBy
    <3>2. Len(Tail(q)) = 1
      BY <2>1, <2>5
    <3>3. Tail(q)[1] = [op |-> "signal", fence |-> f, value |-> v]
      BY <2>3, <2>5, SmallCounts, Zenon
    <3>4. 1 .. Len(Tail(q)) - 1 = {}
      BY <3>2, SmallCounts, Zenon
    <3> QED
      BY <2>1, <2>2, <3>1, <3>2, <3>3, <3>4, Zenon DEF ClosedBy
  <2>6. CASE Len(q) > 2
    <3> DEFINE t == Tail(q)
               n == Len(q)
    <3>1. t # <<>> /\ Len(t) = n - 1 /\ n \in Nat /\ n > 2
      BY <1>0, <2>1, <2>6, Zenon
    <3>2. t[n - 2] = q[n - 1]
      BY <1>0, <2>1, <2>6
    <3>3. q[n - 1].op = "list" /\ q[n - 1].run = r
      BY <1>0, <2>6 DEF ClosedBy
    <3>4. /\ t[n - 1] = [op |-> "signal", fence |-> f, value |-> v]
          /\ \A i \in 1 .. n - 2 : t[i].op = "signal" /\ t[i].fence = f => t[i].value < v
      BY <2>3, <2>4, Zenon
    <3> HIDE DEF t, n
    <3>5. Len(t) # 1 /\ Len(t) - 1 = n - 2
      BY <3>1
    <3>6. ClosedBy(t, d, sb, f, v, r)
      BY <2>2, <3>1, <3>2, <3>3, <3>4, <3>5, Zenon DEF ClosedBy
    <3> QED
      BY <3>6 DEF t
  <2>7. Len(q) = 2 \/ Len(q) > 2
    BY <1>0, <1>3, SmallCounts
  <2> QED
    BY <2>5, <2>6, <2>7, Zenon
<1> QED
  BY <1>0, <1>2, <1>3, Zenon

\* Steps that leave the fences, the queue and the history alone.
LEMMA OrderQuiet ==
  ASSUME OInv,
         UNCHANGED <<queue, completed, issued, awaited, readback, accepted, delivered>>,
         hasInflight' => hasInflight,
         pc' # "syncwait",
         run' \in Nat, run <= run', run' <= MaxRuns,
         pc' \notin Outside => run' > 0 /\ (pc \in Outside => run' = run + 1)
  PROVE  SignalsIssued' /\ WorkIsKnown' /\ HistoryOrdered'
<1>1. SignalsIssued'
  BY DEF OInv, SignalsIssued
<1>2. WorkIsKnown'
  BY Zenon DEF OInv, WorkIsKnown, LastAccepted
<1>3. HistoryOrdered'
  <2>1. DeliveredInOrder'
    BY DEF OInv, HistoryOrdered, DeliveredInOrder
  <2>2. hasInflight' => \A i \in DOMAIN delivered' : delivered'[i].run < LastAccepted'
    BY DEF OInv, HistoryOrdered, LastAccepted
  <2>3. \A j \in DOMAIN accepted : accepted[j] \in Nat
    BY DEF OInv, TypeOK
  <2>4. \A j \in DOMAIN accepted : accepted[j] <= run /\ (pc \notin Outside => accepted[j] < run)
    BY DEF OInv, HistoryOrdered
  <2>5. \A j \in DOMAIN accepted' :
           accepted'[j] <= run' /\ (pc' \notin Outside => accepted'[j] < run')
    BY <2>3, <2>4 DEF OInv, TypeOK
  <2> QED
    BY <2>1, <2>2, <2>5 DEF HistoryOrdered
<1> QED
  BY <1>1, <1>2, <1>3

\* Everything the call waited for has been done: its result is in the readbacks.
LEMMA ReadyToCollect ==
  ASSUME OInv
  PROVE  /\ hasInflight /\ completed["pipe"] >= awaited => readback.run = LastAccepted
         /\ pc = "syncwait" /\ completed["device"] >= issued["device"] => readback.run = run
<1>1. completed["pipe"] \in Nat /\ completed["device"] \in Nat
      /\ issued["device"] \in Nat /\ awaited \in Nat
  BY DEF OInv, TypeOK, Fences
<1> QED
  BY <1>1 DEF OInv, WorkIsKnown, ClosedBy

\* When the fence value of a synchronous call is reached, nothing is queued.
LEMMA DoneIsQuiet ==
  ASSUME OInv, pc = "syncwait", completed["device"] >= issued["device"]
  PROVE  queue = <<>>
<1>1. completed["device"] \in Nat /\ issued["device"] \in Nat
  BY DEF OInv, TypeOK, Fences
<1> QED
  BY <1>1 DEF OInv, WorkIsKnown, ClosedBy

\* A result newer than all others goes to the end of the history.
LEMMA DeliveredGrows ==
  ASSUME OInv, TypeOK', delivered' = Append(delivered, readback),
         \A j \in DOMAIN accepted : \E k \in DOMAIN accepted' : accepted'[k] = accepted[j],
         \E k \in DOMAIN accepted' : accepted'[k] = readback.run,
         \A i \in DOMAIN delivered : delivered[i].run < readback.run
  PROVE  DeliveredInOrder'
<1>1. delivered \in Seq(Result) /\ readback \in Result
  BY DEF OInv, TypeOK
<1> DEFINE n == Len(delivered)
<1>2. /\ n \in Nat /\ DOMAIN delivered = 1 .. n /\ DOMAIN delivered' = 1 .. n + 1
      /\ delivered'[n + 1] = readback
      /\ \A i \in 1 .. n : delivered'[i] = delivered[i]
  BY <1>1
<1> HIDE DEF n
<1>3. ASSUME NEW i \in DOMAIN delivered', NEW j \in DOMAIN delivered', i < j
      PROVE  delivered'[i].run < delivered'[j].run
  <2>1. i \in 1 .. n
    BY <1>2, <1>3
  <2>2. CASE j = n + 1
    BY <1>2, <2>1, <2>2
  <2>3. CASE j # n + 1
    <3>1. j \in 1 .. n
      BY <1>2, <2>3
    <3> QED
      BY <1>2, <1>3, <2>1, <3>1 DEF OInv, HistoryOrdered, DeliveredInOrder
  <2> QED
    BY <2>2, <2>3
<1>4. ASSUME NEW i \in DOMAIN delivered'
      PROVE  \E k \in DOMAIN accepted' : accepted'[k] = delivered'[i].run
  <2>1. CASE i = n + 1
    BY <1>2, <2>1
  <2>2. CASE i # n + 1
    <3>1. i \in 1 .. n
      BY <1>2, <2>2
    <3>2. PICK j \in DOMAIN accepted : accepted[j] = delivered[i].run
      BY <1>2, <3>1 DEF OInv, HistoryOrdered, DeliveredInOrder
    <3> QED
      BY <1>2, <3>1, <3>2
  <2> QED
    BY <2>1, <2>2
<1> QED
  BY <1>3, <1>4 DEF DeliveredInOrder

\* With a stable mode, a recording that keeps a frame in flight is pipelined.
LEMMA ModeOfRecording ==
  ASSUME ModeStable, OInv, BeginRecording, hasInflight
  PROVE  Pipelined'
<1>1. ModeFixed
  BY PipelineAssumption DEF ModeStable, BeginRecording, OInv, ModeHeld, TypeOK
<1>2. Buffered
  BY DEF OInv, ModeHeld
<1> QED
  BY <1>1, <1>2, ModeOfEnv DEF BeginRecording, Pipelined

\* Every step keeps the mode.
LEMMA ModeNext ==
  ASSUME ModeStable, OInv, [Next]_vars
  PROVE  ModeHeld'
<1> USE DEF callVars, recordVars, flightVars, gpuVars, histVars, Pipelined
<1>1. ModeHeld /\ TypeOK
  BY DEF OInv
<1>2. MaxRecords \in Nat
  BY PipelineAssumption
<1>3. CASE StartRun BY <1>1, <1>3 DEF StartRun, ModeHeld
<1>4. CASE GetInputPtr BY <1>1, <1>4 DEF GetInputPtr, ModeHeld
<1>5. CASE CallerWrite BY <1>1, <1>5 DEF CallerWrite, ModeHeld
<1>6. CASE StartFlush BY <1>1, <1>6 DEF StartFlush, ModeHeld
<1>7. CASE OverrideConvAlgorithm BY <1>1, <1>7 DEF OverrideConvAlgorithm, ModeHeld
<1>8. CASE Destroy BY <1>1, <1>8 DEF Destroy, ModeHeld
<1>9. CASE BeginRecording
  <2>1. Pipelined' => Buffered
    BY <1>9 DEF BeginRecording, Buffered
  <2>2. hasInflight => Pipelined'
    BY <1>9, ModeOfRecording
  <2>3. hasInflight => pc' = "drain"
    BY <1>9, <2>2 DEF BeginRecording
  <2>4. pc' \in {"drain", "record"} /\ UNCHANGED <<gen, ready, hasInflight>>
    BY <1>9 DEF BeginRecording
  <2> QED BY <1>1, <2>1, <2>2, <2>3, <2>4 DEF ModeHeld
<1>10. CASE DrainInflight BY <1>1, <1>10 DEF DrainInflight, ModeHeld
<1>11. CASE Record BY <1>1, <1>11 DEF Record, ModeHeld, TypeOK
<1>12. CASE FillUpload BY <1>1, <1>12 DEF FillUpload, ModeHeld
<1>13. CASE NothingInflight BY <1>1, <1>13 DEF NothingInflight, ModeHeld
<1>14. CASE CollectPrevious BY <1>1, <1>14 DEF CollectPrevious, ModeHeld
<1>15. CASE CollectFails BY <1>1, <1>15 DEF CollectFails, ModeHeld
<1>16. CASE WaitSetupFails BY <1>1, <1>16 DEF WaitSetupFails, ModeHeld
<1>17. CASE SubmitPipelined BY <1>1, <1>17 DEF SubmitPipelined, ModeHeld
<1>18. CASE SubmitSync BY <1>1, <1>18 DEF SubmitSync, ModeHeld
<1>19. CASE CollectSync BY <1>1, <1>19 DEF CollectSync, ModeHeld
<1>20. CASE SyncWaitSetupFails BY <1>1, <1>20 DEF SyncWaitSetupFails, ModeHeld
<1>21. CASE GpuRetire BY <1>1, <1>21 DEF GpuRetire, ModeHeld
<1>22. CASE UNCHANGED vars BY <1>1, <1>22 DEF vars, ModeHeld
<1> QED
  BY <1>3, <1>4, <1>5, <1>6, <1>7, <1>8, <1>9, <1>10, <1>11, <1>12, <1>13, <1>14, <1>15,
     <1>16, <1>17, <1>18, <1>19, <1>20, <1>21, <1>22
  DEF Next, CallerStep, CallStep, FaultStep

\* Work that nobody signals adds no signal to the queue.
LEMMA WorkUnsignalled ==
  ASSUME TypeOK, NEW q, q = queue \o FrameWork
  PROVE  \A i \in DOMAIN q : q[i].op = "signal" => i \in DOMAIN queue /\ q[i] = queue[i]
<1> DEFINE n == Len(queue)
<1>1. queue \in Seq(Item) /\ n \in Nat /\ DOMAIN queue = 1 .. n
  BY DEF TypeOK
<1>2. /\ DOMAIN q = 1 .. n + 2 /\ q[n + 1].op = "copy" /\ q[n + 2].op = "list"
      /\ \A i \in 1 .. n : q[i] = queue[i]
  BY <1>1 DEF FrameWork
<1>3. ASSUME NEW i \in 1 .. n + 2, q[i].op = "signal" PROVE i \in 1 .. n
  <2>1. i # n + 1 /\ i # n + 2
    BY <1>2, <1>3
  <2> QED
    BY <1>1, <2>1
<1> QED
  BY <1>1, <1>2, <1>3

\* Giving out the next value of a fence and queueing its signal.
LEMMA SignalsStayIssued ==
  ASSUME TypeOK, SignalsIssued, NEW f \in Fences,
         completed' = completed, issued' = [issued EXCEPT ![f] = issued[f] + 1],
         awaited' <= issued'["pipe"],
         \A i \in DOMAIN queue' : queue'[i].op = "signal" =>
           \/ i \in DOMAIN queue /\ queue'[i] = queue[i]
           \/ queue'[i].fence = f /\ queue'[i].value = issued[f] + 1
  PROVE  SignalsIssued'
<1>1. \A e \in Fences : completed[e] \in Nat /\ issued[e] \in Nat /\ completed[e] <= issued[e]
  BY DEF TypeOK, SignalsIssued
<1>2. \A e \in Fences : issued'[e] = IF e = f THEN issued[e] + 1 ELSE issued[e]
  BY DEF TypeOK
<1>3. \A e \in Fences : completed'[e] <= issued'[e]
  BY <1>1, <1>2
<1>4. ASSUME NEW i \in DOMAIN queue', queue'[i].op = "signal"
      PROVE  queue'[i].value <= issued'[queue'[i].fence]
  <2>1. CASE i \in DOMAIN queue /\ queue'[i] = queue[i]
    <3>1. queue[i] \in Item /\ queue[i].op = "signal"
      BY <1>4, <2>1 DEF TypeOK
    <3>2. queue[i].fence \in Fences /\ queue[i].value \in Nat
      BY <3>1 DEF Item
    <3>3. queue[i].value <= issued[queue[i].fence]
      BY <2>1, <3>1 DEF SignalsIssued
    <3> QED
      BY <1>1, <1>2, <2>1, <3>2, <3>3
  <2>2. CASE queue'[i].fence = f /\ queue'[i].value = issued[f] + 1
    BY <1>1, <1>2, <2>2
  <2> QED
    BY <1>4, <2>1, <2>2
<1> QED
  BY <1>3, <1>4 DEF SignalsIssued

\* The work of a frame adds its closing signal, with the next value of its
\* fence, and no other.
LEMMA WorkStaysIssued ==
  ASSUME TypeOK, SignalsIssued, NEW f \in Fences,
         completed' = completed, issued' = [issued EXCEPT ![f] = issued[f] + 1],
         awaited' <= issued'["pipe"],
         queue' = queue \o FrameWork \o SignalOf(f, issued[f] + 1)
  PROVE  SignalsIssued'
<1> DEFINE n == Len(queue)
           q == queue'
           v == issued[f] + 1
<1>1. queue \in Seq(Item) /\ n \in Nat /\ DOMAIN queue = 1 .. n
  BY DEF TypeOK
<1>2. q = queue \o FrameWork \o SignalOf(f, v)
  OBVIOUS
<1> HIDE DEF q, v
<1>3. /\ DOMAIN q = 1 .. n + 3 /\ q[n + 1].op = "copy" /\ q[n + 2].op = "list"
      /\ q[n + 3].fence = f /\ q[n + 3].value = v
      /\ \A i \in 1 .. n : q[i] = queue[i]
  BY <1>1, <1>2 DEF FrameWork, SignalOf
<1>4. ASSUME NEW i \in 1 .. n + 3, q[i].op = "signal" PROVE i \in 1 .. n \/ i = n + 3
  <2>1. i # n + 1 /\ i # n + 2
    BY <1>3, <1>4
  <2> QED
    BY <1>1, <2>1
<1> HIDE DEF n
<1>5. \A i \in DOMAIN q : q[i].op = "signal" =>
         (i \in DOMAIN queue /\ q[i] = queue[i]) \/ (q[i].fence = f /\ q[i].value = v)
  BY <1>1, <1>3, <1>4
<1>6. \A i \in DOMAIN queue' : queue'[i].op = "signal" =>
         \/ i \in DOMAIN queue /\ queue'[i] = queue[i]
         \/ queue'[i].fence = f /\ queue'[i].value = issued[f] + 1
  BY <1>5, Zenon DEF q, v
<1> QED
  BY <1>6, SignalsStayIssued, Zenon

\* A sequence that has grown by one element.
LEMMA Appended ==
  ASSUME NEW S, NEW s \in Seq(S), NEW x \in S, NEW t, t = Append(s, x)
  PROVE  /\ t # <<>> /\ Len(t) \in DOMAIN t /\ t[Len(t)] = x
         /\ \A j \in DOMAIN s : j \in DOMAIN t /\ t[j] = s[j]
         /\ \A j \in DOMAIN t : t[j] = x \/ (j \in DOMAIN s /\ t[j] = s[j])
<1>1. /\ Len(s) \in Nat /\ DOMAIN s = 1 .. Len(s)
      /\ DOMAIN t = 1 .. Len(s) + 1 /\ Len(t) = Len(s) + 1
      /\ \A j \in 1 .. Len(s) : t[j] = s[j]
      /\ t[Len(s) + 1] = x
  OBVIOUS
<1>2. t # <<>>
  OBVIOUS
<1>3. \A j \in 1 .. Len(s) + 1 : j = Len(s) + 1 \/ j \in 1 .. Len(s)
  BY <1>1
<1> QED
  BY <1>1, <1>2, <1>3

\* The frame of this run becomes the newest accepted.
LEMMA AcceptedGrows ==
  ASSUME TypeOK, accepted' = Append(accepted, run),
         \A j \in DOMAIN accepted : accepted[j] < run
  PROVE  /\ accepted' # <<>> /\ LastAccepted' = run
         /\ \A j \in DOMAIN accepted' : accepted'[j] <= run
         /\ \A j \in DOMAIN accepted : \E k \in DOMAIN accepted' : accepted'[k] = accepted[j]
         /\ \E k \in DOMAIN accepted' : accepted'[k] = run
<1>1. accepted \in Seq(Nat) /\ run \in Nat /\ \A j \in DOMAIN accepted : accepted[j] \in Nat
  BY DEF TypeOK
<1> DEFINE t == accepted'
<1>2. t = Append(accepted, run)
  OBVIOUS
<1> HIDE DEF t
<1>3. /\ t # <<>> /\ Len(t) \in DOMAIN t /\ t[Len(t)] = run
      /\ \A j \in DOMAIN accepted : j \in DOMAIN t /\ t[j] = accepted[j]
      /\ \A j \in DOMAIN t : t[j] = run \/ (j \in DOMAIN accepted /\ t[j] = accepted[j])
  BY <1>1, <1>2, Appended
<1>4. ASSUME NEW j \in DOMAIN t PROVE t[j] <= run
  BY <1>1, <1>3
<1> QED
  BY <1>3, <1>4 DEF LastAccepted, t

\* Every step keeps what is waited for and the order of the histories.
LEMMA OrderNext ==
  ASSUME OInv, TypeOK', [Next]_vars
  PROVE  SignalsIssued' /\ WorkIsKnown' /\ HistoryOrdered'
<1> USE DEF callVars, recordVars, flightVars, gpuVars, histVars
<1>1. /\ run \in Nat /\ run' \in Nat /\ MaxRuns \in Nat /\ run <= MaxRuns
      /\ issued \in [Fences -> Nat] /\ completed \in [Fences -> Nat] /\ awaited \in Nat
      /\ accepted \in Seq(Nat) /\ delivered \in Seq(Result) /\ readback \in Result
  BY PipelineAssumption DEF OInv, TypeOK, HistoryOrdered
<1>2. pc \notin Outside => run > 0
  BY DEF OInv, HistoryOrdered
<1>3. CASE StartRun
  BY <1>3, <1>1, <1>2, OrderQuiet DEF StartRun, Outside
<1>4. CASE GetInputPtr
  BY <1>4, <1>1, <1>2, OrderQuiet DEF GetInputPtr, Outside
<1>5. CASE CallerWrite
  BY <1>5, <1>1, <1>2, OrderQuiet DEF CallerWrite, Outside
<1>6. CASE StartFlush
  BY <1>6, <1>1, <1>2, OrderQuiet DEF StartFlush, Outside
<1>7. CASE OverrideConvAlgorithm
  BY <1>7, <1>1, <1>2, OrderQuiet DEF OverrideConvAlgorithm, Outside
<1>8. CASE Destroy
  BY <1>8, <1>1, <1>2, OrderQuiet DEF Destroy, Outside
<1>9. CASE BeginRecording
  BY <1>9, <1>1, <1>2, OrderQuiet DEF BeginRecording, Outside
<1>10. CASE DrainInflight
  BY <1>10, <1>1, <1>2, OrderQuiet DEF DrainInflight, Outside
<1>11. CASE Record
  BY <1>11, <1>1, <1>2, OrderQuiet DEF Record, Outside
<1>12. CASE FillUpload
  BY <1>12, <1>1, <1>2, OrderQuiet DEF FillUpload, Outside
<1>13. CASE NothingInflight
  BY <1>13, <1>1, <1>2, OrderQuiet DEF NothingInflight, Outside
<1>14. CASE CollectFails
  BY <1>14, <1>1, <1>2, OrderQuiet DEF CollectFails, Outside
<1>15. CASE WaitSetupFails
  BY <1>15, <1>1, <1>2, OrderQuiet DEF WaitSetupFails, Outside
<1>16. CASE SyncWaitSetupFails
  BY <1>16, <1>1, <1>2, OrderQuiet DEF SyncWaitSetupFails, Outside
<1>17. CASE CollectPrevious
  <2>1. readback.run = LastAccepted /\ hasInflight
    BY <1>17, ReadyToCollect DEF CollectPrevious
  <2>2. /\ ~hasInflight' /\ delivered' = Append(delivered, readback) /\ pc' # "syncwait"
        /\ pc' \notin Outside => pc \notin Outside
        /\ UNCHANGED <<run, queue, completed, issued, awaited, accepted>>
    BY <1>17 DEF CollectPrevious, Outside
  <2>3. \A i \in DOMAIN delivered : delivered[i].run < readback.run
    BY <2>1 DEF OInv, HistoryOrdered
  <2>4. \E k \in DOMAIN accepted' : accepted'[k] = readback.run
    <3>1. accepted # <<>>
      BY <2>1 DEF OInv, WorkIsKnown
    <3> QED
      BY <1>1, <2>1, <2>2, <3>1 DEF LastAccepted
  <2>5. DeliveredInOrder'
    BY <2>2, <2>3, <2>4, DeliveredGrows
  <2>6. SignalsIssued'
    BY <2>2 DEF OInv, SignalsIssued
  <2> QED
    BY <2>2, <2>5, <2>6, <1>1, <1>2 DEF OInv, WorkIsKnown, HistoryOrdered
<1>18. CASE SubmitPipelined
  <2>1. /\ ~hasInflight /\ pc = "submit" /\ run > 0 /\ run \in Nat
        /\ UNCHANGED <<run, completed, readback, delivered>>
        /\ \A j \in DOMAIN accepted : accepted[j] < run
    BY <1>18, <1>1, <1>2 DEF SubmitPipelined, OInv, ModeHeld, HistoryOrdered, Outside
  <2>2. CASE queue' = queue \o FrameWork /\ UNCHANGED <<flightVars, accepted>>
    BY <1>18, <1>1, <2>1, <2>2, WorkUnsignalled DEF SubmitPipelined, OInv, WorkIsKnown, HistoryOrdered,
       DeliveredInOrder, SignalsIssued, Outside
  <2>3. CASE /\ queue' = queue \o FrameWork \o SignalOf("pipe", issued["pipe"] + 1)
             /\ issued' = [issued EXCEPT !["pipe"] = issued["pipe"] + 1]
             /\ awaited' = issued["pipe"] + 1 /\ hasInflight'
             /\ accepted' = Append(accepted, run)
    <3>1. SignalsIssued' 
      <4>1. awaited' <= issued'["pipe"] /\ "pipe" \in Fences
        BY <1>1, <2>3 DEF Fences
      <4> QED
        BY <2>1, <2>3, <4>1, WorkStaysIssued, Zenon DEF OInv
    <3>2. LastAccepted' = run /\ accepted' # <<>>
      BY <2>1, <2>3, AcceptedGrows DEF OInv
    <3>3. ClosedBy(queue', completed'["pipe"], readback'.run, "pipe", awaited', run)
      BY <2>1, <2>3, ClosedByNew DEF OInv, Fences
    <3>4. WorkIsKnown'
      BY <1>18, <3>2, <3>3 DEF WorkIsKnown, SubmitPipelined
    <3>5. /\ \A j \in DOMAIN accepted' : accepted'[j] <= run'
          /\ \A j \in DOMAIN accepted : \E k \in DOMAIN accepted' : accepted'[k] = accepted[j]
      BY <2>1, <2>3, AcceptedGrows DEF OInv
    <3>6. DeliveredInOrder'
      BY <2>1, <3>5 DEF OInv, HistoryOrdered, DeliveredInOrder
    <3>7. \A i \in DOMAIN delivered : delivered[i].run < run
      BY <2>1 DEF OInv, HistoryOrdered, DeliveredInOrder
    <3>8. HistoryOrdered'
      BY <1>18, <1>1, <2>1, <3>2, <3>5, <3>6, <3>7 DEF HistoryOrdered, SubmitPipelined, Outside
    <3> QED
      BY <3>1, <3>4, <3>8
  <2> QED
    BY <1>18, <2>2, <2>3 DEF SubmitPipelined
<1>19. CASE SubmitSync
  <2>1. /\ ~hasInflight /\ pc = "submit" /\ run > 0 /\ run \in Nat
        /\ UNCHANGED <<run, completed, readback, delivered>>
        /\ \A j \in DOMAIN accepted : accepted[j] < run
    BY <1>19, <1>1, <1>2 DEF SubmitSync, OInv, ModeHeld, HistoryOrdered, Outside
  <2>2. /\ issued' = [issued EXCEPT !["device"] = issued["device"] + 1]
        /\ UNCHANGED <<awaited, hasInflight, accepted>>
        /\ pc' \in {"idle", "syncwait"}
    BY <1>19 DEF SubmitSync
  <2>3. HistoryOrdered'
    BY <1>1, <2>1, <2>2 DEF OInv, HistoryOrdered, DeliveredInOrder, Outside
  <2>4. CASE queue' = queue \o FrameWork /\ pc' = "idle"
    <3>1. awaited' <= issued'["pipe"] /\ "device" \in Fences
      BY <1>1, <2>2 DEF OInv, SignalsIssued, Fences
    <3>2. SignalsIssued'
      BY <2>1, <2>2, <2>4, <3>1, WorkUnsignalled, SignalsStayIssued DEF OInv
    <3> QED
      BY <2>1, <2>2, <2>3, <2>4, <3>2 DEF WorkIsKnown
  <2>5. CASE queue' = queue \o FrameWork \o SignalOf("device", issued["device"] + 1)
    <3>1. SignalsIssued'
      <4>1. awaited' <= issued'["pipe"] /\ "device" \in Fences
        BY <1>1, <2>2 DEF OInv, SignalsIssued, Fences
      <4> QED
        BY <2>1, <2>2, <2>5, <4>1, WorkStaysIssued, Zenon DEF OInv
    <3>2. ClosedBy(queue', completed'["device"], readback'.run, "device", issued'["device"], run)
      BY <1>1, <2>1, <2>2, <2>5, ClosedByNew DEF OInv, Fences
    <3>3. WorkIsKnown'
      BY <2>1, <2>2, <3>2 DEF WorkIsKnown
    <3> QED
      BY <2>3, <3>1, <3>3
  <2> QED
    BY <1>19, <2>4, <2>5 DEF SubmitSync
<1>20. CASE CollectSync
  <2>1. /\ readback.run = run /\ ~hasInflight /\ run > 0 /\ pc' = "idle"
        /\ \A j \in DOMAIN accepted : accepted[j] < run
        /\ UNCHANGED <<run, queue, completed, issued, awaited, hasInflight>>
    BY <1>20, <1>2, ReadyToCollect DEF CollectSync, OInv, ModeHeld, HistoryOrdered, Outside
  <2>2. SignalsIssued' /\ WorkIsKnown'
    BY <2>1 DEF OInv, SignalsIssued, WorkIsKnown
  <2>3. CASE delivered' = Append(delivered, readback) /\ accepted' = Append(accepted, run)
    <3>1. /\ \A j \in DOMAIN accepted' : accepted'[j] <= run'
          /\ \A j \in DOMAIN accepted : \E k \in DOMAIN accepted' : accepted'[k] = accepted[j]
          /\ \E k \in DOMAIN accepted' : accepted'[k] = readback.run
      BY <2>1, <2>3, AcceptedGrows DEF OInv
    <3>2. \A i \in DOMAIN delivered : delivered[i].run < readback.run
      BY <2>1 DEF OInv, HistoryOrdered, DeliveredInOrder
    <3>3. DeliveredInOrder'
      BY <2>3, <3>1, <3>2, DeliveredGrows
    <3> QED
      BY <1>1, <2>1, <2>2, <3>1, <3>3 DEF HistoryOrdered, Outside
  <2>4. CASE UNCHANGED histVars
    BY <1>1, <2>1, <2>2, <2>4 DEF OInv, HistoryOrdered, DeliveredInOrder, Outside
  <2> QED
    BY <1>20, <2>3, <2>4 DEF CollectSync
<1>21. CASE GpuRetire
  <2>1. queue \in Seq(Item) /\ queue # <<>> /\ queue' = Tail(queue) /\ Head(queue) \in Item
        /\ UNCHANGED <<pc, run, hasInflight, awaited, issued, accepted, delivered>>
    BY <1>21 DEF GpuRetire, OInv, TypeOK
  <2> DEFINE h == Head(queue)
  <2>2. /\ \A f \in Fences :
              /\ h.op = "signal" /\ h.fence = f => completed'[f] = h.value
              /\ ~(h.op = "signal" /\ h.fence = f) => completed'[f] = completed[f]
        /\ h.op = "list" => readback'.run = h.run
        /\ h.op # "list" => readback'.run = readback.run
    BY <1>21, <1>1, <2>1 DEF GpuRetire, Item
  <2>3. /\ \A f \in Fences : completed[f] \in Nat /\ completed'[f] \in Nat /\ issued[f] \in Nat
        /\ readback.run \in Nat /\ readback'.run \in Nat
    BY <1>1 DEF TypeOK, Result
  <2> HIDE DEF h
  <2>4. ASSUME NEW f \in Fences, NEW v \in Nat, NEW r \in Nat,
               ClosedBy(queue, completed[f], readback.run, f, v, r)
        PROVE  ClosedBy(queue', completed'[f], readback'.run, f, v, r)
    BY <2>1, <2>2, <2>3, <2>4, ClosedByTail, Zenon DEF h
  <2>5. WorkIsKnown'
    <3>1. "pipe" \in Fences /\ "device" \in Fences
      BY DEF Fences
    <3>2. hasInflight => LastAccepted \in Nat
      BY <1>1 DEF OInv, WorkIsKnown, LastAccepted
    <3>3. LastAccepted' = LastAccepted
      BY <2>1 DEF LastAccepted
    <3> QED
      BY <1>1, <2>1, <2>3, <2>4, <3>1, <3>2, <3>3 DEF OInv, WorkIsKnown
  <2>6. SignalsIssued'
    <3>1. h = queue[1] /\ 1 \in DOMAIN queue
      BY <2>1, NonEmpty DEF h
    <3>2. h.op = "signal" => h.value <= issued[h.fence]
      BY <3>1 DEF OInv, SignalsIssued
    <3>3. \A f \in Fences : completed'[f] <= issued[f]
      BY <2>2, <3>2 DEF OInv, SignalsIssued
    <3>4. \A i \in DOMAIN queue' : i + 1 \in DOMAIN queue /\ queue'[i] = queue[i + 1]
      BY <2>1
    <3> QED
      BY <2>1, <3>3, <3>4 DEF OInv, SignalsIssued
  <2>7. HistoryOrdered'
    BY <2>1 DEF OInv, HistoryOrdered, DeliveredInOrder, LastAccepted
  <2> QED
    BY <2>5, <2>6, <2>7
<1>22. CASE UNCHANGED vars
  BY <1>22 DEF vars, OInv, SignalsIssued, WorkIsKnown, HistoryOrdered, DeliveredInOrder,
     LastAccepted
<1> QED
  BY <1>3, <1>4, <1>5, <1>6, <1>7, <1>8, <1>9, <1>10, <1>11, <1>12, <1>13, <1>14, <1>15, <1>16,
     <1>17, <1>18, <1>19, <1>20, <1>21, <1>22
  DEF Next, CallerStep, CallStep, FaultStep

\* The initial state satisfies the order invariant.
LEMMA OrderInit == Init => OInv
<1> SUFFICES ASSUME Init PROVE OInv
  OBVIOUS
<1>1. TypeOK
  BY TypeInit
<1>2. ModeHeld /\ SignalsIssued /\ WorkIsKnown /\ HistoryOrdered
  BY PipelineAssumption DEF Init, ModeHeld, Pipelined, SignalsIssued, WorkIsKnown,
     HistoryOrdered, DeliveredInOrder, Outside, Fences
<1> QED
  BY <1>1, <1>2 DEF OInv

\* Every step keeps the order invariant.
LEMMA OrderStep ==
  ASSUME ModeStable, OInv, [Next]_vars
  PROVE  OInv'
<1>1. TypeOK'
  BY TypeNext DEF OInv
<1>2. ModeHeld'
  BY ModeNext
<1> QED
  BY <1>1, <1>2, OrderNext DEF OInv

\* The order invariant: what is waited for ends with the newest frame accepted.
THEOREM OrderInvariant ==
  ASSUME ModeStable
  PROVE  Spec => []OInv
<1>1. OInv /\ [Next]_vars => OInv'
  BY OrderStep
<1> QED
  BY <1>1, OrderInit, PTL DEF Spec

\* Results come back in frame order, each frame at most once and only for runs
\* that succeeded, whichever of the calls fail and however many slots there are.
THEOREM ResultsInOrder ==
  ASSUME ModeStable
  PROVE  Spec => []DeliveredInOrder
<1>1. OInv => DeliveredInOrder
  BY DEF OInv, HistoryOrdered
<1> QED
  BY <1>1, OrderInvariant, PTL

\* A result is added to the history, so the history changes.
LEMMA HistoryChanges ==
  ASSUME TypeOK PROVE Append(delivered, readback) # delivered
<1>1. delivered \in Seq(Result) /\ Len(Append(delivered, readback)) = Len(delivered) + 1
      /\ Len(delivered) \in Nat
  BY DEF TypeOK
<1> QED
  BY <1>1

\* Nothing but a recording, a flush whose readback failed and the destructor
\* forgets the frame in flight, for all constants.
THEOREM FramesAreNotForgotten == Spec => OnlyKnownDrops
<1>1. ASSUME TypeOK, [Next]_vars
      PROVE  [hasInflight /\ ~hasInflight' /\ delivered' = delivered
                => pc \in {"drain", "flush"} \/ pc' = "gone"]_<<hasInflight, delivered>>
  <2> SUFFICES ASSUME hasInflight, ~hasInflight', delivered' = delivered
               PROVE  pc \in {"drain", "flush"} \/ pc' = "gone"
    OBVIOUS
  <2> USE DEF callVars, recordVars, flightVars, gpuVars, histVars
  <2>1. DrainInflight \/ CollectPrevious \/ CollectFails \/ Destroy
    BY <1>1 DEF Next, CallerStep, CallStep, FaultStep, StartRun, GetInputPtr, CallerWrite, StartFlush,
       OverrideConvAlgorithm, BeginRecording, Record, FillUpload, NothingInflight, WaitSetupFails,
       SubmitPipelined, SubmitSync, CollectSync, SyncWaitSetupFails, GpuRetire, vars
  <2>2. ~CollectPrevious
    BY <1>1, HistoryChanges DEF CollectPrevious
  <2> QED
    BY <2>1, <2>2 DEF DrainInflight, CollectFails, Destroy
<1> QED
  BY <1>1, TypeCorrect, PTL DEF Spec, OnlyKnownDrops

------------------------------------------------------------------------------
(* Refinement of FrameStream                                                 *)

\* The runs whose results were handed out, in order.
Runs == [i \in DOMAIN delivered |-> delivered[i].run]

\* A result handed out adds its run.
LEMMA RunsGrow ==
  ASSUME TypeOK, delivered' = Append(delivered, readback)
  PROVE  Runs' = Append(Runs, readback.run)
<1> DEFINE n == Len(delivered)
<1>1. delivered \in Seq(Result) /\ n \in Nat /\ DOMAIN delivered = 1 .. n
      /\ DOMAIN delivered' = 1 .. n + 1 /\ delivered'[n + 1] = readback
      /\ \A i \in 1 .. n : delivered'[i] = delivered[i]
  BY DEF TypeOK
<1>2. Runs \in Seq(Nat) /\ Len(Runs) = n /\ readback.run \in Nat
  <2>1. ASSUME NEW i \in 1 .. n PROVE delivered[i].run \in Nat
    <3>1. delivered[i] \in Result
      BY <1>1
    <3> QED
      BY <3>1 DEF Result
  <2>2. Runs = [i \in 1 .. n |-> delivered[i].run]
    BY <1>1 DEF Runs
  <2>3. Runs \in [1 .. n -> Nat]
    BY <2>1, <2>2
  <2>4. readback.run \in Nat
    BY DEF TypeOK, Result
  <2> QED
    BY <1>1, <2>3, <2>4
<1>3. Runs' = [i \in 1 .. n + 1 |-> delivered'[i].run]
  BY <1>1 DEF Runs
<1>4. Append(Runs, readback.run) = [i \in 1 .. n + 1 |-> IF i <= n THEN Runs[i] ELSE readback.run]
  BY <1>2
<1>5. \A i \in 1 .. n + 1 : delivered'[i].run = IF i <= n THEN Runs[i] ELSE readback.run
  BY <1>1 DEF Runs
<1> QED
  BY <1>3, <1>4, <1>5

\* The initial state is the initial state of the stream.
LEMMA StreamInits == Init => Order!StreamInit
  BY DEF Init, Order!StreamInit, InFlightFrame

\* Handing the previous frame's result out is the delivery of the stream's oldest.
LEMMA CollectDelivers ==
  ASSUME OInv, CollectPrevious
  PROVE  Order!Deliver
<1>1. hasInflight /\ ~hasInflight' /\ delivered' = Append(delivered, readback)
      /\ readback.run = LastAccepted
  BY ReadyToCollect DEF CollectPrevious
<1>2. InFlightFrame = <<LastAccepted>> /\ InFlightFrame' = <<>>
  BY <1>1 DEF InFlightFrame, LastAccepted
<1>3. Runs' = Append(Runs, LastAccepted)
  BY <1>1, RunsGrow DEF OInv
<1>4. /\ InFlightFrame # <<>> /\ Head(InFlightFrame) = LastAccepted
      /\ Tail(InFlightFrame) = <<>>
  BY <1>2
<1> QED
  BY <1>2, <1>3, <1>4, Zenon DEF Order!Deliver, Runs

\* A run that has submitted its frame and returned is accepted by the stream.
LEMMA SubmitAccepts ==
  ASSUME OInv, SubmitPipelined
  PROVE  (\E f \in 1 .. MaxRuns : Order!Accept(f)) \/ UNCHANGED Order!streamVars
<1>1. /\ ~hasInflight /\ delivered' = delivered /\ run \in 1 .. MaxRuns
      /\ \A j \in DOMAIN accepted : accepted[j] < run
  BY PipelineAssumption DEF OInv, TypeOK, ModeHeld, HistoryOrdered, SubmitPipelined, Outside
<1>2. InFlightFrame = <<>> /\ Runs' = Runs
  BY <1>1 DEF InFlightFrame, Runs
<1>3. CASE UNCHANGED <<hasInflight, accepted>>
  BY <1>1, <1>2, <1>3 DEF InFlightFrame, Order!streamVars, Runs
<1>4. CASE hasInflight' /\ accepted' = Append(accepted, run)
  <2>1. InFlightFrame' = <<run>>
    <3>1. LastAccepted' = run
      BY <1>1, <1>4, AcceptedGrows DEF OInv
    <3> QED
      BY <1>4, <3>1 DEF InFlightFrame, LastAccepted
  <2>2. \A i \in DOMAIN Runs : Runs[i] < run
    BY <1>1 DEF OInv, HistoryOrdered, DeliveredInOrder, Runs
  <2>3. Order!Fresh(run)
    BY <1>2, <2>2 DEF Order!Fresh, Runs
  <2>4. Len(InFlightFrame) < 1 /\ InFlightFrame' = Append(InFlightFrame, run)
    BY <1>1, <1>2, <2>1
  <2>5. Order!Accept(run)
    BY <1>2, <2>3, <2>4 DEF Order!Accept, Runs
  <2> QED
    BY <1>1, <2>5
<1> QED
  BY <1>3, <1>4 DEF SubmitPipelined, flightVars

\* A synchronous run is accepted and answered in one step.
LEMMA SyncAnswers ==
  ASSUME OInv, CollectSync
  PROVE  (\E f \in 1 .. MaxRuns : Order!Answer(f)) \/ UNCHANGED Order!streamVars
<1>1. /\ ~hasInflight /\ ~hasInflight' /\ run \in 1 .. MaxRuns /\ readback.run = run
      /\ \A j \in DOMAIN accepted : accepted[j] < run
  BY PipelineAssumption, ReadyToCollect
  DEF OInv, TypeOK, ModeHeld, HistoryOrdered, CollectSync, Outside, flightVars
<1>2. InFlightFrame = <<>> /\ InFlightFrame' = <<>>
  BY <1>1 DEF InFlightFrame
<1>3. CASE UNCHANGED histVars
  BY <1>2, <1>3 DEF Order!streamVars, histVars
<1>4. CASE delivered' = Append(delivered, readback)
  <2>1. \A i \in DOMAIN Runs : Runs[i] < run
    BY <1>1 DEF OInv, HistoryOrdered, DeliveredInOrder, Runs
  <2>2. Order!Fresh(run)
    BY <1>2, <2>1 DEF Order!Fresh, Runs
  <2>3. Runs' = Append(Runs, run)
    BY <1>1, <1>4, RunsGrow DEF OInv
  <2>4. PICK f \in 1 .. MaxRuns : f = run
    BY <1>1
  <2>5. Order!Answer(f)
    BY <1>2, <2>2, <2>3, <2>4 DEF Order!Answer, Order!Fresh, Runs
  <2> QED
    BY <2>5
<1> QED
  BY <1>3, <1>4 DEF CollectSync

\* A recording, a flush that fails and the destructor drop the frame in flight.
LEMMA ForgettingDrops ==
  ASSUME UNCHANGED <<accepted, delivered>>, hasInflight' \in {hasInflight, FALSE},
         hasInflight \in BOOLEAN
  PROVE  Order!Drop \/ UNCHANGED Order!streamVars
<1>1. CASE hasInflight' = hasInflight
  BY <1>1 DEF InFlightFrame, Order!streamVars
<1>2. CASE ~hasInflight' /\ hasInflight
  <2>1. InFlightFrame = <<LastAccepted>> /\ InFlightFrame' = <<>>
    BY <1>2 DEF InFlightFrame, LastAccepted
  <2>2. InFlightFrame # <<>> /\ Tail(InFlightFrame) = <<>>
    BY <2>1
  <2> QED
    BY <2>1, <2>2 DEF Order!Drop
<1> QED
  BY <1>1, <1>2

\* Seen by its caller, the pipeline is a FIFO stream with a lag of one frame.
THEOREM PipelineIsStream ==
  ASSUME ModeStable
  PROVE  Spec => RefinesOrderedStream
<1>1. OInv /\ [Next]_vars => [Order!StreamNext]_Order!streamVars
  <2> SUFFICES ASSUME OInv, [Next]_vars PROVE Order!StreamNext \/ UNCHANGED Order!streamVars
    BY Zenon
  <2> USE DEF callVars, recordVars, flightVars, gpuVars, histVars
  <2>1. CASE CollectPrevious
    BY <2>1, CollectDelivers DEF Order!StreamNext
  <2>2. CASE SubmitPipelined
    BY <2>2, SubmitAccepts DEF Order!StreamNext
  <2>3. CASE CollectSync
    BY <2>3, SyncAnswers DEF Order!StreamNext
  <2>4. CASE ~(CollectPrevious \/ SubmitPipelined \/ CollectSync)
    <3>1. UNCHANGED <<accepted, delivered>> /\ hasInflight' \in {hasInflight, FALSE}
      BY <2>4 DEF Next, CallerStep, CallStep, FaultStep, StartRun, GetInputPtr, CallerWrite, StartFlush,
         OverrideConvAlgorithm, Destroy, BeginRecording, DrainInflight, Record, FillUpload,
         NothingInflight, CollectFails, WaitSetupFails, SubmitSync, SyncWaitSetupFails,
         GpuRetire, vars
    <3>2. hasInflight \in BOOLEAN
      BY DEF OInv, TypeOK
    <3> QED
      BY <3>1, <3>2, ForgettingDrops DEF Order!StreamNext
  <2> QED
    BY <2>1, <2>2, <2>3, <2>4
<1> QED
  BY <1>1, StreamInits, OrderInvariant, PTL DEF Spec, RefinesOrderedStream, Order!StreamSpec

------------------------------------------------------------------------------
(* The pixels of a synchronous run                                           *)

\* A mapped input pointer handed to a run is of the recording the run uses:
\* the caller uses its own memory, or nothing is recorded again.
InputsOutliveRecordings == ~ZeroCopy \/ MaxRecords <= 1

\* The rest of the work computes, and then the readbacks hold, r's pixels.
Computes(q, g, input, data, r) ==
  IF q = <<>> \/ Len(q) = 1 THEN data = r
  ELSE IF Len(q) = 2 THEN input = r
  ELSE q[Len(q) - 2] = [op |-> "copy", gen |-> g, slot |-> 0, run |-> r]

\* From the caller's frame to the upload the copy list reads, and from there
\* through the input page to the readbacks.
PixelsFollow ==
  /\ ~ZeroCopy => ptrGen = 0
  /\ pc \in {"ensure", "drain", "record"} => inputGen = 0
  /\ pc # "collect"
  /\ pc = "fill" /\ inputGen # 0 => inputGen = gen /\ upload[0] = run
  /\ pc \in {"submit", "syncwait"} => upload[0] = run
  /\ pc = "syncwait" => Computes(queue, gen, gpuInput, readback.data, run)
  /\ ResultIsOfItsFrame

DInv == OInv /\ PixelsFollow

\* A frame just submitted will compute its own pixels.
LEMMA ComputesNew ==
  ASSUME TypeOK, ~Pipelined, NEW f, NEW v, NEW input, NEW data
  PROVE  Computes(queue \o FrameWork \o SignalOf(f, v), gen, input, data, run)
<1> DEFINE n == Len(queue)
           q == queue \o FrameWork \o SignalOf(f, v)
<1>1. queue \in Seq(Item) /\ n \in Nat
  BY DEF TypeOK
<1>2. Len(q) = n + 3 /\ q[n + 1] = [op |-> "copy", gen |-> gen, slot |-> BoundSlot, run |-> run]
  BY <1>1 DEF FrameWork, SignalOf
<1>3. q # <<>>
  BY <1>1 DEF FrameWork, SignalOf
<1> HIDE DEF q
<1>4. Len(q) # 1 /\ Len(q) # 2 /\ Len(q) - 2 = n + 1
  BY <1>1, <1>2
<1>5. Computes(q, gen, input, data, run)
  BY <1>2, <1>3, <1>4, Zenon DEF Computes, BoundSlot
<1> QED
  BY <1>5 DEF q

\* Retiring an item of a frame passes its pixels on.
LEMMA ComputesTail ==
  ASSUME NEW q \in Seq(Item), NEW g, NEW input, NEW data, NEW input2, NEW data2,
         NEW c \in Nat, NEW rb, NEW f, NEW v, NEW r,
         q # <<>>, ClosedBy(q, c, rb, f, v, r), Computes(q, g, input, data, r),
         Head(q) = [op |-> "copy", gen |-> g, slot |-> 0, run |-> r] => input2 = r,
         Head(q).op # "copy" => input2 = input,
         Head(q).op = "list" => data2 = input,
         Head(q).op # "list" => data2 = data
  PROVE  Computes(Tail(q), g, input2, data2, r)
<1>0. Len(q) \in Nat /\ (Len(q) = 1 \/ Len(q) > 1)
  BY NonEmpty, SmallCounts
<1>1. Head(q) = q[1] /\ (Len(q) = 1 => Tail(q) = <<>>)
  BY NonEmpty
<1>2. CASE Len(q) = 1
  <2>1. q[1] = [op |-> "signal", fence |-> f, value |-> v]
    BY <1>2, Zenon DEF ClosedBy
  <2>2. Head(q).op = "signal"
    BY <1>1, <2>1
  <2>3. data = r
    BY <1>2, Zenon DEF Computes
  <2> QED
    BY <1>1, <1>2, <2>2, <2>3 DEF Computes
<1>3. CASE Len(q) > 1
  <2>1. /\ Tail(q) # <<>> /\ Len(Tail(q)) = Len(q) - 1
        /\ \A i \in 1 .. Len(q) - 1 : Tail(q)[i] = q[i + 1]
    BY <1>3, TailIs
  <2>2. CASE Len(q) = 2
    <3>1. Len(q) # 1 /\ Len(q) - 1 = 1
      BY <2>2
    <3>2. q[1].op = "list"
      BY <3>1, Zenon DEF ClosedBy
    <3>3. Head(q).op = "list" /\ input = r
      BY <1>1, <2>2, <3>1, <3>2, Zenon DEF Computes
    <3>4. Len(Tail(q)) = 1
      BY <2>1, <2>2, SmallCounts, Zenon
    <3> QED
      BY <3>3, <3>4 DEF Computes
  <2>3. CASE Len(q) = 3
    <3>1. Len(q) # 1 /\ Len(q) # 2 /\ Len(q) - 2 = 1
      BY <2>3
    <3>2. Head(q) = [op |-> "copy", gen |-> g, slot |-> 0, run |-> r]
      BY <1>1, <3>1, Zenon DEF Computes
    <3>3. input2 = r
      BY <3>2, Zenon
    <3> DEFINE t == Tail(q)
    <3>4. t # <<>> /\ Len(t) = 2
      BY <2>1, <2>3, SmallCounts, Zenon
    <3> HIDE DEF t
    <3>5. Computes(t, g, input2, data2, r)
      BY <3>3, <3>4 DEF Computes
    <3> QED
      BY <3>5 DEF t
  <2>4. CASE Len(q) > 3
    <3>1. /\ Len(q) - 2 = (Len(q) - 3) + 1 /\ Len(q) - 3 \in 1 .. Len(q) - 1
          /\ Len(Tail(q)) - 2 = Len(q) - 3
          /\ Len(Tail(q)) # 1 /\ Len(Tail(q)) # 2 /\ Len(q) # 1 /\ Len(q) # 2
      BY <1>0, <2>1, <2>4
    <3>2. q # <<>> /\ Tail(q) # <<>>
      BY <2>1
    <3>3. q[Len(q) - 2] = [op |-> "copy", gen |-> g, slot |-> 0, run |-> r]
      BY <3>1, Zenon DEF Computes
    <3>4. Tail(q)[Len(Tail(q)) - 2] = q[Len(q) - 2]
      BY <2>1, <3>1, Zenon
    <3> DEFINE t == Tail(q)
               copy == [op |-> "copy", gen |-> g, slot |-> 0, run |-> r]
    <3>5. t # <<>> /\ Len(t) # 1 /\ Len(t) # 2 /\ t[Len(t) - 2] = copy
      BY <3>1, <3>2, <3>3, <3>4
    <3> HIDE DEF t
    <3>6. Computes(t, g, input2, data2, r)
      BY <3>5 DEF Computes
    <3> QED
      BY <3>6 DEF t
  <2> QED
    BY <1>0, <1>3, <2>2, <2>3, <2>4, SmallCounts, Zenon
<1> QED
  BY <1>0, <1>2, <1>3, Zenon

\* Every step passes the pixels on.
LEMMA PixelsNext ==
  ASSUME ModeStable, InputsOutliveRecordings, ~Buffered, DInv, OInv', [Next]_vars
  PROVE  PixelsFollow'
<1> USE DEF callVars, recordVars, flightVars, gpuVars, histVars
<1>1. OInv /\ TypeOK /\ TypeOK' /\ PixelsFollow
  BY DEF DInv, OInv
<1>2. /\ run \in Nat /\ gen \in Nat /\ ptrGen \in Nat /\ inputGen \in Nat
      /\ upload \in [Slots -> Nat] /\ 0 \in Slots /\ MaxRecords \in Nat
  BY <1>1, PipelineAssumption DEF TypeOK, Slots, MaxFrames
<1>3. ~Pipelined /\ ~hasInflight /\ FillSlot = 0
  BY <1>1 DEF OInv, ModeHeld, FillSlot
<1>4. CASE StartRun
  <2>1. ~ready => inputGen' = 0
    BY <1>4, <1>2, <1>1 DEF StartRun, InputsOutliveRecordings, PixelsFollow
  <2>2. inputGen' # 0 => inputGen' = gen' /\ upload'[0] = run'
    BY <1>4 DEF StartRun
  <2>3. pc' = (IF ready THEN "fill" ELSE "ensure") /\ UNCHANGED <<ptrGen, delivered>>
    BY <1>4 DEF StartRun
  <2> QED
    BY <1>1, <2>1, <2>2, <2>3 DEF PixelsFollow, ResultIsOfItsFrame
<1>5. CASE GetInputPtr
  BY <1>1, <1>2, <1>3, <1>5 DEF GetInputPtr, PixelsFollow, ResultIsOfItsFrame
<1>6. CASE CallerWrite
  BY <1>1, <1>2, <1>3, <1>6 DEF CallerWrite, PixelsFollow, ResultIsOfItsFrame
<1>7. CASE StartFlush
  BY <1>1, <1>2, <1>3, <1>7 DEF StartFlush, PixelsFollow, ResultIsOfItsFrame
<1>8. CASE OverrideConvAlgorithm
  BY <1>1, <1>2, <1>3, <1>8 DEF OverrideConvAlgorithm, PixelsFollow, ResultIsOfItsFrame
<1>9. CASE Destroy
  BY <1>1, <1>2, <1>3, <1>9 DEF Destroy, PixelsFollow, ResultIsOfItsFrame
<1>10. CASE BeginRecording
  BY <1>1, <1>2, <1>3, <1>10 DEF BeginRecording, PixelsFollow, ResultIsOfItsFrame
<1>11. CASE DrainInflight
  BY <1>1, <1>2, <1>3, <1>11 DEF DrainInflight, PixelsFollow, ResultIsOfItsFrame
<1>12. CASE Record
  BY <1>1, <1>2, <1>12 DEF Record, PixelsFollow, ResultIsOfItsFrame
<1>13. CASE FillUpload
  <2>1. Source = run
    BY <1>1, <1>13 DEF FillUpload, Source, PixelsFollow
  <2>2. upload'[0] = run /\ pc' = "submit" /\ UNCHANGED <<run, ptrGen, delivered>>
    BY <1>2, <1>3, <2>1, <1>13 DEF FillUpload
  <2> QED
    BY <1>1, <2>2 DEF PixelsFollow, ResultIsOfItsFrame
<1>14. CASE NothingInflight
  BY <1>1, <1>3, <1>14 DEF NothingInflight, PixelsFollow, ResultIsOfItsFrame
<1>15. CASE CollectFails
  BY <1>1, <1>3, <1>15 DEF CollectFails, PixelsFollow, ResultIsOfItsFrame
<1>16. CASE WaitSetupFails
  BY <1>1, <1>3, <1>16 DEF WaitSetupFails, PixelsFollow, ResultIsOfItsFrame
<1>17. CASE SyncWaitSetupFails
  BY <1>1, <1>3, <1>17 DEF SyncWaitSetupFails, PixelsFollow, ResultIsOfItsFrame
<1>18. CASE CollectPrevious
  BY <1>1, <1>3, <1>18 DEF CollectPrevious, PixelsFollow, ResultIsOfItsFrame
<1>19. CASE SubmitPipelined
  BY <1>1, <1>3, <1>19 DEF SubmitPipelined, PixelsFollow, ResultIsOfItsFrame
<1>20. CASE SubmitSync
  <2>1. pc = "submit" /\ UNCHANGED <<run, ptrGen, gen, upload, gpuInput, readback, delivered>>
    BY <1>20 DEF SubmitSync
  <2>2. CASE pc' = "idle"
    BY <1>1, <2>1, <2>2 DEF PixelsFollow, ResultIsOfItsFrame
  <2>3. CASE queue' = queue \o FrameWork \o SignalOf("device", issued["device"] + 1) /\ pc' = "syncwait"
    <3>1. Computes(queue', gen', gpuInput', readback'.data, run')
      BY <1>1, <1>3, <2>1, <2>3, ComputesNew
    <3> QED
      BY <1>1, <2>1, <2>3, <3>1 DEF PixelsFollow, ResultIsOfItsFrame
  <2> QED
    BY <1>20, <2>2, <2>3 DEF SubmitSync
<1>21. CASE CollectSync
  <2>1. readback.run = run /\ pc = "syncwait" /\ pc' = "idle" /\ UNCHANGED <<ptrGen, queue>>
    BY <1>1, <1>21, ReadyToCollect DEF CollectSync
  <2>2. readback.data = run
    <3>1. queue = <<>>
      BY <1>1, <1>21, DoneIsQuiet DEF CollectSync
    <3> QED
      BY <1>1, <2>1, <3>1 DEF PixelsFollow, Computes
  <2>3. CASE UNCHANGED histVars
    BY <1>1, <2>1, <2>3 DEF PixelsFollow, ResultIsOfItsFrame
  <2>4. CASE delivered' = Append(delivered, readback)
    <3>1. delivered \in Seq(Result) /\ readback \in Result
      BY <1>1 DEF TypeOK
    <3>2. \A i \in DOMAIN delivered' :
             delivered'[i] = readback \/ (i \in DOMAIN delivered /\ delivered'[i] = delivered[i])
      <4> DEFINE d == delivered'
      <4>1. d = Append(delivered, readback)
        BY <2>4
      <4> HIDE DEF d
      <4>2. \A i \in DOMAIN d : d[i] = readback \/ (i \in DOMAIN delivered /\ d[i] = delivered[i])
        BY <3>1, <4>1, Appended
      <4> QED
        BY <4>2 DEF d
    <3>3. ResultIsOfItsFrame'
      BY <1>1, <2>1, <2>2, <3>2 DEF PixelsFollow, ResultIsOfItsFrame
    <3> QED
      BY <1>1, <2>1, <3>3 DEF PixelsFollow
  <2> QED
    BY <1>21, <2>3, <2>4 DEF CollectSync
<1>22. CASE GpuRetire
  <2>1. queue \in Seq(Item) /\ queue # <<>> /\ queue' = Tail(queue) /\ Head(queue) \in Item
        /\ UNCHANGED <<pc, run, inputGen, ptrGen, gen, upload, delivered>>
    BY <1>22, <1>1 DEF GpuRetire, TypeOK
  <2>2. CASE pc = "syncwait"
    <3> DEFINE h == Head(queue)
    <3>1. upload[0] = run /\ Computes(queue, gen, gpuInput, readback.data, run)
      BY <1>1, <2>2 DEF PixelsFollow
    <3>2. ClosedBy(queue, completed["device"], readback.run, "device", issued["device"], run)
      BY <1>1, <2>2 DEF OInv, WorkIsKnown
    <3>3. completed["device"] \in Nat
      BY <1>1 DEF TypeOK, Fences
    <3>4. /\ h = [op |-> "copy", gen |-> gen, slot |-> 0, run |-> run] => gpuInput' = run
          /\ h.op # "copy" => gpuInput' = gpuInput
          /\ h.op = "list" => readback'.data = gpuInput
          /\ h.op # "list" => readback'.data = readback.data
      BY <1>22, <3>1 DEF GpuRetire
    <3> HIDE DEF h
    <3>5. Computes(queue', gen, gpuInput', readback'.data, run)
      BY <2>1, <3>1, <3>2, <3>3, <3>4, ComputesTail, Zenon DEF h
    <3> QED
      BY <1>1, <2>1, <3>1, <3>5 DEF PixelsFollow, ResultIsOfItsFrame
  <2>3. CASE pc # "syncwait"
    BY <1>1, <2>1, <2>3 DEF PixelsFollow, ResultIsOfItsFrame
  <2> QED
    BY <2>2, <2>3
<1>23. CASE UNCHANGED vars
  BY <1>1, <1>23 DEF vars, PixelsFollow, ResultIsOfItsFrame
<1> QED
  BY <1>4, <1>5, <1>6, <1>7, <1>8, <1>9, <1>10, <1>11, <1>12, <1>13, <1>14, <1>15, <1>16, <1>17,
     <1>18, <1>19, <1>20, <1>21, <1>22, <1>23
  DEF Next, CallerStep, CallStep, FaultStep

\* The pixels those results were computed from.
Pixels == [i \in DOMAIN delivered |-> delivered[i].data]

\* One frame at a time: the pixels are followed from the caller to its result.
THEOREM PixelInvariant ==
  ASSUME ModeStable, InputsOutliveRecordings, ~Buffered
  PROVE  Spec => []DInv
<1>1. Init => DInv
  BY OrderInit DEF Init, DInv, PixelsFollow, ResultIsOfItsFrame
<1>2. DInv /\ [Next]_vars => DInv'
  <2> SUFFICES ASSUME DInv, [Next]_vars PROVE DInv'
    OBVIOUS
  <2>1. OInv'
    BY OrderStep DEF DInv
  <2> QED
    BY <2>1, PixelsNext DEF DInv
<1> QED
  BY <1>1, <1>2, PTL DEF Spec

\* Every result of a synchronous run was computed from that run's pixels.
THEOREM ResultsOfTheirFrames ==
  ASSUME ModeStable, InputsOutliveRecordings, ~Buffered
  PROVE  Spec => []ResultIsOfItsFrame
<1>1. DInv => ResultIsOfItsFrame
  BY DEF DInv, PixelsFollow
<1> QED
  BY <1>1, PixelInvariant, PTL

\* In synchronous mode the caller sees a stream of pixels with no lag at all.
THEOREM SynchronousIsStream ==
  ASSUME ModeStable, InputsOutliveRecordings, ~Buffered
  PROVE  Spec => RefinesDataStream
<1>1. Init => Data!StreamInit
  BY DEF Init, Data!StreamInit, InFlightFrame
<1>2. DInv /\ DInv' /\ [Next]_vars => [Data!StreamNext]_Data!streamVars
  <2> SUFFICES ASSUME DInv, DInv', [Next]_vars
               PROVE  Data!StreamNext \/ UNCHANGED Data!streamVars
    BY Zenon
  <2>1. OInv /\ OInv' /\ ResultIsOfItsFrame /\ ResultIsOfItsFrame'
    BY DEF DInv, PixelsFollow
  <2>2. ~hasInflight /\ ~hasInflight'
    BY <2>1 DEF OInv, ModeHeld
  <2>3. InFlightFrame = <<>> /\ InFlightFrame' = <<>>
    BY <2>2 DEF InFlightFrame
  <2>4. \A i \in DOMAIN delivered : delivered[i].data = delivered[i].run
    BY <2>1 DEF ResultIsOfItsFrame
  <2>5. \A i \in DOMAIN delivered' : delivered'[i].data = delivered'[i].run
    BY <2>1 DEF ResultIsOfItsFrame
  <2>6. Pixels = Runs /\ Pixels' = Runs'
    BY <2>4, <2>5 DEF Pixels, Runs
  <2>7. CASE CollectSync
    <3>1. CASE UNCHANGED Order!streamVars
      BY <2>3, <2>6, <3>1 DEF Order!streamVars, Data!streamVars, Pixels, Runs
    <3>2. ASSUME NEW f \in 1 .. MaxRuns, Order!Answer(f)
          PROVE  Data!Answer(f)
      BY <2>3, <2>6, <3>2 DEF Order!Answer, Order!Fresh, Data!Answer, Data!Fresh, Pixels, Runs
    <3> QED
      BY <2>1, <2>7, <3>1, <3>2, SyncAnswers DEF Data!StreamNext
  <2>8. CASE ~CollectSync
    <3>1. delivered' = delivered
      BY <2>2, <2>8 DEF Next, CallerStep, CallStep, FaultStep, StartRun, GetInputPtr, CallerWrite, StartFlush,
         OverrideConvAlgorithm, Destroy, BeginRecording, DrainInflight, Record, FillUpload,
         NothingInflight, CollectPrevious, CollectFails, WaitSetupFails, SubmitPipelined, SubmitSync,
         SyncWaitSetupFails, GpuRetire, vars, histVars
    <3> QED
      BY <2>3, <3>1 DEF Data!streamVars
  <2> QED
    BY <2>7, <2>8
<1> QED
  BY <1>1, <1>2, PixelInvariant, PTL DEF Spec, RefinesDataStream, Data!StreamSpec
==============================================================================
