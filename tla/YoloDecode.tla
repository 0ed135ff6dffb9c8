------------------------------- MODULE YoloDecode -------------------------------
(***************************************************************************)
(* The post-processing of a YOLO model on the GPU: the end of the command  *)
(* list of every frame.  Three dispatches turn the output of the network   *)
(* into detections: decode claims room for every candidate with an atomic  *)
(* counter, mark flags the candidates to keep, topk ranks them.  Between   *)
(* them only barriers keep the threads of one dispatch from those of the   *)
(* next, and the buffers hold what the frame before left in them.          *)
(*                                                                         *)
(* The list is recorded once and executed for every frame.  A barrier on a *)
(* buffer waits for the running threads that use the buffer, not for       *)
(* others; a command or thread that finds a buffer in another state than   *)
(* it needs makes the frame's result garbage.                              *)
(***************************************************************************)
EXTENDS YoloBoxes

CONSTANTS
  Heads,      \* what the network may make: the anchors [box, scores] of its three scales
  Asked,      \* what callers pass for max_detections
  MaxFrames   \* bound: frames

ASSUME DecodeAssumption == Asked \subseteq Nat \ {0} /\ MaxFrames \in Nat

Buffers == {"candidates", "candidate_counter", "keep", "detections", "detection_counter"}
Slots   == 0 .. max_candidates - 1
Nothing == [score |-> -1]
Garbage == <<Nothing>>

VARIABLES
  heads, asked, answer,  \* the frame's heads, the call's max_detections, what it returned
  next,                  \* the next command of the list
  running,               \* threads: [kernel, of, slot]
  gpu,                   \* the states of the buffers
  candidates, candidate_counter, keep, detections, detection_counter,
  readback,              \* [count, detections]
  garbage,               \* whether a command or thread found a buffer in a wrong state
  frames                 \* frames so far

call   == <<heads, asked, answer>>
memory == <<candidates, candidate_counter, keep, detections, detection_counter>>
vars   == <<call, next, running, gpu, memory, readback, garbage, frames>>

\* The anchors of all scales in a row, as in the output of a network whose heads
\* were not fused into the decoding (it has one scale only).
Flat(h) == h[1] \o h[2] \o h[3]
Outputs == {Flat(h) : h \in Heads}
output  == Flat(heads)

Waiting     == [done |-> FALSE, detections |-> <<>>]
Answered(d) == [done |-> TRUE, detections |-> d]

------------------------------------------------------------------------------
(* The list                                                                   *)

\* Steps of the recording: a state a buffer is wanted in, and commands.
Want(b, s)  == [op |-> "want", on |-> b, state |-> s]
Zero(b)     == [op |-> "zero", on |-> b]
Sync(b)     == [op |-> "uav", on |-> b]
Dispatch(k) == [op |-> "dispatch", on |-> k]
Read(b)     == [op |-> "read", on |-> b]

\* How each kernel uses the buffers.
Uses ==
  "decode" :> ("candidates" :> "UAV" @@ "candidate_counter" :> "UAV")
  @@ "mark" :> ("candidates" :> "SRV" @@ "candidate_counter" :> "SRV" @@ "keep" :> "UAV")
  @@ "topk" :> ("candidates" :> "SRV" @@ "candidate_counter" :> "SRV" @@ "keep" :> "SRV"
                @@ "detections" :> "UAV" @@ "detection_counter" :> "UAV")

\* (mutant of record_zero: the second counter is left as it was)
record_zero_once ==
  <<Want("candidate_counter", "COPY_DEST"), Zero("candidate_counter")>>

record_zero ==
  <<Want("candidate_counter", "COPY_DEST"), Want("detection_counter", "COPY_DEST"),
    Zero("candidate_counter"), Zero("detection_counter")>>

record_decode ==
  <<Want("candidates", "UAV"), Want("candidate_counter", "UAV"), Dispatch("decode"),
    Sync("candidates"), Sync("candidate_counter")>>

record_mark ==
  <<Want("candidates", "SRV"), Want("candidate_counter", "SRV"), Want("keep", "UAV"),
    Dispatch("mark"), Sync("keep"), Want("keep", "SRV")>>

record_topk ==
  <<Want("detections", "UAV"), Want("detection_counter", "UAV"), Dispatch("topk"),
    Sync("detections"), Sync("detection_counter")>>

record_readback ==
  <<Want("detection_counter", "COPY_SOURCE"), Read("detection_counter"),
    Want("detections", "COPY_SOURCE"), Read("detections")>>

record_reset ==
  <<Want("candidates", "COMMON"), Want("candidate_counter", "COMMON"), Want("keep", "COMMON"),
    Want("detections", "COMMON"), Want("detection_counter", "COMMON")>>

\* transition_plain_buffer: a barrier from the tracked state, unless it is that already.
Recorded(r, step) ==
  IF step.op # "want" THEN [r EXCEPT !.list = Append(@, step)]
  ELSE IF r.state[step.on] = step.state THEN r
  ELSE [state |-> [r.state EXCEPT ![step.on] = step.state],
        list  |-> Append(r.list, [op |-> "transition", on |-> step.on,
                                  from |-> r.state[step.on], to |-> step.state])]

list ==
  FoldLeft(Recorded, [state |-> [b \in Buffers |-> "COMMON"], list |-> <<>>],
           record_zero \o record_decode \o record_mark \o record_topk
           \o record_readback \o record_reset).list

------------------------------------------------------------------------------
Init ==
  /\ heads = <<<<>>, <<>>, <<>>>> /\ asked = 0 /\ answer = Answered(<<>>)
  /\ next = Len(list) + 1 /\ running = {} /\ garbage = FALSE /\ frames = 0
  /\ gpu = [b \in Buffers |-> "COMMON"]
  /\ candidates = [i \in Slots |-> Nothing] /\ candidate_counter = 0
  /\ keep = [i \in Slots |-> FALSE]
  /\ detections = [i \in 0 .. max_detections - 1 |-> Nothing] /\ detection_counter = 0
  /\ readback = [count |-> 0, detections |-> detections]

\* A frame is submitted; the network has written its output when the list gets here.
Frame(h, n) ==
  /\ answer.done /\ frames < MaxFrames
  /\ frames' = frames + 1 /\ heads' = h /\ asked' = n /\ answer' = Waiting /\ next' = 1
  /\ UNCHANGED <<running, gpu, memory, readback, garbage>>

\* collect_prepared_yolo_results, after the fence.
Collect ==
  /\ ~answer.done /\ next > Len(list) /\ running = {}
  /\ LET cap == Min({readback.count, asked, max_detections})
     IN  answer' = Answered(IF garbage THEN Garbage
                            ELSE [i \in 1 .. cap |-> readback.detections[i - 1]])
  /\ UNCHANGED <<heads, asked, next, running, gpu, memory, readback, garbage, frames>>

------------------------------------------------------------------------------
(* Commands                                                                   *)

Command(op) == next <= Len(list) /\ list[next].op = op /\ next' = next + 1

\* No running thread uses the buffer of the next command.
Drained == \A t \in running : list[next].on \notin DOMAIN Uses[t.kernel]

Transition ==
  /\ Command("transition") /\ Drained
  /\ gpu' = [gpu EXCEPT ![list[next].on] = list[next].to]
  /\ garbage' = (garbage \/ gpu[list[next].on] # list[next].from)
  /\ UNCHANGED <<call, running, memory, readback, frames>>

UavBarrier ==
  /\ Command("uav") /\ Drained
  /\ UNCHANGED <<call, running, gpu, memory, readback, garbage, frames>>

\* CopyBufferRegion from the heap of zeros.
CopyZero ==
  /\ Command("zero")
  /\ garbage' = (garbage \/ gpu[list[next].on] # "COPY_DEST")
  /\ candidate_counter' = IF list[next].on = "candidate_counter" THEN 0 ELSE candidate_counter
  /\ detection_counter' = IF list[next].on = "detection_counter" THEN 0 ELSE detection_counter
  /\ UNCHANGED <<call, running, gpu, candidates, keep, detections, readback, frames>>

CopyBack ==
  /\ Command("read")
  /\ garbage' = (garbage \/ gpu[list[next].on] # "COPY_SOURCE")
  /\ readback' = IF list[next].on = "detections" THEN [readback EXCEPT !.detections = detections]
                 ELSE [readback EXCEPT !.count = detection_counter]
  /\ UNCHANGED <<call, running, gpu, memory, frames>>

\* Threads past the anchors or the room for candidates return at once.
ThreadsOf(kernel) ==
  {[kernel |-> kernel, of |-> i, slot |-> -1] :
     i \in IF kernel = "decode" THEN 0 .. Len(output) - 1 ELSE Slots}

Start ==
  /\ Command("dispatch")
  /\ running' = running \cup ThreadsOf(list[next].on)
  /\ garbage' = (garbage \/ \E b \in DOMAIN Uses[list[next].on] : gpu[b] # Uses[list[next].on][b])
  /\ UNCHANGED <<call, gpu, memory, readback, frames>>

------------------------------------------------------------------------------
(* Threads                                                                    *)

\* The anchor of thread a: its scale and its position there.
Anchor(a) ==
  LET p0 == Len(heads[1])
      p1 == Len(heads[2])
  IN  IF a >= p0 + p1 THEN heads[3][a - p0 - p1 + 1]
      ELSE IF a >= p0 THEN heads[2][a - p0 + 1]
      ELSE heads[1][a + 1]

\* decode: an anchor below the threshold ends, another claims a slot.
Claim(t) ==
  /\ t.kernel = "decode" /\ t.slot = -1
  /\ IF Decoded(Anchor(t.of)).score < conf_threshold
     THEN running' = running \ {t} /\ UNCHANGED candidate_counter
     ELSE /\ candidate_counter' = candidate_counter + 1
          /\ running' = (running \ {t}) \cup
               IF candidate_counter >= max_candidates THEN {}
               ELSE {[t EXCEPT !.slot = candidate_counter]}
  /\ UNCHANGED <<call, next, gpu, candidates, keep, detections, detection_counter,
                 readback, garbage, frames>>

\* decode: box, score and class into the slot.
WriteCandidate(t) ==
  /\ t.kernel = "decode" /\ t.slot >= 0
  /\ candidates' = [candidates EXCEPT ![t.slot] = Decoded(Anchor(t.of))]
  /\ running' = running \ {t}
  /\ UNCHANGED <<call, next, gpu, candidate_counter, keep, detections, detection_counter,
                 readback, garbage, frames>>

count == Min({candidate_counter, max_candidates})

\* Candidate j goes before candidate i.
Higher(j, i) ==
  \/ candidates[j].score > candidates[i].score
  \/ candidates[j].score = candidates[i].score /\ j < i

Others(i) == (0 .. count - 1) \ {i}

Mark(t) ==
  /\ t.kernel = "mark"
  /\ keep' = [keep EXCEPT ![t.of] =
       /\ t.of < count
       /\ ~\E j \in Others(t.of) : SameObject(candidates[j], candidates[t.of]) /\ Higher(j, t.of)]
  /\ running' = running \ {t}
  /\ UNCHANGED <<call, next, gpu, candidates, candidate_counter, detections, detection_counter,
                 readback, garbage, frames>>

\* (mutant of Rank: suppressed candidates take places)
Rank_All(i) == Cardinality({j \in Others(i) : Higher(j, i)})

Rank(i) == Cardinality({j \in Others(i) : keep[j] /\ Higher(j, i)})

\* InterlockedMax of the counter, and the candidate to the place of its rank.
Place(t) ==
  /\ t.kernel = "topk"
  /\ IF t.of < count /\ keep[t.of]
     THEN LET rank == Rank(t.of)
          IN  /\ detection_counter' = Max({detection_counter, Min({rank + 1, max_detections})})
              /\ detections' = [r \in DOMAIN detections |->
                                  IF r = rank THEN candidates[t.of] ELSE detections[r]]
     ELSE UNCHANGED <<detections, detection_counter>>
  /\ running' = running \ {t}
  /\ UNCHANGED <<call, next, gpu, candidates, candidate_counter, keep, readback, garbage, frames>>

Gpu ==
  \/ Transition \/ UavBarrier \/ CopyZero \/ CopyBack \/ Start
  \/ \E t \in running : Claim(t) \/ WriteCandidate(t) \/ Mark(t) \/ Place(t)

Next ==
  \/ \E h \in Heads, n \in Asked : Frame(h, n)
  \/ Gpu
  \/ Collect

\* The queue works on what it is given and the caller collects what is done.
Spec == Init /\ [][Next]_vars /\ WF_vars(Gpu) /\ WF_vars(Collect)

------------------------------------------------------------------------------
(* Properties                                                                 *)

\* Every frame is answered with the best candidates of its own output, of which
\* no two are of the same object, whatever the order in which the threads run
\* and whatever earlier frames left in the buffers: which candidates are
\* considered is open only if there are more than there is room for, and their
\* order only where scores are equal.
Promise == INSTANCE Detections

RefinesDetections == Promise!Spec

\* The GPU and run_yolo_output0_postprocess, the CPU's post-processing of the
\* same output, agree where candidates fit and scores differ: what the GPU
\* returns the CPU keeps, and they return the same unless a box that is
\* suppressed overlaps a third one.
AgreesWithCpu ==
  answer.done /\ output # <<>> /\ Cardinality(Passing(output)) <= max_candidates /\ ScoresDiffer(output) =>
    /\ Range(answer.detections) \subseteq
         Range(run_yolo_output0_postprocess(output, Cardinality(Passing(output))))
    /\ NoChains(output) =>
         answer.detections = run_yolo_output0_postprocess(output, Min({asked, max_detections}))

\* What "class-wise NMS" is taken to mean elsewhere (yolo.py, _nms): the greedy
\* answer.  It fails where a suppressed box overlaps a third one.
GreedyAnswer ==
  answer.done /\ output # <<>> /\ Cardinality(Passing(output)) <= max_candidates /\ ScoresDiffer(output) =>
    answer.detections = run_yolo_output0_postprocess(output, Min({asked, max_detections}))
================================================================================
