----------------------------- MODULE FrameStream -----------------------------
(***************************************************************************)
(* What a caller of aexrt_yolo_run may rely on, whatever the number of     *)
(* pipeline slots behind it: results come back in the order in which the   *)
(* frames were accepted, each at most once, and at most Lag frames are     *)
(* accepted and not yet delivered (src/native/aexrt_d3d12_runtime.cpp      *)
(* 688-693: "the result returned is the previous frame's, order is FIFO"). *)
(***************************************************************************)
EXTENDS Naturals, Sequences

CONSTANTS
  Frames,   \* the frames a caller may bring, numbered in order
  Lag,     \* how many accepted frames may be without a result: 0 or 1
  MayDrop  \* whether an accepted frame may lose its result

VARIABLES
  outstanding,  \* accepted frames without a result, oldest first
  delivered     \* frames whose results the caller has received, in order

streamVars == <<outstanding, delivered>>

\* A frame is newer than every frame the stream still knows of.
Fresh(f) ==
  /\ \A i \in DOMAIN outstanding : outstanding[i] < f
  /\ \A i \in DOMAIN delivered : delivered[i] < f

StreamInit == outstanding = <<>> /\ delivered = <<>>

Accept(f) ==
  /\ Len(outstanding) < Lag
  /\ Fresh(f)
  /\ outstanding' = Append(outstanding, f)
  /\ UNCHANGED delivered

Deliver ==
  /\ outstanding # <<>>
  /\ delivered' = Append(delivered, Head(outstanding))
  /\ outstanding' = Tail(outstanding)

\* The synchronous call: accepted and answered in one return.
Answer(f) ==
  /\ outstanding = <<>>
  /\ Fresh(f)
  /\ delivered' = Append(delivered, f)
  /\ UNCHANGED outstanding

Drop ==
  /\ MayDrop
  /\ outstanding # <<>>
  /\ outstanding' = Tail(outstanding)
  /\ UNCHANGED delivered

StreamNext ==
  \/ \E f \in Frames : Accept(f) \/ Answer(f)
  \/ Deliver
  \/ Drop

StreamSpec == StreamInit /\ [][StreamNext]_streamVars
==============================================================================
