------------------------------- MODULE Detections -------------------------------
(***************************************************************************)
(* What the post-processing of a YOLO model promises: each output of the   *)
(* network that is shown is answered with detections permitted for it and  *)
(* for no other.                                                           *)
(***************************************************************************)
EXTENDS YoloBoxes

CONSTANT Outputs   \* the outputs the network may make

VARIABLES
  output,  \* the output of the frame
  asked,   \* max_detections of the call
  answer   \* [done, detections]

Waiting     == [done |-> FALSE, detections |-> <<>>]
Answered(d) == [done |-> TRUE, detections |-> d]

Init == output = <<>> /\ asked = 0 /\ answer = Answered(<<>>)

Show ==
  /\ answer.done
  /\ output' \in Outputs /\ asked' \in Nat \ {0} /\ answer' = Waiting

Detect ==
  /\ ~answer.done /\ answer'.done
  /\ \E d \in Permitted(output, asked) : answer' = Answered(d)
  /\ UNCHANGED <<output, asked>>

\* Every frame is answered.
Spec ==
  /\ Init /\ [][Show \/ Detect]_<<output, asked, answer>>
  /\ (~answer.done) ~> answer.done
================================================================================
