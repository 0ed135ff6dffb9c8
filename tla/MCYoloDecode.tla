------------------------------ MODULE MCYoloDecode ------------------------------
(* Room for three candidates and two detections; boxes on a line, two classes.  *)
EXTENDS YoloDecode

At(x1, x2, s0, s1) ==
  [box |-> [x1 |-> x1, x2 |-> x2, y1 |-> 0, y2 |-> 10], scores |-> <<s0, s1>>]

MCHeads ==
  { \* the second overlaps both others, which do not overlap
    << <<At(0, 10, 90, 10), At(3, 13, 80, 0), At(6, 16, 70, 0), At(40, 50, 5, 20)>>, <<>>, <<>> >>,
    \* four candidates, one of another class at the place of the best
    << <<At(0, 10, 60, 0), At(1, 11, 90, 0)>>, <<At(1, 11, 0, 70)>>, <<At(30, 40, 80, 0)>> >>,
    \* equal scores, on one object and apart, and equal classes
    << <<At(0, 10, 50, 50), At(1, 11, 50, 0), At(30, 40, 50, 0)>>, <<>>, <<>> >>,
    \* more objects than detections, two of which share as much as they may
    << <<At(0, 9, 70, 0)>>, <<At(30, 40, 0, 80)>>, <<At(5, 10, 90, 0)>> >>,
    \* an object seen twice and one behind it
    << <<At(0, 10, 80, 30), At(1, 11, 90, 0)>>, <<>>, <<At(1, 11, 0, 70)>> >>,
    \* nothing to detect
    << <<At(0, 10, 10, 24)>>, <<>>, <<>> >> }

MCAsked == {1, 5}
================================================================================
