------------------------------- MODULE YoloBoxes -------------------------------
(***************************************************************************)
(* Boxes out of the output of a YOLO network: what an anchor is decoded    *)
(* to, which boxes count as one object, the class-wise non-maximum         *)
(* suppression the GPU promises, and the greedy one of the CPU.            *)
(*                                                                         *)
(* An output gives each anchor [box, scores]: the corners of its box and   *)
(* the score of each class, objectness multiplied in.  Thresholds are in   *)
(* percent.  A candidate is [box, score, cls].                             *)
(***************************************************************************)
EXTENDS Integers, Sequences, FiniteSets, SequencesExt, FiniteSetsExt

CONSTANTS
  conf_threshold,  \* the least score of a candidate
  iou_threshold,   \* the most two boxes of different objects share
  max_candidates,  \* room for candidates
  max_detections   \* room for detections

ASSUME BoxesAssumption ==
  /\ conf_threshold \in Nat /\ iou_threshold \in 1 .. 100
  /\ max_candidates \in Nat \ {0} /\ max_detections \in Nat \ {0}

\* The first of the best classes: s > best in the loop over the classes.
Decoded(anchor) ==
  LET best == Max(Range(anchor.scores))
  IN  [box |-> anchor.box, score |-> best,
       cls |-> Min({c \in DOMAIN anchor.scores : anchor.scores[c] = best})]

\* The anchors that become candidates.
Passing(output) == {a \in DOMAIN output : Decoded(output[a]).score >= conf_threshold}

Length(from, to) == Max({0, to - from})

Area(b) == Length(b.x1, b.x2) * Length(b.y1, b.y2)

Intersection(a, b) ==
  Length(Max({a.x1, b.x1}), Min({a.x2, b.x2})) * Length(Max({a.y1, b.y1}), Min({a.y2, b.y2}))

\* box_iou(a, b) > iou_threshold; boxes without an area share nothing.
Overlap(a, b) ==
  LET inter == Intersection(a, b)
  IN  100 * inter > iou_threshold * (Area(a) + Area(b) - inter)

\* Two candidates for one object.
SameObject(x, y) == x.cls = y.cls /\ Overlap(x.box, y.box)

------------------------------------------------------------------------------
(* What the GPU promises.                                                     *)

\* Of candidates in the order s of their scores, those for which none before is
\* of the same object, whether or not that one is kept itself.
Kept(s) == {i \in DOMAIN s : \A j \in 1 .. i - 1 : ~SameObject(s[j], s[i])}

\* The first of them, as many as are asked for and there is room for.
Best(s, asked) ==
  LET kept == SetToSortSeq(Kept(s), <)
  IN  [r \in 1 .. Min({Len(kept), max_detections, asked}) |-> s[kept[r]]]

\* The anchors of A in the orders of their scores, the best first.
Orders(output, A) ==
  {s \in SetToSeqs(A) : \A i, j \in DOMAIN s :
     i < j => Decoded(output[s[i]]).score >= Decoded(output[s[j]]).score}

CandidatesOf(output, s) == [i \in DOMAIN s |-> Decoded(output[s[i]])]

\* Which candidates find room, and which of two equal scores counts as higher,
\* is decided by the threads of the GPU.
Permitted(output, asked) ==
  LET passing == Passing(output)
      room    == Min({Cardinality(passing), max_candidates})
  IN  {Best(CandidatesOf(output, s), asked) :
         s \in UNION {Orders(output, A) : A \in kSubset(room, passing)}}

------------------------------------------------------------------------------
(* The CPU.                                                                   *)

\* stable_sort of the anchors A by score.
Stable(output, A) ==
  LET score(a) == Decoded(output[a]).score
  IN  SetToSortSeq(A, LAMBDA a, b : score(a) > score(b) \/ (score(a) = score(b) /\ a < b))

\* The first max_candidates anchors that pass, best first, each kept unless one
\* kept before is of the same object, until as many are kept as were asked for.
run_yolo_output0_postprocess(output, asked) ==
  LET anchors == SetToSortSeq(Passing(output), <)
      first   == {anchors[i] : i \in 1 .. Min({Len(anchors), max_candidates})}
      keep(kept, c) ==
        IF Len(kept) >= asked \/ \E k \in Range(kept) : SameObject(k, c) THEN kept ELSE Append(kept, c)
  IN  FoldLeft(keep, <<>>, CandidatesOf(output, Stable(output, first)))

\* No candidate stands between two that do not overlap.
NoChains(output) ==
  LET D == {Decoded(output[a]) : a \in Passing(output)}
  IN  \A x, y, z \in D :
        (x.score > y.score /\ y.score > z.score /\ SameObject(x, y) /\ SameObject(y, z))
          => SameObject(x, z)

ScoresDiffer(output) ==
  \A a, b \in Passing(output) : a # b => Decoded(output[a]).score # Decoded(output[b]).score
================================================================================
