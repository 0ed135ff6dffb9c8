---------------------------- MODULE ReplaySemantics ----------------------------
(***************************************************************************)
(* What replaying an engine promises, whatever the arena, the barriers and *)
(* the queues: in every frame the input is copied, every kernel runs once, *)
(* after the kernels that produce what it reads, and the head runs on the  *)
(* output; the next frame starts when all are done.                        *)
(***************************************************************************)
EXTENDS ReplayGraph

CONSTANT Programs

VARIABLES program, frame, ran

InputCopy    == 0
HeadOf(p)    == Len(p.plan) + 1
FusedHead(p) == \E d \in Dispatches(p) : p.plan[d].fusion = 4

\* The kernels of a frame: the copy, the dispatches that run one, the head.
Kernels(p) ==
  {InputCopy} \cup {d \in Dispatches(p) : Material(p, d) # {}} \cup
  (IF FusedHead(p) THEN {} ELSE {HeadOf(p)})

MakerOf(p, v) == IF v = p.input THEN {InputCopy} ELSE Producers(p, v)

\* The kernels whose results kernel k reads.
Needs(p, k) ==
  CASE k = InputCopy -> {}
    [] k = HeadOf(p) -> MakerOf(p, Canonical(p)[p.output])
    [] OTHER         -> UNION {MakerOf(p, v) : v \in External(p, k)}

Init == program \in Programs /\ frame = 0 /\ ran = {}

NextFrame ==
  /\ frame = 0 \/ ran = Kernels(program)
  /\ frame' = frame + 1 /\ ran' = {}
  /\ UNCHANGED program

RunKernel ==
  /\ frame > 0
  /\ \E k \in Kernels(program) \ ran :
       Needs(program, k) \subseteq ran /\ ran' = ran \cup {k}
  /\ UNCHANGED <<program, frame>>

Spec == Init /\ [][NextFrame \/ RunKernel]_<<program, frame, ran>>

================================================================================
