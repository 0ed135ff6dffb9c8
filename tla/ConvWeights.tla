---------------------------- MODULE ConvWeights ----------------------------
(***************************************************************************)
(* The weight buffers the recorder makes for its kernels: one operator per *)
(* ensure_..._weight function, the condition under which it returns a      *)
(* buffer when the allocation, the upload and the transition succeed.  The *)
(* weight is a constant of the engine; a buffer that exists is returned as *)
(* it is (`packs' in ConvDispatch).                                        *)
(*                                                                         *)
(* Orders, as in ConvKernels, outermost index first:                       *)
(*   oihw    as imported     oc4   groups of 4 channels, ic, tap, lane     *)
(*   k4      ic, tap, groups of 4, lane         oc8   groups of 8, ic, lane*)
(*   wino16  oc, ic and the 16 points of F(2x2)  wino36  the 36 of F(4x4)  *)
(*   oi8     oc, words of 4 ic                  oki8  oc, tap, words of 4  *)
(***************************************************************************)
EXTENDS ConvBuilder

Buffer(fits, order, bytes) == [fits |-> fits, order |-> order, bytes |-> bytes]

\* Repacked on the host from the imported weights unless the engine has them.
stride2_direct_pack4_packed_weight(c) ==
  Buffer(c.d.g = 1 /\ c.d.oc % 4 = 0, "oc4", 4)
native_fp16_packed_weight(c) ==
  Buffer(device.fp16 /\ c.d.g = 1 /\ c.d.ic % 4 = 0 /\ c.d.oc % 4 = 0, "oc4", 2)
winograd_f2x2_weight(c) == Buffer(c.d.g = 1 /\ c.d.k = 3, "wino16", 4)
winograd_f4x4_fp16_weight(c) == Buffer(F4x4(c.d), "wino36", 2)
\* One scale per output channel; the layout is that of the kernel.
conv_int8_weight(c) ==
  Buffer(/\ c.d.g = 1 /\ c.d.ic % 4 = 0 /\ c.d.oc % 4 = 0
         /\ c.d.k = 1 => c.d.oc % 8 = 0, IF c.d.k = 1 THEN "oi8" ELSE "oki8", 1)

\* Only from the packed weights of the engine.
engine_conv3x3_k_major_oc4_fp16_weight(c) ==
  Buffer(c.packed /\ device.fp16 /\ (PairShape(c.d) \/ QuartetShape(c.d)), "k4", 2)
engine_conv3x3_k_major_oc4_fp32_weight(c) ==
  Buffer(c.packed /\ QuartetShape(c.d), "k4", 4)
engine_winograd_f2x2_fp16_weight(c) ==
  Buffer(/\ c.packed /\ c.d.ic % 32 = 0 /\ SameMap(c.d) /\ Plain(c.d, 3, 1, 1)
         /\ c.d.oh % 2 = 0 /\ c.d.ow % 2 = 0, "wino16", 2)
engine_conv1x1_oc8_fp16_weight(c) ==
  Buffer(/\ c.packed /\ c.d.ic >= 64 /\ c.d.oc >= 64 /\ c.d.ic % 4 = 0 /\ c.d.oc % 8 = 0,
         "oc8", 2)

=============================================================================
