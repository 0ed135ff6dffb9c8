---------------------------- MODULE ConvBuilder ----------------------------
(***************************************************************************)
(* The kernel plan engine.py serialises for the convolutions of an engine: *)
(* _stable_conv_algorithm, and what _build_kernel_plan makes of it for a   *)
(* float16 engine.  Convolutions are records as in ConvShapes; the kernel  *)
(* numbers of the engine file are the names of                             *)
(* tileflow_conv_algorithm_name.                                           *)
(***************************************************************************)
EXTENDS ConvShapes

Shape3(d) == <<d.oh, d.ic, d.oc>>

\* The stride-1 maps that have a kernel of their own, then by size.
Stride1Algorithm(d) ==
  CASE Shape3(d) \in {<<40, 64, 64>>, <<40, 128, 64>>} -> "direct_pack4_packedw_pos2"
    [] Shape3(d) \in {<<20, 128, 64>>, <<20, 128, 128>>, <<20, 256, 64>>, <<20, 64, 64>>,
                      <<10, 256, 64>>, <<10, 128, 128>>, <<10, 64, 64>>} -> "winograd_f2x2"
    [] Shape3(d) = <<10, 512, 64>> -> "splitk_10x10_512x64"
    [] Shape3(d) = <<20, 64, 128>> -> "direct_pack4"
    [] d.oh = 10 /\ d.oc = 64 -> "spatial3x3"
    [] d.ic >= 64 /\ d.oc >= 64 /\ Area(d) <= 400 ->
         (CASE d.oh = 20 /\ d.ic % 32 = 0 /\ d.oc % 16 = 0 -> "implicit_gemm_20x20"
            [] Shape3(d) = <<10, 256, 256>> -> "winograd_f2x2_fp32_accum"
            [] d.oh = 10 /\ d.ic % 32 = 0 /\ d.oc % 16 = 0 -> "implicit_gemm_10x10"
            [] OTHER -> "implicit_gemm")
    [] OTHER -> IF d.oc >= 4 /\ Area(d) >= 100 THEN "spatial3x3_pack4" ELSE "spatial3x3"

Stride2Algorithm(d) ==
  CASE Shape3(d) \in {<<160, 3, 16>>, <<80, 16, 32>>} -> "stride2_direct_pack4"
    [] Shape3(d) = <<40, 128, 128>> -> "stride2_direct_pack4_packedw_pos2"
    [] Shape3(d) = <<20, 256, 256>> -> "stride2_direct_pack4_packedw"
    [] d.ic >= 32 /\ d.oc >= 64 /\ Area(d) >= 100 -> "stride2_direct_pack4"
    [] OTHER -> "generic"

\* Square maps only: Shape3 stands for both of a map's sides.
_stable_conv_algorithm(d, silu) ==
  CASE is_conv1x1_fast_path(d) -> "conv1x1"
    [] silu /\ Plain(d, 6, 2, 2) /\ Is(d, 160, 3, 32) /\ d.ih = 320 ->
         "stride2_direct_pack4_6x6"
    [] silu /\ is_conv3x3_stride2_tiled_fast_path(d) -> Stride2Algorithm(d)
    [] silu /\ is_conv3x3_tiled_fast_path(d) -> Stride1Algorithm(d)
    [] OTHER -> "generic"

-----------------------------------------------------------------------------
(* What a float16 engine takes instead. *)

\* Mutant: any 1x1 convolution.
_uses_native_fp16_conv1x1_Any(d) == is_conv1x1_fast_path(d) /\ d.n = 1
_uses_native_fp16_conv1x1(d) ==
  /\ is_conv1x1_fast_path(d) /\ d.n = 1
  /\ Shape3(d) \in {<<40, 64, 64>>, <<40, 64, 128>>, <<40, 128, 128>>, <<40, 256, 64>>,
                    <<20, 128, 128>>, <<20, 128, 64>>, <<20, 256, 128>>, <<20, 256, 256>>,
                    <<20, 384, 256>>, <<20, 512, 128>>, <<10, 512, 512>>, <<10, 256, 256>>}
_uses_measured_native_fp16(d) ==
  /\ is_conv3x3_stride2_tiled_fast_path(d) /\ d.ic >= 32 /\ d.ic % 4 = 0 /\ d.oc % 4 = 0
  /\ Measured(d)
_uses_native_fp16_winograd(d) ==
  Plain(d, 3, 1, 1) /\ d.ic % 32 = 0 /\ d.oh % 2 = 0 /\ d.ow % 2 = 0

Fp16Algorithm(d, silu) ==
  CASE _uses_native_fp16_conv1x1(d) -> "native_fp16_conv1x1_oc8_pos2"
    [] silu /\ PairShape(d) -> "stride2_native_fp16_position_pair_40x40_256x256"
    [] silu /\ is_conv3x3_tiled_fast_path(d) /\ Is(d, 40, 64, 64) ->
         "native_fp16_packedw_pos2_40x40_64x64"
    [] silu /\ _uses_measured_native_fp16(d) -> "stride2_native_fp16_packedw"
    [] OTHER -> _stable_conv_algorithm(d, silu)

\* A command as the recorder finds it.  `native' is the half-precision
\* Winograd request, `packed' says that the engine carries the weights in the
\* planned kernel's own layout; in16 and out16 say that the activation is
\* stored as halves.
Command(d, silu, source, planned, native, packed, in16, out16, pergroup) ==
  [d |-> d, silu |-> silu, source |-> source, planned |-> planned, native |-> native,
   packed |-> packed, in16 |-> in16, out16 |-> out16, pergroup |-> pergroup]

Unplanned(d, silu) ==
  Command(d, silu, "unplanned", "none", FALSE, FALSE, FALSE, FALSE, FALSE)
BuiltFp32(d, silu) ==
  Command(d, silu, "built", _stable_conv_algorithm(d, silu), FALSE, FALSE,
          FALSE, FALSE, FALSE)

\* Activations stored as halves are planned for these kernels only
\* (supported_conv_kernels of the activation pass).
HalfStorageKernels ==
  {"conv1x1", "stride2_direct_pack4", "stride2_direct_pack4_packedw_pos2",
   "direct_pack4_packedw_pos2", "winograd_f2x2", "stride2_native_fp16_packedw",
   "native_fp16_packedw_pos2_40x40_64x64", "native_fp16_conv1x1_oc8_pos2",
   "stride2_native_fp16_position_pair_40x40_256x256", "int8_dot4_conv1x1",
   "int8_dot4_conv3x3", "int8_dot4_conv3x3_stride2", "winograd_f4x4"}
BuiltFp16(d, silu, in16, out16) ==
  LET a == Fp16Algorithm(d, silu)
      winograd == a \in {"winograd_f2x2", "winograd_f2x2_fp32_accum"}
      half == a \in HalfStorageKernels
  IN Command(d, silu, "built", a, winograd /\ _uses_native_fp16_winograd(d), TRUE,
             in16 /\ half, out16 /\ half, FALSE)

\* A kernel from an algorithm map: any but the Winograd ones, here one of
\* those that the recorder checks against the convolution.  A float16 engine
\* packs the weights for it.
MappedKernels == HalfStorageKernels \ {"winograd_f2x2", "stride2_direct_pack4",
  "stride2_direct_pack4_packedw_pos2", "direct_pack4_packedw_pos2"}
Mapped(d, silu, a, fp16Engine, half, pergroup) ==
  Command(d, silu, "mapped", a, FALSE, fp16Engine,
          fp16Engine /\ half, fp16Engine /\ half, pergroup)

\* A kernel from the map of an algorithm goes to a convolution of its family;
\* the map may have been measured on another device.
Suits(x, silu, a) ==
  CASE a = "conv1x1" -> is_conv1x1_fast_path(x)
    [] a = "int8_dot4_conv1x1" -> is_conv1x1_fast_path(x) /\ x.ic % 4 = 0 /\ x.oc % 8 = 0
    [] a = "int8_dot4_conv3x3" ->
         is_conv3x3_tiled_fast_path(x) /\ x.ic % 4 = 0 /\ x.oc % 4 = 0
    [] a \in {"int8_dot4_conv3x3_stride2", "stride2_native_fp16_packedw"} ->
         is_conv3x3_stride2_tiled_fast_path(x) /\ x.ic % 4 = 0 /\ x.oc % 4 = 0
    [] a = "winograd_f4x4" -> silu /\ F4x4(x)
    [] a = "stride2_native_fp16_position_pair_40x40_256x256" -> silu /\ PairShape(x)
    [] a = "native_fp16_packedw_pos2_40x40_64x64" ->
         silu /\ is_conv3x3_tiled_fast_path(x) /\ Is(x, 40, 64, 64)
    [] a = "native_fp16_conv1x1_oc8_pos2" ->
         /\ is_conv1x1_fast_path(x) /\ x.n = 1 /\ x.oh \in {10, 20, 40}
         /\ x.ic >= 64 /\ x.oc >= 64 /\ x.ic % 4 = 0 /\ x.oc % 8 = 0

\* A kernel set through aexrt_yolo_override_conv_algorithm.
Overridden(d, silu, a) ==
  Command(d, silu, "candidate", a, FALSE, FALSE, FALSE, FALSE, FALSE)

=============================================================================
