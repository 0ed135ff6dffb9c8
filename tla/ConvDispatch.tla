---------------------------- MODULE ConvDispatch ----------------------------
(***************************************************************************)
(* record_replay_conv: how aexrt_d3d12_runtime.cpp records one             *)
(* convolution.  It takes an algorithm (ConvShapes), compiles its pipeline *)
(* or one it falls back to, makes the weight buffer that the pipeline      *)
(* reads (ConvWeights) or falls back once more, and records dispatches     *)
(* whose grids it computes from the convolution (ConvKernels).  A compile, *)
(* an upload or an allocation may fail at any point where the code tests   *)
(* for it.                                                                 *)
(*                                                                         *)
(*   command    the command of the engine, see ConvBuilder                 *)
(*   stage      where the recording is                                     *)
(*   chain      the pipelines still to try, the current one first          *)
(*   wanted     which weights the current pipeline gets: its "own", the    *)
(*              "original" ones or those packed by four channels ("oc4")   *)
(*   bound      order and element size of the weight view                  *)
(*   packs      weight buffers made so far, kept by the engine             *)
(*   failed     something has failed                                       *)
(*   commands   the dispatches recorded                                    *)
(***************************************************************************)
EXTENDS ConvWeights

CONSTANTS
  Settings,   \* pairs of a command and the environment switches set
  Devices     \* records [fp16, int8]


VARIABLES command, stage, chain, wanted, bound, packs, failed, commands

vars == <<env, device, command, stage, chain, wanted, bound, packs, failed, commands>>

c == command
d == command.d
\* The convolution of a concatenation is recorded in ConcatConv.
Concat == "branches" \in DOMAIN d
Io == command.in16 \/ command.out16
Pipeline == Head(chain)

Stages == {"choose", "compile", "weights", "record", "recorded", "refused"}

\* The view of a buffer: halves in fours, or one element at a time unless the
\* host makes a float4 view of it.
View(order, elem) == [order |-> order, elem |-> elem]
Original == View("oihw", 4)
Float4(buffer) == View(buffer.order, 16)
Scalar(buffer) == View(buffer.order, 4)
Uint2(buffer)  == View(buffer.order, 8)
Float4Weight == stride2_direct_pack4_packed_weight(command)

-----------------------------------------------------------------------------
(* The pipelines tried for an algorithm, in order.  `routed' says that the  *)
(* weights were packed by four channels for a better kernel.                *)

Unless(flag, pipelines) == IF Forced(flag) THEN <<>> ELSE pipelines
S2Direct == <<"stride2_direct_pack4", "generic">>

BasicChain(a) ==
  CASE a = "native_fp16_conv1x1_oc8_pos2" ->
         IF Io THEN <<"native_fp16_conv1x1_oc8_pos2_io">> ELSE <<a, "conv1x1">>
    [] a = "spatial3x3_pack8" -> <<a>> \o Unless("PACK8_3X3", <<"spatial3x3_pack4">>)
    [] a = "stride2_direct_pack4_6x6" -> <<a, "generic">>
    [] a = "generic" ->
         IF /\ command.silu /\ ~Io /\ ~Off("GENERIC_S2_ROUTE")
            /\ is_conv3x3_stride2_tiled_fast_path(d)
         THEN S2Direct ELSE <<a>>
    [] OTHER -> <<a>>

Stride2Chain(a, routed) ==
  CASE a = "stride2_spatial3x3_pack4" -> <<a, "generic">>
    [] a = "stride2_direct_pack4" ->
         (IF routed THEN <<"stride2_direct_pack4_packedw">> ELSE <<>>) \o S2Direct
    [] a \in {"stride2_direct_pack4_10x10_256x512_interior", "stride2_persistent_tile16"} ->
         <<a>> \o S2Direct
    [] a = "stride2_direct_pack4_packedw" ->
         <<a>> \o Unless("STRIDE2_DIRECT_PACK4_PACKED_WEIGHT_3X3", <<"stride2_direct_pack4">>)
              \o <<"generic">>
    [] a = "stride2_direct_pack4_packedw_pos2" ->
         <<a>> \o Unless("STRIDE2_DIRECT_PACK4_PACKED_WEIGHT_POS2_3X3",
                         <<"stride2_direct_pack4">>) \o <<"generic">>
    [] a = "stride2_direct_pack4_packedw_oc8" ->
         <<a>> \o Unless("STRIDE2_DIRECT_PACK4_PACKED_WEIGHT_OC8_3X3",
                         <<"stride2_direct_pack4">>) \o <<"generic">>
    [] a = "stride2_direct_pack4_exact" ->
         <<a>> \o Unless("STRIDE2_DIRECT_PACK4_EXACT_3X3", <<"stride2_direct_pack4">>)
              \o <<"generic">>
    [] a = "stride2_direct_pack8" ->
         <<a>> \o Unless("STRIDE2_DIRECT_PACK8_3X3", <<"stride2_direct_pack4">>)
              \o <<"generic">>

\* Kernels of half precision; with activations stored as halves the first two
\* are not replaced.
NativeChain(a) ==
  CASE a = "stride2_native_fp16_packedw" -> IF Io THEN <<a>> ELSE <<a>> \o S2Direct
    [] a = "stride2_native_fp16_position_pair_40x40_256x256" ->
         IF Io THEN <<a>>
         ELSE <<a, "stride2_direct_pack4_packedw", "stride2_direct_pack4">>
    [] a = "stride2_native_fp16_position_quartet_80x80_128x128" ->
         <<a, "stride2_direct_pack4_packedw_pos2", "stride2_direct_pack4_packedw">>
    [] a = "native_fp16_packedw_pos2_40x40_64x64" ->
         IF Io THEN <<"native_fp16_packedw_pos2_40x40_64x64_io">>
         ELSE <<a, "direct_pack4_packedw_pos2", "direct_pack4">>
    [] a \in {"stride2_direct_pack4_packedw_pos4_80x80_128x128",
              "stride2_position_quartet_kmajor_fp32_80x80_128x128"} ->
         <<a, "stride2_direct_pack4_packedw_pos2">>

\* What replaces a Winograd transform: by the height of the map alone.
WithoutWinograd ==
  << IF d.oh = 40 THEN "direct_pack4"
     ELSE IF d.oh = 10 THEN "implicit_gemm_10x10" ELSE "implicit_gemm_20x20",
     "generic" >>
WithoutF4x4 == <<"spatial3x3_pack4", "generic">>

Stride1Chain(a, routed) ==
  CASE a = "direct_pack4" ->
         (IF routed THEN <<"direct_pack4_packedw_pos2">> ELSE <<>>)
           \o <<a, "spatial3x3_pack4">>
    [] a = "direct_pack4_packedw_pos2" -> <<a, "direct_pack4">>
    [] a = "winograd_f2x2" ->
         IF Io THEN <<"winograd_f2x2_io">>
         ELSE (IF command.native THEN <<"winograd_f2x2_native">> ELSE <<>>)
                \o <<a>> \o WithoutWinograd
    [] a = "winograd_f4x4" -> <<a>> \o WithoutF4x4
    [] a = "tileflow_spatial_40x40_128x64" -> <<a, "direct_pack4">>
    [] a = "tileflow_spatial_20x20_256x64" -> <<a, "implicit_gemm_20x20">>

GemmChain(a) ==
  LET general == <<"implicit_gemm">> \o Unless("IMPLICIT_GEMM_3X3", <<"spatial3x3_pack4">>)
      exact10 == {"implicit_gemm_10x10_128x128", "implicit_gemm_10x10_256x64",
                  "implicit_gemm_10x10_512x64"}
      exact20 == {"implicit_gemm_20x20_64x64", "implicit_gemm_20x20_128x64",
                  "implicit_gemm_20x20_256x64"}
  IN CASE a = "implicit_gemm" ->
            <<a>> \o Unless("IMPLICIT_GEMM_3X3",
                            <<IF is_conv3x3_tiled_fast_path(d)
                              THEN "spatial3x3_pack4" ELSE "generic">>)
       [] a = "implicit_gemm_40x40_64x64" ->
            <<a, "implicit_gemm_40x40", "spatial3x3_pack4">>
       [] a = "implicit_gemm_40x40" -> <<a, "spatial3x3_pack4">>
       [] a \in exact20 -> <<a, "implicit_gemm_20x20">> \o general
       [] a \in exact10 -> <<a, "implicit_gemm_10x10">> \o general
       [] a \in {"implicit_gemm_20x20", "implicit_gemm_10x10"} -> <<a>> \o general
       [] a \in {"implicit_gemm_10x10_256x64_oc2", "implicit_gemm_10x10_256x64_oc4",
                 "implicit_gemm_10x10_256x64_persistent"} ->
            <<a, "implicit_gemm_10x10_256x64", "implicit_gemm_10x10">>
       [] a = "stride2_implicit_gemm_80x80_32x64" -> <<a, "generic">>
       [] OTHER -> <<a, "implicit_gemm">>

Gemms == {"implicit_gemm", "implicit_gemm_40x40", "implicit_gemm_20x20",
  "implicit_gemm_10x10", "implicit_gemm_40x40_64x64", "implicit_gemm_20x20_64x64",
  "implicit_gemm_10x10_128x128", "implicit_gemm_20x20_128x64", "implicit_gemm_20x20_256x64",
  "implicit_gemm_10x10_256x64", "implicit_gemm_10x10_512x64",
  "implicit_gemm_10x10_256x64_persistent", "implicit_gemm_10x10_256x64_oc2",
  "implicit_gemm_10x10_256x64_oc4"}
Stride2Gemms == {"stride2_implicit_gemm_80x80_32x64", "stride2_implicit_gemm_40x40_128x128",
  "stride2_implicit_gemm_20x20_128x128", "stride2_implicit_gemm_20x20_256x256",
  "stride2_implicit_gemm_10x10_256x256", "stride2_implicit_gemm_10x10_256x512"}
Stride2Kernels == {"stride2_spatial3x3_pack4", "stride2_direct_pack4",
  "stride2_direct_pack4_exact", "stride2_direct_pack4_packedw",
  "stride2_direct_pack4_packedw_pos2", "stride2_direct_pack4_packedw_oc8",
  "stride2_direct_pack4_10x10_256x512_interior", "stride2_persistent_tile16",
  "stride2_direct_pack8"}
NativeKernels == {"stride2_native_fp16_packedw", "native_fp16_packedw_pos2_40x40_64x64",
  "stride2_native_fp16_position_pair_40x40_256x256",
  "stride2_native_fp16_position_quartet_80x80_128x128",
  "stride2_direct_pack4_packedw_pos4_80x80_128x128",
  "stride2_position_quartet_kmajor_fp32_80x80_128x128"}
Stride1Kernels == {"direct_pack4", "direct_pack4_packedw_pos2", "winograd_f2x2",
  "winograd_f4x4", "tileflow_spatial_40x40_128x64", "tileflow_spatial_20x20_256x64"}
Int8Kernels == {"int8_dot4_conv1x1", "int8_dot4_conv3x3", "int8_dot4_conv3x3_stride2"}
SplitKs == {"splitk_10x10_512x64", "splitk_20x20_256x64", "splitk_stride2_10x10_256x512"}

\* An int8 kernel goes on when either of its two pipelines compiles.
Chain(a, routed) ==
  CASE a \in Gemms \cup Stride2Gemms -> GemmChain(a)
    [] a \in Stride2Kernels -> Stride2Chain(a, routed)
    [] a \in NativeKernels -> NativeChain(a)
    [] a \in Stride1Kernels -> Stride1Chain(a, routed)
    [] a \in Int8Kernels -> <<a, "int8_prequantised">>
    [] OTHER -> BasicChain(a)

-----------------------------------------------------------------------------
(* Grids, in thread groups. *)

\* Mutant: the division rounds down.
Line_Down(threads, perGroup) == <<threads \div perGroup, 1, 1>>
Line(threads, perGroup) == <<Ceil(threads, perGroup), 1, 1>>
Positions == d.n * Area(d)
Quads == d.n * (d.oc \div 4)

Stride2Grid(a) ==
  CASE a = "stride2_spatial3x3_pack4" ->
         <<Ceil(d.ow, 16), Ceil(d.oh, 8), d.n * Ceil(d.oc, 4)>>
    [] a = "stride2_direct_pack4" -> Line(d.n * Ceil(d.oc, 4) * Area(d), 128)
    [] a = "stride2_direct_pack4_10x10_256x512_interior" -> Line(d.n * 128 * 100, 128)
    [] a \in {"stride2_direct_pack4_packedw", "stride2_direct_pack4_exact",
              "stride2_native_fp16_packedw"} -> Line(Quads * Area(d), 128)
    [] a \in {"stride2_native_fp16_position_pair_40x40_256x256",
              "stride2_native_fp16_position_quartet_80x80_128x128",
              "stride2_position_quartet_kmajor_fp32_80x80_128x128"} -> <<200, 1, 1>>
    [] a = "stride2_direct_pack4_packedw_pos2" -> Line(Quads * Ceil(Area(d), 2), 128)
    [] a = "stride2_direct_pack4_packedw_pos4_80x80_128x128" ->
         Line(Quads * Ceil(Area(d), 4), 64)
    [] a = "stride2_direct_pack4_packedw_oc8" ->
         Line(d.n * (d.oc \div 8) * Area(d), 128)
    [] a = "stride2_persistent_tile16" ->
         <<Ceil(d.ow, 8), Ceil(d.oh, 4), d.n * (d.oc \div 16)>>
    [] a = "stride2_direct_pack8" -> Line(d.n * Ceil(d.oc, 8) * Area(d), 128)

WinogradGrid(side) ==
  <<(d.oh \div side) * (d.ow \div side), d.n, Ceil(d.oc, 64)>>

Stride1Grid(a) ==
  CASE a = "native_fp16_conv1x1_oc8_pos2" -> Line(Quads * Area(d), 128)
    [] a = "native_fp16_conv1x1_oc8_pos2_io" ->
         Line(d.n * (d.oc \div 8) * Ceil(Area(d), 2), 128)
    [] a = "spatial3x3_pack8" -> <<Ceil(d.ow, 16), Ceil(d.oh, 16), d.n * Ceil(d.oc, 8)>>
    [] a = "spatial3x3_pack4" -> <<Ceil(d.ow, 16), Ceil(d.oh, 16), d.n * Ceil(d.oc, 4)>>
    [] a = "spatial3x3" -> <<Ceil(d.ow, 16), Ceil(d.oh, 16), d.n * d.oc>>
    [] a = "stride2_direct_pack4_6x6" -> Line(Quads * Area(d), 128)
    [] a = "direct_pack4" -> Line(d.n * Ceil(d.oc, 4) * Area(d), 128)
    [] a = "direct_pack4_packedw_pos2" -> Line(Quads * (Area(d) \div 2), 64)
    [] a \in {"native_fp16_packedw_pos2_40x40_64x64",
              "native_fp16_packedw_pos2_40x40_64x64_io"} -> Line(d.n * 16 * 800, 64)
    [] a \in {"winograd_f2x2", "winograd_f2x2_native", "winograd_f2x2_io",
              "winograd_f2x2_fp32_accum"} -> WinogradGrid(2)
    [] a = "winograd_f4x4" -> WinogradGrid(4)
    [] a \in {"tileflow_spatial_40x40_128x64", "tileflow_spatial_20x20_256x64"} ->
         <<Ceil(d.ow, 10), Ceil(d.oh, 10), d.n * (d.oc \div 8)>>

Tiled(n, m) == <<Ceil(Positions, n), Ceil(d.oc, m), 1>>

GemmGrid(a) ==
  CASE a = "implicit_gemm" -> Tiled(32, 8)
    [] a \in {"implicit_gemm_40x40", "implicit_gemm_40x40_64x64", "implicit_gemm_20x20",
              "implicit_gemm_20x20_64x64", "implicit_gemm_10x10",
              "implicit_gemm_10x10_128x128"} -> Tiled(20, 16)
    [] a \in {"implicit_gemm_20x20_256x64", "implicit_gemm_10x10_512x64"} -> Tiled(25, 16)
    [] a \in {"implicit_gemm_20x20_128x64", "implicit_gemm_10x10_256x64"} ->
         Tiled(IF d.oh = 10 THEN 10 ELSE 20, 8)
    [] a = "implicit_gemm_10x10_256x64_persistent" -> Tiled(25, 8)
    [] a = "implicit_gemm_10x10_256x64_oc2" -> Tiled(10, 16)
    [] a = "implicit_gemm_10x10_256x64_oc4" -> Tiled(10, 32)
    [] a \in {"stride2_implicit_gemm_10x10_256x256",
              "stride2_implicit_gemm_10x10_256x512"} -> Tiled(20, 16)
    [] OTHER -> Tiled(16, 16)

Grid(a) ==
  CASE a \in Gemms \cup Stride2Gemms -> GemmGrid(a)
    [] a \in {"generic", "conv1x1"} -> Line(d.n * d.oc * Area(d), 256)
    [] a \in Stride2Kernels \cup (NativeKernels \ {"native_fp16_packedw_pos2_40x40_64x64"}) ->
         Stride2Grid(a)
    [] OTHER -> Stride1Grid(a)

-----------------------------------------------------------------------------
(* The kernel behind the pipeline of an algorithm. *)

Stride2Shader(a, g) ==
  CASE a = "stride2_spatial3x3_pack4" -> Conv3x3s2Pack4(d, g)
    [] a = "stride2_direct_pack4" -> Conv3x3s2DirectPack4(d, g)
    [] a = "stride2_direct_pack4_10x10_256x512_interior" -> Conv3x3s2Interior(d, g)
    [] a = "stride2_direct_pack4_packedw" -> Conv3x3s2PackedWeight(d, g)
    [] a = "stride2_native_fp16_packedw" -> Conv3x3s2NativeFp16PackedWeight(d, g)
    [] a = "stride2_native_fp16_position_pair_40x40_256x256" -> PositionPair(d, g)
    [] a \in {"stride2_native_fp16_position_quartet_80x80_128x128",
              "stride2_position_quartet_kmajor_fp32_80x80_128x128"} -> PositionQuartet(d, g)
    [] a = "stride2_direct_pack4_packedw_pos2" -> Conv3x3s2PackedWeightPos2(d, g)
    [] a = "stride2_direct_pack4_packedw_pos4_80x80_128x128" -> PackedWeightPos4(d, g)
    [] a = "stride2_direct_pack4_packedw_oc8" -> Conv3x3s2PackedWeightOc8(d, g)
    [] a = "stride2_persistent_tile16" -> Conv3x3s2Tile16(d, g)
    [] a = "stride2_direct_pack4_exact" -> Conv3x3s2DirectPack4Exact(d, g, d.oc, d.oh)
    [] a = "stride2_direct_pack8" -> Conv3x3s2DirectPack8(d, g)

Stride1Shader(a, g) ==
  CASE a = "conv1x1" -> Conv1x1(d, g)
    [] a = "native_fp16_conv1x1_oc8_pos2" -> NativeFp16Conv1x1(d, g)
    [] a = "native_fp16_conv1x1_oc8_pos2_io" -> ActivationFp16Conv1x1(d, g)
    [] a = "spatial3x3_pack8" -> Conv3x3Pack8(d, g)
    [] a = "spatial3x3_pack4" -> Conv3x3Pack4(d, g)
    [] a = "spatial3x3" -> Conv3x3(d, g)
    [] a = "stride2_direct_pack4_6x6" -> Conv6x6s2DirectPack4(d, g)
    [] a = "direct_pack4" -> Conv3x3DirectPack4(d, g)
    [] a = "direct_pack4_packedw_pos2" -> Conv3x3PackedWeightPos2(d, g)
    [] a = "native_fp16_packedw_pos2_40x40_64x64" -> NativeFp16Pos2At40(d, g)
    [] a = "native_fp16_packedw_pos2_40x40_64x64_io" -> ActivationFp16Pos2At40(d, g)
    [] a = "winograd_f2x2" -> WinogradF2x2(d, g)
    [] a = "winograd_f2x2_native" -> WinogradF2x2Staged(d, g, FALSE, FALSE)
    [] a = "winograd_f2x2_io" -> WinogradF2x2Staged(d, g, TRUE, FALSE)
    [] a = "winograd_f2x2_fp32_accum" -> WinogradF2x2Staged(d, g, FALSE, TRUE)
    [] a = "winograd_f4x4" -> WinogradF4x4(d, g)
    [] a = "tileflow_spatial_40x40_128x64" -> TileFlowSpatial(d, g, 40, 128)
    [] a = "tileflow_spatial_20x20_256x64" -> TileFlowSpatial(d, g, 20, 256)
    [] OTHER -> IF command.silu THEN Conv2dSilu(d, g) ELSE Conv2d(d, g)

GemmShader(a, g) ==
  CASE a = "implicit_gemm" -> ImplicitGemm(d, g)
    [] a = "implicit_gemm_40x40" -> ImplicitGemmShape(d, g, 40)
    [] a = "implicit_gemm_20x20" -> ImplicitGemmShape(d, g, 20)
    [] a = "implicit_gemm_10x10" -> ImplicitGemmShape(d, g, 10)
    [] a = "implicit_gemm_40x40_64x64" -> ImplicitGemmExact(d, g, 40, 64)
    [] a = "implicit_gemm_20x20_64x64" -> ImplicitGemmExact(d, g, 20, 64)
    [] a = "implicit_gemm_10x10_128x128" -> ImplicitGemmExact(d, g, 10, 128)
    [] a = "implicit_gemm_20x20_128x64" -> ImplicitGemmExactIo(d, g, 20, 128, 64)
    [] a = "implicit_gemm_20x20_256x64" -> ImplicitGemmExactIo(d, g, 20, 256, 64)
    [] a = "implicit_gemm_10x10_256x64" -> ImplicitGemmExactIo(d, g, 10, 256, 64)
    [] a = "implicit_gemm_10x10_512x64" -> ImplicitGemmExactIo(d, g, 10, 512, 64)
    [] a = "implicit_gemm_10x10_256x64_persistent" -> ImplicitGemmPersistent(d, g)
    [] a = "implicit_gemm_10x10_256x64_oc2" -> ImplicitGemmOcBlock(d, g, 2)
    [] a = "implicit_gemm_10x10_256x64_oc4" -> ImplicitGemmOcBlock(d, g, 4)

Stride2GemmShader(a, g) ==
  CASE a = "stride2_implicit_gemm_80x80_32x64" -> ImplicitGemmStride2(d, g, 80, 32, 64)
    [] a = "stride2_implicit_gemm_40x40_128x128" -> ImplicitGemmStride2(d, g, 40, 128, 128)
    [] a = "stride2_implicit_gemm_20x20_128x128" -> ImplicitGemmStride2(d, g, 20, 128, 128)
    [] a = "stride2_implicit_gemm_20x20_256x256" -> ImplicitGemmStride2(d, g, 20, 256, 256)
    [] a = "stride2_implicit_gemm_10x10_256x256" -> ImplicitGemmStride2(d, g, 10, 256, 256)
    [] a = "stride2_implicit_gemm_10x10_256x512" -> ImplicitGemmStride2(d, g, 10, 256, 512)

Shader(a, g) ==
  CASE a \in Gemms -> GemmShader(a, g)
    [] a \in Stride2Gemms -> Stride2GemmShader(a, g)
    [] a \in Stride2Kernels \cup (NativeKernels \ {"native_fp16_packedw_pos2_40x40_64x64"}) ->
         Stride2Shader(a, g)
    [] OTHER -> Stride1Shader(a, g)

\* The pipelines that exist with and without activation; the others apply SiLU.
LinearBuilds == {"generic", "conv1x1", "native_fp16_conv1x1_oc8_pos2",
                 "native_fp16_conv1x1_oc8_pos2_io"} \cup Int8Kernels
TypedViews(a) ==
  Io \/ a \in {"conv1x1", "stride2_direct_pack4", "stride2_direct_pack4_packedw_pos2",
                "direct_pack4_packedw_pos2", "stride2_native_fp16_packedw",
                "stride2_native_fp16_position_pair_40x40_256x256", "winograd_f4x4"}

\* A dispatch: the kernel, what it ends in ("silu", "linear" or a "partial"
\* sum), and the views it is given.
Dispatched(name, kernel, end, weight, typed) ==
  [name |-> name, kernel |-> kernel, end |-> end, weight |-> weight, typed |-> typed]
Activation == IF command.silu THEN "silu" ELSE "linear"
NoWeight == View("none", 0)

-----------------------------------------------------------------------------
Init ==
  /\ \E x \in Settings : command = x[1] /\ env = x[2]
  /\ device \in Devices
  /\ command.source = "candidate" =>
       command.planned \in enumerate_conv_candidates(d, command.silu)
  /\ stage = "choose" /\ chain = <<>> /\ wanted = "own" /\ bound = NoWeight
  /\ packs = {} /\ failed = FALSE /\ commands = <<>>

SameSetting == UNCHANGED <<env, device, command>>

\* A weight buffer is there when it was made before; otherwise its upload may
\* fail.
Packed(buffer)    == buffer.fits /\ packs' = packs \cup {buffer}
NotPacked(buffer) ==
  /\ buffer \notin packs
  /\ failed' = (failed \/ buffer.fits)
  /\ UNCHANGED packs

Algorithm == replay_conv_algorithm(command)
Routed ==
  /\ command.silu /\ ~Io
  /\ \/ Algorithm = "stride2_direct_pack4" /\ ~Off("STRIDE2_PACKEDW_ROUTE")
     \/ Algorithm = "direct_pack4" /\ ~Off("S1_PACKEDW_ROUTE")

Choose ==
  /\ stage = "choose" /\ ~Concat
  /\ Algorithm \notin SplitKs
  /\ stage' = "compile"
  /\ \/ ~Routed /\ chain' = Chain(Algorithm, FALSE) /\ UNCHANGED <<packs, failed>>
     \/ Routed /\ Packed(Float4Weight) /\ chain' = Chain(Algorithm, TRUE) /\ UNCHANGED failed
     \/ Routed /\ NotPacked(Float4Weight) /\ chain' = Chain(Algorithm, FALSE)
  /\ SameSetting /\ UNCHANGED <<wanted, bound, commands>>

CompileOk ==
  /\ stage = "compile" /\ ~Concat
  /\ stage' = "weights"
  /\ chain' = <<Pipeline>>
  /\ SameSetting /\ UNCHANGED <<wanted, bound, packs, failed, commands>>

CompileFails ==
  /\ stage = "compile"
  /\ failed' = TRUE
  /\ IF Len(chain) = 1 THEN stage' = "refused" /\ UNCHANGED chain
     ELSE chain' = Tail(chain) /\ UNCHANGED stage
  /\ SameSetting /\ UNCHANGED <<wanted, bound, packs, commands>>

-----------------------------------------------------------------------------
(* The weights of a pipeline: the buffer, the view the host makes of it, and *)
(* what is compiled without it, with which weights (nothing: the command is  *)
(* refused).                                                                 *)

Needs(buffer, view, instead, then) ==
  [buffer |-> buffer, view |-> view, instead |-> instead, then |-> then]
IfNotIo(pipelines) == IF Io THEN <<>> ELSE pipelines
Packable4 == {"direct_pack4_packedw_pos2", "stride2_persistent_tile16",
  "stride2_direct_pack4_packedw", "stride2_direct_pack4_packedw_pos2",
  "stride2_direct_pack4_packedw_pos4_80x80_128x128", "stride2_direct_pack4_packedw_oc8"}

\* Mutant: the kernel of eight channels gets the view of the others.
PackedByFour_Oc8AsFloat4(p) ==
  Needs(Float4Weight,
        IF p = "direct_pack4_packedw_pos2" THEN Scalar(Float4Weight) ELSE Float4(Float4Weight),
        IF p = "direct_pack4_packedw_pos2" THEN <<"direct_pack4">>
        ELSE <<"stride2_direct_pack4">>, "original")

PackedByFour(p) ==
  LET demanded == \E x \in {"STRIDE2_DIRECT_PACK4_PACKED_WEIGHT_3X3",
                            "STRIDE2_DIRECT_PACK4_PACKED_WEIGHT_POS2_3X3",
                            "STRIDE2_DIRECT_PACK4_PACKED_WEIGHT_OC8_3X3",
                            "STRIDE2_PERSISTENT_TILE16_3X3"} : Forced(x)
      scalar == p \in {"direct_pack4_packedw_pos2", "stride2_direct_pack4_packedw_oc8"}
  IN Needs(Float4Weight, IF scalar THEN Scalar(Float4Weight) ELSE Float4(Float4Weight),
           IF demanded THEN <<>>
           ELSE IF p = "direct_pack4_packedw_pos2" THEN <<"direct_pack4">>
           ELSE <<"stride2_direct_pack4">>, "original")

NativeNeeds(p) ==
  LET half == native_fp16_packed_weight(command)
      kmajor == engine_conv3x3_k_major_oc4_fp16_weight(command)
      kmajor32 == engine_conv3x3_k_major_oc4_fp32_weight(command)
  IN CASE p = "stride2_native_fp16_packedw" ->
            Needs(half, Uint2(half), IfNotIo(<<"stride2_direct_pack4">>), "original")
       [] p \in {"native_fp16_packedw_pos2_40x40_64x64",
                 "native_fp16_packedw_pos2_40x40_64x64_io"} ->
            Needs(half, Uint2(half), IfNotIo(<<"direct_pack4_packedw_pos2">>), "oc4")
       [] p = "stride2_native_fp16_position_pair_40x40_256x256" ->
            Needs(kmajor, Uint2(kmajor), <<"stride2_direct_pack4_packedw">>, "oc4")
       [] p = "stride2_native_fp16_position_quartet_80x80_128x128" ->
            Needs(kmajor, Uint2(kmajor), <<"stride2_direct_pack4_packedw_pos2">>, "oc4")
       [] p = "stride2_position_quartet_kmajor_fp32_80x80_128x128" ->
            Needs(kmajor32, Scalar(kmajor32), <<"stride2_direct_pack4_packedw_pos2">>, "oc4")

\* The build for half storage keeps the float weights when the engine did not
\* ask for the half-precision transform.
WinogradNeeds(p) ==
  LET half == engine_winograd_f2x2_fp16_weight(command)
      float == winograd_f2x2_weight(command)
      fourth == winograd_f4x4_fp16_weight(command)
  IN CASE p = "winograd_f2x2_native" \/ (p = "winograd_f2x2_io" /\ command.native) ->
            Needs(half, Uint2(half), IfNotIo(<<"winograd_f2x2">>), "own")
       [] p = "winograd_f2x2" \/ (p = "winograd_f2x2_io" /\ ~command.native) ->
            Needs(float, Float4(float), WithoutWinograd, "original")
       [] p = "winograd_f2x2_fp32_accum" -> Needs(float, Scalar(float), <<>>, "own")
       [] p = "winograd_f4x4" -> Needs(fourth, Uint2(fourth), WithoutF4x4, "original")

\* Mutant: without its weights the kernel is tried again.
Conv1x1Needs_Again(p) ==
  LET oc8 == engine_conv1x1_oc8_fp16_weight(command)
  IN Needs(oc8, Uint2(oc8), <<p>>, "own")

Conv1x1Needs(p) ==
  LET oc8 == engine_conv1x1_oc8_fp16_weight(command)
  IN Needs(oc8, Uint2(oc8), IfNotIo(<<"conv1x1">>), "original")

Winograds == {"winograd_f2x2", "winograd_f2x2_native", "winograd_f2x2_io",
              "winograd_f2x2_fp32_accum", "winograd_f4x4"}
HalfPrecision == (NativeKernels \ Packable4) \cup {"native_fp16_packedw_pos2_40x40_64x64_io"}
Conv1x1Halves == {"native_fp16_conv1x1_oc8_pos2", "native_fp16_conv1x1_oc8_pos2_io"}
OwnLayout == Winograds \cup HalfPrecision \cup Packable4 \cup Conv1x1Halves
OwnNeeds(p) ==
  CASE p \in Winograds -> WinogradNeeds(p)
    [] p \in HalfPrecision -> NativeNeeds(p)
    [] p \in Packable4 -> PackedByFour(p)
    [] p \in Conv1x1Halves -> Conv1x1Needs(p)

Int8Pipeline == Pipeline \in Int8Kernels \cup {"int8_prequantised"}
AsImported == wanted = "original" \/ (wanted = "own" /\ Pipeline \notin OwnLayout)

BindOriginal ==
  /\ stage = "weights" /\ ~Int8Pipeline /\ AsImported
  /\ bound' = Original /\ stage' = "record"
  /\ SameSetting /\ UNCHANGED <<chain, wanted, packs, failed, commands>>

TheNeeds ==
  IF wanted = "oc4" THEN Needs(Float4Weight, Float4(Float4Weight), <<>>, "oc4")
  ELSE OwnNeeds(Pipeline)

BindPacked ==
  /\ stage = "weights" /\ ~Int8Pipeline /\ ~AsImported
  /\ Packed(TheNeeds.buffer) /\ bound' = TheNeeds.view /\ stage' = "record"
  /\ SameSetting /\ UNCHANGED <<chain, wanted, failed, commands>>

BindOther ==
  /\ stage = "weights" /\ ~Int8Pipeline /\ ~AsImported
  /\ NotPacked(TheNeeds.buffer)
  /\ chain' = TheNeeds.instead /\ wanted' = TheNeeds.then
  /\ stage' = IF TheNeeds.instead = <<>> THEN "refused" ELSE "compile"
  /\ SameSetting /\ UNCHANGED <<bound, commands>>

-----------------------------------------------------------------------------
(* Recording. *)

Ends(dispatches) == commands' = dispatches /\ stage' = "recorded"

\* Winograd at half storage splits its channel blocks in four slices when the
\* map is small, through a scratch buffer with a slot per slice.
Slices == 4
SplitsWinograd ==
  /\ Pipeline = "winograd_f2x2_io" /\ command.silu /\ bound.elem = 8
  /\ ~Off("WINOGRAD_KSPLIT") /\ Area(d) <= 400 /\ Ceil(d.ic, 64) >= 2
  /\ d.oh % 2 = 0 /\ d.ow % 2 = 0
RecordWinogradSlices ==
  /\ stage = "record" /\ SplitsWinograd
  /\ LET blocks == Ceil(Ceil(d.ic, 64), Slices)
         partial == <<(d.oh \div 2) * (d.ow \div 2), d.n, Ceil(d.oc, 64) * Slices>>
         combine == Line(d.n * d.oc * Area(d), 128)
     IN Ends(<<
          Dispatched("winograd_slices", WinogradSlices(d, partial, Slices, blocks), "partial",
                     bound, TRUE),
          Dispatched("combine", CombineSlices(d, combine, Slices, Slices), "silu",
                     NoWeight, TRUE) >>)
  /\ SameSetting /\ UNCHANGED <<chain, wanted, bound, packs, failed>>

Record ==
  /\ stage = "record" /\ ~Concat
  /\ failed' = (failed \/ SplitsWinograd)
  /\ Ends(<< Dispatched(Pipeline, Shader(Pipeline, Grid(Pipeline)),
                        IF Pipeline \in LinearBuilds THEN Activation ELSE "silu", bound,
                        TypedViews(Pipeline)) >>)
  /\ SameSetting /\ UNCHANGED <<chain, wanted, bound, packs>>

\* The descriptor arena is full.
DescriptorsRunOut ==
  /\ stage = "record"
  /\ failed' = TRUE /\ stage' = "refused"
  /\ SameSetting /\ UNCHANGED <<chain, wanted, bound, packs, commands>>

\* The three algorithms that split the input channels on their own record a
\* partial and a reducing dispatch, or nothing.
SplitDispatches ==
  LET reduce(total) == Line(total, 256)
      partial(splits) == <<Ceil(Area(d), 16), Ceil(d.oc, 8), d.n * splits>>
      all == d.n * d.oc * Area(d)
      first(kernel) == Dispatched("split_partial", kernel, "partial", Original, FALSE)
      last(kernel) == Dispatched("split_reduce", kernel, "silu", NoWeight, FALSE)
  IN CASE Algorithm = "splitk_10x10_512x64" ->
            << first(SplitPartial10x10_512x64(d, partial(8))),
               last(SplitReduce10x10_512x64(d, reduce(all), 8)) >>
       [] Algorithm = "splitk_20x20_256x64" ->
            << first(SplitPartial20x20_256x64(d, partial(4))),
               last(SplitReduce20x20_256x64(d, reduce(all), 4)) >>
       [] Algorithm = "splitk_stride2_10x10_256x512" ->
            << first(SplitPartialStride2(d, partial(4))),
               last(SplitReduceStride2(d, reduce(all), 4)) >>

RecordSplitK ==
  /\ stage = "choose" /\ ~Concat /\ Algorithm \in SplitKs
  /\ \/ Ends(SplitDispatches) /\ UNCHANGED failed
     \/ stage' = "refused" /\ failed' = TRUE /\ UNCHANGED commands
  /\ SameSetting /\ UNCHANGED <<chain, wanted, bound, packs>>

-----------------------------------------------------------------------------
(* The int8 branch.  The activation is quantised beforehand when its size    *)
(* allows; then either slices of input words, or shared-memory tiles, or one *)
(* thread per position.  Without, the kernel quantises as it reads.          *)

Taps == d.k * d.k
Weight8 == conv_int8_weight(command)
Quantisable ==
  ~Off("INT8_PREQUANT") /\ d.ic % 4 = 0 /\ d.n * d.ic * d.ih * d.iw >= 4096
SlicesInt8 ==
  /\ d.k # 1 /\ Area(d) <= 400 /\ d.ic >= 64 /\ d.ic % 16 = 0 /\ ~Off("INT8_KSPLIT")
Tile(family) ==
  /\ command.planned = family /\ command.pergroup /\ d.oc % 32 = 0
  /\ CASE family = "int8_dot4_conv1x1" -> ~Off("1X1_LTS")
       [] family = "int8_dot4_conv3x3" ->
            d.s = 1 /\ d.p = 1 /\ d.ow >= 8 /\ SameMap(d) /\ ~Off("3X3_LTS")
       [] family = "int8_dot4_conv3x3_stride2" ->
            /\ d.s = 2 /\ d.p = 1 /\ d.ow >= 8 /\ d.ih = 2 * d.oh /\ d.iw = 2 * d.ow
            /\ d.ic >= 64 /\ ~Off("3X3S2_LTS")

SlicedInt8 ==
  LET slice == Ceil(d.ic \div 4, Slices)
      all == d.n * d.oc * Area(d)
      partial == <<Ceil(all \div 4, 128), 1, Slices>>
  IN << Dispatched("int8_slices", Int8Slices(d, partial, slice), "partial",
                   Scalar(Weight8), TRUE),
        Dispatched("combine", CombineSlices(d, Line(all, 128), Slices, Slices),
                   Activation, NoWeight, TRUE) >>
TiledInt8 ==
  LET one == <<Ceil(Area(d), 32), Ceil(d.oc, 32), d.n>>
      window == <<Ceil(d.ow, 8) * Ceil(d.oh, 4), Ceil(d.oc, 32), d.n>>
      dispatch(kernel) ==
        << Dispatched("int8_tiles", kernel, Activation, Scalar(Weight8), TRUE) >>
  IN CASE command.planned = "int8_dot4_conv1x1" -> dispatch(Int8Tiled1x1(d, one))
       [] command.planned = "int8_dot4_conv3x3" -> dispatch(Int8Tiled3x3(d, window))
       [] OTHER -> dispatch(Int8Tiled3x3Stride2(d, window))
LineInt8 == Line(d.n * (d.oc \div (IF d.k = 1 THEN 8 ELSE 4)) * Area(d), 128)
PlainInt8 ==
  << Dispatched("int8_prequantised", Int8Prequant(d, LineInt8, Taps), Activation,
                Scalar(Weight8), TRUE) >>
DynamicInt8 ==
  << Dispatched("int8_dynamic", Int8Direct(d, LineInt8, Taps), Activation,
                Scalar(Weight8), TRUE) >>

\* Each choice is left for the next when it does not apply, or when one of its
\* pipelines or buffers fails.
RecordInt8 ==
  /\ stage = "weights" /\ Int8Pipeline
  /\ Packed(Weight8)
  /\ \/ Quantisable /\ SlicesInt8 /\ Ends(SlicedInt8) /\ UNCHANGED failed
     \/ /\ Quantisable /\ Tile(command.planned) /\ Ends(TiledInt8)
        /\ failed' = (failed \/ SlicesInt8)
     \/ /\ Quantisable /\ Ends(PlainInt8)
        /\ failed' = (failed \/ SlicesInt8 \/ Tile(command.planned))
     \/ /\ Pipeline \in Int8Kernels /\ Ends(DynamicInt8)
        /\ failed' = (failed \/ Quantisable)
  /\ SameSetting /\ UNCHANGED <<chain, wanted, bound>>

RefuseInt8 ==
  /\ stage = "weights" /\ Int8Pipeline
  /\ \/ NotPacked(Weight8)
     \/ /\ Packed(Weight8) /\ Pipeline = "int8_prequantised"
        /\ failed' = TRUE
  /\ stage' = "refused"
  /\ SameSetting /\ UNCHANGED <<chain, wanted, bound, commands>>

Next ==
  \/ Choose \/ CompileOk \/ CompileFails
  \/ BindOriginal \/ BindPacked \/ BindOther
  \/ RecordWinogradSlices \/ Record \/ DescriptorsRunOut \/ RecordSplitK
  \/ RecordInt8 \/ RefuseInt8

Spec == Init /\ [][Next]_vars

-----------------------------------------------------------------------------
(* Properties. *)

\* The recorder's state stays within its types, and it never asks for a
\* pipeline when there is none left to try.
TypeOK ==
  /\ stage \in Stages /\ wanted \in {"own", "original", "oc4"} /\ failed \in BOOLEAN
  /\ stage \in {"compile", "weights", "record"} => chain # <<>>
  /\ \A b \in packs : b.fits

\* Kernels whose grid or sums miss the convolution wherever they are used, the
\* last position of a map that does not split into pairs, the kernels of
\* stride 2 with an input side built in on an odd one, which their matchers let
\* through, and the kernels over branches whose pipeline state may be missing.
KnownInexact == {"winograd_f2x2", "implicit_gemm_40x40", "implicit_gemm_20x20",
  "implicit_gemm_10x10", "implicit_gemm_10x10_256x64", "implicit_gemm_10x10_256x64_oc2",
  "implicit_gemm_10x10_256x64_oc4"}
KnownUnset == {"concat_tileflow", "concat_gemm", "concat_gemm256", "concat_plain"}
Unset(x) == \E a \in x.kernel.writes : a.reach = 0
Misses(x) ==
  \/ x.name \in KnownInexact \/ (x.name \in KnownUnset /\ Unset(x))
  \/ (x.name = "direct_pack4_packedw_pos2" /\ Area(d) % 2 = 1)
  \/ /\ x.name \in Stride2Gemms \cup {"stride2_direct_pack4_10x10_256x512_interior"}
     /\ ~(d.ih = 2 * d.oh /\ d.iw = 2 * d.ow)

\* Whatever compiles, uploads or fails on the way, the dispatches recorded for
\* a convolution write each of its outputs once and sum all of its terms, and
\* the last one applies the activation asked for: the grid that the host
\* computes and the geometry that the shader has built in agree with the
\* convolution, after every fallback.
ComputesTheConvolution ==
  \A i \in DOMAIN commands :
    LET x == commands[i]
    IN /\ Misses(x) \/ (Exact(x.kernel.writes) /\ Exact(x.kernel.sums))
       /\ x.end = IF i = Len(commands) THEN Activation ELSE "partial"

\* Kernels that read the weights as float4 and get another view of them.
KnownViews == {"direct_pack4_packedw_pos2", "winograd_f2x2_fp32_accum", "winograd_f2x2"}

\* A kernel reads weights in the order and element size of the view it is
\* given, and activations through the kind of view its shader declares.  A
\* command that stores halves keeps to that unless its kernel was replaced.
ReadsWhatIsBound ==
  \A i \in DOMAIN commands :
    LET x == commands[i]
        replaced == Io /\ ~Concat /\ (failed \/ Algorithm # command.planned)
    IN /\ x.name \in KnownViews \/ replaced
             \/ x.weight = View(x.kernel.weight, x.kernel.elem)
       /\ replaced \/ ~("raw" \in {x.kernel.in, x.kernel.out} /\ x.typed)
       /\ "typed" \in {x.kernel.in, x.kernel.out} => x.typed

\* A convolution that the builder or the planner chose the kernel for is
\* recorded: it is refused only after something failed, or because it stores
\* halves on a device without half precision, never because a kernel or its
\* weights do not fit it.
OnlyFailuresRefuse ==
  stage = "refused" /\ command.source \in {"unplanned", "built"} =>
    failed \/ (Io /\ ~device.fp16)

\* No fallback leads back to what it replaced, so that every recording ends: a
\* pipeline that does not compile is not tried again, and without its weights a
\* kernel goes on with the imported ones or those of four channels, for good.
\* Only the half-precision transform has another with a layout of its own
\* behind it.
FallbacksGoForward ==
  [][stage' = "compile" /\ stage # "choose" =>
       \/ stage = "compile" /\ Len(chain') < Len(chain)
       \/ wanted = "own" /\ wanted' # "own"
       \/ Pipeline = "winograd_f2x2_native" /\ chain' = <<"winograd_f2x2">>]_vars

\* The pipeline state of every dispatch is one that has been made.
PipelinesAreMade == \A i \in DOMAIN commands : ~Unset(commands[i])

\* README.md:62, "all engines match ORT-CPU ground truth": a command as the
\* builder plans it, with nothing failing, is computed in full.
BuiltPlansAreComplete ==
  \A i \in DOMAIN commands :
    command.source = "built" /\ ~failed =>
      Exact(commands[i].kernel.writes) /\ Exact(commands[i].kernel.sums)

\* aexrt_d3d12_runtime.cpp:9549, shape-specialised candidates pass their own
\* predicate because others reach out of bounds: no candidate computes outputs
\* or reads terms that its convolution does not have.
CandidatesStayInBounds ==
  \A i \in DOMAIN commands :
    command.source = "candidate" =>
      \A a \in commands[i].kernel.writes \cup commands[i].kernel.sums : a.reach <= a.need

\* aexrt_d3d12_runtime.cpp:9434-9437, what replaces a planned kernel that does
\* not fit is safe for every shape: the activations it gets are the ones it
\* reads.
FallbacksReadTheirActivations ==
  \A i \in DOMAIN commands :
    Algorithm # command.planned /\ command.planned # "none" /\ ~failed =>
      ~("raw" \in {commands[i].kernel.in, commands[i].kernel.out} /\ commands[i].typed)

=============================================================================
