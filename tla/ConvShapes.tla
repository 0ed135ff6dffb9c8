----------------------------- MODULE ConvShapes -----------------------------
(***************************************************************************)
(* Which algorithm aexrt_d3d12_runtime.cpp records for a convolution: the  *)
(* matchers of the specialised kernels, the planner of a command that the  *)
(* engine does not plan, and the check of one that it does.  Algorithms    *)
(* have the names of tileflow_conv_algorithm_name.                         *)
(*                                                                         *)
(* `env' is the set of environment switches that are set, as pairs of      *)
(* their verb (DISABLE; ENABLE, with or without EXPERIMENTAL; FORCE) and   *)
(* the rest of their name; `device' says whether it runs half-precision    *)
(* shaders (native 16-bit operations, the DXIL compiler and shader model   *)
(* 6.2) and int8 dot products.  Both are read all along a recording and    *)
(* never change.                                                           *)
(***************************************************************************)
EXTENDS ConvKernels, Sequences

VARIABLES env, device

Off(x)     == <<"DISABLE", x>> \in env
Enabled(x) == <<"ENABLE", x>> \in env
Forced(x)  == <<"FORCE", x>> \in env
Tried(x)   == Enabled(x) \/ Forced(x)

\* A square map of dim x dim from ic to oc channels.
Map(d, dim) == d.oh = dim /\ d.ow = dim
Is(d, dim, ic, oc) == Map(d, dim) /\ d.ic = ic /\ d.oc = oc
SameMap(d) == d.ih = d.oh /\ d.iw = d.ow
Halves(d) == d.ih >= 2 * d.oh - 1 /\ d.iw >= 2 * d.ow - 1
Plain(d, k, s, p) == d.k = k /\ d.s = s /\ d.p = p /\ d.dil = 1 /\ d.g = 1

is_conv1x1_fast_path(d) == Plain(d, 1, 1, 0) /\ SameMap(d)
is_conv3x3_tiled_fast_path(d) == Plain(d, 3, 1, 1) /\ SameMap(d)
is_conv3x3_stride2_tiled_fast_path(d) == Plain(d, 3, 2, 1) /\ Halves(d)
is_conv3x3_implicit_gemm_fast_path(d) == d.s \in {1, 2} /\ Plain(d, 3, d.s, 1)

-----------------------------------------------------------------------------
(* Matchers of stride 1. *)

Pack4(d) ==
  /\ ~Off("PACKED3X3")
  /\ \/ Forced("PACKED3X3")
     \/ is_conv3x3_tiled_fast_path(d) /\ d.oc >= 4 /\ Area(d) >= 100

Pack8(d) ==
  /\ ~Off("PACK8_3X3")
  /\ \/ Forced("PACK8_3X3")
     \/ Enabled("PACK8_3X3") /\ is_conv3x3_tiled_fast_path(d) /\ d.oc >= 8 /\ Area(d) >= 400

\* The exact kernel of 64 channels at 40x40 is preferred to the direct one.
Exact40 == Enabled("EXACT_40X40_64X64") \/ Forced("SHAPE40")
DirectPack4(d) ==
  /\ ~Off("DIRECT_PACK4_3X3") /\ is_conv3x3_tiled_fast_path(d) /\ d.ic >= 32 /\ d.oc >= 64
  /\ IF Forced("DIRECT_PACK4_3X3") THEN Area(d) >= 100
     ELSE \/ Is(d, 40, 128, 64) \/ Is(d, 20, 64, 128)
          \/ Is(d, 40, 64, 64) /\ (Off("EXACT_40X40_64X64") \/ ~Exact40)

PackedWeightPos2(d) ==
  /\ ~Off("STRIDE1_PACKED_WEIGHT_POS2_3X3") /\ is_conv3x3_tiled_fast_path(d)
  /\ \/ Is(d, 40, 128, 64)
     \/ Is(d, 20, 256, 64) /\ Enabled("STRIDE1_PACKED_WEIGHT_POS2_3X3")

\* The general shapes do not ask for an input of the output's size.
F2x2(d) ==
  /\ ~Off("WINOGRAD_F2X2_3X3") /\ Plain(d, 3, 1, 1)
  /\ \/ /\ SameMap(d)
        /\ \/ Is(d, 40, 128, 64) /\ Enabled("WINOGRAD_F2X2_3X3")
           \/ Is(d, 20, 256, 64)
           \/ \E ic, oc \in {64, 128} : Is(d, 20, ic, oc)
           \/ Is(d, 10, 64, 64) \/ Is(d, 10, 128, 128) \/ Is(d, 10, 256, 64)
     \/ /\ Enabled("WINOGRAD_GENERAL_3X3")
        /\ d.ic >= 64 /\ d.ic % 8 = 0 /\ d.oc \in {64, 128}
        /\ d.oh >= 10 /\ d.ow >= 10 /\ d.oh % 2 = 0 /\ d.ow % 2 = 0

F4x4(d) ==
  /\ Plain(d, 3, 1, 1) /\ d.ic % 32 = 0 /\ d.oh % 4 = 0 /\ d.ow % 4 = 0
  /\ d.ih >= d.oh /\ d.iw >= d.ow

TileFlow(d) ==
  /\ ~Off("TILEFLOW_SPATIAL_EXACT_3X3") /\ is_conv3x3_tiled_fast_path(d)
  /\ \/ Is(d, 40, 128, 64) /\ Enabled("TILEFLOW_40X40_128X64_3X3")
     \/ Is(d, 20, 256, 64) /\ Enabled("TILEFLOW_20X20_256X64_3X3")

ImplicitGemmMatch(d) ==
  /\ ~Off("IMPLICIT_GEMM_3X3") /\ is_conv3x3_implicit_gemm_fast_path(d)
  /\ \/ Forced("IMPLICIT_GEMM_3X3")
     \/ /\ ~(d.s = 2 /\ Off("IMPLICIT_GEMM_STRIDE2_3X3"))
        /\ d.ic >= 64 /\ d.oc >= 64 /\ Area(d) <= 400

ShapeGemm(d, dim) ==
  /\ is_conv3x3_tiled_fast_path(d) /\ Map(d, dim)
  /\ d.ic >= 32 /\ d.ic % 32 = 0 /\ d.oc >= 16 /\ d.oc % 16 = 0
ExactGemm(d, dim, ic, oc) ==
  ~Off("EXACT_CHANNEL_IMPLICIT_GEMM_3X3") /\ ShapeGemm(d, dim) /\ Is(d, dim, ic, oc)

SplitK10x10(d) ==
  /\ ~Off("SPLITK_10X10_512X64_CONV3X3_SILU")
  /\ is_conv3x3_tiled_fast_path(d) /\ Is(d, 10, 512, 64)
SplitK20x20(d) ==
  /\ ~Off("SPLITK_20X20_256X64_CONV3X3_SILU") /\ Tried("SPLITK_20X20_256X64_CONV3X3_SILU")
  /\ is_conv3x3_tiled_fast_path(d) /\ Is(d, 20, 256, 64)

-----------------------------------------------------------------------------
(* Matchers of stride 2. *)

Stride2(d, flag) == ~Off(flag) /\ is_conv3x3_stride2_tiled_fast_path(d)
Stride2Tried(d, flag) == Stride2(d, flag) /\ Tried(flag)

Stride2Pack4(d) ==
  /\ Stride2Tried(d, "STRIDE2_PACK4_3X3")
  /\ d.ic >= 16 /\ d.oc >= 64 /\ d.oc % 4 = 0 /\ Area(d) >= 400
Stride2DirectPack4(d) ==
  /\ Stride2(d, "STRIDE2_DIRECT_PACK4_3X3")
  /\ \/ /\ ~Off("FIRSTCONV_STRIDE2_DIRECT_PACK4_3X3")
        /\ d.ic = 3 /\ d.oc >= 16 /\ d.oc % 4 = 0 /\ Map(d, 160)
     \/ d.ic >= 32 /\ d.oc >= 64 /\ Area(d) >= 100
Stride2PackedWeight(d) ==
  LET flag == "STRIDE2_DIRECT_PACK4_PACKED_WEIGHT_3X3"
  IN /\ Stride2(d, flag) /\ d.oc % 4 = 0
     /\ \/ Is(d, 40, 128, 128) \/ Is(d, 20, 256, 256)
        \/ /\ Tried(flag)
           /\ Is(d, 20, 128, 128) \/ Is(d, 10, 256, 256) \/ Is(d, 10, 256, 512)
Stride2PackedWeightPos2(d) ==
  Stride2Tried(d, "STRIDE2_DIRECT_PACK4_PACKED_WEIGHT_POS2_3X3") /\ Is(d, 10, 256, 512)
Stride2PackedWeightOc8(d) ==
  LET flag == "STRIDE2_DIRECT_PACK4_PACKED_WEIGHT_OC8_3X3"
  IN /\ Stride2(d, flag)
     /\ Is(d, 40, 128, 128) \/ (Tried(flag) /\ Is(d, 20, 256, 256))
Stride2Interior(d) ==
  /\ Stride2Tried(d, "STRIDE2_DIRECT_PACK4_10X10_256X512_INTERIOR_3X3")
  /\ \A x \in {"STRIDE2_DIRECT_PACK4_PACKED_WEIGHT_3X3",
               "STRIDE2_DIRECT_PACK4_PACKED_WEIGHT_POS2_3X3",
               "STRIDE2_DIRECT_PACK4_PACKED_WEIGHT_OC8_3X3", "STRIDE2_DIRECT_PACK8_3X3",
               "STRIDE2_DIRECT_PACK4_EXACT_3X3"} : ~Forced(x)
  /\ Is(d, 10, 256, 512)
Stride2Tile16(d) ==
  /\ Stride2Tried(d, "STRIDE2_PERSISTENT_TILE16_3X3")
  /\ d.ic >= 16 /\ d.ic % 16 = 0 /\ d.oc >= 16 /\ d.oc % 16 = 0
Stride2Pack8(d) ==
  /\ Stride2Tried(d, "STRIDE2_DIRECT_PACK8_3X3")
  /\ d.ic >= 64 /\ d.oc >= 128 /\ d.oc % 8 = 0 /\ Area(d) >= 100
Unstable == Enabled("UNSTABLE_KERNELS")
ExactShape(d) == Is(d, 40, 128, 128) \/ Is(d, 20, 256, 256) \/ Is(d, 10, 256, 512)
Stride2Exact(d) ==
  Unstable /\ Stride2Tried(d, "STRIDE2_DIRECT_PACK4_EXACT_3X3") /\ ExactShape(d)
SplitKStride2(d) ==
  /\ Stride2Tried(d, "SPLITK_STRIDE2_10X10_256X512_CONV3X3_SILU")
  /\ Is(d, 10, 256, 512) /\ d.ih = 20 /\ d.iw = 20
Stride2Gemm(d, dim, ic, oc) ==
  Stride2Tried(d, "EXACT_STRIDE2_IMPLICIT_GEMM_3X3") /\ Is(d, dim, ic, oc)

Conv6x6(d) ==
  /\ ~Off("6X6_STRIDE2_DIRECT_PACK4") /\ Plain(d, 6, 2, d.p)
  /\ d.ic = 3 /\ d.oc >= 16 /\ d.oc % 4 = 0 /\ Area(d) >= 6400

-----------------------------------------------------------------------------
(* The planner tries its rules in order; the last always applies. *)

Rule(when, algorithm) == [when |-> when, algorithm |-> algorithm]
Under(condition, rules) == IF condition THEN rules ELSE <<>>
FirstOf(rules) == rules[Min({i \in DOMAIN rules : rules[i].when})].algorithm

DirectRules(d, silu) == <<
  Rule(is_conv1x1_fast_path(d), "conv1x1"),
  Rule(~silu, "generic"),
  Rule(Conv6x6(d), "stride2_direct_pack4_6x6"),
  Rule(F2x2(d), "winograd_f2x2"),
  Rule(PackedWeightPos2(d), "direct_pack4_packedw_pos2"),
  Rule(TileFlow(d) /\ d.oh = 40, "tileflow_spatial_40x40_128x64"),
  Rule(TileFlow(d), "tileflow_spatial_20x20_256x64"),
  Rule(Stride2Pack4(d), "stride2_spatial3x3_pack4"),
  Rule(Stride2Tile16(d), "stride2_persistent_tile16"),
  Rule(Stride2PackedWeightOc8(d), "stride2_direct_pack4_packedw_oc8"),
  Rule(Stride2PackedWeightPos2(d), "stride2_direct_pack4_packedw_pos2"),
  Rule(Stride2Interior(d), "stride2_direct_pack4_10x10_256x512_interior"),
  Rule(Stride2PackedWeight(d), "stride2_direct_pack4_packedw"),
  Rule(Stride2Exact(d), "stride2_direct_pack4_exact"),
  Rule(Stride2Pack8(d), "stride2_direct_pack8"),
  Rule(SplitKStride2(d), "splitk_stride2_10x10_256x512"),
  Rule(Stride2DirectPack4(d), "stride2_direct_pack4"),
  Rule(DirectPack4(d), "direct_pack4"),
  Rule(SplitK10x10(d), "splitk_10x10_512x64"),
  Rule(SplitK20x20(d), "splitk_20x20_256x64") >>

Stride2GemmRules(d) == <<
  Rule(Stride2Gemm(d, 80, 32, 64), "stride2_implicit_gemm_80x80_32x64"),
  Rule(Stride2Gemm(d, 40, 128, 128), "stride2_implicit_gemm_40x40_128x128"),
  Rule(Stride2Gemm(d, 20, 128, 128), "stride2_implicit_gemm_20x20_128x128"),
  Rule(Stride2Gemm(d, 20, 256, 256), "stride2_implicit_gemm_20x20_256x256"),
  Rule(Stride2Gemm(d, 10, 256, 256), "stride2_implicit_gemm_10x10_256x256"),
  Rule(Stride2Gemm(d, 10, 256, 512), "stride2_implicit_gemm_10x10_256x512") >>

\* The 10x10 maps of 64 output channels, and the gemm of the 40x40 maps.
Map10And40Rules(d) == <<
  Rule(/\ ~Off("DIRECT_10X10_64OC_CONV3X3_SILU") /\ is_conv3x3_tiled_fast_path(d)
       /\ Map(d, 10) /\ d.oc = 64, "spatial3x3") >>
  \o Under(~Off("SHAPE_IMPLICIT_GEMM_3X3") /\ ~Off("SHAPE40") /\ ShapeGemm(d, 40), <<
       Rule(ExactGemm(d, 40, 64, 64) /\ Exact40 /\ ~Off("EXACT_40X40_64X64"),
            "implicit_gemm_40x40_64x64"),
       Rule(Tried("SHAPE40"), "implicit_gemm_40x40") >>)

Map20Rules(d) == <<
  Rule(ExactGemm(d, 20, 128, 64) /\ ~Off("EXACT_20X20_128X64"),
       "implicit_gemm_20x20_128x64"),
  Rule(/\ ExactGemm(d, 20, 256, 64) /\ Tried("EXACT_20X20_256X64")
       /\ ~Off("EXACT_20X20_256X64"), "implicit_gemm_20x20_256x64"),
  Rule(ExactGemm(d, 20, 64, 64) /\ ~Off("EXACT_20X20_64X64"), "implicit_gemm_20x20_64x64"),
  Rule(TRUE, "implicit_gemm_20x20") >>

Map10Rules(d) ==
  LET chosen(x) == Tried(x) /\ ~Off(x)
  IN Under(ExactGemm(d, 10, 256, 64) /\ ~Off("EXACT_10X10_256X64"), <<
       Rule(Unstable /\ chosen("OC4_10X10_256X64"), "implicit_gemm_10x10_256x64_oc4"),
       Rule(Unstable /\ chosen("OC2_10X10_256X64"), "implicit_gemm_10x10_256x64_oc2"),
       Rule(chosen("PERSISTENT_10X10_256X64"), "implicit_gemm_10x10_256x64_persistent"),
       Rule(TRUE, "implicit_gemm_10x10_256x64") >>)
     \o << Rule(ExactGemm(d, 10, 512, 64) /\ chosen("EXACT_10X10_512X64"),
                "implicit_gemm_10x10_512x64"),
           Rule(ExactGemm(d, 10, 128, 128) /\ ~Off("EXACT_10X10_128X128"),
                "implicit_gemm_10x10_128x128"),
           Rule(TRUE, "implicit_gemm_10x10") >>

ImplicitGemmRules(d) ==
  Under(d.s = 2, Stride2GemmRules(d))
  \o Under(~Off("SHAPE_IMPLICIT_GEMM_3X3") /\ is_conv3x3_tiled_fast_path(d),
           Under(ShapeGemm(d, 20) /\ ~Off("SHAPE20"), Map20Rules(d))
           \o Under(ShapeGemm(d, 10) /\ ~Off("SHAPE10"), Map10Rules(d)))
  \o << Rule(TRUE, "implicit_gemm") >>

plan_tileflow_conv(d, silu) ==
  FirstOf(DirectRules(d, silu)
    \o Under(/\ ~Off("IMPLICIT_GEMM_3X3") /\ ~Off("IMPLICIT_GEMM_STRIDE2_3X3")
             /\ d.s = 2, Stride2GemmRules(d))
    \o Map10And40Rules(d)
    \o Under(ImplicitGemmMatch(d), ImplicitGemmRules(d))
    \o << Rule(~is_conv3x3_tiled_fast_path(d), "generic"),
          Rule(Pack8(d), "spatial3x3_pack8"), Rule(Pack4(d), "spatial3x3_pack4"),
          Rule(TRUE, "spatial3x3") >>)

-----------------------------------------------------------------------------
(* Kernels of devices with half precision or int8 dot products. *)

NativeFp16Stride2(d, silu) ==
  /\ silu /\ device.fp16 /\ is_conv3x3_stride2_tiled_fast_path(d)
  /\ d.ic >= 32 /\ d.ic % 4 = 0 /\ d.oc % 4 = 0
PairShape(d) ==
  Plain(d, 3, 2, 1) /\ d.n = 1 /\ Is(d, 20, 256, 256) /\ d.ih = 40 /\ d.iw = 40
QuartetShape(d) ==
  Plain(d, 3, 2, 1) /\ d.n = 1 /\ Is(d, 40, 128, 128) /\ d.ih = 80 /\ d.iw = 80
PositionPairMatch(d, silu) == silu /\ device.fp16 /\ PairShape(d)
Pos2At40Match(d, silu) ==
  silu /\ device.fp16 /\ is_conv3x3_tiled_fast_path(d) /\ Is(d, 40, 64, 64)
Oc8Pos2Match(d) ==
  /\ device.fp16 /\ d.n = 1 /\ \E dim \in {10, 20, 40, 80} : Map(d, dim)
  /\ d.ic >= 64 /\ d.oc >= 64 /\ d.ic % 4 = 0 /\ d.oc % 8 = 0 /\ is_conv1x1_fast_path(d)
Measured(d) == Map(d, 10) \/ (Map(d, 20) /\ d.oc <= 128)
UseNativeFp16Stride2(d, silu) ==
  /\ ~Off("NATIVE_FP16_3X3") /\ NativeFp16Stride2(d, silu)
  /\ Tried("NATIVE_FP16_3X3") \/ Measured(d)
Int8Match(d, k) ==
  /\ device.int8 /\ d.g = 1 /\ d.ic % 4 = 0 /\ d.oc % 4 = 0
  /\ IF k = 1 THEN d.oc % 8 = 0 /\ is_conv1x1_fast_path(d)
     ELSE is_conv3x3_tiled_fast_path(d) \/ is_conv3x3_stride2_tiled_fast_path(d)

\* What a planned algorithm is checked for when it is recorded; the others
\* are taken as planned.  Both strides of int8 have the same test.
PlannedFits(c) ==
  LET d == c.d   io == c.in16 \/ c.out16
  IN CASE c.planned = "int8_dot4_conv1x1" -> Int8Match(d, 1)
       [] c.planned \in {"int8_dot4_conv3x3", "int8_dot4_conv3x3_stride2"} -> Int8Match(d, 3)
       [] c.planned = "winograd_f4x4" -> c.silu /\ F4x4(d)
       [] c.planned \in {"winograd_f2x2", "winograd_f2x2_fp32_accum"} ->
            c.silu /\ Plain(d, 3, 1, 1)
       [] c.planned = "conv1x1" -> is_conv1x1_fast_path(d)
       [] c.planned = "stride2_native_fp16_packedw" -> NativeFp16Stride2(d, c.silu)
       [] c.planned = "stride2_native_fp16_position_pair_40x40_256x256" ->
            PositionPairMatch(d, c.silu)
       [] c.planned = "stride2_native_fp16_position_quartet_80x80_128x128" ->
            c.silu /\ device.fp16 /\ QuartetShape(d)
       [] c.planned = "native_fp16_packedw_pos2_40x40_64x64" -> io \/ Pos2At40Match(d, c.silu)
       [] c.planned = "native_fp16_conv1x1_oc8_pos2" -> io \/ Oc8Pos2Match(d)
       [] OTHER -> TRUE

replay_conv_algorithm(c) ==
  IF c.planned # "none" /\ PlannedFits(c) THEN c.planned
  ELSE IF c.planned = "none" /\ UseNativeFp16Stride2(c.d, c.silu)
       THEN "stride2_native_fp16_packedw"
       ELSE plan_tileflow_conv(c.d, c.silu)

-----------------------------------------------------------------------------
(* What the autotuner is offered for a convolution. *)

enumerate_conv_candidates(d, silu) ==
  LET when(condition, names) == IF condition THEN names ELSE {}
      linear == d.dil = 1 /\ d.g = 1
  IN CASE d.k = 1 /\ d.s # 2 /\ linear ->
            {"conv1x1"}
              \cup when(Oc8Pos2Match(d), {"native_fp16_conv1x1_oc8_pos2"})
              \cup when(Int8Match(d, 1), {"int8_dot4_conv1x1"})
       [] d.k = 6 /\ d.s = 2 -> {"stride2_direct_pack4_6x6", "generic"}
       [] d.k = 3 /\ linear /\ d.p = 1 /\ d.s # 2 /\ silu ->
            {"spatial3x3_pack4", "spatial3x3_pack8", "spatial3x3", "winograd_f2x2",
             "winograd_f2x2_fp32_accum", "direct_pack4", "generic"}
              \cup when(F4x4(d), {"winograd_f4x4"})
              \cup when(ShapeGemm(d, 40), {"implicit_gemm_40x40", "implicit_gemm_40x40_64x64"})
              \cup when(ShapeGemm(d, 20),
                        {"implicit_gemm_20x20", "implicit_gemm_20x20_64x64",
                         "implicit_gemm_20x20_128x64", "implicit_gemm_20x20_256x64"})
              \cup when(ShapeGemm(d, 10),
                        {"implicit_gemm_10x10", "implicit_gemm_10x10_128x128",
                         "implicit_gemm_10x10_256x64", "implicit_gemm_10x10_256x64_persistent",
                         "implicit_gemm_10x10_256x64_oc2", "implicit_gemm_10x10_256x64_oc4",
                         "implicit_gemm_10x10_512x64"})
              \cup when(PackedWeightPos2(d), {"direct_pack4_packedw_pos2"})
              \cup when(Pos2At40Match(d, silu), {"native_fp16_packedw_pos2_40x40_64x64"})
              \cup when(Int8Match(d, 3), {"int8_dot4_conv3x3"})
       [] d.k = 3 /\ linear /\ d.s = 2 /\ silu ->
            {"stride2_direct_pack4", "generic"}
              \cup when(Stride2Pack8(d), {"stride2_direct_pack8"})
              \cup when(Stride2PackedWeight(d), {"stride2_direct_pack4_packedw"})
              \cup when(Stride2PackedWeightPos2(d), {"stride2_direct_pack4_packedw_pos2"})
              \cup when(Stride2PackedWeightOc8(d), {"stride2_direct_pack4_packedw_oc8"})
              \cup when(Stride2Exact(d), {"stride2_direct_pack4_exact"})
              \cup when(Stride2Interior(d), {"stride2_direct_pack4_10x10_256x512_interior"})
              \cup when(Map(d, 80), {"stride2_implicit_gemm_80x80_32x64",
                   "stride2_native_fp16_position_quartet_80x80_128x128",
                   "stride2_direct_pack4_packedw_pos4_80x80_128x128",
                   "stride2_position_quartet_kmajor_fp32_80x80_128x128"})
              \cup when(Map(d, 40), {"stride2_implicit_gemm_40x40_128x128",
                   "stride2_native_fp16_position_pair_40x40_256x256"})
              \cup when(Map(d, 20), {"stride2_implicit_gemm_20x20_128x128",
                   "stride2_implicit_gemm_20x20_256x256"})
              \cup when(Map(d, 10), {"stride2_implicit_gemm_10x10_256x256",
                   "stride2_implicit_gemm_10x10_256x512"})
              \cup when(NativeFp16Stride2(d, silu), {"stride2_native_fp16_packedw"})
              \cup when(Int8Match(d, 3), {"int8_dot4_conv3x3_stride2"})
       [] OTHER -> {"generic"}

\* The sizes of a convolution are positive, its parameters natural.
Positive == Nat \ {0}
Sized(x) ==
  /\ x.n \in Positive /\ x.ic \in Positive /\ x.oc \in Positive
  /\ x.oh \in Positive /\ x.ow \in Positive /\ x.ih \in Positive /\ x.iw \in Positive
  /\ x.k \in Nat /\ x.s \in Nat /\ x.p \in Nat /\ x.dil \in Nat /\ x.g \in Nat

=============================================================================
