---------------------------- MODULE MCConvDispatch ----------------------------
(* The convolutions of the YOLO models the engine is tuned for, their         *)
(* neighbours on odd, small and wide maps, and grouped, dilated and batched   *)
(* ones; every switch on its own.  Concatenations of the YOLO models, and such  *)
(* that do not divide by the kernels' tiles, under every set of switches.     *)
EXTENDS ConcatConv

Conv(k, s, ic, oc, dim) ==
  [n |-> 1, ic |-> ic, oc |-> oc, k |-> k, s |-> s, p |-> (k - 1) \div 2, dil |-> 1, g |-> 1,
   ih |-> s * dim, iw |-> s * dim, oh |-> dim, ow |-> dim]

Points == {Conv(1, 1, x[1], x[2], x[3]) : x \in {<<64, 64, 40>>, <<128, 128, 20>>,
  <<256, 256, 10>>, <<512, 512, 10>>, <<64, 12, 13>>, <<32, 80, 20>>}}
Stride1s == {Conv(3, 1, x[1], x[2], x[3]) : x \in {<<64, 64, 40>>, <<128, 64, 40>>,
  <<64, 64, 20>>, <<128, 64, 20>>, <<128, 128, 20>>, <<256, 64, 20>>, <<64, 128, 20>>,
  <<96, 80, 20>>, <<64, 64, 10>>, <<128, 128, 10>>, <<256, 64, 10>>, <<512, 64, 10>>,
  <<256, 256, 10>>, <<128, 256, 10>>, <<64, 64, 13>>, <<64, 64, 7>>, <<3, 16, 20>>,
  <<16, 30, 20>>, <<16, 2, 80>>, <<96, 96, 40>>}}
Stride2s == {Conv(3, 2, x[1], x[2], x[3]) : x \in {<<3, 16, 160>>, <<16, 32, 80>>,
  <<32, 64, 80>>, <<128, 128, 40>>, <<128, 128, 20>>, <<256, 256, 20>>, <<256, 256, 10>>,
  <<256, 512, 10>>, <<64, 64, 7>>, <<30, 66, 20>>}}
Odd == [Conv(3, 2, 64, 128, 13) EXCEPT !.ih = 25, !.iw = 25]
OddBuiltIn == [Conv(3, 2, 256, 512, 10) EXCEPT !.ih = 19, !.iw = 19]
First == Conv(6, 2, 3, 32, 160)
Grouped(x) == [x EXCEPT !.g = 4]
Dilated(x) == [x EXCEPT !.dil = 2, !.p = 2]
Batch(x) == [x EXCEPT !.n = 2]

Shapes == Points \cup Stride1s \cup Stride2s \cup {First, Odd, OddBuiltIn}
  \cup {Grouped(Conv(1, 1, 64, 64, 20)), Grouped(Conv(3, 1, 64, 64, 20)),
        Grouped(Conv(3, 2, 64, 64, 20)), Dilated(Conv(3, 1, 64, 64, 20)),
        Batch(Conv(1, 1, 128, 128, 20)), Batch(Conv(3, 1, 64, 64, 20)),
        Batch(Conv(3, 1, 256, 64, 10)), Batch(Conv(3, 1, 64, 64, 40)),
        Batch(Conv(3, 2, 256, 256, 20))}

UnplannedCommands == {Unplanned(x, silu) : x \in Shapes, silu \in BOOLEAN}
BuiltCommands ==
  {BuiltFp32(x, silu) : x \in Shapes, silu \in BOOLEAN}
  \cup {BuiltFp16(x, silu, in16, out16) :
          x \in Shapes, silu \in BOOLEAN, in16 \in BOOLEAN, out16 \in BOOLEAN}
MappedCommands ==
  UNION {{Mapped(y[1], y[2], y[3], TRUE, half, pergroup) :
            half \in BOOLEAN, pergroup \in BOOLEAN} :
         y \in {z \in Shapes \X BOOLEAN \X MappedKernels : Suits(z[1], z[2], z[3])}}
Overrides ==
  {Overridden(x, silu, a) : x \in Shapes, silu \in BOOLEAN,
     a \in Gemms \cup Stride2Gemms}

Disabled == {
  "1X1_LTS", "3X3S2_LTS", "3X3_LTS", "6X6_STRIDE2_DIRECT_PACK4",
  "DIRECT_10X10_64OC_CONV3X3_SILU", "DIRECT_PACK4_3X3", "EXACT_10X10_128X128",
  "EXACT_10X10_256X64", "EXACT_20X20_128X64", "EXACT_20X20_64X64",
  "EXACT_CHANNEL_IMPLICIT_GEMM_3X3", "FIRSTCONV_STRIDE2_DIRECT_PACK4_3X3",
  "GENERIC_S2_ROUTE", "IMPLICIT_GEMM_3X3", "IMPLICIT_GEMM_STRIDE2_3X3", "INT8_KSPLIT",
  "INT8_PREQUANT", "NATIVE_FP16_3X3", "PACKED3X3", "S1_PACKEDW_ROUTE", "SHAPE10",
  "SHAPE20", "SHAPE_IMPLICIT_GEMM_3X3", "SPLITK_10X10_512X64_CONV3X3_SILU",
  "STRIDE1_PACKED_WEIGHT_POS2_3X3", "STRIDE2_DIRECT_PACK4_3X3", "STRIDE2_PACKEDW_ROUTE",
  "WINOGRAD_F2X2_3X3", "WINOGRAD_KSPLIT"}
Preferred == {
  "EXACT_10X10_512X64", "EXACT_20X20_256X64", "EXACT_40X40_64X64",
  "EXACT_STRIDE2_IMPLICIT_GEMM_3X3", "NATIVE_FP16_3X3", "PACK8_3X3",
  "PERSISTENT_10X10_256X64", "SHAPE40", "SPLITK_20X20_256X64_CONV3X3_SILU",
  "SPLITK_STRIDE2_10X10_256X512_CONV3X3_SILU", "STRIDE1_PACKED_WEIGHT_POS2_3X3",
  "STRIDE2_DIRECT_PACK4_10X10_256X512_INTERIOR_3X3",
  "STRIDE2_DIRECT_PACK4_PACKED_WEIGHT_3X3",
  "STRIDE2_DIRECT_PACK4_PACKED_WEIGHT_OC8_3X3",
  "STRIDE2_DIRECT_PACK4_PACKED_WEIGHT_POS2_3X3", "STRIDE2_DIRECT_PACK8_3X3",
  "STRIDE2_PACK4_3X3", "STRIDE2_PERSISTENT_TILE16_3X3", "TILEFLOW_20X20_256X64_3X3",
  "TILEFLOW_40X40_128X64_3X3", "WINOGRAD_F2X2_3X3", "WINOGRAD_GENERAL_3X3"}
Demanded == {"DIRECT_PACK4_3X3", "IMPLICIT_GEMM_3X3", "PACK8_3X3", "PACKED3X3", "SHAPE40",
             "STRIDE2_DIRECT_PACK4_PACKED_WEIGHT_3X3"}
Unstables == {"OC2_10X10_256X64", "OC4_10X10_256X64", "STRIDE2_DIRECT_PACK4_EXACT_3X3"}

\* What is behind the kernels that the planner prefers is reached by switching
\* those off first.
Cleared ==
  {{}, {"WINOGRAD_F2X2_3X3"},
   {"WINOGRAD_F2X2_3X3", "DIRECT_10X10_64OC_CONV3X3_SILU",
    "SPLITK_10X10_512X64_CONV3X3_SILU", "DIRECT_PACK4_3X3",
    "STRIDE2_DIRECT_PACK4_PACKED_WEIGHT_3X3", "STRIDE2_DIRECT_PACK4_PACKED_WEIGHT_OC8_3X3",
    "STRIDE2_DIRECT_PACK4_3X3"}}
Switch(verb, x) == {<<verb, y>> : y \in x}
MCSwitches ==
  UNION {{Switch("DISABLE", cleared \cup {x}) : x \in Disabled}
         \cup {Switch("DISABLE", cleared \ {x}) \cup Switch("ENABLE", {x}) : x \in Preferred}
         \cup {Switch("DISABLE", cleared \ {x}) \cup Switch("FORCE", {x}) : x \in Demanded}
         \cup {Switch("DISABLE", cleared) \cup Switch("ENABLE", {x, "UNSTABLE_KERNELS"}) :
                  x \in Unstables} : cleared \in Cleared}

Joins == {Joined(x[1], x[2], x[3], x[4]) : x \in {
  <<1, 80, <<32, 32>>, 64>>, <<1, 40, <<256, 256>>, 128>>, <<1, 40, <<64, 64, 64>>, 128>>,
  <<2, 20, <<64, 64>>, 128>>, <<1, 20, <<64, 64>>, 128>>, <<1, 10, <<128, 128, 128>>, 256>>,
  <<1, 13, <<64, 32>>, 64>>, <<1, 20, <<62, 66>>, 64>>, <<1, 20, <<64, 64>>, 66>>,
  <<1, 7, <<3, 5, 8>>, 7>>, <<2, 10, <<16, 16>>, 32>>}}
JoinSwitches == SUBSET (Switch("DISABLE", {"TILEFLOW_CONCAT_40X40_512X128",
  "CONCAT_CONV1X1_DIRECT_PACK4", "CONCAT_CONV1X1_VEC4", "CONCAT_CONV1X1_GEMM256"})
  \cup Switch("ENABLE", {"CONCAT_CONV1X1_GEMM"}))
JoinedCommands ==
  {JoinedUnplanned(x, silu) : x \in Joins, silu \in BOOLEAN}
  \cup {JoinedFp32(x, silu) : x \in Joins, silu \in BOOLEAN}
  \cup {JoinedFp16(x, silu, in16, out16) :
          x \in Joins, silu \in BOOLEAN, in16 \in BOOLEAN, out16 \in BOOLEAN}
  \cup {build_late_concat_conv1x1_command(x, silu, FALSE, half) :
          x \in Joins, silu \in BOOLEAN, half \in BOOLEAN}
  \cup {build_late_concat_conv1x1_command(x, silu, TRUE, half) :
          x \in {y \in Joins : Suits(y, TRUE, "native_fp16_conv1x1_oc8_pos2")},
          silu \in BOOLEAN, half \in BOOLEAN}
MCSettings ==
  (JoinedCommands \X JoinSwitches) \cup
  ((UnplannedCommands \cup BuiltCommands \cup MappedCommands) \X {{}})
    \cup (UnplannedCommands \X MCSwitches)
MCDevices == {[fp16 |-> x, int8 |-> y] : x \in BOOLEAN, y \in BOOLEAN}
MCJoined == JoinedCommands \X JoinSwitches
MCBuilt == BuiltCommands \X {{}}
MCMapped == MappedCommands \X {{}}
MCOverridden == Overrides \X {{}}

\* What the theorems about the recorder suppose is true of the commands here.
ASSUME SettingsAreOfEngines == \A x \in MCSettings : EngineCommand(x[1])

================================================================================
