----------------------------- MODULE ConcatConv -----------------------------
(***************************************************************************)
(* record_replay_concat_conv1x1 and its kernels: a 1x1 convolution over    *)
(* the concatenation of up to eight branches, which is never stored.  A    *)
(* command is one of ConvBuilder whose convolution d also has `branches',  *)
(* the channels of each; kernels 0 to 3 of the engine file are the plain   *)
(* one, direct_pack4, gemm and the one of half precision.  The weights     *)
(* begin at a multiple of four elements.                                   *)
(*                                                                         *)
(* The recorder decides with one flag per kernel, compiles in one order    *)
(* and takes the pipeline state, the grid and the views in another:        *)
(* chain holds what is compiled, and Recorded what the flags then select.  *)
(***************************************************************************)
EXTENDS ConvDispatch

Branches(x) == {x.branches[i] : i \in DOMAIN x.branches}

-----------------------------------------------------------------------------
(* The kernels, as in ConvKernels. *)

\* One thread per output element.
ConcatPlain(x, g) ==
  Kernel({Guarded(x.n * x.oc * Area(x), 256 * g[1])}, {}, "oihw", 4, "raw", "raw")

\* Four output channels per thread; the imported weights of each are read four
\* branch channels at a time.
ConcatVec4(x, g) ==
  LET quads == x.oc \div 4
  IN Kernel({Guarded(x.n * quads * Area(x), 128 * g[1]), Open(x.oc, 4 * quads)},
            {Open(b, 4 * (b \div 4)) : b \in Branches(x)}, "oihw", 16, "raw", "raw")

\* Tiles of 16 output channels by 16 positions of an image, branch channels by
\* 32 of one branch.
ConcatGemm256(x, g) ==
  Kernel({Guarded(Area(x), 16 * g[1]), Guarded(x.oc, 16 * g[2]), Open(x.n, g[3])},
         {Guarded(b, 32 * Ceil(b, 32)) : b \in Branches(x)}, "oihw", 4, "raw", "raw")

\* Tiles of 8 output channels by 32 positions of all images, channels by 32 of
\* the concatenation.
ConcatGemm(x, g) ==
  Kernel({Guarded(x.n * Area(x), 32 * g[1]), Guarded(x.oc, 8 * g[2])},
         {Guarded(x.ic, 32 * Ceil(x.ic, 32))}, "oihw", 4, "raw", "raw")

\* Four output channels per thread, each masked.
ConcatDirectPack4(x, g) ==
  LET groups == Ceil(x.oc, 4)
  IN Kernel({Guarded(x.n * groups * Area(x), 128 * g[1]), Guarded(x.oc, 4 * groups)},
            {}, "oihw", 4, "typed", "typed")

\* Eight channels of two positions per thread in half precision.
ConcatNativeFp16(x, g) ==
  LET groups == x.oc \div 8   pairs == Ceil(Area(x), 2)
  IN Kernel({Guarded(x.n * groups * pairs, 128 * g[1]), Guarded(Area(x), 2 * pairs),
             Open(x.oc, 8 * groups)},
            {Guarded(b, 4 * Ceil(b, 4)) : b \in Branches(x)}, "oc8", 8, "typed", "typed")

\* Two branches of 256 channels at 40x40, one image.
ConcatTileFlow(x, g) ==
  Kernel({Guarded(32 * 800, 128 * g[1]), Literal(x.n, 1)} \cup Shape(x, 512, 128, 40),
         {Literal(b, 256) : b \in Branches(x)} \cup {Literal(Len(x.branches), 2)},
         "oihw", 4, "raw", "raw")

-----------------------------------------------------------------------------
(* Commands. *)

Joined(n, dim, branches, oc) ==
  [n |-> n, ic |-> SumFunction(branches), oc |-> oc, k |-> 1, s |-> 1, p |-> 0,
   dil |-> 1, g |-> 1, ih |-> dim, iw |-> dim, oh |-> dim, ow |-> dim,
   branches |-> branches]
Large(x) == x.ic >= 64 /\ x.oc >= 64 /\ x.oc % 4 = 0 /\ Area(x) >= 100

_uses_native_fp16_concat_conv1x1(x, silu) ==
  /\ silu /\ x.n = 1
  /\ <<x.oh, x.oc, x.branches>> \in
       {<<80, 64, <<32, 32>>>>, <<40, 128, <<64, 64>>>>, <<40, 128, <<256, 256>>>>,
        <<40, 128, <<64, 64, 64>>>>, <<20, 128, <<64, 64>>>>,
        <<20, 128, <<64, 64, 64, 64>>>>, <<20, 256, <<128, 128, 128>>>>,
        <<10, 256, <<128, 128, 128>>>>}

JoinedUnplanned(x, silu) ==
  Command(x, silu, "unplanned", "none", FALSE, FALSE, FALSE, FALSE, FALSE)
JoinedKernel(x) == IF Large(x) THEN "concat_direct_pack4" ELSE "concat_plain"
JoinedFp32(x, silu) ==
  Command(x, silu, "built", JoinedKernel(x), FALSE, FALSE, FALSE, FALSE, FALSE)
\* Activations are not stored as halves around the plain kernel.
JoinedFp16(x, silu, in16, out16) ==
  LET native == _uses_native_fp16_concat_conv1x1(x, silu)
      kernel == IF native THEN "concat_native" ELSE JoinedKernel(x)
  IN Command(x, silu, "built", kernel, FALSE, native,
             in16 /\ kernel # "concat_plain", out16 /\ kernel # "concat_plain", FALSE)
\* A concatenation and the 1x1 convolution that alone reads it, joined when the
\* commands are executed: the convolution's plan decides.
build_late_concat_conv1x1_command(x, silu, native, half) ==
  LET kernel == IF native THEN "concat_native" ELSE JoinedKernel(x)
  IN Command(x, silu, "built", kernel, FALSE, native,
             half /\ kernel # "concat_plain", half /\ kernel # "concat_plain", FALSE)

-----------------------------------------------------------------------------
(* The flags. *)

PlannedNative == command.planned = "concat_native"
Planned == command.planned # "none"

NativeShape ==
  /\ d.n = 1 /\ d.oh = d.ow /\ d.oh \in {10, 20, 40, 80}
  /\ d.ic >= 64 /\ d.oc >= 64 /\ d.ic % 4 = 0 /\ d.oc % 8 = 0
Oc8 == engine_conv1x1_oc8_fp16_weight(command)
WantsNative == PlannedNative /\ NativeShape /\ device.fp16
UsesNative == WantsNative /\ Oc8 \in packs
UsesTileFlow ==
  /\ ~Planned /\ ~Off("TILEFLOW_CONCAT_40X40_512X128")
  /\ d.n = 1 /\ d.branches = <<256, 256>> /\ Is(d, 40, 512, 128) /\ command.silu
UsesGemm ==
  /\ ~UsesNative /\ ~UsesTileFlow
  /\ IF Planned THEN command.planned = "concat_gemm"
     ELSE /\ ~Off("CONCAT_CONV1X1_GEMM") /\ Enabled("CONCAT_CONV1X1_GEMM")
          /\ d.ic >= 64 /\ d.oc >= 32 /\ Area(d) >= 100
UsesVec4 ==
  /\ ~UsesNative /\ ~UsesTileFlow /\ ~UsesGemm /\ ~Io /\ ~Off("CONCAT_CONV1X1_VEC4")
  /\ d.oc % 4 = 0 /\ \A b \in Branches(d) : b % 4 = 0
UsesDirectPack4 ==
  /\ ~UsesNative /\ ~UsesTileFlow /\ ~UsesGemm /\ ~UsesVec4
  /\ IF Planned THEN command.planned \in {"concat_direct_pack4", "concat_native"}
     ELSE Large(d) /\ ~Off("CONCAT_CONV1X1_DIRECT_PACK4")
\* Whatever kernel is selected before it.
UsesGemm256 ==
  ~UsesVec4 /\ ~UsesDirectPack4 /\ ~Io /\ ~Off("CONCAT_CONV1X1_GEMM256")

Special == UsesNative \/ UsesTileFlow \/ UsesGemm
Selected ==
  CASE UsesNative -> "concat_native"
    [] UsesTileFlow -> "concat_tileflow"
    [] UsesGemm -> "concat_gemm"
    [] UsesDirectPack4 -> "concat_direct_pack4"
    [] ~Special /\ UsesGemm256 -> "concat_gemm256"
    [] UsesVec4 -> "concat_vec4"
    [] OTHER -> "concat_plain"

\* What is compiled, in order: a command planned for half precision ends with
\* the plain kernel.
ConcatChain ==
  <<Selected>>
    \o (CASE UsesNative -> IfNotIo(<<"concat_direct_pack4", "concat_plain">>)
          [] ~UsesNative /\ UsesGemm256 -> <<"concat_vec4", "concat_plain">>
          [] UsesVec4 -> <<"concat_plain">>
          [] OTHER -> <<>>)
    \o (IF PlannedNative /\ ~(UsesNative /\ Io) THEN <<"concat_plain">> ELSE <<>>)

\* The pipeline state that is set once the head of the chain has compiled.
\* Falling back clears the flags of the vector and blocked kernels and never
\* those of the kernels selected before them, and behind the half-precision
\* kernel that of the blocked one stays.
Recorded ==
  CASE Pipeline = Selected -> Selected
    [] Selected = "concat_native" /\ Pipeline # Selected ->
         IF Pipeline = "concat_direct_pack4" THEN Pipeline
         ELSE IF UsesGemm256 THEN "concat_gemm256" ELSE "concat_plain"
    [] Selected \in {"concat_tileflow", "concat_gemm"} /\ Pipeline # Selected -> Selected
    [] OTHER -> "concat_plain"

-----------------------------------------------------------------------------
(* Recording. *)

ChooseConcat ==
  /\ stage = "choose" /\ Concat
  /\ SameSetting
  /\ \/ WantsNative /\ Packed(Oc8) /\ UNCHANGED failed
     \/ WantsNative /\ NotPacked(Oc8)
     \/ ~WantsNative /\ UNCHANGED <<packs, failed>>
  /\ chain' = ConcatChain' /\ stage' = "compile"
  /\ UNCHANGED <<wanted, bound, commands>>

\* Views of halves only for the two kernels that read typed activations.
TypedConcat == {"concat_native", "concat_direct_pack4"}
ConcatView ==
  CASE Recorded = "concat_native" -> Uint2(Oc8)
    [] Recorded = "concat_vec4" -> Float4(Original)
    [] OTHER -> Original
CompileConcatOk ==
  /\ stage = "compile" /\ Concat
  /\ IF Io /\ Recorded \notin TypedConcat THEN stage' = "refused" ELSE stage' = "record"
  /\ bound' = ConcatView
  /\ SameSetting /\ UNCHANGED <<chain, wanted, packs, failed, commands>>

ConcatGrid(a) ==
  CASE a = "concat_native" -> Line(d.n * (d.oc \div 8) * Ceil(Area(d), 2), 128)
    [] a = "concat_tileflow" -> <<200, 1, 1>>
    [] a = "concat_gemm" -> Tiled(32, 8)
    [] a = "concat_direct_pack4" -> Line(d.n * Ceil(d.oc, 4) * Area(d), 128)
    [] a = "concat_gemm256" -> <<Ceil(Area(d), 16), Ceil(d.oc, 16), d.n>>
    [] a = "concat_vec4" -> Line(Quads * Area(d), 128)
    [] a = "concat_plain" -> Line(d.n * d.oc * Area(d), 256)

ConcatShader(a, g) ==
  CASE a = "concat_native" -> ConcatNativeFp16(d, g)
    [] a = "concat_tileflow" -> ConcatTileFlow(d, g)
    [] a = "concat_gemm" -> ConcatGemm(d, g)
    [] a = "concat_direct_pack4" -> ConcatDirectPack4(d, g)
    [] a = "concat_gemm256" -> ConcatGemm256(d, g)
    [] a = "concat_vec4" -> ConcatVec4(d, g)
    [] a = "concat_plain" -> ConcatPlain(d, g)

\* A pipeline state other than the one just compiled is there only when an
\* earlier command of the model has made it: never when it just failed.
MayExist == Recorded # Selected \/ Pipeline = Selected
NoPipeline == [ConcatPlain(d, <<0, 1, 1>>) EXCEPT !.writes = {Open(d.n * d.oc * Area(d), 0)}]
RecordConcat ==
  /\ stage = "record" /\ Concat
  /\ \E kernel \in (IF MayExist THEN {ConcatShader(Recorded, ConcatGrid(Recorded))} ELSE {})
                   \cup (IF Recorded # Pipeline THEN {NoPipeline} ELSE {}) :
       Ends(<< Dispatched(Recorded, kernel, Activation, bound, Recorded \in TypedConcat) >>)
  /\ SameSetting /\ UNCHANGED <<chain, wanted, bound, packs, failed>>

\* A failing compile and a full descriptor arena are those of ConvDispatch.
RecorderNext == Next \/ ChooseConcat \/ CompileConcatOk \/ RecordConcat
RecorderSpec == Init /\ [][RecorderNext]_vars

-----------------------------------------------------------------------------
(* The commands that engines hold: the kernel that one names is the          *)
(* builder's, the mapper's or none.                                          *)

\* The builder has kernels for square maps.
Square(x) == x.oh = x.ow

\* A command of one input.
Recordable(y) ==
  /\ Sized(y.d) /\ "branches" \notin DOMAIN y.d
  /\ \E silu \in BOOLEAN :
       \/ y = Unplanned(y.d, silu)
       \/ /\ Square(y.d)
          /\ \/ y = BuiltFp32(y.d, silu)
             \/ \E in16, out16 \in BOOLEAN : y = BuiltFp16(y.d, silu, in16, out16)
       \/ \E a \in MappedKernels, fp16Engine, half, pergroup \in BOOLEAN :
            /\ Suits(y.d, silu, a)
            /\ y = Mapped(y.d, silu, a, fp16Engine, half, pergroup)

\* A command over branches: joined when the engine is built or when its commands
\* are executed.
Branched(y) == "branches" \in DOMAIN y.d
Joinable(y) ==
  /\ Sized(y.d) /\ Branched(y) /\ y.d.branches \in Seq(Nat)
  /\ \E silu \in BOOLEAN :
       \/ y = JoinedUnplanned(y.d, silu) \/ y = JoinedFp32(y.d, silu)
       \/ \E in16, out16 \in BOOLEAN : y = JoinedFp16(y.d, silu, in16, out16)
       \/ \E native, half \in BOOLEAN :
            y = build_late_concat_conv1x1_command(y.d, silu, native, half)

EngineCommand(y) == Recordable(y) \/ Joinable(y)

\* All commands are those of engines; flags and devices are any.
EngineSettings == \A x \in Settings : EngineCommand(x[1])

=============================================================================
