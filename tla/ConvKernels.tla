---------------------------- MODULE ConvKernels ----------------------------
(***************************************************************************)
(* The HLSL convolution kernels of aexrt_d3d12_runtime.cpp.  A kernel is   *)
(* what a dispatch of it does to the output tensor, as a function of the   *)
(* convolution d and of the dispatched grid g = <<x, y, z>>:               *)
(*                                                                         *)
(*   writes  the index spaces whose product is the set of outputs: `need'  *)
(*           is how many coordinates the convolution has there and `reach' *)
(*           how many the threads cover, so an index space is exact when   *)
(*           the two are equal.  A dimension the shader has as a literal   *)
(*           is an index space too (Literal);                              *)
(*   sums    the same for the terms added into one output.  A kernel that  *)
(*           simply loops over every channel has no entry here;            *)
(*   weight  the layout the weight index addresses, elem the bytes of an   *)
(*           element of the weight view;                                   *)
(*   in, out how the activations are declared: "typed" (Buffer, RWBuffer:  *)
(*           the format comes from the view) or "raw" (StructuredBuffer of *)
(*           float: the bytes must be float32), "packed" for int8 words    *)
(*           and "partial" for a float scratch of partial sums.            *)
(*                                                                         *)
(* Arithmetic, activations and shared-memory staging inside a thread group *)
(* are left out; kernels and strides are square.                           *)
(***************************************************************************)
EXTENDS Integers, FiniteSetsExt

Ceil(a, b) == (a + b - 1) \div b
Least(a, b) == IF a < b THEN a ELSE b

\* `issued' coordinates are computed, those from `bound' on are discarded.
Index(need, issued, bound) == [need |-> need, reach |-> Least(issued, bound)]
Guarded(need, issued) == Index(need, issued, need)
Open(need, issued)    == Index(need, issued, issued)
Literal(dim, value)   == Open(dim, value)
Exact(axes) == \A a \in axes : a.need = a.reach

\* The geometry a specialised shader has built in.
Window(d, k, s, p) ==
  {Literal(d.k, k), Literal(d.s, s), Literal(d.p, p), Literal(d.dil, 1), Literal(d.g, 1)}
Shape(d, ic, oc, dim) ==
  {Literal(d.ic, ic), Literal(d.oc, oc), Literal(d.oh, dim), Literal(d.ow, dim)}
Source(d, dim) == {Literal(d.ih, dim), Literal(d.iw, dim)}

Kernel(writes, sums, weight, elem, in, out) ==
  [writes |-> writes, sums |-> sums, weight |-> weight, elem |-> elem,
   in |-> in, out |-> out]

Area(d) == d.oh * d.ow

-----------------------------------------------------------------------------
(* One thread per output element, the weights as the importer wrote them. *)

\* Group convolution of any geometry, with SiLU (aexrt_conv2d_silu_float32).
Conv2dSilu(d, g) ==
  LET total == d.n * d.oc * Area(d)
  IN Kernel({Guarded(total, 256 * g[1])}, {}, "oihw", 4, "raw", "raw")

\* The same without activation (aexrt_conv2d_float32).
Conv2d(d, g) ==
  LET total == d.n * d.oc * Area(d)
  IN Kernel({Guarded(total, 256 * g[1])}, {}, "oihw", 4, "raw", "raw")

\* The 1x1 convolution reads the input at its own output position and takes
\* one weight per input channel, so it has no groups.
Conv1x1(d, g) ==
  LET total == d.n * d.oc * Area(d)
  IN Kernel({Guarded(total, 256 * g[1]), Literal(d.g, 1), Literal(d.k, 1)}
              \cup {Literal(d.ih, d.oh), Literal(d.iw, d.ow)},
            {}, "oihw", 4, "typed", "typed")

\* 16x16 tiles of one output channel of one image.
Conv3x3(d, g) ==
  Kernel({Guarded(d.ow, 16 * g[1]), Guarded(d.oh, 16 * g[2]), Open(d.n * d.oc, g[3])}
           \cup Window(d, 3, 1, 1),
         {}, "oihw", 4, "raw", "raw")

\* 16x16 tiles of four output channels, input channels staged by eight.
Conv3x3Pack4(d, g) ==
  LET groups == Ceil(d.oc, 4)
  IN Kernel({Guarded(d.ow, 16 * g[1]), Guarded(d.oh, 16 * g[2]),
             Guarded(d.n * groups, g[3]), Guarded(d.oc, 4 * groups)}
              \cup Window(d, 3, 1, 1),
            {Guarded(d.ic, 8 * Ceil(d.ic, 8))}, "oihw", 4, "raw", "raw")

\* One thread per position and group of four output channels.
Conv3x3DirectPack4(d, g) ==
  LET groups == Ceil(d.oc, 4)
  IN Kernel({Guarded(d.n * groups * Area(d), 128 * g[1]), Guarded(d.oc, 4 * groups)}
              \cup Window(d, 3, 1, 1),
            {}, "oihw", 4, "raw", "raw")

\* Two neighbouring positions per thread, whole groups of four channels.
Conv3x3PackedWeightPos2(d, g) ==
  LET pairs == Area(d) \div 2   groups == d.oc \div 4
  IN Kernel({Guarded(d.n * groups * pairs, 64 * g[1]),
             Open(d.oc, 4 * groups), Open(Area(d), 2 * pairs)} \cup Window(d, 3, 1, 1),
            {}, "oc4", 16, "typed", "typed")

-----------------------------------------------------------------------------
(* Winograd transforms: a thread group per tile and 64 output channels. *)

Tiles(d, side) == (d.oh \div side) * (d.ow \div side)
WinogradOutputs(d, g, side) ==
  {Open(Tiles(d, side), g[1]), Open(d.n, g[2]),
   Open(d.oh, side * (d.oh \div side)), Open(d.ow, side * (d.ow \div side))}
    \cup Window(d, 3, 1, 1)

\* Thread t of a group handles channel oc = 64 * z + t and adds only the
\* input channels t, t + 64, ...: a slice that no later step completes.  It
\* reads one float4 per pair of channels where the packed layout has four.
\* Channels past the last are not masked at the store.
WinogradF2x2(d, g) ==
  Kernel(WinogradOutputs(d, g, 2) \cup {Open(d.oc, 64 * g[3])},
         {Index(d.ic, Ceil(d.ic, 64), d.ic)}, "quad", 16, "raw", "raw")

\* The three builds of the staged kernel: half weights on a shader model 6.2
\* device, the typed build that activations of either format use, and the
\* float32 build.  Input channels go by blocks of 64, the last one masked.
WinogradF2x2Staged(d, g, typed, fp32Accum) ==
  Kernel(WinogradOutputs(d, g, 2) \cup {Guarded(d.oc, 64 * g[3])},
         {Guarded(d.ic, 64 * Ceil(d.ic, 64))}, "wino16",
         IF fp32Accum /\ ~typed THEN 16 ELSE 8,
         IF typed THEN "typed" ELSE "raw", IF typed THEN "typed" ELSE "raw")

\* Blocks of 32 input channels, without a mask: the matcher asks for whole
\* blocks.
WinogradF4x4(d, g) ==
  Kernel(WinogradOutputs(d, g, 4) \cup {Guarded(d.oc, 64 * g[3])},
         {Open(d.ic, 32 * Ceil(d.ic, 32))}, "wino36", 8, "typed", "typed")

-----------------------------------------------------------------------------
(* Int8 kernels: words of four input channels against packed weights. *)

\* The direct kernels quantise the input themselves, four channels at a time.
Int8Direct(d, g, family) ==
  LET lanes == IF family = 1 THEN 8 ELSE 4
      groups == d.oc \div lanes
  IN Kernel({Guarded(d.n * groups * Area(d), 128 * g[1]), Open(d.oc, lanes * groups),
             Literal(d.k * d.k, family), Literal(d.g, 1)},
            {Open(d.ic, 4 * (d.ic \div 4))},
            IF family = 1 THEN "oi8" ELSE "oki8", 4, "typed", "typed")

\* The kernels over words quantised beforehand, one scale for the tensor or
\* one per sixteen channels; in words of four channels, the last of a
\* channel group of four one by one.
Int8Prequant(d, g, family) ==
  [Int8Direct(d, g, family) EXCEPT !.in = "packed"]

\* Tiles of 32 positions by 32 output channels in groupshared memory.  Input
\* words go by blocks of 32, the part of a block past the end masked.
Int8Tiled1x1(d, g) ==
  LET words == d.ic \div 4
  IN Kernel({Guarded(Area(d), 32 * g[1]), Guarded(d.oc, 32 * g[2]), Open(d.n, g[3]),
             Literal(d.k, 1), Literal(d.g, 1)},
            {Guarded(words, 32 * Ceil(words, 32)), Open(d.ic, 4 * words)},
            "oi8", 4, "packed", "typed")

\* Tiles of 8x4 positions, stride 1: the tile index unfolds into columns and
\* rows of tiles.
Int8Tiled3x3(d, g) ==
  LET words == d.ic \div 4
  IN Kernel({Guarded(Ceil(d.ow, 8) * Ceil(d.oh, 4), g[1]), Guarded(d.oc, 32 * g[2]),
             Open(d.n, g[3])} \cup Window(d, 3, 1, 1),
            {Guarded(words, 16 * Ceil(words, 16)), Open(d.ic, 4 * words)},
            "oki8", 4, "packed", "typed")

\* The same at stride 2.
Int8Tiled3x3Stride2(d, g) ==
  LET words == d.ic \div 4
  IN Kernel({Guarded(Ceil(d.ow, 8) * Ceil(d.oh, 4), g[1]), Guarded(d.oc, 32 * g[2]),
             Open(d.n, g[3])} \cup Window(d, 3, 2, 1),
            {Guarded(words, 16 * Ceil(words, 16)), Open(d.ic, 4 * words)},
            "oki8", 4, "packed", "typed")

\* Partial sums of one slice of the input words per z; partial_out has
\* k_splits slots per output element.
Int8Slices(d, g, slice) ==
  LET words == d.ic \div 4   groups == d.oc \div 4
  IN Kernel({Guarded(d.n * groups * Area(d), 128 * g[1]), Open(d.oc, 4 * groups),
             Literal(d.g, 1)},
            {Guarded(words, slice * g[3]), Open(d.ic, 4 * words)},
            IF d.k = 1 THEN "oi8" ELSE "oki8", 4, "packed", "partial")

\* Winograd partial sums: blocks of 64 input channels shared out to slices.
WinogradSlices(d, g, slices, blocksPerSlice) ==
  Kernel(WinogradOutputs(d, g, 2) \cup {Guarded(d.oc, 64 * (g[3] \div slices))},
         {Guarded(d.ic, 64 * blocksPerSlice * slices)}, "wino16", 8,
         "typed", "partial")

\* Adds the slots of one output element, then bias and activation.
CombineSlices(d, g, slices, slots) ==
  Kernel({Guarded(d.n * d.oc * Area(d), 128 * g[1])}, {Open(slots, slices)},
         "none", 0, "partial", "typed")

-----------------------------------------------------------------------------
(* Stride 2, 3x3. *)

\* 16x8 tiles of four output channels.
Conv3x3s2Pack4(d, g) ==
  LET groups == Ceil(d.oc, 4)
  IN Kernel({Guarded(d.ow, 16 * g[1]), Guarded(d.oh, 8 * g[2]),
             Guarded(d.n * groups, g[3]), Guarded(d.oc, 4 * groups)}
              \cup Window(d, 3, 2, 1),
            {}, "oihw", 4, "raw", "raw")

\* One thread per position and group of four channels, each channel masked.
Conv3x3s2DirectPack4(d, g) ==
  LET groups == Ceil(d.oc, 4)
  IN Kernel({Guarded(d.n * groups * Area(d), 128 * g[1]), Guarded(d.oc, 4 * groups)}
              \cup Window(d, 3, 2, 1),
            {}, "oihw", 4, "typed", "typed")

\* The same for whole groups of four, the weights packed by four channels.
Conv3x3s2PackedWeight(d, g) ==
  LET groups == d.oc \div 4
  IN Kernel({Guarded(d.n * groups * Area(d), 128 * g[1]), Open(d.oc, 4 * groups)}
              \cup Window(d, 3, 2, 1),
            {}, "oc4", 16, "raw", "raw")

\* The same in half precision, input channels by four without a mask.
Conv3x3s2NativeFp16PackedWeight(d, g) ==
  LET groups == d.oc \div 4
  IN Kernel({Guarded(d.n * groups * Area(d), 128 * g[1]), Open(d.oc, 4 * groups)}
              \cup Window(d, 3, 2, 1),
            {Open(d.ic, 4 * Ceil(d.ic, 4))}, "oc4", 8, "typed", "typed")

\* A group of 64 threads per pair of positions of the 20x20 map, a thread per
\* group of four of the 256 channels; k-major weights.
PositionPair(d, g) ==
  Kernel({Open(d.n * (Area(d) \div 2), g[1]), Literal(d.n, 1), Open(d.oc, 4 * 64)}
           \cup Shape(d, 256, 256, 20) \cup Source(d, 40) \cup Window(d, 3, 2, 1),
         {Literal(d.ic, 256)}, "k4", 8, "typed", "typed")

\* Half a wave per four positions, a thread per group of four of 128 channels;
\* the first position is not masked, the next three are.
Quartets(d, g) ==
  {Open(Ceil(Area(d), 4), 2 * g[1]), Literal(d.n, 1), Open(d.oc, 4 * 32)}
    \cup Window(d, 3, 2, 1)

\* Scalar k-major weights, float32 activations.
PositionQuartet(d, g) == Kernel(Quartets(d, g), {}, "k4", 4, "raw", "raw")

\* Weights by four channels, read as float4.
PackedWeightPos4(d, g) == Kernel(Quartets(d, g), {}, "oc4", 16, "raw", "raw")

\* The 40x40 map of 64 channels in half precision, two positions per thread.
Pos2At40(d, g) ==
  {Guarded(d.n * 16 * 800, 64 * g[1])}
    \cup Shape(d, 64, 64, 40) \cup Source(d, 40) \cup Window(d, 3, 1, 1)
NativeFp16Pos2At40(d, g) ==
  Kernel(Pos2At40(d, g), {Literal(d.ic, 64)}, "oc4", 8, "raw", "raw")

\* The build for activations stored as halves.
ActivationFp16Pos2At40(d, g) ==
  Kernel(Pos2At40(d, g), {Literal(d.ic, 64)}, "oc4", 8, "typed", "typed")

\* 1x1 in half precision, a thread per position and four channels; weights
\* packed by eight channels.  Input channels go by four, blocks of eight.
NativeFp16Conv1x1(d, g) ==
  LET quads == d.oc \div 4
  IN Kernel({Guarded(d.n * quads * Area(d), 128 * g[1]), Open(d.oc, 4 * quads),
             Open(d.oc, 8 * (d.oc \div 8)), Literal(d.k, 1), Literal(d.g, 1)}
              \cup {Literal(d.ih * d.iw, Area(d))},
            {Open(d.ic, 4 * Ceil(d.ic, 4))}, "oc8", 8, "raw", "raw")

\* Activations stored as halves: eight channels of two positions per thread.
ActivationFp16Conv1x1(d, g) ==
  LET groups == d.oc \div 8   pairs == Ceil(Area(d), 2)
  IN Kernel({Guarded(d.n * groups * pairs, 128 * g[1]), Guarded(Area(d), 2 * pairs),
             Open(d.oc, 8 * groups), Literal(d.k, 1), Literal(d.g, 1)}
              \cup {Literal(d.ih * d.iw, Area(d))},
            {Open(d.ic, 4 * Ceil(d.ic, 4))}, "oc8", 8, "typed", "typed")

\* Two positions per thread, the second masked; weights by four channels.
Conv3x3s2PackedWeightPos2(d, g) ==
  LET groups == d.oc \div 4   pairs == Ceil(Area(d), 2)
  IN Kernel({Guarded(d.n * groups * pairs, 128 * g[1]), Guarded(Area(d), 2 * pairs),
             Open(d.oc, 4 * groups)} \cup Window(d, 3, 2, 1),
            {}, "oc4", 16, "typed", "typed")

\* Eight channels per thread out of two packed groups, read as scalars.
Conv3x3s2PackedWeightOc8(d, g) ==
  LET groups == d.oc \div 8
  IN Kernel({Guarded(d.n * groups * Area(d), 128 * g[1]), Open(d.oc, 8 * groups)}
              \cup Window(d, 3, 2, 1),
            {}, "oc4", 4, "raw", "raw")

\* 8x4 tiles of sixteen channels, inputs and weights staged by sixteen.
Conv3x3s2Tile16(d, g) ==
  LET blocks == d.oc \div 16
  IN Kernel({Guarded(d.ow, 8 * g[1]), Guarded(d.oh, 4 * g[2]),
             Open(d.n * blocks, g[3]), Open(d.oc, 16 * blocks)} \cup Window(d, 3, 2, 1),
            {Open(d.ic, 16 * Ceil(d.ic, 16))}, "oc4", 16, "raw", "raw")

\* The 6x6 first layer: three input channels, any padding.
Conv6x6s2DirectPack4(d, g) ==
  LET groups == d.oc \div 4
  IN Kernel({Guarded(d.n * groups * Area(d), 128 * g[1]), Open(d.oc, 4 * groups),
             Literal(d.k, 6), Literal(d.s, 2), Literal(d.dil, 1), Literal(d.g, 1)},
            {Literal(d.ic, 3)}, "oihw", 4, "raw", "raw")

\* Eight channels per thread, each masked.
Conv3x3s2DirectPack8(d, g) ==
  LET groups == Ceil(d.oc, 8)
  IN Kernel({Guarded(d.n * groups * Area(d), 128 * g[1]), Guarded(d.oc, 8 * groups)}
              \cup Window(d, 3, 2, 1),
            {}, "oihw", 4, "raw", "raw")

\* Spatial sizes and output channels are macros of the selected shape.
Conv3x3s2DirectPack4Exact(d, g, oc, dim) ==
  Kernel({Guarded(d.n * (oc \div 4) * dim * dim, 128 * g[1]), Literal(d.oc, oc),
          Literal(d.oh, dim), Literal(d.ow, dim)} \cup Window(d, 3, 2, 1),
         {}, "oihw", 4, "raw", "raw")

\* The 10x10 map of 512 channels: an unmasked window inside, a masked one on
\* the border.
Conv3x3s2Interior(d, g) ==
  Kernel({Guarded(d.n * 128 * 100, 128 * g[1])}
           \cup Shape(d, 256, 512, 10) \cup Source(d, 20) \cup Window(d, 3, 2, 1),
         {Literal(d.ic, 256)}, "oihw", 4, "raw", "raw")

-----------------------------------------------------------------------------
(* Stride 1, 3x3, with or without a shape built in. *)

\* 16x16 tiles of eight output channels.
Conv3x3Pack8(d, g) ==
  LET groups == Ceil(d.oc, 8)
  IN Kernel({Guarded(d.ow, 16 * g[1]), Guarded(d.oh, 16 * g[2]),
             Guarded(d.n * groups, g[3]), Guarded(d.oc, 8 * groups)}
              \cup Window(d, 3, 1, 1),
            {}, "oihw", 4, "raw", "raw")

\* Matrix product of the weights and the unfolded input: m output channels by
\* n positions of all images per thread group, k terms at a time.
Columns(d, g, n) == {Open(d.n * Area(d), n * g[1])}
Product(d, g, m, n, k) ==
  Kernel(Columns(d, g, n) \cup {Open(d.oc, m * g[2])},
         {Open(9 * d.ic, k * Ceil(9 * d.ic, k))}, "oihw", 4, "raw", "raw")
Fixed(kernel, geometry) == [kernel EXCEPT !.writes = @ \cup geometry]

\* Any 3x3 convolution of stride 1 or 2 and one group, everything masked.
ImplicitGemm(d, g) ==
  Kernel({Guarded(d.n * Area(d), 32 * g[1]), Guarded(d.oc, 8 * g[2]), Literal(d.k, 3),
          Literal(d.g, 1)},
         {Guarded(9 * d.ic, 32 * Ceil(9 * d.ic, 32))}, "oihw", 4, "raw", "raw")

\* The map is dim x dim, the channels are the convolution's; nothing masked.
ImplicitGemmShape(d, g, dim) ==
  Fixed(Product(d, g, 16, 10, 32),
        {Literal(d.oh, dim), Literal(d.ow, dim)} \cup Window(d, 3, 1, 1))

\* Both channel counts and the map built in.
ImplicitGemmExact(d, g, dim, channels) ==
  Fixed(Product(d, g, 16, 20, 32),
        Shape(d, channels, channels, dim) \cup Window(d, 3, 1, 1))

\* Tiles depend on the shape: many input and few output channels take larger
\* ones.
ImplicitGemmExactIo(d, g, dim, ic, oc) ==
  LET large == ic >= 256 /\ oc = 64
      m == IF large THEN 16 ELSE 8
      n == IF large THEN 25 ELSE IF dim = 10 THEN 10 ELSE 20
  IN Fixed(Product(d, g, m, n, IF dim = 10 THEN 64 ELSE 32),
           Shape(d, ic, oc, dim) \cup Window(d, 3, 1, 1))

\* 10x10 tiles of eight output channels, inputs staged by sixteen channels.
TileFlowSpatial(d, g, dim, ic) ==
  Kernel({Guarded(dim, 10 * g[1]), Guarded(dim, 10 * g[2]), Guarded(d.n * 8, g[3])}
           \cup Shape(d, ic, 64, dim) \cup Window(d, 3, 1, 1),
         {Open(d.ic, 16 * Ceil(d.ic, 16))}, "oihw", 4, "raw", "raw")

Gemm10x10_256x64(d, g, m, n) ==
  Fixed(Product(d, g, m, n, 32), Shape(d, 256, 64, 10) \cup Window(d, 3, 1, 1))
ImplicitGemmPersistent(d, g) == Gemm10x10_256x64(d, g, 8, 25)
\* Two or four channels per thread.
ImplicitGemmOcBlock(d, g, outputs) == Gemm10x10_256x64(d, g, 8 * outputs, 20)

\* Stride 2, positions past the last masked.
ImplicitGemmStride2(d, g, dim, ic, oc) ==
  Kernel({Guarded(d.n * Area(d), (IF dim = 10 THEN 20 ELSE 16) * g[1]),
          Open(d.oc, 16 * g[2])}
           \cup Shape(d, ic, oc, dim) \cup Source(d, 2 * dim) \cup Window(d, 3, 2, 1),
         {Open(9 * d.ic, 32 * Ceil(9 * d.ic, 32))}, "oihw", 4, "raw", "raw")

-----------------------------------------------------------------------------
(* Split-K: z carries the image and the slice of input channels; the second *)
(* kernel adds the slices of an output element, bias and SiLU.              *)

SplitPartial(d, g, splits, ic, oc, dim) ==
  Kernel({Guarded(oc, 8 * g[2]), Guarded(dim * dim, 16 * g[1]),
          Guarded(d.n * splits, g[3])} \cup Shape(d, ic, oc, dim),
         {Literal(d.ic, 64 * splits)}, "oihw", 4, "raw", "partial")
SplitReduce(d, g, splits, slots, oc, dim) ==
  Kernel({Guarded(d.n * oc * dim * dim, 256 * g[1])}, {Literal(slots, splits)},
         "none", 0, "partial", "raw")

SplitPartial10x10_512x64(d, g) ==
  Fixed(SplitPartial(d, g, 8, 512, 64, 10), Window(d, 3, 1, 1))
SplitReduce10x10_512x64(d, g, slots) == SplitReduce(d, g, 8, slots, 64, 10)
SplitPartialStride2(d, g) ==
  Fixed(SplitPartial(d, g, 4, 256, 512, 10), Window(d, 3, 2, 1) \cup Source(d, 20))
SplitReduceStride2(d, g, slots) == SplitReduce(d, g, 4, slots, 512, 10)
SplitPartial20x20_256x64(d, g) ==
  Fixed(SplitPartial(d, g, 4, 256, 64, 20), Window(d, 3, 1, 1))
SplitReduce20x20_256x64(d, g, slots) == SplitReduce(d, g, 4, slots, 64, 20)

=============================================================================
