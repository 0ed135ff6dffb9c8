------------------------- MODULE ConvDispatchProofs -------------------------
(*****************************************************************************)
(* Proofs about convolutions, from the kernels to what is recorded.          *)
(*                                                                           *)
(* First ConvKernels and ConvShapes: on the grid the runtime gives it, and   *)
(* on a convolution it is meant for, each kernel writes every output element *)
(* once and sums every input element once, whatever the sizes; and whichever *)
(* of the planner's rules applies first, the kernel it names computes the    *)
(* convolution.                                                              *)
(*                                                                           *)
(* Then the recorder of ConvDispatch and ConcatConv: it only tries pipelines *)
(* that compute the convolution, goes forward through them, and refuses      *)
(* nothing that the builder or the planner chose unless something failed;    *)
(* what it records computes the convolution, and reads the weights and       *)
(* activations it is bound.                                                  *)
(*****************************************************************************)
EXTENDS ConcatConv, TLAPS, WellFoundedInduction

------------------------------------------------------------------------------
(* Index ranges that reach what they need                                    *)

\* A guarded loop that its threads cover reaches exactly what it needs.
LEMMA GuardedExact ==
  ASSUME NEW a \in Nat, NEW b \in Nat, a <= b
  PROVE  Guarded(a, b).need = Guarded(a, b).reach
BY DEF Guarded, Index, Least

\* A loop without guard reaches what it needs when it has just the threads.
LEMMA OpenExact ==
  ASSUME NEW a \in Nat
  PROVE  Open(a, a).need = Open(a, a).reach
BY DEF Open, Index, Least

\* Index ranges that are exact one by one are exact together.
LEMMA ExactUnion ==
  ASSUME NEW S, NEW T, Exact(S), Exact(T)
  PROVE  Exact(S \cup T)
BY DEF Exact

\* The same for four sets of ranges.
LEMMA ExactUnions ==
  ASSUME NEW S, NEW T, NEW U, NEW V, Exact(S), Exact(T), Exact(U), Exact(V)
  PROVE  Exact(S \cup T \cup U \cup V)
BY DEF Exact

\* Rounding up to whole groups covers everything, for each group size in use.
LEMMA CeilCovers ==
  ASSUME NEW a \in Nat
  PROVE  /\ Ceil(a, 2) \in Nat /\ a <= 2 * Ceil(a, 2)
         /\ Ceil(a, 4) \in Nat /\ a <= 4 * Ceil(a, 4)
         /\ Ceil(a, 8) \in Nat /\ a <= 8 * Ceil(a, 8)
         /\ Ceil(a, 10) \in Nat /\ a <= 10 * Ceil(a, 10)
         /\ Ceil(a, 16) \in Nat /\ a <= 16 * Ceil(a, 16)
         /\ Ceil(a, 20) \in Nat /\ a <= 20 * Ceil(a, 20)
         /\ Ceil(a, 32) \in Nat /\ a <= 32 * Ceil(a, 32)
         /\ Ceil(a, 64) \in Nat /\ a <= 64 * Ceil(a, 64)
         /\ Ceil(a, 128) \in Nat /\ a <= 128 * Ceil(a, 128)
         /\ Ceil(a, 256) \in Nat /\ a <= 256 * Ceil(a, 256)
BY DEF Ceil

\* A window built into a kernel is that of a plain convolution.
LEMMA PlainWindow ==
  ASSUME NEW x, NEW k \in Nat, NEW s \in Nat, NEW p \in Nat, Plain(x, k, s, p)
  PROVE  Exact(Window(x, k, s, p))
BY DEF Plain, Window, Exact, Literal, Open, Index, Least

\* An area is a natural number.
LEMMA AreaPositive ==
  ASSUME NEW x, Sized(x)
  PROVE  Area(x) \in Nat
BY DEF Sized, Area, Positive

\* Products of naturals are natural.
LEMMA ProductNat == \A a, b \in Nat : a * b \in Nat
OBVIOUS

\* A range whose threads reach just what is needed.
Tight(a) == a.need = a.reach

\* A set of ranges is exact when each is tight.
LEMMA TightSet == ASSUME NEW S PROVE Exact(S) <=> \A a \in S : Tight(a)
BY DEF Exact, Tight

\* Ranges of equal need and reach are tight, of whichever kind.
LEMMA TightOpen ==
  ASSUME NEW a \in Nat
  PROVE  Tight(Guarded(a, a)) /\ Tight(Open(a, a)) /\ Tight(Literal(a, a))
BY GuardedExact, OpenExact DEF Tight, Literal

\* A guarded range is tight when it reaches far enough.
LEMMA TightGuard ==
  ASSUME NEW a \in Nat, NEW b \in Nat, a <= b
  PROVE  Tight(Guarded(a, b))
BY GuardedExact DEF Tight

\* Guarded tiles are tight, for each tile side in use.
LEMMA TightTiles ==
  ASSUME NEW a \in Nat
  PROVE  /\ Tight(Guarded(a, 2 * Ceil(a, 2)))
         /\ Tight(Guarded(a, 4 * Ceil(a, 4)))
         /\ Tight(Guarded(a, 8 * Ceil(a, 8)))
         /\ Tight(Guarded(a, 10 * Ceil(a, 10)))
         /\ Tight(Guarded(a, 16 * Ceil(a, 16)))
         /\ Tight(Guarded(a, 32 * Ceil(a, 32)))
         /\ Tight(Guarded(a, 64 * Ceil(a, 64)))
         /\ Tight(Guarded(a, 128 * Ceil(a, 128)))
         /\ Tight(Guarded(a, 256 * Ceil(a, 256)))
<1>1. 2 * Ceil(a, 2) \in Nat /\ a <= 2 * Ceil(a, 2)  BY CeilCovers
<1>2. 4 * Ceil(a, 4) \in Nat /\ a <= 4 * Ceil(a, 4)  BY CeilCovers
<1>3. 8 * Ceil(a, 8) \in Nat /\ a <= 8 * Ceil(a, 8)  BY CeilCovers
<1>4. 10 * Ceil(a, 10) \in Nat /\ a <= 10 * Ceil(a, 10)  BY CeilCovers
<1>5. 16 * Ceil(a, 16) \in Nat /\ a <= 16 * Ceil(a, 16)  BY CeilCovers
<1>6. 32 * Ceil(a, 32) \in Nat /\ a <= 32 * Ceil(a, 32)  BY CeilCovers
<1>7. 64 * Ceil(a, 64) \in Nat /\ a <= 64 * Ceil(a, 64)  BY CeilCovers
<1>8. 128 * Ceil(a, 128) \in Nat /\ a <= 128 * Ceil(a, 128)  BY CeilCovers
<1>9. 256 * Ceil(a, 256) \in Nat /\ a <= 256 * Ceil(a, 256)  BY CeilCovers
<1> QED  BY <1>1, <1>2, <1>3, <1>4, <1>5, <1>6, <1>7, <1>8, <1>9, TightGuard

\* The fields of a sized convolution are natural.
LEMMA SizedNats ==
  ASSUME NEW x, Sized(x)
  PROVE  /\ x.n \in Nat /\ x.ic \in Nat /\ x.oc \in Nat /\ x.oh \in Nat /\ x.ow \in Nat
         /\ x.ih \in Nat /\ x.iw \in Nat /\ x.k \in Nat /\ x.g \in Nat
         /\ Area(x) \in Nat
BY DEF Sized, Positive, Area

\* A kernel that writes every output once and sums every input once.
Computes(kn) == Exact(kn.writes) /\ Exact(kn.sums)

\* No ranges are exact.
LEMMA ExactNone == Exact({})
BY DEF Exact

\* Division without rest undoes multiplication, for the widths in use.
LEMMA Divided ==
  ASSUME NEW a \in Nat
  PROVE  /\ a \div 2 \in Nat /\ a \div 4 \in Nat /\ a \div 8 \in Nat /\ a \div 16 \in Nat
         /\ a % 2 = 0 => 2 * (a \div 2) = a
         /\ a % 4 = 0 => 4 * (a \div 4) = a
         /\ a % 8 = 0 => 8 * (a \div 8) = a
         /\ a % 16 = 0 => 16 * (a \div 16) = a
OBVIOUS

\* Nothing is rounded up when the width divides.
LEMMA CeilDivided ==
  ASSUME NEW a \in Nat
  PROVE  /\ a % 4 = 0 => 4 * Ceil(a, 4) = a
         /\ a % 16 = 0 => 16 * Ceil(a, 16) = a
         /\ a % 32 = 0 => 32 * Ceil(a, 32) = a
BY DEF Ceil

\* The sizes built into a kernel are right on the shape they were built for.
LEMMA ShapeExact ==
  ASSUME NEW x, NEW ic \in Nat, NEW oc \in Nat, NEW dim \in Nat, Is(x, dim, ic, oc)
  PROVE  Exact(Shape(x, ic, oc, dim))
BY TightSet, TightOpen DEF Shape, Is, Map

\* The input side built into a kernel is right on that input.
LEMMA SourceExact ==
  ASSUME NEW x, NEW dim \in Nat, x.ih = dim, x.iw = dim
  PROVE  Exact(Source(x, dim))
BY TightSet, TightOpen DEF Source

\* Grids of one axis.
Threads(total, perGroup) == <<Ceil(total, perGroup), 1, 1>>

\* The kernels of one thread per output element, for any convolution.
LEMMA Conv2dSiluComputes ==
  ASSUME NEW x, Sized(x)
  PROVE  Computes(Conv2dSilu(x, Threads(x.n * x.oc * Area(x), 256)))
<1> DEFINE total == x.n * x.oc * Area(x)
<1>1. total \in Nat  BY SizedNats, ProductNat
<1>2. Exact({Guarded(total, 256 * Ceil(total, 256))})  BY <1>1, TightSet, TightTiles
<1> QED  BY <1>2, ExactNone DEF Computes, Conv2dSilu, Kernel, Threads

\* The same without the activation.
LEMMA Conv2dComputes ==
  ASSUME NEW x, Sized(x)
  PROVE  Computes(Conv2d(x, Threads(x.n * x.oc * Area(x), 256)))
BY Conv2dSiluComputes DEF Conv2d, Conv2dSilu

\* One thread per output element, for pointwise convolutions.
LEMMA Conv1x1Computes ==
  ASSUME NEW x, Sized(x), Plain(x, 1, 1, 0), SameMap(x)
  PROVE  Computes(Conv1x1(x, Threads(x.n * x.oc * Area(x), 256)))
<1> DEFINE total == x.n * x.oc * Area(x)
<1>1. total \in Nat  BY SizedNats, ProductNat
<1>2. Exact({Guarded(total, 256 * Ceil(total, 256)), Literal(x.g, 1), Literal(x.k, 1)})
  BY <1>1, TightSet, TightTiles, TightOpen DEF Plain
<1>3. Exact({Literal(x.ih, x.oh), Literal(x.iw, x.ow)})
  BY TightSet, TightOpen, SizedNats DEF SameMap
<1> QED  BY <1>2, <1>3, ExactUnion, ExactNone DEF Computes, Conv1x1, Kernel, Threads

\* Tiles of 16 by 16 positions of one channel.
LEMMA Conv3x3Computes ==
  ASSUME NEW x, Sized(x), Plain(x, 3, 1, 1)
  PROVE  Computes(Conv3x3(x, <<Ceil(x.ow, 16), Ceil(x.oh, 16), x.n * x.oc>>))
<1>1. Exact({Guarded(x.ow, 16 * Ceil(x.ow, 16)), Guarded(x.oh, 16 * Ceil(x.oh, 16)),
             Open(x.n * x.oc, x.n * x.oc)})
  BY TightSet, TightTiles, TightOpen, SizedNats, ProductNat
<1> QED  BY <1>1, PlainWindow, ExactUnion, ExactNone DEF Computes, Conv3x3, Kernel

\* Tiles of 16 by 16 positions of four channels.
LEMMA Conv3x3Pack4Computes ==
  ASSUME NEW x, Sized(x), Plain(x, 3, 1, 1)
  PROVE  Computes(Conv3x3Pack4(x, <<Ceil(x.ow, 16), Ceil(x.oh, 16), x.n * Ceil(x.oc, 4)>>))
<1>1. x.n * Ceil(x.oc, 4) \in Nat  BY SizedNats, CeilCovers, ProductNat
<1>2. Exact({Guarded(x.ow, 16 * Ceil(x.ow, 16)), Guarded(x.oh, 16 * Ceil(x.oh, 16)),
             Guarded(x.n * Ceil(x.oc, 4), x.n * Ceil(x.oc, 4)),
             Guarded(x.oc, 4 * Ceil(x.oc, 4))})
  BY <1>1, TightSet, TightTiles, TightOpen, SizedNats
<1>3. Exact({Guarded(x.ic, 8 * Ceil(x.ic, 8))})  BY TightSet, TightTiles, SizedNats
<1> QED  BY <1>2, <1>3, PlainWindow, ExactUnion DEF Computes, Conv3x3Pack4, Kernel

\* Tiles of 16 by 16 positions of eight channels.
LEMMA Conv3x3Pack8Computes ==
  ASSUME NEW x, Sized(x), Plain(x, 3, 1, 1)
  PROVE  Computes(Conv3x3Pack8(x, <<Ceil(x.ow, 16), Ceil(x.oh, 16), x.n * Ceil(x.oc, 8)>>))
<1>1. x.n * Ceil(x.oc, 8) \in Nat  BY SizedNats, CeilCovers, ProductNat
<1>2. Exact({Guarded(x.ow, 16 * Ceil(x.ow, 16)), Guarded(x.oh, 16 * Ceil(x.oh, 16)),
             Guarded(x.n * Ceil(x.oc, 8), x.n * Ceil(x.oc, 8)),
             Guarded(x.oc, 8 * Ceil(x.oc, 8))})
  BY <1>1, TightSet, TightTiles, TightOpen, SizedNats
<1> QED  BY <1>2, PlainWindow, ExactUnion, ExactNone DEF Computes, Conv3x3Pack8, Kernel

\* Four channels of a position per thread.
LEMMA Conv3x3DirectPack4Computes ==
  ASSUME NEW x, Sized(x), Plain(x, 3, 1, 1)
  PROVE  Computes(Conv3x3DirectPack4(x, Threads(x.n * Ceil(x.oc, 4) * Area(x), 128)))
<1> DEFINE total == x.n * Ceil(x.oc, 4) * Area(x)
<1>1. total \in Nat  BY SizedNats, ProductNat, CeilCovers
<1>2. Exact({Guarded(total, 128 * Ceil(total, 128)), Guarded(x.oc, 4 * Ceil(x.oc, 4))})
  BY <1>1, TightSet, TightTiles, SizedNats
<1> QED
  BY <1>2, PlainWindow, ExactUnion, ExactNone DEF Computes, Conv3x3DirectPack4, Kernel, Threads

\* Four channels of two positions per thread: both must divide.
LEMMA Conv3x3PackedWeightPos2Computes ==
  ASSUME NEW x, Sized(x), Plain(x, 3, 1, 1), x.oc % 4 = 0, Area(x) % 2 = 0
  PROVE  Computes(Conv3x3PackedWeightPos2(x, Threads(x.n * (x.oc \div 4) * (Area(x) \div 2), 64)))
<1> DEFINE total == x.n * (x.oc \div 4) * (Area(x) \div 2)
<1>1. total \in Nat  BY SizedNats, ProductNat, Divided
<1>2. 4 * (x.oc \div 4) = x.oc /\ 2 * (Area(x) \div 2) = Area(x)  BY SizedNats, Divided
<1>3. Exact({Guarded(total, 64 * Ceil(total, 64)), Open(x.oc, 4 * (x.oc \div 4)),
             Open(Area(x), 2 * (Area(x) \div 2))})
  BY <1>1, <1>2, TightSet, TightTiles, TightOpen, SizedNats
<1> QED
  BY <1>3, PlainWindow, ExactUnion, ExactNone DEF Computes, Conv3x3PackedWeightPos2, Kernel, Threads

\* The output tiles of the Winograd kernels cover maps their side divides.
LEMMA WinogradExact ==
  ASSUME NEW x, Sized(x), Plain(x, 3, 1, 1), NEW side \in {2, 4}, NEW z,
         x.oh % side = 0, x.ow % side = 0
  PROVE  Exact(WinogradOutputs(x, <<(x.oh \div side) * (x.ow \div side), x.n, z>>, side))
<1> DEFINE tiles == (x.oh \div side) * (x.ow \div side)
<1>1. /\ x.oh \div side \in Nat /\ x.ow \div side \in Nat
      /\ side * (x.oh \div side) = x.oh /\ side * (x.ow \div side) = x.ow
  BY SizedNats, Divided
<1>2. tiles \in Nat  BY <1>1, ProductNat
<1>3. Exact({Open(tiles, tiles), Open(x.n, x.n), Open(x.oh, side * (x.oh \div side)),
             Open(x.ow, side * (x.ow \div side))})
  BY <1>1, <1>2, TightSet, TightOpen, SizedNats
<1> QED  BY <1>3, PlainWindow, ExactUnion DEF WinogradOutputs, Tiles

\* The staged Winograd kernels of tiles of two by two.
LEMMA WinogradF2x2StagedComputes ==
  ASSUME NEW x, Sized(x), Plain(x, 3, 1, 1), x.oh % 2 = 0, x.ow % 2 = 0, NEW typed, NEW accum
  PROVE  Computes(WinogradF2x2Staged(x, <<(x.oh \div 2) * (x.ow \div 2), x.n, Ceil(x.oc, 64)>>,
                                     typed, accum))
<1>1. Exact({Guarded(x.oc, 64 * Ceil(x.oc, 64))}) /\ Exact({Guarded(x.ic, 64 * Ceil(x.ic, 64))})
  BY TightSet, TightTiles, SizedNats
<1> QED  BY <1>1, WinogradExact, ExactUnion DEF Computes, WinogradF2x2Staged, Kernel

\* The Winograd kernel of tiles of four by four.
LEMMA WinogradF4x4Computes ==
  ASSUME NEW x, Sized(x), Plain(x, 3, 1, 1), x.oh % 4 = 0, x.ow % 4 = 0, x.ic % 32 = 0
  PROVE  Computes(WinogradF4x4(x, <<(x.oh \div 4) * (x.ow \div 4), x.n, Ceil(x.oc, 64)>>))
<1>1. 32 * Ceil(x.ic, 32) = x.ic  BY SizedNats, CeilDivided
<1>2. Exact({Guarded(x.oc, 64 * Ceil(x.oc, 64))}) /\ Exact({Open(x.ic, 32 * Ceil(x.ic, 32))})
  BY <1>1, TightSet, TightTiles, TightOpen, SizedNats
<1> QED  BY <1>2, WinogradExact, ExactUnion DEF Computes, WinogradF4x4, Kernel

\* The tile-flow kernels, on the two shapes they are built for.
LEMMA TileFlowSpatialComputes ==
  ASSUME NEW x, Sized(x), Plain(x, 3, 1, 1), NEW shape \in {<<40, 128>>, <<20, 256>>},
         Is(x, shape[1], shape[2], 64)
  PROVE  Computes(TileFlowSpatial(x, <<Ceil(x.ow, 10), Ceil(x.oh, 10), x.n * (x.oc \div 8)>>,
                                  shape[1], shape[2]))
<1> DEFINE dim == shape[1]  ic == shape[2]
<1>1. /\ dim \in Nat /\ ic \in Nat /\ x.ow = dim /\ x.oh = dim /\ x.ic = ic
      /\ 16 * Ceil(x.ic, 16) = x.ic /\ x.oc \div 8 = 8
  BY CeilDivided DEF Is, Map
<1>2. Exact({Guarded(dim, 10 * Ceil(x.ow, 10)), Guarded(dim, 10 * Ceil(x.oh, 10)),
             Guarded(x.n * 8, x.n * (x.oc \div 8))})
  BY <1>1, TightSet, TightTiles, TightOpen, SizedNats, ProductNat
<1>3. Exact({Open(x.ic, 16 * Ceil(x.ic, 16))})  BY <1>1, TightSet, TightOpen
<1>4. Exact(Shape(x, ic, 64, dim))  BY <1>1, ShapeExact
<1> QED  BY <1>2, <1>3, <1>4, PlainWindow, ExactUnion DEF Computes, TileFlowSpatial, Kernel

\* The general implicit product, for 3x3 windows without groups.
LEMMA ImplicitGemmComputes ==
  ASSUME NEW x, Sized(x), x.k = 3, x.g = 1
  PROVE  Computes(ImplicitGemm(x, <<Ceil(x.n * Area(x), 32), Ceil(x.oc, 8), 1>>))
<1>1. x.n * Area(x) \in Nat /\ 9 * x.ic \in Nat  BY SizedNats, ProductNat
<1>2. Exact({Guarded(x.n * Area(x), 32 * Ceil(x.n * Area(x), 32)),
             Guarded(x.oc, 8 * Ceil(x.oc, 8)), Literal(x.k, 3), Literal(x.g, 1)})
  BY <1>1, TightSet, TightTiles, TightOpen, SizedNats
<1>3. Exact({Guarded(9 * x.ic, 32 * Ceil(9 * x.ic, 32))})  BY <1>1, TightSet, TightTiles
<1> QED  BY <1>2, <1>3 DEF Computes, ImplicitGemm, Kernel

\* The positions n to a group and the channels m to a group come out even.
LEMMA ProductComputes ==
  ASSUME NEW x, NEW g, NEW m \in Nat, NEW n \in Nat, NEW k \in Nat, NEW geometry,
         Sized(x), n * g[1] = x.n * Area(x), m * g[2] = x.oc, k * Ceil(9 * x.ic, k) = 9 * x.ic,
         Exact(geometry)
  PROVE  Computes(Fixed(Product(x, g, m, n, k), geometry))
<1>1. x.n * Area(x) \in Nat /\ 9 * x.ic \in Nat  BY SizedNats, ProductNat
<1>2. Exact({Open(x.n * Area(x), n * g[1])}) /\ Exact({Open(x.oc, m * g[2])})
      /\ Exact({Open(9 * x.ic, k * Ceil(9 * x.ic, k))})
  BY <1>1, TightSet, TightOpen, SizedNats
<1> QED  BY <1>2, ExactUnion DEF Computes, Product, Fixed, Kernel, Columns

\* The number of positions of the maps that sizes are built in for.
LEMMA AreaOf ==
  ASSUME NEW x, NEW dim \in {10, 20, 40}, NEW ic, NEW oc, Sized(x), Is(x, dim, ic, oc)
  PROVE  /\ dim = 10 => x.n * Area(x) = 100 * x.n
         /\ dim = 20 => x.n * Area(x) = 400 * x.n
         /\ dim = 40 => x.n * Area(x) = 1600 * x.n
BY SizedNats DEF Area, Is, Map

\* The tiles of the built-in kernels divide the positions of their maps.
LEMMA TilesDivideMaps ==
  ASSUME NEW n \in Nat
  PROVE  /\ 20 * Ceil(100 * n, 20) = 100 * n /\ 25 * Ceil(100 * n, 25) = 100 * n
         /\ 20 * Ceil(400 * n, 20) = 400 * n /\ 25 * Ceil(400 * n, 25) = 400 * n
         /\ 20 * Ceil(1600 * n, 20) = 1600 * n
BY DEF Ceil

\* The products built for a map and as many channels on both sides.
LEMMA ImplicitGemmExactComputes ==
  ASSUME NEW x, Sized(x), Plain(x, 3, 1, 1),
         NEW shape \in {<<40, 64>>, <<20, 64>>, <<10, 128>>}, Is(x, shape[1], shape[2], shape[2])
  PROVE  Computes(ImplicitGemmExact(x, <<Ceil(x.n * Area(x), 20), Ceil(x.oc, 16), 1>>,
                                    shape[1], shape[2]))
<1> DEFINE dim == shape[1]  k == shape[2]  g == <<Ceil(x.n * Area(x), 20), Ceil(x.oc, 16), 1>>
<1>1. dim \in {10, 20, 40} /\ k \in {64, 128} /\ x.oc = k /\ x.ic = k  BY DEF Is
<1>2. 20 * g[1] = x.n * Area(x)
  BY <1>1, AreaOf, SizedNats, TilesDivideMaps
<1>3. 16 * g[2] = x.oc /\ 32 * Ceil(9 * x.ic, 32) = 9 * x.ic  BY <1>1 DEF Ceil
<1>4. Exact(Shape(x, k, k, dim) \cup Window(x, 3, 1, 1))
  BY <1>1, ShapeExact, PlainWindow, ExactUnion
<1> QED  BY <1>2, <1>3, <1>4, ProductComputes DEF ImplicitGemmExact

\* The products built for a map, its input and its output channels.
LEMMA ImplicitGemmExactIoComputes ==
  ASSUME NEW x, Sized(x), Plain(x, 3, 1, 1),
         NEW shape \in {<<20, 128, 20, 8>>, <<20, 256, 25, 16>>, <<10, 512, 25, 16>>},
         Is(x, shape[1], shape[2], 64)
  PROVE  Computes(ImplicitGemmExactIo(x, <<Ceil(x.n * Area(x), shape[3]), Ceil(x.oc, shape[4]), 1>>,
                                      shape[1], shape[2], 64))
<1> DEFINE dim == shape[1]  ic == shape[2]  n == shape[3]  m == shape[4]
           g == <<Ceil(x.n * Area(x), n), Ceil(x.oc, m), 1>>
           k == IF dim = 10 THEN 64 ELSE 32
<1>1. dim \in {10, 20} /\ ic \in {128, 256, 512} /\ x.oc = 64 /\ x.ic = ic  BY DEF Is
<1>2. n * g[1] = x.n * Area(x)
  <2>1. CASE dim = 20
    <3>1. x.n * Area(x) = 400 * x.n  BY <2>1, AreaOf
    <3>2. n \in {20, 25}  OBVIOUS
    <3> QED  BY <3>1, <3>2, SizedNats, TilesDivideMaps
  <2>2. CASE dim = 10
    <3>1. x.n * Area(x) = 100 * x.n  BY <2>2, AreaOf
    <3>2. n = 25  BY <2>2
    <3> QED  BY <3>1, <3>2, SizedNats, TilesDivideMaps
  <2> QED  BY <1>1, <2>1, <2>2
<1>3. m * g[2] = x.oc /\ k * Ceil(9 * x.ic, k) = 9 * x.ic  BY <1>1 DEF Ceil
<1>4. Exact(Shape(x, ic, 64, dim) \cup Window(x, 3, 1, 1))
  BY <1>1, ShapeExact, PlainWindow, ExactUnion
<1>5. /\ (IF ic >= 256 /\ 64 = 64 THEN 16 ELSE 8) = m
      /\ (IF ic >= 256 /\ 64 = 64 THEN 25 ELSE IF dim = 10 THEN 10 ELSE 20) = n
  OBVIOUS
<1> QED  BY <1>2, <1>3, <1>4, <1>5, ProductComputes DEF ImplicitGemmExactIo

\* The persistent product of the 10x10 map.
LEMMA ImplicitGemmPersistentComputes ==
  ASSUME NEW x, Sized(x), Plain(x, 3, 1, 1), Is(x, 10, 256, 64)
  PROVE  Computes(ImplicitGemmPersistent(x, <<Ceil(x.n * Area(x), 25), Ceil(x.oc, 8), 1>>))
<1> DEFINE g == <<Ceil(x.n * Area(x), 25), Ceil(x.oc, 8), 1>>
<1>1. 25 * g[1] = x.n * Area(x)  BY AreaOf, SizedNats DEF Ceil
<1>2. 8 * g[2] = x.oc /\ 32 * Ceil(9 * x.ic, 32) = 9 * x.ic  BY DEF Ceil, Is
<1>3. Exact(Shape(x, 256, 64, 10) \cup Window(x, 3, 1, 1))
  BY ShapeExact, PlainWindow, ExactUnion
<1> QED  BY <1>1, <1>2, <1>3, ProductComputes DEF ImplicitGemmPersistent, Gemm10x10_256x64

(* Stride 2. *)

\* Rounding up covers, for the two tile sides of the stride-2 products.
LEMMA CoversByTiles ==
  ASSUME NEW a \in Nat, NEW n \in {16, 20}
  PROVE  n * Ceil(a, n) \in Nat /\ a <= n * Ceil(a, n)
<1>1. CASE n = 16
  <2>1. 16 * Ceil(a, 16) \in Nat /\ a <= 16 * Ceil(a, 16)  BY CeilCovers
  <2> QED  BY <1>1, <2>1
<1>2. CASE n = 20
  <2>1. 20 * Ceil(a, 20) \in Nat /\ a <= 20 * Ceil(a, 20)  BY CeilCovers
  <2> QED  BY <1>2, <2>1
<1> QED  BY <1>1, <1>2

\* The stride-2 products built for a shape, when the input side is twice the output's.
LEMMA ImplicitGemmStride2Computes ==
  ASSUME NEW x, Sized(x), Plain(x, 3, 2, 1),
         NEW shape \in {<<80, 32, 64>>, <<40, 128, 128>>, <<20, 128, 128>>, <<20, 256, 256>>,
                        <<10, 256, 256>>, <<10, 256, 512>>},
         Is(x, shape[1], shape[2], shape[3]), x.ih = 2 * x.oh, x.iw = 2 * x.ow,
         NEW n \in Nat, n = IF shape[1] = 10 THEN 20 ELSE 16
  PROVE  Computes(ImplicitGemmStride2(x, <<Ceil(x.n * Area(x), n), Ceil(x.oc, 16), 1>>,
                                      shape[1], shape[2], shape[3]))
<1> DEFINE dim == shape[1]  ic == shape[2]  oc == shape[3]  total == x.n * Area(x)
<1>1. /\ dim \in Nat /\ ic \in Nat /\ oc \in Nat /\ n \in {16, 20}
      /\ x.ih = 2 * dim /\ x.iw = 2 * dim /\ x.oc = oc /\ x.ic = ic
  BY DEF Is, Map
<1>2. total \in Nat  BY SizedNats, ProductNat
<1>3. n * Ceil(total, n) \in Nat /\ total <= n * Ceil(total, n)
  BY <1>1, <1>2, CoversByTiles
<1>4. 16 * Ceil(x.oc, 16) = x.oc /\ 32 * Ceil(9 * x.ic, 32) = 9 * x.ic  BY <1>1 DEF Ceil
<1>5. 9 * x.ic \in Nat  BY <1>1
<1>6. Exact({Guarded(total, n * Ceil(total, n)), Open(x.oc, 16 * Ceil(x.oc, 16))})
  BY <1>2, <1>3, <1>4, TightSet, TightGuard, TightOpen, SizedNats
<1>7. Exact({Open(9 * x.ic, 32 * Ceil(9 * x.ic, 32))})  BY <1>4, <1>5, TightSet, TightOpen
<1>8. Exact(Shape(x, ic, oc, dim)) /\ Exact(Source(x, 2 * dim))
  BY <1>1, ShapeExact, SourceExact
<1> QED
  BY <1>6, <1>7, <1>8, PlainWindow, ExactUnion DEF Computes, ImplicitGemmStride2, Kernel

\* Stride 2: tiles of 16 by 8 positions of four channels.
LEMMA Conv3x3s2Pack4Computes ==
  ASSUME NEW x, Sized(x), Plain(x, 3, 2, 1)
  PROVE  Computes(Conv3x3s2Pack4(x, <<Ceil(x.ow, 16), Ceil(x.oh, 8), x.n * Ceil(x.oc, 4)>>))
<1>1. x.n * Ceil(x.oc, 4) \in Nat  BY SizedNats, CeilCovers, ProductNat
<1>2. Exact({Guarded(x.ow, 16 * Ceil(x.ow, 16)), Guarded(x.oh, 8 * Ceil(x.oh, 8)),
             Guarded(x.n * Ceil(x.oc, 4), x.n * Ceil(x.oc, 4)),
             Guarded(x.oc, 4 * Ceil(x.oc, 4))})
  BY <1>1, TightSet, TightTiles, TightOpen, SizedNats
<1> QED  BY <1>2, PlainWindow, ExactUnion, ExactNone DEF Computes, Conv3x3s2Pack4, Kernel

\* Stride 2: four channels of a position per thread.
LEMMA Conv3x3s2DirectPack4Computes ==
  ASSUME NEW x, Sized(x), Plain(x, 3, 2, 1)
  PROVE  Computes(Conv3x3s2DirectPack4(x, Threads(x.n * Ceil(x.oc, 4) * Area(x), 128)))
<1> DEFINE total == x.n * Ceil(x.oc, 4) * Area(x)
<1>1. total \in Nat  BY SizedNats, ProductNat, CeilCovers
<1>2. Exact({Guarded(total, 128 * Ceil(total, 128)), Guarded(x.oc, 4 * Ceil(x.oc, 4))})
  BY <1>1, TightSet, TightTiles, SizedNats
<1> QED
  BY <1>2, PlainWindow, ExactUnion, ExactNone DEF Computes, Conv3x3s2DirectPack4, Kernel, Threads

\* Stride 2: eight channels of a position per thread.
LEMMA Conv3x3s2DirectPack8Computes ==
  ASSUME NEW x, Sized(x), Plain(x, 3, 2, 1)
  PROVE  Computes(Conv3x3s2DirectPack8(x, Threads(x.n * Ceil(x.oc, 8) * Area(x), 128)))
<1> DEFINE total == x.n * Ceil(x.oc, 8) * Area(x)
<1>1. total \in Nat  BY SizedNats, ProductNat, CeilCovers
<1>2. Exact({Guarded(total, 128 * Ceil(total, 128)), Guarded(x.oc, 8 * Ceil(x.oc, 8))})
  BY <1>1, TightSet, TightTiles, SizedNats
<1> QED
  BY <1>2, PlainWindow, ExactUnion, ExactNone DEF Computes, Conv3x3s2DirectPack8, Kernel, Threads

\* Stride 2 with packed weights: the channels must divide by four.
LEMMA Conv3x3s2PackedWeightComputes ==
  ASSUME NEW x, Sized(x), Plain(x, 3, 2, 1), x.oc % 4 = 0
  PROVE  Computes(Conv3x3s2PackedWeight(x, Threads(x.n * (x.oc \div 4) * Area(x), 128)))
<1> DEFINE total == x.n * (x.oc \div 4) * Area(x)
<1>1. total \in Nat /\ 4 * (x.oc \div 4) = x.oc  BY SizedNats, ProductNat, Divided
<1>2. Exact({Guarded(total, 128 * Ceil(total, 128)), Open(x.oc, 4 * (x.oc \div 4))})
  BY <1>1, TightSet, TightTiles, TightOpen, SizedNats
<1> QED
  BY <1>2, PlainWindow, ExactUnion, ExactNone DEF Computes, Conv3x3s2PackedWeight, Kernel, Threads

\* The same in half precision, input channels by four too.
LEMMA NativePackedWeightComputes ==
  ASSUME NEW x, Sized(x), Plain(x, 3, 2, 1), x.oc % 4 = 0, x.ic % 4 = 0
  PROVE  Computes(Conv3x3s2NativeFp16PackedWeight(x, Threads(x.n * (x.oc \div 4) * Area(x), 128)))
<1> DEFINE total == x.n * (x.oc \div 4) * Area(x)
<1>1. total \in Nat /\ 4 * (x.oc \div 4) = x.oc /\ 4 * Ceil(x.ic, 4) = x.ic
  BY SizedNats, ProductNat, Divided, CeilDivided
<1>2. Exact({Guarded(total, 128 * Ceil(total, 128)), Open(x.oc, 4 * (x.oc \div 4))})
      /\ Exact({Open(x.ic, 4 * Ceil(x.ic, 4))})
  BY <1>1, TightSet, TightTiles, TightOpen, SizedNats
<1> QED
  BY <1>2, PlainWindow, ExactUnion DEF Computes, Conv3x3s2NativeFp16PackedWeight, Kernel, Threads

\* Packed weights, two positions per thread, the second one guarded.
LEMMA PackedWeightPos2Computes ==
  ASSUME NEW x, Sized(x), Plain(x, 3, 2, 1), x.oc % 4 = 0
  PROVE  Computes(Conv3x3s2PackedWeightPos2(x, Threads(x.n * (x.oc \div 4) * Ceil(Area(x), 2), 128)))
<1> DEFINE total == x.n * (x.oc \div 4) * Ceil(Area(x), 2)
<1>1. total \in Nat /\ 4 * (x.oc \div 4) = x.oc  BY SizedNats, ProductNat, Divided, CeilCovers
<1>2. Exact({Guarded(total, 128 * Ceil(total, 128)), Guarded(Area(x), 2 * Ceil(Area(x), 2)),
             Open(x.oc, 4 * (x.oc \div 4))})
  BY <1>1, TightSet, TightTiles, TightOpen, SizedNats
<1> QED
  BY <1>2, PlainWindow, ExactUnion, ExactNone DEF Computes, Conv3x3s2PackedWeightPos2, Kernel,
     Threads

\* Packed weights, eight channels per thread.
LEMMA PackedWeightOc8Computes ==
  ASSUME NEW x, Sized(x), Plain(x, 3, 2, 1), x.oc % 8 = 0
  PROVE  Computes(Conv3x3s2PackedWeightOc8(x, Threads(x.n * (x.oc \div 8) * Area(x), 128)))
<1> DEFINE total == x.n * (x.oc \div 8) * Area(x)
<1>1. total \in Nat /\ 8 * (x.oc \div 8) = x.oc  BY SizedNats, ProductNat, Divided
<1>2. Exact({Guarded(total, 128 * Ceil(total, 128)), Open(x.oc, 8 * (x.oc \div 8))})
  BY <1>1, TightSet, TightTiles, TightOpen, SizedNats
<1> QED
  BY <1>2, PlainWindow, ExactUnion, ExactNone DEF Computes, Conv3x3s2PackedWeightOc8, Kernel,
     Threads

\* Persistent tiles of sixteen channels.
LEMMA Tile16Computes ==
  ASSUME NEW x, Sized(x), Plain(x, 3, 2, 1), x.oc % 16 = 0, x.ic % 16 = 0
  PROVE  Computes(Conv3x3s2Tile16(x, <<Ceil(x.ow, 8), Ceil(x.oh, 4), x.n * (x.oc \div 16)>>))
<1>1. /\ x.n * (x.oc \div 16) \in Nat
      /\ 16 * (x.oc \div 16) = x.oc /\ 16 * Ceil(x.ic, 16) = x.ic
  BY SizedNats, ProductNat, Divided, CeilDivided
<1>2. Exact({Guarded(x.ow, 8 * Ceil(x.ow, 8)), Guarded(x.oh, 4 * Ceil(x.oh, 4)),
             Open(x.n * (x.oc \div 16), x.n * (x.oc \div 16)), Open(x.oc, 16 * (x.oc \div 16))})
      /\ Exact({Open(x.ic, 16 * Ceil(x.ic, 16))})
  BY <1>1, TightSet, TightTiles, TightOpen, SizedNats
<1> QED  BY <1>2, PlainWindow, ExactUnion DEF Computes, Conv3x3s2Tile16, Kernel

\* The stride-2 kernels with channels and side built in.
LEMMA DirectPack4ExactComputes ==
  ASSUME NEW x, Sized(x), Plain(x, 3, 2, 1), x.oh = x.ow
  PROVE  Computes(Conv3x3s2DirectPack4Exact(x, Threads(x.n * (x.oc \div 4) * Area(x), 128), x.oc, x.oh))
<1> DEFINE total == x.n * (x.oc \div 4) * Area(x)
<1>1. total \in Nat  BY SizedNats, ProductNat, Divided
<1>2. x.n * (x.oc \div 4) * x.oh * x.oh = total  BY SizedNats, Divided DEF Area
<1>3. Exact({Guarded(total, 128 * Ceil(total, 128)), Literal(x.oc, x.oc), Literal(x.oh, x.oh),
             Literal(x.ow, x.oh)})
  BY <1>1, TightSet, TightTiles, TightOpen, SizedNats
<1> QED
  BY <1>2, <1>3, PlainWindow, ExactUnion, ExactNone
  DEF Computes, Conv3x3s2DirectPack4Exact, Kernel, Threads

\* The stride-2 kernel without borders, on the input it is built for.
LEMMA InteriorComputes ==
  ASSUME NEW x, Sized(x), Plain(x, 3, 2, 1), Is(x, 10, 256, 512), x.ih = 20, x.iw = 20
  PROVE  Computes(Conv3x3s2Interior(x, Threads(x.n * 128 * 100, 128)))
<1> DEFINE total == x.n * 128 * 100
<1>1. total \in Nat /\ x.ic = 256  BY SizedNats DEF Is
<1>2. Exact({Guarded(total, 128 * Ceil(total, 128))}) /\ Exact({Literal(x.ic, 256)})
  BY <1>1, TightSet, TightTiles, TightOpen
<1>3. Exact(Shape(x, 256, 512, 10)) /\ Exact(Source(x, 20)) /\ Exact(Window(x, 3, 2, 1))
  BY ShapeExact, SourceExact, PlainWindow
<1> QED  BY <1>2, <1>3, ExactUnions DEF Computes, Conv3x3s2Interior, Kernel, Threads

\* Two positions per thread, everything built in.
LEMMA PositionPairComputes ==
  ASSUME NEW x, Sized(x), PairShape(x)
  PROVE  Computes(PositionPair(x, <<200, 1, 1>>))
<1>1. x.n = 1 /\ x.oc = 256 /\ x.ic = 256 /\ Area(x) = 400  BY DEF PairShape, Is, Map, Area
<1>2. Exact({Open(x.n * (Area(x) \div 2), 200), Literal(x.n, 1), Open(x.oc, 4 * 64)})
  <2>1. x.n * (Area(x) \div 2) = 200 /\ 4 * 64 = x.oc  BY <1>1
  <2> QED  BY <1>1, <2>1, TightSet, TightOpen
<1>3. Exact({Literal(x.ic, 256)})  BY <1>1, TightSet, TightOpen
<1>4. Exact(Shape(x, 256, 256, 20)) /\ Exact(Source(x, 40)) /\ Exact(Window(x, 3, 2, 1))
  BY ShapeExact, SourceExact, PlainWindow DEF PairShape
<1> QED  BY <1>2, <1>3, <1>4, ExactUnions DEF Computes, PositionPair, Kernel

\* The first layer: windows of 6x6 over three channels.
LEMMA Conv6x6Computes ==
  ASSUME NEW x, Sized(x), Plain(x, 6, 2, x.p), x.ic = 3, x.oc % 4 = 0
  PROVE  Computes(Conv6x6s2DirectPack4(x, Threads(x.n * (x.oc \div 4) * Area(x), 128)))
<1> DEFINE total == x.n * (x.oc \div 4) * Area(x)
<1>1. total \in Nat /\ 4 * (x.oc \div 4) = x.oc  BY SizedNats, ProductNat, Divided
<1>2. Exact({Guarded(total, 128 * Ceil(total, 128)), Open(x.oc, 4 * (x.oc \div 4)),
             Literal(x.k, 6), Literal(x.s, 2), Literal(x.dil, 1), Literal(x.g, 1)})
  BY <1>1, TightSet, TightTiles, TightOpen, SizedNats DEF Plain
<1>3. Exact({Literal(x.ic, 3)})  BY TightSet, TightOpen
<1> QED  BY <1>2, <1>3 DEF Computes, Conv6x6s2DirectPack4, Kernel, Threads

(* Half precision. *)

\* The two half-precision kernels of the 40x40 map.
LEMMA Pos2At40Computes ==
  ASSUME NEW x, Sized(x), Plain(x, 3, 1, 1), SameMap(x), Is(x, 40, 64, 64)
  PROVE  /\ Computes(NativeFp16Pos2At40(x, Threads(x.n * 16 * 800, 64)))
         /\ Computes(ActivationFp16Pos2At40(x, Threads(x.n * 16 * 800, 64)))
<1> DEFINE total == x.n * 16 * 800
<1>1. total \in Nat /\ x.ic = 64 /\ x.ih = 40 /\ x.iw = 40  BY SizedNats DEF Is, Map, SameMap
<1>2. Exact({Guarded(total, 64 * Ceil(total, 64))}) /\ Exact({Literal(x.ic, 64)})
  BY <1>1, TightSet, TightTiles, TightOpen
<1>3. Exact(Shape(x, 64, 64, 40)) /\ Exact(Source(x, 40)) /\ Exact(Window(x, 3, 1, 1))
  BY <1>1, ShapeExact, SourceExact, PlainWindow
<1>4. Exact(Pos2At40(x, Threads(total, 64)))  BY <1>2, <1>3, ExactUnions DEF Pos2At40, Threads
<1> QED  BY <1>2, <1>4 DEF Computes, NativeFp16Pos2At40, ActivationFp16Pos2At40, Kernel

\* A pointwise kernel may take the input's area for the output's.
LEMMA SameArea ==
  ASSUME NEW x, Sized(x), SameMap(x)
  PROVE  Exact({Literal(x.ih * x.iw, Area(x))})
BY TightSet, TightOpen, SizedNats DEF SameMap, Area

\* Pointwise in half precision, four channels per thread.
LEMMA NativeConv1x1Computes ==
  ASSUME NEW x, Sized(x), Plain(x, 1, 1, 0), SameMap(x), x.oc % 8 = 0, x.ic % 4 = 0
  PROVE  Computes(NativeFp16Conv1x1(x, Threads(x.n * (x.oc \div 4) * Area(x), 128)))
<1> DEFINE total == x.n * (x.oc \div 4) * Area(x)
<1>1. x.oc % 4 = 0  BY SizedNats
<1>2. /\ total \in Nat /\ 4 * (x.oc \div 4) = x.oc /\ 8 * (x.oc \div 8) = x.oc
      /\ 4 * Ceil(x.ic, 4) = x.ic
  BY <1>1, SizedNats, ProductNat, Divided, CeilDivided
<1>3. Exact({Guarded(total, 128 * Ceil(total, 128)), Open(x.oc, 4 * (x.oc \div 4)),
             Open(x.oc, 8 * (x.oc \div 8)), Literal(x.k, 1), Literal(x.g, 1)})
      /\ Exact({Open(x.ic, 4 * Ceil(x.ic, 4))})
  BY <1>2, TightSet, TightTiles, TightOpen, SizedNats DEF Plain
<1> QED  BY <1>3, SameArea, ExactUnion DEF Computes, NativeFp16Conv1x1, Kernel, Threads

\* Pointwise with halves as activations, eight channels of two positions.
LEMMA ActivationConv1x1Computes ==
  ASSUME NEW x, Sized(x), Plain(x, 1, 1, 0), SameMap(x), x.oc % 8 = 0, x.ic % 4 = 0
  PROVE  Computes(ActivationFp16Conv1x1(x, Threads(x.n * (x.oc \div 8) * Ceil(Area(x), 2), 128)))
<1> DEFINE total == x.n * (x.oc \div 8) * Ceil(Area(x), 2)
<1>1. total \in Nat /\ 8 * (x.oc \div 8) = x.oc /\ 4 * Ceil(x.ic, 4) = x.ic
  BY SizedNats, ProductNat, Divided, CeilDivided, CeilCovers
<1>2. Exact({Guarded(total, 128 * Ceil(total, 128)), Guarded(Area(x), 2 * Ceil(Area(x), 2)),
             Open(x.oc, 8 * (x.oc \div 8)), Literal(x.k, 1), Literal(x.g, 1)})
      /\ Exact({Open(x.ic, 4 * Ceil(x.ic, 4))})
  BY <1>1, TightSet, TightTiles, TightOpen, SizedNats DEF Plain
<1> QED  BY <1>2, SameArea, ExactUnion DEF Computes, ActivationFp16Conv1x1, Kernel, Threads

(* Int8 words of four channels. *)

\* What the int8 kernels ask of a shape.
Int8Shape(x) ==
  /\ x.g = 1 /\ x.ic % 4 = 0 /\ x.oc % 4 = 0
  /\ (x.k = 1 /\ x.oc % 8 = 0) \/ x.k = 3

\* Words of four channels are exact when four divides the channels.
LEMMA WordsExact ==
  ASSUME NEW x, Sized(x), x.ic % 4 = 0
  PROVE  Exact({Open(x.ic, 4 * (x.ic \div 4))})
<1>1. 4 * (x.ic \div 4) = x.ic  BY SizedNats, Divided
<1> QED  BY <1>1, TightSet, TightOpen, SizedNats

\* The int8 kernels of one thread per group of channels.
LEMMA Int8DirectComputes ==
  ASSUME NEW x, Sized(x), Int8Shape(x), NEW lanes, lanes = IF x.k = 1 THEN 8 ELSE 4
  PROVE  /\ Computes(Int8Direct(x, Threads(x.n * (x.oc \div lanes) * Area(x), 128), x.k * x.k))
         /\ Computes(Int8Prequant(x, Threads(x.n * (x.oc \div lanes) * Area(x), 128), x.k * x.k))
<1> DEFINE total == x.n * (x.oc \div lanes) * Area(x)
<1>1. /\ x.oc \div lanes \in Nat /\ lanes * (x.oc \div lanes) = x.oc
      /\ (IF x.k * x.k = 1 THEN 8 ELSE 4) = lanes
  BY SizedNats, Divided DEF Int8Shape
<1>2. total \in Nat /\ x.k * x.k \in Nat  BY <1>1, SizedNats, ProductNat
<1>3. Exact({Guarded(total, 128 * Ceil(total, 128)), Open(x.oc, lanes * (x.oc \div lanes)),
             Literal(x.k * x.k, x.k * x.k), Literal(x.g, 1)})
  BY <1>1, <1>2, TightSet, TightTiles, TightOpen, SizedNats DEF Int8Shape
<1>4. Exact({Open(x.ic, 4 * (x.ic \div 4))})  BY WordsExact DEF Int8Shape
<1> QED
  BY <1>1, <1>3, <1>4 DEF Computes, Int8Direct, Int8Prequant, Kernel, Threads

\* The int8 kernels of tiles of 32 by 32.
LEMMA Int8TiledComputes ==
  ASSUME NEW x, Sized(x), x.ic % 4 = 0
  PROVE  /\ x.k = 1 /\ x.g = 1 =>
              Computes(Int8Tiled1x1(x, <<Ceil(Area(x), 32), Ceil(x.oc, 32), x.n>>))
         /\ Plain(x, 3, 1, 1) =>
              Computes(Int8Tiled3x3(x, <<Ceil(x.ow, 8) * Ceil(x.oh, 4), Ceil(x.oc, 32), x.n>>))
         /\ Plain(x, 3, 2, 1) =>
              Computes(Int8Tiled3x3Stride2(x, <<Ceil(x.ow, 8) * Ceil(x.oh, 4), Ceil(x.oc, 32), x.n>>))
<1> DEFINE words == x.ic \div 4   tiles == Ceil(x.ow, 8) * Ceil(x.oh, 4)
<1>1. words \in Nat /\ tiles \in Nat  BY SizedNats, Divided, CeilCovers, ProductNat
<1>2. Tight(Open(x.ic, 4 * words))  BY WordsExact, TightSet
<1>3. Exact({Guarded(words, 32 * Ceil(words, 32)), Open(x.ic, 4 * words)})
  BY <1>1, <1>2, TightSet, TightTiles
<1>4. Exact({Guarded(words, 16 * Ceil(words, 16)), Open(x.ic, 4 * words)})
  BY <1>1, <1>2, TightSet, TightTiles
<1>5. Exact({Guarded(tiles, tiles), Guarded(x.oc, 32 * Ceil(x.oc, 32)), Open(x.n, x.n)})
  BY <1>1, TightSet, TightTiles, TightOpen, SizedNats
<1>6. ASSUME x.k = 1, x.g = 1
      PROVE  Computes(Int8Tiled1x1(x, <<Ceil(Area(x), 32), Ceil(x.oc, 32), x.n>>))
  <2>1. Exact({Guarded(Area(x), 32 * Ceil(Area(x), 32)), Guarded(x.oc, 32 * Ceil(x.oc, 32)),
               Open(x.n, x.n), Literal(x.k, 1), Literal(x.g, 1)})
    BY <1>6, TightSet, TightTiles, TightOpen, SizedNats
  <2> QED  BY <2>1, <1>3 DEF Computes, Int8Tiled1x1, Kernel
<1>7. ASSUME Plain(x, 3, 1, 1)
      PROVE  Computes(Int8Tiled3x3(x, <<tiles, Ceil(x.oc, 32), x.n>>))
  BY <1>4, <1>5, <1>7, PlainWindow, ExactUnion DEF Computes, Int8Tiled3x3, Kernel
<1>8. ASSUME Plain(x, 3, 2, 1)
      PROVE  Computes(Int8Tiled3x3Stride2(x, <<tiles, Ceil(x.oc, 32), x.n>>))
  BY <1>4, <1>5, <1>8, PlainWindow, ExactUnion DEF Computes, Int8Tiled3x3Stride2, Kernel
<1> QED  BY <1>6, <1>7, <1>8

(* Partial sums and the kernels that add them. *)

\* A product with a factor of four, divided by four.
LEMMA QuarterOfProduct ==
  ASSUME NEW n \in Nat, NEW q \in Nat, NEW a \in Nat
  PROVE  (n * (4 * q) * a) \div 4 = n * q * a
<1> DEFINE t == n * q * a
<1>1. t \in Nat  BY ProductNat
<1>2. n * (4 * q) * a = 4 * t  OBVIOUS
<1>3. \A m \in Nat : (4 * m) \div 4 = m  OBVIOUS
<1> QED  BY <1>1, <1>2, <1>3

\* The first pass of the sliced int8 kernels.
LEMMA Int8SlicesComputes ==
  ASSUME NEW x, Sized(x), Int8Shape(x)
  PROVE  Computes(Int8Slices(x, <<Ceil((x.n * x.oc * Area(x)) \div 4, 128), 1, 4>>,
                             Ceil(x.ic \div 4, 4)))
<1> DEFINE words == x.ic \div 4   groups == x.oc \div 4   total == x.n * groups * Area(x)
<1>1. words \in Nat /\ groups \in Nat /\ 4 * groups = x.oc
  BY SizedNats, Divided DEF Int8Shape
<1>2. total \in Nat  BY <1>1, SizedNats, ProductNat
<1>3. (x.n * x.oc * Area(x)) \div 4 = total  BY <1>1, QuarterOfProduct, SizedNats
<1>4. Tight(Guarded(words, Ceil(words, 4) * 4))
  <2>1. Ceil(words, 4) * 4 = 4 * Ceil(words, 4)  BY <1>1, CeilCovers
  <2> QED  BY <1>1, <2>1, TightTiles
<1>5. Tight(Open(x.ic, 4 * words))  BY WordsExact, TightSet DEF Int8Shape
<1>6. Exact({Guarded(words, Ceil(words, 4) * 4), Open(x.ic, 4 * words)})
  BY <1>4, <1>5, TightSet
<1>7. Exact({Guarded(total, 128 * Ceil(total, 128)), Open(x.oc, 4 * groups), Literal(x.g, 1)})
  BY <1>1, <1>2, TightSet, TightTiles, TightOpen, SizedNats DEF Int8Shape
<1> QED  BY <1>3, <1>6, <1>7 DEF Computes, Int8Slices, Kernel

\* The pass that adds up four slices.
LEMMA CombineSlicesComputes ==
  ASSUME NEW x, Sized(x)
  PROVE  Computes(CombineSlices(x, Threads(x.n * x.oc * Area(x), 128), 4, 4))
<1> DEFINE total == x.n * x.oc * Area(x)
<1>1. total \in Nat  BY SizedNats, ProductNat
<1>2. Exact({Guarded(total, 128 * Ceil(total, 128))}) /\ Exact({Open(4, 4)})
  BY <1>1, TightSet, TightTiles, TightOpen
<1> QED  BY <1>2 DEF Computes, CombineSlices, Kernel, Threads

\* The first pass of the sliced Winograd kernel.
LEMMA WinogradSlicesComputes ==
  ASSUME NEW x, Sized(x), Plain(x, 3, 1, 1), x.oh % 2 = 0, x.ow % 2 = 0
  PROVE  Computes(WinogradSlices(x, <<(x.oh \div 2) * (x.ow \div 2), x.n, Ceil(x.oc, 64) * 4>>,
                                 4, Ceil(Ceil(x.ic, 64), 4)))
<1> DEFINE k == Ceil(x.oc, 64)  b == Ceil(x.ic, 64)
<1>1. k \in Nat /\ b \in Nat /\ x.oc <= 64 * k /\ x.ic <= 64 * b  BY SizedNats, CeilCovers
<1>2. Ceil(b, 4) \in Nat /\ b <= 4 * Ceil(b, 4)  BY <1>1, CeilCovers
<1>3. (k * 4) \div 4 = k
  <2>1. \A m \in Nat : (m * 4) \div 4 = m  OBVIOUS
  <2> QED  BY <1>1, <2>1
<1>4. Exact({Guarded(x.oc, 64 * ((k * 4) \div 4))})
  BY <1>3, TightSet, TightTiles, SizedNats
<1>5. 64 * Ceil(b, 4) * 4 \in Nat /\ x.ic <= 64 * Ceil(b, 4) * 4
  <2> HIDE DEF b
  <2> QED  BY <1>1, <1>2, SizedNats
<1>6. Exact({Guarded(x.ic, 64 * Ceil(b, 4) * 4)})  BY <1>5, TightSet, TightGuard, SizedNats
<1> QED  BY <1>4, <1>6, WinogradExact, ExactUnion DEF Computes, WinogradSlices, Kernel

\* The first pass of the split-K kernels, 64 channels to a split.
LEMMA SplitPartialComputes ==
  ASSUME NEW x, Sized(x), NEW splits \in Nat, NEW ic \in Nat, NEW oc \in Nat, NEW dim \in Nat,
         Is(x, dim, ic, oc), ic = 64 * splits, NEW geometry, Exact(geometry)
  PROVE  Computes(Fixed(SplitPartial(x, <<Ceil(Area(x), 16), Ceil(x.oc, 8), x.n * splits>>,
                                     splits, ic, oc, dim), geometry))
<1>1. x.oc = oc /\ x.ic = ic /\ dim * dim = Area(x) /\ x.n * splits \in Nat
  BY SizedNats, ProductNat DEF Is, Map, Area
<1>2. Exact({Guarded(oc, 8 * Ceil(x.oc, 8)), Guarded(dim * dim, 16 * Ceil(Area(x), 16)),
             Guarded(x.n * splits, x.n * splits)})
  BY <1>1, TightSet, TightTiles, TightOpen, SizedNats
<1>3. Exact({Literal(x.ic, 64 * splits)})  BY <1>1, TightSet, TightOpen
<1> QED  BY <1>2, <1>3, ShapeExact, ExactUnion DEF Computes, SplitPartial, Fixed, Kernel

\* The pass that adds up the splits.
LEMMA SplitReduceComputes ==
  ASSUME NEW x, Sized(x), NEW splits \in Nat, NEW ic, NEW oc, NEW dim, Is(x, dim, ic, oc)
  PROVE  Computes(SplitReduce(x, Threads(x.n * x.oc * Area(x), 256), splits, splits, oc, dim))
<1> DEFINE total == x.n * x.oc * Area(x)
<1>1. total \in Nat  BY SizedNats, ProductNat
<1>2. x.n * oc * dim * dim = total  BY SizedNats DEF Is, Map, Area
<1>3. Exact({Guarded(total, 256 * Ceil(total, 256))}) /\ Exact({Literal(splits, splits)})
  BY <1>1, TightSet, TightTiles, TightOpen
<1> QED  BY <1>2, <1>3 DEF Computes, SplitReduce, Kernel, Threads

------------------------------------------------------------------------------
(* What a pipeline asks of a command                                         *)

\* Names of pipelines by what they compute and how.
Int8Names == Int8Kernels \cup {"int8_prequantised"}
Points1 == {"conv1x1"} \cup Conv1x1Halves
HalfAt40 == {"native_fp16_packedw_pos2_40x40_64x64", "native_fp16_packedw_pos2_40x40_64x64_io"}
Pair == "stride2_native_fp16_position_pair_40x40_256x256"
Staged == {"winograd_f2x2", "winograd_f2x2_native", "winograd_f2x2_io", "winograd_f2x2_fp32_accum"}
Spatial == Stride1Kernels \cup Staged \cup HalfAt40 \cup (Gemms \ {"implicit_gemm"})
  \cup {"spatial3x3", "spatial3x3_pack4", "spatial3x3_pack8", "splitk_10x10_512x64",
        "splitk_20x20_256x64"}
Strided == Stride2Kernels \cup Stride2Gemms
  \cup {"stride2_native_fp16_packedw", Pair, "splitk_stride2_10x10_256x512"}
First6 == "stride2_direct_pack4_6x6"
Names == Spatial \cup Strided \cup Points1 \cup Int8Names
  \cup {"generic", "implicit_gemm", First6}

\* Kernels that take channels by four.
ByFour == {"direct_pack4_packedw_pos2", "stride2_direct_pack4_packedw",
           "stride2_direct_pack4_packedw_pos2", First6}

\* The sizes built into the kernel of a pipeline are those of the convolution.
BuiltIn(x, a) ==
  /\ a = "tileflow_spatial_40x40_128x64" => Is(x, 40, 128, 64)
  /\ a = "tileflow_spatial_20x20_256x64" => Is(x, 20, 256, 64)
  /\ a = "implicit_gemm_40x40_64x64" => Is(x, 40, 64, 64)
  /\ a = "implicit_gemm_20x20_64x64" => Is(x, 20, 64, 64)
  /\ a = "implicit_gemm_20x20_128x64" => Is(x, 20, 128, 64)
  /\ a = "implicit_gemm_20x20_256x64" => Is(x, 20, 256, 64)
  /\ a = "implicit_gemm_10x10_128x128" => Is(x, 10, 128, 128)
  /\ a = "implicit_gemm_10x10_512x64" => Is(x, 10, 512, 64)
  /\ a = "implicit_gemm_10x10_256x64_persistent" => Is(x, 10, 256, 64)
  /\ a = "stride2_implicit_gemm_80x80_32x64" => Is(x, 80, 32, 64)
  /\ a = "stride2_implicit_gemm_40x40_128x128" => Is(x, 40, 128, 128)
  /\ a = "stride2_implicit_gemm_20x20_128x128" => Is(x, 20, 128, 128)
  /\ a = "stride2_implicit_gemm_20x20_256x256" => Is(x, 20, 256, 256)
  /\ a = "stride2_implicit_gemm_10x10_256x256" => Is(x, 10, 256, 256)
  /\ a = "stride2_implicit_gemm_10x10_256x512" => Is(x, 10, 256, 512)
  /\ a = "stride2_direct_pack4_10x10_256x512_interior" => Is(x, 10, 256, 512)
  /\ a = "splitk_10x10_512x64" => Is(x, 10, 512, 64)
  /\ a = "splitk_20x20_256x64" => Is(x, 20, 256, 64)
  /\ a = "splitk_stride2_10x10_256x512" => Is(x, 10, 256, 512) /\ x.ih = 20 /\ x.iw = 20
  /\ a \in HalfAt40 => Is(x, 40, 64, 64) /\ SameMap(x)
  /\ a = Pair => PairShape(x)

\* The channels and positions a kernel takes at once divide those of the convolution.
Divides(x, a) ==
  /\ a \in ByFour => x.oc % 4 = 0
  /\ a = "stride2_native_fp16_packedw" => x.oc % 4 = 0 /\ x.ic % 4 = 0
  /\ a = "stride2_direct_pack4_packedw_oc8" => x.oc % 8 = 0
  /\ a = "stride2_persistent_tile16" => x.oc % 16 = 0 /\ x.ic % 16 = 0
  /\ a \in Conv1x1Halves => x.oc % 8 = 0 /\ x.ic % 4 = 0
  /\ a \in Staged => x.oh % 2 = 0 /\ x.ow % 2 = 0
  /\ a = "stride2_direct_pack4_exact" => x.oh = x.ow

\* The window, stride, padding and groups a kernel computes are the convolution's.
Geometry(x, a) ==
  /\ a \in Spatial => Plain(x, 3, 1, 1)
  /\ a \in Strided => Plain(x, 3, 2, 1)
  /\ a \in Points1 => Plain(x, 1, 1, 0) /\ SameMap(x)
  /\ a = First6 => Plain(x, 6, 2, x.p) /\ x.ic = 3
  /\ a = "implicit_gemm" => x.k = 3 /\ x.g = 1
  /\ a = "winograd_f4x4" => F4x4(x)
  /\ a \in Int8Names =>
       Int8Shape(x) /\ (x.k = 1 \/ Plain(x, 3, 1, 1) \/ Plain(x, 3, 2, 1))

\* A command with halves at one end.
Halved(y) == y.in16 \/ y.out16

\* The activation, element types and planned kernel a pipeline is meant for.
Meant(y, fp16, a) ==
  /\ a \notin LinearBuilds \cup Int8Names => y.silu
  /\ a \in Int8Names => /\ y.planned \in Int8Kernels
                        /\ y.planned = "int8_dot4_conv1x1" <=> y.d.k = 1
  /\ a \in Conv1x1Halves => y.planned = "native_fp16_conv1x1_oc8_pos2"
  /\ a = Pair => y.planned = Pair
  /\ a \in HalfAt40 => y.planned = "native_fp16_packedw_pos2_40x40_64x64"
  /\ a \in {"stride2_native_fp16_packedw", Pair} => fp16
  /\ a = "winograd_f2x2_native" => y.native
  /\ a \in {"winograd_f2x2_io", "native_fp16_packedw_pos2_40x40_64x64_io",
            "native_fp16_conv1x1_oc8_pos2_io"} => Halved(y)

\* A pipeline that computes the convolution of a command on a device.
Apt(y, fp16, a) ==
  /\ a \in Names
  /\ Geometry(y.d, a) /\ Divides(y.d, a) /\ BuiltIn(y.d, a) /\ Meant(y, fp16, a)

\* All of those.
Apts(y, fp16) == {a \in Names : Apt(y, fp16, a)}

\* A set of naturals has a least member.
LEMMA LeastIndex ==
  ASSUME NEW S, S \subseteq Nat, S # {}
  PROVE  Min(S) \in S /\ \A i \in S : Min(S) <= i
<1> DEFINE R == {p \in Nat \X Nat : p[1] < p[2]}
<1>1. IsWellFoundedOn(R, Nat)  BY NatLessThanWellFounded DEF OpToRel
<1>2. \E i \in S : \A j \in S : ~(<<j, i>> \in R)
  <2> HIDE DEF R
  <2> QED  BY <1>1, WFMin
<1>3. PICK i \in S : \A j \in S : ~(<<j, i>> \in R)  BY <1>2
<1>4. \A j \in S : i <= j
  <2> SUFFICES ASSUME NEW j \in S PROVE i <= j  OBVIOUS
  <2>1. i \in Nat /\ j \in Nat /\ ~(<<j, i>> \in R)  BY <1>3
  <2> QED  BY <2>1
<1> QED  BY <1>4 DEF Min

\* The first rule that applies names a member of A when the rules up to one that
\* applies do.
LEMMA FirstOfFinds ==
  ASSUME NEW rules, NEW A, NEW k \in Nat \ {0}, DOMAIN rules \subseteq Nat,
         k \in DOMAIN rules, rules[k].when,
         \A i \in DOMAIN rules : i <= k /\ rules[i].when => rules[i].algorithm \in A
  PROVE  FirstOf(rules) \in A
<1> DEFINE fire == {i \in DOMAIN rules : rules[i].when}
<1>1. fire \subseteq Nat /\ k \in fire  OBVIOUS
<1>2. Min(fire) \in fire /\ Min(fire) <= k  BY <1>1, LeastIndex
<1> QED  BY <1>2 DEF FirstOf

\* Rules that name an apt pipeline whenever they apply.
Sound(y, fp16) ==
  {r \in [when : BOOLEAN, algorithm : Names] : r.when => r.algorithm \in Apts(y, fp16)}

\* A rule is sound when its condition makes its pipeline apt.
LEMMA SoundRule ==
  ASSUME NEW y, NEW fp16, NEW when \in BOOLEAN, NEW a \in Names, when => Apt(y, fp16, a)
  PROVE  Rule(when, a) \in Sound(y, fp16)
BY DEF Sound, Rule, Apts

\* Planner: the products for stride 2.
LEMMA Stride2GemmRulesSound ==
  ASSUME NEW y, NEW fp16, y.silu
  PROVE  Stride2GemmRules(y.d) \in Seq(Sound(y, fp16))
<1> DEFINE x == y.d
<1> USE DEF Apt, Geometry, Divides, BuiltIn, Meant, Names, Strided, Spatial, Points1, Int8Names,
         First6, Stride2Gemms, Stride2Kernels, Stride1Kernels, Staged, HalfAt40, Gemms, Pair,
         Conv1x1Halves, Int8Kernels, ByFour, LinearBuilds, Stride2Gemm, Stride2Tried, Stride2,
         is_conv3x3_stride2_tiled_fast_path
<1>1. Rule(Stride2Gemm(x, 80, 32, 64), "stride2_implicit_gemm_80x80_32x64") \in Sound(y, fp16)
  BY SoundRule
<1>2. Rule(Stride2Gemm(x, 40, 128, 128), "stride2_implicit_gemm_40x40_128x128") \in Sound(y, fp16)
  BY SoundRule
<1>3. Rule(Stride2Gemm(x, 20, 128, 128), "stride2_implicit_gemm_20x20_128x128") \in Sound(y, fp16)
  BY SoundRule
<1>4. Rule(Stride2Gemm(x, 20, 256, 256), "stride2_implicit_gemm_20x20_256x256") \in Sound(y, fp16)
  BY SoundRule
<1>5. Rule(Stride2Gemm(x, 10, 256, 256), "stride2_implicit_gemm_10x10_256x256") \in Sound(y, fp16)
  BY SoundRule
<1>6. Rule(Stride2Gemm(x, 10, 256, 512), "stride2_implicit_gemm_10x10_256x512") \in Sound(y, fp16)
  BY SoundRule
<1> QED
  <2> HIDE DEF Apt, Stride2Gemm
  <2> QED BY <1>1, <1>2, <1>3, <1>4, <1>5, <1>6 DEF Stride2GemmRules

\* Planner: pointwise and unactivated convolutions.
LEMMA PointRulesSound ==
  ASSUME NEW y, NEW fp16
  PROVE  /\ Rule(is_conv1x1_fast_path(y.d), "conv1x1") \in Sound(y, fp16)
         /\ Rule(~y.silu, "generic") \in Sound(y, fp16)
<1> USE DEF Apt, Geometry, Divides, BuiltIn, Meant, Names, Strided, Spatial, Points1, Int8Names,
         First6, Stride2Gemms, Stride2Kernels, Stride1Kernels, Staged, HalfAt40, Gemms, Pair,
         Conv1x1Halves, Int8Kernels, ByFour, LinearBuilds, is_conv1x1_fast_path,
         is_conv3x3_tiled_fast_path, is_conv3x3_stride2_tiled_fast_path,
         is_conv3x3_implicit_gemm_fast_path
<1> QED  BY SoundRule

\* Planner: the rules tried before the shapes.  Only the one for tile-flow at 40x40
\* needs what is tried before it.
LEMMA DirectRulesSound ==
  ASSUME NEW y, NEW fp16, y.silu
  PROVE  /\ ~(TileFlow(y.d) /\ y.d.oh = 40) => DirectRules(y.d, y.silu) \in Seq(Sound(y, fp16))
         /\ \A i \in 1 .. 6 : DirectRules(y.d, y.silu)[i] \in Sound(y, fp16)
         /\ DirectRules(y.d, y.silu)[6].when <=> TileFlow(y.d) /\ y.d.oh = 40
         /\ Len(DirectRules(y.d, y.silu)) = 20
<1> DEFINE x == y.d
<1>1. /\ (Conv6x6(x)) \in BOOLEAN
      /\ (F2x2(x)) \in BOOLEAN
      /\ (PackedWeightPos2(x)) \in BOOLEAN
      /\ (TileFlow(x) /\ x.oh = 40) \in BOOLEAN
      /\ (Stride2Pack4(x)) \in BOOLEAN
      /\ (Stride2Tile16(x)) \in BOOLEAN
      /\ (Stride2PackedWeightOc8(x)) \in BOOLEAN
      /\ (Stride2PackedWeightPos2(x)) \in BOOLEAN
      /\ (Stride2Interior(x)) \in BOOLEAN
      /\ (Stride2PackedWeight(x)) \in BOOLEAN
      /\ (Stride2Exact(x)) \in BOOLEAN
      /\ (Stride2Pack8(x)) \in BOOLEAN
      /\ (SplitKStride2(x)) \in BOOLEAN
      /\ (Stride2DirectPack4(x)) \in BOOLEAN
      /\ (DirectPack4(x)) \in BOOLEAN
      /\ (SplitK10x10(x)) \in BOOLEAN
      /\ (SplitK20x20(x)) \in BOOLEAN
  BY DEF Conv6x6, F2x2, PackedWeightPos2, TileFlow, Stride2Pack4, Stride2Tried, Stride2,
     Stride2Tile16, Stride2PackedWeightOc8, Stride2PackedWeightPos2, Stride2Interior,
     Stride2PackedWeight, Stride2Exact, Stride2Pack8, SplitKStride2, Stride2DirectPack4,
     DirectPack4, SplitK10x10, SplitK20x20
<1>2. /\ "stride2_direct_pack4_6x6" \in Names
      /\ "winograd_f2x2" \in Names
      /\ "direct_pack4_packedw_pos2" \in Names
      /\ "tileflow_spatial_40x40_128x64" \in Names
      /\ "stride2_spatial3x3_pack4" \in Names
      /\ "stride2_persistent_tile16" \in Names
      /\ "stride2_direct_pack4_packedw_oc8" \in Names
      /\ "stride2_direct_pack4_packedw_pos2" \in Names
      /\ "stride2_direct_pack4_10x10_256x512_interior" \in Names
      /\ "stride2_direct_pack4_packedw" \in Names
      /\ "stride2_direct_pack4_exact" \in Names
      /\ "stride2_direct_pack8" \in Names
      /\ "splitk_stride2_10x10_256x512" \in Names
      /\ "stride2_direct_pack4" \in Names
      /\ "direct_pack4" \in Names
      /\ "splitk_10x10_512x64" \in Names
      /\ "splitk_20x20_256x64" \in Names
  BY DEF Names, Strided, Spatial, Stride1Kernels, Stride2Kernels, Staged, First6
<1> USE DEF Apt, Geometry, Divides, BuiltIn, Meant, Names, Strided, Spatial, Points1, Int8Names,
         First6, Stride2Gemms, Stride2Kernels, Stride1Kernels, Staged, HalfAt40, Gemms, Pair,
         Conv1x1Halves, Int8Kernels, ByFour, LinearBuilds, is_conv1x1_fast_path,
         is_conv3x3_tiled_fast_path, is_conv3x3_stride2_tiled_fast_path,
         is_conv3x3_implicit_gemm_fast_path
<1>3. Conv6x6(x) => Apt(y, fp16, "stride2_direct_pack4_6x6")
  BY DEF Conv6x6
<1>4. F2x2(x) => Apt(y, fp16, "winograd_f2x2")
  BY DEF F2x2, Is, Map
<1>5. PackedWeightPos2(x) => Apt(y, fp16, "direct_pack4_packedw_pos2")
  BY DEF PackedWeightPos2, Is
<1>6. TileFlow(x) /\ x.oh = 40 => Apt(y, fp16, "tileflow_spatial_40x40_128x64")
  BY DEF TileFlow, Is, Map
<1>7. Stride2Pack4(x) => Apt(y, fp16, "stride2_spatial3x3_pack4")
  BY DEF Stride2Pack4, Stride2Tried, Stride2
<1>8. Stride2Tile16(x) => Apt(y, fp16, "stride2_persistent_tile16")
  BY DEF Stride2Tile16, Stride2Tried, Stride2
<1>9. Stride2PackedWeightOc8(x) => Apt(y, fp16, "stride2_direct_pack4_packedw_oc8")
  BY DEF Stride2PackedWeightOc8, Stride2, Is
<1>10. Stride2PackedWeightPos2(x) => Apt(y, fp16, "stride2_direct_pack4_packedw_pos2")
  BY DEF Stride2PackedWeightPos2, Stride2Tried, Stride2, Is
<1>11. Stride2Interior(x) => Apt(y, fp16, "stride2_direct_pack4_10x10_256x512_interior")
  BY DEF Stride2Interior, Stride2Tried, Stride2
<1>12. Stride2PackedWeight(x) => Apt(y, fp16, "stride2_direct_pack4_packedw")
  BY DEF Stride2PackedWeight, Stride2
<1>13. Stride2Exact(x) => Apt(y, fp16, "stride2_direct_pack4_exact")
  BY DEF Stride2Exact, ExactShape, Stride2Tried, Stride2, Is, Map
<1>14. Stride2Pack8(x) => Apt(y, fp16, "stride2_direct_pack8")
  BY DEF Stride2Pack8, Stride2Tried, Stride2
<1>15. SplitKStride2(x) => Apt(y, fp16, "splitk_stride2_10x10_256x512")
  BY DEF SplitKStride2, Stride2Tried, Stride2
<1>16. Stride2DirectPack4(x) => Apt(y, fp16, "stride2_direct_pack4")
  BY DEF Stride2DirectPack4, Stride2
<1>17. DirectPack4(x) => Apt(y, fp16, "direct_pack4")
  BY DEF DirectPack4
<1>18. SplitK10x10(x) => Apt(y, fp16, "splitk_10x10_512x64")
  BY DEF SplitK10x10
<1>19. SplitK20x20(x) => Apt(y, fp16, "splitk_20x20_256x64")
  BY DEF SplitK20x20
<1> HIDE DEF Apt, Geometry, Divides, BuiltIn, Meant, Names, Strided, Spatial, Points1, Int8Names,
         First6, Stride2Gemms, Stride2Kernels, Stride1Kernels, Staged, HalfAt40, Gemms, Pair,
         Conv1x1Halves, Int8Kernels, ByFour, LinearBuilds, is_conv1x1_fast_path,
         is_conv3x3_tiled_fast_path, is_conv3x3_stride2_tiled_fast_path,
         is_conv3x3_implicit_gemm_fast_path
<1>20. Rule(Conv6x6(x), "stride2_direct_pack4_6x6") \in Sound(y, fp16)
  BY <1>1, <1>2, <1>3, SoundRule
<1>21. Rule(F2x2(x), "winograd_f2x2") \in Sound(y, fp16)
  BY <1>1, <1>2, <1>4, SoundRule
<1>22. Rule(PackedWeightPos2(x), "direct_pack4_packedw_pos2") \in Sound(y, fp16)
  BY <1>1, <1>2, <1>5, SoundRule
<1>23. Rule(TileFlow(x) /\ x.oh = 40, "tileflow_spatial_40x40_128x64") \in Sound(y, fp16)
  BY <1>1, <1>2, <1>6, SoundRule
<1>24. Rule(Stride2Pack4(x), "stride2_spatial3x3_pack4") \in Sound(y, fp16)
  BY <1>1, <1>2, <1>7, SoundRule
<1>25. Rule(Stride2Tile16(x), "stride2_persistent_tile16") \in Sound(y, fp16)
  BY <1>1, <1>2, <1>8, SoundRule
<1>26. Rule(Stride2PackedWeightOc8(x), "stride2_direct_pack4_packedw_oc8") \in Sound(y, fp16)
  BY <1>1, <1>2, <1>9, SoundRule
<1>27. Rule(Stride2PackedWeightPos2(x), "stride2_direct_pack4_packedw_pos2") \in Sound(y, fp16)
  BY <1>1, <1>2, <1>10, SoundRule
<1>28. Rule(Stride2Interior(x), "stride2_direct_pack4_10x10_256x512_interior") \in Sound(y, fp16)
  BY <1>1, <1>2, <1>11, SoundRule
<1>29. Rule(Stride2PackedWeight(x), "stride2_direct_pack4_packedw") \in Sound(y, fp16)
  BY <1>1, <1>2, <1>12, SoundRule
<1>30. Rule(Stride2Exact(x), "stride2_direct_pack4_exact") \in Sound(y, fp16)
  BY <1>1, <1>2, <1>13, SoundRule
<1>31. Rule(Stride2Pack8(x), "stride2_direct_pack8") \in Sound(y, fp16)
  BY <1>1, <1>2, <1>14, SoundRule
<1>32. Rule(SplitKStride2(x), "splitk_stride2_10x10_256x512") \in Sound(y, fp16)
  BY <1>1, <1>2, <1>15, SoundRule
<1>33. Rule(Stride2DirectPack4(x), "stride2_direct_pack4") \in Sound(y, fp16)
  BY <1>1, <1>2, <1>16, SoundRule
<1>34. Rule(DirectPack4(x), "direct_pack4") \in Sound(y, fp16)
  BY <1>1, <1>2, <1>17, SoundRule
<1>35. Rule(SplitK10x10(x), "splitk_10x10_512x64") \in Sound(y, fp16)
  BY <1>1, <1>2, <1>18, SoundRule
<1>36. Rule(SplitK20x20(x), "splitk_20x20_256x64") \in Sound(y, fp16)
  BY <1>1, <1>2, <1>19, SoundRule
<1>37. Rule(is_conv1x1_fast_path(x), "conv1x1") \in Sound(y, fp16)
       /\ Rule(~y.silu, "generic") \in Sound(y, fp16)
  BY PointRulesSound
<1>38. ASSUME ~(TileFlow(x) /\ x.oh = 40)
        PROVE  DirectRules(x, y.silu) \in Seq(Sound(y, fp16))
  <2>1. Rule(TileFlow(x), "tileflow_spatial_20x20_256x64") \in Sound(y, fp16)
    <3>1. TileFlow(x) => Apt(y, fp16, "tileflow_spatial_20x20_256x64")
      BY <1>38 DEF TileFlow, Is, Map, Apt, Geometry, Divides, BuiltIn, Meant, Names, Strided,
         Spatial, Points1, Int8Names,
         First6, Stride2Gemms, Stride2Kernels, Stride1Kernels, Staged, HalfAt40, Gemms, Pair,
         Conv1x1Halves, Int8Kernels, ByFour, LinearBuilds, is_conv1x1_fast_path,
         is_conv3x3_tiled_fast_path, is_conv3x3_stride2_tiled_fast_path,
         is_conv3x3_implicit_gemm_fast_path
    <3>2. TileFlow(x) \in BOOLEAN  BY DEF TileFlow
    <3>3. "tileflow_spatial_20x20_256x64" \in Names  BY DEF Names, Spatial, Stride1Kernels
    <3> QED  BY <3>1, <3>2, <3>3, SoundRule
  <2> QED
      BY <1>37, <2>1, <1>20, <1>21, <1>22, <1>23, <1>24, <1>25, <1>26, <1>27, <1>28, <1>29, <1>30,
         <1>31, <1>32, <1>33, <1>34, <1>35, <1>36 DEF DirectRules
<1>39. \A i \in 1 .. 6 : DirectRules(x, y.silu)[i] \in Sound(y, fp16)
  <2> SUFFICES ASSUME NEW i \in 1 .. 6 PROVE DirectRules(x, y.silu)[i] \in Sound(y, fp16)
    OBVIOUS
  <2>1. i = 1 \/ i = 2 \/ i = 3 \/ i = 4 \/ i = 5 \/ i = 6  OBVIOUS
  <2> QED  BY <1>37, <2>1, <1>20, <1>21, <1>22, <1>23 DEF DirectRules
<1>40. DirectRules(x, y.silu)[6].when <=> TileFlow(x) /\ x.oh = 40
  BY <1>1 DEF DirectRules, Rule
<1>41. Len(DirectRules(x, y.silu)) = 20  BY DEF DirectRules
<1> QED  BY <1>38, <1>39, <1>40, <1>41

\* The rules of the shape-specialised gemms: the shape gives the window.
LEMMA ShapeGemmApt ==
  ASSUME NEW y, NEW fp16, y.silu, is_conv3x3_tiled_fast_path(y.d),
         NEW a \in (Gemms \ {"implicit_gemm"}) \cup {"spatial3x3", "spatial3x3_pack4", "spatial3x3_pack8"},
         BuiltIn(y.d, a)
  PROVE  a \in Names /\ Apt(y, fp16, a)
BY DEF Apt, Geometry, Divides, BuiltIn, Meant, Names, Strided, Spatial, Points1, Int8Names,
         First6, Stride2Gemms, Stride2Kernels, Stride1Kernels, Staged, HalfAt40, Gemms, Pair,
         Conv1x1Halves, Int8Kernels, ByFour, LinearBuilds, is_conv1x1_fast_path,
         is_conv3x3_tiled_fast_path, is_conv3x3_stride2_tiled_fast_path,
         is_conv3x3_implicit_gemm_fast_path

\* Planner: a rule for a stride-1 kernel is sound when the built-in sizes are right.
LEMMA ShapeRule ==
  ASSUME NEW y, NEW fp16, y.silu, is_conv3x3_tiled_fast_path(y.d),
         NEW a \in (Gemms \ {"implicit_gemm"}) \cup {"spatial3x3", "spatial3x3_pack4", "spatial3x3_pack8"},
         NEW when \in BOOLEAN, when => BuiltIn(y.d, a)
  PROVE  Rule(when, a) \in Sound(y, fp16)
<1>1. a \in Names /\ (when => Apt(y, fp16, a))
  <2>1. a \in Names  BY DEF Names, Spatial
  <2> QED  BY <2>1, ShapeGemmApt
<1> QED  BY <1>1, SoundRule

\* Planner: the products with sizes built in are tried on those sizes.
LEMMA ExactGemmIs ==
  ASSUME NEW x, NEW dim, NEW ic, NEW oc
  PROVE  ExactGemm(x, dim, ic, oc) \in BOOLEAN /\ (ExactGemm(x, dim, ic, oc) => Is(x, dim, ic, oc))
BY DEF ExactGemm

\* Planner: the rules for all maps and those of 10x10 and 40x40.
LEMMA Map10And40RulesSound ==
  ASSUME NEW y, NEW fp16, y.silu
  PROVE  Map10And40Rules(y.d) \in Seq(Sound(y, fp16))
<1> DEFINE x == y.d
           small == ~Off("DIRECT_10X10_64OC_CONV3X3_SILU") /\ is_conv3x3_tiled_fast_path(x)
                      /\ Map(x, 10) /\ x.oc = 64
           exact == ExactGemm(x, 40, 64, 64) /\ Exact40 /\ ~Off("EXACT_40X40_64X64")
           on == ~Off("SHAPE_IMPLICIT_GEMM_3X3") /\ ~Off("SHAPE40") /\ ShapeGemm(x, 40)
           gemms == << Rule(exact, "implicit_gemm_40x40_64x64"),
                       Rule(Tried("SHAPE40"), "implicit_gemm_40x40") >>
<1>1. BuiltIn(x, "spatial3x3") /\ BuiltIn(x, "implicit_gemm_40x40")
      /\ (Is(x, 40, 64, 64) => BuiltIn(x, "implicit_gemm_40x40_64x64"))
  BY DEF BuiltIn, HalfAt40, Pair
<1>2. {"implicit_gemm_40x40_64x64", "implicit_gemm_40x40"} \subseteq Gemms \ {"implicit_gemm"}
  BY DEF Gemms
<1>3. small \in BOOLEAN /\ exact \in BOOLEAN /\ Tried("SHAPE40") \in BOOLEAN  BY DEF Tried
<1>4. Rule(small, "spatial3x3") \in Sound(y, fp16)
  <2>1. "spatial3x3" \in Names  BY DEF Names, Spatial
  <2> QED  BY <1>1, <1>3, <2>1, ShapeGemmApt, SoundRule
<1>5. ASSUME on PROVE gemms \in Seq(Sound(y, fp16))
  <2>1. is_conv3x3_tiled_fast_path(x)  BY <1>5 DEF ShapeGemm
  <2>2. Rule(exact, "implicit_gemm_40x40_64x64") \in Sound(y, fp16)
    BY <1>1, <1>2, <1>3, <2>1, ShapeRule, ExactGemmIs
  <2>3. Rule(Tried("SHAPE40"), "implicit_gemm_40x40") \in Sound(y, fp16)
    BY <1>1, <1>2, <1>3, <2>1, ShapeRule
  <2> QED  BY <2>2, <2>3
<1>6. Under(on, gemms) \in Seq(Sound(y, fp16))
  <2> HIDE DEF gemms
  <2> QED  BY <1>5 DEF Under
<1>7. Map10And40Rules(x) = << Rule(small, "spatial3x3") >> \o Under(on, gemms)
  BY DEF Map10And40Rules
<1> HIDE DEF small, gemms, on
<1> QED  BY <1>4, <1>6, <1>7

\* Planner: the rules for the 20x20 map.
LEMMA Map20RulesSound ==
  ASSUME NEW y, NEW fp16, y.silu, ShapeGemm(y.d, 20)
  PROVE  Map20Rules(y.d) \in Seq(Sound(y, fp16))
<1> DEFINE x == y.d
           r1 == ExactGemm(x, 20, 128, 64) /\ ~Off("EXACT_20X20_128X64")
           r2 == ExactGemm(x, 20, 256, 64) /\ Tried("EXACT_20X20_256X64") /\ ~Off("EXACT_20X20_256X64")
           r3 == ExactGemm(x, 20, 64, 64) /\ ~Off("EXACT_20X20_64X64")
<1>1. is_conv3x3_tiled_fast_path(x)  BY DEF ShapeGemm
<1>2. BuiltIn(x, "implicit_gemm_20x20")
      /\ (Is(x, 20, 128, 64) => BuiltIn(x, "implicit_gemm_20x20_128x64"))
      /\ (Is(x, 20, 256, 64) => BuiltIn(x, "implicit_gemm_20x20_256x64"))
      /\ (Is(x, 20, 64, 64) => BuiltIn(x, "implicit_gemm_20x20_64x64"))
  BY DEF BuiltIn, HalfAt40, Pair
<1>3. {"implicit_gemm_20x20", "implicit_gemm_20x20_128x64", "implicit_gemm_20x20_256x64",
       "implicit_gemm_20x20_64x64"} \subseteq Gemms \ {"implicit_gemm"}
  BY DEF Gemms
<1>4. Rule(r1, "implicit_gemm_20x20_128x64") \in Sound(y, fp16)
  BY <1>1, <1>2, <1>3, ShapeRule, ExactGemmIs
<1>5. Rule(r2, "implicit_gemm_20x20_256x64") \in Sound(y, fp16)
  BY <1>1, <1>2, <1>3, ShapeRule, ExactGemmIs
<1>6. Rule(r3, "implicit_gemm_20x20_64x64") \in Sound(y, fp16)
  BY <1>1, <1>2, <1>3, ShapeRule, ExactGemmIs
<1>7. Rule(TRUE, "implicit_gemm_20x20") \in Sound(y, fp16)
  BY <1>1, <1>2, <1>3, ShapeRule
<1>8. Map20Rules(x) = <<Rule(r1, "implicit_gemm_20x20_128x64"), Rule(r2, "implicit_gemm_20x20_256x64"),
                        Rule(r3, "implicit_gemm_20x20_64x64"), Rule(TRUE, "implicit_gemm_20x20")>>
  BY DEF Map20Rules
<1>9. \A S, a1, a2, a3, a4 : a1 \in S /\ a2 \in S /\ a3 \in S /\ a4 \in S => <<a1, a2, a3, a4>> \in Seq(S)
  OBVIOUS
<1> QED  BY <1>4, <1>5, <1>6, <1>7, <1>8, <1>9

\* Planner: the rules for the 10x10 map.
LEMMA Map10RulesSound ==
  ASSUME NEW y, NEW fp16, y.silu, ShapeGemm(y.d, 10)
  PROVE  Map10Rules(y.d) \in Seq(Sound(y, fp16))
<1> DEFINE x == y.d
           chosen(z) == Tried(z) /\ ~Off(z)
           on == ExactGemm(x, 10, 256, 64) /\ ~Off("EXACT_10X10_256X64")
           blocks == <<
             Rule(Unstable /\ chosen("OC4_10X10_256X64"), "implicit_gemm_10x10_256x64_oc4"),
             Rule(Unstable /\ chosen("OC2_10X10_256X64"), "implicit_gemm_10x10_256x64_oc2"),
             Rule(chosen("PERSISTENT_10X10_256X64"), "implicit_gemm_10x10_256x64_persistent"),
             Rule(TRUE, "implicit_gemm_10x10_256x64") >>
           r1 == ExactGemm(x, 10, 512, 64) /\ chosen("EXACT_10X10_512X64")
           r2 == ExactGemm(x, 10, 128, 128) /\ ~Off("EXACT_10X10_128X128")
           others == << Rule(r1, "implicit_gemm_10x10_512x64"),
                        Rule(r2, "implicit_gemm_10x10_128x128"),
                        Rule(TRUE, "implicit_gemm_10x10") >>
<1>1. is_conv3x3_tiled_fast_path(x)  BY DEF ShapeGemm
<1>2. /\ BuiltIn(x, "implicit_gemm_10x10") /\ BuiltIn(x, "implicit_gemm_10x10_256x64")
      /\ BuiltIn(x, "implicit_gemm_10x10_256x64_oc2") /\ BuiltIn(x, "implicit_gemm_10x10_256x64_oc4")
      /\ Is(x, 10, 256, 64) => BuiltIn(x, "implicit_gemm_10x10_256x64_persistent")
      /\ Is(x, 10, 512, 64) => BuiltIn(x, "implicit_gemm_10x10_512x64")
      /\ Is(x, 10, 128, 128) => BuiltIn(x, "implicit_gemm_10x10_128x128")
  BY DEF BuiltIn, HalfAt40, Pair
<1>3. {"implicit_gemm_10x10", "implicit_gemm_10x10_256x64", "implicit_gemm_10x10_256x64_oc2",
       "implicit_gemm_10x10_256x64_oc4", "implicit_gemm_10x10_256x64_persistent",
       "implicit_gemm_10x10_512x64", "implicit_gemm_10x10_128x128"} \subseteq Gemms \ {"implicit_gemm"}
  BY DEF Gemms
<1>4. ASSUME on PROVE blocks \in Seq(Sound(y, fp16))
  <2>1. Is(x, 10, 256, 64)  BY <1>4 DEF ExactGemm
  <2>2. Rule(Unstable /\ chosen("OC4_10X10_256X64"), "implicit_gemm_10x10_256x64_oc4") \in Sound(y, fp16)
    BY <1>1, <1>2, <1>3, ShapeRule
  <2>3. Rule(Unstable /\ chosen("OC2_10X10_256X64"), "implicit_gemm_10x10_256x64_oc2") \in Sound(y, fp16)
    BY <1>1, <1>2, <1>3, ShapeRule
  <2>4. Rule(chosen("PERSISTENT_10X10_256X64"), "implicit_gemm_10x10_256x64_persistent") \in Sound(y, fp16)
    BY <1>1, <1>2, <1>3, <2>1, ShapeRule
  <2>5. Rule(TRUE, "implicit_gemm_10x10_256x64") \in Sound(y, fp16)
    BY <1>1, <1>2, <1>3, ShapeRule
  <2>6. \A S, a1, a2, a3, a4 : a1 \in S /\ a2 \in S /\ a3 \in S /\ a4 \in S => <<a1, a2, a3, a4>> \in Seq(S)
    OBVIOUS
  <2> QED  BY <2>2, <2>3, <2>4, <2>5, <2>6
<1>5. others \in Seq(Sound(y, fp16))
  <2>1. Rule(r1, "implicit_gemm_10x10_512x64") \in Sound(y, fp16)
    BY <1>1, <1>2, <1>3, ShapeRule, ExactGemmIs
  <2>2. Rule(r2, "implicit_gemm_10x10_128x128") \in Sound(y, fp16)
    BY <1>1, <1>2, <1>3, ShapeRule, ExactGemmIs
  <2>3. Rule(TRUE, "implicit_gemm_10x10") \in Sound(y, fp16)
    BY <1>1, <1>2, <1>3, ShapeRule
  <2>4. \A S, a1, a2, a3 : a1 \in S /\ a2 \in S /\ a3 \in S => <<a1, a2, a3>> \in Seq(S)
    OBVIOUS
  <2> QED  BY <2>1, <2>2, <2>3, <2>4
<1>6. Map10Rules(x) = Under(on, blocks) \o others  BY DEF Map10Rules
<1> HIDE DEF on, blocks, others
<1>7. Under(on, blocks) \in Seq(Sound(y, fp16))  BY <1>4 DEF Under
<1> QED  BY <1>5, <1>6, <1>7

\* The first rule of a list is one of its head when one of the head applies.
LEMMA FirstOfHead ==
  ASSUME NEW S, NEW T, NEW head \in Seq(S), NEW tail \in Seq(T), NEW A, NEW k \in 1 .. Len(head),
         head[k].when, \A i \in 1 .. k : head[i].when => head[i].algorithm \in A
  PROVE  FirstOf(head \o tail) \in A
<1> DEFINE rules == head \o tail
<1>1. Len(head) \in Nat /\ Len(tail) \in Nat /\ DOMAIN rules = 1 .. (Len(head) + Len(tail))
      /\ \A i \in 1 .. k : rules[i] = head[i]
  OBVIOUS
<1>2. FirstOf(rules) \in A
  <2> HIDE DEF rules
  <2>1. k \in Nat \ {0} /\ k \in DOMAIN rules /\ DOMAIN rules \subseteq Nat /\ rules[k].when  BY <1>1
  <2>2. \A i \in DOMAIN rules : i <= k /\ rules[i].when => rules[i].algorithm \in A
    <3> SUFFICES ASSUME NEW i \in DOMAIN rules, i <= k, rules[i].when
                 PROVE  rules[i].algorithm \in A
      OBVIOUS
    <3>1. i \in 1 .. k /\ rules[i] = head[i]  BY <1>1
    <3> QED  BY <3>1
  <2> QED  BY <2>1, <2>2, FirstOfFinds
<1> QED  BY <1>2

\* Of its tail otherwise; all rules of the head that apply are in A as well.
LEMMA FirstOfTail ==
  ASSUME NEW S, NEW T, NEW head \in Seq(S), NEW tail \in Seq(T), NEW A, NEW k \in 1 .. Len(tail),
         tail[k].when, \A i \in 1 .. k : tail[i].when => tail[i].algorithm \in A,
         \A r \in S : r.when => r.algorithm \in A
  PROVE  FirstOf(head \o tail) \in A
<1> DEFINE rules == head \o tail  n == Len(head)
<1>1. /\ n \in Nat /\ Len(tail) \in Nat /\ DOMAIN rules = 1 .. (n + Len(tail))
      /\ \A i \in 1 .. n : rules[i] = head[i] /\ head[i] \in S
      /\ \A i \in 1 .. Len(tail) : rules[n + i] = tail[i]
  OBVIOUS
<1> HIDE DEF rules, n
<1>2. \A i \in DOMAIN rules : i <= n + k /\ rules[i].when => rules[i].algorithm \in A
  <2> SUFFICES ASSUME NEW i \in DOMAIN rules, i <= n + k, rules[i].when
               PROVE  rules[i].algorithm \in A
    OBVIOUS
  <2>1. CASE i <= n  BY <1>1, <2>1
  <2>2. CASE i > n
    <3>1. i - n \in 1 .. k /\ rules[n + (i - n)] = tail[i - n] /\ n + (i - n) = i  BY <1>1, <2>2
    <3> QED  BY <3>1
  <2> QED  BY <1>1, <2>1, <2>2
<1>3. n + k \in Nat \ {0} /\ n + k \in DOMAIN rules /\ rules[n + k] = tail[k]  BY <1>1
<1>4. DOMAIN rules \subseteq Nat  BY <1>1
<1>5. FirstOf(rules) \in A  BY <1>2, <1>3, <1>4, FirstOfFinds
<1> QED  BY <1>5 DEF rules

\* Planner: all rules for implicit products.
LEMMA ImplicitGemmRulesSound ==
  ASSUME NEW y, NEW fp16, y.silu
  PROVE  Under(ImplicitGemmMatch(y.d), ImplicitGemmRules(y.d)) \in Seq(Sound(y, fp16))
<1> DEFINE x == y.d  S == Sound(y, fp16)
           two == Under(x.s = 2, Stride2GemmRules(x))
           map20 == Under(ShapeGemm(x, 20) /\ ~Off("SHAPE20"), Map20Rules(x))
           map10 == Under(ShapeGemm(x, 10) /\ ~Off("SHAPE10"), Map10Rules(x))
           maps == Under(~Off("SHAPE_IMPLICIT_GEMM_3X3") /\ is_conv3x3_tiled_fast_path(x), map20 \o map10)
           last == << Rule(TRUE, "implicit_gemm") >>
<1> SUFFICES ASSUME ImplicitGemmMatch(x) PROVE ImplicitGemmRules(x) \in Seq(S)
  BY DEF Under
<1>1. two \in Seq(S)  BY Stride2GemmRulesSound DEF Under
<1>2. map20 \in Seq(S) /\ map10 \in Seq(S)  BY Map20RulesSound, Map10RulesSound DEF Under
<1>3. maps \in Seq(S)
  <2> HIDE DEF map20, map10
  <2> QED  BY <1>2 DEF Under
<1>4. last \in Seq(S)
  <2>1. x.k = 3 /\ x.g = 1
    BY DEF ImplicitGemmMatch, is_conv3x3_implicit_gemm_fast_path, Plain
  <2>2. "implicit_gemm" \in Names /\ Apt(y, fp16, "implicit_gemm")
    BY <2>1 DEF Apt, Geometry, Divides, BuiltIn, Meant, Names, Strided, Spatial, Points1, Int8Names,
         First6, Stride2Gemms, Stride2Kernels, Stride1Kernels, Staged, HalfAt40, Gemms, Pair,
         Conv1x1Halves, Int8Kernels, ByFour, LinearBuilds, is_conv1x1_fast_path,
         is_conv3x3_tiled_fast_path, is_conv3x3_stride2_tiled_fast_path,
         is_conv3x3_implicit_gemm_fast_path
  <2>3. Rule(TRUE, "implicit_gemm") \in S  BY <2>2, SoundRule
  <2>4. \A A, a1 : a1 \in A => <<a1>> \in Seq(A)  OBVIOUS
  <2> QED  BY <2>3, <2>4
<1>5. ImplicitGemmRules(x) = two \o maps \o last  BY DEF ImplicitGemmRules
<1> HIDE DEF two, maps, last
<1> QED  BY <1>1, <1>3, <1>4, <1>5

\* The planner's last rules, of which one always applies.
LastRules(x) ==
  << Rule(~is_conv3x3_tiled_fast_path(x), "generic"), Rule(Pack8(x), "spatial3x3_pack8"),
     Rule(Pack4(x), "spatial3x3_pack4"), Rule(TRUE, "spatial3x3") >>

\* Planner: the last rules.
LEMMA LastRulesSound ==
  ASSUME NEW y, NEW fp16, y.silu
  PROVE  /\ LastRules(y.d)[1] \in Sound(y, fp16)
         /\ is_conv3x3_tiled_fast_path(y.d) => LastRules(y.d) \in Seq(Sound(y, fp16))
<1> DEFINE x == y.d
<1>1. Rule(~is_conv3x3_tiled_fast_path(x), "generic") \in Sound(y, fp16)
  <2>1. "generic" \in Names /\ Apt(y, fp16, "generic")
    BY DEF Apt, Geometry, Divides, BuiltIn, Meant, Names, Strided, Spatial, Points1, Int8Names,
         First6, Stride2Gemms, Stride2Kernels, Stride1Kernels, Staged, HalfAt40, Gemms, Pair,
         Conv1x1Halves, Int8Kernels, ByFour, LinearBuilds, is_conv1x1_fast_path,
         is_conv3x3_tiled_fast_path, is_conv3x3_stride2_tiled_fast_path,
         is_conv3x3_implicit_gemm_fast_path
  <2> QED  BY <2>1, SoundRule
<1>2. ASSUME is_conv3x3_tiled_fast_path(x)
      PROVE  /\ Rule(Pack8(x), "spatial3x3_pack8") \in Sound(y, fp16)
             /\ Rule(Pack4(x), "spatial3x3_pack4") \in Sound(y, fp16)
             /\ Rule(TRUE, "spatial3x3") \in Sound(y, fp16)
  <2>1. BuiltIn(x, "spatial3x3_pack8") /\ BuiltIn(x, "spatial3x3_pack4") /\ BuiltIn(x, "spatial3x3")
    BY DEF BuiltIn, HalfAt40, Pair
  <2>2. Pack8(x) \in BOOLEAN /\ Pack4(x) \in BOOLEAN  BY DEF Pack8, Pack4
  <2> QED  BY <1>2, <2>1, <2>2, ShapeRule
<1>3. \A S, a1, a2, a3, a4 : a1 \in S /\ a2 \in S /\ a3 \in S /\ a4 \in S => <<a1, a2, a3, a4>> \in Seq(S)
  OBVIOUS
<1>4. LastRules(x)[1] = Rule(~is_conv3x3_tiled_fast_path(x), "generic")  BY DEF LastRules
<1> QED  BY <1>1, <1>2, <1>3, <1>4 DEF LastRules

\* Twenty values are a sequence.
LEMMA Tuple20 ==
  ASSUME NEW a1, NEW a2, NEW a3, NEW a4, NEW a5, NEW a6, NEW a7, NEW a8, NEW a9, NEW a10,
  NEW a11, NEW a12, NEW a13, NEW a14, NEW a15, NEW a16, NEW a17, NEW a18, NEW a19, NEW a20
  PROVE
    \E D : <<a1, a2, a3, a4, a5, a6, a7, a8, a9, a10, a11, a12, a13, a14, a15, a16, a17, a18, a19, a20>>
      \in Seq(D)
<1>1.    <<a1, a2, a3, a4, a5, a6, a7, a8, a9, a10, a11, a12, a13, a14, a15, a16, a17, a18, a19, a20>>
      \in Seq({a1, a2, a3, a4, a5, a6, a7, a8, a9, a10, a11, a12, a13, a14, a15, a16, a17, a18,
               a19, a20})
 OBVIOUS
<1> QED BY <1>1

\* The planner's rules are sequences.
LEMMA DirectRulesAreRules ==
  ASSUME NEW x, NEW s
  PROVE  \E D : DirectRules(x, s) \in Seq(D)
BY Tuple20 DEF DirectRules

\* One of the last rules applies whatever the convolution.
LEMMA LastRulesAreRules ==
  ASSUME NEW x
  PROVE  /\ \E D : LastRules(x) \in Seq(D)
         /\ Len(LastRules(x)) = 4 /\ LastRules(x)[4].when
         /\ LastRules(x)[1].when <=> ~is_conv3x3_tiled_fast_path(x)
<1>1. \A a1, a2, a3, a4 : <<a1, a2, a3, a4>> \in Seq({a1, a2, a3, a4})  OBVIOUS
<1>2. LastRules(x)[4] = Rule(TRUE, "spatial3x3")  BY DEF LastRules
<1>3. LastRules(x)[1] = Rule(~is_conv3x3_tiled_fast_path(x), "generic")  BY DEF LastRules
<1>4. Rule(TRUE, "spatial3x3").when  BY DEF Rule
<1>5. Rule(~is_conv3x3_tiled_fast_path(x), "generic").when <=> ~is_conv3x3_tiled_fast_path(x)
  BY DEF Rule
<1>6. Len(LastRules(x)) = 4  BY DEF LastRules
<1>7. \E D : LastRules(x) \in Seq(D)  BY <1>1 DEF LastRules
<1> QED  BY <1>2, <1>3, <1>4, <1>5, <1>6, <1>7

\* Whatever the convolution, the flags and the device, plan_tileflow_conv picks a
\* kernel that computes it: no rule hides one that it relies on.
THEOREM PlanApt ==
  ASSUME NEW y, NEW fp16, y.silu \in BOOLEAN
  PROVE  plan_tileflow_conv(y.d, y.silu) \in Apts(y, fp16)
<1> DEFINE x == y.d   A == Apts(y, fp16)   S == Sound(y, fp16)
           direct == DirectRules(x, y.silu)
           gemm2 == Under(~Off("IMPLICIT_GEMM_3X3") /\ ~Off("IMPLICIT_GEMM_STRIDE2_3X3") /\ x.s = 2,
                          Stride2GemmRules(x))
           maps == Map10And40Rules(x)
           gemm == Under(ImplicitGemmMatch(x), ImplicitGemmRules(x))
           last == LastRules(x)
           middle == gemm2 \o maps \o gemm
<1>1. plan_tileflow_conv(x, y.silu) = FirstOf(direct \o gemm2 \o maps \o gemm \o last)
  BY DEF plan_tileflow_conv, LastRules
<1>2. \A z : z.silu /\ z.d = x => gemm2 \in Seq(Sound(z, fp16)) /\ maps \in Seq(Sound(z, fp16))
                                    /\ gemm \in Seq(Sound(z, fp16))
  <2> SUFFICES ASSUME NEW z, z.silu, z.d = x
               PROVE  gemm2 \in Seq(Sound(z, fp16)) /\ maps \in Seq(Sound(z, fp16))
                        /\ gemm \in Seq(Sound(z, fp16))
    OBVIOUS
  <2>1. gemm2 \in Seq(Sound(z, fp16))  BY Stride2GemmRulesSound DEF Under
  <2>2. maps \in Seq(Sound(z, fp16))  BY Map10And40RulesSound
  <2>3. gemm \in Seq(Sound(z, fp16))  BY ImplicitGemmRulesSound
  <2> QED  BY <2>1, <2>2, <2>3
<1>3. /\ \E D : last \in Seq(D)
      /\ Len(last) = 4 /\ last[4].when
      /\ last[1].when <=> ~is_conv3x3_tiled_fast_path(x)
  BY LastRulesAreRules
<1>4. \E D : direct \in Seq(D)  BY DirectRulesAreRules
<1>5. Len(direct) = 20 /\ (direct[2].when <=> ~y.silu) /\ direct[1] \in S /\ direct[2] \in S
  <2>1. direct[1] = Rule(is_conv1x1_fast_path(x), "conv1x1") /\ direct[2] = Rule(~y.silu, "generic")
        /\ Len(direct) = 20
    BY DEF DirectRules
  <2>2. Rule(~y.silu, "generic").when <=> ~y.silu  BY DEF Rule
  <2>3. Rule(is_conv1x1_fast_path(x), "conv1x1") \in S /\ Rule(~y.silu, "generic") \in S
    BY PointRulesSound
  <2> HIDE DEF direct, S
  <2> QED  BY <2>1, <2>2, <2>3
<1>6. PICK T : gemm2 \in Seq(T) /\ maps \in Seq(T) /\ gemm \in Seq(T)
  <2> DEFINE z == [d |-> x, silu |-> TRUE]
  <2>1. z.silu /\ z.d = x  OBVIOUS
  <2> QED  BY <1>2, <2>1
<1>7. \A r \in S : r.when => r.algorithm \in A  BY DEF Sound
<1> SUFFICES FirstOf(direct \o gemm2 \o maps \o gemm \o last) \in A  BY <1>1
<1>8. PICK D : direct \in Seq(D)  BY <1>4
<1>9. PICK L : last \in Seq(L)  BY <1>3
<1> HIDE DEF direct, gemm2, maps, gemm, last, A, S
<1>10. middle \in Seq(T)  BY <1>6
<1>11. middle \o last \in Seq(T \cup L)
  <2> HIDE DEF middle
  <2>1. middle \in Seq(T \cup L) /\ last \in Seq(T \cup L)  BY <1>9, <1>10
  <2> QED  BY <2>1
<1>12. direct \o gemm2 \o maps \o gemm \o last = direct \o (middle \o last)
  BY <1>6, <1>8, <1>9
<1>13. CASE ~y.silu
  <2>1. 2 \in 1 .. Len(direct) /\ direct[2].when
    BY <1>5, <1>13
  <2>2. \A i \in 1 .. 2 : direct[i].when => direct[i].algorithm \in A  BY <1>5, <1>7
  <2> QED  BY <1>8, <1>11, <1>12, <2>1, <2>2, FirstOfHead
<1>14. CASE y.silu /\ TileFlow(x) /\ x.oh = 40
  <2>1. 6 \in 1 .. Len(direct) /\ direct[6].when /\ \A i \in 1 .. 6 : direct[i] \in S
    <3>1. y.silu  BY <1>14
    <3>2. TileFlow(y.d) /\ y.d.oh = 40  BY <1>14
    <3>3. /\ \A i \in 1 .. 6 : DirectRules(y.d, y.silu)[i] \in Sound(y, fp16)
          /\ DirectRules(y.d, y.silu)[6].when
          /\ Len(DirectRules(y.d, y.silu)) = 20
      BY <3>1, <3>2, DirectRulesSound
    <3> QED  BY <3>3 DEF direct, S
  <2>2. \A i \in 1 .. 6 : direct[i].when => direct[i].algorithm \in A  BY <2>1, <1>7
  <2>3. 6 \in 1 .. Len(direct) /\ direct[6].when  BY <2>1
  <2>4. FirstOf(direct \o (middle \o last)) \in A  BY <1>8, <1>11, <2>2, <2>3, FirstOfHead
  <2> QED  BY <1>12, <2>4
<1>15. CASE y.silu /\ ~(TileFlow(x) /\ x.oh = 40)
  <2>1. direct \in Seq(S)  BY <1>15, DirectRulesSound DEF direct, S
  <2>2. gemm2 \in Seq(S) /\ maps \in Seq(S) /\ gemm \in Seq(S)  BY <1>2, <1>15 DEF S
  <2>3. direct \o gemm2 \o maps \o gemm \in Seq(S)  BY <2>1, <2>2
  <2>4. CASE is_conv3x3_tiled_fast_path(x)
    <3>1. last \in Seq(S)  BY <1>15, <2>4, LastRulesSound DEF last, S
    <3>2. \A i \in 1 .. 4 : last[i] \in S
      <4>1. Len(last) = 4  BY <1>3
      <4>2. \A i \in 1 .. Len(last) : last[i] \in S  BY <3>1
      <4> QED  BY <4>1, <4>2
    <3>3. \A i \in 1 .. 4 : last[i].when => last[i].algorithm \in A  BY <3>2, <1>7
    <3>4. 4 \in 1 .. Len(last) /\ last[4].when  BY <1>3
    <3> QED  BY <2>3, <3>1, <3>3, <3>4, <1>7, FirstOfTail
  <2>5. CASE ~is_conv3x3_tiled_fast_path(x)
    <3>1. last[1] \in S /\ last[1].when  BY <1>15, <1>3, <2>5, LastRulesSound DEF last, S
    <3>2. \A i \in 1 .. 1 : last[i].when => last[i].algorithm \in A  BY <3>1, <1>7
    <3>3. 1 \in 1 .. Len(last)  BY <1>3
    <3> QED  BY <2>3, <3>1, <3>2, <3>3, <1>7, <1>9, FirstOfTail
  <2> QED  BY <2>4, <2>5
<1> QED  BY <1>13, <1>14, <1>15

------------------------------------------------------------------------------
(* The kernels that commands name                                            *)

\* Builder: the kernels for stride 2 are apt.
LEMMA Stride2StableApt ==
  ASSUME NEW y, NEW fp16, y.silu, is_conv3x3_stride2_tiled_fast_path(y.d)
  PROVE  Apt(y, fp16, Stride2Algorithm(y.d))
<1> DEFINE x == y.d   P(a) == Apt(y, fp16, a)
<1> USE DEF Apt, Geometry, Divides, BuiltIn, Meant, Names, Strided, Spatial, Points1, Int8Names,
         First6, Stride2Gemms, Stride2Kernels, Stride1Kernels, Staged, HalfAt40, Gemms, Pair,
         Conv1x1Halves, Int8Kernels, ByFour, LinearBuilds, is_conv3x3_stride2_tiled_fast_path
<1>1. P("stride2_direct_pack4")  OBVIOUS
<1>2. P("generic")  OBVIOUS
<1>3. x.oc % 4 = 0 => P("stride2_direct_pack4_packedw_pos2")  OBVIOUS
<1>4. x.oc % 4 = 0 => P("stride2_direct_pack4_packedw")  OBVIOUS
<1> QED
  <2> HIDE DEF P, Apt
  <2>1. Stride2Algorithm(x) = "stride2_direct_pack4_packedw_pos2" => x.oc = 128
    BY DEF Stride2Algorithm, Shape3
  <2>2. Stride2Algorithm(x) = "stride2_direct_pack4_packedw" => x.oc = 256
    BY DEF Stride2Algorithm, Shape3
  <2>3. Stride2Algorithm(x) \in {"stride2_direct_pack4", "generic",
          "stride2_direct_pack4_packedw_pos2", "stride2_direct_pack4_packedw"}
    BY DEF Stride2Algorithm
  <2>4. P(Stride2Algorithm(x))  BY <1>1, <1>2, <1>3, <1>4, <2>1, <2>2, <2>3
  <2> QED  BY <2>4 DEF P

\* Builder: the kernels for stride 1 are apt on square maps.
LEMMA Stride1StableApt ==
  ASSUME NEW y, NEW fp16, y.silu, is_conv3x3_tiled_fast_path(y.d), Square(y.d)
  PROVE  Apt(y, fp16, Stride1Algorithm(y.d))
<1> DEFINE x == y.d   P(a) == Apt(y, fp16, a)
<1> USE DEF Apt, Geometry, Divides, BuiltIn, Meant, Names, Strided, Spatial, Points1, Int8Names,
         First6, Stride2Gemms, Stride2Kernels, Stride1Kernels, Staged, HalfAt40, Gemms, Pair,
         Conv1x1Halves, Int8Kernels, ByFour, LinearBuilds, is_conv3x3_tiled_fast_path, Is, Map
<1>1. x.oc % 4 = 0 => P("direct_pack4_packedw_pos2")  OBVIOUS
<1>2. x.oh % 2 = 0 /\ x.ow % 2 = 0 => P("winograd_f2x2") /\ P("winograd_f2x2_fp32_accum")  OBVIOUS
<1>3. Is(x, 10, 512, 64) => P("splitk_10x10_512x64")  OBVIOUS
<1>4. P("direct_pack4") /\ P("spatial3x3") /\ P("spatial3x3_pack4")  OBVIOUS
<1>5. P("implicit_gemm_20x20") /\ P("implicit_gemm_10x10")  OBVIOUS
<1>6. P("implicit_gemm")  BY DEF Plain
<1> DEFINE a == Stride1Algorithm(x)
<1>7. a \in {"direct_pack4_packedw_pos2", "winograd_f2x2", "winograd_f2x2_fp32_accum",
             "splitk_10x10_512x64", "direct_pack4", "spatial3x3", "spatial3x3_pack4",
             "implicit_gemm_20x20", "implicit_gemm_10x10", "implicit_gemm"}
  BY DEF Stride1Algorithm
<1>8. a = "direct_pack4_packedw_pos2" => x.oc % 4 = 0
  BY DEF Stride1Algorithm, Shape3
<1>9. a \in {"winograd_f2x2", "winograd_f2x2_fp32_accum"} => x.oh % 2 = 0 /\ x.ow % 2 = 0
  BY DEF Stride1Algorithm, Shape3, Square
<1>10. a = "splitk_10x10_512x64" => Is(x, 10, 512, 64)
  BY DEF Stride1Algorithm, Shape3, Square
<1> HIDE DEF P, a, Apt
<1>11. P(a)  BY <1>1, <1>2, <1>3, <1>4, <1>5, <1>6, <1>7, <1>8, <1>9, <1>10
<1> QED  BY <1>11 DEF P, a

\* Builder: the kernels for the other convolutions are apt.
LEMMA PointRulesApt ==
  ASSUME NEW y, NEW fp16
  PROVE  /\ Apt(y, fp16, "generic")
         /\ is_conv1x1_fast_path(y.d) => Apt(y, fp16, "conv1x1")
BY DEF Apt, Geometry, Divides, BuiltIn, Meant, Names, Strided, Spatial, Points1, Int8Names,
       First6, Stride2Gemms, Stride2Kernels, Stride1Kernels, Staged, HalfAt40, Gemms, Pair,
       Conv1x1Halves, Int8Kernels, ByFour, LinearBuilds, is_conv1x1_fast_path

\* Whatever the builder picks without half precision is apt.
LEMMA StableApt ==
  ASSUME NEW y, NEW fp16, y.silu \in BOOLEAN, Square(y.d)
  PROVE  Apt(y, fp16, _stable_conv_algorithm(y.d, y.silu))
<1> DEFINE x == y.d   P(a) == Apt(y, fp16, a)   a == _stable_conv_algorithm(x, y.silu)
<1>1. is_conv1x1_fast_path(x) => P("conv1x1")
  BY PointRulesApt
<1>2. y.silu /\ Plain(x, 6, 2, 2) /\ Is(x, 160, 3, 32) => P(First6)
  BY DEF Apt, Geometry, Divides, BuiltIn, Meant, Names, Strided, Spatial, Points1, Int8Names,
         First6, Stride2Gemms, Stride2Kernels, Stride1Kernels, Staged, HalfAt40, Gemms, Pair,
         Conv1x1Halves, Int8Kernels, ByFour, LinearBuilds, Is, Plain
<1>3. P("generic")
  BY PointRulesApt
<1>4. y.silu /\ is_conv3x3_stride2_tiled_fast_path(x) => P(Stride2Algorithm(x))
  BY Stride2StableApt
<1>5. y.silu /\ is_conv3x3_tiled_fast_path(x) => P(Stride1Algorithm(x))
  BY Stride1StableApt
<1> HIDE DEF P
<1>6. P(a)  BY <1>1, <1>2, <1>3, <1>4, <1>5 DEF _stable_conv_algorithm, First6
<1> QED  BY <1>6 DEF P

\* The cases of a command, with the facts the later proofs use.
LEMMA RecordableCases ==
  ASSUME NEW y, Recordable(y)
  PROVE  /\ y.silu \in BOOLEAN /\ y.in16 \in BOOLEAN /\ y.out16 \in BOOLEAN
         /\ y.native \in BOOLEAN /\ y.packed \in BOOLEAN /\ y.pergroup \in BOOLEAN
         /\ \/ /\ y.planned = "none" /\ y.source = "unplanned" /\ ~Halved(y) /\ ~y.native
            \/ /\ Square(y.d) /\ y.planned = _stable_conv_algorithm(y.d, y.silu)
               /\ ~Halved(y) /\ ~y.native /\ y.source = "built"
            \/ /\ Square(y.d) /\ y.planned = Fp16Algorithm(y.d, y.silu)
               /\ Halved(y) => y.planned \in HalfStorageKernels
               /\ y.native => _uses_native_fp16_winograd(y.d)
                              /\ y.planned \in {"winograd_f2x2", "winograd_f2x2_fp32_accum"}
               /\ y.planned \in {"winograd_f2x2", "winograd_f2x2_fp32_accum"}
                  /\ _uses_native_fp16_winograd(y.d) => y.native
               /\ y.packed /\ y.source = "built"
            \/ /\ y.planned \in MappedKernels /\ Suits(y.d, y.silu, y.planned) /\ ~y.native
               /\ Halved(y) => y.packed
               /\ y.source = "mapped"
<1> DEFINE x == y.d
<1>1. PICK silu \in BOOLEAN :
       \/ y = Unplanned(x, silu)
       \/ /\ Square(x)
          /\ \/ y = BuiltFp32(x, silu)
             \/ \E in16, out16 \in BOOLEAN : y = BuiltFp16(x, silu, in16, out16)
       \/ \E a \in MappedKernels, fp16Engine, half, pergroup \in BOOLEAN :
            /\ Suits(x, silu, a)
            /\ y = Mapped(x, silu, a, fp16Engine, half, pergroup)
  BY DEF Recordable
<1> DEFINE R == /\ y.silu \in BOOLEAN /\ y.in16 \in BOOLEAN /\ y.out16 \in BOOLEAN
                /\ y.native \in BOOLEAN /\ y.packed \in BOOLEAN /\ y.pergroup \in BOOLEAN
<1>2. CASE y = Unplanned(x, silu)
  <2>1. /\ y.planned = "none" /\ y.source = "unplanned" /\ y.silu = silu
        /\ y.in16 = FALSE /\ y.out16 = FALSE /\ y.native = FALSE /\ y.packed = FALSE
        /\ y.pergroup = FALSE
    BY <1>2 DEF Unplanned, Command
  <2> QED  BY <2>1 DEF Halved
<1>3. CASE Square(x) /\ y = BuiltFp32(x, silu)
  <2>1. /\ y.planned = _stable_conv_algorithm(x, silu) /\ y.source = "built" /\ y.silu = silu
        /\ y.in16 = FALSE /\ y.out16 = FALSE /\ y.native = FALSE /\ y.packed = FALSE
        /\ y.pergroup = FALSE
    BY <1>3 DEF BuiltFp32, Command
  <2> QED  BY <1>3, <2>1 DEF Halved
<1>4. ASSUME Square(x), NEW in16 \in BOOLEAN, NEW out16 \in BOOLEAN,
             y = BuiltFp16(x, silu, in16, out16)
      PROVE  R /\ y.planned = Fp16Algorithm(x, y.silu)
               /\ (Halved(y) => y.planned \in HalfStorageKernels)
               /\ (y.native => _uses_native_fp16_winograd(x)
                              /\ y.planned \in {"winograd_f2x2", "winograd_f2x2_fp32_accum"})
               /\ (y.planned \in {"winograd_f2x2", "winograd_f2x2_fp32_accum"}
                  /\ _uses_native_fp16_winograd(x) => y.native)
               /\ y.packed /\ y.source = "built"
  <2> DEFINE a == Fp16Algorithm(x, silu)
             winograd == a \in {"winograd_f2x2", "winograd_f2x2_fp32_accum"}
             half == a \in HalfStorageKernels
             uses == _uses_native_fp16_winograd(x)
  <2>1. y = Command(x, silu, "built", a, winograd /\ uses, TRUE, in16 /\ half, out16 /\ half, FALSE)
    BY <1>4 DEF BuiltFp16
  <2>2. uses \in BOOLEAN  BY DEF _uses_native_fp16_winograd
  <2> HIDE DEF a, half, uses
  <2>3. /\ y.planned = a /\ y.source = "built" /\ y.silu = silu
        /\ y.in16 = (in16 /\ half) /\ y.out16 = (out16 /\ half)
        /\ y.native = (winograd /\ uses)
        /\ y.packed = TRUE /\ y.pergroup = FALSE
    BY <2>1 DEF Command
  <2>4. half \in BOOLEAN  BY DEF half
  <2>5. R  BY <2>2, <2>3, <2>4
  <2>6. Halved(y) => half  BY <2>3 DEF Halved
  <2>7. /\ y.native => uses /\ y.planned \in {"winograd_f2x2", "winograd_f2x2_fp32_accum"}
        /\ y.planned \in {"winograd_f2x2", "winograd_f2x2_fp32_accum"} /\ uses => y.native
    BY <2>3
  <2> QED  BY <2>3, <2>5, <2>6, <2>7 DEF a, half, uses
<1>5. ASSUME NEW a \in MappedKernels, NEW fp16Engine \in BOOLEAN, NEW half \in BOOLEAN,
             NEW pergroup \in BOOLEAN, Suits(x, silu, a),
             y = Mapped(x, silu, a, fp16Engine, half, pergroup)
      PROVE  R /\ y.planned \in MappedKernels /\ Suits(x, y.silu, y.planned) /\ ~y.native
               /\ (Halved(y) => y.packed) /\ y.source = "mapped"
  <2>1. /\ y.planned = a /\ y.source = "mapped" /\ y.silu = silu
        /\ y.in16 = (fp16Engine /\ half) /\ y.out16 = (fp16Engine /\ half) /\ y.native = FALSE
        /\ y.packed = fp16Engine /\ y.pergroup = pergroup
    BY <1>5 DEF Mapped, Command
  <2> QED  BY <1>5, <2>1 DEF Halved
<1> QED  BY <1>1, <1>2, <1>3, <1>4, <1>5

\* A planned kernel that fits is apt, whichever of the builder's rules named it.
LEMMA PlannedApt ==
  ASSUME NEW y, Recordable(y), y.planned # "none", PlannedFits(y)
  PROVE  Apt(y, device.fp16, y.planned)
<1> DEFINE x == y.d   a == y.planned   P(n) == Apt(y, device.fp16, n)
           native == "native_fp16_conv1x1_oc8_pos2"
           at40 == "native_fp16_packedw_pos2_40x40_64x64"
           packedw == "stride2_native_fp16_packedw"
<1>1. y.silu \in BOOLEAN  BY RecordableCases
<1>2. /\ a = Pair => PositionPairMatch(x, y.silu)
      /\ a = packedw => NativeFp16Stride2(x, y.silu)
      /\ a = "winograd_f4x4" => y.silu /\ F4x4(x)
      /\ a = "conv1x1" => is_conv1x1_fast_path(x)
      /\ a = "int8_dot4_conv1x1" => Int8Match(x, 1)
      /\ a \in {"int8_dot4_conv3x3", "int8_dot4_conv3x3_stride2"} => Int8Match(x, 3)
  BY DEF PlannedFits, Pair
<1> USE DEF Apt, Geometry, Divides, BuiltIn, Meant, Names, Strided, Spatial, Points1, Int8Names,
         First6, Stride2Gemms, Stride2Kernels, Stride1Kernels, Staged, HalfAt40, Gemms, Pair,
         Conv1x1Halves, Int8Kernels, ByFour, LinearBuilds
<1>3. a = Pair => P(Pair)
  BY <1>2 DEF PositionPairMatch, PairShape, Plain
<1>4. a = packedw => P(packedw)
  BY <1>2 DEF NativeFp16Stride2, is_conv3x3_stride2_tiled_fast_path
<1>5. a = "winograd_f4x4" => P("winograd_f4x4")
  BY <1>2 DEF F4x4
<1>6. a = "conv1x1" => P("conv1x1")
  BY <1>2 DEF is_conv1x1_fast_path
<1>7. a = native /\ is_conv1x1_fast_path(x) /\ x.oc % 8 = 0 /\ x.ic % 4 = 0 => P(native)
  BY DEF is_conv1x1_fast_path
<1>8. a = at40 /\ y.silu /\ is_conv3x3_tiled_fast_path(x) /\ Is(x, 40, 64, 64) => P(at40)
  BY DEF is_conv3x3_tiled_fast_path
<1>9. a = "int8_dot4_conv1x1" => P("int8_dot4_conv1x1")
  BY <1>2 DEF Int8Match, Int8Shape, is_conv1x1_fast_path, Plain
<1>10. a = "int8_dot4_conv3x3" => P("int8_dot4_conv3x3")
  BY <1>2 DEF Int8Match, Int8Shape, is_conv3x3_tiled_fast_path,
              is_conv3x3_stride2_tiled_fast_path, Plain
<1>11. a = "int8_dot4_conv3x3_stride2" => P("int8_dot4_conv3x3_stride2")
  BY <1>2 DEF Int8Match, Int8Shape, is_conv3x3_tiled_fast_path,
              is_conv3x3_stride2_tiled_fast_path, Plain
<1>12. CASE a = _stable_conv_algorithm(x, y.silu) /\ Square(x)
  BY <1>1, <1>12, StableApt
<1> HIDE DEF P
<1>13. CASE a = Fp16Algorithm(x, y.silu) /\ Square(x)
  <2>1. \/ a = native /\ _uses_native_fp16_conv1x1(x)
        \/ a = Pair \/ a = packedw
        \/ a = at40 /\ y.silu /\ is_conv3x3_tiled_fast_path(x) /\ Is(x, 40, 64, 64)
        \/ a = _stable_conv_algorithm(x, y.silu)
    BY <1>13 DEF Fp16Algorithm
  <2>2. _uses_native_fp16_conv1x1(x) =>
          is_conv1x1_fast_path(x) /\ x.oc % 8 = 0 /\ x.ic % 4 = 0
    BY DEF _uses_native_fp16_conv1x1, Shape3
  <2>3. P(a)  BY <1>3, <1>4, <1>7, <1>8, <1>12, <1>13, <2>1, <2>2 DEF P
  <2> QED  BY <2>3 DEF P
<1>14. CASE a \in MappedKernels /\ Suits(x, y.silu, a)
  <2>1. a \in {Pair, packedw, "winograd_f4x4", "conv1x1", native, at40, "int8_dot4_conv1x1",
               "int8_dot4_conv3x3", "int8_dot4_conv3x3_stride2"}
    BY <1>14 DEF MappedKernels, HalfStorageKernels
  <2>2. a = native => is_conv1x1_fast_path(x) /\ x.oc % 8 = 0 /\ x.ic % 4 = 0
    BY <1>14 DEF Suits
  <2>3. a = at40 => y.silu /\ is_conv3x3_tiled_fast_path(x) /\ Is(x, 40, 64, 64)
    BY <1>14 DEF Suits
  <2>4. P(a)
    BY <1>3, <1>4, <1>5, <1>6, <1>7, <1>8, <1>9, <1>10, <1>11, <2>1, <2>2, <2>3
  <2> QED  BY <2>4 DEF P
<1> QED  BY <1>12, <1>13, <1>14, RecordableCases

\* So is the algorithm that the recorder settles for.
LEMMA AlgorithmApt ==
  ASSUME Recordable(command)
  PROVE  Algorithm \in Apts(command, device.fp16)
<1> DEFINE y == command
<1>1. y.silu \in BOOLEAN  BY RecordableCases
<1>2. plan_tileflow_conv(y.d, y.silu) \in Apts(y, device.fp16)  BY <1>1, PlanApt
<1>3. UseNativeFp16Stride2(y.d, y.silu) => Apt(y, device.fp16, "stride2_native_fp16_packedw")
  BY DEF UseNativeFp16Stride2, NativeFp16Stride2, is_conv3x3_stride2_tiled_fast_path,
         Apt, Geometry, Divides, BuiltIn, Meant, Names, Strided, Spatial, Points1, Int8Names,
         First6, Stride2Gemms, Stride2Kernels, Stride1Kernels, Staged, HalfAt40, Gemms, Pair,
         Conv1x1Halves, Int8Kernels, ByFour, LinearBuilds
<1>4. y.planned # "none" /\ PlannedFits(y) => Apt(y, device.fp16, y.planned)
  BY PlannedApt
<1>5. Algorithm = replay_conv_algorithm(y)  BY DEF Algorithm
<1>6. \A a : Apt(y, device.fp16, a) => a \in Apts(y, device.fp16)  BY DEF Apts, Apt
<1> QED  BY <1>2, <1>3, <1>4, <1>5, <1>6 DEF replay_conv_algorithm

------------------------------------------------------------------------------
(* The pipelines tried for an algorithm                                      *)

\* The pipelines that suit a command on a device.
Pipelines(y, fp16) == Apts(y, fp16) \ SplitKs

\* Nonempty lists of pipelines to try.
Chains(A) == {s \in Seq(A) : s # <<>>}

\* How the lists are put together.
LEMMA ChainParts ==
  ASSUME NEW A
  PROVE  /\ <<>> \in Seq(A)
         /\ \A p \in A : <<p>> \in Chains(A)
         /\ \A p, q \in A : <<p, q>> \in Chains(A)
         /\ \A p, q, r \in A : <<p, q, r>> \in Chains(A)
         /\ \A s \in Chains(A) : s \in Seq(A)
         /\ \A s \in Chains(A), t \in Seq(A) : s \o t \in Chains(A) /\ t \o s \in Chains(A)
<1>1. \A p \in A : <<p>> \in Chains(A)  BY DEF Chains
<1>2. \A p, q \in A : <<p, q>> \in Chains(A)  BY DEF Chains
<1>3. \A p, q, r \in A : <<p, q, r>> \in Chains(A)  BY DEF Chains
<1>4. ASSUME NEW s \in Chains(A), NEW t \in Seq(A)
      PROVE  s \o t \in Chains(A) /\ t \o s \in Chains(A)
  <2>1. s \in Seq(A) /\ Len(s) # 0  BY DEF Chains
  <2>2. s \o t \in Seq(A) /\ t \o s \in Seq(A)  BY <2>1
  <2>3. Len(s \o t) # 0 /\ Len(t \o s) # 0  BY <2>1
  <2>4. s \o t # <<>> /\ t \o s # <<>>  BY <2>3
  <2> QED  BY <2>2, <2>4 DEF Chains
<1>5. <<>> \in Seq(A)  OBVIOUS
<1>6. \A s \in Chains(A) : s \in Seq(A)  BY DEF Chains
<1> QED  BY <1>1, <1>2, <1>3, <1>4, <1>5, <1>6

\* The pipelines tried after an apt one of stride 1 are apt.
LEMMA SpatialFallbacks ==
  ASSUME NEW y, NEW fp16, NEW a \in Pipelines(y, fp16), a \in Spatial
  PROVE  /\ "direct_pack4" \in Pipelines(y, fp16) /\ "spatial3x3_pack4" \in Pipelines(y, fp16)
         /\ "implicit_gemm" \in Pipelines(y, fp16) /\ "implicit_gemm_10x10" \in Pipelines(y, fp16)
         /\ "implicit_gemm_20x20" \in Pipelines(y, fp16) /\ "implicit_gemm_40x40" \in Pipelines(y, fp16)
         /\ y.d.oc % 4 = 0 => "direct_pack4_packedw_pos2" \in Pipelines(y, fp16)
         /\ a \in Staged => "winograd_f2x2" \in Pipelines(y, fp16)
         /\ a \in Staged /\ y.native => "winograd_f2x2_native" \in Pipelines(y, fp16)
         /\ a \in Staged /\ Halved(y) => "winograd_f2x2_io" \in Pipelines(y, fp16)
<1> USE DEF Apt, Geometry, Divides, BuiltIn, Meant, Names, Strided, Spatial, Points1, Int8Names,
         First6, Stride2Gemms, Stride2Kernels, Stride1Kernels, Staged, HalfAt40, Gemms, Pair,
         Conv1x1Halves, Int8Kernels, ByFour, LinearBuilds
<1> DEFINE P(n) == Apt(y, fp16, n)
<1>1. P(a)  BY DEF Pipelines, SplitKs, Apts
<1>2. y.silu /\ Plain(y.d, 3, 1, 1)  BY <1>1
<1>3. a \in Staged => y.d.oh % 2 = 0 /\ y.d.ow % 2 = 0  BY <1>1
<1>4. P("direct_pack4") /\ P("spatial3x3_pack4") /\ P("implicit_gemm_10x10")
      /\ P("implicit_gemm_20x20") /\ P("implicit_gemm_40x40")
  BY <1>2
<1>5. P("implicit_gemm")  BY <1>2 DEF Plain
<1>6. y.d.oc % 4 = 0 => P("direct_pack4_packedw_pos2")  BY <1>2
<1>7. a \in Staged => P("winograd_f2x2")  BY <1>2, <1>3
<1>8. a \in Staged /\ y.native => P("winograd_f2x2_native")  BY <1>2, <1>3
<1>9. a \in Staged /\ Halved(y) => P("winograd_f2x2_io")  BY <1>2, <1>3
<1>10. \A n : P(n) /\ n \notin SplitKs => n \in Pipelines(y, fp16)
  <2> SUFFICES ASSUME NEW n, P(n), n \notin SplitKs PROVE n \in Pipelines(y, fp16)  OBVIOUS
  <2>1. n \in Names /\ Apt(y, fp16, n)  OBVIOUS
  <2> HIDE DEF Apt, P, Names
  <2> QED  BY <2>1 DEF Pipelines, SplitKs, Apts
<1> HIDE DEF Apt, P, Staged
<1> QED  BY <1>4, <1>5, <1>6, <1>7, <1>8, <1>9, <1>10 DEF SplitKs

\* The same for stride 2.
LEMMA StridedFallbacks ==
  ASSUME NEW y, NEW fp16, NEW a \in Pipelines(y, fp16), a \in Strided
  PROVE  /\ "stride2_direct_pack4" \in Pipelines(y, fp16) /\ "implicit_gemm" \in Pipelines(y, fp16)
         /\ y.d.oc % 4 = 0 => /\ "stride2_direct_pack4_packedw" \in Pipelines(y, fp16)
                              /\ "stride2_direct_pack4_packedw_pos2" \in Pipelines(y, fp16)
<1> USE DEF Apt, Geometry, Divides, BuiltIn, Meant, Names, Strided, Spatial, Points1, Int8Names,
         First6, Stride2Gemms, Stride2Kernels, Stride1Kernels, Staged, HalfAt40, Gemms, Pair,
         Conv1x1Halves, Int8Kernels, ByFour, LinearBuilds
<1> DEFINE P(n) == Apt(y, fp16, n)
<1>1. P(a)  BY DEF Pipelines, SplitKs, Apts
<1>2. y.silu /\ Plain(y.d, 3, 2, 1)  BY <1>1
<1>3. P("stride2_direct_pack4")  BY <1>2
<1>4. P("implicit_gemm")  BY <1>2 DEF Plain
<1>5. y.d.oc % 4 = 0 =>
        P("stride2_direct_pack4_packedw") /\ P("stride2_direct_pack4_packedw_pos2")
  BY <1>2
<1>6. \A n : P(n) /\ n \notin SplitKs => n \in Pipelines(y, fp16)
  <2> SUFFICES ASSUME NEW n, P(n), n \notin SplitKs PROVE n \in Pipelines(y, fp16)  OBVIOUS
  <2>1. n \in Names /\ Apt(y, fp16, n)  OBVIOUS
  <2> HIDE DEF Apt, P, Names
  <2> QED  BY <2>1 DEF Pipelines, SplitKs, Apts
<1> HIDE DEF Apt, P
<1> QED  BY <1>3, <1>4, <1>5, <1>6 DEF SplitKs

\* The same for pointwise, int8 and half-precision kernels.
LEMMA OtherFallbacks ==
  ASSUME NEW y, NEW fp16
  PROVE  /\ "generic" \in Pipelines(y, fp16)
         /\ y.silu /\ is_conv3x3_tiled_fast_path(y.d) => "spatial3x3_pack4" \in Pipelines(y, fp16)
         /\ y.silu /\ is_conv3x3_stride2_tiled_fast_path(y.d) =>
              "stride2_direct_pack4" \in Pipelines(y, fp16)
         /\ \A a \in Pipelines(y, fp16) :
              /\ a \in Conv1x1Halves => "conv1x1" \in Pipelines(y, fp16)
              /\ a \in Conv1x1Halves /\ Halved(y) =>
                   "native_fp16_conv1x1_oc8_pos2_io" \in Pipelines(y, fp16)
              /\ a \in HalfAt40 /\ Halved(y) =>
                   "native_fp16_packedw_pos2_40x40_64x64_io" \in Pipelines(y, fp16)
              /\ a \in Int8Kernels => "int8_prequantised" \in Pipelines(y, fp16)
<1> USE DEF Apt, Geometry, Divides, BuiltIn, Meant, Names, Strided, Spatial, Points1, Int8Names,
         First6, Stride2Gemms, Stride2Kernels, Stride1Kernels, Staged, HalfAt40, Gemms, Pair,
         Conv1x1Halves, Int8Kernels, ByFour, LinearBuilds
<1> DEFINE P(n) == Apt(y, fp16, n)
<1>1. P("generic")  OBVIOUS
<1>2. y.silu /\ is_conv3x3_tiled_fast_path(y.d) => P("spatial3x3_pack4")
  BY DEF is_conv3x3_tiled_fast_path
<1>3. y.silu /\ is_conv3x3_stride2_tiled_fast_path(y.d) => P("stride2_direct_pack4")
  BY DEF is_conv3x3_stride2_tiled_fast_path
<1>4. \A a \in Conv1x1Halves : P(a) =>
        P("conv1x1") /\ (Halved(y) => P("native_fp16_conv1x1_oc8_pos2_io"))
  OBVIOUS
<1>5. \A a \in HalfAt40 : P(a) /\ Halved(y) => P("native_fp16_packedw_pos2_40x40_64x64_io")
  OBVIOUS
<1>6. \A a \in Int8Kernels : P(a) => P("int8_prequantised")
  OBVIOUS
<1>7. \A n : P(n) /\ n \notin SplitKs <=> n \in Pipelines(y, fp16)
  <2> SUFFICES ASSUME NEW n PROVE P(n) /\ n \notin SplitKs <=> n \in Pipelines(y, fp16)  OBVIOUS
  <2>1. P(n) => n \in Names  OBVIOUS
  <2> HIDE DEF Apt, Names
  <2> QED  BY <2>1 DEF Pipelines, SplitKs, Apts
<1> HIDE DEF Apt, P, Conv1x1Halves, HalfAt40, Int8Kernels
<1> QED  BY <1>1, <1>2, <1>3, <1>4, <1>5, <1>6, <1>7 DEF SplitKs

\* A part that a flag leaves out does not spoil a list.
LEMMA UnlessApt ==
  ASSUME NEW A, NEW flag, NEW pipelines \in Seq(A)
  PROVE  Unless(flag, pipelines) \in Seq(A)
BY DEF Unless

\* All pipelines tried for an implicit product are apt.
LEMMA GemmChainApt ==
  ASSUME NEW a \in Pipelines(command, device.fp16), a \in Gemms \cup Stride2Gemms
  PROVE  GemmChain(a) \in Chains(Pipelines(command, device.fp16))
<1> DEFINE A == Pipelines(command, device.fp16)
           general == <<"implicit_gemm">> \o Unless("IMPLICIT_GEMM_3X3", <<"spatial3x3_pack4">>)
           fast == IF is_conv3x3_tiled_fast_path(d) THEN "spatial3x3_pack4" ELSE "generic"
           one == Unless("IMPLICIT_GEMM_3X3", <<fast>>)
<1>1. a = "implicit_gemm" \/ a \in Spatial \/ a \in Stride2Gemms
  BY DEF Spatial
<1>2. "generic" \in A  BY OtherFallbacks
<1>3. CASE a \in Stride2Gemms
  <2>1. "implicit_gemm" \in A  BY <1>3, StridedFallbacks DEF Strided
  <2>2. GemmChain(a) \in {<<a, "generic">>, <<a, "implicit_gemm">>}
    BY <1>3 DEF GemmChain, Stride2Gemms
  <2>3. <<a, "generic">> \in Chains(A) /\ <<a, "implicit_gemm">> \in Chains(A)
    BY <1>2, <2>1, ChainParts
  <2> HIDE DEF A
  <2> QED  BY <2>2, <2>3 DEF A
<1>4. CASE a = "implicit_gemm"
  <2>1. command.silu
    BY <1>4 DEF Pipelines, SplitKs, Apts, Apt, Meant, LinearBuilds, Int8Names, Int8Kernels
  <2>2. fast \in A  BY <1>2, <2>1, OtherFallbacks DEF d, c
  <2>3. GemmChain(a) = <<a>> \o one  BY <1>4 DEF GemmChain
  <2> HIDE DEF A, fast
  <2>4. <<a>> \in Chains(A) /\ one \in Seq(A)  BY <2>2, ChainParts, UnlessApt DEF A
  <2> HIDE DEF one
  <2>5. GemmChain(a) \in Chains(A)  BY <2>3, <2>4, ChainParts
  <2> QED  BY <2>5 DEF A
<1>5. CASE a \in Spatial /\ a \in Gemms \ {"implicit_gemm"}
  <2> DEFINE i10 == "implicit_gemm_10x10"   i20 == "implicit_gemm_20x20"
             i40 == "implicit_gemm_40x40"   p4 == "spatial3x3_pack4"
             of10 == "implicit_gemm_10x10_256x64"
  <2>1. i10 \in A /\ i20 \in A /\ i40 \in A /\ p4 \in A /\ "implicit_gemm" \in A
    BY <1>5, SpatialFallbacks
  <2>2. a \in {"implicit_gemm_10x10_256x64_oc2", "implicit_gemm_10x10_256x64_oc4",
               "implicit_gemm_10x10_256x64_persistent"} => of10 \in A
    BY <1>5 DEF Pipelines, SplitKs, Apts, Apt, Geometry, Divides, BuiltIn, Meant, Names, Spatial,
       Strided, Points1,
            Int8Names, First6, Stride2Gemms, Stride2Kernels, Stride1Kernels, Staged, HalfAt40,
            Gemms, Pair, Conv1x1Halves, Int8Kernels, ByFour, LinearBuilds
  <2>3. \/ GemmChain(a) \in {<<a, i40, p4>>, <<a, p4>>}
        \/ GemmChain(a) \in {<<a, i20>> \o general, <<a, i10>> \o general, <<a>> \o general}
        \/ a \in {"implicit_gemm_10x10_256x64_oc2", "implicit_gemm_10x10_256x64_oc4",
               "implicit_gemm_10x10_256x64_persistent"} /\ GemmChain(a) = <<a, of10, i10>>
    BY <1>5 DEF GemmChain, Gemms
  <2> HIDE DEF A, i10, i20, i40, p4, of10
  <2>4. general \in Seq(A)
    <3>1. <<"implicit_gemm">> \in Chains(A) /\ <<p4>> \in Seq(A)  BY <2>1, ChainParts
    <3>2. Unless("IMPLICIT_GEMM_3X3", <<p4>>) \in Seq(A)  BY <3>1, UnlessApt
    <3>3. <<"implicit_gemm">> \o Unless("IMPLICIT_GEMM_3X3", <<p4>>) \in Chains(A)
      BY <3>1, <3>2, ChainParts
    <3> QED  BY <3>3, ChainParts DEF p4
  <2> HIDE DEF general
  <2>5. /\ <<a, i40, p4>> \in Chains(A) /\ <<a, p4>> \in Chains(A)
        /\ <<a, i20>> \in Chains(A) /\ <<a, i10>> \in Chains(A) /\ <<a>> \in Chains(A)
        /\ of10 \in A => <<a, of10, i10>> \in Chains(A)
    BY <2>1, ChainParts DEF A
  <2>6. /\ <<a, i20>> \o general \in Chains(A) /\ <<a, i10>> \o general \in Chains(A)
        /\ <<a>> \o general \in Chains(A)
    BY <2>4, <2>5, ChainParts
  <2>7. GemmChain(a) \in Chains(A)
    <3> HIDE DEF Chains
    <3> QED  BY <2>2, <2>3, <2>5, <2>6
  <2> QED  BY <2>7 DEF A
<1> QED  BY <1>1, <1>3, <1>4, <1>5

\* All pipelines tried for a stride-2 kernel are apt.
LEMMA Stride2ChainApt ==
  ASSUME NEW a \in Pipelines(command, device.fp16), a \in Stride2Kernels,
         NEW routed \in BOOLEAN, routed => d.oc % 4 = 0
  PROVE  Stride2Chain(a, routed) \in Chains(Pipelines(command, device.fp16))
<1> DEFINE A == Pipelines(command, device.fp16)
           s2 == "stride2_direct_pack4"   packed == "stride2_direct_pack4_packedw"
           first == IF routed THEN <<packed>> ELSE <<>>
           direct(flag) == Unless(flag, <<s2>>)
<1>1. "generic" \in A /\ s2 \in A /\ (routed => packed \in A)
  BY OtherFallbacks, StridedFallbacks DEF Strided, d, c
<1>2. \/ Stride2Chain(a, routed) = <<a, "generic">>
      \/ Stride2Chain(a, routed) = first \o S2Direct
      \/ Stride2Chain(a, routed) = <<a>> \o S2Direct
      \/ \E flag : Stride2Chain(a, routed) = <<a>> \o direct(flag) \o <<"generic">>
  BY DEF Stride2Chain, Stride2Kernels
<1> HIDE DEF A, s2, packed
<1>3. first \in Seq(A)  BY <1>1, ChainParts
<1>4. S2Direct \in Chains(A)  BY <1>1, ChainParts DEF S2Direct, s2
<1>5. <<a>> \in Chains(A) /\ <<"generic">> \in Chains(A) /\ <<a, "generic">> \in Chains(A)
  BY <1>1, ChainParts DEF A
<1>6. \A flag : direct(flag) \in Seq(A)  BY <1>1, ChainParts, UnlessApt
<1> HIDE DEF first, direct
<1>7. \A flag : <<a>> \o direct(flag) \o <<"generic">> \in Chains(A)
  BY <1>5, <1>6, ChainParts
<1>8. first \o S2Direct \in Chains(A) /\ <<a>> \o S2Direct \in Chains(A)
  BY <1>3, <1>4, <1>5, ChainParts
<1>9. Stride2Chain(a, routed) \in Chains(A)
  <2> HIDE DEF Chains
  <2> QED  BY <1>2, <1>5, <1>7, <1>8
<1> QED  BY <1>9 DEF A

\* All pipelines tried for a half-precision kernel are apt.
LEMMA NativeChainApt ==
  ASSUME NEW a \in Pipelines(command, device.fp16), a \in NativeKernels
  PROVE  NativeChain(a) \in Chains(Pipelines(command, device.fp16))
<1> DEFINE A == Pipelines(command, device.fp16)
           s2 == "stride2_direct_pack4"   packed == "stride2_direct_pack4_packedw"
           at40 == "native_fp16_packedw_pos2_40x40_64x64"
           io == "native_fp16_packedw_pos2_40x40_64x64_io"
           pos2 == "direct_pack4_packedw_pos2"
<1>1. a \in {"stride2_native_fp16_packedw", Pair, at40} /\ "generic" \in A
  BY OtherFallbacks
  DEF Pipelines, SplitKs, Apts, Names, NativeKernels, Spatial, Strided, Points1, Int8Names, First6,
     Stride2Gemms,
      Stride2Kernels, Stride1Kernels, Staged, HalfAt40, Gemms, Pair, Conv1x1Halves, Int8Kernels
<1>2. a \in {"stride2_native_fp16_packedw", Pair} => s2 \in A
  BY StridedFallbacks DEF Strided
<1>3. a = Pair => packed \in A
  <2>1. a = Pair => d.oc % 4 = 0
    BY DEF Pipelines, SplitKs, Apts, Apt, BuiltIn, PairShape, Is, d, c
  <2> QED  BY <2>1, StridedFallbacks DEF Strided, d, c
<1>4. a = at40 => pos2 \in A /\ "direct_pack4" \in A /\ (Io => io \in A)
  <2>1. a = at40 => d.oc % 4 = 0
    BY DEF Pipelines, SplitKs, Apts, Apt, BuiltIn, HalfAt40, Is, d, c
  <2>2. a = at40 => a \in Spatial /\ a \in HalfAt40  BY DEF Spatial, HalfAt40
  <2>3. Io = Halved(command)  BY DEF Io, Halved
  <2> QED  BY <2>1, <2>2, <2>3, SpatialFallbacks, OtherFallbacks DEF d, c
<1>5. CASE a = "stride2_native_fp16_packedw"
  <2>1. NativeChain(a) = IF Io THEN <<a>> ELSE <<a>> \o S2Direct  BY <1>5 DEF NativeChain
  <2> HIDE DEF A, s2
  <2>2. <<a>> \in Chains(A) /\ S2Direct \in Chains(A)
    BY <1>1, <1>2, <1>5, ChainParts DEF S2Direct, s2, A
  <2>3. NativeChain(a) \in Chains(A)  BY <2>1, <2>2, ChainParts
  <2> QED  BY <2>3 DEF A
<1>6. CASE a = Pair
  <2>1. NativeChain(a) = IF Io THEN <<a>> ELSE <<a, packed, s2>>  BY <1>6 DEF NativeChain, Pair
  <2> HIDE DEF A, s2, packed
  <2>2. <<a>> \in Chains(A) /\ <<a, packed, s2>> \in Chains(A)
    BY <1>2, <1>3, <1>6, ChainParts DEF A
  <2>3. NativeChain(a) \in Chains(A)  BY <2>1, <2>2
  <2> QED  BY <2>3 DEF A
<1>7. CASE a = at40
  <2>1. NativeChain(a) = IF Io THEN <<io>> ELSE <<a, pos2, "direct_pack4">>
    BY <1>7 DEF NativeChain
  <2> HIDE DEF A, io, pos2
  <2>2. (Io => <<io>> \in Chains(A)) /\ <<a, pos2, "direct_pack4">> \in Chains(A)
    BY <1>4, <1>7, ChainParts DEF A
  <2>3. NativeChain(a) \in Chains(A)  BY <2>1, <2>2
  <2> QED  BY <2>3 DEF A
<1> QED  BY <1>1, <1>5, <1>6, <1>7

\* All pipelines tried for a stride-1 kernel are apt.
LEMMA Stride1ChainApt ==
  ASSUME NEW a \in Pipelines(command, device.fp16), a \in Stride1Kernels,
         NEW routed \in BOOLEAN, routed => d.oc % 4 = 0
  PROVE  Stride1Chain(a, routed) \in Chains(Pipelines(command, device.fp16))
<1> DEFINE A == Pipelines(command, device.fp16)
           dp4 == "direct_pack4"   pos2 == "direct_pack4_packedw_pos2"   p4 == "spatial3x3_pack4"
           native == "winograd_f2x2_native"
           first == IF routed THEN <<pos2>> ELSE <<>>
           half == IF command.native THEN <<native>> ELSE <<>>
<1>1. a \in Spatial  BY DEF Spatial
<1>2. /\ "generic" \in A /\ dp4 \in A /\ p4 \in A /\ (routed => pos2 \in A)
      /\ "implicit_gemm_10x10" \in A /\ "implicit_gemm_20x20" \in A
  BY <1>1, OtherFallbacks, SpatialFallbacks DEF d, c
<1>3. a = "winograd_f2x2" => (command.native => native \in A) /\ (Io => "winograd_f2x2_io" \in A)
  <2>1. a = "winograd_f2x2" => a \in Staged  BY DEF Staged
  <2> QED  BY <1>1, <2>1, SpatialFallbacks DEF Io, Halved
<1> HIDE DEF A, dp4, pos2, p4, native
<1>4. <<a>> \in Chains(A) /\ <<a, dp4>> \in Chains(A) /\ <<a, p4>> \in Chains(A)
      /\ <<a, "implicit_gemm_20x20">> \in Chains(A)
  BY <1>2, ChainParts DEF A
<1>5. WithoutF4x4 \in Chains(A)  BY <1>2, ChainParts DEF WithoutF4x4, p4
<1>6. WithoutWinograd \in Chains(A)  BY <1>2, ChainParts DEF WithoutWinograd, dp4
<1>7. first \in Seq(A)  BY <1>2, ChainParts
<1>8. a = "winograd_f2x2" => half \in Seq(A)  BY <1>3, ChainParts
<1>9. a = "winograd_f2x2" /\ Io => <<"winograd_f2x2_io">> \in Chains(A)  BY <1>3, ChainParts
<1>10. \/ a = "direct_pack4" /\ Stride1Chain(a, routed) = first \o <<a, p4>>
       \/ Stride1Chain(a, routed) = <<a, dp4>>
       \/ a = "winograd_f2x2" /\ Io /\ Stride1Chain(a, routed) = <<"winograd_f2x2_io">>
       \/ a = "winograd_f2x2" /\ Stride1Chain(a, routed) = half \o <<a>> \o WithoutWinograd
       \/ Stride1Chain(a, routed) = <<a>> \o WithoutF4x4
       \/ Stride1Chain(a, routed) = <<a, "implicit_gemm_20x20">>
  BY DEF Stride1Chain, Stride1Kernels, dp4, p4, pos2, native
<1> HIDE DEF first, half
<1>11. /\ first \o <<a, p4>> \in Chains(A)
       /\ a = "winograd_f2x2" => half \o <<a>> \o WithoutWinograd \in Chains(A)
       /\ <<a>> \o WithoutF4x4 \in Chains(A)
  BY <1>4, <1>5, <1>6, <1>7, <1>8, ChainParts
<1>12. Stride1Chain(a, routed) \in Chains(A)
  <2> HIDE DEF Chains
  <2> QED  BY <1>4, <1>9, <1>10, <1>11
<1> QED  BY <1>12 DEF A

\* All pipelines tried for the remaining kernels are apt.
LEMMA BasicChainApt ==
  ASSUME NEW a \in Pipelines(command, device.fp16), command.silu \in BOOLEAN
  PROVE  BasicChain(a) \in Chains(Pipelines(command, device.fp16))
<1> DEFINE A == Pipelines(command, device.fp16)
           native == "native_fp16_conv1x1_oc8_pos2"   io == "native_fp16_conv1x1_oc8_pos2_io"
           p4 == "spatial3x3_pack4"
<1>1. a = native => "conv1x1" \in A /\ (Io => io \in A)
  BY OtherFallbacks DEF Conv1x1Halves, Io, Halved
<1>2. a = "spatial3x3_pack8" => p4 \in A  BY SpatialFallbacks DEF Spatial
<1>3. "generic" \in A  BY OtherFallbacks
<1>4. command.silu /\ is_conv3x3_stride2_tiled_fast_path(d) => "stride2_direct_pack4" \in A
  BY OtherFallbacks DEF d, c
<1> HIDE DEF A, native, io, p4
<1>5. <<a>> \in Chains(A) /\ <<a, "generic">> \in Chains(A)
      /\ (a = native => <<a, "conv1x1">> \in Chains(A) /\ (Io => <<io>> \in Chains(A)))
  BY <1>1, <1>3, ChainParts DEF A
<1>6. a = "spatial3x3_pack8" => <<a>> \o Unless("PACK8_3X3", <<p4>>) \in Chains(A)
  <2> SUFFICES ASSUME a = "spatial3x3_pack8"
               PROVE  <<a>> \o Unless("PACK8_3X3", <<p4>>) \in Chains(A)
    OBVIOUS
  <2>1. Unless("PACK8_3X3", <<p4>>) \in Seq(A)  BY <1>2, ChainParts, UnlessApt
  <2> QED  BY <1>5, <2>1, ChainParts
<1>7. command.silu /\ is_conv3x3_stride2_tiled_fast_path(d) => S2Direct \in Chains(A)
  BY <1>3, <1>4, ChainParts DEF S2Direct
<1>8. \/ a = native /\ Io /\ BasicChain(a) = <<io>>
      \/ a = native /\ BasicChain(a) = <<a, "conv1x1">>
      \/ a = "spatial3x3_pack8" /\ BasicChain(a) = <<a>> \o Unless("PACK8_3X3", <<p4>>)
      \/ BasicChain(a) = <<a, "generic">>
      \/ command.silu /\ is_conv3x3_stride2_tiled_fast_path(d) /\ BasicChain(a) = S2Direct
      \/ BasicChain(a) = <<a>>
  BY DEF BasicChain, native, io, p4
<1>9. BasicChain(a) \in Chains(A)
  <2> HIDE DEF Chains
  <2> QED  BY <1>5, <1>6, <1>7, <1>8
<1> QED  BY <1>9 DEF A

\* Whatever the algorithm, all pipelines tried for it are apt.
LEMMA ChainApt ==
  ASSUME NEW a \in Pipelines(command, device.fp16), command.silu \in BOOLEAN,
         NEW routed \in BOOLEAN, routed => d.oc % 4 = 0
  PROVE  Chain(a, routed) \in Chains(Pipelines(command, device.fp16))
<1> DEFINE A == Pipelines(command, device.fp16)
<1>1. a \in Int8Kernels => <<a, "int8_prequantised">> \in Chains(A)
  <2>1. a \in Int8Kernels => "int8_prequantised" \in A  BY OtherFallbacks
  <2> HIDE DEF A
  <2> QED  BY <2>1, ChainParts DEF A
<1> QED  BY <1>1, GemmChainApt, Stride2ChainApt, NativeChainApt, Stride1ChainApt, BasicChainApt
         DEF Chain

------------------------------------------------------------------------------
(* The weights that pipelines need                                           *)

\* What the kernels of a layout of their own ask for, one line for a kind.
NeedsOf(p) ==
  LET half == native_fp16_packed_weight(command)
      kmajor == engine_conv3x3_k_major_oc4_fp16_weight(command)
      wino == engine_winograd_f2x2_fp16_weight(command)
      float == winograd_f2x2_weight(command)
      fourth == winograd_f4x4_fp16_weight(command)
      oc8 == engine_conv1x1_oc8_fp16_weight(command)
      s2 == {<<>>, <<"stride2_direct_pack4">>}
      n == OwnNeeds(p)
  IN \/ /\ p \in Packable4 \ {"direct_pack4_packedw_pos2", "stride2_direct_pack4_packedw_oc8"}
        /\ \E i \in s2 : n = Needs(Float4Weight, Float4(Float4Weight), i, "original")
     \/ /\ p = "stride2_direct_pack4_packedw_oc8"
        /\ \E i \in s2 : n = Needs(Float4Weight, Scalar(Float4Weight), i, "original")
     \/ /\ p = "direct_pack4_packedw_pos2"
        /\ \E i \in {<<>>, <<"direct_pack4">>} :
             n = Needs(Float4Weight, Scalar(Float4Weight), i, "original")
     \/ /\ p = "stride2_native_fp16_packedw"
        /\ n = Needs(half, Uint2(half), IfNotIo(<<"stride2_direct_pack4">>), "original")
     \/ /\ p \in HalfAt40
        /\ n = Needs(half, Uint2(half), IfNotIo(<<"direct_pack4_packedw_pos2">>), "oc4")
     \/ /\ p = Pair
        /\ n = Needs(kmajor, Uint2(kmajor), <<"stride2_direct_pack4_packedw">>, "oc4")
     \/ /\ p = "winograd_f2x2_native" \/ (p = "winograd_f2x2_io" /\ command.native)
        /\ n = Needs(wino, Uint2(wino), IfNotIo(<<"winograd_f2x2">>), "own")
     \/ /\ p = "winograd_f2x2" \/ (p = "winograd_f2x2_io" /\ ~command.native)
        /\ n = Needs(float, Float4(float), WithoutWinograd, "original")
     \/ /\ p = "winograd_f2x2_fp32_accum"
        /\ n = Needs(float, Scalar(float), <<>>, "own")
     \/ /\ p = "winograd_f4x4"
        /\ n = Needs(fourth, Uint2(fourth), WithoutF4x4, "original")
     \/ /\ p \in Conv1x1Halves
        /\ n = Needs(oc8, Uint2(oc8), IfNotIo(<<"conv1x1">>), "original")

\* Every pipeline with a layout of its own asks for one of these.
LEMMA NeedsCases ==
  ASSUME NEW p \in Pipelines(command, device.fp16), p \in OwnLayout, command.native \in BOOLEAN
  PROVE  NeedsOf(p)
<1>1. CASE p \in Winograds
  <2>1. p \notin HalfPrecision \cup Packable4 \cup Conv1x1Halves
    BY <1>1 DEF Winograds, HalfPrecision, NativeKernels, Packable4, Conv1x1Halves
  <2>2. OwnNeeds(p) = WinogradNeeds(p)  BY <1>1, <2>1 DEF OwnNeeds
  <2> QED  BY <1>1, <2>2 DEF WinogradNeeds, Winograds, NeedsOf
<1>2. CASE p \in HalfPrecision
  <2>1. p \in {"stride2_native_fp16_packedw", Pair} \cup HalfAt40
    BY <1>2 DEF Pipelines, Apts, Names, HalfPrecision, NativeKernels, Packable4, Spatial, Strided,
       Points1, Int8Names, First6, Stride2Gemms, Stride2Kernels, Stride1Kernels, Staged,
       HalfAt40, Gemms, Pair, Conv1x1Halves, Int8Kernels
  <2>2. p \notin Winograds \cup Packable4 \cup Conv1x1Halves
    BY <2>1 DEF Winograds, Packable4, Conv1x1Halves, HalfAt40, Pair
  <2>3. OwnNeeds(p) = NativeNeeds(p)  BY <1>2, <2>2 DEF OwnNeeds
  <2> QED  BY <2>1, <2>3 DEF NativeNeeds, HalfAt40, Pair, NeedsOf
<1>3. CASE p \in Packable4
  <2>1. p \notin Winograds \cup HalfPrecision \cup Conv1x1Halves
    BY <1>3 DEF Winograds, HalfPrecision, NativeKernels, Packable4, Conv1x1Halves
  <2>2. OwnNeeds(p) = PackedByFour(p)  BY <1>3, <2>1 DEF OwnNeeds
  <2> QED  BY <1>3, <2>2 DEF PackedByFour, Packable4, NeedsOf
<1>4. CASE p \in Conv1x1Halves
  <2>1. p \notin Winograds \cup HalfPrecision \cup Packable4
    BY <1>4 DEF Winograds, HalfPrecision, NativeKernels, Packable4, Conv1x1Halves
  <2>2. OwnNeeds(p) = Conv1x1Needs(p)  BY <1>4, <2>1 DEF OwnNeeds
  <2> QED  BY <1>4, <2>2 DEF Conv1x1Needs, NeedsOf
<1> QED  BY <1>1, <1>2, <1>3, <1>4 DEF OwnLayout

\* The fields of a need.
LEMMA NeedsFields ==
  ASSUME NEW b, NEW v, NEW i, NEW t
  PROVE  /\ Needs(b, v, i, t).buffer = b /\ Needs(b, v, i, t).view = v
         /\ Needs(b, v, i, t).instead = i /\ Needs(b, v, i, t).then = t
BY DEF Needs

\* The pipelines that get the imported weights in place of their own, and
\* those that get the ones packed by four channels.
Originals == {"direct_pack4", "stride2_direct_pack4", "spatial3x3_pack4", "conv1x1", "generic",
              "implicit_gemm_10x10", "implicit_gemm_20x20"}

\* The pipelines that read floats by four channels.
Fours == {"direct_pack4_packedw_pos2", "stride2_direct_pack4_packedw"}

\* What is compiled in place of a pipeline without its weights is apt and reads
\* the weights that it is then given.
LEMMA InsteadFits ==
  ASSUME NEW p \in Pipelines(command, device.fp16), p \in OwnLayout, command.native \in BOOLEAN
  PROVE  LET n == OwnNeeds(p)
         IN /\ n.instead \in Seq(Pipelines(command, device.fp16))
            /\ \/ n.then = "original" /\ n.instead \in Seq(Originals)
               \/ n.then = "oc4" /\ n.instead \in Seq(Fours) /\ Float4Weight.fits
               \/ n.then = "own" /\ n.instead = <<>>
               \/ /\ n.then = "own" /\ n.instead = <<"winograd_f2x2">>
                  /\ p = "winograd_f2x2_native" /\ ~Io
<1> DEFINE A == Pipelines(command, device.fp16)   n == OwnNeeds(p)
           s2 == "stride2_direct_pack4"   packed == "stride2_direct_pack4_packedw"
           dp4 == "direct_pack4"   pos2 == "direct_pack4_packedw_pos2"   wino == "winograd_f2x2"
           p4 == "spatial3x3_pack4"
           R == /\ n.instead \in Seq(A)
                /\ \/ n.then = "original" /\ n.instead \in Seq(Originals)
                   \/ n.then = "oc4" /\ n.instead \in Seq(Fours) /\ Float4Weight.fits
                   \/ n.then = "own" /\ n.instead = <<>>
                   \/ /\ n.then = "own" /\ n.instead = <<"winograd_f2x2">>
                      /\ p = "winograd_f2x2_native" /\ ~Io
<1>1. p \in Names \ SplitKs /\ Apt(command, device.fp16, p)  BY DEF Pipelines, Apts
<1>2. /\ p \in Packable4 \ {pos2} => s2 \in A
      /\ p = "stride2_native_fp16_packedw" => s2 \in A
  <2>1. p \in (Packable4 \ {pos2}) \cup {"stride2_native_fp16_packedw"} => p \in Strided
    BY <1>1 DEF Packable4, Strided, Stride2Kernels, Names, Spatial, Points1, Int8Names, First6,
       Stride2Gemms, Stride1Kernels, Staged, HalfAt40, Gemms, Pair, Conv1x1Halves, Int8Kernels
  <2> QED  BY <2>1, StridedFallbacks
<1>3. p = pos2 => dp4 \in A  BY SpatialFallbacks DEF Spatial, Stride1Kernels
<1>4. p \in HalfAt40 => pos2 \in A /\ Float4Weight.fits
  <2>1. p \in HalfAt40 => d.oc = 64 /\ p \in Spatial  BY <1>1 DEF Apt, BuiltIn, Is, d, c, Spatial
  <2>2. p \in HalfAt40 => d.g = 1  BY <1>1, <2>1 DEF Apt, Geometry, Plain, d, c
  <2>3. 64 % 4 = 0  OBVIOUS
  <2> QED  BY <2>1, <2>2, <2>3, SpatialFallbacks
           DEF d, c, Float4Weight, stride2_direct_pack4_packed_weight, Buffer
<1>5. p = Pair => packed \in A /\ Float4Weight.fits
  <2>1. p = Pair => d.oc = 256 /\ d.g = 1
    BY <1>1 DEF Apt, BuiltIn, PairShape, Plain, Is, d, c
  <2>2. 256 % 4 = 0  OBVIOUS
  <2>3. p = Pair => packed \in A  BY <2>1, <2>2, StridedFallbacks DEF d, c, Strided
  <2>4. p = Pair => Float4Weight.fits
    BY <2>1, <2>2 DEF d, c, Float4Weight, stride2_direct_pack4_packed_weight, Buffer
  <2> QED  BY <2>3, <2>4
<1>6. p \in Staged => /\ wino \in A /\ dp4 \in A /\ "generic" \in A
                      /\ "implicit_gemm_10x10" \in A /\ "implicit_gemm_20x20" \in A
  BY SpatialFallbacks, OtherFallbacks DEF Spatial
<1>7. p = "winograd_f4x4" => p4 \in A /\ "generic" \in A
  BY SpatialFallbacks, OtherFallbacks DEF Spatial, Stride1Kernels
<1>8. p \in Conv1x1Halves => "conv1x1" \in A  BY OtherFallbacks
<1>9. p = "winograd_f2x2_io" => Io  BY <1>1 DEF Apt, Meant, Io, Halved
<1> HIDE DEF A, s2, packed, pos2, dp4, wino, p4, R
<1>10. <<>> \in Seq(A) /\ \A q \in A : <<q>> \in Seq(A)  BY ChainParts
<1>11. /\ <<>> \in Seq(Originals) /\ <<s2>> \in Seq(Originals) /\ <<dp4>> \in Seq(Originals)
       /\ <<"conv1x1">> \in Seq(Originals) /\ WithoutF4x4 \in Seq(Originals)
       /\ WithoutWinograd \in Seq(Originals)
  <2>1. \A q \in Originals : <<q>> \in Seq(Originals)  OBVIOUS
  <2>2. \A q, r \in Originals : <<q, r>> \in Seq(Originals)  OBVIOUS
  <2>3. {s2, dp4, "conv1x1", p4, "generic", "implicit_gemm_10x10", "implicit_gemm_20x20"}
          \subseteq Originals
    BY DEF Originals, s2, dp4, p4
  <2> HIDE DEF Originals
  <2>4. WithoutF4x4 \in Seq(Originals)  BY <2>2, <2>3 DEF WithoutF4x4, p4
  <2>5. WithoutWinograd \in Seq(Originals)  BY <2>2, <2>3 DEF WithoutWinograd, dp4
  <2> QED  BY <2>1, <2>3, <2>4, <2>5
<1>12. <<>> \in Seq(Fours) /\ <<pos2>> \in Seq(Fours) /\ <<packed>> \in Seq(Fours)
  BY DEF Fours, pos2, packed
<1>13. /\ p \in Packable4 \ {pos2} => <<s2>> \in Seq(A)
       /\ p = "stride2_native_fp16_packedw" => <<s2>> \in Seq(A)
       /\ p = pos2 => <<dp4>> \in Seq(A)
       /\ p \in HalfAt40 => <<pos2>> \in Seq(A)
       /\ p = Pair => <<packed>> \in Seq(A)
       /\ p \in Staged => <<wino>> \in Seq(A)
       /\ p \in Conv1x1Halves => <<"conv1x1">> \in Seq(A)
  BY <1>2, <1>3, <1>4, <1>5, <1>6, <1>8, <1>10
<1>14. /\ p \in Staged => WithoutWinograd \in Seq(A)
       /\ p = "winograd_f4x4" => WithoutF4x4 \in Seq(A)
  BY <1>6, <1>7, ChainParts DEF WithoutWinograd, WithoutF4x4, dp4, p4
<1>15. \A q : IfNotIo(q) = IF Io THEN <<>> ELSE q  BY DEF IfNotIo
<1>16. NeedsOf(p)  BY NeedsCases
<1>17. R
  <2>1. CASE p \in Packable4
    <3>1. n.then = "original"
          /\ (n.instead = <<>> \/ (p # pos2 /\ n.instead = <<s2>>)
                               \/ (p = pos2 /\ n.instead = <<dp4>>))
      BY <2>1, <1>16, NeedsFields DEF NeedsOf, Packable4, HalfAt40, Pair, Conv1x1Halves, s2, dp4,
         pos2
    <3> HIDE DEF n
    <3> QED  BY <2>1, <3>1, <1>10, <1>11, <1>13 DEF R
  <2>2. CASE p \in {"stride2_native_fp16_packedw"} \cup Conv1x1Halves
    <3>1. n.then = "original"
          /\ \/ p = "stride2_native_fp16_packedw" /\ n.instead = IfNotIo(<<s2>>)
             \/ p \in Conv1x1Halves /\ n.instead = IfNotIo(<<"conv1x1">>)
      BY <2>2, <1>16, NeedsFields DEF NeedsOf, Packable4, HalfAt40, Pair, Conv1x1Halves, s2
    <3> HIDE DEF n
    <3> QED  BY <3>1, <1>10, <1>11, <1>13, <1>15 DEF R
  <2>3. CASE p \in HalfAt40 \cup {Pair}
    <3>1. n.then = "oc4"
          /\ \/ p \in HalfAt40 /\ n.instead = IfNotIo(<<pos2>>)
             \/ p = Pair /\ n.instead = <<packed>>
      BY <2>3, <1>16, NeedsFields DEF NeedsOf, Packable4, HalfAt40, Pair, Conv1x1Halves, pos2,
         packed
    <3> HIDE DEF n
    <3> QED  BY <2>3, <3>1, <1>4, <1>5, <1>10, <1>12, <1>13, <1>15 DEF R
  <2>4. CASE p \in Staged
    <3>1. \/ n.then = "own" /\ n.instead = IfNotIo(<<wino>>)
             /\ (p = "winograd_f2x2_native" \/ p = "winograd_f2x2_io")
          \/ n.then = "original" /\ n.instead = WithoutWinograd
          \/ n.then = "own" /\ n.instead = <<>>
      BY <2>4, <1>16, NeedsFields DEF NeedsOf, Packable4, HalfAt40, Pair, Conv1x1Halves, Staged,
         wino
    <3> HIDE DEF n
    <3>2. <<wino>> = <<"winograd_f2x2">>  BY DEF wino
    <3> QED  BY <2>4, <3>1, <3>2, <1>9, <1>10, <1>11, <1>13, <1>14, <1>15 DEF R
  <2>5. CASE p = "winograd_f4x4"
    <3>1. n.then = "original" /\ n.instead = WithoutF4x4
      BY <2>5, <1>16, NeedsFields DEF NeedsOf, Packable4, HalfAt40, Pair, Conv1x1Halves
    <3> HIDE DEF n
    <3> QED  BY <2>5, <3>1, <1>11, <1>14 DEF R
  <2>6. p \in Packable4 \cup {"stride2_native_fp16_packedw"} \cup Conv1x1Halves \cup HalfAt40
          \cup {Pair} \cup Staged \cup {"winograd_f4x4"}
    BY DEF OwnLayout, Winograds, HalfPrecision, NativeKernels, Packable4, Conv1x1Halves, HalfAt40,
       Pair, Staged, Pipelines, Apts, Names, Spatial, Strided, Points1, Int8Names, First6,
       Stride2Gemms, Stride2Kernels, Stride1Kernels, Gemms, Int8Kernels
  <2> QED  BY <2>1, <2>2, <2>3, <2>4, <2>5, <2>6
<1> QED  BY <1>17 DEF R, A, n

------------------------------------------------------------------------------
(* The recorder                                                              *)

\* The kernels that read several branches.
ConcatNames == {"concat_native", "concat_tileflow", "concat_gemm", "concat_direct_pack4",
                "concat_gemm256", "concat_vec4", "concat_plain"}

\* Something is being compiled, given weights or recorded.
Live == stage \in {"compile", "weights", "record"}

\* The type invariant of the recorder.
Types ==
  /\ stage \in Stages /\ wanted \in {"own", "original", "oc4"} /\ failed \in BOOLEAN
  /\ \A b \in packs : b.fits
  /\ EngineCommand(command)

\* What is left to try is apt for the command, and reads the weights wanted for it.
ChainInv ==
  /\ stage = "choose" => wanted = "own" /\ commands = <<>>
  /\ stage = "weights" => ~Concat
  /\ Live /\ Concat => chain \in Chains(ConcatNames)
  /\ Live /\ ~Concat =>
       /\ chain \in Chains(Pipelines(command, device.fp16))
       /\ wanted = "original" => chain \in Seq(Originals)
       /\ wanted = "oc4" => chain \in Seq(Fours) /\ Float4Weight.fits

\* A convolution joined with its concatenation has branches.
LEMMA Branching == Concat <=> Branched(command)
BY DEF Concat, Branched, d, c

\* A command without branches is of the first kind.
LEMMA RecordableSilu ==
  ASSUME Types, ~Concat
  PROVE  Recordable(command) /\ command.silu \in BOOLEAN /\ command.native \in BOOLEAN
BY Branching, RecordableCases DEF Types, EngineCommand, Joinable

\* The first and the rest of what is left to try.
LEMMA ChainsOf ==
  ASSUME NEW A, NEW s \in Chains(A)
  PROVE  /\ s \in Seq(A) /\ s # <<>> /\ Len(s) \in Nat \ {0} /\ Head(s) \in A
         /\ <<Head(s)>> \in Chains(A)
         /\ Len(s) # 1 => Tail(s) \in Chains(A) /\ Len(Tail(s)) < Len(s)
<1>1. s \in Seq(A) /\ s # <<>>  BY DEF Chains
<1>2. Len(s) \in Nat \ {0} /\ Head(s) \in A  BY <1>1
<1>3. <<Head(s)>> \in Chains(A)  BY <1>2, ChainParts
<1>4. Tail(s) \in Seq(A) /\ Len(Tail(s)) = Len(s) - 1  BY <1>1
<1>5. Len(s) # 1 => Tail(s) # <<>>
  <2>1. Len(s) # 1 => Len(Tail(s)) # 0  BY <1>2, <1>4
  <2>2. \A t : t = <<>> => Len(t) = 0  OBVIOUS
  <2> QED  BY <2>1, <2>2
<1> QED  BY <1>1, <1>2, <1>3, <1>4, <1>5 DEF Chains

\* The invariants hold before the first choice.
LEMMA TypesInit ==
  ASSUME EngineSettings, Init
  PROVE  Types /\ ChainInv
BY DEF Init, EngineSettings, Types, ChainInv, Stages, Live

\* What is tried for a joined convolution.
LEMMA ConcatChainIs == ConcatChain \in Chains(ConcatNames)
<1> DEFINE A == ConcatNames
           middle == CASE UsesNative -> IfNotIo(<<"concat_direct_pack4", "concat_plain">>)
                       [] ~UsesNative /\ UsesGemm256 -> <<"concat_vec4", "concat_plain">>
                       [] UsesVec4 -> <<"concat_plain">>
                       [] OTHER -> <<>>
           last == IF PlannedNative /\ ~(UsesNative /\ Io) THEN <<"concat_plain">> ELSE <<>>
<1>1. Selected \in A  BY DEF Selected, ConcatNames
<1>2. "concat_direct_pack4" \in A /\ "concat_plain" \in A /\ "concat_vec4" \in A  BY DEF ConcatNames
<1>3. ConcatChain = <<Selected>> \o middle \o last  BY DEF ConcatChain
<1> HIDE DEF A
<1>4. <<Selected>> \in Chains(A)  BY <1>1, ChainParts
<1>5. last \in Seq(A)  BY <1>2, ChainParts
<1>6. middle \in Seq(A)
  <2>1. /\ <<"concat_direct_pack4", "concat_plain">> \in Seq(A) /\ <<>> \in Seq(A)
        /\ <<"concat_vec4", "concat_plain">> \in Seq(A) /\ <<"concat_plain">> \in Seq(A)
    BY <1>2, ChainParts
  <2>2. IfNotIo(<<"concat_direct_pack4", "concat_plain">>) \in Seq(A)  BY <2>1 DEF IfNotIo
  <2> QED  BY <2>1, <2>2
<1> HIDE DEF middle, last
<1>7. ConcatChain \in Chains(A)  BY <1>3, <1>4, <1>5, <1>6, ChainParts
<1> QED  BY <1>7 DEF A

\* What a command and a device determine stays with them.
LEMMA SettingKept ==
  ASSUME SameSetting
  PROVE  /\ command' = command /\ device' = device /\ (Concat' <=> Concat) /\ (Io' <=> Io) /\ d' = d
         /\ Float4Weight' = Float4Weight
         /\ (EngineCommand(command))' = EngineCommand(command)
         /\ Pipelines(command', device'.fp16) = Pipelines(command, device.fp16)
BY DEF SameSetting, Concat, Io, d, c, Float4Weight, stride2_direct_pack4_packed_weight, Buffer

\* Only weights that fit are packed.
LEMMA PackedKept ==
  ASSUME Types, NEW b
  PROVE  /\ Packed(b) => \A x \in packs' : x.fits
         /\ NotPacked(b) => (\A x \in packs' : x.fits) /\ failed' \in BOOLEAN
BY DEF Types, Packed, NotPacked

\* Choosing an algorithm keeps the invariants.
LEMMA ChooseStep ==
  ASSUME Types, ChainInv, Choose
  PROVE  Types' /\ ChainInv'
<1> DEFINE A == Pipelines(command, device.fp16)
<1>1. ~Concat /\ stage' = "compile" /\ wanted' = wanted /\ wanted = "own" /\ SameSetting
  BY DEF Choose, ChainInv
<1>2. Recordable(command) /\ command.silu \in BOOLEAN  BY <1>1, RecordableSilu
<1>3. Algorithm \in A
  BY <1>2, AlgorithmApt DEF Pipelines, Choose
<1>4. chain' \in Chains(A)
  <2>1. Chain(Algorithm, FALSE) \in Chains(A)  BY <1>2, <1>3, ChainApt
  <2>2. Packed(Float4Weight) => d.oc % 4 = 0
    BY DEF Packed, Float4Weight, stride2_direct_pack4_packed_weight, Buffer, d, c
  <2>3. Packed(Float4Weight) => Chain(Algorithm, TRUE) \in Chains(A)
    BY <1>2, <1>3, <2>2, ChainApt
  <2> HIDE DEF A
  <2> QED  BY <2>1, <2>3 DEF Choose
<1>5. (\A x \in packs' : x.fits) /\ failed' \in BOOLEAN  BY PackedKept DEF Choose, Types
<1>6. Types'
  BY <1>1, <1>5, SettingKept DEF Types, Stages
<1>7. ChainInv'
  <2>1. stage' = "compile" /\ wanted' = "own" /\ ~Concat' /\ Pipelines(command', device'.fp16) = A
    BY <1>1, SettingKept
  <2> HIDE DEF A
  <2> QED  BY <1>4, <2>1 DEF ChainInv, Live
<1> QED  BY <1>6, <1>7

\* So does compiling a pipeline, and failing to.
LEMMA CompileStep ==
  ASSUME Types, ChainInv, CompileOk \/ CompileFails
  PROVE  Types' /\ ChainInv'
<1> DEFINE A == Pipelines(command, device.fp16)
<1>1. /\ stage = "compile" /\ wanted' = wanted /\ packs' = packs /\ SameSetting
      /\ stage' \in {"compile", "weights", "refused"} /\ failed' \in BOOLEAN
      /\ stage' = "weights" => ~Concat
  BY DEF CompileOk, CompileFails, Types
<1>2. Types'  BY <1>1, SettingKept DEF Types, Stages
<1>3. \/ chain' = <<Head(chain)>>
      \/ stage' = "refused"
      \/ Len(chain) # 1 /\ chain' = Tail(chain)
  BY DEF CompileOk, CompileFails, Pipeline
<1>4. ASSUME NEW B, chain \in Chains(B), stage' # "refused"  PROVE chain' \in Chains(B)
  BY <1>3, <1>4, ChainsOf
<1>5. ASSUME NEW B, chain \in Seq(B), chain # <<>>, stage' # "refused"  PROVE chain' \in Seq(B)
  <2>1. chain \in Chains(B)  BY <1>5 DEF Chains
  <2>2. chain' \in Chains(B)  BY <1>4, <1>5, <2>1
  <2> QED  BY <2>2 DEF Chains
<1>6. chain # <<>>  BY <1>1, ChainsOf DEF ChainInv, Live
<1>7. ChainInv'
  <2>1. Pipelines(command', device'.fp16) = A /\ (Concat' <=> Concat) /\ Float4Weight' = Float4Weight
    BY <1>1, SettingKept
  <2>2. stage' # "refused" /\ Concat => chain' \in Chains(ConcatNames)
    BY <1>1, <1>4 DEF ChainInv, Live
  <2>3. stage' # "refused" /\ ~Concat =>
          /\ chain' \in Chains(A)
          /\ wanted = "original" => chain' \in Seq(Originals)
          /\ wanted = "oc4" => chain' \in Seq(Fours) /\ Float4Weight.fits
    BY <1>1, <1>4, <1>5, <1>6 DEF ChainInv, Live
  <2> HIDE DEF A
  <2> QED  BY <1>1, <2>1, <2>2, <2>3 DEF ChainInv, Live
<1> QED  BY <1>2, <1>7

\* So does binding the weights.
LEMMA BindStep ==
  ASSUME Types, ChainInv, BindOriginal \/ BindPacked
  PROVE  Types' /\ ChainInv'
<1>1. /\ stage = "weights" /\ stage' = "record" /\ wanted' = wanted /\ chain' = chain
      /\ failed' = failed /\ commands' = commands /\ SameSetting /\ ~Concat
  BY DEF BindOriginal, BindPacked, ChainInv
<1>2. \A x \in packs' : x.fits  BY PackedKept DEF BindOriginal, BindPacked, Types
<1>3. Types'  BY <1>1, <1>2, SettingKept DEF Types, Stages
<1>4. ChainInv'
  <2> DEFINE A == Pipelines(command, device.fp16)
  <2>1. /\ Pipelines(command', device'.fp16) = A /\ (Concat' <=> Concat)
        /\ Float4Weight' = Float4Weight
    BY <1>1, SettingKept
  <2>2. /\ chain \in Chains(A)
        /\ wanted = "original" => chain \in Seq(Originals)
        /\ wanted = "oc4" => chain \in Seq(Fours) /\ Float4Weight.fits
    BY <1>1 DEF ChainInv, Live
  <2> HIDE DEF A
  <2> QED  BY <1>1, <2>1, <2>2 DEF ChainInv, Live
<1> QED  BY <1>3, <1>4

\* What is compiled without its weights.
LEMMA OtherFacts ==
  ASSUME Types, ChainInv, BindOther
  PROVE  /\ SameSetting /\ stage = "weights" /\ ~Concat /\ chain' = TheNeeds.instead
         /\ wanted' = TheNeeds.then
         /\ stage' = IF chain' = <<>> THEN "refused" ELSE "compile"
         /\ chain' \in Seq(Pipelines(command, device.fp16))
         /\ \/ wanted' = "original" /\ chain' \in Seq(Originals)
            \/ wanted' = "oc4" /\ chain' \in Seq(Fours) /\ Float4Weight.fits
            \/ wanted' = "own" /\ chain' = <<>>
            \/ /\ wanted' = "own" /\ chain' = <<"winograd_f2x2">>
               /\ wanted = "own" /\ Pipeline = "winograd_f2x2_native" /\ ~Io
         /\ \/ /\ wanted = "oc4" /\ TheNeeds.buffer = Float4Weight /\ chain' = <<>>
            \/ /\ wanted = "own" /\ Pipeline \in OwnLayout
               /\ TheNeeds = OwnNeeds(Pipeline)
<1> DEFINE A == Pipelines(command, device.fp16)
<1>1. /\ SameSetting /\ stage = "weights" /\ ~Concat /\ chain' = TheNeeds.instead
      /\ wanted' = TheNeeds.then /\ ~AsImported
      /\ stage' = IF chain' = <<>> THEN "refused" ELSE "compile"
  BY DEF BindOther, ChainInv
<1>2. Pipeline \in A
  BY <1>1, ChainsOf DEF ChainInv, Live, Pipeline
<1>3. command.native \in BOOLEAN  BY <1>1, RecordableSilu
<1>4. wanted = "oc4" \/ (wanted = "own" /\ Pipeline \in OwnLayout)
  BY <1>1 DEF AsImported, Types
<1>5. CASE wanted = "oc4"
  <2>1. TheNeeds.instead = <<>> /\ TheNeeds.then = "oc4" /\ TheNeeds.buffer = Float4Weight
    BY <1>5, NeedsFields DEF TheNeeds
  <2>2. Float4Weight.fits  BY <1>1, <1>5 DEF ChainInv, Live
  <2>3. \A B : <<>> \in Seq(B)  OBVIOUS
  <2> QED  BY <1>1, <1>5, <2>1, <2>2, <2>3
<1>6. CASE wanted = "own" /\ Pipeline \in OwnLayout
  <2>1. TheNeeds = OwnNeeds(Pipeline)  BY <1>6 DEF TheNeeds
  <2> HIDE DEF A
  <2> QED  BY <1>1, <1>2, <1>3, <1>6, <2>1, InsteadFits DEF A
<1> QED  BY <1>4, <1>5, <1>6

\* Compiling another pipeline for want of weights keeps the invariants.
LEMMA BindOtherStep ==
  ASSUME Types, ChainInv, BindOther
  PROVE  Types' /\ ChainInv'
<1>1. failed' \in BOOLEAN /\ \A x \in packs' : x.fits  BY PackedKept DEF BindOther
<1>2. Types'
  BY <1>1, OtherFacts, SettingKept DEF Types, Stages
<1>3. ChainInv'
  <2> DEFINE A == Pipelines(command, device.fp16)
  <2>1. /\ Pipelines(command', device'.fp16) = A /\ (Concat' <=> Concat)
        /\ Float4Weight' = Float4Weight
    BY OtherFacts, SettingKept
  <2>2. stage' = "compile" => chain' \in Chains(A)
    BY OtherFacts DEF Chains
  <2>3. stage' = "compile" =>
          /\ wanted' = "original" => chain' \in Seq(Originals)
          /\ wanted' = "oc4" => chain' \in Seq(Fours) /\ Float4Weight.fits
    BY OtherFacts
  <2>4. stage' \in {"refused", "compile"} /\ ~Concat  BY OtherFacts
  <2> HIDE DEF A
  <2> QED  BY <2>1, <2>2, <2>3, <2>4 DEF ChainInv, Live
<1> QED  BY <1>2, <1>3

\* The steps that record or refuse.
LEMMA LastStep ==
  ASSUME Types, ChainInv,
         \/ RecordWinogradSlices \/ Record \/ DescriptorsRunOut \/ RecordSplitK
         \/ RecordInt8 \/ RefuseInt8 \/ RecordConcat
  PROVE  Types' /\ ChainInv' /\ stage' \in {"recorded", "refused"}
<1>1. /\ SameSetting /\ wanted' = wanted /\ stage' \in {"recorded", "refused"}
  BY DEF RecordWinogradSlices, Record, DescriptorsRunOut, RecordSplitK, RecordInt8, RefuseInt8,
         RecordConcat, Ends
<1>2. failed' \in BOOLEAN
  <2>1. SlicesInt8 \in BOOLEAN /\ SplitsWinograd \in BOOLEAN /\ Quantisable \in BOOLEAN
        /\ Tile(command.planned) \in BOOLEAN
    BY DEF SlicesInt8, SplitsWinograd, Quantisable, Tile
  <2> QED
    BY <2>1, PackedKept DEF Types, RecordWinogradSlices, Record, DescriptorsRunOut, RecordSplitK,
           RecordInt8, RefuseInt8, RecordConcat
<1>3. \A x \in packs' : x.fits
  BY PackedKept
  DEF Types, RecordWinogradSlices, Record, DescriptorsRunOut, RecordSplitK,
         RecordInt8, RefuseInt8, RecordConcat
<1>4. Types'  BY <1>1, <1>2, <1>3, SettingKept DEF Types, Stages
<1>5. ChainInv'  BY <1>1 DEF ChainInv, Live
<1> QED  BY <1>1, <1>4, <1>5

\* The steps of joined convolutions keep the invariants.
LEMMA ConcatStep ==
  ASSUME Types, ChainInv, ChooseConcat \/ CompileConcatOk, ConcatChain' \in Chains(ConcatNames)
  PROVE  Types' /\ ChainInv'
<1>1. /\ Concat /\ SameSetting /\ wanted' = wanted /\ commands' = commands
      /\ stage' \in {"compile", "record", "refused"}
  BY DEF ChooseConcat, CompileConcatOk
<1>2. failed' \in BOOLEAN /\ \A x \in packs' : x.fits
  BY PackedKept DEF ChooseConcat, CompileConcatOk, Types
<1>3. chain' \in Chains(ConcatNames)
  BY DEF ChooseConcat, CompileConcatOk, ChainInv, Live
<1>4. Types'  BY <1>1, <1>2, SettingKept DEF Types, Stages
<1>5. ChainInv'  BY <1>1, <1>3, SettingKept DEF ChainInv, Live
<1> QED  BY <1>4, <1>5

\* Every step keeps the invariants.
LEMMA ChainStep ==
  ASSUME Types, ChainInv, [RecorderNext]_vars, ConcatChain' \in Chains(ConcatNames)
  PROVE  Types' /\ ChainInv'
<1>1. CASE UNCHANGED vars
  <2>1. SameSetting  BY <1>1 DEF vars, SameSetting
  <2>2. Types'  BY <1>1, <2>1, SettingKept DEF vars, Types
  <2>3. ChainInv'  BY <1>1, <2>1, SettingKept DEF vars, ChainInv, Live
  <2> QED  BY <2>2, <2>3
<1> QED
  BY <1>1, ChooseStep, CompileStep, BindStep, BindOtherStep, LastStep, ConcatStep
  DEF RecorderNext, Next

\* Whatever compiles, uploads or fails, the recorder only ever tries pipelines that
\* compute the convolution.
THEOREM ChainInvariant ==
  ASSUME EngineSettings
  PROVE  RecorderSpec => [](Types /\ ChainInv)
<1>1. Init => Types /\ ChainInv  BY TypesInit
<1>2. ConcatChain \in Chains(ConcatNames)  BY ConcatChainIs
<1>3. (ConcatChain \in Chains(ConcatNames))'  BY <1>2, PTL
<1>4. Types /\ ChainInv /\ [RecorderNext]_vars => (Types /\ ChainInv)'  BY <1>3, ChainStep
<1> QED  BY <1>1, <1>4, PTL DEF RecorderSpec

\* A pipeline that failed to compile or lacked its weights is not tried again, as
\* the source's chains of fallbacks have it: every step leaves less to try.
THEOREM ForwardOnly ==
  ASSUME EngineSettings
  PROVE  RecorderSpec => FallbacksGoForward
<1> DEFINE Forward == stage' = "compile" /\ stage # "choose" =>
             \/ stage = "compile" /\ Len(chain') < Len(chain)
             \/ wanted = "own" /\ wanted' # "own"
             \/ Pipeline = "winograd_f2x2_native" /\ chain' = <<"winograd_f2x2">>
<1>1. ASSUME Types, ChainInv, [RecorderNext]_vars
      PROVE  [Forward]_vars
  <2> SUFFICES ASSUME stage' = "compile", stage # "choose", vars' # vars
               PROVE  Forward
    OBVIOUS
  <2>1. CompileFails \/ BindOther
    BY <1>1 DEF RecorderNext, Next, Choose, CompileOk, BindOriginal, BindPacked,
       RecordWinogradSlices, Record, DescriptorsRunOut, RecordSplitK, RecordInt8, RefuseInt8,
       ChooseConcat, CompileConcatOk, RecordConcat, Ends
  <2>2. CASE CompileFails
    <3>1. stage = "compile" /\ Len(chain) # 1 /\ chain' = Tail(chain)
      BY <2>2 DEF CompileFails
    <3>2. \E A : chain \in Chains(A)  BY <1>1, <3>1 DEF ChainInv, Live
    <3> QED  BY <3>1, <3>2, ChainsOf
  <2>3. CASE BindOther
    <3>1. chain' # <<>>  BY <1>1, <2>3, OtherFacts
    <3> QED  BY <1>1, <2>3, <3>1, OtherFacts
  <2> QED  BY <2>1, <2>2, <2>3
<1>2. RecorderSpec => [](Types /\ ChainInv)  BY ChainInvariant
<1> QED  BY <1>1, <1>2, PTL DEF RecorderSpec, FallbacksGoForward

------------------------------------------------------------------------------
(* Refusals                                                                  *)

\* What the builder names without half precision.
LEMMA StableNames ==
  ASSUME NEW x, NEW silu
  PROVE  LET a == _stable_conv_algorithm(x, silu)
         IN /\ a \notin Int8Names \cup Conv1x1Halves \cup HalfAt40
                          \cup {Pair, "stride2_native_fp16_packedw", "winograd_f4x4", "none"}
            /\ a \in {"winograd_f2x2", "winograd_f2x2_fp32_accum"} =>
                 silu /\ is_conv3x3_tiled_fast_path(x) /\ a = Stride1Algorithm(x)
<1> DEFINE a == _stable_conv_algorithm(x, silu)
<1>1. Stride2Algorithm(x) \in {"stride2_direct_pack4", "generic",
          "stride2_direct_pack4_packedw_pos2", "stride2_direct_pack4_packedw"}
  BY DEF Stride2Algorithm
<1>2. Stride1Algorithm(x) \in {"direct_pack4_packedw_pos2", "winograd_f2x2",
          "winograd_f2x2_fp32_accum", "splitk_10x10_512x64", "direct_pack4", "spatial3x3",
          "spatial3x3_pack4", "implicit_gemm_20x20", "implicit_gemm_10x10", "implicit_gemm"}
  BY DEF Stride1Algorithm
<1>3. \/ a \in {"conv1x1", "stride2_direct_pack4_6x6", "generic"}
      \/ a = Stride2Algorithm(x)
      \/ a = Stride1Algorithm(x) /\ silu /\ is_conv3x3_tiled_fast_path(x)
  BY DEF _stable_conv_algorithm
<1> HIDE DEF a
<1>4. /\ a \notin Int8Names \cup Conv1x1Halves \cup HalfAt40
                          \cup {Pair, "stride2_native_fp16_packedw", "winograd_f4x4", "none"}
  BY <1>1, <1>2, <1>3 DEF Int8Names, Int8Kernels, Conv1x1Halves, HalfAt40, Pair
<1>5. a \in {"winograd_f2x2", "winograd_f2x2_fp32_accum"} =>
                 silu /\ is_conv3x3_tiled_fast_path(x) /\ a = Stride1Algorithm(x)
  BY <1>1, <1>2, <1>3
<1> QED  BY <1>4, <1>5 DEF a

\* What it names with half precision.
LEMMA Fp16Names ==
  ASSUME NEW x, NEW silu
  PROVE  LET a == Fp16Algorithm(x, silu)
         IN /\ a \notin Int8Names \cup {"winograd_f4x4", "none"}
            /\ a = "native_fp16_conv1x1_oc8_pos2" => _uses_native_fp16_conv1x1(x)
            /\ a \in {"winograd_f2x2", "winograd_f2x2_fp32_accum"} =>
                 silu /\ is_conv3x3_tiled_fast_path(x) /\ a = Stride1Algorithm(x)
<1> DEFINE a == Fp16Algorithm(x, silu)   s == _stable_conv_algorithm(x, silu)
<1>1. \/ a = "native_fp16_conv1x1_oc8_pos2" /\ _uses_native_fp16_conv1x1(x)
      \/ a = Pair \/ a = "native_fp16_packedw_pos2_40x40_64x64"
      \/ a = "stride2_native_fp16_packedw"
      \/ a = s
  BY DEF Fp16Algorithm, Pair
<1>2. /\ s \notin Int8Names \cup Conv1x1Halves \cup {"winograd_f4x4", "none"}
      /\ s \in {"winograd_f2x2", "winograd_f2x2_fp32_accum"} =>
           silu /\ is_conv3x3_tiled_fast_path(x) /\ s = Stride1Algorithm(x)
  BY StableNames
<1> HIDE DEF a, s
<1>3. /\ a \notin Int8Names \cup {"winograd_f4x4", "none"}
      /\ a = "native_fp16_conv1x1_oc8_pos2" => _uses_native_fp16_conv1x1(x)
      /\ a \in {"winograd_f2x2", "winograd_f2x2_fp32_accum"} =>
           silu /\ is_conv3x3_tiled_fast_path(x) /\ a = Stride1Algorithm(x)
  BY <1>1, <1>2 DEF Int8Names, Int8Kernels, Pair, Conv1x1Halves
<1> QED  BY <1>3 DEF a

\* What the builder decides for the kernels whose weights only the engine can
\* have.
LEMMA BuiltPlans ==
  ASSUME NEW y, Recordable(y), y.source \in {"unplanned", "built"}
  PROVE  /\ y.planned \notin Int8Kernels
         /\ y.planned = "native_fp16_conv1x1_oc8_pos2" =>
              y.packed /\ y.d.ic >= 64 /\ y.d.oc >= 64
         /\ y.native => /\ y.packed /\ y.d.ic % 32 = 0 /\ SameMap(y.d) /\ Plain(y.d, 3, 1, 1)
                        /\ y.d.oh % 2 = 0 /\ y.d.ow % 2 = 0
<1> DEFINE x == y.d   s == _stable_conv_algorithm(x, y.silu)   f == Fp16Algorithm(x, y.silu)
           native == "native_fp16_conv1x1_oc8_pos2"
<1>1. \/ y.planned = "none" /\ ~y.native
      \/ y.planned = s /\ ~y.native
      \/ /\ y.planned = f /\ y.packed
         /\ y.native => _uses_native_fp16_winograd(x)
                        /\ y.planned \in {"winograd_f2x2", "winograd_f2x2_fp32_accum"}
  BY RecordableCases
<1>2. /\ s \notin Int8Names \cup Conv1x1Halves
      /\ f \notin Int8Names
      /\ f = native => _uses_native_fp16_conv1x1(x)
      /\ f \in {"winograd_f2x2", "winograd_f2x2_fp32_accum"} => is_conv3x3_tiled_fast_path(x)
  BY StableNames, Fp16Names
<1>3. _uses_native_fp16_conv1x1(x) => x.ic >= 64 /\ x.oc >= 64
  BY DEF _uses_native_fp16_conv1x1, Shape3
<1> HIDE DEF s, f
<1>4. y.planned \notin Int8Kernels
  BY <1>1, <1>2 DEF Int8Names, Int8Kernels
<1>5. y.planned = native => y.packed /\ x.ic >= 64 /\ x.oc >= 64
  BY <1>1, <1>2, <1>3 DEF Conv1x1Halves
<1>6. y.native => /\ y.packed /\ x.ic % 32 = 0 /\ SameMap(x) /\ Plain(x, 3, 1, 1)
                  /\ x.oh % 2 = 0 /\ x.ow % 2 = 0
  BY <1>1, <1>2 DEF _uses_native_fp16_winograd, is_conv3x3_tiled_fast_path
<1> QED  BY <1>4, <1>5, <1>6

\* Weights by four channels fit wherever a pipeline of them is tried.
LEMMA FloatsOfFourFit ==
  ASSUME NEW p \in Pipelines(command, device.fp16), p \in Packable4, Sized(d)
  PROVE  Float4Weight.fits
<1>1. p \in Names /\ Apt(command, device.fp16, p)  BY DEF Pipelines, Apts
<1>2. p \in {"direct_pack4_packedw_pos2", "stride2_persistent_tile16",
             "stride2_direct_pack4_packedw", "stride2_direct_pack4_packedw_pos2",
             "stride2_direct_pack4_packedw_oc8"}
  BY <1>1 DEF Packable4, Names, Spatial, Strided, Points1, Int8Names, First6, Stride2Gemms,
     Stride2Kernels, Stride1Kernels, Staged, HalfAt40, Gemms, Pair, Conv1x1Halves, Int8Kernels
<1>3. d.g = 1
  BY <1>1, <1>2 DEF Apt, Geometry, Plain, Strided, Stride2Kernels, Spatial, Stride1Kernels, d, c
<1>4. d.oc % 4 = 0 \/ d.oc % 8 = 0 \/ d.oc % 16 = 0
  BY <1>1, <1>2 DEF Apt, Divides, ByFour, d, c
<1>5. d.oc \in Nat  BY DEF Sized, Positive
<1>6. d.oc % 4 = 0
  <2> DEFINE n == d.oc
  <2> HIDE DEF n
  <2>1. n \in Nat  BY <1>5 DEF n
  <2>2. n % 4 = 0 \/ n % 8 = 0 \/ n % 16 = 0  BY <1>4 DEF n
  <2>3. n % 4 = 0  BY <2>1, <2>2
  <2> QED  BY <2>3 DEF n
<1> QED  BY <1>3, <1>6 DEF d, c, Float4Weight, stride2_direct_pack4_packed_weight, Buffer

\* Where no pipeline is left for want of a weight buffer, the buffer can be made:
\* only a failing upload refuses, or halves on a device that has none.
LEMMA LastBuffersFit ==
  ASSUME NEW p \in Pipelines(command, device.fp16), p \in OwnLayout, Recordable(command),
         command.source \in {"unplanned", "built"}, OwnNeeds(p).instead = <<>>
  PROVE  OwnNeeds(p).buffer.fits \/ (Io /\ ~device.fp16)
<1> DEFINE n == OwnNeeds(p)   y == command
<1>1. p \in Names /\ Apt(command, device.fp16, p)  BY DEF Pipelines, Apts
<1>2. Sized(d)  BY DEF Recordable, d, c
<1>3. y.native \in BOOLEAN  BY RecordableCases
<1>4. NeedsOf(p)  BY <1>3, NeedsCases
<1>5. CASE p \in Packable4
  <2>1. n.buffer = Float4Weight
    BY <1>4, <1>5, NeedsFields DEF NeedsOf, Packable4, HalfAt40, Pair, Conv1x1Halves
  <2> QED  BY <1>2, <1>5, <2>1, FloatsOfFourFit
<1>6. CASE p = "stride2_native_fp16_packedw"
  <2>1. n.buffer = native_fp16_packed_weight(y)
    BY <1>4, <1>6, NeedsFields DEF NeedsOf, Packable4, HalfAt40, Pair, Conv1x1Halves
  <2>2. device.fp16 /\ d.g = 1 /\ d.ic % 4 = 0 /\ d.oc % 4 = 0
    BY <1>1, <1>6 DEF Apt, Meant, Geometry, Divides, Strided, Plain, d, c
  <2>3. native_fp16_packed_weight(y).fits  BY <2>2 DEF native_fp16_packed_weight, Buffer, d, c
  <2> QED  BY <2>1, <2>3
<1>7. CASE p \in HalfAt40
  <2>1. n.buffer = native_fp16_packed_weight(y) /\ n.instead = IfNotIo(<<"direct_pack4_packedw_pos2">>)
    BY <1>4, <1>7, NeedsFields DEF NeedsOf, Packable4, HalfAt40, Pair, Conv1x1Halves
  <2>2. Is(d, 40, 64, 64) /\ Plain(d, 3, 1, 1)
    BY <1>1, <1>7 DEF Apt, BuiltIn, Geometry, Spatial, d, c
  <2>3. d.g = 1 /\ d.ic % 4 = 0 /\ d.oc % 4 = 0  BY <2>2 DEF Is, Plain
  <2>4. Io  BY <2>1 DEF IfNotIo
  <2>5. device.fp16 => native_fp16_packed_weight(y).fits
    BY <2>3 DEF native_fp16_packed_weight, Buffer, d, c
  <2> QED  BY <2>1, <2>4, <2>5
<1>8. CASE p = Pair
  <2>1. n.instead # <<>>
    BY <1>4, <1>8, NeedsFields DEF NeedsOf, Packable4, HalfAt40, Pair, Conv1x1Halves
  <2> QED  BY <2>1
<1>9. CASE p = "winograd_f2x2_native" \/ (p = "winograd_f2x2_io" /\ y.native)
  <2>1. n.buffer = engine_winograd_f2x2_fp16_weight(y)
    BY <1>4, <1>9, NeedsFields DEF NeedsOf, Packable4, HalfAt40, Pair, Conv1x1Halves
  <2>2. y.native  BY <1>1, <1>9 DEF Apt, Meant
  <2>3. engine_winograd_f2x2_fp16_weight(y).fits
    BY <2>2, BuiltPlans DEF engine_winograd_f2x2_fp16_weight, Buffer
  <2> QED  BY <2>1, <2>3
<1>10. CASE p = "winograd_f2x2" \/ (p = "winograd_f2x2_io" /\ ~y.native)
  <2>1. n.instead = WithoutWinograd
    BY <1>4, <1>10, NeedsFields DEF NeedsOf, Packable4, HalfAt40, Pair, Conv1x1Halves
  <2>2. \A a, b : <<a, b>> # <<>>
    OBVIOUS
  <2>3. WithoutWinograd # <<>>
    BY <2>2 DEF WithoutWinograd
  <2> QED  BY <2>1, <2>3
<1>11. CASE p = "winograd_f2x2_fp32_accum"
  <2>1. n.buffer = winograd_f2x2_weight(y)
    BY <1>4, <1>11, NeedsFields DEF NeedsOf, Packable4, HalfAt40, Pair, Conv1x1Halves
  <2>2. d.g = 1 /\ d.k = 3
    BY <1>1, <1>11 DEF Apt, Geometry, Spatial, Staged, Plain, d, c
  <2>3. winograd_f2x2_weight(y).fits  BY <2>2 DEF winograd_f2x2_weight, Buffer, d, c
  <2> QED  BY <2>1, <2>3
<1>12. CASE p = "winograd_f4x4"
  <2>1. n.instead = WithoutF4x4
    BY <1>4, <1>12, NeedsFields DEF NeedsOf, Packable4, HalfAt40, Pair, Conv1x1Halves
  <2> QED  BY <2>1 DEF WithoutF4x4
<1>13. CASE p \in Conv1x1Halves
  <2>1. n.buffer = engine_conv1x1_oc8_fp16_weight(y)
    BY <1>4, <1>13, NeedsFields DEF NeedsOf, Packable4, HalfAt40, Pair, Conv1x1Halves
  <2>2. d.ic % 4 = 0 /\ d.oc % 8 = 0 /\ y.planned = "native_fp16_conv1x1_oc8_pos2"
    BY <1>1, <1>13 DEF Apt, Meant, Divides, d, c
  <2>3. engine_conv1x1_oc8_fp16_weight(y).fits
    BY <2>2, BuiltPlans DEF engine_conv1x1_oc8_fp16_weight, Buffer, d, c
  <2> QED  BY <2>1, <2>3
<1>14. p \in Packable4 \cup {"stride2_native_fp16_packedw"} \cup Conv1x1Halves \cup HalfAt40
          \cup {Pair} \cup Staged \cup {"winograd_f4x4"}
  BY <1>1 DEF OwnLayout, Winograds, HalfPrecision, NativeKernels, Packable4, Conv1x1Halves,
     HalfAt40,
     Pair, Staged, Names, Spatial, Strided, Points1, Int8Names, First6,
     Stride2Gemms, Stride2Kernels, Stride1Kernels, Gemms, Int8Kernels
<1> HIDE DEF n
<1> QED
  BY <1>5, <1>6, <1>7, <1>8, <1>9, <1>10, <1>11, <1>12, <1>13, <1>14 DEF Staged

\* Until its pipeline is compiled, a joined command has the one its flags select
\* at the head of the chain, or something has failed.
HeadInv == stage = "compile" /\ Concat => failed \/ Pipeline = Selected

\* What the flags select for a joined convolution stays with the settings.
LEMMA SelectedKept ==
  ASSUME SameSetting, UNCHANGED packs
  PROVE  Selected' = Selected
BY DEF SameSetting, Selected, UsesNative, WantsNative, PlannedNative, NativeShape, Oc8,
   UsesTileFlow,
       UsesGemm, UsesVec4, UsesDirectPack4, UsesGemm256, Special, Planned, Off, Enabled, Io, d, c,
       Large, Is, Map, Area, Branches, engine_conv1x1_oc8_fp16_weight, Buffer

\* The kernel that the flags select is the first one tried.
LEMMA ConcatHead == Head(ConcatChain) = Selected
<1> DEFINE middle == CASE UsesNative -> IfNotIo(<<"concat_direct_pack4", "concat_plain">>)
                       [] ~UsesNative /\ UsesGemm256 -> <<"concat_vec4", "concat_plain">>
                       [] UsesVec4 -> <<"concat_plain">>
                       [] OTHER -> <<>>
           last == IF PlannedNative /\ ~(UsesNative /\ Io) THEN <<"concat_plain">> ELSE <<>>
           A == ConcatNames \cup {Selected}
<1>1. ConcatChain = <<Selected>> \o middle \o last  BY DEF ConcatChain
<1>2. "concat_direct_pack4" \in A /\ "concat_plain" \in A /\ "concat_vec4" \in A /\ Selected \in A
  BY DEF ConcatNames
<1> HIDE DEF A
<1>3. last \in Seq(A)  BY <1>2, ChainParts
<1>4. middle \in Seq(A)
  <2>1. /\ <<"concat_direct_pack4", "concat_plain">> \in Seq(A) /\ <<>> \in Seq(A)
        /\ <<"concat_vec4", "concat_plain">> \in Seq(A) /\ <<"concat_plain">> \in Seq(A)
    BY <1>2, ChainParts DEF Chains
  <2>2. IfNotIo(<<"concat_direct_pack4", "concat_plain">>) \in Seq(A)  BY <2>1 DEF IfNotIo
  <2> QED  BY <2>1, <2>2
<1> HIDE DEF middle, last
<1> DEFINE s == Selected
<1>5. s \in A  BY <1>2
<1> HIDE DEF s
<1>6. (<<s>> \o middle \o last)[1] = s  BY <1>3, <1>4, <1>5
<1>7. \A t : Head(t) = t[1]  OBVIOUS
<1> QED  BY <1>1, <1>6, <1>7 DEF s

\* A joined convolution that stores halves has a kernel that reads them.
LEMMA StoredJoin ==
  ASSUME EngineCommand(command), Concat, Io
  PROVE  Selected \in TypedConcat
<1>1. Joinable(command)  BY Branching DEF EngineCommand, Recordable, Branched
<1> DEFINE x == command.d   silu == command.silu
           stored == {"concat_native", "concat_direct_pack4"}
<1>2. command.planned \in stored
  <2>1. JoinedKernel(x) \in {"concat_direct_pack4", "concat_plain"}  BY DEF JoinedKernel
  <2>2. command.in16 \/ command.out16  BY DEF Io
  <2>3. ASSUME NEW s \in BOOLEAN, command = JoinedUnplanned(x, s) \/ command = JoinedFp32(x, s)
        PROVE  FALSE
    BY <2>2, <2>3 DEF JoinedUnplanned, JoinedFp32, Command
  <2>4. ASSUME NEW s \in BOOLEAN, NEW in16 \in BOOLEAN, NEW out16 \in BOOLEAN,
               command = JoinedFp16(x, s, in16, out16)
        PROVE  command.planned \in stored
    <3> DEFINE native == _uses_native_fp16_concat_conv1x1(x, s)
               kernel == IF native THEN "concat_native" ELSE JoinedKernel(x)
               first == in16 /\ kernel # "concat_plain"
               second == out16 /\ kernel # "concat_plain"
    <3>1. command = Command(x, s, "built", kernel, FALSE, native, first, second, FALSE)
      BY <2>4 DEF JoinedFp16
    <3>2. kernel \in stored \cup {"concat_plain"}  BY <2>1
    <3> HIDE DEF kernel, native
    <3>3. command.planned = kernel /\ command.in16 = first /\ command.out16 = second
      BY <3>1 DEF Command
    <3> QED  BY <2>2, <3>2, <3>3
  <2>5. ASSUME NEW s \in BOOLEAN, NEW native \in BOOLEAN, NEW half \in BOOLEAN,
               command = build_late_concat_conv1x1_command(x, s, native, half)
        PROVE  command.planned \in stored
    <3> DEFINE kernel == IF native THEN "concat_native" ELSE JoinedKernel(x)
               first == half /\ kernel # "concat_plain"
    <3>1. command = Command(x, s, "built", kernel, FALSE, native, first, first, FALSE)
      BY <2>5 DEF build_late_concat_conv1x1_command
    <3>2. kernel \in stored \cup {"concat_plain"}  BY <2>1
    <3> HIDE DEF kernel
    <3>3. command.planned = kernel /\ command.in16 = first /\ command.out16 = first
      BY <3>1 DEF Command
    <3> QED  BY <2>2, <3>2, <3>3
  <2> QED  BY <1>1, <2>3, <2>4, <2>5 DEF Joinable
<1>3. Planned /\ ~UsesTileFlow /\ ~UsesVec4  BY <1>2 DEF Planned, UsesTileFlow, UsesVec4
<1>4. ~UsesGemm  BY <1>2, <1>3 DEF UsesGemm
<1>5. UsesNative \/ UsesDirectPack4  BY <1>2, <1>3, <1>4 DEF UsesDirectPack4
<1>6. UsesNative => Selected = "concat_native"  BY <1>3, <1>4 DEF Selected, UsesDirectPack4, Special
<1>7. ~UsesNative => Selected = "concat_direct_pack4"
  BY <1>3, <1>4, <1>5 DEF Selected, UsesGemm256
<1> QED  BY <1>6, <1>7 DEF TypedConcat

\* Every step keeps the first kernel of a joined convolution until something fails.
LEMMA HeadStep ==
  ASSUME Types, ChainInv, HeadInv, [RecorderNext]_vars, (Head(ConcatChain) = Selected)'
  PROVE  HeadInv'
<1>1. CASE UNCHANGED vars
  <2>1. SameSetting /\ UNCHANGED packs  BY <1>1 DEF vars, SameSetting
  <2>2. Selected' = Selected /\ (Concat' <=> Concat)  BY <2>1, SelectedKept, SettingKept
  <2>3. Pipeline' = Pipeline /\ failed' = failed /\ stage' = stage
    BY <1>1 DEF vars, Pipeline
  <2> QED  BY <2>2, <2>3 DEF HeadInv
<1>2. CASE stage' # "compile"  BY <1>2 DEF HeadInv
<1>3. CASE ChooseConcat
  <2>1. chain' = ConcatChain'  BY <1>3 DEF ChooseConcat
  <2>2. Pipeline' = Selected'  BY <2>1 DEF Pipeline
  <2> QED  BY <2>2 DEF HeadInv
<1>4. CASE CompileFails  BY <1>4 DEF CompileFails, HeadInv
<1>5. CASE Choose \/ BindOther
  <2>1. ~Concat /\ SameSetting  BY <1>5 DEF Choose, BindOther, ChainInv
  <2> QED  BY <2>1, SettingKept DEF HeadInv
<1> QED
  BY <1>1, <1>2, <1>3, <1>4, <1>5
  DEF RecorderNext, Next, CompileOk, BindOriginal, BindPacked, RecordWinogradSlices, Record,
      DescriptorsRunOut, RecordSplitK, RecordInt8, RefuseInt8, CompileConcatOk, RecordConcat, Ends

\* The builder or the planner chose the kernel, not the mapper.
Chosen == command.source \in {"unplanned", "built"}

\* A convolution refused for want of weights: an upload failed, or there are halves
\* on a device without.
LEMMA RefusedOther ==
  ASSUME Types, ChainInv, BindOther, Chosen, stage' = "refused"
  PROVE  failed' \/ (Io /\ ~device.fp16)
<1>1. /\ ~Concat /\ chain' = <<>> /\ TheNeeds.instead = <<>> /\ stage = "weights"
      /\ \/ wanted = "oc4" /\ TheNeeds.buffer = Float4Weight
         \/ wanted = "own" /\ Pipeline \in OwnLayout /\ TheNeeds = OwnNeeds(Pipeline)
  BY OtherFacts
<1>2. failed' = (failed \/ TheNeeds.buffer.fits)  BY DEF BindOther, NotPacked
<1>3. CASE wanted = "oc4" /\ TheNeeds.buffer = Float4Weight
  <2>1. Float4Weight.fits  BY <1>1, <1>3 DEF ChainInv, Live
  <2> QED  BY <1>2, <1>3, <2>1
<1>4. CASE wanted = "own" /\ Pipeline \in OwnLayout /\ TheNeeds = OwnNeeds(Pipeline)
  <2>1. Pipeline \in Pipelines(command, device.fp16)
    BY <1>1, ChainsOf DEF ChainInv, Live, Pipeline
  <2>2. Recordable(command)  BY <1>1, RecordableSilu
  <2>3. TheNeeds.buffer.fits \/ (Io /\ ~device.fp16)
    BY <1>1, <1>4, <2>1, <2>2, LastBuffersFit DEF Chosen
  <2> QED  BY <1>2, <2>3
<1> QED  BY <1>1, <1>3, <1>4

\* An int8 kernel that nobody mapped is not refused.
LEMMA RefusedInt8 ==
  ASSUME Types, ChainInv, RefuseInt8, Chosen
  PROVE  FALSE
<1>1. stage = "weights" /\ ~Concat /\ Pipeline \in Int8Names
  BY DEF RefuseInt8, Int8Pipeline, Int8Names, ChainInv
<1>2. Apt(command, device.fp16, Pipeline)
  BY <1>1, ChainsOf DEF ChainInv, Live, Pipeline, Pipelines, Apts
<1>3. command.planned \in Int8Kernels  BY <1>1, <1>2 DEF Apt, Meant
<1>4. Recordable(command)  BY <1>1, RecordableSilu
<1> QED  BY <1>3, <1>4, BuiltPlans DEF Chosen

\* A joined convolution is refused after a failure.
LEMMA RefusedConcat ==
  ASSUME Types, HeadInv, CompileConcatOk, stage' = "refused"
  PROVE  failed
<1>1. stage = "compile" /\ Concat /\ Io /\ Recorded \notin TypedConcat
  BY DEF CompileConcatOk
<1>2. Selected \in TypedConcat  BY <1>1, StoredJoin DEF Types
<1>3. Pipeline = Selected => Recorded = Selected
  BY DEF Recorded
<1> QED  BY <1>1, <1>2, <1>3 DEF HeadInv

\* Only a failure, or halves on a device without half precision, refuse a
\* convolution that the builder or the planner chose the kernel for.
THEOREM RefusalsAreFailures ==
  ASSUME EngineSettings
  PROVE  RecorderSpec => []OnlyFailuresRefuse
<1> DEFINE Inv == Types /\ ChainInv   R == OnlyFailuresRefuse
<1>1. Init => HeadInv /\ R
  BY DEF Init, HeadInv, OnlyFailuresRefuse
<1>2. ASSUME Inv, HeadInv, R, [RecorderNext]_vars
      PROVE  R'
  <2> SUFFICES ASSUME stage' = "refused", Chosen', ~failed'
               PROVE  Io' /\ ~device'.fp16
    BY DEF OnlyFailuresRefuse, Chosen
  <2>1. SameSetting
    BY <1>2 DEF RecorderNext, Next, Choose, CompileOk, CompileFails, BindOriginal, BindPacked,
       BindOther, RecordWinogradSlices, Record, DescriptorsRunOut, RecordSplitK, RecordInt8,
       RefuseInt8, ChooseConcat, CompileConcatOk, RecordConcat, Ends, vars, SameSetting
  <2>2. Chosen /\ (Io' <=> Io) /\ device' = device  BY <2>1, SettingKept DEF Chosen
  <2>3. CASE UNCHANGED vars
    BY <1>2, <2>2, <2>3 DEF vars, OnlyFailuresRefuse, Chosen
  <2>4. CASE BindOther  BY <1>2, <2>2, <2>4, RefusedOther
  <2>5. CASE RefuseInt8  BY <1>2, <2>2, <2>5, RefusedInt8
  <2>6. CASE CompileConcatOk
    <3>1. failed' = failed  BY <2>6 DEF CompileConcatOk
    <3> QED  BY <1>2, <2>6, <3>1, RefusedConcat
  <2>7. CASE CompileFails \/ DescriptorsRunOut \/ RecordSplitK
    BY <2>7 DEF CompileFails, DescriptorsRunOut, RecordSplitK, Ends
  <2> QED
    BY <1>2, <2>3, <2>4, <2>5, <2>6, <2>7
    DEF RecorderNext, Next, Choose, CompileOk, BindOriginal, BindPacked, RecordWinogradSlices,
        Record, RecordInt8, ChooseConcat, RecordConcat, Ends
<1>3. RecorderSpec => []Inv  BY ChainInvariant
<1>4. Head(ConcatChain) = Selected  BY ConcatHead
<1>5. (Head(ConcatChain) = Selected)'  BY <1>4, PTL
<1>6. Inv /\ HeadInv /\ R /\ [RecorderNext]_vars => HeadInv' /\ R'
  BY <1>2, <1>5, HeadStep
<1> HIDE DEF Inv, R
<1>7. RecorderSpec => []R  BY <1>1, <1>3, <1>6, PTL DEF RecorderSpec
<1> QED  BY <1>7 DEF R

------------------------------------------------------------------------------
(* The kernels on their grids                                                *)

\* The pipelines whose dispatch misses the convolution d, or may.
MissesBy(a) ==
  \/ a \in KnownInexact
  \/ a = "direct_pack4_packedw_pos2" /\ Area(d) % 2 = 1
  \/ /\ a \in Stride2Gemms \cup {"stride2_direct_pack4_10x10_256x512_interior"}
     /\ ~(d.ih = 2 * d.oh /\ d.iw = 2 * d.ow)

\* The grid and the shader of a pipeline, by its kind.
LEMMA GridsOf ==
  ASSUME NEW a
  PROVE  /\ a \in Gemms => Grid(a) = GemmGrid(a) /\ \A g : Shader(a, g) = GemmShader(a, g)
         /\ a \in Stride2Gemms => Grid(a) = GemmGrid(a) /\ \A g : Shader(a, g) = Stride2GemmShader(a, g)
         /\ a \in Stride2Kernels \cup {"stride2_native_fp16_packedw", Pair} =>
              Grid(a) = Stride2Grid(a) /\ \A g : Shader(a, g) = Stride2Shader(a, g)
         /\ a \in Names \ (Gemms \cup Stride2Gemms \cup Stride2Kernels
                             \cup {"stride2_native_fp16_packedw", Pair}) =>
              /\ \A g : Shader(a, g) = Stride1Shader(a, g)
              /\ a \in {"generic", "conv1x1"} => Grid(a) = Line(d.n * d.oc * Area(d), 256)
              /\ a \notin {"generic", "conv1x1"} => Grid(a) = Stride1Grid(a)
<1> DEFINE strided == Stride2Kernels \cup (NativeKernels \ {"native_fp16_packedw_pos2_40x40_64x64"})
<1>1. a \in Gemms => a \notin Stride2Gemms \cup strided \cup {"generic", "conv1x1"}
  BY DEF Gemms, Stride2Gemms, Stride2Kernels, NativeKernels
<1>2. a \in Stride2Gemms => a \notin Gemms \cup strided \cup {"generic", "conv1x1"}
  BY DEF Gemms, Stride2Gemms, Stride2Kernels, NativeKernels
<1>3. a \in Stride2Kernels \cup {"stride2_native_fp16_packedw", Pair} =>
        a \in strided /\ a \notin Gemms \cup Stride2Gemms \cup {"generic", "conv1x1"}
  BY DEF Gemms, Stride2Gemms, Stride2Kernels, NativeKernels, Pair
<1>4. a \in Names \ (Stride2Kernels \cup {"stride2_native_fp16_packedw", Pair}) => a \notin strided
  BY DEF Names, Spatial, Strided, Points1, Int8Names, First6, Stride2Gemms, Stride2Kernels,
     Stride1Kernels, Staged, HalfAt40, Gemms, Pair, Conv1x1Halves, Int8Kernels, NativeKernels
<1>5. a \in {"generic", "conv1x1"} => a \notin Gemms \cup Stride2Gemms \cup strided
  BY DEF Gemms, Stride2Gemms, Stride2Kernels, NativeKernels
<1> HIDE DEF strided
<1>6. /\ a \in Gemms \cup Stride2Gemms /\ a \notin strided \cup {"generic", "conv1x1"} => Grid(a) = GemmGrid(a)
      /\ a \in strided /\ a \notin Gemms \cup Stride2Gemms \cup {"generic", "conv1x1"} => Grid(a) = Stride2Grid(a)
      /\ a \in {"generic", "conv1x1"} /\ a \notin Gemms \cup Stride2Gemms \cup strided =>
           Grid(a) = Line(d.n * d.oc * Area(d), 256)
      /\ a \notin {"generic", "conv1x1"} \cup Gemms \cup Stride2Gemms \cup strided => Grid(a) = Stride1Grid(a)
  BY DEF Grid, strided
<1>7. /\ a \in Gemms /\ a \notin Stride2Gemms \cup strided => \A g : Shader(a, g) = GemmShader(a, g)
      /\ a \in Stride2Gemms /\ a \notin Gemms \cup strided => \A g : Shader(a, g) = Stride2GemmShader(a, g)
      /\ a \in strided /\ a \notin Gemms \cup Stride2Gemms => \A g : Shader(a, g) = Stride2Shader(a, g)
      /\ a \notin Gemms \cup Stride2Gemms \cup strided => \A g : Shader(a, g) = Stride1Shader(a, g)
  BY DEF Shader, strided
<1>8. a \in {"generic", "conv1x1"} => a \in Names  BY DEF Names, Points1
<1> QED  BY <1>1, <1>2, <1>3, <1>4, <1>5, <1>6, <1>7

\* An apt implicit product computes the convolution on the grid it is given.
LEMMA GemmsCompute ==
  ASSUME NEW a \in Gemms \ KnownInexact, Sized(d), Apt(command, device.fp16, a)
  PROVE  Computes(GemmShader(a, GemmGrid(a)))
<1> DEFINE P == Computes(GemmShader(a, GemmGrid(a)))   grid(n, m) == <<Ceil(d.n * Area(d), n), Ceil(d.oc, m), 1>>
<1>1. Geometry(d, a) /\ BuiltIn(d, a)  BY DEF Apt, d, c
<1>2. a # "implicit_gemm" => Plain(d, 3, 1, 1)  BY <1>1 DEF Geometry, Spatial
<1>3. \A n, m : Tiled(n, m) = grid(n, m)  BY DEF Tiled, Positions
<1>4. CASE a = "implicit_gemm"
  <2>1. d.k = 3 /\ d.g = 1  BY <1>1, <1>4 DEF Geometry
  <2>2. Computes(ImplicitGemm(d, grid(32, 8)))  BY <2>1, ImplicitGemmComputes
  <2>3. GemmGrid(a) = grid(32, 8)  BY <1>3, <1>4 DEF GemmGrid
  <2>4. \A g : GemmShader(a, g) = ImplicitGemm(d, g)  BY <1>4 DEF GemmShader
  <2> QED  BY <2>2, <2>3, <2>4
<1>5. CASE a = "implicit_gemm_40x40_64x64"
  <2>1. Is(d, 40, 64, 64)  BY <1>1, <1>5 DEF BuiltIn
  <2>2. <<40, 64>> \in {<<40, 64>>, <<20, 64>>, <<10, 128>>}  OBVIOUS
  <2>3. Computes(ImplicitGemmExact(d, grid(20, 16), 40, 64))
    <3> DEFINE shape == <<40, 64>>
    <3>1. shape[1] = 40 /\ shape[2] = 64  OBVIOUS
    <3> HIDE DEF shape, grid
    <3>2. Computes(ImplicitGemmExact(d, grid(20, 16), shape[1], shape[2]))
      BY <1>2, <1>5, <2>1, <2>2, <3>1, ImplicitGemmExactComputes DEF shape, grid
    <3> QED  BY <3>1, <3>2
  <2>4. GemmGrid(a) = grid(20, 16)  BY <1>3, <1>5 DEF GemmGrid
  <2>5. \A g : GemmShader(a, g) = ImplicitGemmExact(d, g, 40, 64)  BY <1>5 DEF GemmShader
  <2> QED  BY <2>3, <2>4, <2>5
<1>6. CASE a = "implicit_gemm_20x20_64x64"
  <2>1. Is(d, 20, 64, 64)  BY <1>1, <1>6 DEF BuiltIn
  <2>2. <<20, 64>> \in {<<40, 64>>, <<20, 64>>, <<10, 128>>}  OBVIOUS
  <2>3. Computes(ImplicitGemmExact(d, grid(20, 16), 20, 64))
    <3> DEFINE shape == <<20, 64>>
    <3>1. shape[1] = 20 /\ shape[2] = 64  OBVIOUS
    <3> HIDE DEF shape, grid
    <3>2. Computes(ImplicitGemmExact(d, grid(20, 16), shape[1], shape[2]))
      BY <1>2, <1>6, <2>1, <2>2, <3>1, ImplicitGemmExactComputes DEF shape, grid
    <3> QED  BY <3>1, <3>2
  <2>4. GemmGrid(a) = grid(20, 16)  BY <1>3, <1>6 DEF GemmGrid
  <2>5. \A g : GemmShader(a, g) = ImplicitGemmExact(d, g, 20, 64)  BY <1>6 DEF GemmShader
  <2> QED  BY <2>3, <2>4, <2>5
<1>7. CASE a = "implicit_gemm_10x10_128x128"
  <2>1. Is(d, 10, 128, 128)  BY <1>1, <1>7 DEF BuiltIn
  <2>2. <<10, 128>> \in {<<40, 64>>, <<20, 64>>, <<10, 128>>}  OBVIOUS
  <2>3. Computes(ImplicitGemmExact(d, grid(20, 16), 10, 128))
    <3> DEFINE shape == <<10, 128>>
    <3>1. shape[1] = 10 /\ shape[2] = 128  OBVIOUS
    <3> HIDE DEF shape, grid
    <3>2. Computes(ImplicitGemmExact(d, grid(20, 16), shape[1], shape[2]))
      BY <1>2, <1>7, <2>1, <2>2, <3>1, ImplicitGemmExactComputes DEF shape, grid
    <3> QED  BY <3>1, <3>2
  <2>4. GemmGrid(a) = grid(20, 16)  BY <1>3, <1>7 DEF GemmGrid
  <2>5. \A g : GemmShader(a, g) = ImplicitGemmExact(d, g, 10, 128)  BY <1>7 DEF GemmShader
  <2> QED  BY <2>3, <2>4, <2>5
<1>8. CASE a = "implicit_gemm_20x20_128x64"
  <2>1. Is(d, 20, 128, 64)  BY <1>1, <1>8 DEF BuiltIn
  <2>2. Computes(ImplicitGemmExactIo(d, grid(20, 8), 20, 128, 64))
    <3> DEFINE shape == <<20, 128, 20, 8>>
    <3>1. shape[1] = 20 /\ shape[2] = 128 /\ shape[3] = 20 /\ shape[4] = 8  OBVIOUS
    <3>2. shape \in {<<20, 128, 20, 8>>, <<20, 256, 25, 16>>, <<10, 512, 25, 16>>}  OBVIOUS
    <3> HIDE DEF shape
    <3>3. Computes(ImplicitGemmExactIo(d, grid(shape[3], shape[4]), shape[1], shape[2], 64))
      BY <1>2, <1>8, <2>1, <3>1, <3>2, ImplicitGemmExactIoComputes
    <3> QED  BY <3>1, <3>3
  <2>3. GemmGrid(a) = grid(20, 8)  BY <1>3, <1>8, <2>1 DEF GemmGrid, Is, Map
  <2>4. \A g : GemmShader(a, g) = ImplicitGemmExactIo(d, g, 20, 128, 64)  BY <1>8 DEF GemmShader
  <2> QED  BY <2>2, <2>3, <2>4
<1>9. CASE a = "implicit_gemm_20x20_256x64"
  <2>1. Is(d, 20, 256, 64)  BY <1>1, <1>9 DEF BuiltIn
  <2>2. Computes(ImplicitGemmExactIo(d, grid(25, 16), 20, 256, 64))
    <3> DEFINE shape == <<20, 256, 25, 16>>
    <3>1. shape[1] = 20 /\ shape[2] = 256 /\ shape[3] = 25 /\ shape[4] = 16  OBVIOUS
    <3>2. shape \in {<<20, 128, 20, 8>>, <<20, 256, 25, 16>>, <<10, 512, 25, 16>>}  OBVIOUS
    <3> HIDE DEF shape
    <3>3. Computes(ImplicitGemmExactIo(d, grid(shape[3], shape[4]), shape[1], shape[2], 64))
      BY <1>2, <1>9, <2>1, <3>1, <3>2, ImplicitGemmExactIoComputes
    <3> QED  BY <3>1, <3>3
  <2>3. GemmGrid(a) = grid(25, 16)  BY <1>3, <1>9, <2>1 DEF GemmGrid, Is, Map
  <2>4. \A g : GemmShader(a, g) = ImplicitGemmExactIo(d, g, 20, 256, 64)  BY <1>9 DEF GemmShader
  <2> QED  BY <2>2, <2>3, <2>4
<1>10. CASE a = "implicit_gemm_10x10_512x64"
  <2>1. Is(d, 10, 512, 64)  BY <1>1, <1>10 DEF BuiltIn
  <2>2. Computes(ImplicitGemmExactIo(d, grid(25, 16), 10, 512, 64))
    <3> DEFINE shape == <<10, 512, 25, 16>>
    <3>1. shape[1] = 10 /\ shape[2] = 512 /\ shape[3] = 25 /\ shape[4] = 16  OBVIOUS
    <3>2. shape \in {<<20, 128, 20, 8>>, <<20, 256, 25, 16>>, <<10, 512, 25, 16>>}  OBVIOUS
    <3> HIDE DEF shape
    <3>3. Computes(ImplicitGemmExactIo(d, grid(shape[3], shape[4]), shape[1], shape[2], 64))
      BY <1>2, <1>10, <2>1, <3>1, <3>2, ImplicitGemmExactIoComputes
    <3> QED  BY <3>1, <3>3
  <2>3. GemmGrid(a) = grid(25, 16)  BY <1>3, <1>10, <2>1 DEF GemmGrid, Is, Map
  <2>4. \A g : GemmShader(a, g) = ImplicitGemmExactIo(d, g, 10, 512, 64)  BY <1>10 DEF GemmShader
  <2> QED  BY <2>2, <2>3, <2>4
<1>11. CASE a = "implicit_gemm_10x10_256x64_persistent"
  <2>1. Is(d, 10, 256, 64)  BY <1>1, <1>11 DEF BuiltIn
  <2>2. Computes(ImplicitGemmPersistent(d, grid(25, 8)))
    BY <1>2, <1>11, <2>1, ImplicitGemmPersistentComputes
  <2>3. GemmGrid(a) = grid(25, 8)  BY <1>3, <1>11 DEF GemmGrid
  <2>4. \A g : GemmShader(a, g) = ImplicitGemmPersistent(d, g)  BY <1>11 DEF GemmShader
  <2> QED  BY <2>2, <2>3, <2>4
<1> QED  BY <1>4, <1>5, <1>6, <1>7, <1>8, <1>9, <1>10, <1>11 DEF Gemms, KnownInexact

\* So does an apt stride-2 product, when the input side is twice the output's.
LEMMA Stride2GemmsCompute ==
  ASSUME NEW a \in Stride2Gemms, Sized(d), Apt(command, device.fp16, a),
         d.ih = 2 * d.oh, d.iw = 2 * d.ow
  PROVE  Computes(Stride2GemmShader(a, GemmGrid(a)))
<1> DEFINE grid(n) == <<Ceil(d.n * Area(d), n), Ceil(d.oc, 16), 1>>
           shapes == {<<80, 32, 64>>, <<40, 128, 128>>, <<20, 128, 128>>, <<20, 256, 256>>,
                      <<10, 256, 256>>, <<10, 256, 512>>}
<1>1. Geometry(d, a) /\ BuiltIn(d, a)  BY DEF Apt, d, c
<1>2. Plain(d, 3, 2, 1)  BY <1>1 DEF Geometry, Strided
<1>3. \A n : Tiled(n, 16) = grid(n)  BY DEF Tiled, Positions
<1>4. ASSUME NEW shape \in shapes, Is(d, shape[1], shape[2], shape[3]),
             NEW n \in Nat, n = IF shape[1] = 10 THEN 20 ELSE 16
      PROVE  Computes(ImplicitGemmStride2(d, grid(n), shape[1], shape[2], shape[3]))
  BY <1>2, <1>4, ImplicitGemmStride2Computes
<1>5. CASE a = "stride2_implicit_gemm_80x80_32x64"
  <2>1. Is(d, 80, 32, 64)  BY <1>1, <1>5 DEF BuiltIn
  <2> DEFINE shape == <<80, 32, 64>>
  <2>2. shape \in shapes /\ shape[1] = 80 /\ shape[2] = 32 /\ shape[3] = 64  OBVIOUS
  <2> HIDE DEF shape, shapes, grid
  <2>3. Computes(ImplicitGemmStride2(d, grid(16), shape[1], shape[2], shape[3]))
    BY <1>4, <2>1, <2>2
  <2>4. GemmGrid(a) = grid(16)  BY <1>3, <1>5 DEF GemmGrid, Gemms
  <2>5. \A g : Stride2GemmShader(a, g) = ImplicitGemmStride2(d, g, 80, 32, 64)
    BY <1>5 DEF Stride2GemmShader
  <2> QED  BY <2>2, <2>3, <2>4, <2>5
<1>6. CASE a = "stride2_implicit_gemm_40x40_128x128"
  <2>1. Is(d, 40, 128, 128)  BY <1>1, <1>6 DEF BuiltIn
  <2> DEFINE shape == <<40, 128, 128>>
  <2>2. shape \in shapes /\ shape[1] = 40 /\ shape[2] = 128 /\ shape[3] = 128  OBVIOUS
  <2> HIDE DEF shape, shapes, grid
  <2>3. Computes(ImplicitGemmStride2(d, grid(16), shape[1], shape[2], shape[3]))
    BY <1>4, <2>1, <2>2
  <2>4. GemmGrid(a) = grid(16)  BY <1>3, <1>6 DEF GemmGrid, Gemms
  <2>5. \A g : Stride2GemmShader(a, g) = ImplicitGemmStride2(d, g, 40, 128, 128)
    BY <1>6 DEF Stride2GemmShader
  <2> QED  BY <2>2, <2>3, <2>4, <2>5
<1>7. CASE a = "stride2_implicit_gemm_20x20_128x128"
  <2>1. Is(d, 20, 128, 128)  BY <1>1, <1>7 DEF BuiltIn
  <2> DEFINE shape == <<20, 128, 128>>
  <2>2. shape \in shapes /\ shape[1] = 20 /\ shape[2] = 128 /\ shape[3] = 128  OBVIOUS
  <2> HIDE DEF shape, shapes, grid
  <2>3. Computes(ImplicitGemmStride2(d, grid(16), shape[1], shape[2], shape[3]))
    BY <1>4, <2>1, <2>2
  <2>4. GemmGrid(a) = grid(16)  BY <1>3, <1>7 DEF GemmGrid, Gemms
  <2>5. \A g : Stride2GemmShader(a, g) = ImplicitGemmStride2(d, g, 20, 128, 128)
    BY <1>7 DEF Stride2GemmShader
  <2> QED  BY <2>2, <2>3, <2>4, <2>5
<1>8. CASE a = "stride2_implicit_gemm_20x20_256x256"
  <2>1. Is(d, 20, 256, 256)  BY <1>1, <1>8 DEF BuiltIn
  <2> DEFINE shape == <<20, 256, 256>>
  <2>2. shape \in shapes /\ shape[1] = 20 /\ shape[2] = 256 /\ shape[3] = 256  OBVIOUS
  <2> HIDE DEF shape, shapes, grid
  <2>3. Computes(ImplicitGemmStride2(d, grid(16), shape[1], shape[2], shape[3]))
    BY <1>4, <2>1, <2>2
  <2>4. GemmGrid(a) = grid(16)  BY <1>3, <1>8 DEF GemmGrid, Gemms
  <2>5. \A g : Stride2GemmShader(a, g) = ImplicitGemmStride2(d, g, 20, 256, 256)
    BY <1>8 DEF Stride2GemmShader
  <2> QED  BY <2>2, <2>3, <2>4, <2>5
<1>9. CASE a = "stride2_implicit_gemm_10x10_256x256"
  <2>1. Is(d, 10, 256, 256)  BY <1>1, <1>9 DEF BuiltIn
  <2> DEFINE shape == <<10, 256, 256>>
  <2>2. shape \in shapes /\ shape[1] = 10 /\ shape[2] = 256 /\ shape[3] = 256  OBVIOUS
  <2> HIDE DEF shape, shapes, grid
  <2>3. Computes(ImplicitGemmStride2(d, grid(20), shape[1], shape[2], shape[3]))
    BY <1>4, <2>1, <2>2
  <2>4. GemmGrid(a) = grid(20)  BY <1>3, <1>9 DEF GemmGrid, Gemms
  <2>5. \A g : Stride2GemmShader(a, g) = ImplicitGemmStride2(d, g, 10, 256, 256)
    BY <1>9 DEF Stride2GemmShader
  <2> QED  BY <2>2, <2>3, <2>4, <2>5
<1>10. CASE a = "stride2_implicit_gemm_10x10_256x512"
  <2>1. Is(d, 10, 256, 512)  BY <1>1, <1>10 DEF BuiltIn
  <2> DEFINE shape == <<10, 256, 512>>
  <2>2. shape \in shapes /\ shape[1] = 10 /\ shape[2] = 256 /\ shape[3] = 512  OBVIOUS
  <2> HIDE DEF shape, shapes, grid
  <2>3. Computes(ImplicitGemmStride2(d, grid(20), shape[1], shape[2], shape[3]))
    BY <1>4, <2>1, <2>2
  <2>4. GemmGrid(a) = grid(20)  BY <1>3, <1>10 DEF GemmGrid, Gemms
  <2>5. \A g : Stride2GemmShader(a, g) = ImplicitGemmStride2(d, g, 10, 256, 512)
    BY <1>10 DEF Stride2GemmShader
  <2> QED  BY <2>2, <2>3, <2>4, <2>5
<1> QED  BY <1>5, <1>6, <1>7, <1>8, <1>9, <1>10 DEF Stride2Gemms

\* So does every other stride-2 kernel.
LEMMA Stride2KernelsCompute ==
  ASSUME NEW a \in Stride2Kernels \cup {"stride2_native_fp16_packedw", Pair}, Sized(d),
         Apt(command, device.fp16, a), ~MissesBy(a)
  PROVE  Computes(Stride2Shader(a, Stride2Grid(a)))
<1>1. Geometry(d, a) /\ BuiltIn(d, a) /\ Divides(d, a)  BY DEF Apt, d, c
<1>2. Plain(d, 3, 2, 1)  BY <1>1 DEF Geometry, Strided
<1>3. \A t, n : Line(t, n) = Threads(t, n)  BY DEF Line, Threads
<1>4. CASE a = "stride2_spatial3x3_pack4"
  <2> DEFINE grid == <<Ceil(d.ow, 16), Ceil(d.oh, 8), d.n * Ceil(d.oc, 4)>>
  <2>1. Computes(Conv3x3s2Pack4(d, grid))  BY <1>2, Conv3x3s2Pack4Computes
  <2>2. Stride2Grid(a) = grid  BY <1>3, <1>4 DEF Stride2Grid, Quads
  <2>3. \A g : Stride2Shader(a, g) = Conv3x3s2Pack4(d, g)  BY <1>4 DEF Stride2Shader
  <2> QED  BY <2>1, <2>2, <2>3
<1>5. CASE a = "stride2_direct_pack4"
  <2> DEFINE grid == Threads(d.n * Ceil(d.oc, 4) * Area(d), 128)
  <2>1. Computes(Conv3x3s2DirectPack4(d, grid))  BY <1>2, Conv3x3s2DirectPack4Computes
  <2>2. Stride2Grid(a) = grid  BY <1>3, <1>5 DEF Stride2Grid, Quads
  <2>3. \A g : Stride2Shader(a, g) = Conv3x3s2DirectPack4(d, g)  BY <1>5 DEF Stride2Shader
  <2> QED  BY <2>1, <2>2, <2>3
<1>6. CASE a = "stride2_direct_pack4_10x10_256x512_interior"
  <2>1. Is(d, 10, 256, 512) /\ d.ih = 20 /\ d.iw = 20  BY <1>1, <1>6 DEF Divides, BuiltIn, ByFour, Is, Map, MissesBy
  <2> DEFINE grid == Threads(d.n * 128 * 100, 128)
  <2>2. Computes(Conv3x3s2Interior(d, grid))  BY <1>2, <2>1, InteriorComputes
  <2>3. Stride2Grid(a) = grid  BY <1>3, <1>6 DEF Stride2Grid, Quads
  <2>4. \A g : Stride2Shader(a, g) = Conv3x3s2Interior(d, g)  BY <1>6 DEF Stride2Shader
  <2> QED  BY <2>2, <2>3, <2>4
<1>7. CASE a = "stride2_direct_pack4_packedw"
  <2>1. d.oc % 4 = 0  BY <1>1, <1>7 DEF Divides, BuiltIn, ByFour
  <2> DEFINE grid == Threads(d.n * (d.oc \div 4) * Area(d), 128)
  <2>2. Computes(Conv3x3s2PackedWeight(d, grid))  BY <1>2, <2>1, Conv3x3s2PackedWeightComputes
  <2>3. Stride2Grid(a) = grid  BY <1>3, <1>7 DEF Stride2Grid, Quads
  <2>4. \A g : Stride2Shader(a, g) = Conv3x3s2PackedWeight(d, g)  BY <1>7 DEF Stride2Shader
  <2> QED  BY <2>2, <2>3, <2>4
<1>8. CASE a = "stride2_native_fp16_packedw"
  <2>1. d.oc % 4 = 0 /\ d.ic % 4 = 0  BY <1>1, <1>8 DEF Divides, BuiltIn, ByFour
  <2> DEFINE grid == Threads(d.n * (d.oc \div 4) * Area(d), 128)
  <2>2. Computes(Conv3x3s2NativeFp16PackedWeight(d, grid))  BY <1>2, <2>1, NativePackedWeightComputes
  <2>3. Stride2Grid(a) = grid  BY <1>3, <1>8 DEF Stride2Grid, Quads
  <2>4. \A g : Stride2Shader(a, g) = Conv3x3s2NativeFp16PackedWeight(d, g)  BY <1>8 DEF Stride2Shader
  <2> QED  BY <2>2, <2>3, <2>4
<1>9. CASE a = "stride2_direct_pack4_packedw_pos2"
  <2>1. d.oc % 4 = 0  BY <1>1, <1>9 DEF Divides, BuiltIn, ByFour
  <2> DEFINE grid == Threads(d.n * (d.oc \div 4) * Ceil(Area(d), 2), 128)
  <2>2. Computes(Conv3x3s2PackedWeightPos2(d, grid))  BY <1>2, <2>1, PackedWeightPos2Computes
  <2>3. Stride2Grid(a) = grid  BY <1>3, <1>9 DEF Stride2Grid, Quads
  <2>4. \A g : Stride2Shader(a, g) = Conv3x3s2PackedWeightPos2(d, g)  BY <1>9 DEF Stride2Shader
  <2> QED  BY <2>2, <2>3, <2>4
<1>10. CASE a = "stride2_direct_pack4_packedw_oc8"
  <2>1. d.oc % 8 = 0  BY <1>1, <1>10 DEF Divides, BuiltIn, ByFour
  <2> DEFINE grid == Threads(d.n * (d.oc \div 8) * Area(d), 128)
  <2>2. Computes(Conv3x3s2PackedWeightOc8(d, grid))  BY <1>2, <2>1, PackedWeightOc8Computes
  <2>3. Stride2Grid(a) = grid  BY <1>3, <1>10 DEF Stride2Grid, Quads
  <2>4. \A g : Stride2Shader(a, g) = Conv3x3s2PackedWeightOc8(d, g)  BY <1>10 DEF Stride2Shader
  <2> QED  BY <2>2, <2>3, <2>4
<1>11. CASE a = "stride2_persistent_tile16"
  <2>1. d.oc % 16 = 0 /\ d.ic % 16 = 0  BY <1>1, <1>11 DEF Divides, BuiltIn, ByFour
  <2> DEFINE grid == <<Ceil(d.ow, 8), Ceil(d.oh, 4), d.n * (d.oc \div 16)>>
  <2>2. Computes(Conv3x3s2Tile16(d, grid))  BY <1>2, <2>1, Tile16Computes
  <2>3. Stride2Grid(a) = grid  BY <1>3, <1>11 DEF Stride2Grid, Quads
  <2>4. \A g : Stride2Shader(a, g) = Conv3x3s2Tile16(d, g)  BY <1>11 DEF Stride2Shader
  <2> QED  BY <2>2, <2>3, <2>4
<1>12. CASE a = "stride2_direct_pack4_exact"
  <2>1. d.oh = d.ow  BY <1>1, <1>12 DEF Divides, BuiltIn, ByFour
  <2> DEFINE grid == Threads(d.n * (d.oc \div 4) * Area(d), 128)
  <2>2. Computes(Conv3x3s2DirectPack4Exact(d, grid, d.oc, d.oh))  BY <1>2, <2>1, DirectPack4ExactComputes
  <2>3. Stride2Grid(a) = grid  BY <1>3, <1>12 DEF Stride2Grid, Quads
  <2>4. \A g : Stride2Shader(a, g) = Conv3x3s2DirectPack4Exact(d, g, d.oc, d.oh)  BY <1>12 DEF Stride2Shader
  <2> QED  BY <2>2, <2>3, <2>4
<1>13. CASE a = "stride2_direct_pack8"
  <2> DEFINE grid == Threads(d.n * Ceil(d.oc, 8) * Area(d), 128)
  <2>1. Computes(Conv3x3s2DirectPack8(d, grid))  BY <1>2, Conv3x3s2DirectPack8Computes
  <2>2. Stride2Grid(a) = grid  BY <1>3, <1>13 DEF Stride2Grid, Quads
  <2>3. \A g : Stride2Shader(a, g) = Conv3x3s2DirectPack8(d, g)  BY <1>13 DEF Stride2Shader
  <2> QED  BY <2>1, <2>2, <2>3
<1>14. CASE a = Pair
  <2>1. PairShape(d)  BY <1>1, <1>14 DEF Divides, BuiltIn, ByFour, Pair
  <2> DEFINE grid == <<200, 1, 1>>
  <2>2. Computes(PositionPair(d, grid))  BY <1>2, <2>1, PositionPairComputes
  <2>3. Stride2Grid(a) = grid  BY <1>3, <1>14 DEF Stride2Grid, Quads, Pair
  <2>4. \A g : Stride2Shader(a, g) = PositionPair(d, g)  BY <1>14 DEF Stride2Shader, Pair
  <2> QED  BY <2>2, <2>3, <2>4
<1> QED  BY <1>4, <1>5, <1>6, <1>7, <1>8, <1>9, <1>10, <1>11, <1>12, <1>13, <1>14 DEF Stride2Kernels

\* So does every other float kernel.
LEMMA Stride1Compute ==
  ASSUME NEW a \in Pipelines(command, device.fp16),
         a \notin Gemms \cup Stride2Gemms \cup Stride2Kernels
                    \cup {"stride2_native_fp16_packedw", Pair} \cup Int8Names,
         Sized(d), ~MissesBy(a)
  PROVE  Computes(Stride1Shader(a, Grid(a)))
<1>1. Geometry(d, a) /\ BuiltIn(d, a) /\ Divides(d, a) /\ a \in Names \ SplitKs
  BY DEF Pipelines, Apts, Apt, d, c
<1>2. \A t, n : Line(t, n) = Threads(t, n)  BY DEF Line, Threads
<1>3. a \in Spatial => Plain(d, 3, 1, 1)  BY <1>1 DEF Geometry
<1>4. /\ a \in {"generic", "conv1x1"} => Grid(a) = Threads(d.n * d.oc * Area(d), 256)
      /\ a \notin {"generic", "conv1x1"} => Grid(a) = Stride1Grid(a)
  BY <1>1, <1>2, GridsOf
<1>5. CASE a = "conv1x1"
  <2>1. Plain(d, 1, 1, 0) /\ SameMap(d)
    BY <1>1, <1>5 DEF Divides, BuiltIn, Geometry, Points1, Conv1x1Halves
  <2> DEFINE grid == Threads(d.n * d.oc * Area(d), 256)
  <2>2. Computes(Conv1x1(d, grid))  BY <2>1, Conv1x1Computes
  <2>3. Grid(a) = grid  BY <1>2, <1>4, <1>5 DEF Stride1Grid, Quads, WinogradGrid
  <2>4. \A g : Stride1Shader(a, g) = Conv1x1(d, g)  BY <1>5 DEF Stride1Shader
  <2> QED  BY <2>2, <2>3, <2>4
<1>6. CASE a = "native_fp16_conv1x1_oc8_pos2"
  <2>1. Plain(d, 1, 1, 0) /\ SameMap(d) /\ d.oc % 8 = 0 /\ d.ic % 4 = 0
    BY <1>1, <1>6 DEF Divides, BuiltIn, Geometry, Points1, Conv1x1Halves
  <2> DEFINE grid == Threads(d.n * (d.oc \div 4) * Area(d), 128)
  <2>2. Computes(NativeFp16Conv1x1(d, grid))  BY <2>1, NativeConv1x1Computes
  <2>3. Grid(a) = grid  BY <1>2, <1>4, <1>6 DEF Stride1Grid, Quads, WinogradGrid
  <2>4. \A g : Stride1Shader(a, g) = NativeFp16Conv1x1(d, g)  BY <1>6 DEF Stride1Shader
  <2> QED  BY <2>2, <2>3, <2>4
<1>7. CASE a = "native_fp16_conv1x1_oc8_pos2_io"
  <2>1. Plain(d, 1, 1, 0) /\ SameMap(d) /\ d.oc % 8 = 0 /\ d.ic % 4 = 0
    BY <1>1, <1>7 DEF Divides, BuiltIn, Geometry, Points1, Conv1x1Halves
  <2> DEFINE grid == Threads(d.n * (d.oc \div 8) * Ceil(Area(d), 2), 128)
  <2>2. Computes(ActivationFp16Conv1x1(d, grid))  BY <2>1, ActivationConv1x1Computes
  <2>3. Grid(a) = grid  BY <1>2, <1>4, <1>7 DEF Stride1Grid, Quads, WinogradGrid
  <2>4. \A g : Stride1Shader(a, g) = ActivationFp16Conv1x1(d, g)  BY <1>7 DEF Stride1Shader
  <2> QED  BY <2>2, <2>3, <2>4
<1>8. CASE a = "spatial3x3_pack8"
  <2>1. Plain(d, 3, 1, 1)
    BY <1>3, <1>8 DEF Spatial, Stride1Kernels, Staged, HalfAt40
  <2> DEFINE grid == <<Ceil(d.ow, 16), Ceil(d.oh, 16), d.n * Ceil(d.oc, 8)>>
  <2>2. Computes(Conv3x3Pack8(d, grid))  BY <2>1, Conv3x3Pack8Computes
  <2>3. Grid(a) = grid  BY <1>2, <1>4, <1>8 DEF Stride1Grid, Quads, WinogradGrid
  <2>4. \A g : Stride1Shader(a, g) = Conv3x3Pack8(d, g)  BY <1>8 DEF Stride1Shader
  <2> QED  BY <2>2, <2>3, <2>4
<1>9. CASE a = "spatial3x3_pack4"
  <2>1. Plain(d, 3, 1, 1)
    BY <1>3, <1>9 DEF Spatial, Stride1Kernels, Staged, HalfAt40
  <2> DEFINE grid == <<Ceil(d.ow, 16), Ceil(d.oh, 16), d.n * Ceil(d.oc, 4)>>
  <2>2. Computes(Conv3x3Pack4(d, grid))  BY <2>1, Conv3x3Pack4Computes
  <2>3. Grid(a) = grid  BY <1>2, <1>4, <1>9 DEF Stride1Grid, Quads, WinogradGrid
  <2>4. \A g : Stride1Shader(a, g) = Conv3x3Pack4(d, g)  BY <1>9 DEF Stride1Shader
  <2> QED  BY <2>2, <2>3, <2>4
<1>10. CASE a = "spatial3x3"
  <2>1. Plain(d, 3, 1, 1)
    BY <1>3, <1>10 DEF Spatial, Stride1Kernels, Staged, HalfAt40
  <2> DEFINE grid == <<Ceil(d.ow, 16), Ceil(d.oh, 16), d.n * d.oc>>
  <2>2. Computes(Conv3x3(d, grid))  BY <2>1, Conv3x3Computes
  <2>3. Grid(a) = grid  BY <1>2, <1>4, <1>10 DEF Stride1Grid, Quads, WinogradGrid
  <2>4. \A g : Stride1Shader(a, g) = Conv3x3(d, g)  BY <1>10 DEF Stride1Shader
  <2> QED  BY <2>2, <2>3, <2>4
<1>11. CASE a = "stride2_direct_pack4_6x6"
  <2>1. Plain(d, 6, 2, d.p) /\ d.ic = 3 /\ d.oc % 4 = 0
    BY <1>1, <1>11 DEF Divides, BuiltIn, Geometry, ByFour, First6
  <2> DEFINE grid == Threads(d.n * (d.oc \div 4) * Area(d), 128)
  <2>2. Computes(Conv6x6s2DirectPack4(d, grid))  BY <2>1, Conv6x6Computes
  <2>3. Grid(a) = grid  BY <1>2, <1>4, <1>11 DEF Stride1Grid, Quads, WinogradGrid
  <2>4. \A g : Stride1Shader(a, g) = Conv6x6s2DirectPack4(d, g)  BY <1>11 DEF Stride1Shader
  <2> QED  BY <2>2, <2>3, <2>4
<1>12. CASE a = "direct_pack4"
  <2>1. Plain(d, 3, 1, 1)
    BY <1>3, <1>12 DEF Spatial, Stride1Kernels, Staged, HalfAt40
  <2> DEFINE grid == Threads(d.n * Ceil(d.oc, 4) * Area(d), 128)
  <2>2. Computes(Conv3x3DirectPack4(d, grid))  BY <2>1, Conv3x3DirectPack4Computes
  <2>3. Grid(a) = grid  BY <1>2, <1>4, <1>12 DEF Stride1Grid, Quads, WinogradGrid
  <2>4. \A g : Stride1Shader(a, g) = Conv3x3DirectPack4(d, g)  BY <1>12 DEF Stride1Shader
  <2> QED  BY <2>2, <2>3, <2>4
<1>13. CASE a = "direct_pack4_packedw_pos2"
  <2>1. Plain(d, 3, 1, 1)
    BY <1>3, <1>13 DEF Spatial, Stride1Kernels, Staged, HalfAt40
  <2>2. d.oc % 4 = 0  BY <1>1, <1>13 DEF Divides, ByFour
  <2>3. Area(d) % 2 = 0
    <3>1. Area(d) \in Nat /\ Area(d) % 2 # 1  BY <1>13, SizedNats DEF MissesBy
    <3> QED  BY <3>1
  <2> DEFINE grid == Threads(d.n * (d.oc \div 4) * (Area(d) \div 2), 64)
  <2>4. Computes(Conv3x3PackedWeightPos2(d, grid))  BY <2>1, <2>2, <2>3, Conv3x3PackedWeightPos2Computes
  <2>5. Grid(a) = grid  BY <1>2, <1>4, <1>13 DEF Stride1Grid, Quads, WinogradGrid
  <2>6. \A g : Stride1Shader(a, g) = Conv3x3PackedWeightPos2(d, g)  BY <1>13 DEF Stride1Shader
  <2> QED  BY <2>4, <2>5, <2>6
<1>14. CASE a = "native_fp16_packedw_pos2_40x40_64x64"
  <2>1. Plain(d, 3, 1, 1)
    BY <1>3, <1>14 DEF Spatial, Stride1Kernels, Staged, HalfAt40
  <2>2. SameMap(d) /\ Is(d, 40, 64, 64)
    BY <1>1, <1>14 DEF Divides, BuiltIn, Geometry, HalfAt40
  <2> DEFINE grid == Threads(d.n * 16 * 800, 64)
  <2>3. Computes(NativeFp16Pos2At40(d, grid))  BY <2>1, <2>2, Pos2At40Computes
  <2>4. Grid(a) = grid  BY <1>2, <1>4, <1>14 DEF Stride1Grid, Quads, WinogradGrid
  <2>5. \A g : Stride1Shader(a, g) = NativeFp16Pos2At40(d, g)  BY <1>14 DEF Stride1Shader
  <2> QED  BY <2>3, <2>4, <2>5
<1>15. CASE a = "native_fp16_packedw_pos2_40x40_64x64_io"
  <2>1. Plain(d, 3, 1, 1)
    BY <1>3, <1>15 DEF Spatial, Stride1Kernels, Staged, HalfAt40
  <2>2. SameMap(d) /\ Is(d, 40, 64, 64)
    BY <1>1, <1>15 DEF Divides, BuiltIn, Geometry, HalfAt40
  <2> DEFINE grid == Threads(d.n * 16 * 800, 64)
  <2>3. Computes(ActivationFp16Pos2At40(d, grid))  BY <2>1, <2>2, Pos2At40Computes
  <2>4. Grid(a) = grid  BY <1>2, <1>4, <1>15 DEF Stride1Grid, Quads, WinogradGrid
  <2>5. \A g : Stride1Shader(a, g) = ActivationFp16Pos2At40(d, g)  BY <1>15 DEF Stride1Shader
  <2> QED  BY <2>3, <2>4, <2>5
<1>16. CASE a = "winograd_f2x2_native"
  <2>1. Plain(d, 3, 1, 1)
    BY <1>3, <1>16 DEF Spatial, Stride1Kernels, Staged, HalfAt40
  <2>2. d.oh % 2 = 0 /\ d.ow % 2 = 0
    BY <1>1, <1>16 DEF Divides, BuiltIn, Geometry, Staged
  <2> DEFINE grid == <<(d.oh \div 2) * (d.ow \div 2), d.n, Ceil(d.oc, 64)>>
  <2>3. Computes(WinogradF2x2Staged(d, grid, FALSE, FALSE))  BY <2>1, <2>2, WinogradF2x2StagedComputes
  <2>4. Grid(a) = grid  BY <1>2, <1>4, <1>16 DEF Stride1Grid, Quads, WinogradGrid
  <2>5. \A g : Stride1Shader(a, g) = WinogradF2x2Staged(d, g, FALSE, FALSE)  BY <1>16 DEF Stride1Shader
  <2> QED  BY <2>3, <2>4, <2>5
<1>17. CASE a = "winograd_f2x2_io"
  <2>1. Plain(d, 3, 1, 1)
    BY <1>3, <1>17 DEF Spatial, Stride1Kernels, Staged, HalfAt40
  <2>2. d.oh % 2 = 0 /\ d.ow % 2 = 0
    BY <1>1, <1>17 DEF Divides, BuiltIn, Geometry, Staged
  <2> DEFINE grid == <<(d.oh \div 2) * (d.ow \div 2), d.n, Ceil(d.oc, 64)>>
  <2>3. Computes(WinogradF2x2Staged(d, grid, TRUE, FALSE))  BY <2>1, <2>2, WinogradF2x2StagedComputes
  <2>4. Grid(a) = grid  BY <1>2, <1>4, <1>17 DEF Stride1Grid, Quads, WinogradGrid
  <2>5. \A g : Stride1Shader(a, g) = WinogradF2x2Staged(d, g, TRUE, FALSE)  BY <1>17 DEF Stride1Shader
  <2> QED  BY <2>3, <2>4, <2>5
<1>18. CASE a = "winograd_f2x2_fp32_accum"
  <2>1. Plain(d, 3, 1, 1)
    BY <1>3, <1>18 DEF Spatial, Stride1Kernels, Staged, HalfAt40
  <2>2. d.oh % 2 = 0 /\ d.ow % 2 = 0
    BY <1>1, <1>18 DEF Divides, BuiltIn, Geometry, Staged
  <2> DEFINE grid == <<(d.oh \div 2) * (d.ow \div 2), d.n, Ceil(d.oc, 64)>>
  <2>3. Computes(WinogradF2x2Staged(d, grid, FALSE, TRUE))  BY <2>1, <2>2, WinogradF2x2StagedComputes
  <2>4. Grid(a) = grid  BY <1>2, <1>4, <1>18 DEF Stride1Grid, Quads, WinogradGrid
  <2>5. \A g : Stride1Shader(a, g) = WinogradF2x2Staged(d, g, FALSE, TRUE)  BY <1>18 DEF Stride1Shader
  <2> QED  BY <2>3, <2>4, <2>5
<1>19. CASE a = "winograd_f4x4"
  <2>1. Plain(d, 3, 1, 1)
    BY <1>3, <1>19 DEF Spatial, Stride1Kernels, Staged, HalfAt40
  <2>2. d.oh % 4 = 0 /\ d.ow % 4 = 0 /\ d.ic % 32 = 0
    BY <1>1, <1>19 DEF Divides, BuiltIn, Geometry, F4x4
  <2> DEFINE grid == <<(d.oh \div 4) * (d.ow \div 4), d.n, Ceil(d.oc, 64)>>
  <2>3. Computes(WinogradF4x4(d, grid))  BY <2>1, <2>2, WinogradF4x4Computes
  <2>4. Grid(a) = grid  BY <1>2, <1>4, <1>19 DEF Stride1Grid, Quads, WinogradGrid
  <2>5. \A g : Stride1Shader(a, g) = WinogradF4x4(d, g)  BY <1>19 DEF Stride1Shader
  <2> QED  BY <2>3, <2>4, <2>5
<1>20. CASE a = "tileflow_spatial_40x40_128x64"
  <2>1. Plain(d, 3, 1, 1)
    BY <1>3, <1>20 DEF Spatial, Stride1Kernels, Staged, HalfAt40
  <2>2. Is(d, 40, 128, 64)
    BY <1>1, <1>20 DEF Divides, BuiltIn, Geometry
  <2> DEFINE grid == <<Ceil(d.ow, 10), Ceil(d.oh, 10), d.n * (d.oc \div 8)>>
  <2>3. Computes(TileFlowSpatial(d, grid, 40, 128))
    <3> DEFINE shape == <<40, 128>>
    <3>1. shape[1] = 40 /\ shape[2] = 128 /\ shape \in {<<40, 128>>, <<20, 256>>}  OBVIOUS
    <3> HIDE DEF shape
    <3>2. Computes(TileFlowSpatial(d, grid, shape[1], shape[2]))
      BY <2>1, <2>2, <3>1, TileFlowSpatialComputes
    <3> QED  BY <3>1, <3>2
  <2>4. Grid(a) = grid  BY <1>2, <1>4, <1>20 DEF Stride1Grid, Quads, WinogradGrid
  <2>5. \A g : Stride1Shader(a, g) = TileFlowSpatial(d, g, 40, 128)  BY <1>20 DEF Stride1Shader
  <2> QED  BY <2>3, <2>4, <2>5
<1>21. CASE a = "tileflow_spatial_20x20_256x64"
  <2>1. Plain(d, 3, 1, 1)
    BY <1>3, <1>21 DEF Spatial, Stride1Kernels, Staged, HalfAt40
  <2>2. Is(d, 20, 256, 64)
    BY <1>1, <1>21 DEF Divides, BuiltIn, Geometry
  <2> DEFINE grid == <<Ceil(d.ow, 10), Ceil(d.oh, 10), d.n * (d.oc \div 8)>>
  <2>3. Computes(TileFlowSpatial(d, grid, 20, 256))
    <3> DEFINE shape == <<20, 256>>
    <3>1. shape[1] = 20 /\ shape[2] = 256 /\ shape \in {<<40, 128>>, <<20, 256>>}  OBVIOUS
    <3> HIDE DEF shape
    <3>2. Computes(TileFlowSpatial(d, grid, shape[1], shape[2]))
      BY <2>1, <2>2, <3>1, TileFlowSpatialComputes
    <3> QED  BY <3>1, <3>2
  <2>4. Grid(a) = grid  BY <1>2, <1>4, <1>21 DEF Stride1Grid, Quads, WinogradGrid
  <2>5. \A g : Stride1Shader(a, g) = TileFlowSpatial(d, g, 20, 256)  BY <1>21 DEF Stride1Shader
  <2> QED  BY <2>3, <2>4, <2>5
<1>22. CASE a = "generic"
  <2> DEFINE grid == Threads(d.n * d.oc * Area(d), 256)
  <2>1. Computes(Conv2dSilu(d, grid)) /\ Computes(Conv2d(d, grid))
    BY Conv2dSiluComputes, Conv2dComputes
  <2>2. Grid(a) = grid  BY <1>4, <1>22
  <2>3. Stride1Shader(a, grid) \in {Conv2dSilu(d, grid), Conv2d(d, grid)}
    BY <1>22 DEF Stride1Shader
  <2> QED  BY <2>1, <2>2, <2>3
<1>23. a # "winograd_f2x2"  BY DEF MissesBy, KnownInexact
<1>24. a \in Points1 \cup Stride1Kernels \cup Staged \cup HalfAt40 \cup {First6, "generic",
               "spatial3x3", "spatial3x3_pack4", "spatial3x3_pack8"}
  <2>1. a \notin Strided
    BY <1>1 DEF Strided, SplitKs
  <2>2. a \notin {"splitk_10x10_512x64", "splitk_20x20_256x64"}  BY <1>1 DEF SplitKs
  <2>3. a # "implicit_gemm"  BY DEF Gemms
  <2> QED  BY <1>1, <2>1, <2>2, <2>3 DEF Names, Spatial
<1>25. a \in {"winograd_f2x2",
  "conv1x1", "native_fp16_conv1x1_oc8_pos2",
  "native_fp16_conv1x1_oc8_pos2_io", "spatial3x3_pack8",
  "spatial3x3_pack4", "spatial3x3",
  "stride2_direct_pack4_6x6", "direct_pack4",
  "direct_pack4_packedw_pos2", "native_fp16_packedw_pos2_40x40_64x64",
  "native_fp16_packedw_pos2_40x40_64x64_io", "winograd_f2x2_native",
  "winograd_f2x2_io", "winograd_f2x2_fp32_accum",
  "winograd_f4x4", "tileflow_spatial_40x40_128x64",
  "tileflow_spatial_20x20_256x64", "generic"}
  BY <1>24 DEF Points1, Conv1x1Halves, Stride1Kernels, Staged, HalfAt40, First6
<1> QED
  BY <1>5, <1>6, <1>7, <1>8, <1>9, <1>10, <1>11, <1>12, <1>13, <1>14, <1>15, <1>16, <1>17,
     <1>18, <1>19, <1>20, <1>21, <1>22, <1>23, <1>25

\* Every apt float kernel computes the convolution, but for the known ones.
LEMMA ShaderComputes ==
  ASSUME NEW a \in Pipelines(command, device.fp16), a \notin Int8Names, Sized(d), ~MissesBy(a)
  PROVE  Computes(Shader(a, Grid(a)))
<1>1. Apt(command, device.fp16, a) /\ a \in Names  BY DEF Pipelines, Apts
<1>2. CASE a \in Gemms
  BY <1>1, <1>2, GridsOf, GemmsCompute DEF MissesBy
<1>3. CASE a \in Stride2Gemms
  BY <1>1, <1>3, GridsOf, Stride2GemmsCompute DEF MissesBy
<1>4. CASE a \in Stride2Kernels \cup {"stride2_native_fp16_packedw", Pair}
  BY <1>1, <1>4, GridsOf, Stride2KernelsCompute
<1>5. CASE a \notin Gemms \cup Stride2Gemms \cup Stride2Kernels
                      \cup {"stride2_native_fp16_packedw", Pair}
  BY <1>1, <1>5, GridsOf, Stride1Compute
<1> QED  BY <1>2, <1>3, <1>4, <1>5

------------------------------------------------------------------------------
(* Joined convolutions                                                       *)

(* The kernels over branches. *)

\* Joined convolutions, one thread per output element.
LEMMA ConcatPlainComputes ==
  ASSUME NEW x, Sized(x)
  PROVE  Computes(ConcatPlain(x, Threads(x.n * x.oc * Area(x), 256)))
<1> DEFINE total == x.n * x.oc * Area(x)
<1>1. total \in Nat  BY SizedNats, ProductNat
<1>2. Exact({Guarded(total, 256 * Ceil(total, 256))})  BY <1>1, TightSet, TightTiles
<1> QED  BY <1>2, ExactNone DEF Computes, ConcatPlain, Kernel, Threads

\* Tiles of a branch cover it.
LEMMA BranchTiles ==
  ASSUME NEW x, x.branches \in Seq(Nat)
  PROVE  /\ Exact({Guarded(b, 32 * Ceil(b, 32)) : b \in Branches(x)})
         /\ Exact({Guarded(b, 4 * Ceil(b, 4)) : b \in Branches(x)})
         /\ (\A b \in Branches(x) : b % 4 = 0) => Exact({Open(b, 4 * (b \div 4)) : b \in Branches(x)})
<1>1. \A b \in Branches(x) : b \in Nat  BY DEF Branches
<1> HIDE DEF Branches
<1>2. \A b \in Branches(x) : Tight(Guarded(b, 32 * Ceil(b, 32))) /\ Tight(Guarded(b, 4 * Ceil(b, 4)))
  BY <1>1, TightTiles
<1>3. ASSUME \A b \in Branches(x) : b % 4 = 0
      PROVE  \A b \in Branches(x) : Tight(Open(b, 4 * (b \div 4)))
  <2>1. \A b \in Branches(x) : 4 * (b \div 4) = b  BY <1>1, <1>3, Divided
  <2> QED  BY <1>1, <2>1, TightOpen
<1> QED  BY <1>2, <1>3, TightSet

\* Joined: four channels per thread, four divides every branch.
LEMMA ConcatVec4Computes ==
  ASSUME NEW x, Sized(x), x.branches \in Seq(Nat), x.oc % 4 = 0,
         \A b \in Branches(x) : b % 4 = 0
  PROVE  Computes(ConcatVec4(x, Threads(x.n * (x.oc \div 4) * Area(x), 128)))
<1> DEFINE total == x.n * (x.oc \div 4) * Area(x)
<1>1. total \in Nat /\ 4 * (x.oc \div 4) = x.oc  BY SizedNats, ProductNat, Divided
<1>2. Tight(Guarded(total, 128 * Ceil(total, 128)))  BY <1>1, TightTiles
<1>3. Tight(Open(x.oc, 4 * (x.oc \div 4)))  BY <1>1, TightOpen, SizedNats
<1>4. Exact({Guarded(total, 128 * Ceil(total, 128)), Open(x.oc, 4 * (x.oc \div 4))})
  BY <1>2, <1>3, TightSet
<1> QED  BY <1>4, BranchTiles DEF Computes, ConcatVec4, Kernel, Threads

\* Joined: tiles of 16 by 16, branch by branch.
LEMMA ConcatGemm256Computes ==
  ASSUME NEW x, Sized(x), x.branches \in Seq(Nat)
  PROVE  Computes(ConcatGemm256(x, <<Ceil(Area(x), 16), Ceil(x.oc, 16), x.n>>))
<1>1. Exact({Guarded(Area(x), 16 * Ceil(Area(x), 16)), Guarded(x.oc, 16 * Ceil(x.oc, 16)),
             Open(x.n, x.n)})
  BY TightSet, TightTiles, TightOpen, SizedNats
<1> QED  BY <1>1, BranchTiles DEF Computes, ConcatGemm256, Kernel

\* Joined: tiles of 32 by 8 over all branches.
LEMMA ConcatGemmComputes ==
  ASSUME NEW x, Sized(x)
  PROVE  Computes(ConcatGemm(x, <<Ceil(x.n * Area(x), 32), Ceil(x.oc, 8), 1>>))
<1>1. x.n * Area(x) \in Nat  BY SizedNats, ProductNat
<1>2. Exact({Guarded(x.n * Area(x), 32 * Ceil(x.n * Area(x), 32)), Guarded(x.oc, 8 * Ceil(x.oc, 8))})
      /\ Exact({Guarded(x.ic, 32 * Ceil(x.ic, 32))})
  BY <1>1, TightSet, TightTiles, SizedNats
<1> QED  BY <1>2 DEF Computes, ConcatGemm, Kernel

\* Joined: four channels per thread, each guarded.
LEMMA ConcatDirectPack4Computes ==
  ASSUME NEW x, Sized(x)
  PROVE  Computes(ConcatDirectPack4(x, Threads(x.n * Ceil(x.oc, 4) * Area(x), 128)))
<1> DEFINE total == x.n * Ceil(x.oc, 4) * Area(x)
<1>1. total \in Nat  BY SizedNats, ProductNat, CeilCovers
<1>2. Exact({Guarded(total, 128 * Ceil(total, 128)), Guarded(x.oc, 4 * Ceil(x.oc, 4))})
  BY <1>1, TightSet, TightTiles, SizedNats
<1> QED  BY <1>2, ExactNone DEF Computes, ConcatDirectPack4, Kernel, Threads

\* Joined, in half precision: eight channels of two positions.
LEMMA ConcatNativeComputes ==
  ASSUME NEW x, Sized(x), x.branches \in Seq(Nat), x.oc % 8 = 0
  PROVE  Computes(ConcatNativeFp16(x, Threads(x.n * (x.oc \div 8) * Ceil(Area(x), 2), 128)))
<1> DEFINE total == x.n * (x.oc \div 8) * Ceil(Area(x), 2)
<1>1. total \in Nat /\ 8 * (x.oc \div 8) = x.oc
  BY SizedNats, ProductNat, Divided, CeilCovers
<1>2. Tight(Guarded(total, 128 * Ceil(total, 128)))  BY <1>1, TightTiles
<1>3. Tight(Guarded(Area(x), 2 * Ceil(Area(x), 2)))  BY TightTiles, SizedNats
<1>4. Tight(Open(x.oc, 8 * (x.oc \div 8)))  BY <1>1, TightOpen, SizedNats
<1>5. Exact({Guarded(total, 128 * Ceil(total, 128)), Guarded(Area(x), 2 * Ceil(Area(x), 2)),
             Open(x.oc, 8 * (x.oc \div 8))})
  BY <1>2, <1>3, <1>4, TightSet
<1> QED  BY <1>5, BranchTiles DEF Computes, ConcatNativeFp16, Kernel, Threads

\* Joined: the kernel for two branches of 256 at 40x40.
LEMMA ConcatTileFlowComputes ==
  ASSUME NEW x, Sized(x), x.n = 1, x.branches = <<256, 256>>, Is(x, 40, 512, 128)
  PROVE  Computes(ConcatTileFlow(x, <<200, 1, 1>>))
<1>1. Exact({Guarded(32 * 800, 128 * 200), Literal(x.n, 1)})
  <2>1. 32 * 800 = 25600 /\ 128 * 200 = 25600  OBVIOUS
  <2> QED  BY <2>1, TightSet, TightOpen
<1>2. Exact(Shape(x, 512, 128, 40))  BY ShapeExact
<1>3. Exact({Literal(b, 256) : b \in Branches(x)})
  <2>1. \A b \in Branches(x) : b = 256  BY DEF Branches
  <2> HIDE DEF Branches
  <2>2. \A b \in Branches(x) : Tight(Literal(b, 256))  BY <2>1, TightOpen
  <2> QED  BY <2>2, TightSet
<1>4. Exact({Literal(Len(x.branches), 2)})
  <2>1. Len(x.branches) = 2  OBVIOUS
  <2> QED  BY <2>1, TightSet, TightOpen
<1> QED  BY <1>1, <1>2, <1>3, <1>4, ExactUnion DEF Computes, ConcatTileFlow, Kernel

\* What the recorder dispatches over branches: the kernel whose pipeline state is
\* set, or one without, whose name then is one of those that may miss it.
LEMMA ConcatComputes ==
  ASSUME Sized(d), d.branches \in Seq(Nat)
  PROVE  Computes(ConcatShader(Recorded, ConcatGrid(Recorded)))
<1> DEFINE a == Recorded
<1>1. \A t, n : Line(t, n) = Threads(t, n)  BY DEF Line, Threads
<1>2. Recorded = "concat_native" => Selected = "concat_native"
  BY DEF Recorded
<1>3. Recorded = "concat_vec4" => Selected = "concat_vec4"  BY DEF Recorded
<1>4. Recorded = "concat_tileflow" => Selected = "concat_tileflow"  BY DEF Recorded
<1>5. Selected = "concat_native" => d.oc % 8 = 0
  BY DEF Selected, UsesNative, WantsNative, NativeShape
<1>6. Selected = "concat_vec4" => d.oc % 4 = 0 /\ \A b \in Branches(d) : b % 4 = 0
  BY DEF Selected, UsesVec4
<1>7. Selected = "concat_tileflow" => d.n = 1 /\ d.branches = <<256, 256>> /\ Is(d, 40, 512, 128)
  BY DEF Selected, UsesTileFlow
<1>8. a \in ConcatNames  BY DEF Recorded, Selected, ConcatNames
<1> HIDE DEF a
<1>9. CASE a = "concat_native"
  <2>1. Computes(ConcatNativeFp16(d, Threads(d.n * (d.oc \div 8) * Ceil(Area(d), 2), 128)))
    BY <1>2, <1>5, <1>9, ConcatNativeComputes DEF a
  <2> QED  BY <1>1, <1>9, <2>1 DEF ConcatShader, ConcatGrid, a
<1>10. CASE a = "concat_tileflow"
  <2>1. Computes(ConcatTileFlow(d, <<200, 1, 1>>))
    BY <1>4, <1>7, <1>10, ConcatTileFlowComputes DEF a
  <2> QED  BY <1>10, <2>1 DEF ConcatShader, ConcatGrid, a
<1>11. CASE a = "concat_gemm"
  <2>1. Tiled(32, 8) = <<Ceil(d.n * Area(d), 32), Ceil(d.oc, 8), 1>>  BY DEF Tiled, Positions
  <2> QED  BY <1>11, <2>1, ConcatGemmComputes DEF ConcatShader, ConcatGrid, a
<1>12. CASE a = "concat_direct_pack4"
  BY <1>1, <1>12, ConcatDirectPack4Computes DEF ConcatShader, ConcatGrid, a
<1>13. CASE a = "concat_gemm256"
  BY <1>13, ConcatGemm256Computes DEF ConcatShader, ConcatGrid, a
<1>14. CASE a = "concat_vec4"
  <2>1. Computes(ConcatVec4(d, Threads(Quads * Area(d), 128)))
    BY <1>3, <1>6, <1>14, ConcatVec4Computes DEF a, Quads
  <2> QED  BY <1>1, <1>14, <2>1 DEF ConcatShader, ConcatGrid, a
<1>15. CASE a = "concat_plain"
  BY <1>1, <1>15, ConcatPlainComputes DEF ConcatShader, ConcatGrid, a
<1> QED
  BY <1>8, <1>9, <1>10, <1>11, <1>12, <1>13, <1>14, <1>15 DEF ConcatNames

\* Where a flag outlives its kernel, the one dispatched is among the known ones.
LEMMA NoPipelineIsKnown ==
  ASSUME Recorded # Pipeline
  PROVE  Recorded \in KnownUnset
BY DEF Recorded, KnownUnset, Selected

\* A dispatch without its pipeline writes nothing.
LEMMA NoPipelineUnset ==
  ASSUME NEW x, x.kernel = NoPipeline, Sized(d)
  PROVE  Unset(x)
<1>1. 0 = Open(d.n * d.oc * Area(d), 0).reach
  <2>1. d.n * d.oc * Area(d) \in Nat  BY SizedNats, ProductNat
  <2> QED  BY <2>1 DEF Open, Index, Least
<1>2. NoPipeline.writes = {Open(d.n * d.oc * Area(d), 0)}
  BY DEF NoPipeline, ConcatPlain, Kernel
<1> QED  BY <1>1, <1>2 DEF Unset

------------------------------------------------------------------------------
(* What is recorded computes the convolution                                 *)

\* The int8 kernels are recorded as soon as their weights are there.
FloatInv == stage = "record" /\ ~Concat => Pipeline \notin Int8Names

\* Int8 kernels do not wait for a float view.
LEMMA LeavingWeights ==
  ASSUME BindOriginal \/ BindPacked
  PROVE  FloatInv'
<1>1. chain' = chain /\ ~Int8Pipeline  BY DEF BindOriginal, BindPacked
<1>2. Pipeline' = Pipeline /\ Pipeline \notin Int8Names
  BY <1>1 DEF Pipeline, Int8Pipeline, Int8Names
<1> QED  BY <1>2 DEF FloatInv

\* Every step keeps it so.
LEMMA FloatStep ==
  ASSUME FloatInv, ChainInv, [RecorderNext]_vars
  PROVE  FloatInv'
<1>1. CASE UNCHANGED vars
  BY <1>1 DEF FloatInv, vars, Pipeline, Concat, d, c
<1>2. CASE stage' # "record"  BY <1>2 DEF FloatInv
<1>3. CASE BindOriginal \/ BindPacked  BY <1>3, LeavingWeights
<1>4. CASE CompileConcatOk
  BY <1>4, SettingKept DEF CompileConcatOk, FloatInv
<1> QED
  BY <1>1, <1>2, <1>3, <1>4
  DEF RecorderNext, Next, Choose, CompileOk, CompileFails, BindOther, RecordWinogradSlices, Record,
      DescriptorsRunOut, RecordSplitK, RecordInt8, RefuseInt8, ChooseConcat, RecordConcat, Ends

\* A list of dispatches that computes the convolution.
Right(s) ==
  \A i \in DOMAIN s :
    /\ Misses(s[i]) \/ Computes(s[i].kernel)
    /\ s[i].end = IF i = Len(s) THEN Activation ELSE "partial"

\* The property, said of the recorded commands.
LEMMA RightCommands == ComputesTheConvolution <=> Right(commands)
BY DEF ComputesTheConvolution, Right, Computes

\* One dispatch with the activation.
LEMMA RightOne ==
  ASSUME NEW x, Misses(x) \/ Computes(x.kernel), x.end = Activation
  PROVE  Right(<<x>>)
BY DEF Right

\* A partial dispatch, and one that ends it with the activation.
LEMMA RightTwo ==
  ASSUME NEW x, NEW y, Computes(x.kernel), Computes(y.kernel), x.end = "partial",
         y.end = Activation
  PROVE  Right(<<x, y>>)
<1> DEFINE s == <<x, y>>
<1>1. Len(s) = 2 /\ DOMAIN s = {1, 2} /\ s[1] = x /\ s[2] = y  OBVIOUS
<1> HIDE DEF s
<1>2. Right(s)  BY <1>1 DEF Right
<1> QED  BY <1>2 DEF s

\* What is right of a list when recorded stays right.
LEMMA RightKept ==
  ASSUME SameSetting, Right(commands')
  PROVE  ComputesTheConvolution'
<1>1. d' = d /\ Activation' = Activation
  BY DEF SameSetting, d, c, Activation
<1>2. \A x : Misses(x)' <=> Misses(x)  BY <1>1 DEF Misses, Unset
<1> QED  BY <1>1, <1>2 DEF Right, Computes, ComputesTheConvolution

\* The fields of a dispatch.
LEMMA DispatchedFields ==
  ASSUME NEW name, NEW kernel, NEW end, NEW weight, NEW typed
  PROVE  LET x == Dispatched(name, kernel, end, weight, typed)
         IN x.name = name /\ x.kernel = kernel /\ x.end = end /\ x.weight = weight
            /\ x.typed = typed
BY DEF Dispatched

\* A kernel with the activation built in is dispatched where it is asked for.
LEMMA SiluOf ==
  ASSUME NEW a, Apt(command, device.fp16, a), a \notin LinearBuilds \cup Int8Names
  PROVE  Activation = "silu"
BY DEF Apt, Meant, Activation

\* The convolution of a command is sized.
LEMMA SizedCommand ==
  ASSUME Types
  PROVE  Sized(d) /\ (Concat => d.branches \in Seq(Nat))
<1>1. d = command.d  BY DEF d, c
<1> QED  BY <1>1 DEF Types, EngineCommand, Recordable, Joinable, Concat

\* Recording one kernel.
LEMMA RecordComputes ==
  ASSUME Types, ChainInv, FloatInv, Record
  PROVE  ComputesTheConvolution'
<1> DEFINE a == Pipeline
           end == IF a \in LinearBuilds THEN Activation ELSE "silu"
           x == Dispatched(a, Shader(a, Grid(a)), end, bound, TypedViews(a))
<1>1. SameSetting /\ ~Concat /\ stage = "record" /\ commands' = <<x>>
  BY DEF Record, Ends
<1>2. a \in Pipelines(command, device.fp16)  BY <1>1, ChainsOf DEF ChainInv, Live, Pipeline
<1>3. a \notin Int8Names  BY <1>1 DEF FloatInv
<1>4. Apt(command, device.fp16, a)  BY <1>2 DEF Pipelines, Apts
<1>5. x.name = a /\ x.kernel = Shader(a, Grid(a)) /\ x.end = end  BY DispatchedFields
<1>6. end = Activation  BY <1>3, <1>4, SiluOf
<1> HIDE DEF a, x, end
<1>7. Misses(x) \/ Computes(x.kernel)
  <2>1. MissesBy(a) => Misses(x)  BY <1>5 DEF MissesBy, Misses
  <2> QED  BY <1>2, <1>3, <1>5, <2>1, ShaderComputes, SizedCommand
<1>8. Right(<<x>>)  BY <1>5, <1>6, <1>7, RightOne
<1> QED  BY <1>1, <1>8, RightKept

\* Recording Winograd slices and their sum.
LEMMA RecordWinogradComputes ==
  ASSUME Types, ChainInv, RecordWinogradSlices
  PROVE  ComputesTheConvolution'
<1> DEFINE a == Pipeline
           blocks == Ceil(Ceil(d.ic, 64), 4)
           partial == <<(d.oh \div 2) * (d.ow \div 2), d.n, Ceil(d.oc, 64) * 4>>
           combine == Threads(d.n * d.oc * Area(d), 128)
           x == Dispatched("winograd_slices", WinogradSlices(d, partial, 4, blocks), "partial",
                           bound, TRUE)
           y == Dispatched("combine", CombineSlices(d, combine, 4, 4), "silu", NoWeight, TRUE)
<1>1. SameSetting /\ stage = "record" /\ a = "winograd_f2x2_io" /\ commands' = <<x, y>>
  BY DEF RecordWinogradSlices, Ends, SplitsWinograd, Slices, Line, Threads
<1>2. ~Concat
  BY <1>1, ChainsOf DEF ChainInv, Live, Pipeline, ConcatNames
<1>3. Apt(command, device.fp16, a)
  BY <1>1, <1>2, ChainsOf DEF ChainInv, Live, Pipeline, Pipelines, Apts
<1>4. Plain(d, 3, 1, 1) /\ d.oh % 2 = 0 /\ d.ow % 2 = 0
  BY <1>1, <1>3 DEF Apt, Geometry, Divides, Spatial, Staged, d, c
<1>5. Sized(d)  BY SizedCommand
<1>6. Computes(x.kernel) /\ x.end = "partial"
  BY <1>4, <1>5, WinogradSlicesComputes DEF Dispatched
<1>7. Computes(y.kernel) /\ y.end = "silu"
  BY <1>5, CombineSlicesComputes DEF Dispatched
<1>8. Activation = "silu"
  BY <1>1, <1>3, SiluOf DEF LinearBuilds, Int8Names, Int8Kernels
<1> HIDE DEF x, y
<1>9. Right(<<x, y>>)  BY <1>6, <1>7, <1>8, RightTwo
<1> QED  BY <1>1, <1>9, RightKept

\* The two passes of split-K.
LEMMA SplitsCompute ==
  ASSUME Types, ~Concat, Algorithm \in SplitKs
  PROVE  Right(SplitDispatches)
<1> DEFINE a == Algorithm
           first(kernel) == Dispatched("split_partial", kernel, "partial", Original, FALSE)
           last(kernel) == Dispatched("split_reduce", kernel, "silu", NoWeight, FALSE)
           partial(splits) == <<Ceil(Area(d), 16), Ceil(d.oc, 8), d.n * splits>>
           reduce == Threads(d.n * d.oc * Area(d), 256)
<1>1. Apt(command, device.fp16, a)
  BY RecordableSilu, AlgorithmApt DEF Apts
<1>2. Sized(d)  BY SizedCommand
<1>3. Activation = "silu"
  BY <1>1, SiluOf DEF LinearBuilds, Int8Names, Int8Kernels, SplitKs
<1>4. Geometry(d, a) /\ BuiltIn(d, a)  BY <1>1 DEF Apt, d, c
<1>5. Line(d.n * d.oc * Area(d), 256) = reduce  BY DEF Line, Threads
<1>6. ASSUME NEW p, NEW q, Computes(p), Computes(q)
      PROVE  Right(<<first(p), last(q)>>)
  BY <1>3, <1>6, RightTwo DEF Dispatched
<1>7. CASE a = "splitk_10x10_512x64"
  <2>1. Is(d, 10, 512, 64) /\ Plain(d, 3, 1, 1)
    BY <1>4, <1>7 DEF BuiltIn, Geometry, Spatial
  <2>2. Computes(SplitPartial10x10_512x64(d, partial(8)))
    BY <1>2, <2>1, SplitPartialComputes, PlainWindow DEF SplitPartial10x10_512x64
  <2>3. Computes(SplitReduce10x10_512x64(d, reduce, 8))
    BY <1>2, <2>1, SplitReduceComputes DEF SplitReduce10x10_512x64
  <2>4. SplitDispatches = <<first(SplitPartial10x10_512x64(d, partial(8))),
                            last(SplitReduce10x10_512x64(d, reduce, 8))>>
    BY <1>5, <1>7 DEF SplitDispatches
  <2> QED  BY <1>6, <2>2, <2>3, <2>4
<1>8. CASE a = "splitk_20x20_256x64"
  <2>1. Is(d, 20, 256, 64) /\ Plain(d, 3, 1, 1)
    BY <1>4, <1>8 DEF BuiltIn, Geometry, Spatial
  <2>2. Computes(SplitPartial20x20_256x64(d, partial(4)))
    BY <1>2, <2>1, SplitPartialComputes, PlainWindow DEF SplitPartial20x20_256x64
  <2>3. Computes(SplitReduce20x20_256x64(d, reduce, 4))
    BY <1>2, <2>1, SplitReduceComputes DEF SplitReduce20x20_256x64
  <2>4. SplitDispatches = <<first(SplitPartial20x20_256x64(d, partial(4))),
                            last(SplitReduce20x20_256x64(d, reduce, 4))>>
    BY <1>5, <1>8 DEF SplitDispatches
  <2> QED  BY <1>6, <2>2, <2>3, <2>4
<1>9. CASE a = "splitk_stride2_10x10_256x512"
  <2>1. Is(d, 10, 256, 512) /\ Plain(d, 3, 2, 1) /\ d.ih = 20 /\ d.iw = 20
    BY <1>4, <1>9 DEF BuiltIn, Geometry, Strided
  <2>2. Exact(Window(d, 3, 2, 1) \cup Source(d, 20))
    BY <2>1, PlainWindow, SourceExact, ExactUnion
  <2>3. Computes(SplitPartialStride2(d, partial(4)))
    BY <1>2, <2>1, <2>2, SplitPartialComputes DEF SplitPartialStride2
  <2>4. Computes(SplitReduceStride2(d, reduce, 4))
    BY <1>2, <2>1, SplitReduceComputes DEF SplitReduceStride2
  <2>5. SplitDispatches = <<first(SplitPartialStride2(d, partial(4))),
                            last(SplitReduceStride2(d, reduce, 4))>>
    BY <1>5, <1>9 DEF SplitDispatches
  <2> QED  BY <1>6, <2>3, <2>4, <2>5
<1> QED  BY <1>7, <1>8, <1>9 DEF SplitKs

\* Recording int8 kernels: sliced, tiled, direct or prequantised.
LEMMA Int8Computes ==
  ASSUME Types, ChainInv, RecordInt8
  PROVE  ComputesTheConvolution'
<1> DEFINE a == Pipeline   all == d.n * d.oc * Area(d)
<1>1. SameSetting /\ stage = "weights" /\ a \in Int8Names
  BY DEF RecordInt8, Int8Pipeline, Int8Names
<1>2. Apt(command, device.fp16, a)
  BY <1>1, ChainsOf DEF ChainInv, Live, Pipeline, Pipelines, Apts
<1>3. /\ Int8Shape(d) /\ (d.k = 1 \/ Plain(d, 3, 1, 1) \/ Plain(d, 3, 2, 1))
      /\ command.planned \in Int8Kernels
      /\ command.planned = "int8_dot4_conv1x1" <=> d.k = 1
  BY <1>1, <1>2 DEF Apt, Geometry, Meant, d, c
<1>4. Sized(d)  BY SizedCommand
<1>5. \A t, n : Line(t, n) = Threads(t, n)  BY DEF Line, Threads
<1>6. Right(SlicedInt8)
  <2> DEFINE x == Dispatched("int8_slices", Int8Slices(d, <<Ceil(all \div 4, 128), 1, 4>>,
                             Ceil(d.ic \div 4, 4)), "partial", Scalar(Weight8), TRUE)
             y == Dispatched("combine", CombineSlices(d, Threads(all, 128), 4, 4),
                             Activation, NoWeight, TRUE)
  <2>1. Computes(x.kernel) /\ x.end = "partial"
    BY <1>3, <1>4, Int8SlicesComputes DEF Dispatched
  <2>2. Computes(y.kernel) /\ y.end = Activation
    BY <1>4, CombineSlicesComputes DEF Dispatched
  <2>3. SlicedInt8 = <<x, y>>  BY <1>5 DEF SlicedInt8, Slices
  <2> HIDE DEF x, y
  <2> QED  BY <2>1, <2>2, <2>3, RightTwo
<1>7. Tile(command.planned) => Right(TiledInt8)
  <2> DEFINE one == <<Ceil(Area(d), 32), Ceil(d.oc, 32), d.n>>
             window == <<Ceil(d.ow, 8) * Ceil(d.oh, 4), Ceil(d.oc, 32), d.n>>
             dispatch(kernel) ==
               Dispatched("int8_tiles", kernel, Activation, Scalar(Weight8), TRUE)
  <2>1. ASSUME NEW p, Computes(p)  PROVE Right(<<dispatch(p)>>)
    BY <2>1, RightOne DEF Dispatched
  <2>2. d.ic % 4 = 0 /\ d.g = 1  BY <1>3 DEF Int8Shape
  <2>3. CASE command.planned = "int8_dot4_conv1x1"
    <3>1. Computes(Int8Tiled1x1(d, one))  BY <1>3, <1>4, <2>2, <2>3, Int8TiledComputes
    <3>2. TiledInt8 = <<dispatch(Int8Tiled1x1(d, one))>>  BY <2>3 DEF TiledInt8
    <3> QED  BY <2>1, <3>1, <3>2
  <2>4. CASE command.planned = "int8_dot4_conv3x3" /\ Tile(command.planned)
    <3>1. d.s = 1 /\ d.k # 1  BY <1>3, <2>4 DEF Tile
    <3>2. Plain(d, 3, 1, 1)  BY <1>3, <3>1 DEF Plain
    <3>3. Computes(Int8Tiled3x3(d, window))  BY <1>4, <2>2, <3>2, Int8TiledComputes
    <3>4. TiledInt8 = <<dispatch(Int8Tiled3x3(d, window))>>  BY <2>4 DEF TiledInt8
    <3> QED  BY <2>1, <3>3, <3>4
  <2>5. CASE command.planned = "int8_dot4_conv3x3_stride2" /\ Tile(command.planned)
    <3>1. d.s = 2 /\ d.k # 1  BY <1>3, <2>5 DEF Tile
    <3>2. Plain(d, 3, 2, 1)  BY <1>3, <3>1 DEF Plain
    <3>3. Computes(Int8Tiled3x3Stride2(d, window))  BY <1>4, <2>2, <3>2, Int8TiledComputes
    <3>4. TiledInt8 = <<dispatch(Int8Tiled3x3Stride2(d, window))>>  BY <2>5 DEF TiledInt8
    <3> QED  BY <2>1, <3>3, <3>4
  <2> QED  BY <1>3, <2>3, <2>4, <2>5 DEF Int8Kernels
<1>8. Right(PlainInt8) /\ Right(DynamicInt8)
  <2> DEFINE lanes == IF d.k = 1 THEN 8 ELSE 4
             grid == Threads(d.n * (d.oc \div lanes) * Area(d), 128)
  <2>1. LineInt8 = grid  BY <1>5 DEF LineInt8
  <2> HIDE DEF grid
  <2>2. Computes(Int8Direct(d, grid, Taps)) /\ Computes(Int8Prequant(d, grid, Taps))
    BY <1>3, <1>4, Int8DirectComputes DEF grid, Taps
  <2> QED
    BY <2>1, <2>2, RightOne DEF Dispatched, PlainInt8, DynamicInt8
<1>9. \/ commands' = SlicedInt8 \/ (Tile(command.planned) /\ commands' = TiledInt8)
      \/ commands' = PlainInt8 \/ commands' = DynamicInt8
  BY DEF RecordInt8, Ends
<1>10. Right(commands')  BY <1>6, <1>7, <1>8, <1>9
<1> QED  BY <1>1, <1>10, RightKept

\* Recording a joined convolution.
LEMMA RecordConcatComputes ==
  ASSUME Types, RecordConcat
  PROVE  ComputesTheConvolution'
<1>1. PICK kernel \in (IF MayExist THEN {ConcatShader(Recorded, ConcatGrid(Recorded))} ELSE {})
                      \cup (IF Recorded # Pipeline THEN {NoPipeline} ELSE {}) :
        commands' = << Dispatched(Recorded, kernel, Activation, bound, Recorded \in TypedConcat) >>
  BY DEF RecordConcat, Ends
<1> DEFINE x == Dispatched(Recorded, kernel, Activation, bound, Recorded \in TypedConcat)
<1>2. x.name = Recorded /\ x.kernel = kernel /\ x.end = Activation
  BY DispatchedFields
<1>3. commands' = <<x>>  BY <1>1
<1> HIDE DEF x
<1>4. SameSetting /\ Concat  BY DEF RecordConcat
<1>5. kernel = ConcatShader(Recorded, ConcatGrid(Recorded))
      \/ (Recorded # Pipeline /\ kernel = NoPipeline)
  BY <1>1
<1>6. Misses(x) \/ Computes(x.kernel)
  <2>1. CASE kernel = ConcatShader(Recorded, ConcatGrid(Recorded))
    BY <1>2, <1>4, <2>1, ConcatComputes, SizedCommand
  <2>2. CASE Recorded # Pipeline /\ kernel = NoPipeline
    <3>1. Unset(x) /\ x.name \in KnownUnset
      BY <1>2, <2>2, NoPipelineUnset, NoPipelineIsKnown, SizedCommand
    <3> QED  BY <3>1 DEF Misses
  <2> QED  BY <1>5, <2>1, <2>2
<1>7. Right(<<x>>)  BY <1>2, <1>6, RightOne
<1> QED  BY <1>3, <1>4, <1>7, RightKept

\* Whatever compiles, uploads or fails on the way, what is recorded computes the
\* convolution.
THEOREM ConvolutionIsComputed ==
  ASSUME EngineSettings
  PROVE  RecorderSpec => []ComputesTheConvolution
<1> DEFINE Inv == Types /\ ChainInv
<1>1. Init => FloatInv /\ ComputesTheConvolution
  BY DEF Init, FloatInv, ComputesTheConvolution
<1>2. ASSUME Inv, Inv', FloatInv, ComputesTheConvolution, [RecorderNext]_vars
      PROVE  FloatInv' /\ ComputesTheConvolution'
  <2>1. FloatInv'  BY <1>2, FloatStep
  <2> SUFFICES ComputesTheConvolution'  BY <2>1
  <2>2. CASE UNCHANGED vars
    <3>1. SameSetting /\ commands' = commands  BY <2>2 DEF vars, SameSetting
    <3> QED  BY <1>2, <3>1, RightCommands, RightKept
  <2>3. CASE SameSetting /\ commands' = commands
    BY <1>2, <2>3, RightCommands, RightKept
  <2>4. CASE Record  BY <1>2, <2>4, RecordComputes
  <2>5. CASE RecordWinogradSlices  BY <1>2, <2>5, RecordWinogradComputes
  <2>6. CASE RecordSplitK
    <3>1. \/ SameSetting /\ commands' = commands
          \/ /\ SameSetting /\ ~Concat /\ Algorithm \in SplitKs
             /\ commands' = SplitDispatches
      BY <2>6 DEF RecordSplitK, Ends
    <3> QED  BY <1>2, <2>3, <3>1, SplitsCompute, RightKept
  <2>7. CASE RecordInt8  BY <1>2, <2>7, Int8Computes
  <2>8. CASE RecordConcat  BY <1>2, <2>8, RecordConcatComputes
  <2>9. CASE \/ Choose \/ CompileOk \/ CompileFails \/ BindOriginal \/ BindPacked \/ BindOther
             \/ DescriptorsRunOut \/ RefuseInt8 \/ ChooseConcat \/ CompileConcatOk
    BY <2>3, <2>9 DEF Choose, CompileOk, CompileFails, BindOriginal, BindPacked, BindOther,
       DescriptorsRunOut, RefuseInt8, ChooseConcat, CompileConcatOk
  <2> QED
    BY <1>2, <2>2, <2>4, <2>5, <2>6, <2>7, <2>8, <2>9 DEF RecorderNext, Next
<1>3. RecorderSpec => []Inv  BY ChainInvariant
<1>4. Inv /\ Inv' /\ FloatInv /\ ComputesTheConvolution /\ [RecorderNext]_vars
        => FloatInv' /\ ComputesTheConvolution'
  BY <1>2
<1> HIDE DEF Inv
<1> QED  BY <1>1, <1>3, <1>4, PTL DEF RecorderSpec

------------------------------------------------------------------------------
(* How the kernels read                                                      *)

\* A kernel that reads weights in an order and element size, and has its
\* activations declared one way.
Reads(k, order, elem, views) ==
  k.weight = order /\ k.elem = elem /\ k.in = views /\ k.out = views

\* How the kernel of each pipeline reads.
Layouts(a, k) ==
  /\ a \in {"conv1x1", "stride2_direct_pack4"} => Reads(k, "oihw", 4, "typed")
  /\ a \notin OwnLayout \cup {"conv1x1", "stride2_direct_pack4"} => Reads(k, "oihw", 4, "raw")
  /\ a \in {"direct_pack4_packedw_pos2", "stride2_direct_pack4_packedw_pos2"} =>
       Reads(k, "oc4", 16, "typed")
  /\ a \in {"stride2_direct_pack4_packedw", "stride2_persistent_tile16"} =>
       Reads(k, "oc4", 16, "raw")
  /\ a = "stride2_direct_pack4_packedw_oc8" => Reads(k, "oc4", 4, "raw")
  /\ a \in {"stride2_native_fp16_packedw", "native_fp16_packedw_pos2_40x40_64x64_io"} =>
       Reads(k, "oc4", 8, "typed")
  /\ a = "native_fp16_packedw_pos2_40x40_64x64" => Reads(k, "oc4", 8, "raw")
  /\ a = Pair => Reads(k, "k4", 8, "typed")
  /\ a = "native_fp16_conv1x1_oc8_pos2" => Reads(k, "oc8", 8, "raw")
  /\ a = "native_fp16_conv1x1_oc8_pos2_io" => Reads(k, "oc8", 8, "typed")
  /\ a = "winograd_f2x2" => Reads(k, "quad", 16, "raw")
  /\ a = "winograd_f2x2_native" => Reads(k, "wino16", 8, "raw")
  /\ a = "winograd_f2x2_io" => Reads(k, "wino16", 8, "typed")
  /\ a = "winograd_f2x2_fp32_accum" => Reads(k, "wino16", 16, "raw")
  /\ a = "winograd_f4x4" => Reads(k, "wino36", 8, "typed")

\* How the implicit products read.
LEMMA GemmLayouts ==
  ASSUME NEW a \in Gemms, NEW g
  PROVE  Reads(GemmShader(a, g), "oihw", 4, "raw")
<1> DEFINE R(k) == Reads(k, "oihw", 4, "raw")
<1>1. R(ImplicitGemm(d, g))  BY DEF Reads, ImplicitGemm, Kernel
<1>2. \A m, n, k, geometry : R(Fixed(Product(d, g, m, n, k), geometry))
  BY DEF Reads, Fixed, Product, Kernel
<1> HIDE DEF R
<1>3. \A dim : R(ImplicitGemmShape(d, g, dim))  BY <1>2 DEF ImplicitGemmShape
<1>4. \A dim, n : R(ImplicitGemmExact(d, g, dim, n))  BY <1>2 DEF ImplicitGemmExact
<1>5. \A dim, ic, oc : R(ImplicitGemmExactIo(d, g, dim, ic, oc))  BY <1>2 DEF ImplicitGemmExactIo
<1>6. R(ImplicitGemmPersistent(d, g)) /\ \A n : R(ImplicitGemmOcBlock(d, g, n))
  BY <1>2 DEF ImplicitGemmPersistent, ImplicitGemmOcBlock, Gemm10x10_256x64
<1>7. R(GemmShader(a, g))
  BY <1>1, <1>3, <1>4, <1>5, <1>6 DEF GemmShader, Gemms
<1> QED  BY <1>7 DEF R

\* How the stride-2 products read.
LEMMA Stride2GemmLayouts ==
  ASSUME NEW a \in Stride2Gemms, NEW g
  PROVE  Reads(Stride2GemmShader(a, g), "oihw", 4, "raw")
<1>1. \A dim, ic, oc : Reads(ImplicitGemmStride2(d, g, dim, ic, oc), "oihw", 4, "raw")
  BY DEF Reads, ImplicitGemmStride2, Kernel
<1> QED  BY <1>1 DEF Stride2GemmShader, Stride2Gemms

\* How the other stride-2 kernels read.
LEMMA Stride2Layouts ==
  ASSUME NEW a \in Stride2Kernels \cup {"stride2_native_fp16_packedw", Pair}, NEW g
  PROVE  Layouts(a, Stride2Shader(a, g))
<1>1. /\ Reads(Conv3x3s2Pack4(d, g), "oihw", 4, "raw")
      /\ Reads(Conv3x3s2Interior(d, g), "oihw", 4, "raw")
      /\ Reads(Conv3x3s2DirectPack8(d, g), "oihw", 4, "raw")
      /\ Reads(Conv3x3s2DirectPack4Exact(d, g, d.oc, d.oh), "oihw", 4, "raw")
      /\ Reads(Conv3x3s2DirectPack4(d, g), "oihw", 4, "typed")
  BY DEF Reads, Kernel, Conv3x3s2Pack4, Conv3x3s2Interior, Conv3x3s2DirectPack8,
         Conv3x3s2DirectPack4Exact, Conv3x3s2DirectPack4
<1>2. /\ Reads(Conv3x3s2PackedWeight(d, g), "oc4", 16, "raw")
      /\ Reads(Conv3x3s2Tile16(d, g), "oc4", 16, "raw")
      /\ Reads(Conv3x3s2PackedWeightPos2(d, g), "oc4", 16, "typed")
      /\ Reads(Conv3x3s2PackedWeightOc8(d, g), "oc4", 4, "raw")
      /\ Reads(Conv3x3s2NativeFp16PackedWeight(d, g), "oc4", 8, "typed")
      /\ Reads(PositionPair(d, g), "k4", 8, "typed")
  BY DEF Reads, Kernel, Conv3x3s2PackedWeight, Conv3x3s2Tile16, Conv3x3s2PackedWeightPos2,
         Conv3x3s2PackedWeightOc8, Conv3x3s2NativeFp16PackedWeight, PositionPair
<1> DEFINE k == Stride2Shader(a, g)
<1>3. /\ a \in {"stride2_spatial3x3_pack4", "stride2_direct_pack4_10x10_256x512_interior",
                "stride2_direct_pack8", "stride2_direct_pack4_exact"} => Reads(k, "oihw", 4, "raw")
      /\ a = "stride2_direct_pack4" => Reads(k, "oihw", 4, "typed")
      /\ a \in {"stride2_direct_pack4_packedw", "stride2_persistent_tile16"} =>
           Reads(k, "oc4", 16, "raw")
      /\ a = "stride2_direct_pack4_packedw_pos2" => Reads(k, "oc4", 16, "typed")
      /\ a = "stride2_direct_pack4_packedw_oc8" => Reads(k, "oc4", 4, "raw")
      /\ a = "stride2_native_fp16_packedw" => Reads(k, "oc4", 8, "typed")
      /\ a = Pair => Reads(k, "k4", 8, "typed")
  BY <1>1, <1>2 DEF Stride2Shader, Pair
<1> HIDE DEF k
<1>4. Layouts(a, k)
  BY <1>3 DEF Layouts, Stride2Kernels, Pair, OwnLayout, Winograds, HalfPrecision, NativeKernels,
              Packable4, Conv1x1Halves
<1> QED  BY <1>4 DEF k

\* How the other float kernels read.
LEMMA Stride1Layouts ==
  ASSUME NEW a \in Stride1Kernels \cup Staged \cup HalfAt40 \cup Points1
                     \cup {"spatial3x3", "spatial3x3_pack4", "spatial3x3_pack8", "generic", First6},
         NEW g
  PROVE  Layouts(a, Stride1Shader(a, g))
<1>1. /\ Reads(Conv3x3Pack8(d, g), "oihw", 4, "raw") /\ Reads(Conv3x3Pack4(d, g), "oihw", 4, "raw")
      /\ Reads(Conv3x3(d, g), "oihw", 4, "raw") /\ Reads(Conv6x6s2DirectPack4(d, g), "oihw", 4, "raw")
      /\ Reads(Conv3x3DirectPack4(d, g), "oihw", 4, "raw")
      /\ \A dim, ic : Reads(TileFlowSpatial(d, g, dim, ic), "oihw", 4, "raw")
      /\ Reads(Conv2dSilu(d, g), "oihw", 4, "raw") /\ Reads(Conv2d(d, g), "oihw", 4, "raw")
      /\ Reads(Conv1x1(d, g), "oihw", 4, "typed")
  BY DEF Reads, Kernel, Conv3x3Pack8, Conv3x3Pack4, Conv3x3, Conv6x6s2DirectPack4,
         Conv3x3DirectPack4, TileFlowSpatial, Conv2dSilu, Conv2d, Conv1x1
<1>2. /\ Reads(Conv3x3PackedWeightPos2(d, g), "oc4", 16, "typed")
      /\ Reads(NativeFp16Pos2At40(d, g), "oc4", 8, "raw")
      /\ Reads(ActivationFp16Pos2At40(d, g), "oc4", 8, "typed")
      /\ Reads(NativeFp16Conv1x1(d, g), "oc8", 8, "raw")
      /\ Reads(ActivationFp16Conv1x1(d, g), "oc8", 8, "typed")
  BY DEF Reads, Kernel, Conv3x3PackedWeightPos2, NativeFp16Pos2At40, ActivationFp16Pos2At40,
         NativeFp16Conv1x1, ActivationFp16Conv1x1
<1>3. /\ Reads(WinogradF2x2(d, g), "quad", 16, "raw")
      /\ Reads(WinogradF2x2Staged(d, g, FALSE, FALSE), "wino16", 8, "raw")
      /\ Reads(WinogradF2x2Staged(d, g, TRUE, FALSE), "wino16", 8, "typed")
      /\ Reads(WinogradF2x2Staged(d, g, FALSE, TRUE), "wino16", 16, "raw")
      /\ Reads(WinogradF4x4(d, g), "wino36", 8, "typed")
  BY DEF Reads, Kernel, WinogradF2x2, WinogradF2x2Staged, WinogradF4x4
<1> DEFINE k == Stride1Shader(a, g)
<1>4. /\ a \in {"spatial3x3", "spatial3x3_pack4", "spatial3x3_pack8", "generic",
                "stride2_direct_pack4_6x6", "direct_pack4", "tileflow_spatial_40x40_128x64",
                "tileflow_spatial_20x20_256x64"} => Reads(k, "oihw", 4, "raw")
      /\ a = "conv1x1" => Reads(k, "oihw", 4, "typed")
      /\ a = "direct_pack4_packedw_pos2" => Reads(k, "oc4", 16, "typed")
      /\ a = "native_fp16_packedw_pos2_40x40_64x64" => Reads(k, "oc4", 8, "raw")
      /\ a = "native_fp16_packedw_pos2_40x40_64x64_io" => Reads(k, "oc4", 8, "typed")
      /\ a = "native_fp16_conv1x1_oc8_pos2" => Reads(k, "oc8", 8, "raw")
      /\ a = "native_fp16_conv1x1_oc8_pos2_io" => Reads(k, "oc8", 8, "typed")
      /\ a = "winograd_f2x2" => Reads(k, "quad", 16, "raw")
      /\ a = "winograd_f2x2_native" => Reads(k, "wino16", 8, "raw")
      /\ a = "winograd_f2x2_io" => Reads(k, "wino16", 8, "typed")
      /\ a = "winograd_f2x2_fp32_accum" => Reads(k, "wino16", 16, "raw")
      /\ a = "winograd_f4x4" => Reads(k, "wino36", 8, "typed")
  BY <1>1, <1>2, <1>3 DEF Stride1Shader
<1> HIDE DEF k
<1>5. Layouts(a, k)
  BY <1>4 DEF Layouts, Stride1Kernels, Staged, HalfAt40, Points1, First6, Pair, OwnLayout,
              Winograds, HalfPrecision, NativeKernels, Packable4, Conv1x1Halves
<1> QED  BY <1>5 DEF k

\* How the kernel of every apt pipeline reads.
LEMMA ShaderLayouts ==
  ASSUME NEW a \in Pipelines(command, device.fp16), a \notin Int8Names, NEW g
  PROVE  Layouts(a, Shader(a, g))
<1>1. a \in Names \ SplitKs  BY DEF Pipelines, Apts
<1>2. CASE a \in Gemms \cup Stride2Gemms
  <2>1. Reads(Shader(a, g), "oihw", 4, "raw")
    BY <1>2, GridsOf, GemmLayouts, Stride2GemmLayouts
  <2>2. a \notin OwnLayout \cup {"conv1x1", "stride2_direct_pack4", Pair}
    BY <1>2 DEF Gemms, Stride2Gemms, Pair, OwnLayout, Winograds, HalfPrecision, NativeKernels,
                Packable4, Conv1x1Halves
  <2> QED
    BY <2>1, <2>2 DEF Layouts, OwnLayout, Winograds, HalfPrecision, NativeKernels, Packable4,
                      Conv1x1Halves, Pair
<1>3. CASE a \in Stride2Kernels \cup {"stride2_native_fp16_packedw", Pair}
  BY <1>3, GridsOf, Stride2Layouts
<1>4. CASE a \notin Gemms \cup Stride2Gemms \cup Stride2Kernels
                      \cup {"stride2_native_fp16_packedw", Pair}
  <2>1. a \in Stride1Kernels \cup Staged \cup HalfAt40 \cup Points1
               \cup {"spatial3x3", "spatial3x3_pack4", "spatial3x3_pack8", "generic", First6}
    <3>1. a \notin Strided  BY <1>1, <1>4 DEF Strided, SplitKs
    <3>2. a \notin {"splitk_10x10_512x64", "splitk_20x20_256x64", "implicit_gemm"}
      BY <1>1, <1>4 DEF SplitKs, Gemms
    <3> QED  BY <1>1, <1>4, <3>1, <3>2 DEF Names, Spatial
  <2>2. Shader(a, g) = Stride1Shader(a, g)  BY <1>1, <1>4, GridsOf
  <2> QED  BY <2>1, <2>2, Stride1Layouts
<1> QED  BY <1>2, <1>3, <1>4

------------------------------------------------------------------------------
(* What is bound when a pipeline is recorded                                 *)

\* What is bound when a pipeline is about to be recorded.
BoundInv ==
  /\ stage = "record" /\ ~Concat =>
       bound = IF AsImported THEN Original ELSE TheNeeds.view
  /\ stage = "record" /\ Concat =>
       bound = ConcatView /\ (Io => Recorded \in TypedConcat)

\* What a pipeline needs stays with the command.
LEMMA BoundSame ==
  ASSUME SameSetting, chain' = chain, wanted' = wanted
  PROVE  AsImported' = AsImported /\ TheNeeds' = TheNeeds
<1>1. Pipeline' = Pipeline  BY DEF Pipeline
<1>2. AsImported' = AsImported  BY <1>1 DEF AsImported
<1>3. TheNeeds' = TheNeeds
  BY <1>1 DEF TheNeeds, OwnNeeds, WinogradNeeds, NativeNeeds, PackedByFour, Conv1x1Needs, IfNotIo,
     Io, WithoutWinograd, WithoutF4x4, d, c, Float4Weight, stride2_direct_pack4_packed_weight,
     native_fp16_packed_weight, engine_conv3x3_k_major_oc4_fp16_weight,
     engine_conv3x3_k_major_oc4_fp32_weight, engine_winograd_f2x2_fp16_weight,
     winograd_f2x2_weight, winograd_f4x4_fp16_weight, engine_conv1x1_oc8_fp16_weight,
     Forced, SameSetting
<1> QED  BY <1>2, <1>3

\* So does what a joined convolution binds.
LEMMA JoinSame ==
  ASSUME SameSetting, chain' = chain, packs' = packs
  PROVE  ConcatView' = ConcatView /\ Recorded' = Recorded
<1>1. Selected' = Selected /\ Pipeline' = Pipeline  BY SelectedKept DEF Pipeline
<1>2. UsesGemm256' = UsesGemm256
  BY DEF SameSetting, UsesNative, WantsNative, PlannedNative, NativeShape, Oc8, UsesTileFlow,
       UsesGemm, UsesVec4, UsesDirectPack4, UsesGemm256, Planned, Off, Enabled, Io, d, c,
       Large, Is, Map, Area, Branches, engine_conv1x1_oc8_fp16_weight, Buffer
<1>3. Recorded' = Recorded  BY <1>1, <1>2 DEF Recorded
<1>4. Uint2(Oc8)' = Uint2(Oc8)
  BY DEF SameSetting, Uint2, View, Oc8, engine_conv1x1_oc8_fp16_weight, Buffer
<1>5. ConcatView' = ConcatView  BY <1>3, <1>4 DEF ConcatView
<1> QED  BY <1>3, <1>5

\* Every step keeps the view in step with the pipeline.
LEMMA BoundStep ==
  ASSUME Types, ChainInv, BoundInv, [RecorderNext]_vars
  PROVE  BoundInv'
<1>1. CASE UNCHANGED vars
  <2>1. SameSetting /\ chain' = chain /\ wanted' = wanted /\ packs' = packs
        /\ bound' = bound /\ stage' = stage
    BY <1>1 DEF vars, SameSetting
  <2>2. (Concat' <=> Concat) /\ (Io' <=> Io)  BY <2>1, SettingKept
  <2> QED  BY <2>1, <2>2, BoundSame, JoinSame DEF BoundInv
<1>2. CASE stage' # "record"  BY <1>2 DEF BoundInv
<1>3. CASE BindOriginal \/ BindPacked
  <2>1. SameSetting /\ chain' = chain /\ wanted' = wanted /\ ~Concat
    BY <1>3 DEF BindOriginal, BindPacked, ChainInv
  <2>2. ~Concat'  BY <2>1, SettingKept
  <2>3. bound' = IF AsImported THEN Original ELSE TheNeeds.view
    BY <1>3 DEF BindOriginal, BindPacked
  <2> QED  BY <2>1, <2>2, <2>3, BoundSame DEF BoundInv
<1>4. CASE CompileConcatOk /\ stage' = "record"
  <2>1. SameSetting /\ chain' = chain /\ packs' = packs /\ Concat /\ bound' = ConcatView
        /\ (Io => Recorded \in TypedConcat)
    BY <1>4 DEF CompileConcatOk
  <2>2. Concat' /\ (Io' <=> Io)  BY <2>1, SettingKept
  <2> QED  BY <2>1, <2>2, JoinSame DEF BoundInv, TypedConcat
<1> QED
  BY <1>1, <1>2, <1>3, <1>4
  DEF RecorderNext, Next, Choose, CompileOk, CompileFails, BindOther, RecordWinogradSlices, Record,
      DescriptorsRunOut, RecordSplitK, RecordInt8, RefuseInt8, ChooseConcat, CompileConcatOk,
      RecordConcat, Ends

\* Kernels that read halves through the views they are given.
TypedKernels ==
  {"conv1x1", "stride2_direct_pack4", "stride2_direct_pack4_packedw_pos2",
   "direct_pack4_packedw_pos2", "stride2_native_fp16_packedw", Pair, "winograd_f4x4",
   "native_fp16_conv1x1_oc8_pos2_io", "native_fp16_packedw_pos2_40x40_64x64_io",
   "winograd_f2x2_io"}

\* A pipeline that reads stored halves as such.
Stored(p) ==
  /\ p \in TypedKernels \cup Int8Names
  /\ p = "winograd_f2x2_io" => command.native

\* As long as nothing failed, a command that stores halves and has the kernel it
\* was planned for compiles one that reads them.
StoredInv ==
  Live /\ ~Concat /\ Io => failed \/ Algorithm # command.planned \/ Stored(Pipeline)

\* The algorithm stays with the settings.
LEMMA AlgorithmKept ==
  ASSUME SameSetting
  PROVE  Algorithm' = Algorithm
BY DEF SameSetting, Algorithm, replay_conv_algorithm, PlannedFits, UseNativeFp16Stride2,
       plan_tileflow_conv, DirectRules, Stride2GemmRules, Map10And40Rules, Map20Rules, Map10Rules,
       ImplicitGemmRules, Stride2Gemm, Stride2Tried, Stride2, F2x2, PackedWeightPos2, TileFlow,
       DirectPack4, Pack4, Pack8, ImplicitGemmMatch, SplitK10x10, SplitK20x20, Conv6x6, Exact40,
       Stride2Pack4, Stride2DirectPack4, Stride2PackedWeight, Stride2PackedWeightPos2,
       Stride2PackedWeightOc8, Stride2Interior, Stride2Tile16, Stride2Pack8, Unstable, Stride2Exact,
       SplitKStride2, ExactGemm, NativeFp16Stride2, PositionPairMatch, Pos2At40Match, Oc8Pos2Match,
       Int8Match, Off, Enabled, Forced, Tried

\* A command that stores halves names a kernel for them.
LEMMA StoredPlans ==
  ASSUME NEW y, Recordable(y), Halved(y)
  PROVE  /\ y.planned \in HalfStorageKernels
         /\ y.packed
         /\ y.planned = "winograd_f2x2" => y.native
<1>1. y.planned \in HalfStorageKernels /\ y.packed
  BY RecordableCases DEF MappedKernels
<1>2. y.planned = "winograd_f2x2" => y.native
  <2> SUFFICES ASSUME y.planned = "winograd_f2x2" PROVE y.native  OBVIOUS
  <2>1. /\ Square(y.d) /\ y.planned = Fp16Algorithm(y.d, y.silu)
        /\ _uses_native_fp16_winograd(y.d) => y.native
    BY RecordableCases DEF MappedKernels
  <2>2. is_conv3x3_tiled_fast_path(y.d) /\ Stride1Algorithm(y.d) = "winograd_f2x2"
    BY <2>1, Fp16Names
  <2> DEFINE x == y.d
  <2>3. Shape3(x) \in {<<20, 128, 64>>, <<20, 128, 128>>, <<20, 256, 64>>, <<20, 64, 64>>,
                       <<10, 256, 64>>, <<10, 128, 128>>, <<10, 64, 64>>}
    BY <2>2 DEF Stride1Algorithm
  <2>4. x.oh \in {10, 20} /\ x.ic \in {64, 128, 256}  BY <2>3 DEF Shape3
  <2>5. x.ow = x.oh  BY <2>1 DEF Square
  <2>6. Plain(x, 3, 1, 1)  BY <2>2 DEF is_conv3x3_tiled_fast_path
  <2>7. x.ic % 32 = 0 /\ x.oh % 2 = 0 /\ x.ow % 2 = 0  BY <2>4, <2>5
  <2> QED  BY <2>1, <2>6, <2>7 DEF _uses_native_fp16_winograd
<1> QED  BY <1>1, <1>2

\* The first pipeline of the chain of a kernel planned for halves reads them.
LEMMA StoredChain ==
  ASSUME Recordable(command), Io
  PROVE  Stored(Head(Chain(command.planned, FALSE)))
<1> DEFINE a == command.planned   p == Head(Chain(a, FALSE))
<1>1. a \in HalfStorageKernels /\ (a = "winograd_f2x2" => command.native)
  BY StoredPlans DEF Io, Halved
<1>2. a \notin Gemms \cup Stride2Gemms
  BY <1>1 DEF HalfStorageKernels, Gemms, Stride2Gemms
<1>3. \A u, v : Head(<<u>>) = u /\ Head(<<u, v>>) = u  OBVIOUS
<1>4. ASSUME NEW A, NEW u \in A, NEW s \in Seq(A)
      PROVE  Head(<<u>> \o s) = u
  <2>1. (<<u>> \o s)[1] = u  BY <1>4
  <2> QED  BY <2>1
<1>5. CASE a \in {"stride2_direct_pack4", "stride2_direct_pack4_packedw_pos2"}
  <2>1. Chain(a, FALSE) = Stride2Chain(a, FALSE)
    BY <1>2, <1>5 DEF Chain, Stride2Kernels, NativeKernels, Stride1Kernels, Int8Kernels
  <2>2. a = "stride2_direct_pack4" => p = a
    <3> SUFFICES ASSUME a = "stride2_direct_pack4" PROVE p = a  OBVIOUS
    <3>1. Chain(a, FALSE) = <<>> \o S2Direct  BY <2>1 DEF Stride2Chain
    <3>2. <<>> \o S2Direct = <<"stride2_direct_pack4", "generic">>
      BY DEF S2Direct
    <3> QED  BY <1>3, <3>1, <3>2
  <2>3. a = "stride2_direct_pack4_packedw_pos2" => p = a
    <3> DEFINE u == "stride2_direct_pack4_packedw_pos2"
               s == Unless("STRIDE2_DIRECT_PACK4_PACKED_WEIGHT_POS2_3X3",
                           <<"stride2_direct_pack4">>)
               A == {u, "stride2_direct_pack4", "generic"}
    <3> SUFFICES ASSUME a = u PROVE p = u  OBVIOUS
    <3>1. Chain(a, FALSE) = <<u>> \o s \o <<"generic">>  BY <2>1 DEF Stride2Chain
    <3>2. "generic" \in A /\ "stride2_direct_pack4" \in A /\ u \in A  OBVIOUS
    <3> HIDE DEF A, u
    <3>3. s \in Seq(A) /\ <<"generic">> \in Seq(A)  BY <3>2, ChainParts DEF Unless
    <3> HIDE DEF s
    <3>4. s \o <<"generic">> \in Seq(A)  BY <3>3
    <3>5. <<u>> \o s \o <<"generic">> = <<u>> \o (s \o <<"generic">>)  BY <3>2, <3>3
    <3>6. Head(<<u>> \o (s \o <<"generic">>)) = u  BY <3>2, <3>4, <1>4
    <3> QED  BY <3>1, <3>5, <3>6
  <2>4. p \in TypedKernels /\ p # "winograd_f2x2_io"
    <3> HIDE DEF p, a
    <3> QED  BY <1>5, <2>2, <2>3 DEF TypedKernels
  <2> QED  BY <2>4 DEF Stored
<1>6. CASE a \in {"direct_pack4_packedw_pos2", "winograd_f2x2", "winograd_f4x4"}
  <2>1. Chain(a, FALSE) = Stride1Chain(a, FALSE)
    BY <1>2, <1>6 DEF Chain, Stride2Kernels, NativeKernels, Stride1Kernels, Int8Kernels
  <2>2. /\ a = "direct_pack4_packedw_pos2" => Chain(a, FALSE) = <<a, "direct_pack4">>
        /\ a = "winograd_f2x2" => Chain(a, FALSE) = <<"winograd_f2x2_io">>
        /\ a = "winograd_f4x4" => Chain(a, FALSE) = <<a>> \o WithoutF4x4
    BY <2>1, <1>6 DEF Stride1Chain
  <2>3. Head(<<a>> \o WithoutF4x4) = a
    <3> DEFINE A == {a, "spatial3x3_pack4", "generic"}
    <3>1. WithoutF4x4 \in Seq(A) /\ a \in A  BY DEF WithoutF4x4
    <3> HIDE DEF A
    <3> QED  BY <3>1, <1>4
  <2>4. Chain(a, FALSE) = <<"winograd_f2x2_io">> => p = "winograd_f2x2_io"
    BY <1>3
  <2>5. \/ p = "direct_pack4_packedw_pos2" \/ p = "winograd_f4x4"
        \/ p = "winograd_f2x2_io" /\ command.native
    <3>1. a = "direct_pack4_packedw_pos2" => p = a  BY <1>3, <2>2
    <3>2. a = "winograd_f4x4" => p = a  BY <2>2, <2>3
    <3>3. a = "winograd_f2x2" => p = "winograd_f2x2_io"  BY <2>2, <2>4
    <3> HIDE DEF p, a
    <3> QED  BY <1>1, <1>6, <3>1, <3>2, <3>3
  <2> HIDE DEF p
  <2>6. Stored(p)  BY <2>5 DEF Stored, TypedKernels
  <2> QED  BY <2>6 DEF p
<1>7. CASE a \in {"stride2_native_fp16_packedw", "native_fp16_packedw_pos2_40x40_64x64", Pair}
  <2>1. Chain(a, FALSE) = NativeChain(a)
    BY <1>2, <1>7 DEF Chain, Stride2Kernels, NativeKernels, Stride1Kernels, Int8Kernels, Pair
  <2>2. \/ NativeChain(a) = <<a>> /\ a # "native_fp16_packedw_pos2_40x40_64x64"
        \/ NativeChain(a) = <<"native_fp16_packedw_pos2_40x40_64x64_io">>
    BY <1>7 DEF NativeChain, Pair
  <2>3. p \in TypedKernels /\ p # "winograd_f2x2_io"
    BY <1>3, <1>7, <2>1, <2>2 DEF TypedKernels, Pair
  <2> QED  BY <2>3 DEF Stored
<1>8. CASE a \in Int8Kernels
  <2>1. Chain(a, FALSE) = <<a, "int8_prequantised">>
    BY <1>2, <1>8 DEF Chain, Stride2Kernels, NativeKernels, Stride1Kernels, Int8Kernels
  <2>2. p = a  BY <1>3, <2>1
  <2> QED  BY <1>8, <2>2 DEF Stored, Int8Names, Int8Kernels
<1>9. CASE a \in {"conv1x1", "native_fp16_conv1x1_oc8_pos2"}
  <2>1. Chain(a, FALSE) = BasicChain(a)
    BY <1>2, <1>9 DEF Chain, Stride2Kernels, NativeKernels, Stride1Kernels, Int8Kernels
  <2>2. p \in {"conv1x1", "native_fp16_conv1x1_oc8_pos2_io"}
    BY <1>3, <1>9, <2>1 DEF BasicChain
  <2> HIDE DEF p
  <2>3. Stored(p)  BY <2>2 DEF Stored, TypedKernels
  <2> QED  BY <2>3 DEF p
<1> QED
  BY <1>1, <1>5, <1>6, <1>7, <1>8, <1>9 DEF HalfStorageKernels, Int8Kernels, Pair

\* Without its weights a kernel that reads halves is refused, or they could have
\* been made.
LEMMA StoredOther ==
  ASSUME Types, ChainInv, BindOther, Io, Stored(Pipeline), chain' # <<>>
  PROVE  failed'
<1> DEFINE p == Pipeline   n == OwnNeeds(p)   y == command
<1>1. /\ ~Concat /\ chain' = TheNeeds.instead /\ stage = "weights"
      /\ p \in OwnLayout /\ TheNeeds = n
  BY OtherFacts
<1>2. failed' = (failed \/ TheNeeds.buffer.fits)  BY DEF BindOther, NotPacked
<1>3. p \in Pipelines(command, device.fp16)
  BY <1>1, ChainsOf DEF ChainInv, Live, Pipeline
<1>4. p \in Names /\ Apt(command, device.fp16, p)  BY <1>3 DEF Pipelines, Apts
<1>5. Recordable(command) /\ y.native \in BOOLEAN  BY <1>1, RecordableSilu
<1>6. NeedsOf(p)  BY <1>1, <1>3, <1>5, NeedsCases
<1>7. y.packed  BY <1>5, StoredPlans DEF Io, Halved
<1>8. n.instead # <<>>  BY <1>1
<1>9. \A q : IfNotIo(q) = <<>>  BY DEF IfNotIo
<1>10. n.buffer.fits
  <2>1. CASE p \in Packable4
    <3>1. n.buffer = Float4Weight
      BY <1>6, <2>1, NeedsFields DEF NeedsOf, Packable4, HalfAt40, Pair, Conv1x1Halves
    <3>2. Sized(d)  BY <1>5 DEF Recordable, d, c
    <3> QED  BY <1>3, <2>1, <3>1, <3>2, FloatsOfFourFit
  <2>2. CASE p \in {"stride2_native_fp16_packedw"} \cup HalfAt40 \cup Conv1x1Halves
    <3>1. \E q : n.instead = IfNotIo(q)
      BY <1>6, <2>2, NeedsFields DEF NeedsOf, Packable4, HalfAt40, Pair, Conv1x1Halves
    <3> QED  BY <1>8, <1>9, <3>1
  <2>3. CASE p = Pair
    <3>1. n.buffer = engine_conv3x3_k_major_oc4_fp16_weight(y)
      BY <1>6, <2>3, NeedsFields DEF NeedsOf, Packable4, HalfAt40, Pair, Conv1x1Halves
    <3>2. device.fp16 /\ PairShape(d)  BY <1>4, <2>3 DEF Apt, Meant, BuiltIn, d, c
    <3>3. PairShape(y.d)  BY <3>2 DEF d, c
    <3>4. \A w, o, b : Buffer(w, o, b).fits = w  BY DEF Buffer
    <3> QED  BY <1>7, <3>1, <3>2, <3>3, <3>4 DEF engine_conv3x3_k_major_oc4_fp16_weight
  <2>4. CASE p = "winograd_f2x2_io"
    <3>1. y.native  BY <2>4 DEF Stored
    <3>2. n.instead = IfNotIo(<<"winograd_f2x2">>)
      BY <1>6, <2>4, <3>1, NeedsFields DEF NeedsOf, Packable4, HalfAt40, Pair, Conv1x1Halves
    <3> QED  BY <1>8, <1>9, <3>2
  <2>5. CASE p = "winograd_f4x4"
    <3>1. n.buffer = winograd_f4x4_fp16_weight(y)
      BY <1>6, <2>5, NeedsFields DEF NeedsOf, Packable4, HalfAt40, Pair, Conv1x1Halves
    <3>2. F4x4(y.d)  BY <1>4, <2>5 DEF Apt, Geometry
    <3> QED  BY <3>1, <3>2 DEF winograd_f4x4_fp16_weight, Buffer
  <2>6. p \in Packable4 \cup {"stride2_native_fp16_packedw"} \cup HalfAt40 \cup Conv1x1Halves
              \cup {Pair, "winograd_f2x2_io", "winograd_f4x4"}
    <3>1. p \notin Int8Names
      BY <1>1 DEF OwnLayout, Winograds, HalfPrecision, NativeKernels, Packable4, Conv1x1Halves,
         HalfAt40,
         Pair, Int8Names, Int8Kernels
    <3>2. p \in TypedKernels  BY <3>1 DEF Stored
    <3> HIDE DEF p
    <3> QED
      BY <1>1, <3>2 DEF TypedKernels, OwnLayout, Winograds, HalfPrecision, NativeKernels, Packable4,
         Conv1x1Halves, HalfAt40, Pair
  <2> QED  BY <2>1, <2>2, <2>3, <2>4, <2>5, <2>6
<1> QED  BY <1>1, <1>2, <1>10

\* A failure is not forgotten.
LEMMA FailedGrows ==
  ASSUME [RecorderNext]_vars, failed
  PROVE  failed'
BY DEF RecorderNext, Next, Choose, CompileOk, CompileFails, BindOriginal, BindPacked, BindOther,
       RecordWinogradSlices, Record, DescriptorsRunOut, RecordSplitK, RecordInt8, RefuseInt8,
       ChooseConcat, CompileConcatOk, RecordConcat, Ends, Packed, NotPacked, vars

\* No step changes the command or the device.
LEMMA SettingStays ==
  ASSUME [RecorderNext]_vars
  PROVE  SameSetting
BY DEF RecorderNext, Next, Choose, CompileOk, CompileFails, BindOriginal, BindPacked, BindOther,
       RecordWinogradSlices, Record, DescriptorsRunOut, RecordSplitK, RecordInt8, RefuseInt8,
       ChooseConcat, CompileConcatOk, RecordConcat, Ends, vars, SameSetting

\* Every step keeps the halves with a kernel that reads them.
LEMMA StoredStep ==
  ASSUME Types, ChainInv, StoredInv, [RecorderNext]_vars
  PROVE  StoredInv'
<1>1. SameSetting  BY SettingStays
<1>2. /\ (Concat' <=> Concat) /\ (Io' <=> Io) /\ command' = command /\ Algorithm' = Algorithm
  BY <1>1, SettingKept, AlgorithmKept
<1>3. \A p : Stored(p)' <=> Stored(p)  BY <1>2 DEF Stored
<1> SUFFICES ASSUME Live', ~Concat, Io, ~failed', Algorithm = command.planned
             PROVE  Stored(Pipeline')
  BY <1>2 DEF StoredInv, Stored
<1>4. ~failed  BY FailedGrows
<1>5. Live => Stored(Pipeline)  BY <1>4 DEF StoredInv
<1>6. CASE Choose
  <2>1. ~Routed /\ chain' = Chain(Algorithm, FALSE)  BY <1>6 DEF Choose, Routed
  <2>2. Recordable(command)  BY RecordableSilu
  <2> QED  BY <2>1, <2>2, StoredChain DEF Pipeline
<1>7. CASE CompileOk
  <2>1. Live /\ chain' = <<Pipeline>>  BY <1>7 DEF CompileOk, Live
  <2>2. Pipeline' = Pipeline  BY <2>1 DEF Pipeline
  <2> QED  BY <1>5, <2>1, <2>2
<1>8. CASE BindOriginal \/ BindPacked \/ UNCHANGED vars
  <2>1. chain' = chain /\ Live  BY <1>8 DEF BindOriginal, BindPacked, vars, Live
  <2>2. Pipeline' = Pipeline  BY <2>1 DEF Pipeline
  <2> QED  BY <1>5, <2>1, <2>2
<1>9. CASE BindOther
  <2>1. Live /\ chain' # <<>>  BY <1>9, OtherFacts DEF Live
  <2> QED  BY <1>5, <1>9, <2>1, StoredOther
<1> QED
  BY <1>6, <1>7, <1>8, <1>9
  DEF RecorderNext, Next, CompileFails, RecordWinogradSlices, Record, DescriptorsRunOut,
     RecordSplitK,
      RecordInt8, RefuseInt8, ChooseConcat, CompileConcatOk, RecordConcat, Ends, Live

------------------------------------------------------------------------------
(* What is recorded reads what is bound                                      *)

\* Something failed, or the kernel is not the one planned, while halves are stored.
Replaced == Io /\ ~Concat /\ (failed \/ Algorithm # command.planned)

\* A dispatch that reads what it is given.
Fitting(x) ==
  /\ x.name \in KnownViews \/ Replaced \/ x.weight = View(x.kernel.weight, x.kernel.elem)
  /\ Replaced \/ ~("raw" \in {x.kernel.in, x.kernel.out} /\ x.typed)
  /\ "typed" \in {x.kernel.in, x.kernel.out} => x.typed

\* The property, said of the recorded commands.
LEMMA FittingCommands == ReadsWhatIsBound <=> \A i \in DOMAIN commands : Fitting(commands[i])
BY DEF ReadsWhatIsBound, Fitting, Replaced

\* A dispatch that fits goes on fitting: only more may have failed.
LEMMA FittingStays ==
  ASSUME [RecorderNext]_vars, NEW x, Fitting(x)
  PROVE  Fitting(x)'
<1>1. SameSetting  BY SettingStays
<1>2. /\ (Concat' <=> Concat) /\ (Io' <=> Io) /\ command' = command /\ Algorithm' = Algorithm
  BY <1>1, SettingKept, AlgorithmKept
<1>3. Replaced => Replaced'  BY <1>2, FailedGrows DEF Replaced
<1> QED  BY <1>3 DEF Fitting

\* So the property follows from the list as it is recorded.
LEMMA FittingKept ==
  ASSUME [RecorderNext]_vars, \A i \in DOMAIN commands' : Fitting(commands'[i])
  PROVE  ReadsWhatIsBound'
<1>1. \A x : Fitting(x) => Fitting(x)'  BY FittingStays
<1> QED  BY <1>1 DEF ReadsWhatIsBound, Fitting, Replaced

\* What is bound for a pipeline has the order and the elements it reads, but for
\* the known views and the floats behind the kernel built for halves.
LEMMA BoundFits ==
  ASSUME Types, ChainInv, BoundInv, stage = "record", ~Concat, Pipeline \notin Int8Names, NEW g
  PROVE  LET k == Shader(Pipeline, g)
         IN \/ Pipeline \in KnownViews
            \/ Pipeline = "winograd_f2x2_io" /\ ~command.native
            \/ bound = View(k.weight, k.elem)
<1> DEFINE p == Pipeline   k == Shader(p, g)
<1>1. p \in Pipelines(command, device.fp16)
  BY ChainsOf DEF ChainInv, Live, Pipeline
<1>2. p \in Names /\ p \notin Int8Names  BY <1>1 DEF Pipelines, Apts
<1>3. Layouts(p, k)  BY <1>1, ShaderLayouts
<1>4. \A o, e : Reads(k, o, e, "raw") \/ Reads(k, o, e, "typed") => View(k.weight, k.elem) = View(o, e)
  BY DEF Reads
<1> HIDE DEF k
<1>5. bound = IF AsImported THEN Original ELSE TheNeeds.view  BY DEF BoundInv
<1>6. wanted = "original" => p \in Originals
  <2>1. wanted = "original" => chain \in Seq(Originals) /\ chain # <<>>
    BY ChainsOf DEF ChainInv, Live
  <2> QED  BY <2>1 DEF Pipeline
<1>7. wanted = "oc4" => p \in Fours
  <2>1. wanted = "oc4" => chain \in Seq(Fours) /\ chain # <<>>
    BY ChainsOf DEF ChainInv, Live
  <2> QED  BY <2>1 DEF Pipeline
<1>8. CASE AsImported
  <2>1. p \notin OwnLayout
    <3>1. Originals \cap OwnLayout = {}
      BY DEF Originals, OwnLayout, Winograds, HalfPrecision, NativeKernels, Packable4, Conv1x1Halves
    <3> QED  BY <1>6, <1>8, <3>1 DEF AsImported
  <2>2. Reads(k, "oihw", 4, "raw") \/ Reads(k, "oihw", 4, "typed")
    BY <1>3, <2>1 DEF Layouts
  <2> QED  BY <1>4, <1>5, <1>8, <2>2 DEF Original, k
<1>9. CASE wanted = "oc4"
  <2>1. Reads(k, "oc4", 16, "raw") \/ Reads(k, "oc4", 16, "typed")
    BY <1>3, <1>7, <1>9 DEF Layouts, Fours
  <2>2. bound = Float4(Float4Weight)
    BY <1>5, <1>9, NeedsFields DEF AsImported, TheNeeds
  <2>3. Float4Weight.order = "oc4"
    BY DEF Float4Weight, stride2_direct_pack4_packed_weight, Buffer
  <2> QED  BY <1>4, <2>1, <2>2, <2>3 DEF Float4, k
<1>10. CASE ~AsImported /\ wanted # "oc4"
  <2> DEFINE half == native_fp16_packed_weight(command)
             kmajor == engine_conv3x3_k_major_oc4_fp16_weight(command)
             wino == engine_winograd_f2x2_fp16_weight(command)
             fourth == winograd_f4x4_fp16_weight(command)
             oc8 == engine_conv1x1_oc8_fp16_weight(command)
             n == OwnNeeds(p)
  <2>1. p \in OwnLayout /\ bound = n.view
    BY <1>5, <1>10 DEF AsImported, TheNeeds, Types
  <2>2. NeedsOf(p)  BY <1>1, <2>1, RecordableSilu, NeedsCases
  <2>3. /\ Float4(Float4Weight) = View("oc4", 16) /\ Scalar(Float4Weight) = View("oc4", 4)
        /\ Uint2(half) = View("oc4", 8) /\ Uint2(kmajor) = View("k4", 8)
        /\ Uint2(wino) = View("wino16", 8) /\ Uint2(fourth) = View("wino36", 8)
        /\ Uint2(oc8) = View("oc8", 8)
    BY DEF Float4, Scalar, Uint2, Float4Weight, stride2_direct_pack4_packed_weight, Buffer,
       native_fp16_packed_weight, engine_conv3x3_k_major_oc4_fp16_weight,
       engine_winograd_f2x2_fp16_weight, winograd_f4x4_fp16_weight, engine_conv1x1_oc8_fp16_weight
  <2> HIDE DEF n, half, kmajor, wino, fourth, oc8
  <2>4. \/ p \in Packable4 \ {"direct_pack4_packedw_pos2", "stride2_direct_pack4_packedw_oc8"}
             /\ n.view = View("oc4", 16)
        \/ p = "stride2_direct_pack4_packedw_oc8" /\ n.view = View("oc4", 4)
        \/ p \in {"stride2_native_fp16_packedw"} \cup HalfAt40 /\ n.view = View("oc4", 8)
        \/ p = Pair /\ n.view = View("k4", 8)
        \/ p = "winograd_f2x2_native" /\ n.view = View("wino16", 8)
        \/ p = "winograd_f2x2_io" /\ (command.native => n.view = View("wino16", 8))
        \/ p = "winograd_f4x4" /\ n.view = View("wino36", 8)
        \/ p \in Conv1x1Halves /\ n.view = View("oc8", 8)
        \/ p \in KnownViews
    BY <2>2, <2>3, NeedsFields DEF NeedsOf, n, half, kmajor, wino, fourth, oc8, KnownViews
  <2>5. CASE p \in Packable4 \ {"direct_pack4_packedw_pos2", "stride2_direct_pack4_packedw_oc8"}
               /\ n.view = View("oc4", 16)
    <3>1. p \in {"stride2_direct_pack4_packedw", "stride2_persistent_tile16",
                 "stride2_direct_pack4_packedw_pos2"}
      BY <1>2, <2>5 DEF Packable4, Names, Spatial, Strided, Points1, Int8Names, First6,
         Stride2Gemms,
     Stride2Kernels, Stride1Kernels, Staged, HalfAt40, Gemms, Pair, Conv1x1Halves, Int8Kernels
    <3>2. Reads(k, "oc4", 16, "raw") \/ Reads(k, "oc4", 16, "typed")  BY <1>3, <3>1 DEF Layouts
    <3> QED  BY <1>4, <2>1, <2>5, <3>2 DEF k
  <2>6. CASE p = "stride2_direct_pack4_packedw_oc8" /\ n.view = View("oc4", 4)
    BY <1>3, <1>4, <2>1, <2>6 DEF Layouts, k
  <2>7. CASE p \in {"stride2_native_fp16_packedw"} \cup HalfAt40 /\ n.view = View("oc4", 8)
    <3>1. Reads(k, "oc4", 8, "raw") \/ Reads(k, "oc4", 8, "typed")
      BY <1>3, <2>7 DEF Layouts, HalfAt40
    <3> QED  BY <1>4, <2>1, <2>7, <3>1 DEF k
  <2>8. CASE p = Pair /\ n.view = View("k4", 8)
    BY <1>3, <1>4, <2>1, <2>8 DEF Layouts, k
  <2>9. CASE \/ p = "winograd_f2x2_native" /\ n.view = View("wino16", 8)
             \/ p = "winograd_f2x2_io" /\ command.native /\ n.view = View("wino16", 8)
    <3>1. Reads(k, "wino16", 8, "raw") \/ Reads(k, "wino16", 8, "typed")
      BY <1>3, <2>9 DEF Layouts
    <3> QED  BY <1>4, <2>1, <2>9, <3>1 DEF k
  <2>10. CASE p = "winograd_f4x4" /\ n.view = View("wino36", 8)
    BY <1>3, <1>4, <2>1, <2>10 DEF Layouts, k
  <2>11. CASE p \in Conv1x1Halves /\ n.view = View("oc8", 8)
    <3>1. Reads(k, "oc8", 8, "raw") \/ Reads(k, "oc8", 8, "typed")
      BY <1>3, <2>11 DEF Layouts, Conv1x1Halves
    <3> QED  BY <1>4, <2>1, <2>11, <3>1 DEF k
  <2> QED  BY <2>4, <2>5, <2>6, <2>7, <2>8, <2>9, <2>10, <2>11
<1> QED  BY <1>8, <1>9, <1>10

\* A list of one.
LEMMA FittingOne ==
  ASSUME NEW x, Fitting(x)
  PROVE  \A i \in DOMAIN <<x>> : Fitting(<<x>>[i])
OBVIOUS

\* A list of two.
LEMMA FittingTwo ==
  ASSUME NEW x, NEW y, Fitting(x), Fitting(y)
  PROVE  \A i \in DOMAIN <<x, y>> : Fitting(<<x, y>>[i])
<1> DEFINE s == <<x, y>>
<1>1. DOMAIN s = {1, 2} /\ s[1] = x /\ s[2] = y  OBVIOUS
<1> HIDE DEF s
<1>2. \A i \in DOMAIN s : Fitting(s[i])  BY <1>1
<1> QED  BY <1>2 DEF s

\* A kernel that reads typed views gets them, and one that stores halves gets
\* nothing else.
LEMMA TypedFits ==
  ASSUME Types, ChainInv, StoredInv, stage = "record", ~Concat, Pipeline \notin Int8Names, NEW g
  PROVE  LET k == Shader(Pipeline, g)   typed == TypedViews(Pipeline)
         IN /\ Replaced \/ ~("raw" \in {k.in, k.out} /\ typed)
            /\ "typed" \in {k.in, k.out} => typed
            /\ Replaced \/ ~(Pipeline = "winograd_f2x2_io" /\ ~command.native)
<1> DEFINE p == Pipeline   k == Shader(p, g)   typed == TypedViews(p)
           always == {"conv1x1", "stride2_direct_pack4", "stride2_direct_pack4_packedw_pos2",
                      "direct_pack4_packedw_pos2", "stride2_native_fp16_packedw", Pair,
                      "winograd_f4x4"}
           halves == {"native_fp16_conv1x1_oc8_pos2_io",
                      "native_fp16_packedw_pos2_40x40_64x64_io", "winograd_f2x2_io"}
<1>1. p \in Pipelines(command, device.fp16)
  BY ChainsOf DEF ChainInv, Live, Pipeline
<1>2. p \in Names /\ p \notin Int8Names /\ Apt(command, device.fp16, p)
  BY <1>1 DEF Pipelines, Apts
<1>3. Layouts(p, k)  BY <1>1, ShaderLayouts
<1>4. typed = (Io \/ p \in always)  BY DEF TypedViews, Pair
<1>5. p \in halves => Io  BY <1>2 DEF Apt, Meant, Halved, Io
<1>6. Io => Replaced \/ Stored(p)  BY DEF StoredInv, Live, Replaced
<1>7. Stored(p) => p \in always \cup halves /\ (p = "winograd_f2x2_io" => command.native)
  BY <1>2 DEF Stored, TypedKernels
<1> HIDE DEF k, typed
<1>8. p \in always \cup halves => k.in = "typed" /\ k.out = "typed"
  BY <1>3 DEF Layouts, Reads, Pair
<1>9. p \notin always \cup halves => k.in = "raw" /\ k.out = "raw"
  <2> SUFFICES ASSUME p \notin always \cup halves
               PROVE  \E o, e : Reads(k, o, e, "raw")
    BY DEF Reads
  <2>1. CASE p \notin OwnLayout
    BY <1>3, <2>1 DEF Layouts
  <2>2. CASE p \in OwnLayout
    <3>1. p \in {"stride2_direct_pack4_packedw", "stride2_persistent_tile16",
                 "stride2_direct_pack4_packedw_oc8", "native_fp16_packedw_pos2_40x40_64x64",
                 "native_fp16_conv1x1_oc8_pos2", "winograd_f2x2", "winograd_f2x2_native",
                 "winograd_f2x2_fp32_accum"}
      BY <1>2, <2>2 DEF OwnLayout, Winograds, HalfPrecision, NativeKernels, Packable4,
         Conv1x1Halves, HalfAt40,
         Pair, Staged, Names, Spatial, Strided, Points1, Int8Names, First6,
         Stride2Gemms, Stride2Kernels, Stride1Kernels, Gemms, Int8Kernels
    <3> QED  BY <1>3, <3>1 DEF Layouts
  <2> QED  BY <2>1, <2>2
<1> HIDE DEF p, always, halves
<1>10. /\ Replaced \/ ~("raw" \in {k.in, k.out} /\ typed)
       /\ "typed" \in {k.in, k.out} => typed
       /\ Replaced \/ ~(p = "winograd_f2x2_io" /\ ~command.native)
  <2>1. p = "winograd_f2x2_io" => Io  BY <1>5 DEF halves
  <2> QED  BY <1>4, <1>5, <1>6, <1>7, <1>8, <1>9, <2>1
<1> QED  BY <1>10 DEF p, k, typed

\* Recording one kernel.
LEMMA RecordReads ==
  ASSUME Types, ChainInv, FloatInv, BoundInv, StoredInv, Record
  PROVE  ReadsWhatIsBound'
<1> DEFINE a == Pipeline
           end == IF a \in LinearBuilds THEN Activation ELSE "silu"
           x == Dispatched(a, Shader(a, Grid(a)), end, bound, TypedViews(a))
<1>1. SameSetting /\ ~Concat /\ stage = "record" /\ commands' = <<x>>
  BY DEF Record, Ends
<1>2. a \notin Int8Names  BY <1>1 DEF FloatInv
<1>3. /\ x.name = a /\ x.kernel = Shader(a, Grid(a)) /\ x.weight = bound
      /\ x.typed = TypedViews(a)
  BY DispatchedFields
<1>4. \/ a \in KnownViews \/ (a = "winograd_f2x2_io" /\ ~command.native)
      \/ bound = View(Shader(a, Grid(a)).weight, Shader(a, Grid(a)).elem)
  BY <1>1, <1>2, BoundFits
<1>5. LET k == Shader(a, Grid(a))
      IN /\ Replaced \/ ~("raw" \in {k.in, k.out} /\ TypedViews(a))
         /\ "typed" \in {k.in, k.out} => TypedViews(a)
         /\ Replaced \/ ~(a = "winograd_f2x2_io" /\ ~command.native)
  BY <1>1, <1>2, TypedFits
<1> HIDE DEF a, x, end
<1>6. Fitting(x)  BY <1>3, <1>4, <1>5 DEF Fitting
<1> QED  BY <1>1, <1>6, FittingOne, FittingKept DEF RecorderNext, Next

\* What a dispatch needs of its kernel when its views are known.
LEMMA FittingOf ==
  ASSUME NEW name, NEW k, NEW end, NEW weight, weight = View(k.weight, k.elem)
  PROVE  /\ k.in # "raw" /\ k.out # "raw" => Fitting(Dispatched(name, k, end, weight, TRUE))
         /\ k.in # "typed" /\ k.out # "typed" =>
              Fitting(Dispatched(name, k, end, weight, FALSE))
BY DEF Fitting, Dispatched

\* Recording Winograd slices: packed halves are bound, and both kernels read them.
LEMMA RecordWinogradReads ==
  ASSUME Types, ChainInv, BoundInv, RecordWinogradSlices
  PROVE  ReadsWhatIsBound'
<1> DEFINE p == Pipeline
           blocks == Ceil(Ceil(d.ic, 64), Slices)
           partial == <<(d.oh \div 2) * (d.ow \div 2), d.n, Ceil(d.oc, 64) * Slices>>
           combine == Line(d.n * d.oc * Area(d), 128)
           x == Dispatched("winograd_slices", WinogradSlices(d, partial, Slices, blocks), "partial",
                           bound, TRUE)
           y == Dispatched("combine", CombineSlices(d, combine, Slices, Slices), "silu", NoWeight, TRUE)
<1>1. stage = "record" /\ p = "winograd_f2x2_io" /\ bound.elem = 8 /\ commands' = <<x, y>>
  BY DEF RecordWinogradSlices, Ends, SplitsWinograd
<1>2. ~Concat
  BY <1>1, ChainsOf DEF ChainInv, Live, Pipeline, ConcatNames
<1>3. ~AsImported
  <2>1. wanted = "original" => p \in Originals
    <3>1. wanted = "original" => chain \in Seq(Originals) /\ chain # <<>>
      BY <1>1, <1>2, ChainsOf DEF ChainInv, Live
    <3> QED  BY <3>1 DEF Pipeline
  <2>2. p \in OwnLayout  BY <1>1 DEF OwnLayout, Winograds
  <2> QED  BY <1>1, <2>1, <2>2 DEF AsImported, Originals
<1>4. wanted # "oc4"
  <2>1. wanted = "oc4" => chain \in Seq(Fours) /\ chain # <<>>
    BY <1>1, <1>2, ChainsOf DEF ChainInv, Live
  <2>2. wanted = "oc4" => p \in Fours  BY <2>1 DEF Pipeline
  <2> QED  BY <1>1, <2>2 DEF Fours
<1>5. bound = OwnNeeds(p).view
  BY <1>1, <1>2, <1>3, <1>4 DEF BoundInv, TheNeeds
<1>6. NeedsOf(p)
  <2>1. p \in Pipelines(command, device.fp16) /\ p \in OwnLayout
    BY <1>1, <1>2, ChainsOf DEF ChainInv, Live, Pipeline, OwnLayout, Winograds
  <2> QED  BY <1>2, <2>1, RecordableSilu, NeedsCases
<1>7. bound = View("wino16", 8)
  <2>1. \/ bound = Uint2(engine_winograd_f2x2_fp16_weight(command))
        \/ bound = Float4(winograd_f2x2_weight(command))
    BY <1>1, <1>5, <1>6, NeedsFields DEF NeedsOf, Packable4, HalfAt40, Pair, Conv1x1Halves
  <2>2. Float4(winograd_f2x2_weight(command)).elem = 16
    BY DEF Float4, View
  <2>3. Uint2(engine_winograd_f2x2_fp16_weight(command)) = View("wino16", 8)
    BY DEF Uint2, engine_winograd_f2x2_fp16_weight, Buffer
  <2> QED  BY <1>1, <2>1, <2>2, <2>3
<1>8. Fitting(x)
  <2> DEFINE k == WinogradSlices(d, partial, Slices, blocks)
  <2>1. k.weight = "wino16" /\ k.elem = 8 /\ k.in = "typed" /\ k.out = "partial"
    BY DEF WinogradSlices, Kernel
  <2> HIDE DEF k
  <2>2. Fitting(Dispatched("winograd_slices", k, "partial", bound, TRUE))
    BY <1>7, <2>1, FittingOf
  <2> QED  BY <2>2 DEF k
<1>9. Fitting(y)
  <2> DEFINE k == CombineSlices(d, combine, Slices, Slices)
  <2>1. k.weight = "none" /\ k.elem = 0 /\ k.in = "partial" /\ k.out = "typed"
    BY DEF CombineSlices, Kernel
  <2> HIDE DEF k
  <2>2. Fitting(Dispatched("combine", k, "silu", NoWeight, TRUE))
    BY <2>1, FittingOf DEF NoWeight
  <2> QED  BY <2>2 DEF k
<1> HIDE DEF x, y
<1> QED  BY <1>1, <1>8, <1>9, FittingTwo, FittingKept DEF RecorderNext, Next

\* The two passes of split-K read the imported weights and raw views.
LEMMA SplitsRead ==
  ASSUME ~Concat, Algorithm \in SplitKs
  PROVE  \A i \in DOMAIN SplitDispatches : Fitting(SplitDispatches[i])
<1> DEFINE first(kernel) == Dispatched("split_partial", kernel, "partial", Original, FALSE)
           last(kernel) == Dispatched("split_reduce", kernel, "silu", NoWeight, FALSE)
<1>1. ASSUME NEW splits, NEW ic, NEW oc, NEW dim, NEW g, NEW geometry
      PROVE  Fitting(first(Fixed(SplitPartial(d, g, splits, ic, oc, dim), geometry)))
  <2> DEFINE k == Fixed(SplitPartial(d, g, splits, ic, oc, dim), geometry)
  <2>1. k.weight = "oihw" /\ k.elem = 4 /\ k.in = "raw" /\ k.out = "partial"
    BY DEF Fixed, SplitPartial, Kernel
  <2> HIDE DEF k
  <2>2. Fitting(first(k))  BY <2>1, FittingOf DEF Original
  <2> QED  BY <2>2 DEF k
<1>2. ASSUME NEW splits, NEW slots, NEW oc, NEW dim, NEW g
      PROVE  Fitting(last(SplitReduce(d, g, splits, slots, oc, dim)))
  <2> DEFINE k == SplitReduce(d, g, splits, slots, oc, dim)
  <2>1. k.weight = "none" /\ k.elem = 0 /\ k.in = "partial" /\ k.out = "raw"
    BY DEF SplitReduce, Kernel
  <2> HIDE DEF k
  <2>2. Fitting(last(k))  BY <2>1, FittingOf DEF NoWeight
  <2> QED  BY <2>2 DEF k
<1>3. \E x, y : SplitDispatches = <<x, y>> /\ Fitting(x) /\ Fitting(y)
  <2> DEFINE partial(splits) == <<Ceil(Area(d), 16), Ceil(d.oc, 8), d.n * splits>>
             reduce == Line(d.n * d.oc * Area(d), 256)
  <2>1. CASE Algorithm = "splitk_10x10_512x64"
    <3>1. SplitDispatches = <<first(SplitPartial10x10_512x64(d, partial(8))),
                              last(SplitReduce10x10_512x64(d, reduce, 8))>>
      BY <2>1 DEF SplitDispatches
    <3>2. ASSUME NEW g  PROVE Fitting(first(SplitPartial10x10_512x64(d, g)))
      <4>1. SplitPartial10x10_512x64(d, g) = Fixed(SplitPartial(d, g, 8, 512, 64, 10), Window(d, 3, 1, 1))
        BY DEF SplitPartial10x10_512x64
      <4> HIDE DEF first
      <4> QED  BY <1>1, <4>1
    <3>3. \A g : Fitting(last(SplitReduce10x10_512x64(d, g, 8)))
      BY <1>2 DEF SplitReduce10x10_512x64
    <3> HIDE DEF first, last, partial, reduce
    <3> QED  BY <3>1, <3>2, <3>3
  <2>2. CASE Algorithm = "splitk_20x20_256x64"
    <3>1. SplitDispatches = <<first(SplitPartial20x20_256x64(d, partial(4))),
                              last(SplitReduce20x20_256x64(d, reduce, 4))>>
      BY <2>2 DEF SplitDispatches
    <3>2. ASSUME NEW g  PROVE Fitting(first(SplitPartial20x20_256x64(d, g)))
      <4>1. SplitPartial20x20_256x64(d, g) = Fixed(SplitPartial(d, g, 4, 256, 64, 20), Window(d, 3, 1, 1))
        BY DEF SplitPartial20x20_256x64
      <4> HIDE DEF first
      <4> QED  BY <1>1, <4>1
    <3>3. \A g : Fitting(last(SplitReduce20x20_256x64(d, g, 4)))
      BY <1>2 DEF SplitReduce20x20_256x64
    <3> HIDE DEF first, last, partial, reduce
    <3> QED  BY <3>1, <3>2, <3>3
  <2>3. CASE Algorithm = "splitk_stride2_10x10_256x512"
    <3>1. SplitDispatches = <<first(SplitPartialStride2(d, partial(4))),
                              last(SplitReduceStride2(d, reduce, 4))>>
      BY <2>3 DEF SplitDispatches
    <3>2. ASSUME NEW g  PROVE Fitting(first(SplitPartialStride2(d, g)))
      <4>1. SplitPartialStride2(d, g) = Fixed(SplitPartial(d, g, 4, 256, 512, 10), Window(d, 3, 2, 1) \cup Source(d, 20))
        BY DEF SplitPartialStride2
      <4> HIDE DEF first
      <4> QED  BY <1>1, <4>1
    <3>3. \A g : Fitting(last(SplitReduceStride2(d, g, 4)))
      BY <1>2 DEF SplitReduceStride2
    <3> HIDE DEF first, last, partial, reduce
    <3> QED  BY <3>1, <3>2, <3>3
  <2> QED  BY <2>1, <2>2, <2>3 DEF SplitKs
<1> QED  BY <1>3, FittingTwo

\* The words of the int8 weights are in the order of the kernels for their taps.
LEMMA Int8Reads ==
  ASSUME Types, ChainInv, RecordInt8
  PROVE  ReadsWhatIsBound'
<1> DEFINE order == IF d.k = 1 THEN "oi8" ELSE "oki8"
           R(k) == k.weight = order /\ k.elem = 4 /\ k.in # "raw" /\ k.out # "raw"
           of(name, kernel, end) == Dispatched(name, kernel, end, Scalar(Weight8), TRUE)
<1>1. stage = "weights" /\ Pipeline \in Int8Names
  BY DEF RecordInt8, Int8Pipeline, Int8Names
<1>2. Apt(command, device.fp16, Pipeline)
  BY <1>1, ChainsOf DEF ChainInv, Live, Pipeline, Pipelines, Apts
<1>3. /\ d.k \in {1, 3} /\ command.planned \in Int8Kernels
      /\ command.planned = "int8_dot4_conv1x1" <=> d.k = 1
  BY <1>1, <1>2 DEF Apt, Geometry, Meant, Plain, d, c
<1>4. Scalar(Weight8) = View(order, 4)
  <2>1. Weight8.order = order  BY DEF Weight8, conv_int8_weight, Buffer, c, d
  <2> HIDE DEF order
  <2> QED  BY <2>1 DEF Scalar
<1>5. ASSUME NEW name, NEW k, NEW end, R(k)  PROVE Fitting(of(name, k, end))
  BY <1>4, <1>5, FittingOf
<1>6. ASSUME NEW g, NEW end
      PROVE  Fitting(Dispatched("combine", CombineSlices(d, g, Slices, Slices), end, NoWeight, TRUE))
  <2> DEFINE k == CombineSlices(d, g, Slices, Slices)
  <2>1. k.weight = "none" /\ k.elem = 0 /\ k.in = "partial" /\ k.out = "typed"
    BY DEF CombineSlices, Kernel
  <2> HIDE DEF k
  <2>2. Fitting(Dispatched("combine", k, end, NoWeight, TRUE))  BY <2>1, FittingOf DEF NoWeight
  <2> QED  BY <2>2 DEF k
<1>7. \A g, slice : R(Int8Slices(d, g, slice))  BY DEF Int8Slices, Kernel
<1>8. \A g : R(Int8Direct(d, g, Taps)) /\ R(Int8Prequant(d, g, Taps))
  <2>1. Taps = 1 <=> d.k = 1  BY <1>3 DEF Taps
  <2>2. \A g : LET k == Int8Direct(d, g, Taps)
               IN k.weight = order /\ k.elem = 4 /\ k.in = "typed" /\ k.out = "typed"
                  /\ [k EXCEPT !.in = "packed"].weight = order
                  /\ [k EXCEPT !.in = "packed"].elem = 4
                  /\ [k EXCEPT !.in = "packed"].in = "packed"
                  /\ [k EXCEPT !.in = "packed"].out = "typed"
    BY <2>1 DEF Int8Direct, Kernel
  <2> QED  BY <2>2 DEF Int8Prequant
<1>9. /\ d.k = 1 => \A g : R(Int8Tiled1x1(d, g))
      /\ d.k # 1 => \A g : R(Int8Tiled3x3(d, g)) /\ R(Int8Tiled3x3Stride2(d, g))
  BY DEF Int8Tiled1x1, Int8Tiled3x3, Int8Tiled3x3Stride2, Kernel
<1> HIDE DEF R, order
<1> DEFINE Good(s) == \A i \in DOMAIN s : Fitting(s[i])
<1>10. Good(SlicedInt8)
  BY <1>5, <1>6, <1>7, FittingTwo DEF SlicedInt8
<1>11. Good(PlainInt8) /\ Good(DynamicInt8)
  BY <1>5, <1>8, FittingOne DEF PlainInt8, DynamicInt8
<1>12. Good(TiledInt8)
  <2>1. \A k : R(k) => Good(<<of("int8_tiles", k, Activation)>>)
    BY <1>5, FittingOne
  <2> HIDE DEF Good
  <2>2. \E k : R(k) /\ TiledInt8 = <<of("int8_tiles", k, Activation)>>
    BY <1>3, <1>9 DEF TiledInt8, Int8Kernels
  <2> QED  BY <2>1, <2>2
<1>13. \/ commands' = SlicedInt8 \/ commands' = TiledInt8
       \/ commands' = PlainInt8 \/ commands' = DynamicInt8
  BY DEF RecordInt8, Ends
<1>14. Good(commands')  BY <1>10, <1>11, <1>12, <1>13
<1> QED  BY <1>14, FittingKept DEF RecorderNext, Next

\* How the kernels of joined convolutions read.
LEMMA ConcatLayouts ==
  ASSUME NEW a \in ConcatNames, NEW g
  PROVE  LET k == ConcatShader(a, g)
         IN /\ a = "concat_native" => Reads(k, "oc8", 8, "typed")
            /\ a = "concat_vec4" => Reads(k, "oihw", 16, "raw")
            /\ a = "concat_direct_pack4" => Reads(k, "oihw", 4, "typed")
            /\ a \notin TypedConcat \cup {"concat_vec4"} => Reads(k, "oihw", 4, "raw")
<1>1. /\ Reads(ConcatNativeFp16(d, g), "oc8", 8, "typed")
      /\ Reads(ConcatVec4(d, g), "oihw", 16, "raw")
      /\ Reads(ConcatDirectPack4(d, g), "oihw", 4, "typed")
      /\ Reads(ConcatTileFlow(d, g), "oihw", 4, "raw")
      /\ Reads(ConcatGemm(d, g), "oihw", 4, "raw")
      /\ Reads(ConcatGemm256(d, g), "oihw", 4, "raw")
      /\ Reads(ConcatPlain(d, g), "oihw", 4, "raw")
  BY DEF Reads, Kernel, ConcatNativeFp16, ConcatVec4, ConcatDirectPack4, ConcatTileFlow, ConcatGemm,
     ConcatGemm256, ConcatPlain
<1> QED  BY <1>1 DEF ConcatShader, ConcatNames, TypedConcat

\* Recording a joined convolution.
LEMMA RecordConcatReads ==
  ASSUME Types, BoundInv, RecordConcat
  PROVE  ReadsWhatIsBound'
<1> DEFINE a == Recorded   typed == a \in TypedConcat
<1>1. PICK kernel \in (IF MayExist THEN {ConcatShader(a, ConcatGrid(a))} ELSE {})
                      \cup (IF a # Pipeline THEN {NoPipeline} ELSE {}) :
        commands' = << Dispatched(a, kernel, Activation, bound, typed) >>
  BY DEF RecordConcat, Ends
<1>2. bound = ConcatView  BY DEF RecordConcat, BoundInv
<1>3. a \in ConcatNames  BY DEF Recorded, Selected, ConcatNames
<1>4. a = "concat_native" => bound = View("oc8", 8)
  <2>1. Oc8.order = "oc8"  BY DEF Oc8, engine_conv1x1_oc8_fp16_weight, Buffer
  <2> QED  BY <1>2, <2>1 DEF ConcatView, Uint2
<1>5. a = "concat_vec4" => bound = View("oihw", 16)
  BY <1>2 DEF ConcatView, Float4, Original, View
<1>6. a \notin {"concat_native", "concat_vec4"} => bound = View("oihw", 4)
  BY <1>2 DEF ConcatView, Original
<1>7. kernel = ConcatShader(a, ConcatGrid(a)) \/ (a # Pipeline /\ kernel = NoPipeline)
  BY <1>1
<1>8. /\ bound = View(kernel.weight, kernel.elem)
      /\ IF typed THEN kernel.in # "raw" /\ kernel.out # "raw"
                  ELSE kernel.in # "typed" /\ kernel.out # "typed"
  <2>1. CASE kernel = ConcatShader(a, ConcatGrid(a))
    <3>1. /\ a = "concat_native" => Reads(kernel, "oc8", 8, "typed")
          /\ a = "concat_vec4" => Reads(kernel, "oihw", 16, "raw")
          /\ a = "concat_direct_pack4" => Reads(kernel, "oihw", 4, "typed")
          /\ a \notin TypedConcat \cup {"concat_vec4"} => Reads(kernel, "oihw", 4, "raw")
      BY <1>3, <2>1, ConcatLayouts
    <3> QED  BY <1>4, <1>5, <1>6, <3>1 DEF Reads, TypedConcat
  <2>2. CASE a # Pipeline /\ kernel = NoPipeline
    <3>1. a \in KnownUnset  BY <2>2, NoPipelineIsKnown
    <3>2. a \notin TypedConcat \cup {"concat_vec4"}  BY <3>1 DEF KnownUnset, TypedConcat
    <3>3. kernel.weight = "oihw" /\ kernel.elem = 4 /\ kernel.in = "raw" /\ kernel.out = "raw"
      BY <2>2 DEF NoPipeline, ConcatPlain, Kernel
    <3> QED  BY <1>6, <3>2, <3>3 DEF TypedConcat
  <2> QED  BY <1>7, <2>1, <2>2
<1> HIDE DEF a
<1>9. Fitting(Dispatched(a, kernel, Activation, bound, typed))
  BY <1>8 DEF Fitting, Dispatched
<1> QED  BY <1>1, <1>9, FittingOne, FittingKept DEF RecorderNext

\* Whatever compiles, uploads or fails, a kernel reads weights in the order and
\* element size of the view it is bound, and activations through the kind of view
\* its shader declares, except where halves meet a kernel that was replaced and in
\* the known cases: the hazard of a fallback that keeps the view of the kernel it
\* replaces.
THEOREM ViewsAreRead ==
  ASSUME EngineSettings
  PROVE  RecorderSpec => []ReadsWhatIsBound
<1> DEFINE Inv == Types /\ ChainInv
           Views == FloatInv /\ BoundInv /\ StoredInv
<1>1. Init => Views /\ ReadsWhatIsBound
  BY DEF Init, FloatInv, BoundInv, StoredInv, Live, ReadsWhatIsBound
<1>2. ASSUME Inv, Views, ReadsWhatIsBound, [RecorderNext]_vars
      PROVE  ReadsWhatIsBound'
  <2>1. CASE commands' = commands
    BY <1>2, <2>1, FittingCommands, FittingKept
  <2>2. CASE Record  BY <1>2, <2>2, RecordReads
  <2>3. CASE RecordWinogradSlices  BY <1>2, <2>3, RecordWinogradReads
  <2>4. CASE RecordSplitK
    <3>1. \/ commands' = commands
          \/ ~Concat /\ Algorithm \in SplitKs /\ commands' = SplitDispatches
      BY <2>4 DEF RecordSplitK, Ends
    <3> QED  BY <1>2, <2>1, <3>1, SplitsRead, FittingKept
  <2>5. CASE RecordInt8  BY <1>2, <2>5, Int8Reads
  <2>6. CASE RecordConcat  BY <1>2, <2>6, RecordConcatReads
  <2>7. CASE UNCHANGED vars  BY <2>1, <2>7 DEF vars
  <2>8. CASE \/ Choose \/ CompileOk \/ CompileFails \/ BindOriginal \/ BindPacked \/ BindOther
             \/ DescriptorsRunOut \/ RefuseInt8 \/ ChooseConcat \/ CompileConcatOk
    BY <2>1, <2>8 DEF Choose, CompileOk, CompileFails, BindOriginal, BindPacked, BindOther,
       DescriptorsRunOut, RefuseInt8, ChooseConcat, CompileConcatOk
  <2> QED
    BY <1>2, <2>2, <2>3, <2>4, <2>5, <2>6, <2>7, <2>8 DEF RecorderNext, Next
<1>3. RecorderSpec => []Inv  BY ChainInvariant
<1>4. Inv /\ Views /\ ReadsWhatIsBound /\ [RecorderNext]_vars => Views' /\ ReadsWhatIsBound'
  <2>1. Inv /\ Views /\ [RecorderNext]_vars => Views'
    BY FloatStep, BoundStep, StoredStep
  <2> QED  BY <1>2, <2>1
<1> HIDE DEF Inv, Views
<1> QED  BY <1>1, <1>3, <1>4, PTL DEF RecorderSpec

=============================================================================
