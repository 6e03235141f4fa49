--------------------------- MODULE GbmFormats_proofs ---------------------------
(***************************************************************************)
(* Proofs about GbmFormats, for every size, format and combination of      *)
(* flags: that allocator and importers decide about compression alike, and *)
(* so compute the same buffer; that planes and pixels end within it and no *)
(* size wraps around; that no CPU address of a protected buffer is handed  *)
(* out; and that a protected buffer may come from its heap.                *)
(***************************************************************************)
EXTENDS GbmFormats, FiniteSetTheorems, TLAPS

\* What the allocator and the importer recorded is what they computed, and it was
\* for a definite format, and a size that is not zero.
Described(b) ==
  LET d == Describe(b.format, b.usage, b.w, b.h) IN
    /\ b.format \in Supported \ ImplDefined
    /\ b.w \in Nat /\ 1 <= b.w /\ b.w <= 8192
    /\ b.h \in Nat /\ 1 <= b.h /\ b.h <= 8192
    /\ b.size > 0
    /\ <<b.aw, b.ah, b.stride, b.size>> = <<d.aw, d.ah, d.stride, d.size>>
    /\ b.ubwc = IsUbwcEnabled(b.format, b.usage)
    /\ b.ion = GetIonAllocFlags(b.usage)
    /\ b.heaps = GetIonHeapId(b.usage)
    /\ b.mapped = ("SECURE" \notin b.ion)
    /\ b.secure = ("PROTECTED" \in b.usage)

Viewed(b, v) ==
  LET d == Describe(b.format, v.usage, b.w, b.h) IN
    /\ <<v.aw, v.ah, v.stride, v.size>> = <<d.aw, d.ah, d.stride, d.size>>
    /\ \E usage \in SUBSET ImportFlags :
         v.usage = (IF v.path = "fdmod" THEN ModifierUsage(b) ELSE usage)
                     \cup LearntUsage(b, v.path, v.knows)
    /\ v.mapped => ~b.secure

\* One buffer at a time, and everything said of it is about it.
FormatsInv ==
  /\ \A b, c \in bufs : b = c
  /\ \A u, v \in views : u = v
  /\ \A b \in bufs : Described(b) /\ \A v \in views : Viewed(b, v)
  /\ bufs = {} => views = {}

\* bo_create leaves a buffer so described, ...
LEMMA CreateDescribes ==
  ASSUME FormatsInv, bufs = {}, NEW asked, NEW usage, NEW w \in Widths,
         NEW h \in Heights,
         BoCreate(asked, usage, w, h)
  PROVE  FormatsInv'
<1> DEFINE format == IF asked \in ImplDefined THEN GetImplDefinedFormat(usage, asked)
                     ELSE asked
           d == Describe(format, usage, w, h)
           ion == GetIonAllocFlags(usage)
           b == [format |-> format, usage |-> usage, w |-> w, h |-> h,
                 aw |-> d.aw, ah |-> d.ah, stride |-> d.stride, size |-> d.size,
                 ion |-> ion, heaps |-> GetIonHeapId(usage), mapped |-> "SECURE" \notin ion,
                 secure |-> "PROTECTED" \in usage, ubwc |-> IsUbwcEnabled(format, usage)]
<1>1. bufs' = {b} /\ views' = {}
  BY DEF BoCreate, FormatsInv
<1>2. Described(b)
  <2>1. /\ w \in Nat /\ 1 <= w /\ w <= 8192
        /\ h \in Nat /\ 1 <= h /\ h <= 8192
    <3>1. MaxDim \in Nat /\ MaxDim <= 8192
      BY FormatsAssumption
    <3>2. w \in 1 .. MaxDim /\ h \in 1 .. MaxDim
      BY FormatsAssumption
    <3>. QED  BY <3>1, <3>2
  <2>2. format \in Supported \ ImplDefined
    <3>1. format \notin ImplDefined
      BY DEF GetImplDefinedFormat, LastFormat, ImplDefined
    <3>. QED  BY <3>1 DEF BoCreate
  <2>3. d.size > 0
    BY DEF BoCreate
  <2> HIDE DEF d, format
  <2>. QED  BY <2>1, <2>2, <2>3 DEF Described, d
<1> HIDE DEF b
<1>. QED  BY <1>1, <1>2 DEF FormatsInv

\* ... an import one view of it, ...
LEMMA ImportViews ==
  ASSUME FormatsInv, NEW b \in bufs, NEW path, NEW knows \in BOOLEAN,
         NEW usage \in SUBSET ImportFlags, BoImport(b, path, knows, usage)
  PROVE  FormatsInv'
<1> DEFINE asked == IF path = "fdmod" THEN ModifierUsage(b) ELSE usage
           all == asked \cup LearntUsage(b, path, knows)
           d == Describe(b.format, all, b.w, b.h)
           v == [path |-> path, knows |-> knows, usage |-> all, aw |-> d.aw, ah |-> d.ah,
                 stride |-> d.stride, size |-> d.size,
                 mapped |-> path # "fd" /\ knows /\ ~b.secure]
<1>1. views' = {v} /\ bufs' = bufs
  BY DEF BoImport
<1>2. Viewed(b, v)
  BY DEF Viewed
<1> HIDE DEF v
<1>. QED  BY <1>1, <1>2 DEF FormatsInv

\* ... and that is all that happens.
LEMMA FormatsAlways == Spec => []FormatsInv
<1>1. Init => FormatsInv
  BY DEF Init, FormatsInv
<1>2. FormatsInv /\ [Next]_vars => FormatsInv'
  <2> SUFFICES ASSUME FormatsInv, [Next]_vars PROVE FormatsInv'
    OBVIOUS
  <2>1. CASE BoDestroy
    BY <2>1 DEF BoDestroy, FormatsInv
  <2>2. CASE UNCHANGED vars
    BY <2>2 DEF vars, FormatsInv
  <2>. QED  BY <2>1, <2>2, CreateDescribes, ImportViews DEF Next
<1>. QED  BY <1>1, <1>2, PTL DEF Spec

-----------------------------------------------------------------------------
(* Rounding.                                                               *)

\* The colour formats the library hands to the VENUS_* macros.
VenusFormats == {"NV12", "P010", "NV12_UBWC", "P010_UBWC", "BPP10_UBWC"}

\* Pixels and bytes of the unit of a row.
UnitWidth(cf) == IF cf = "BPP10_UBWC" THEN 192 ELSE 128
UnitBytes(cf) == IF cf \in {"NV12", "NV12_UBWC"} THEN 128 ELSE 256

\* A row of pixels is a whole number of units, at most 64, in bytes as in pixels.
LEMMA VenusUnits ==
  ASSUME NEW cf \in VenusFormats, NEW w \in Nat, 1 <= w, w <= 8192
  PROVE  \E k \in Nat : /\ w <= UnitWidth(cf) * k /\ UnitWidth(cf) * k < w + UnitWidth(cf)
                        /\ StrideWidth(cf, w) = UnitWidth(cf) * k
                        /\ VenusStride(cf, w) = UnitBytes(cf) * k
                        /\ k <= 64
<1>1. CASE cf = "BPP10_UBWC"
  <2> DEFINE k == (w + 191) \div 192
  <2>1. k \in Nat /\ w <= k * 192 /\ k * 192 < w + 192
    OBVIOUS
  <2>2. AlignUp(w, 192) = k * 192
    BY DEF AlignUp
  <2>. HIDE DEF k
  <2>3. (k * 192 * 4) \div 3 = k * 256 /\ (k * 256 * 3) \div 4 = k * 192
    BY <2>1
  <2>4. AlignUp(k * 256, 256) = k * 256
    BY <2>1 DEF AlignUp
  <2>5. VenusStride(cf, w) = k * 256
    BY <1>1, <2>2, <2>3, <2>4 DEF VenusStride
  <2>6. StrideWidth(cf, w) = k * 192
    BY <1>1, <2>3, <2>5 DEF StrideWidth
  <2>7. k <= 64
    BY <2>1
  <2>8. UnitWidth(cf) = 192 /\ UnitBytes(cf) = 256
    BY <1>1 DEF UnitWidth, UnitBytes
  <2>. QED  BY <2>1, <2>5, <2>6, <2>7, <2>8
<1>2. CASE cf \in {"P010", "P010_UBWC"}
  <2> DEFINE k == (2 * w + 255) \div 256
  <2>1. /\ k \in Nat /\ (k * 256) \div 2 = k * 128
        /\ w <= k * 128 /\ k * 128 < w + 128
    OBVIOUS
  <2>2. AlignUp(2 * w, 256) = k * 256
    BY DEF AlignUp
  <2>. HIDE DEF k
  <2>3. VenusStride(cf, w) = k * 256
    BY <1>2, <2>2 DEF VenusStride
  <2>4. StrideWidth(cf, w) = k * 128
    BY <1>2, <2>1, <2>3 DEF StrideWidth
  <2>5. k <= 64
    BY <2>1
  <2>6. UnitWidth(cf) = 128 /\ UnitBytes(cf) = 256
    BY <1>2 DEF UnitWidth, UnitBytes
  <2>. QED  BY <2>1, <2>3, <2>4, <2>5, <2>6
<1>3. CASE cf \in {"NV12", "NV12_UBWC"}
  <2> DEFINE k == (w + 127) \div 128
  <2>1. k \in Nat /\ w <= k * 128 /\ k * 128 < w + 128
    OBVIOUS
  <2>2. AlignUp(w, 128) = k * 128
    BY DEF AlignUp
  <2>. HIDE DEF k
  <2>3. VenusStride(cf, w) = k * 128
    BY <1>3, <2>2 DEF VenusStride
  <2>4. StrideWidth(cf, w) = k * 128
    BY <1>3, <2>3 DEF StrideWidth
  <2>5. k <= 64
    BY <2>1
  <2>6. UnitWidth(cf) = 128 /\ UnitBytes(cf) = 128
    BY <1>3 DEF UnitWidth, UnitBytes
  <2>. QED  BY <2>1, <2>3, <2>4, <2>5, <2>6
<1>. QED  BY <1>1, <1>2, <1>3 DEF VenusFormats

\* There is a line for every row, and a line of chroma for every two.
LEMMA VenusRows ==
  ASSUME NEW cf \in VenusFormats, NEW h \in Nat, 1 <= h, h <= 8192
  PROVE  /\ VenusLines(cf, h) \in Nat /\ h <= VenusLines(cf, h) /\ VenusLines(cf, h) <= 8192
         /\ VenusChromaLines(cf, h) \in Nat
         /\ HalfUp(h) <= VenusChromaLines(cf, h) /\ VenusChromaLines(cf, h) <= 4096
<1>1. \A a \in {16, 32} : /\ AlignUp(h, a) \in Nat
                          /\ h <= AlignUp(h, a) /\ AlignUp(h, a) <= 8192
  BY DEF AlignUp
<1>2. \A a \in {16, 32} : /\ AlignUp(HalfUp(h), a) \in Nat
                          /\ HalfUp(h) <= AlignUp(HalfUp(h), a)
                          /\ AlignUp(HalfUp(h), a) <= 4096
  BY DEF AlignUp, HalfUp
<1>. QED  BY <1>1, <1>2 DEF VenusLines, VenusChromaLines

\* Tiles of t pixels that cover x of them.
Tiles(x, t) == (x + t - 1) \div t

\* Columns of tiles are padded to the unit of four tiles that the row is padded to,
\* for luma and for chroma of half the width ...
LEMMA TileColumns ==
  ASSUME NEW tw \in {32, 48}, NEW k \in Nat, NEW x \in Nat,
         x <= 4 * tw * k, 4 * tw * k < x + 4 * tw
  PROVE  /\ AlignUp(Tiles(x, tw), 64) = AlignUp(4 * k, 64)
         /\ AlignUp(Tiles(HalfUp(x), tw \div 2), 64) = AlignUp(4 * k, 64)
<1>1. CASE tw = 32
  BY <1>1 DEF Tiles, AlignUp, HalfUp
<1>2. CASE tw = 48
  BY <1>2 DEF Tiles, AlignUp, HalfUp
<1>. QED  BY <1>1, <1>2

\* ... and so are rows of tiles.
LEMMA TileRows ==
  ASSUME NEW th \in {4, 8}, NEW k \in Nat, NEW x \in Nat,
         x <= 4 * th * k, 4 * th * k < x + 4 * th
  PROVE  /\ AlignUp(Tiles(x, th), 16) = AlignUp(4 * k, 16)
         /\ AlignUp(Tiles(HalfUp(x), th), 16) = AlignUp(2 * k, 16)
<1>1. CASE th = 4
  BY <1>1 DEF Tiles, AlignUp, HalfUp
<1>2. CASE th = 8
  BY <1>2 DEF Tiles, AlignUp, HalfUp
<1>. QED  BY <1>1, <1>2

\* The VENUS_* macros give the same for dimensions that are aligned already: layouts
\* computed from aligned dimensions are those that sizes were computed from.
LEMMA VenusTwice ==
  ASSUME NEW cf \in {"NV12_UBWC", "P010_UBWC", "BPP10_UBWC"},
         NEW w \in Nat, 1 <= w, w <= 8192, NEW h \in Nat, 1 <= h, h <= 8192
  PROVE  LET aw == StrideWidth(cf, w)
             ah == VenusLines(cf, h)
         IN  /\ VenusStride(cf, aw) = VenusStride(cf, w)
             /\ VenusLines(cf, ah) = ah
             /\ VenusLumaMeta(cf, aw, ah) = VenusLumaMeta(cf, w, h)
             /\ VenusChromaMeta(cf, aw, ah) = VenusChromaMeta(cf, w, h)
<1> DEFINE aw == StrideWidth(cf, w)
           ah == VenusLines(cf, h)
           tw == TileWidth(cf)
           th == TileHeight(cf)
<1>1. cf \in VenusFormats
  BY DEF VenusFormats
<1>2. PICK k \in Nat :
        /\ w <= UnitWidth(cf) * k /\ UnitWidth(cf) * k < w + UnitWidth(cf)
        /\ StrideWidth(cf, w) = UnitWidth(cf) * k
        /\ VenusStride(cf, w) = UnitBytes(cf) * k
        /\ k <= 64
  <2>. HIDE DEF aw, ah, tw, th
  <2>. QED  BY <1>1, VenusUnits
<1>3. tw \in {32, 48} /\ UnitWidth(cf) = 4 * tw /\ UnitBytes(cf) \in Nat
  BY DEF UnitWidth, UnitBytes, TileWidth
<1>4. th \in {4, 8} /\ ah = AlignUp(h, 4 * th) /\ VenusLines(cf, ah) = AlignUp(ah, 4 * th)
  BY DEF TileHeight, VenusLines
<1>5. aw = 4 * tw * k /\ w <= 4 * tw * k /\ 4 * tw * k < w + 4 * tw
  BY <1>2, <1>3
<1> HIDE DEF aw, ah, tw, th
<1>6. \E m \in Nat : /\ ah = 4 * th * m /\ h <= 4 * th * m /\ 4 * th * m < h + 4 * th
                     /\ AlignUp(ah, 4 * th) = ah
  <2>1. CASE th = 4
    <3> DEFINE m == (h + 15) \div 16
    <3>1. m \in Nat /\ ah = 16 * m /\ h <= 16 * m /\ 16 * m < h + 16
      BY <1>4, <2>1 DEF AlignUp
    <3> HIDE DEF m
    <3>2. AlignUp(16 * m, 16) = 16 * m
      BY <3>1 DEF AlignUp
    <3>. QED  BY <2>1, <3>1, <3>2
  <2>2. CASE th = 8
    <3> DEFINE m == (h + 31) \div 32
    <3>1. m \in Nat /\ ah = 32 * m /\ h <= 32 * m /\ 32 * m < h + 32
      BY <1>4, <2>2 DEF AlignUp
    <3> HIDE DEF m
    <3>2. AlignUp(32 * m, 32) = 32 * m
      BY <3>1 DEF AlignUp
    <3>. QED  BY <2>2, <3>1, <3>2
  <2>. QED  BY <1>4, <2>1, <2>2
<1>7. PICK m \in Nat : /\ ah = 4 * th * m /\ h <= 4 * th * m /\ 4 * th * m < h + 4 * th
                       /\ AlignUp(ah, 4 * th) = ah
  BY <1>6
<1>8. VenusStride(cf, aw) = VenusStride(cf, w)
  <2>1. /\ AlignUp(192 * k, 192) = 192 * k /\ (192 * k * 4) \div 3 = 256 * k
        /\ AlignUp(256 * k, 256) = 256 * k
        /\ AlignUp(128 * k, 128) = 128 * k /\ 2 * (128 * k) = 256 * k
    BY DEF AlignUp
  <2>2. CASE cf = "BPP10_UBWC"
    <3>1. StrideWidth(cf, w) = 192 * k /\ VenusStride(cf, w) = 256 * k
      BY <1>2, <2>2 DEF UnitWidth, UnitBytes
    <3>2. VenusStride(cf, 192 * k) = 256 * k
      BY <2>1, <2>2 DEF VenusStride
    <3>. QED  BY <3>1, <3>2 DEF aw
  <2>3. CASE cf = "P010_UBWC"
    <3>1. StrideWidth(cf, w) = 128 * k /\ VenusStride(cf, w) = 256 * k
      BY <1>2, <2>3 DEF UnitWidth, UnitBytes
    <3>2. VenusStride(cf, 128 * k) = 256 * k
      BY <2>1, <2>3 DEF VenusStride
    <3>. QED  BY <3>1, <3>2 DEF aw
  <2>4. CASE cf = "NV12_UBWC"
    <3>1. StrideWidth(cf, w) = 128 * k /\ VenusStride(cf, w) = 128 * k
      BY <1>2, <2>4 DEF UnitWidth, UnitBytes
    <3>2. VenusStride(cf, 128 * k) = 128 * k
      BY <2>1, <2>4 DEF VenusStride
    <3>. QED  BY <3>1, <3>2 DEF aw
  <2>. QED  BY <2>2, <2>3, <2>4
<1>9. VenusLumaMeta(cf, aw, ah) = VenusLumaMeta(cf, w, h)
  <2>1. aw \in Nat /\ ah \in Nat
    BY <1>3, <1>4, <1>5, <1>7
  <2>2. AlignUp(Tiles(w, tw), 64) = AlignUp(Tiles(aw, tw), 64)
    <3>1. aw <= 4 * tw * k /\ 4 * tw * k < aw + 4 * tw
      BY <1>3, <1>5
    <3>2. AlignUp(Tiles(w, tw), 64) = AlignUp(4 * k, 64)
      BY <1>3, <1>5, TileColumns
    <3>3. AlignUp(Tiles(aw, tw), 64) = AlignUp(4 * k, 64)
      BY <1>3, <2>1, <3>1, TileColumns
    <3>. QED  BY <3>2, <3>3
  <2>3. AlignUp(Tiles(h, th), 16) = AlignUp(Tiles(ah, th), 16)
    <3>1. ah <= 4 * th * m /\ 4 * th * m < ah + 4 * th
      BY <1>4, <1>7
    <3>2. AlignUp(Tiles(h, th), 16) = AlignUp(4 * m, 16)
      BY <1>4, <1>7, TileRows
    <3>3. AlignUp(Tiles(ah, th), 16) = AlignUp(4 * m, 16)
      BY <1>4, <2>1, <3>1, TileRows
    <3>. QED  BY <3>2, <3>3
  <2>. QED  BY <2>2, <2>3 DEF VenusLumaMeta, VenusMeta, Tiles, tw, th
<1>10. VenusChromaMeta(cf, aw, ah) = VenusChromaMeta(cf, w, h)
  <2>1. aw \in Nat /\ ah \in Nat
    BY <1>3, <1>4, <1>5, <1>7
  <2>2. AlignUp(Tiles(HalfUp(w), tw \div 2), 64)
          = AlignUp(Tiles(HalfUp(aw), tw \div 2), 64)
    <3>1. aw <= 4 * tw * k /\ 4 * tw * k < aw + 4 * tw
      BY <1>3, <1>5
    <3>2. AlignUp(Tiles(HalfUp(w), tw \div 2), 64) = AlignUp(4 * k, 64)
      BY <1>3, <1>5, TileColumns
    <3>3. AlignUp(Tiles(HalfUp(aw), tw \div 2), 64) = AlignUp(4 * k, 64)
      BY <1>3, <2>1, <3>1, TileColumns
    <3>. QED  BY <3>2, <3>3
  <2>3. AlignUp(Tiles(HalfUp(h), th), 16) = AlignUp(Tiles(HalfUp(ah), th), 16)
    <3>1. ah <= 4 * th * m /\ 4 * th * m < ah + 4 * th
      BY <1>4, <1>7
    <3>2. AlignUp(Tiles(HalfUp(h), th), 16) = AlignUp(2 * m, 16)
      BY <1>4, <1>7, TileRows
    <3>3. AlignUp(Tiles(HalfUp(ah), th), 16) = AlignUp(2 * m, 16)
      BY <1>4, <2>1, <3>1, TileRows
    <3>. QED  BY <3>2, <3>3
  <2>. QED  BY <2>2, <2>3 DEF VenusChromaMeta, VenusMeta, Tiles, tw, th
<1>. QED  BY <1>4, <1>7, <1>8, <1>9, <1>10 DEF aw, ah

\* ALIGN goes up ...
LEMMA Rounds ==
  ASSUME NEW a \in {1, 16, 32, 64}, NEW x \in Nat
  PROVE  AlignUp(x, a) \in Nat /\ x <= AlignUp(x, a)
BY DEF AlignUp

\* ... and not beyond the largest dimension.
LEMMA RoundsBelow ==
  ASSUME NEW a \in {1, 16, 32, 64}, NEW x \in Nat, x <= 8192
  PROVE  AlignUp(x, a) <= 8192
BY DEF AlignUp

\* Aligned dimensions cover the raw ones, in every format, compressed or not.
LEMMA DimsCover ==
  ASSUME NEW format, NEW ubwc \in BOOLEAN, NEW w \in Nat, 1 <= w, w <= 8192,
         NEW h \in Nat, 1 <= h, h <= 8192
  PROVE  LET d == AlignedDims(format, ubwc, w, h)
         IN  /\ d[1] \in Nat /\ w <= d[1] /\ d[1] <= 16384
             /\ d[2] \in Nat /\ h <= d[2] /\ d[2] <= 8192
<1> DEFINE Covers(d) == /\ d[1] \in Nat /\ w <= d[1] /\ d[1] <= 16384
                        /\ d[2] \in Nat /\ h <= d[2] /\ d[2] <= 8192
<1>1. ASSUME NEW a \in {1, 16, 32, 64}, NEW c \in {1, 16, 32, 64}
      PROVE  Covers(<<AlignUp(w, a), AlignUp(h, c)>>)
  <2>1. AlignUp(w, a) \in Nat /\ w <= AlignUp(w, a) /\ AlignUp(w, a) <= 8192
    BY Rounds, RoundsBelow
  <2>2. AlignUp(h, c) \in Nat /\ h <= AlignUp(h, c) /\ AlignUp(h, c) <= 8192
    BY Rounds, RoundsBelow
  <2>. QED  BY <2>1, <2>2
<1>2. AlignUp(h, 1) = h /\ AlignUp(w, 1) = w
  BY DEF AlignUp
<1>3. ASSUME NEW cf \in VenusFormats
      PROVE  Covers(VenusDims(cf, w, h))
  <2>1. PICK k \in Nat : /\ w <= UnitWidth(cf) * k /\ UnitWidth(cf) * k < w + UnitWidth(cf)
                         /\ StrideWidth(cf, w) = UnitWidth(cf) * k
    BY VenusUnits
  <2>2. UnitWidth(cf) \in {128, 192}
    BY DEF UnitWidth
  <2>3. StrideWidth(cf, w) \in Nat /\ w <= StrideWidth(cf, w) /\ StrideWidth(cf, w) <= 16384
    BY <2>1, <2>2
  <2>. QED  BY <2>3, VenusRows DEF VenusDims
<1>4. Covers(RgbDims(format, ubwc, w, h))
  BY <1>1, <1>2 DEF RgbDims, AdrenoDims
<1>5. Covers(VenusDims(ColorFormat(format), w, h))
  <2>1. ColorFormat(format) \in VenusFormats
    BY DEF ColorFormat, VenusFormats
  <2>. QED  BY <1>3, <2>1
<1>6. Covers(LinearDims(format, w, h))
  <2>1. "NV12" \in VenusFormats /\ "P010" \in VenusFormats
    BY DEF VenusFormats
  <2>2. /\ Covers(<<AlignUp((w * 12) \div 8, 16), h>>)
        /\ Covers(<<AlignUp((w * 10) \div 8, 16), h>>)
    BY DEF AlignUp
  <2>3. \A a \in {16, 32, 64, GpuPixels} : Covers(<<AlignUp(w, a), h>>)
    BY <1>1, <1>2, FormatsAssumption
  <2>4. Covers(<<AlignUp(w, 64), AlignUp(h, 64)>>) /\ Covers(<<w, h>>)
    BY <1>1, <1>2
  <2> HIDE DEF Covers
  <2>. QED  BY <1>3, <2>1, <2>2, <2>3, <2>4 DEF LinearDims
<1> HIDE DEF Covers
<1>7. Covers(AlignedDims(format, ubwc, w, h))
  BY <1>4, <1>5, <1>6 DEF AlignedDims
<1>. QED  BY <1>7 DEF Covers

\* Products grow with their factors.
LEMMA Products ==
  ASSUME NEW a \in Nat, NEW b \in Nat, NEW A \in Nat, NEW B \in Nat, a <= A, b <= B
  PROVE  a * b \in Nat /\ a * b <= A * B
<1>1. (A - a) * b >= 0 /\ A * (B - b) >= 0
  OBVIOUS
<1>2. a * b <= A * b /\ A * b <= A * B
  BY <1>1
<1>. QED  BY <1>2

\* A size is rounded up by less than a page.
LEMMA Pages ==
  ASSUME NEW x \in Nat
  PROVE  Page(x) \in Nat /\ x <= Page(x) /\ Page(x) <= x + 4096
BY DEF Page, AlignUp

\* The metadata of one plane, ...
LEMMA MetaFits ==
  ASSUME NEW tw \in {16, 24, 32, 48}, NEW th \in {4, 8},
         NEW x \in Nat, x <= 8192, NEW y \in Nat, y <= 8192
  PROVE  VenusMeta(tw, th, x, y) \in Nat /\ VenusMeta(tw, th, x, y) <= 67112960
<1> DEFINE a == AlignUp((x + tw - 1) \div tw, 64)
           b == AlignUp((y + th - 1) \div th, 16)
<1>1. a \in Nat /\ a <= 8192
  BY DEF AlignUp
<1>2. b \in Nat /\ b <= 8192
  BY DEF AlignUp
<1>. HIDE DEF a, b
<1>3. a * b \in Nat /\ a * b <= 8192 * 8192
  BY <1>1, <1>2, Products
<1>4. Page(a * b) \in Nat /\ Page(a * b) <= 67112960
  BY <1>3, Pages
<1>. QED  BY <1>4 DEF VenusMeta, a, b

\* The metadata of both planes, ...
LEMMA VenusMetaFits ==
  ASSUME NEW cf \in VenusFormats, NEW w \in Nat, 1 <= w, w <= 8192,
         NEW h \in Nat, 1 <= h, h <= 8192
  PROVE  /\ VenusLumaMeta(cf, w, h) \in Nat /\ VenusLumaMeta(cf, w, h) <= 67112960
         /\ VenusChromaMeta(cf, w, h) \in Nat /\ VenusChromaMeta(cf, w, h) <= 67112960
<1>1. VenusLumaMeta(cf, w, h) \in Nat /\ VenusLumaMeta(cf, w, h) <= 67112960
  <2>1. TileWidth(cf) \in {16, 24, 32, 48} /\ TileHeight(cf) \in {4, 8}
    BY DEF TileWidth, TileHeight
  <2>. QED  BY <2>1, MetaFits DEF VenusLumaMeta
<1>2. VenusChromaMeta(cf, w, h) \in Nat /\ VenusChromaMeta(cf, w, h) <= 67112960
  <2>1. TileWidth(cf) \div 2 \in {16, 24, 32, 48} /\ TileHeight(cf) \in {4, 8}
    BY DEF TileWidth, TileHeight
  <2>2. /\ HalfUp(w) \in Nat /\ HalfUp(w) <= 8192
        /\ HalfUp(h) \in Nat /\ HalfUp(h) <= 8192
    BY DEF HalfUp
  <2> DEFINE tw == TileWidth(cf) \div 2
             size == VenusMeta(tw, TileHeight(cf), HalfUp(w), HalfUp(h))
  <2>3. size \in Nat /\ size <= 67112960
    BY <2>1, <2>2, MetaFits
  <2>. QED  BY <2>3 DEF VenusChromaMeta
<1>. QED  BY <1>1, <1>2

\* ... and all that the macros add up, are far from the bound.
LEMMA VenusFits ==
  ASSUME NEW cf \in VenusFormats, NEW w \in Nat, 1 <= w, w <= 8192,
         NEW h \in Nat, 1 <= h, h <= 8192
  PROVE  VenusSize(cf, w, h) \in Nat /\ VenusSize(cf, w, h) <= 400000000
<1>1. VenusStride(cf, w) \in Nat /\ VenusStride(cf, w) <= 16384
  <2>1. PICK k \in Nat : VenusStride(cf, w) = UnitBytes(cf) * k /\ k <= 64
    BY VenusUnits
  <2>2. UnitBytes(cf) \in {128, 256}
    BY DEF UnitBytes
  <2>. QED  BY <2>1, <2>2
<1>2. VenusLuma(cf, w, h) \in Nat /\ VenusLuma(cf, w, h) <= 16384 * 8192
  BY <1>1, VenusRows, Products DEF VenusLuma
<1>3. VenusChroma(cf, w, h) \in Nat /\ VenusChroma(cf, w, h) <= 16384 * 4096
  BY <1>1, VenusRows, Products DEF VenusChroma
<1>4. /\ VenusLumaMeta(cf, w, h) \in Nat /\ VenusLumaMeta(cf, w, h) <= 67112960
      /\ VenusChromaMeta(cf, w, h) \in Nat /\ VenusChromaMeta(cf, w, h) <= 67112960
  BY VenusMetaFits
<1>5. /\ Page(VenusLuma(cf, w, h)) \in Nat /\ Page(VenusLuma(cf, w, h)) <= 134221824
      /\ Page(VenusChroma(cf, w, h)) \in Nat /\ Page(VenusChroma(cf, w, h)) <= 67112960
  BY <1>2, <1>3, Pages
<1>6. /\ Page(VenusLuma(cf, w, h) + VenusChroma(cf, w, h)) \in Nat
      /\ Page(VenusLuma(cf, w, h) + VenusChroma(cf, w, h)) <= 400000000
  <2> DEFINE x == VenusLuma(cf, w, h) + VenusChroma(cf, w, h)
  <2>1. x \in Nat /\ x <= 201326592
    BY <1>2, <1>3
  <2>2. Page(x) \in Nat /\ Page(x) <= x + 4096
    BY <2>1, Pages
  <2>. QED  BY <2>1, <2>2
<1>. QED  BY <1>4, <1>5, <1>6 DEF VenusSize

\* So no size wraps around.
LEMMA SizesFit ==
  ASSUME NEW format, NEW w \in Nat, 1 <= w, w <= 8192, NEW h \in Nat, 1 <= h, h <= 8192,
         NEW aw \in Nat, aw <= 16384, NEW ah \in Nat, ah <= 8192
  PROVE  /\ UbwcSize(format, w, h, aw, ah) \in Nat
         /\ UbwcSize(format, w, h, aw, ah) <= 2147483647
         /\ LinearSize(format, w, h, aw, ah) \in Nat
         /\ LinearSize(format, w, h, aw, ah) <= 2147483647
<1>1. aw * ah \in Nat /\ aw * ah <= 16384 * 8192
  BY Products
<1> DEFINE area == aw * ah
           Fits(size) == size \in Nat /\ size <= 2147483647
<1>2. area \in Nat /\ area <= 134217728
  BY <1>1
<1> HIDE DEF area
<1>3. \A n \in 0 .. 4 : area * n \in Nat /\ area * n <= 536870912
  BY <1>2
<1>4. ASSUME NEW size \in Nat, size <= 536870913 PROVE Fits(Page(size))
  BY <1>4, Pages
<1>5. \A cf \in VenusFormats : Fits(VenusSize(cf, w, h))
  BY VenusFits
<1>6. Fits(UbwcSize(format, w, h, aw, ah))
  <2>1. RgbMetaSize(w, h) \in Nat /\ RgbMetaSize(w, h) <= 67112960
    <3> DEFINE a == AlignUp((w + 15) \div 16, 64)
               b == AlignUp((h + 3) \div 4, 16)
    <3>1. a \in Nat /\ a <= 8192
      BY DEF AlignUp
    <3>2. b \in Nat /\ b <= 8192
      BY DEF AlignUp
    <3> HIDE DEF a, b
    <3>3. a * b \in Nat /\ a * b <= 8192 * 8192
      BY <3>1, <3>2, Products
    <3>4. Page(a * b) \in Nat /\ Page(a * b) <= 67112960
      BY <3>3, Pages
    <3>. QED  BY <3>4 DEF RgbMetaSize, a, b
  <2>2. UbwcBpp(format) \in 0 .. 4
    BY DEF UbwcBpp
  <2>3. Fits(area * UbwcBpp(format) + RgbMetaSize(w, h))
    BY <1>3, <2>1, <2>2
  <2>4. ColorFormat(format) \in VenusFormats
    BY DEF ColorFormat, VenusFormats
  <2>5. Fits(0)
    OBVIOUS
  <2> HIDE DEF Fits
  <2>. QED  BY <1>5, <2>3, <2>4, <2>5 DEF UbwcSize, area
<1>7. Fits(LinearSize(format, w, h, aw, ah))
  <2>1. /\ Fits(area * GetFormatBpp(format)) /\ Fits(area * 2) /\ Fits(area)
        /\ Fits(0) /\ Fits(w)
    <3>1. GetFormatBpp(format) \in 0 .. 4
      BY DEF GetFormatBpp
    <3>. QED  BY <1>2, <1>3, <3>1
  <2>2. /\ Fits(Page(area)) /\ Fits(Page(area + area \div 2 + 1))
        /\ Fits(Page(area * 3 + 1)) /\ Fits(Page(area + area \div 2))
    <3>1. /\ area + area \div 2 + 1 \in Nat /\ area + area \div 2 + 1 <= 536870913
          /\ area * 3 + 1 \in Nat /\ area * 3 + 1 <= 536870913
          /\ area + area \div 2 \in Nat /\ area + area \div 2 <= 536870913
          /\ area <= 536870913
      BY <1>2
    <3> HIDE DEF Fits
    <3>. QED  BY <1>2, <1>4, <3>1
  <2>3. "NV12" \in VenusFormats /\ "P010" \in VenusFormats
    BY DEF VenusFormats
  <2> HIDE DEF Fits
  <2>. QED  BY <1>5, <2>1, <2>2, <2>3 DEF LinearSize, area
<1>. QED  BY <1>6, <1>7

-----------------------------------------------------------------------------
(* Buffers.                                                                *)

\* What this says of the dimensions of a buffer ...
LEMMA BufferDims ==
  ASSUME NEW b, Described(b)
  PROVE  /\ b.aw \in Nat /\ b.w <= b.aw /\ b.aw <= 16384
         /\ b.ah \in Nat /\ b.h <= b.ah /\ b.ah <= 8192
<1> DEFINE d == AlignedDims(b.format, IsUbwcEnabled(b.format, b.usage), b.w, b.h)
<1>1. b.aw = d[1] /\ b.ah = d[2]
  BY DEF Described, Describe
<1>2. IsUbwcEnabled(b.format, b.usage) \in BOOLEAN
  BY DEF IsUbwcEnabled
<1>3. /\ b.w \in Nat /\ 1 <= b.w /\ b.w <= 8192
      /\ b.h \in Nat /\ 1 <= b.h /\ b.h <= 8192
  BY DEF Described
<1>. QED  BY <1>1, <1>2, <1>3, DimsCover

\* ... and which of the two sums its size is.
LEMMA BufferSize ==
  ASSUME NEW b, Described(b)
  PROVE  b.size = IF IsUbwcEnabled(b.format, b.usage)
                  THEN UbwcSize(b.format, b.w, b.h, b.aw, b.ah)
                  ELSE LinearSize(b.format, b.w, b.h, b.aw, b.ah)
BY DEF Described, Describe

\* Every buffer has a definite format, dimensions that cover what was asked for, and a
\* size between one byte and what 32 bits can count.
THEOREM TypeCorrect == Spec => []TypeOK
<1>1. ASSUME NEW b, Described(b)
      PROVE  /\ b.format \in Supported \ ImplDefined
             /\ b.w <= b.aw /\ b.h <= b.ah
             /\ b.size \in 1 .. MaxBytes
  <2>1. /\ b.w \in Nat /\ 1 <= b.w /\ b.w <= 8192
        /\ b.h \in Nat /\ 1 <= b.h /\ b.h <= 8192
        /\ b.size > 0 /\ b.format \in Supported \ ImplDefined
    BY <1>1 DEF Described
  <2>2. /\ b.aw \in Nat /\ b.w <= b.aw /\ b.aw <= 16384
        /\ b.ah \in Nat /\ b.h <= b.ah /\ b.ah <= 8192
    BY <1>1, BufferDims
  <2>3. b.size \in Nat /\ b.size <= 2147483647
    BY <1>1, <2>1, <2>2, BufferSize, SizesFit
  <2>4. b.size \in 1 .. MaxBytes
    <3>1. MaxBytes \in Nat /\ b.size <= MaxBytes
      BY <2>3 DEF MaxBytes
    <3>. QED  BY <2>1, <2>3, <3>1
  <2>. QED  BY <2>1, <2>2, <2>4
<1>2. FormatsInv => Cardinality(bufs) <= 1 /\ Cardinality(views) <= Cardinality(bufs)
  <2> SUFFICES ASSUME FormatsInv
               PROVE  Cardinality(bufs) <= 1 /\ Cardinality(views) <= Cardinality(bufs)
    OBVIOUS
  <2>1. CASE bufs = {}
    <3>1. views = {}
      BY <2>1 DEF FormatsInv
    <3>. QED  BY <2>1, <3>1, FS_EmptySet
  <2>2. CASE bufs # {}
    <3>1. PICK b : bufs = {b}
      BY <2>2 DEF FormatsInv
    <3>2. Cardinality(bufs) = 1
      BY <3>1, FS_Singleton, Zenon
    <3>3. CASE views = {}
      BY <3>2, <3>3, FS_EmptySet
    <3>4. CASE views # {}
      <4>1. PICK v : views = {v}
        BY <3>4 DEF FormatsInv
      <4>. QED  BY <3>2, <4>1, FS_Singleton
    <3>. QED  BY <3>3, <3>4
  <2>. QED  BY <2>1, <2>2
<1>3. FormatsInv => \A b \in bufs : Described(b)
  BY DEF FormatsInv
<1>4. FormatsInv => TypeOK
  BY <1>1, <1>2, <1>3 DEF TypeOK
<1>. QED  BY <1>4, FormatsAlways, PTL

-----------------------------------------------------------------------------
(* Compression.                                                            *)

\* Importers ask neither for compression nor for CPU writes of their own accord.
PlainImporters == ImportFlags \cap {"UBWC", "WRITE"} = {}

\* The usage an importer ends up with enables compression if and only if the
\* buffer has it.
LEMMA SameCompression ==
  ASSUME PlainImporters, NEW b, NEW v, Described(b), Viewed(b, v),
         Informed(b, v), GpuReads(b)
  PROVE  IsUbwcEnabled(b.format, v.usage) = IsUbwcEnabled(b.format, b.usage)
<1>1. b.ubwc = IsUbwcEnabled(b.format, b.usage)
  BY DEF Described
<1>2. PICK usage \in SUBSET ImportFlags :
        v.usage = (IF v.path = "fdmod" THEN ModifierUsage(b) ELSE usage)
                    \cup LearntUsage(b, v.path, v.knows)
  BY DEF Viewed
<1>3. "UBWC" \notin usage /\ "WRITE" \notin usage
  BY DEF PlainImporters
<1>4. "WRITE" \notin v.usage
  BY <1>2, <1>3 DEF ModifierUsage, LearntUsage
<1>5. CASE b.ubwc
  <2>1. "UBWC" \in v.usage
    BY <1>2, <1>5 DEF Informed, ModifierUsage, LearntUsage
  <2>2. IsUbwcEnabled(b.format, v.usage)
    BY <1>1, <1>4, <1>5, <2>1 DEF IsUbwcEnabled, GpuReads
  <2>. QED  BY <1>1, <1>5, <2>2 DEF IsUbwcEnabled
<1>6. CASE ~b.ubwc
  <2>1. "UBWC" \notin v.usage
    BY <1>2, <1>3, <1>6 DEF ModifierUsage, LearntUsage
  <2>2. IsUbwcEnabled(b.format, v.usage) <=> b.format \in UbwcOnly
    BY <2>1 DEF IsUbwcEnabled
  <2>3. b.format \notin UbwcOnly
    BY <1>1, <1>6 DEF IsUbwcEnabled
  <2>. QED  BY <1>1, <1>6, <2>2, <2>3 DEF IsUbwcEnabled
<1>. QED  BY <1>1, <1>5, <1>6 DEF IsUbwcEnabled

\* Whatever its size and format, an importer that is told of a buffer's compression
\* computes the dimensions, stride and size that the allocator computed.
THEOREM ImportersAlwaysAgree == ASSUME PlainImporters PROVE Spec => []ImportersAgree
<1>1. FormatsInv => ImportersAgree
  <2> SUFFICES ASSUME FormatsInv, NEW b \in bufs, NEW v \in views,
                      Informed(b, v), GpuReads(b)
               PROVE  <<v.aw, v.ah, v.stride, v.size>> = <<b.aw, b.ah, b.stride, b.size>>
    BY DEF ImportersAgree
  <2>1. Described(b) /\ Viewed(b, v)
    BY DEF FormatsInv
  <2>2. IsUbwcEnabled(b.format, v.usage) = IsUbwcEnabled(b.format, b.usage)
    BY <2>1, SameCompression
  <2>3. Describe(b.format, v.usage, b.w, b.h) = Describe(b.format, b.usage, b.w, b.h)
    BY <2>2 DEF Describe
  <2>. QED  BY <2>1, <2>3 DEF Described, Viewed
<1>. QED  BY <1>1, FormatsAlways, PTL

\* In the formats the two queries share, they lay out what is not compressed, and
\* TP10, alike.
LEMMA PlanesMatch ==
  ASSUME NEW b, Described(b), b.format \in HasPlanes \cap HasLayout,
         ~(b.format = "NV12" /\ b.ubwc)
  PROVE  BufLayout(b.format, b.aw, b.ah) = Planes(b.format, b.usage, b.aw, b.ah)
<1>1. b.format \in PlainSp \cup Nv12 \cup {"YCbCr_420_TP10_UBWC", "P010"}
  BY DEF HasPlanes, HasLayout, Rgb, Bytes4, Bytes3, Bytes2, PlainSp, Nv12, UbwcOnly
<1>2. b.format \notin Rgb
  BY <1>1 DEF Rgb, Bytes4, Bytes3, Bytes2, PlainSp, Nv12
<1>3. CASE b.format = "YCbCr_420_TP10_UBWC"
  BY <1>2, <1>3 DEF BufLayout, Planes, IsUbwcEnabled, UbwcOnly, ColorFormat
<1>4. CASE b.format # "YCbCr_420_TP10_UBWC"
  <2>1. ~IsUbwcEnabled(b.format, b.usage)
    BY <1>1, <1>4 DEF Described, IsUbwcEnabled, UbwcOnly, UbwcCapable, PlainSp, Nv12
  <2>. QED  BY <1>2, <1>4, <2>1 DEF BufLayout, Planes, SampleBytes
<1>. QED  BY <1>3, <1>4

\* A linear RGB buffer has its pixels' bytes.
LEMMA RgbLinearSize ==
  ASSUME NEW format \in Rgb, NEW w, NEW h, NEW aw, NEW ah
  PROVE  LinearSize(format, w, h, aw, ah) = aw * ah * GetFormatBpp(format)
BY DEF LinearSize, Rgb, Bytes4, Bytes3, Bytes2, PlainSp, Nv12

\* The rows of a linear RGB buffer fill it.
LEMMA RowsFill ==
  ASSUME NEW b, Described(b), b.format \in Rgb, ~b.ubwc
  PROVE  LET l == BufLayout(b.format, b.aw, b.ah)
         IN  l.ystride = b.stride /\ l.y + l.ystride * b.ah = b.size
<1>1. b.aw \in Int /\ b.ah \in Int
  BY BufferDims
<1>2. GetFormatBpp(b.format) \in 1 .. 4
  BY DEF GetFormatBpp
<1>3. b.stride = b.aw * GetFormatBpp(b.format)
  BY DEF Described, Describe
<1>4. b.size = b.aw * b.ah * GetFormatBpp(b.format)
  <2>1. LinearSize(b.format, b.w, b.h, b.aw, b.ah) = b.aw * b.ah * GetFormatBpp(b.format)
    BY RgbLinearSize
  <2>2. b.size = LinearSize(b.format, b.w, b.h, b.aw, b.ah)
    BY DEF Described, Describe
  <2>. QED  BY <2>1, <2>2
<1>5. \A x, y \in Int, n \in 1 .. 4 : 0 + x * n * y = x * y * n
  OBVIOUS
<1>6. BufLayout(b.format, b.aw, b.ah) = [y |-> 0, ystride |-> b.stride]
  BY <1>3 DEF BufLayout, Rgb, Bytes4, Bytes3, Bytes2
<1>7. 0 + b.stride * b.ah = b.size
  BY <1>1, <1>2, <1>3, <1>4, <1>5
<1>. QED  BY <1>6, <1>7

\* Allocator and importers find luma and chroma in the same places, whichever of
\* the two layout queries they ask, for every size.
THEOREM LayoutsAlwaysAgree == ASSUME PlainImporters PROVE Spec => []LayoutsAgree
<1>1. ASSUME FormatsInv, NEW b \in bufs, b.format \in HasPlanes, NEW v \in views,
             Informed(b, v)
      PROVE  Planes(b.format, v.usage, v.aw, v.ah) = Planes(b.format, b.usage, b.aw, b.ah)
  <2>1. Described(b) /\ Viewed(b, v)
    BY <1>1 DEF FormatsInv
  <2>2. GpuReads(b)
    BY <1>1 DEF GpuReads, HasPlanes, UbwcCapable, PlainSp, Nv12, UbwcOnly
  <2>3. IsUbwcEnabled(b.format, v.usage) = IsUbwcEnabled(b.format, b.usage)
    BY <1>1, <2>1, <2>2, SameCompression
  <2>4. v.aw = b.aw /\ v.ah = b.ah
    BY <2>1, <2>3 DEF Described, Viewed, Describe
  <2>. QED  BY <2>3, <2>4 DEF Planes
<1>2. FormatsInv => LayoutsAgree
  BY <1>1, PlanesMatch, RowsFill DEF FormatsInv, LayoutsAgree
<1>. QED  BY <1>2, FormatsAlways, PTL

-----------------------------------------------------------------------------
(* Protection.                                                             *)

\* No process has a CPU address of a buffer asked for as protected.
THEOREM ProtectedAlwaysHidden == Spec => []ProtectedHidden
<1>1. FormatsInv => ProtectedHidden
  <2> SUFFICES ASSUME FormatsInv, NEW b \in bufs, "PROTECTED" \in b.usage
               PROVE  ~b.mapped /\ \A v \in views : ~v.mapped
    BY DEF ProtectedHidden
  <2>1. Described(b) /\ \A v \in views : Viewed(b, v)
    BY DEF FormatsInv
  <2>2. "SECURE" \in b.ion
    BY <2>1 DEF Described, GetIonAllocFlags, DefaultIonFlags
  <2>3. b.mapped = ("SECURE" \notin b.ion) /\ b.secure = ("PROTECTED" \in b.usage)
    BY <2>1 DEF Described
  <2>4. \A v \in views : v.mapped => ~b.secure
    BY <2>1 DEF Viewed
  <2>. QED  BY <2>2, <2>3, <2>4
<1>. QED  BY <1>1, FormatsAlways, PTL

\* A content protection flag comes with the heap it belongs to, for every usage.
LEMMA HeapsForFlags ==
  ASSUME NEW usage, NEW cp \in GetIonAllocFlags(usage) \ {"SECURE"}
  PROVE  HeapOf(cp) \in GetIonHeapId(usage)
<1>1. CASE cp \in DefaultIonFlags(usage)
  BY <1>1 DEF DefaultIonFlags, GetIonHeapId, DefaultHeap, HeapOf
<1>2. CASE cp \notin DefaultIonFlags(usage)
  <2>1. CameraProtected(usage)
    BY <1>2 DEF GetIonAllocFlags
  <2>2. cp \in {"CP_CAMERA_PREVIEW", "CP_CAMERA"}
    BY <1>2, <2>1 DEF GetIonAllocFlags
  <2>. QED  BY <2>1, <2>2 DEF GetIonHeapId, CameraHeaps, HeapOf
<1>. QED  BY <1>1, <1>2

\* So a buffer flagged for protected content may come from the heap for it.
THEOREM FlagsAlwaysMatch == Spec => []FlagsMatchHeaps
<1>1. FormatsInv => FlagsMatchHeaps
  BY HeapsForFlags DEF FormatsInv, Described, FlagsMatchHeaps
<1>. QED  BY <1>1, FormatsAlways, PTL

-----------------------------------------------------------------------------
(* Pixels and planes.                                                      *)

\* The metadata in front of compressed pixels is as large for aligned dimensions as for
\* raw ones.
LEMMA SameRgbMeta ==
  ASSUME NEW w \in Nat, NEW h \in Nat
  PROVE  RgbMetaSize(AlignUp(w, 64), AlignUp(h, 16)) = RgbMetaSize(w, h)
<1>1. AlignUp((AlignUp(w, 64) + 15) \div 16, 64) = AlignUp((w + 15) \div 16, 64)
  BY DEF AlignUp
<1>2. AlignUp((AlignUp(h, 16) + 3) \div 4, 16) = AlignUp((h + 3) \div 4, 16)
  BY DEF AlignUp
<1>. QED  BY <1>1, <1>2 DEF RgbMetaSize

\* For every size, the pixels of an RGB buffer end where the buffer ends, wherever they
\* begin.
THEOREM RgbDataAlwaysFits == Spec => []RgbDataFits
<1>1. ASSUME NEW b, Described(b), b.format \in Rgb
      PROVE  RgbDataOffset(b) + b.aw * b.ah * GetFormatBpp(b.format) = b.size
  <2> DEFINE bytes == b.aw * b.ah * GetFormatBpp(b.format)
  <2>1. bytes \in Nat
    <3>1. b.aw \in Nat /\ b.ah \in Nat
      BY <1>1, BufferDims
    <3>2. GetFormatBpp(b.format) \in Nat
      BY DEF GetFormatBpp
    <3>. QED  BY <3>1, <3>2
  <2>2. CASE ~b.ubwc
    <3>1. b.size = LinearSize(b.format, b.w, b.h, b.aw, b.ah)
      BY <1>1, <2>2, BufferSize DEF Described
    <3>2. b.size = bytes
      BY <1>1, <3>1, RgbLinearSize
    <3>3. RgbDataOffset(b) = 0
      BY <2>2 DEF RgbDataOffset
    <3> HIDE DEF bytes
    <3>4. RgbDataOffset(b) + bytes = b.size
      BY <2>1, <3>2, <3>3
    <3>. QED  BY <3>4 DEF bytes
  <2>3. CASE b.ubwc
    <3>1. b.size = UbwcSize(b.format, b.w, b.h, b.aw, b.ah) /\ b.size > 0
      <4>1. IsUbwcEnabled(b.format, b.usage) /\ b.size > 0
        BY <1>1, <2>3 DEF Described
      <4>. QED  BY <1>1, <4>1, BufferSize
    <3>2. b.format \in MetaSized
      BY <1>1, <3>1 DEF UbwcSize, UbwcOnly, Rgb, Bytes4, Bytes3, Bytes2
    <3>3. UbwcBpp(b.format) = GetFormatBpp(b.format)
      BY <3>2 DEF MetaSized, UbwcBpp, GetFormatBpp, Bytes4, Bytes3, Bytes2
    <3>4. b.size = bytes + RgbMetaSize(b.w, b.h)
      BY <3>1, <3>2, <3>3 DEF UbwcSize, MetaSized, UbwcOnly
    <3>5. RgbMetaSize(b.aw, b.ah) = RgbMetaSize(b.w, b.h)
      <4>1. <<b.aw, b.ah>> = RgbDims(b.format, TRUE, b.w, b.h)
        BY <1>1, <2>3 DEF Described, Describe, AlignedDims, RgbDims, AdrenoDims
      <4>2. b.format \in GpuKnown
        BY <3>2 DEF MetaSized, GpuKnown, Rgb, Bytes4, Bytes3, Bytes2
      <4>3. \/ b.aw = b.w /\ b.ah = b.h
            \/ b.aw = AlignUp(b.w, 64) /\ b.ah = AlignUp(b.h, 16)
        BY <4>1, <4>2 DEF RgbDims, AdrenoDims
      <4>4. b.w \in Nat /\ b.h \in Nat
        BY <1>1 DEF Described
      <4>. QED  BY <4>3, <4>4, SameRgbMeta
    <3>6. RgbMetaSize(b.w, b.h) \in Nat
      <4>1. b.w \in Nat /\ b.h \in Nat
        BY <1>1 DEF Described
      <4>. QED  BY <4>1 DEF RgbMetaSize, Page, AlignUp
    <3>7. RgbDataOffset(b) = RgbMetaSize(b.w, b.h)
      BY <2>3, <3>5 DEF RgbDataOffset
    <3> HIDE DEF bytes
    <3>8. RgbDataOffset(b) + bytes = b.size
      BY <2>1, <3>4, <3>6, <3>7
    <3>. QED  BY <3>8 DEF bytes
  <2>. QED  BY <1>1, <2>2, <2>3 DEF Described, IsUbwcEnabled
<1>2. FormatsInv => RgbDataFits
  BY <1>1 DEF FormatsInv, RgbDataFits
<1>. QED  BY <1>2, FormatsAlways, PTL

\* What PlanesFit says of a buffer whose planes are p.
Fit(b, p) ==
  /\ p.ystride >= RowBytes(b) /\ p.uvstride >= RowBytes(b)
  /\ p.y + p.ystride * b.h <= p.uv
  /\ p.uv + p.uvstride * HalfUp(b.h) <= b.size

\* The layouts of compressed buffers, which repeat the sum that is their size.
LEMMA CompressedFits ==
  ASSUME NEW b, Described(b), b.format \in UbwcOnly \cup {"NV12"}, b.ubwc
  PROVE  Fit(b, Planes(b.format, b.usage, b.aw, b.ah))
<1> DEFINE cf == ColorFormat(b.format)
           S == VenusStride(cf, b.w)
           chroma == VenusChromaLines(cf, b.h)
           luma_meta == VenusLumaMeta(cf, b.w, b.h)
           chroma_meta == VenusChromaMeta(cf, b.w, b.h)
<1>1. /\ b.w \in Nat /\ 1 <= b.w /\ b.w <= 8192
      /\ b.h \in Nat /\ 1 <= b.h /\ b.h <= 8192
  BY DEF Described
<1>2. IsUbwcEnabled(b.format, b.usage) /\ b.format \notin Rgb
  <2>1. IsUbwcEnabled(b.format, b.usage)
    BY DEF Described
  <2>. QED  BY <2>1 DEF UbwcOnly, Rgb, Bytes4, Bytes3, Bytes2
<1>3. cf \in {"NV12_UBWC", "P010_UBWC", "BPP10_UBWC"} /\ cf \in VenusFormats
  BY DEF ColorFormat, VenusFormats
<1>4. b.aw = StrideWidth(cf, b.w) /\ b.ah = VenusLines(cf, b.h)
  BY <1>2 DEF Described, Describe, AlignedDims, VenusDims
<1>5. b.size = luma_meta + Page(VenusLuma(cf, b.w, b.h))
                 + chroma_meta + Page(VenusChroma(cf, b.w, b.h))
  <2>1. b.size = UbwcSize(b.format, b.w, b.h, b.aw, b.ah)
    BY <1>2, BufferSize
  <2>2. b.format \notin MetaSized
    BY DEF MetaSized, UbwcOnly
  <2>3. b.size = VenusSize(cf, b.w, b.h)
    BY <2>1, <2>2 DEF UbwcSize
  <2>. QED  BY <1>3, <2>3 DEF VenusSize
<1>6. /\ VenusStride(cf, b.aw) = S /\ VenusLines(cf, b.ah) = b.ah
      /\ VenusLumaMeta(cf, b.aw, b.ah) = luma_meta
      /\ VenusChromaMeta(cf, b.aw, b.ah) = chroma_meta
  <2> HIDE DEF cf, S, luma_meta, chroma_meta
  <2>. QED  BY <1>1, <1>3, <1>4, VenusTwice DEF S, luma_meta, chroma_meta
<1>7. Planes(b.format, b.usage, b.aw, b.ah) =
        [y |-> luma_meta, uv |-> luma_meta + Page(S * b.ah) + chroma_meta,
         ystride |-> S, uvstride |-> S]
  BY <1>2, <1>6 DEF Planes, UbwcPlanes, VenusLuma
<1>8. S \in Nat /\ S >= RowBytes(b)
  <2>1. PICK k \in Nat : /\ StrideWidth(cf, b.w) = UnitWidth(cf) * k
                         /\ S = UnitBytes(cf) * k
    <3> HIDE DEF cf
    <3>. QED  BY <1>1, <1>3, VenusUnits
  <2>2. CASE b.format = "YCbCr_420_TP10_UBWC"
    <3>1. b.aw = 192 * k /\ S = 256 * k
      BY <1>4, <2>1, <2>2 DEF ColorFormat, UnitWidth, UnitBytes
    <3>2. RowBytes(b) = (192 * k * 4) \div 3
      BY <2>2, <3>1 DEF RowBytes
    <3>3. (192 * k * 4) \div 3 = 256 * k /\ 256 * k \in Nat
      OBVIOUS
    <3>. QED  BY <3>1, <3>2, <3>3
  <2>3. CASE b.format = "YCbCr_420_P010_UBWC"
    <3>1. b.aw = 128 * k /\ S = 256 * k
      BY <1>4, <2>1, <2>3 DEF ColorFormat, UnitWidth, UnitBytes
    <3>2. RowBytes(b) = 128 * k * 2
      BY <2>3, <3>1 DEF RowBytes
    <3>. QED  BY <3>1, <3>2
  <2>4. CASE b.format \in {"YCbCr_420_SP_VENUS_UBWC", "NV12"}
    <3>1. b.aw = 128 * k /\ S = 128 * k
      BY <1>4, <2>1, <2>4 DEF ColorFormat, UnitWidth, UnitBytes
    <3>2. RowBytes(b) = 128 * k
      BY <2>4, <3>1 DEF RowBytes
    <3>. QED  BY <3>1, <3>2
  <2>. QED  BY <2>2, <2>3, <2>4 DEF UbwcOnly
<1>9. /\ b.ah \in Nat /\ b.h <= b.ah
      /\ chroma \in Nat /\ HalfUp(b.h) \in Nat /\ HalfUp(b.h) <= chroma
  <2>1. HalfUp(b.h) \in Nat
    BY <1>1 DEF HalfUp
  <2> HIDE DEF cf
  <2>. QED  BY <1>1, <1>3, <1>4, <2>1, VenusRows
<1>10. luma_meta \in Nat /\ chroma_meta \in Nat
  <2> HIDE DEF cf
  <2>. QED  BY <1>1, <1>3, VenusMetaFits
<1> HIDE DEF cf, S, chroma, luma_meta, chroma_meta
<1>11. S * b.h <= Page(S * b.ah) /\ Page(S * b.ah) \in Nat
  <2>1. S * b.h <= S * b.ah /\ S * b.ah \in Nat
    BY <1>1, <1>8, <1>9, Products
  <2>. QED  BY <1>1, <1>8, <2>1, Pages
<1>12. S * HalfUp(b.h) <= Page(S * chroma) /\ Page(S * chroma) \in Nat
  <2>1. S * HalfUp(b.h) <= S * chroma /\ S * chroma \in Nat
    BY <1>8, <1>9, Products
  <2>. QED  BY <1>8, <1>9, <2>1, Pages
<1>13. b.size = luma_meta + Page(S * b.ah) + chroma_meta + Page(S * chroma)
  BY <1>4, <1>5 DEF VenusLuma, VenusChroma, S, chroma
<1>. QED  BY <1>1, <1>7, <1>8, <1>9, <1>10, <1>11, <1>12, <1>13 DEF Fit

\* The layouts that compute both planes from aligned dimensions.
LEMMA LinearFits ==
  ASSUME NEW b, Described(b), b.format \in HasPlanes, ~b.ubwc, ~Overrun(b)
  PROVE  Fit(b, Planes(b.format, b.usage, b.aw, b.ah))
<1> DEFINE p == Planes(b.format, b.usage, b.aw, b.ah)
           row == RowBytes(b)
<1>1. /\ b.w \in Nat /\ 1 <= b.w /\ b.w <= 8192
      /\ b.h \in Nat /\ 1 <= b.h /\ b.h <= 8192
      /\ b.aw \in Nat /\ b.ah \in Nat /\ b.h <= b.ah
  BY BufferDims DEF Described
<1>2. ~IsUbwcEnabled(b.format, b.usage)
  BY DEF Described
<1>3. b.format \in PlainSp \cup Nv12 \cup {"P010", "NV21_ZSL"}
  BY <1>2 DEF HasPlanes, Overrun, IsUbwcEnabled
<1>4. b.format \notin Rgb
  BY <1>3 DEF PlainSp, Nv12, Rgb, Bytes4, Bytes3, Bytes2
<1>5. <<b.aw, b.ah>> = <<LinearDims(b.format, b.w, b.h)[1], LinearDims(b.format, b.w, b.h)[2]>>
  BY <1>2, <1>4 DEF Described, Describe, AlignedDims
<1>6. b.size = LinearSize(b.format, b.w, b.h, b.aw, b.ah)
  BY <1>2, BufferSize
<1>7. row = (IF b.format = "P010" THEN b.aw * 2 ELSE b.aw) /\ row \in Nat
  <2>1. row = IF b.format = "P010" THEN b.aw * 2 ELSE b.aw
    BY <1>3 DEF RowBytes, PlainSp, Nv12
  <2>. QED  BY <1>1, <2>1
<1>8. p = [y |-> 0, uv |-> row * b.ah, ystride |-> row, uvstride |-> row]
  <2>1. b.aw * 1 = b.aw
    BY <1>1
  <2>. QED  BY <1>2, <1>7, <2>1 DEF Planes, SpPlanes
<1>9. HalfUp(b.h) \in Nat
  BY <1>1 DEF HalfUp
<1>10. row * b.ah + row * HalfUp(b.h) <= b.size
  <2>1. CASE b.format \in PlainSp
    <3>1. b.h % 2 = 0
      BY <1>1, <2>1 DEF Overrun
    <3>2. b.ah = b.h /\ row = b.aw
      BY <1>5, <1>7, <2>1 DEF LinearDims, PlainSp, Nv12
    <3> DEFINE half == b.h \div 2
    <3>3. half \in Nat /\ b.h = 2 * half /\ HalfUp(b.h) = half
      BY <1>1, <3>1 DEF HalfUp
    <3>4. b.size = Page(b.aw * b.ah + (b.aw * b.ah) \div 2 + 1)
      BY <1>6, <2>1 DEF LinearSize, PlainSp, Nv12, Rgb, Bytes4, Bytes3, Bytes2
    <3> HIDE DEF half, row
    <3> DEFINE area == b.aw * half
    <3>5. area \in Nat /\ b.aw * b.ah = 2 * area /\ b.aw * HalfUp(b.h) = area
      BY <1>1, <3>2, <3>3
    <3> HIDE DEF area
    <3>6. (2 * area) \div 2 = area /\ 2 * area + area + 1 \in Nat
      BY <3>5
    <3>7. 2 * area + area <= Page(2 * area + area + 1)
      BY <3>5, <3>6, Pages
    <3>. QED  BY <3>2, <3>4, <3>5, <3>6, <3>7
  <2>2. CASE b.format = "P010"
    <3>1. b.h % 2 = 0
      BY <1>1, <2>2 DEF Overrun
    <3>2. b.ah = b.h /\ row = b.aw * 2
      BY <1>5, <1>7, <2>2 DEF LinearDims, PlainSp, Nv12
    <3> DEFINE half == b.h \div 2
    <3>3. half \in Nat /\ b.h = 2 * half /\ HalfUp(b.h) = half
      BY <1>1, <3>1 DEF HalfUp
    <3>4. b.size = Page(b.aw * b.ah * 3 + 1)
      BY <1>6, <2>2 DEF LinearSize, PlainSp, Nv12, Rgb, Bytes4, Bytes3, Bytes2
    <3> HIDE DEF half, row
    <3> DEFINE area == b.aw * half
    <3>5. /\ area \in Nat /\ b.aw * b.ah = 2 * area
          /\ row * b.ah = 4 * area /\ row * HalfUp(b.h) = 2 * area
      BY <1>1, <3>2, <3>3
    <3> HIDE DEF area
    <3>6. 2 * area * 3 + 1 \in Nat
      BY <3>5
    <3>7. 6 * area <= Page(2 * area * 3 + 1)
      BY <3>5, <3>6, Pages
    <3>. QED  BY <3>4, <3>5, <3>7
  <2>3. CASE b.format = "NV21_ZSL"
    <3>1. b.ah = AlignUp(b.h, 64) /\ row = b.aw
      BY <1>5, <1>7, <2>3 DEF LinearDims, PlainSp, Nv12
    <3> DEFINE half == b.ah \div 2
    <3>2. half \in Nat /\ b.ah = 2 * half /\ HalfUp(b.h) <= half
      BY <1>1, <3>1 DEF HalfUp, AlignUp
    <3>3. b.size = Page(b.aw * b.ah + (b.aw * b.ah) \div 2)
      BY <1>6, <2>3 DEF LinearSize, PlainSp, Nv12, Rgb, Bytes4, Bytes3, Bytes2
    <3> HIDE DEF half, row
    <3> DEFINE area == b.aw * half
    <3>4. area \in Nat /\ b.aw * b.ah = 2 * area
      BY <1>1, <3>2
    <3>5. b.aw * HalfUp(b.h) \in Nat /\ b.aw * HalfUp(b.h) <= area
      BY <1>1, <1>9, <3>2, Products
    <3> HIDE DEF area
    <3>6. (2 * area) \div 2 = area /\ 2 * area + area \in Nat
      BY <3>4
    <3>7. 2 * area + area <= Page(2 * area + area) /\ Page(2 * area + area) \in Nat
      BY <3>6, Pages
    <3>8. b.size = Page(2 * area + area)
      BY <3>3, <3>4, <3>6
    <3>9. b.aw * b.ah + b.aw * HalfUp(b.h) <= b.size
      BY <3>4, <3>5, <3>7, <3>8
    <3>. QED  BY <3>1, <3>9
  <2>4. CASE b.format \in Nv12
    <3> DEFINE S == VenusStride("NV12", b.w)
               chroma == VenusChromaLines("NV12", b.h)
    <3>1. "NV12" \in VenusFormats
      BY DEF VenusFormats
    <3>2. b.aw = S /\ b.ah = VenusLines("NV12", b.h) /\ row = S
      <4>1. StrideWidth("NV12", b.w) = S
        BY DEF StrideWidth
      <4>2. b.aw = StrideWidth("NV12", b.w) /\ b.ah = VenusLines("NV12", b.h)
        <5>1. LinearDims(b.format, b.w, b.h) = VenusDims("NV12", b.w, b.h)
          BY <2>4 DEF LinearDims, Nv12, PlainSp
        <5>. QED  BY <1>5, <5>1 DEF VenusDims
      <4>3. row = b.aw
        BY <1>7, <2>4 DEF Nv12
      <4>. QED  BY <4>1, <4>2, <4>3
    <3>3. b.size = Page(S * b.ah + S * chroma)
      <4>1. b.size = VenusSize("NV12", b.w, b.h)
        BY <1>6, <2>4 DEF LinearSize, PlainSp, Nv12, Rgb, Bytes4, Bytes3, Bytes2
      <4>. QED  BY <3>2, <4>1 DEF VenusSize, VenusLuma, VenusChroma
    <3>4. chroma \in Nat /\ HalfUp(b.h) <= chroma
      BY <1>1, <3>1, VenusRows
    <3> HIDE DEF S, chroma, row
    <3>5. S * b.ah \in Nat
      BY <1>1, <3>2
    <3>6. S * HalfUp(b.h) \in Nat /\ S * HalfUp(b.h) <= S * chroma /\ S * chroma \in Nat
      BY <1>1, <1>9, <3>2, <3>4, Products
    <3>7. /\ S * b.ah + S * chroma \in Nat
          /\ S * b.ah + S * chroma <= Page(S * b.ah + S * chroma)
      BY <3>5, <3>6, Pages
    <3>8. Page(S * b.ah + S * chroma) \in Nat
      BY <3>7, Pages
    <3>. QED  BY <3>2, <3>3, <3>5, <3>6, <3>7, <3>8
  <2>. QED  BY <1>3, <2>1, <2>2, <2>3, <2>4
<1> HIDE DEF p, row
<1>11. row * b.h <= row * b.ah
  BY <1>1, <1>7, Products
<1>12. /\ p.ystride >= row /\ p.uvstride >= row
       /\ p.y + p.ystride * b.h <= p.uv
       /\ p.uv + p.uvstride * HalfUp(b.h) <= b.size
  BY <1>1, <1>7, <1>8, <1>9, <1>10, <1>11
<1>. QED  BY <1>12 DEF Fit, p, row

\* For every size and format, the planes hold their rows, do not overlap and end within
\* the buffer, but for the buffers of Overrun.
THEOREM PlanesAlwaysFit == Spec => []PlanesFit
<1>1. ASSUME NEW b, Described(b), b.format \in HasPlanes, ~Overrun(b)
      PROVE  Fit(b, Planes(b.format, b.usage, b.aw, b.ah))
  <2>1. CASE b.ubwc
    <3>1. b.format \in UbwcOnly \cup {"NV12"}
      <4>1. IsUbwcEnabled(b.format, b.usage)
        BY <1>1, <2>1 DEF Described
      <4>2. b.format \notin UbwcCapable
        BY <1>1 DEF UbwcCapable, HasPlanes, PlainSp, Nv12, UbwcOnly
      <4>. QED  BY <4>1, <4>2 DEF IsUbwcEnabled
    <3>. QED  BY <1>1, <2>1, <3>1, CompressedFits
  <2>2. CASE ~b.ubwc
    BY <1>1, <2>2, LinearFits
  <2>. QED  BY <2>1, <2>2
<1>2. FormatsInv => PlanesFit
  BY <1>1 DEF FormatsInv, PlanesFit, Fit
<1>. QED  BY <1>2, FormatsAlways, PTL
=============================================================================
