------------------------------- MODULE GbmFormats -------------------------------
(***************************************************************************)
(* How many bytes a buffer has and where its planes lie.  The numbers are  *)
(* computed at least twice: by the process that allocates a buffer, from   *)
(* the usage it asks for, and by every process that imports it, from its   *)
(* own usage and what it learns from the shared metadata.  Nothing but the *)
(* descriptor and the metadata travels with the buffer, so the two results *)
(* agree only if the same questions get the same answers on both sides.    *)
(*                                                                         *)
(* Formats that no buffer object can have (IsFormatSupported refuses them) *)
(* are left out; so are the cached flag and the heaps nothing depends on.  *)
(***************************************************************************)
EXTENDS Integers, FiniteSets

CONSTANTS
  Formats,     \* what clients ask for
  Widths, Heights,
  MaxDim,      \* bound: sizes up to it do not wrap around in 32 bits
  AskFlags,    \* the usage flags of the allocating client ...
  MaxFlags,    \* ... and how many of them it sets at most
  ImportFlags, \* the usage flags of importing clients
  HasGpu,      \* libadreno_utils.so could be loaded
  GpuUbwc,     \* the formats it says the GPU reads compressed
  GpuPixels    \* its pixel alignment

-----------------------------------------------------------------------------
(* Formats.                                                                *)

Bytes4 == {"RG1616", "RGBA8888", "RGBX8888", "XRGB8888", "XBGR8888", "ARGB8888",
           "ABGR8888", "ABGR2101010"}
Bytes3 == {"RGB888", "BGR888"}
Bytes2 == {"RG88", "R16", "RGB565", "BGR565"}
Rgb == Bytes4 \cup Bytes3 \cup Bytes2 \cup {"R8"}

Nv12 == {"YCbCr_420_SP_VENUS", "NV12_ENCODEABLE", "NV12"}
PlainSp == {"YCbCr_420_SP", "YCrCb_420_SP"}
UbwcOnly == {"YCbCr_420_SP_VENUS_UBWC", "YCbCr_420_TP10_UBWC", "YCbCr_420_P010_UBWC"}
Raw == {"RAW8", "RAW10", "RAW12", "RAW16"}
ImplDefined == {"YCbCr_420_888", "IMPLEMENTATION_DEFINED"}

Supported == Rgb \cup Nv12 \cup PlainSp \cup UbwcOnly \cup Raw
               \cup {"P010", "YCbCr_420_P010_VENUS", "NV21_ZSL", "BLOB", "YCbCr_420_888"}

GetFormatBpp(format) ==
  CASE format \in Bytes4 -> 4
    [] format \in Bytes3 -> 3
    [] format \in Bytes2 -> 2
    [] OTHER -> 1

\* What GetImplDefinedFormat makes of an implementation-defined format: a
\* default, then the camera's choice, then the video encoder's, then NV21_ZSL.
DefaultFormat(usage, format) ==
  IF "UBWC" \in usage
  THEN IF "10BIT" \in usage THEN "YCbCr_420_P010_UBWC"
       ELSE IF "10BIT_TP" \in usage THEN "YCbCr_420_TP10_UBWC"
       ELSE "YCbCr_420_SP_VENUS_UBWC"
  ELSE IF "10BIT" \in usage THEN "YCbCr_420_P010_VENUS" ELSE format

CameraFormat(usage, format) ==
  LET camera == usage \cap {"CAMERA_READ", "CAMERA_WRITE"}
  IN CASE camera = {"CAMERA_READ", "CAMERA_WRITE"} -> "NV21_ZSL"
       [] camera = {"CAMERA_READ"}  -> "YCrCb_420_SP"
       [] camera = {"CAMERA_WRITE"} ->
            IF format = "YCbCr_420_888" THEN "NV21_ZSL" ELSE "YCbCr_420_SP_VENUS"
       [] camera = {} -> IF "HW_COMPOSER" \in usage THEN "RGBA8888" ELSE format

VideoFormat(usage, format) ==
  IF format \in ImplDefined /\ "VIDEO_ENCODER" \in usage THEN "NV12_ENCODEABLE" ELSE format

LastFormat(format) == IF format \in ImplDefined THEN "NV21_ZSL" ELSE format

GetImplDefinedFormat(usage, format) ==
  LastFormat(VideoFormat(usage, CameraFormat(usage, DefaultFormat(usage, format))))

-----------------------------------------------------------------------------
(* Compression.  CPU writers do not get it; the GPU is asked only when the *)
(* buffer is for rendering; NV12 needs the flag, the UBWC formats nothing. *)

UbwcCapable == {"BGR565", "XBGR8888", "ABGR8888", "ABGR2101010", "RGBA8888", "RGBX8888"}

IsUbwcEnabled(format, usage) ==
  \/ format \in UbwcOnly
  \/ "UBWC" \in usage /\ format = "NV12"
  \/ /\ "UBWC" \in usage /\ format \in UbwcCapable
     /\ "HW_RENDERING" \in usage /\ HasGpu => format \in GpuUbwc
     /\ "WRITE" \notin usage

-----------------------------------------------------------------------------
(* Arithmetic.                                                             *)

\* Mutant of AlignUp: the mask without the addition.
AlignDown(x, a) == (x \div a) * a

\* The ALIGN macro, used with powers of two, and MSM_MEDIA_ALIGN of the header.
AlignUp(x, a) == ((x + a - 1) \div a) * a
Page(x) == AlignUp(x, 4096)
HalfUp(x) == (x + 1) \div 2

\* The VENUS_* macros of msm_media_info.h, by colour format of that header.
VenusStride(cf, w) ==
  CASE cf = "BPP10_UBWC" -> AlignUp((AlignUp(w, 192) * 4) \div 3, 256)
    [] cf \in {"P010", "P010_UBWC"} -> AlignUp(2 * w, 256)
    [] OTHER -> AlignUp(w, 128)

VenusLines(cf, h) == AlignUp(h, IF cf \in {"BPP10_UBWC", "P010_UBWC"} THEN 16 ELSE 32)
VenusChromaLines(cf, h) == AlignUp(HalfUp(h), IF cf = "NV12_UBWC" THEN 32 ELSE 16)

\* The metadata of a compressed plane: one byte per tile of tw x th pixels.
VenusMeta(tw, th, w, h) ==
  Page(AlignUp((w + tw - 1) \div tw, 64) * AlignUp((h + th - 1) \div th, 16))

TileWidth(cf) == IF cf = "BPP10_UBWC" THEN 48 ELSE 32
TileHeight(cf) == IF cf = "NV12_UBWC" THEN 8 ELSE 4

VenusLumaMeta(cf, w, h) == VenusMeta(TileWidth(cf), TileHeight(cf), w, h)
VenusChromaMeta(cf, w, h) ==
  VenusMeta(TileWidth(cf) \div 2, TileHeight(cf), HalfUp(w), HalfUp(h))

VenusLuma(cf, w, h) == VenusStride(cf, w) * VenusLines(cf, h)
VenusChroma(cf, w, h) == VenusStride(cf, w) * VenusChromaLines(cf, h)

VenusSize(cf, w, h) ==
  IF cf \in {"NV12", "P010"} THEN Page(VenusLuma(cf, w, h) + VenusChroma(cf, w, h))
  ELSE VenusLumaMeta(cf, w, h) + Page(VenusLuma(cf, w, h))
         + VenusChromaMeta(cf, w, h) + Page(VenusChroma(cf, w, h))

\* The colour format the library hands to those macros, and the ratio of a
\* stride in bytes to a width: 4/3 for ten bits packed, 2 for ten bits in 16.
ColorFormat(format) ==
  CASE format = "YCbCr_420_TP10_UBWC" -> "BPP10_UBWC"
    [] format = "YCbCr_420_P010_UBWC" -> "P010_UBWC"
    [] OTHER                          -> "NV12_UBWC"

\* Mutant of StrideWidth: bytes are taken for pixels.
StrideWidthInBytes(cf, w) == VenusStride(cf, w)

StrideWidth(cf, w) ==
  CASE cf = "BPP10_UBWC"             -> (VenusStride(cf, w) * 3) \div 4
    [] cf \in {"P010", "P010_UBWC"}  -> VenusStride(cf, w) \div 2
    [] OTHER                         -> VenusStride(cf, w)

-----------------------------------------------------------------------------
(* Aligned width and height.  libadreno_utils.so is external: it pads tiled *)
(* surfaces to 64 x 16 pixels and linear ones to 64 columns.               *)

GpuKnown == Rgb \ {"RGB888", "RGBX8888", "XRGB8888", "ARGB8888"}
AdrenoDims(tiled, w, h) == <<AlignUp(w, 64), IF tiled THEN AlignUp(h, 16) ELSE h>>

RgbDims(format, ubwc, w, h) ==
  IF ~HasGpu THEN <<w, h>>
  ELSE IF format \in GpuKnown THEN AdrenoDims(ubwc, w, h)
  ELSE <<AlignUp(w, 32), AlignUp(h, 32)>>

VenusDims(cf, w, h) == <<StrideWidth(cf, w), VenusLines(cf, h)>>

LinearDims(format, w, h) ==
  CASE format \in Nv12     -> VenusDims("NV12", w, h)
    [] format = "YCbCr_420_P010_VENUS" -> VenusDims("P010", w, h)
    [] format \in PlainSp  -> <<AlignUp(w, IF HasGpu THEN GpuPixels ELSE 32), h>>
    [] format = "RAW12"    -> <<AlignUp((w * 12) \div 8, 16), h>>
    [] format = "RAW10"    -> <<AlignUp((w * 10) \div 8, 16), h>>
    [] format \in {"RAW8", "RAW16", "P010"} -> <<AlignUp(w, 16), h>>
    [] format = "NV21_ZSL" -> <<AlignUp(w, 64), AlignUp(h, 64)>>
    [] OTHER               -> <<w, h>>

AlignedDims(format, ubwc, w, h) ==
  IF format \in Rgb THEN RgbDims(format, ubwc, w, h)
  ELSE IF ubwc THEN VenusDims(ColorFormat(format), w, h)
  ELSE LinearDims(format, w, h)

-----------------------------------------------------------------------------
(* Size.  A compressed RGB buffer starts with one byte per block of pixels. *)

UbwcBpp(format) == IF format = "BGR565" THEN 2 ELSE 4
MetaSized == {"BGR565", "XBGR8888", "ABGR8888", "ABGR2101010"}

\* Mutant of RgbMetaSize: blocks that are not full are not counted.
RgbMetaSizeRoundsDown(w, h) == Page(AlignUp(w \div 16, 64) * AlignUp(h \div 4, 16))

\* Blocks of 16 x 4 pixels for 2 and 4 bytes, in rows of 64 and columns of 16.
RgbMetaSize(w, h) == Page(AlignUp((w + 15) \div 16, 64) * AlignUp((h + 3) \div 4, 16))

UbwcSize(format, w, h, aw, ah) ==
  CASE format \in MetaSized -> aw * ah * UbwcBpp(format) + RgbMetaSize(w, h)
    [] format \in UbwcOnly \cup {"NV12"} -> VenusSize(ColorFormat(format), w, h)
    [] OTHER -> 0

LinearSize(format, w, h, aw, ah) ==
  CASE format \in Rgb         -> aw * ah * GetFormatBpp(format)
    [] format = "RAW16"       -> aw * ah * 2
    [] format = "RAW8"        -> aw * ah
    [] format \in {"RAW10", "RAW12"} -> Page(aw * ah)
    [] format \in PlainSp     -> Page(aw * ah + (aw * ah) \div 2 + 1)
    [] format \in Nv12        -> VenusSize("NV12", w, h)
    [] format = "YCbCr_420_P010_VENUS" -> VenusSize("P010", w, h)
    [] format = "P010"        -> Page(aw * ah * 3 + 1)
    [] format = "NV21_ZSL"    -> Page(aw * ah + (aw * ah) \div 2)
    [] format = "BLOB" /\ h = 1 -> w
    [] OTHER                  -> 0

\* qry_aligned_wdth_hght and qry_size, as every caller combines them.
Describe(format, usage, w, h) ==
  LET ubwc == IsUbwcEnabled(format, usage)
      dims == AlignedDims(format, ubwc, w, h)
  IN [aw |-> dims[1], ah |-> dims[2], stride |-> dims[1] * GetFormatBpp(format),
      size |-> IF ubwc THEN UbwcSize(format, w, h, dims[1], dims[2])
               ELSE LinearSize(format, w, h, dims[1], dims[2])]

-----------------------------------------------------------------------------
(* Planes: where luma and chroma begin and how far apart their rows are.   *)

SpPlanes(aw, ah, bytes) ==
  [y |-> 0, uv |-> aw * bytes * ah, ystride |-> aw * bytes, uvstride |-> aw * bytes]

\* Luma metadata, luma, chroma metadata, chroma, each on a page of its own.
UbwcPlanes(cf, aw, ah) ==
  LET y == VenusLumaMeta(cf, aw, ah)
  IN [y |-> y, uv |-> y + Page(VenusLuma(cf, aw, ah)) + VenusChromaMeta(cf, aw, ah),
      ystride |-> VenusStride(cf, aw), uvstride |-> VenusStride(cf, aw)]

HasPlanes == PlainSp \cup Nv12 \cup UbwcOnly \cup {"P010", "YCbCr_420_P010_VENUS", "NV21_ZSL"}

\* msmgbm_yuv_plane_info, from the aligned dimensions.
Planes(format, usage, aw, ah) ==
  IF IsUbwcEnabled(format, usage) THEN UbwcPlanes(ColorFormat(format), aw, ah)
  ELSE SpPlanes(aw, ah, IF format = "P010" THEN 2 ELSE 1)

\* Mutant of SampleBytes: every sample is a byte.
SampleBytesOne(format) == 1

\* bpp, as get_buf_lyout passes it to get_yuv_sp_plane_info.
SampleBytes(format) == IF format = "P010" THEN 2 ELSE 1

HasLayout == Rgb \cup PlainSp \cup Nv12 \cup {"YCbCr_420_TP10_UBWC", "P010"}

\* msmgbm_get_buf_lyout: the format alone decides; it never asks for compression.
BufLayout(format, aw, ah) ==
  CASE format \in Rgb -> [y |-> 0, ystride |-> aw * GetFormatBpp(format)]
    [] format = "YCbCr_420_TP10_UBWC" -> UbwcPlanes("BPP10_UBWC", aw, ah)
    [] OTHER -> SpPlanes(aw, ah, SampleBytes(format))

\* Where msmgbm_get_rgb_data_address finds the pixels: behind the metadata,
\* whose size it computes from the aligned dimensions.
RgbDataOffset(b) == IF b.ubwc THEN RgbMetaSize(b.aw, b.ah) ELSE 0

-----------------------------------------------------------------------------
(* What the kernel is asked for: content protection and heaps.             *)

CameraProtected(usage) == {"PROTECTED", "CAMERA_WRITE"} \subseteq usage

\* Mutant of DefaultIonFlags: a heap of its own is taken for protection enough.
DefaultIonFlagsElse(usage) ==
  IF "SECURE_HEAP" \in usage THEN {"CP_PIXEL"}
  ELSE IF "PROTECTED" \in usage THEN {"SECURE"} ELSE {}

DefaultIonFlags(usage) ==
  (CASE "SECURE_HEAP" \in usage -> {"CP_PIXEL"}
     [] "SECURE_HEAP" \notin usage /\ "SECURE_DISPLAY_HEAP" \in usage
          /\ "CAMERA_WRITE" \notin usage -> {"CP_SEC_DISPLAY"}
     [] OTHER -> {})
  \cup (IF "PROTECTED" \in usage THEN {"SECURE"} ELSE {})

GetIonAllocFlags(usage) ==
  DefaultIonFlags(usage)
    \cup (IF ~CameraProtected(usage) THEN {}
          ELSE IF "HW_COMPOSER" \in usage THEN {"CP_CAMERA_PREVIEW"} ELSE {"CP_CAMERA"})

DefaultHeap(usage) ==
  CASE "SECURE_HEAP" \in usage -> "secure"
    [] "SECURE_HEAP" \notin usage /\ "SECURE_DISPLAY_HEAP" \in usage -> "secure_display"
    [] OTHER -> "system"

\* Mutant of CameraHeaps: previews are left out.
CameraHeapsNoPreview(usage) ==
  IF CameraProtected(usage) /\ "HW_COMPOSER" \notin usage THEN {"secure_display"} ELSE {}

CameraHeaps(usage) == IF CameraProtected(usage) THEN {"secure_display"} ELSE {}

GetIonHeapId(usage) == {DefaultHeap(usage)} \cup CameraHeaps(usage)

ASSUME FormatsAssumption ==
  /\ Formats \subseteq Supported \cup ImplDefined
  /\ MaxDim \in 1 .. 8192
  /\ Widths \subseteq 1 .. MaxDim
  /\ Heights \subseteq 1 .. MaxDim
  /\ IsFiniteSet(AskFlags)
  /\ MaxFlags \in Nat
  /\ HasGpu \in BOOLEAN
  /\ GpuUbwc \subseteq GpuKnown
  /\ GpuPixels \in {1, 16, 32, 64}

VARIABLES
  bufs,  \* the buffer under consideration, as its allocator described it
  views  \* the same buffer as an importer describes it

vars == <<bufs, views>>

Init == bufs = {} /\ views = {}

\* msmgbm_bo_create up to the allocation, which fails for zero bytes, and the
\* two facts it writes into the shared metadata.
BoCreate(asked, usage, w, h) ==
  LET format == IF asked \in ImplDefined THEN GetImplDefinedFormat(usage, asked) ELSE asked
      d == Describe(format, usage, w, h)
      ion == GetIonAllocFlags(usage)
  IN /\ format \in Supported
     /\ d.size > 0
     /\ bufs' = {[format |-> format, usage |-> usage, w |-> w, h |-> h,
                  aw |-> d.aw, ah |-> d.ah, stride |-> d.stride, size |-> d.size,
                  ion |-> ion, heaps |-> GetIonHeapId(usage), mapped |-> "SECURE" \notin ion,
                  secure |-> "PROTECTED" \in usage, ubwc |-> IsUbwcEnabled(format, usage)]}
     /\ UNCHANGED views

\* GetUsageFromModifier, for the modifier a buffer like b is offered with.
ModifierUsage(b) == IF b.ubwc THEN {"UBWC"} ELSE {}

\* Mutant of LearntUsage: only import_fd looks.
LearntUsageFd(b, path, knows) ==
  IF knows /\ path = "fd" /\ b.ubwc THEN {"UBWC", "HW_RENDERING"} ELSE {}

\* What the metadata adds to an import's usage; import_wl_buffer does not look.
LearntUsage(b, path, knows) ==
  IF knows /\ path # "wl" /\ b.ubwc THEN {"UBWC", "HW_RENDERING"} ELSE {}

\* The four imports, from what the caller passes and, where the metadata is at
\* hand (knows), what that says.  All but import_fd may map the buffer.
BoImport(b, path, knows, usage) ==
  LET asked == IF path = "fdmod" THEN ModifierUsage(b) ELSE usage
      known == asked \cup LearntUsage(b, path, knows)
      d == Describe(b.format, known, b.w, b.h)
  IN /\ views = {}
     /\ views' = {[path |-> path, knows |-> knows, usage |-> known, aw |-> d.aw, ah |-> d.ah,
                   stride |-> d.stride, size |-> d.size,
                   mapped |-> path # "fd" /\ knows /\ ~b.secure]}
     /\ UNCHANGED bufs

BoDestroy == bufs # {} /\ bufs' = {} /\ views' = {}

Usages == {usage \in SUBSET AskFlags : Cardinality(usage) <= MaxFlags}
Paths == {"fd", "fdmod", "gbm", "wl"}

Next ==
  \/ /\ bufs = {}
     /\ \E format \in Formats, usage \in Usages, w \in Widths, h \in Heights :
          BoCreate(format, usage, w, h)
  \/ \E b \in bufs, path \in Paths, knows \in BOOLEAN, usage \in SUBSET ImportFlags :
       BoImport(b, path, knows, usage)
  \/ BoDestroy

Spec == Init /\ [][Next]_vars

-----------------------------------------------------------------------------
\* Up to here a number of bytes is the same as an int and as an unsigned int.
MaxBytes == 2147483647

\* A buffer has a format of its own and no more bytes than 32 bits can count;
\* an implementation-defined request has become a definite one.
TypeOK ==
  /\ \A b \in bufs :
       /\ b.format \in Supported \ ImplDefined
       /\ b.w <= b.aw
       /\ b.h <= b.ah
       /\ b.size \in 1 .. MaxBytes
  /\ Cardinality(bufs) <= 1 /\ Cardinality(views) <= Cardinality(bufs)

\* The importer is told that the buffer is compressed, where it is, ...
Informed(b, v) == b.ubwc => v.path = "fdmod" \/ (v.knows /\ v.path # "wl")

\* ... and the GPU, which it asks and the allocator need not have asked, agrees.
GpuReads(b) == b.ubwc /\ b.format \in UbwcCapable /\ HasGpu => b.format \in GpuUbwc

\* An importer that can tell computes the stride, dimensions and size the
\* allocator computed: it maps, reads and unmaps the bytes there are.
ImportersAgree ==
  \A b \in bufs, v \in views :
    Informed(b, v) /\ GpuReads(b) =>
      <<v.aw, v.ah, v.stride, v.size>> = <<b.aw, b.ah, b.stride, b.size>>

\* Bytes in a row of aw pixels of luma, by what the format says of its samples.
RowBytes(b) ==
  CASE b.format = "YCbCr_420_TP10_UBWC" -> (b.aw * 4) \div 3
    [] b.format \in {"P010", "YCbCr_420_P010_VENUS", "YCbCr_420_P010_UBWC"} -> b.aw * 2
    [] OTHER -> b.aw

\* Where they do not: 16-bit samples are laid out as bytes, and the size counts
\* a chroma plane of half the rows, rounded down.
Overrun(b) ==
  \/ b.format = "YCbCr_420_P010_VENUS"
  \/ b.format \in PlainSp \cup {"P010"} /\ b.h % 2 = 1

\* The planes of a buffer hold its rows, do not overlap and end within it.
PlanesFit ==
  \A b \in bufs : b.format \in HasPlanes /\ ~Overrun(b) =>
    LET p == Planes(b.format, b.usage, b.aw, b.ah)
    IN /\ p.ystride >= RowBytes(b) /\ p.uvstride >= RowBytes(b)
       /\ p.y + p.ystride * b.h <= p.uv
       /\ p.uv + p.uvstride * HalfUp(b.h) <= b.size

\* The two layout queries, of the allocator and of an importer that can tell, put
\* luma and chroma in the same places; get_buf_lyout takes every buffer but a TP10
\* one for linear, and is left out for those that are not.
LayoutsAgree ==
  \A b \in bufs :
    LET p == Planes(b.format, b.usage, b.aw, b.ah)
    IN /\ b.format \in HasPlanes => \A v \in views :
            Informed(b, v) => Planes(b.format, v.usage, v.aw, v.ah) = p
       /\ b.format \in HasPlanes \cap HasLayout /\ ~(b.format = "NV12" /\ b.ubwc) =>
            BufLayout(b.format, b.aw, b.ah) = p
       /\ b.format \in Rgb /\ ~b.ubwc =>
            LET l == BufLayout(b.format, b.aw, b.ah)
            IN l.ystride = b.stride /\ l.y + l.ystride * b.ah = b.size

\* The pixels behind the metadata of a compressed RGB buffer end where the
\* buffer ends: both computations of the metadata's size give the same.
RgbDataFits ==
  \A b \in bufs : b.format \in Rgb =>
    RgbDataOffset(b) + b.aw * b.ah * GetFormatBpp(b.format) = b.size

\* Nobody has a CPU address of a protected buffer: the allocator goes by its ION
\* flags, importers by the metadata.
ProtectedHidden ==
  \A b \in bufs : "PROTECTED" \in b.usage =>
    ~b.mapped /\ \A v \in views : ~v.mapped

\* The heap a kind of content protection belongs to.
HeapOf(cp) == IF cp = "CP_PIXEL" THEN "secure" ELSE "secure_display"

\* A buffer flagged for protected content may come from the heap for it.
FlagsMatchHeaps ==
  \A b \in bufs : \A cp \in b.ion \ {"SECURE"} : HeapOf(cp) \in b.heaps
=============================================================================
