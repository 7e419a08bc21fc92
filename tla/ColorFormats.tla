---------------------------- MODULE ColorFormats ----------------------------
(***************************************************************************)
(* The buffer geometry of display/media/mmm_color_fmt.h: strides, scan     *)
(* lines and total sizes of the picture formats that the camera, the video *)
(* codecs and the display exchange.  The producer, the consumer and the    *)
(* allocator of a buffer each compile these functions in, so a plane that  *)
(* did not fit would be read or written past the end of the buffer.        *)
(*                                                                         *)
(* The state is the picture a client negotiates: its format and size, of   *)
(* which width and height grow.  A size is at most CfMaxDim: the           *)
(* wrap-around of unsigned int is out of the reach of these inputs.        *)
(***************************************************************************)
EXTENDS Integers

CONSTANTS CfDims,      \* the widths and heights that are tried
          CfMaxDim

(* Up to 8192 no product below reaches 2^31.                               *)
ASSUME CfMaxAssumption == CfMaxDim \in 1..8192

ASSUME CfDimsAssumption == CfDims \subseteq Nat

VARIABLES cfFmt, cfWidth, cfHeight

cfVars == <<cfFmt, cfWidth, cfHeight>>

LinearYuv == {"NV12", "NV21", "P010", "P010_512", "NV12_512"}
UbwcYuv   == {"NV12_UBWC", "NV12_BPP10_UBWC", "P010_UBWC"}
UbwcRgb   == {"RGBA8888_UBWC", "RGBA1010102_UBWC", "RGB565_UBWC", "RGBA16161616F_UBWC"}
mmm_color_fmts == LinearYuv \cup UbwcYuv \cup {"RGBA8888"} \cup UbwcRgb

INTERLACE_WIDTH_MAX == 1920
INTERLACE_HEIGHT_MAX == 1920
INTERLACE_MB_PER_FRAME_MAX == (1920 * 1088) \div 256

MMM_COLOR_FMT_ROUNDUP(sz, r) == (sz + r - 1) \div r

MMM_COLOR_FMT_ALIGN(sz, align) == MMM_COLOR_FMT_ROUNDUP(sz, align) * align

(* A mutant of the next operator: halves an odd size downwards.            *)
HalfDown(n) == n \div 2

Half(n) == (n + 1) \div 2        \* (n+1)>>1

-----------------------------------------------------------------------------
(* Planes.  A format that a function does not know has 0 there.            *)

MMM_COLOR_FMT_Y_STRIDE(f, width) ==
  IF width = 0 THEN 0 ELSE
  CASE f = "NV12_512"                     -> MMM_COLOR_FMT_ALIGN(width, 512)
    [] f \in {"NV12", "NV21", "NV12_UBWC"} -> MMM_COLOR_FMT_ALIGN(width, 128)
    [] f = "NV12_BPP10_UBWC" ->
         MMM_COLOR_FMT_ALIGN((MMM_COLOR_FMT_ALIGN(width, 192) * 4) \div 3, 256)
    [] f \in {"P010_UBWC", "P010"}        -> MMM_COLOR_FMT_ALIGN(width * 2, 256)
    [] f = "P010_512"                     -> MMM_COLOR_FMT_ALIGN(width * 2, 512)
    [] OTHER                              -> 0

MMM_COLOR_FMT_UV_STRIDE(f, width) == MMM_COLOR_FMT_Y_STRIDE(f, width)

MMM_COLOR_FMT_Y_SCANLINES(f, height) ==
  IF height = 0 THEN 0 ELSE
  CASE f = "NV12_512"  -> MMM_COLOR_FMT_ALIGN(height, 512)
    [] f \in {"NV12", "NV21", "NV12_UBWC", "P010_512", "P010"} ->
         MMM_COLOR_FMT_ALIGN(height, 32)
    [] f \in {"NV12_BPP10_UBWC", "P010_UBWC"} -> MMM_COLOR_FMT_ALIGN(height, 16)
    [] OTHER           -> 0

MMM_COLOR_FMT_UV_SCANLINES(f, height) ==
  IF height = 0 THEN 0 ELSE
  CASE f = "NV12_512"  -> MMM_COLOR_FMT_ALIGN(Half(height), 256)
    [] f \in {"NV12", "NV21", "NV12_BPP10_UBWC", "P010_UBWC", "P010_512", "P010"} ->
         MMM_COLOR_FMT_ALIGN(Half(height), 16)
    [] f = "NV12_UBWC" -> MMM_COLOR_FMT_ALIGN(Half(height), 32)
    [] OTHER           -> 0

(* Compression metadata: one byte per tile of the plane.                   *)
YTile(f) == CASE f = "NV12_UBWC"       -> <<32, 8>>
              [] f = "P010_UBWC"       -> <<32, 4>>
              [] f = "NV12_BPP10_UBWC" -> <<48, 4>>

UVTile(f) == <<YTile(f)[1] \div 2, YTile(f)[2]>>

RgbTile(f) == IF f = "RGBA16161616F_UBWC" THEN <<8, 4>> ELSE <<16, 4>>

MetaStride(width, tile)     == MMM_COLOR_FMT_ALIGN(MMM_COLOR_FMT_ROUNDUP(width, tile[1]), 64)
MetaScanlines(height, tile) == MMM_COLOR_FMT_ALIGN(MMM_COLOR_FMT_ROUNDUP(height, tile[2]), 16)

MMM_COLOR_FMT_Y_META_STRIDE(f, width) ==
  IF f \in UbwcYuv /\ width # 0 THEN MetaStride(width, YTile(f)) ELSE 0

MMM_COLOR_FMT_Y_META_SCANLINES(f, height) ==
  IF f \in UbwcYuv /\ height # 0 THEN MetaScanlines(height, YTile(f)) ELSE 0

MMM_COLOR_FMT_UV_META_STRIDE(f, width) ==
  IF f \in UbwcYuv /\ width # 0 THEN MetaStride(Half(width), UVTile(f)) ELSE 0

MMM_COLOR_FMT_UV_META_SCANLINES(f, height) ==
  IF f \in UbwcYuv /\ height # 0 THEN MetaScanlines(Half(height), UVTile(f)) ELSE 0

RgbBytes(f) == CASE f = "RGB565_UBWC" -> 2 [] f = "RGBA16161616F_UBWC" -> 8 [] OTHER -> 4

MMM_COLOR_FMT_RGB_STRIDE(f, width) ==
  IF f \in UbwcRgb \cup {"RGBA8888"} /\ width # 0
  THEN MMM_COLOR_FMT_ALIGN(width * RgbBytes(f), 256) ELSE 0

MMM_COLOR_FMT_RGB_SCANLINES(f, height) ==
  IF height = 0 THEN 0 ELSE
  CASE f = "RGBA8888"  -> MMM_COLOR_FMT_ALIGN(height, 32)
    [] f \in UbwcRgb   -> MMM_COLOR_FMT_ALIGN(height, 16)
    [] OTHER           -> 0

MMM_COLOR_FMT_RGB_META_STRIDE(f, width) ==
  IF f \in UbwcRgb /\ width # 0 THEN MetaStride(width, RgbTile(f)) ELSE 0

MMM_COLOR_FMT_RGB_META_SCANLINES(f, height) ==
  IF f \in UbwcRgb /\ height # 0 THEN MetaScanlines(height, RgbTile(f)) ELSE 0

-----------------------------------------------------------------------------
(* Whole buffers.                                                          *)

Page(size) == MMM_COLOR_FMT_ALIGN(size, 4096)

(* The four compressed planes of a picture, or of one field of it.         *)
UbwcPlanes(f, width, height) ==
  Page(MMM_COLOR_FMT_Y_STRIDE(f, width) * MMM_COLOR_FMT_Y_SCANLINES(f, height))
  + Page(MMM_COLOR_FMT_UV_STRIDE(f, width) * MMM_COLOR_FMT_UV_SCANLINES(f, height))
  + Page(MMM_COLOR_FMT_Y_META_STRIDE(f, width) * MMM_COLOR_FMT_Y_META_SCANLINES(f, height))
  + Page(MMM_COLOR_FMT_UV_META_STRIDE(f, width) * MMM_COLOR_FMT_UV_META_SCANLINES(f, height))

(* Small enough to be delivered as two fields.                             *)
MayInterlace(width, height) ==
  /\ width <= INTERLACE_WIDTH_MAX
  /\ height <= INTERLACE_HEIGHT_MAX
  /\ (height * width) \div 256 <= INTERLACE_MB_PER_FRAME_MAX

MMM_COLOR_FMT_BUFFER_SIZE(f, width, height) ==
  Page(
    IF width = 0 \/ height = 0 THEN 0 ELSE
    CASE f \in LinearYuv ->
           MMM_COLOR_FMT_Y_STRIDE(f, width) * MMM_COLOR_FMT_Y_SCANLINES(f, height)
           + MMM_COLOR_FMT_UV_STRIDE(f, width) * MMM_COLOR_FMT_UV_SCANLINES(f, height)
      [] f = "NV12_UBWC" /\ MayInterlace(width, height) ->
           2 * UbwcPlanes(f, width, Half(height))
      [] f \in UbwcYuv /\ ~(f = "NV12_UBWC" /\ MayInterlace(width, height)) ->
           UbwcPlanes(f, width, height)
      [] OTHER ->
           Page(MMM_COLOR_FMT_RGB_STRIDE(f, width) * MMM_COLOR_FMT_RGB_SCANLINES(f, height))
           + Page(MMM_COLOR_FMT_RGB_META_STRIDE(f, width)
                  * MMM_COLOR_FMT_RGB_META_SCANLINES(f, height)))

MMM_COLOR_FMT_BUFFER_SIZE_USED(f, width, height, interlace) ==
  IF width = 0 \/ height = 0 THEN 0
  ELSE IF ~interlace /\ f = "NV12_UBWC" THEN Page(UbwcPlanes(f, width, height))
  ELSE MMM_COLOR_FMT_BUFFER_SIZE(f, width, height)

-----------------------------------------------------------------------------
(* The layouts that the comments on the formats describe.  They take half  *)
(* of an odd height to round up, and leave the tiles of compressed YUV to  *)
(* the functions: a chroma tile is one of luma, over twice as many lines.  *)

LinearTotal(stride, luma, chroma) == Page(stride * luma + stride * chroma)

MetaPlane(width, height, tile) == Page(MetaStride(width, tile) * MetaScanlines(height, tile))

UbwcTotal(planes, stride, luma, chroma, width, height, tile) ==
  Page(planes * (Page(stride * luma) + Page(stride * chroma)
                 + MetaPlane(width, height, tile)
                 + MetaPlane(width, height, <<tile[1], 2 * tile[2]>>)))

RgbTotal(bytes, width, height, tile) ==
  Page(Page(MMM_COLOR_FMT_ALIGN(width * bytes, 256) * MMM_COLOR_FMT_ALIGN(height, 16))
       + MetaPlane(width, height, tile))

NV12(width, height) ==
  LinearTotal(MMM_COLOR_FMT_ALIGN(width, 128), MMM_COLOR_FMT_ALIGN(height, 32),
              MMM_COLOR_FMT_ALIGN(Half(height), 16))

NV21(width, height) ==
  LinearTotal(MMM_COLOR_FMT_ALIGN(width, 128), MMM_COLOR_FMT_ALIGN(height, 32),
              MMM_COLOR_FMT_ALIGN(Half(height), 16))

P010(width, height) ==
  LinearTotal(MMM_COLOR_FMT_ALIGN(width * 2, 256), MMM_COLOR_FMT_ALIGN(height, 32),
              MMM_COLOR_FMT_ALIGN(Half(height), 16))

P010_512(width, height) ==
  LinearTotal(MMM_COLOR_FMT_ALIGN(width * 2, 512), MMM_COLOR_FMT_ALIGN(height, 32),
              MMM_COLOR_FMT_ALIGN(Half(height), 16))

NV12_512(width, height) ==
  LinearTotal(MMM_COLOR_FMT_ALIGN(width, 512), MMM_COLOR_FMT_ALIGN(height, 512),
              MMM_COLOR_FMT_ALIGN(Half(height), 256))

NV12_UBWC_Progressive(width, height) ==
  UbwcTotal(1, MMM_COLOR_FMT_ALIGN(width, 128), MMM_COLOR_FMT_ALIGN(height, 32),
            MMM_COLOR_FMT_ALIGN(Half(height), 32), width, height, YTile("NV12_UBWC"))

(* Eight planes: the top field and the bottom field have the same four.    *)
NV12_UBWC_Interlaced(width, height) ==
  UbwcTotal(2, MMM_COLOR_FMT_ALIGN(width, 128), MMM_COLOR_FMT_ALIGN(Half(height), 32),
            MMM_COLOR_FMT_ALIGN(Half(Half(height)), 32),
            width, Half(height), YTile("NV12_UBWC"))

NV12_BPP10_UBWC(width, height) ==
  UbwcTotal(1, MMM_COLOR_FMT_ALIGN(MMM_COLOR_FMT_ROUNDUP(width * 4, 3), 256),
            MMM_COLOR_FMT_ALIGN(height, 32), MMM_COLOR_FMT_ALIGN(Half(height), 16),
            width, height, YTile("NV12_BPP10_UBWC"))

P010_UBWC(width, height) ==
  UbwcTotal(1, MMM_COLOR_FMT_ALIGN(width * 2, 256), MMM_COLOR_FMT_ALIGN(height, 16),
            MMM_COLOR_FMT_ALIGN(Half(height), 16), width, height, YTile("P010_UBWC"))

RGBA8888(width, height) ==
  Page(Page(MMM_COLOR_FMT_ALIGN(width * 4, 256) * MMM_COLOR_FMT_ALIGN(height, 32)))

RGBA8888_UBWC(width, height)      == RgbTotal(4, width, height, <<16, 4>>)
RGBA1010102_UBWC(width, height)   == RgbTotal(4, width, height, <<16, 4>>)
RGB565_UBWC(width, height)        == RgbTotal(2, width, height, <<16, 4>>)
RGBA16161616F_UBWC(width, height) == RgbTotal(8, width, height, <<8, 4>>)

Documented(f, width, height) ==
  CASE f = "NV12"               -> NV12(width, height)
    [] f = "NV21"               -> NV21(width, height)
    [] f = "P010"               -> P010(width, height)
    [] f = "P010_512"           -> P010_512(width, height)
    [] f = "NV12_512"           -> NV12_512(width, height)
    [] f = "NV12_UBWC"          -> IF MayInterlace(width, height)
                                   THEN NV12_UBWC_Interlaced(width, height)
                                   ELSE NV12_UBWC_Progressive(width, height)
    [] f = "NV12_BPP10_UBWC"    -> NV12_BPP10_UBWC(width, height)
    [] f = "P010_UBWC"          -> P010_UBWC(width, height)
    [] f = "RGBA8888"           -> RGBA8888(width, height)
    [] f = "RGBA8888_UBWC"      -> RGBA8888_UBWC(width, height)
    [] f = "RGBA1010102_UBWC"   -> RGBA1010102_UBWC(width, height)
    [] f = "RGB565_UBWC"        -> RGB565_UBWC(width, height)
    [] f = "RGBA16161616F_UBWC" -> RGBA16161616F_UBWC(width, height)

-----------------------------------------------------------------------------
CfInit == cfFmt \in mmm_color_fmts /\ cfWidth = 0 /\ cfHeight = 0

CfLarger(n) == {d \in CfDims : n < d /\ d <= CfMaxDim}

CfGrow ==
  /\ \/ cfWidth' \in CfLarger(cfWidth) /\ UNCHANGED cfHeight
     \/ cfHeight' \in CfLarger(cfHeight) /\ UNCHANGED cfWidth
  /\ UNCHANGED cfFmt

CfSpec == CfInit /\ [][CfGrow]_cfVars

-----------------------------------------------------------------------------
(* The bytes of a row of luma or RGB samples: 10-bit samples are packed    *)
(* three to four bytes.                                                    *)
RowBytes(f, width) ==
  CASE f \in {"P010", "P010_UBWC", "P010_512"} -> 2 * width
    [] f = "NV12_BPP10_UBWC"                   -> MMM_COLOR_FMT_ROUNDUP(4 * width, 3)
    [] f \in UbwcRgb \cup {"RGBA8888"}         -> RgbBytes(f) * width
    [] OTHER                                   -> width

(* Every sample, and every tile's metadata, of a width by height picture   *)
(* lies within the planes that the functions above lay out.                *)
Covers(f, width, height) ==
  IF f \in LinearYuv \cup UbwcYuv
  THEN /\ MMM_COLOR_FMT_Y_STRIDE(f, width) >= RowBytes(f, width)
       /\ MMM_COLOR_FMT_UV_STRIDE(f, width) >= RowBytes(f, width)
       /\ width % 2 = 1 => MMM_COLOR_FMT_UV_STRIDE(f, width) >= RowBytes(f, width + 1)
       /\ MMM_COLOR_FMT_Y_SCANLINES(f, height) >= height
       /\ 2 * MMM_COLOR_FMT_UV_SCANLINES(f, height) >= height
       /\ f \in UbwcYuv =>
            /\ MMM_COLOR_FMT_Y_META_STRIDE(f, width) * YTile(f)[1] >= width
            /\ MMM_COLOR_FMT_Y_META_SCANLINES(f, height) * YTile(f)[2] >= height
            /\ MMM_COLOR_FMT_UV_META_STRIDE(f, width) * UVTile(f)[1] * 2 >= width
            /\ MMM_COLOR_FMT_UV_META_SCANLINES(f, height) * UVTile(f)[2] * 2 >= height
  ELSE /\ MMM_COLOR_FMT_RGB_STRIDE(f, width) >= RowBytes(f, width)
       /\ MMM_COLOR_FMT_RGB_SCANLINES(f, height) >= height
       /\ f \in UbwcRgb =>
            /\ MMM_COLOR_FMT_RGB_META_STRIDE(f, width) * RgbTile(f)[1] >= width
            /\ MMM_COLOR_FMT_RGB_META_SCANLINES(f, height) * RgbTile(f)[2] >= height

(* The bytes the planes of a picture take.                                 *)
PlaneBytes(f, width, height) ==
  MMM_COLOR_FMT_Y_STRIDE(f, width) * MMM_COLOR_FMT_Y_SCANLINES(f, height)
  + MMM_COLOR_FMT_UV_STRIDE(f, width) * MMM_COLOR_FMT_UV_SCANLINES(f, height)
  + MMM_COLOR_FMT_Y_META_STRIDE(f, width) * MMM_COLOR_FMT_Y_META_SCANLINES(f, height)
  + MMM_COLOR_FMT_UV_META_STRIDE(f, width) * MMM_COLOR_FMT_UV_META_SCANLINES(f, height)
  + MMM_COLOR_FMT_RGB_STRIDE(f, width) * MMM_COLOR_FMT_RGB_SCANLINES(f, height)
  + MMM_COLOR_FMT_RGB_META_STRIDE(f, width) * MMM_COLOR_FMT_RGB_META_SCANLINES(f, height)

(* The functions compute the size that the comments describe.  In 10-bit   *)
(* NV12 they do so only when the height rounds up to the same number of    *)
(* lines by 16 and by 32: the comment says "Y_Scanlines = align(Height,    *)
(* 32)", the function aligns to 16, and the buffer is smaller than         *)
(* described.                                                              *)
AsDocumented(f, width, height) ==
  LET size == MMM_COLOR_FMT_BUFFER_SIZE(f, width, height)
      documented == Documented(f, width, height)
  IN  /\ f # "NV12_BPP10_UBWC" => size = documented
      /\ f = "NV12_BPP10_UBWC" =>
           /\ size <= documented
           /\ MMM_COLOR_FMT_ALIGN(height, 16) = MMM_COLOR_FMT_ALIGN(height, 32) =>
                size = documented
      /\ f = "NV12_UBWC" => MMM_COLOR_FMT_BUFFER_SIZE_USED(f, width, height, FALSE)
                              = NV12_UBWC_Progressive(width, height)

(* A picture fits its buffer, in each of the thirteen formats.  The planes *)
(* hold every sample; the buffer holds the planes, of a progressive        *)
(* picture and, where the size allows, of the two fields of an interlaced  *)
(* one, whichever the stream turns out to be; what BUFFER_SIZE_USED        *)
(* reports is within it.  A buffer made for a larger picture holds a       *)
(* smaller one, as a decoder that keeps its buffers when the stream's size *)
(* drops relies on.  The exception is a compressed picture that becomes    *)
(* small enough to be interlaced, 1921x1 and 1920x1 for instance: two      *)
(* fields round up more than one picture does.  There only the progressive *)
(* use is monotone.  The size is the one the header documents for the      *)
(* format, with the exception AsDocumented names.                          *)
PlanesFit ==
  cfWidth > 0 /\ cfHeight > 0 =>
    LET size == MMM_COLOR_FMT_BUFFER_SIZE(cfFmt, cfWidth, cfHeight)
        Used(w, h) == MMM_COLOR_FMT_BUFFER_SIZE_USED(cfFmt, w, h, FALSE)
    IN
    /\ Covers(cfFmt, cfWidth, cfHeight)
    /\ AsDocumented(cfFmt, cfWidth, cfHeight)
    /\ Page(size) = size
    /\ size >= PlaneBytes(cfFmt, cfWidth, cfHeight)
    /\ cfFmt = "NV12_UBWC" /\ MayInterlace(cfWidth, cfHeight) =>
         size >= PlaneBytes(cfFmt, cfWidth, cfHeight \div 2)
                 + PlaneBytes(cfFmt, cfWidth, cfHeight - cfHeight \div 2)
    /\ \A interlace \in BOOLEAN :
         MMM_COLOR_FMT_BUFFER_SIZE_USED(cfFmt, cfWidth, cfHeight, interlace) \in 1..size
    /\ \A larger \in (CfLarger(cfWidth) \X {cfHeight}) \cup ({cfWidth} \X CfLarger(cfHeight)) :
         LET w == larger[1]
             h == larger[2]
         IN  /\ Used(cfWidth, cfHeight) <= Used(w, h)
             /\ MayInterlace(cfWidth, cfHeight) = MayInterlace(w, h) =>
                  size <= MMM_COLOR_FMT_BUFFER_SIZE(cfFmt, w, h)

=============================================================================
