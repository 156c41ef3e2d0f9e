---------------------------- MODULE Im2dHardware ----------------------------
(* What the library knows about pixel formats and about the RGA cores: the  *)
(* capability table of each hardware generation (im2d_hardware.h), the      *)
(* corrections per SoC and the merge of the cores of one device             *)
(* (rga_get_info).  Bit masks are sets of names.  A format stands for all   *)
(* formats the code treats alike: channel order is not told apart.          *)
EXTENDS Integers, Sequences

(* One table of two. *)
Joined(f, g) == [x \in DOMAIN f \cup DOMAIN g |-> IF x \in DOMAIN f THEN f[x] ELSE g[x]]

(* class: the support bit rga_check_format asks for; bits: stride of one    *)
(* pixel.                                                                   *)
Format(class, bits) == [class |-> class, bits |-> bits]

PackedFormats ==
  [ RGBA_8888       |-> Format("RGB", 32),
    RGB_888         |-> Format("RGB", 24),
    RGB_565         |-> Format("RGB", 16),
    ARGB_5551       |-> Format("ARGB_16BIT", 16),
    RGBA_5551       |-> Format("RGBA_16BIT", 16),
    RGBA_1010102    |-> Format("RGBA_1010102", 32),
    BPP8            |-> Format("BPP", 8),
    RGBA2BPP        |-> Format("RGBA2BPP", 2),
    A8              |-> Format("ALPHA_8_BIT", 8) ]

YuvFormats ==
  [ YCbCr_420_SP    |-> Format("420_SP_8", 8),
    YCbCr_420_P     |-> Format("420_P_8", 8),
    YCbCr_422_SP    |-> Format("422_SP_8", 8),
    YCbCr_422_P     |-> Format("422_P_8", 8),
    YCbCr_420_SP_10B |-> Format("420_SP_10", 10),
    YCbCr_422_SP_10B |-> Format("422_SP_10", 10),
    YUYV_420        |-> Format("YUYV_420", 16),
    YUYV_422        |-> Format("YUYV_422", 16),
    YCbCr_400       |-> Format("YUV_400", 8),
    YCbCr_444_SP    |-> Format("444_SP_8", 8),
    YUV_444_10B     |-> Format("444_10", 30),
    Y8              |-> Format("Y8", 8),
    Y4              |-> Format("Y4", 4) ]

FormatTable == Joined(PackedFormats, YuvFormats)

(* convert_to_rga_format: every other number is RK_FORMAT_UNKNOWN. *)
Known(f) == f \in DOMAIN FormatTable
is_rgb_format(f) ==
  f \in {"RGBA_8888", "RGB_888", "RGB_565", "ARGB_5551", "RGBA_5551", "RGBA_1010102"}
is_yuv_format(f) == f \in DOMAIN YuvFormats

-----------------------------------------------------------------------------
(* hw_info_table *)

Size(w, h) == [w |-> w, h |-> h]
Base8 == {"RGB", "ARGB_16BIT", "420_SP_8", "420_P_8", "422_SP_8", "422_P_8"}
Base10 == {"420_SP_10", "422_SP_10"}
FillPalette == {"COLOR_FILL", "COLOR_PALETTE"}

Entry(v, in, out, stride, scale, performance, infmt, outfmt, feat, bicubic) ==
  [ version |-> {v}, input_resolution |-> in, output_resolution |-> out,
    byte_stride |-> stride, scale_limit |-> scale, performance |-> performance,
    input_format |-> infmt, output_format |-> outfmt, feature |-> feat,
    scale_ver_bicubic_limit |-> bicubic ]

NoEntry == [ version |-> {}, input_resolution |-> Size(0, 0), output_resolution |-> Size(0, 0),
             byte_stride |-> 0, scale_limit |-> 0, performance |-> 0, input_format |-> {}, output_format |-> {},
             feature |-> {}, scale_ver_bicubic_limit |-> 0 ]

Out8 == Base8 \cup {"RGBA_16BIT"}

OlderCores ==
  LET k2 == Size(2048, 2048)
      k4 == Size(4096, 4096)
      k8 == Size(8192, 8192)
  IN
  [ V_ERR   |-> [NoEntry EXCEPT !.version = {"V_ERR"}],
    RGA_1   |-> Entry("RGA_1", k8, k2, 4, 8, 1, Base8 \cup {"BPP"}, Out8,
                      FillPalette \cup {"ROP"}, 0),
    RGA_1_PLUS |-> Entry("RGA_1_PLUS", k8, k4, 4, 8, 1, Base8 \cup {"BPP"}, Out8,
                      FillPalette, 0),
    RGA_2   |-> Entry("RGA_2", k8, k4, 4, 16, 2, Base8, Out8, FillPalette \cup {"ROP"}, 1928),
    LITE0   |-> Entry("LITE0", k8, k4, 4, 8, 2, Base8, Out8, FillPalette \cup {"ROP"}, 1928),
    LITE1   |-> Entry("LITE1", k8, k4, 4, 8, 2, Base8 \cup Base10, Out8, FillPalette, 1928),
    ENHANCE |-> Entry("ENHANCE", k8, k4, 4, 16, 2, Base8 \cup Base10,
                      Out8 \cup {"YUYV_420", "YUYV_422"}, FillPalette \cup {"ROP"}, 1928) ]

NewerCores ==
  LET k8 == Size(8192, 8192)
      lite2 == Size(2880, 8192)
      rga3 == {"RGB", "420_SP_8", "422_SP_8", "YUYV_422"} \cup Base10
  IN
  [ PRO     |-> Entry("PRO", k8, k8, 4, 16, 2,
                      Base8 \cup Base10 \cup {"YUV_400", "444_SP_8", "YUYV_422", "RGBA2BPP",
                                              "ALPHA_8_BIT"},
                      Out8 \cup {"Y4", "YUV_400", "444_SP_8", "YUYV_420", "YUYV_422", "Y8"},
                      FillPalette \cup {"ROP", "QUANTIZE", "SRC1_R2Y_CSC", "DST_FULL_CSC",
                                        "MOSAIC", "OSD", "PRE_INTR", "ALPHA_BIT_MAP"}, 1928),
    LITE2   |-> Entry("LITE2", lite2, lite2, 4, 16, 2, Base8 \cup Base10 \cup {"YUV_400", "YUYV_422"},
                      Out8 \cup {"YUV_400", "YUYV_422"}, FillPalette, 0),
    RGA_3   |-> Entry("RGA_3", Size(8176, 8176), Size(8128, 8128), 16, 8, 4, rga3, rga3,
                      {"FBC", "BLEND_YUV", "BT2020"}, 8128) ]

hw_info_table == Joined(OlderCores, NewerCores)

-----------------------------------------------------------------------------
(* rga_get_info: one entry per known core (SoC), as the switch corrects it. *)

Adjust(e, infmt, outfmt, feat, unfeat) ==
  [e EXCEPT !.input_format = @ \cup infmt, !.output_format = @ \cup outfmt,
            !.feature = (@ \cup feat) \ unfeat]

CoreTable ==
  LET t == hw_info_table
      csc == {"SRC1_R2Y_CSC", "DST_FULL_CSC"}
      in2 == {"YUYV_422", "YUV_400"}
      osd == {"MOSAIC", "OSD", "PRE_INTR"}
      y48 == {"Y4", "Y8"}
      rv1106 == Adjust(t.ENHANCE, in2 \cup {"RGBA2BPP"}, {"YUV_400", "Y4"},
                       csc \cup osd \cup {"QUANTIZE"}, {})
  IN
  [ RK3288 |-> t.RGA_2,
    RK1108 |-> t.ENHANCE,
    RGA3   |-> t.RGA_3,
    RK3399 |-> Adjust(t.ENHANCE, {}, {}, {"ROP"}, {}),
    RK3568 |-> Adjust(t.ENHANCE, in2, {"YUV_400", "Y4"}, csc \cup {"QUANTIZE"}, {}),
    RV1106 |-> rv1106,
    RK3506 |-> [Adjust(t.ENHANCE, in2 \cup {"ALPHA_8_BIT"}, {"YUV_400"}, csc \cup {"GAUSS"}, {"ROP"})
                EXCEPT !.input_resolution = Size(1280, 8192),
                       !.output_resolution = Size(1280, 4096),
                       !.scale_ver_bicubic_limit = 600],
    RK3576 |-> t.PRO,
    RV1126B |-> [Adjust(t.PRO, {}, {}, {}, {"MOSAIC", "ROP", "QUANTIZE"})
                 EXCEPT !.output_format = @ \ y48],
    RK1820 |-> [Adjust(t.PRO, {}, {}, {}, {"MOSAIC"}) EXCEPT !.output_format = @ \ y48],
    RV1103B |-> t.LITE2,
    RK3368 |-> t.LITE0,
    RK3326 |-> Adjust(t.LITE1, {}, {}, {"SRC1_R2Y_CSC"}, {}),
    RK3538 |-> Adjust(t.PRO, {"RGBA_16BIT"}, Base10 \cup {"RGBA_1010102", "444_10"},
                      {"SECURE"}, {"QUANTIZE", "ROP"}),
    RK3228 |-> t.LITE1 ]

(* A core the library does not know is asked for the version string of the  *)
(* first core.                                                              *)
Compatible ==
  [ v1_3 |-> "RGA_1", v1_6 |-> "RGA_1_PLUS", v2_00 |-> "RGA_2", v3_00 |-> "RGA_2",
    v3_02 |-> "ENHANCE", v4_00 |-> "LITE0" ]

(* Defect: the core listed last wins. *)
Larger_Last(a, b) == b

Larger(a, b) == IF a >= b THEN a ELSE b
LargerSize(a, b) == IF b.w > a.w /\ b.h > a.h THEN b ELSE a

rga_support_info_merge_table(dst, new) ==
  [ version |-> dst.version \cup new.version,
    input_resolution |-> LargerSize(dst.input_resolution, new.input_resolution),
    output_resolution |-> LargerSize(dst.output_resolution, new.output_resolution),
    byte_stride |-> Larger(dst.byte_stride, new.byte_stride),
    scale_limit |-> Larger(dst.scale_limit, new.scale_limit),
    performance |-> Larger(dst.performance, new.performance),
    input_format |-> dst.input_format \cup new.input_format,
    output_format |-> dst.output_format \cup new.output_format,
    feature |-> dst.feature \cup new.feature,
    scale_ver_bicubic_limit |-> Larger(dst.scale_ver_bicubic_limit, new.scale_ver_bicubic_limit) ]

(* A device: its cores in the order the driver reports them, the version    *)
(* string of the first and the driver's generation.                         *)
KnownCores(device) == \A i \in DOMAIN device.cores : device.cores[i] \in DOMAIN CoreTable

(* The loop over the cores: merged[n] is the table after the first n. *)
MergedTables(cores) ==
  LET merged[n \in 0 .. Len(cores)] ==
        IF n = 0 THEN NoEntry
        ELSE rga_support_info_merge_table(merged[n - 1], CoreTable[cores[n]])
  IN  merged

rga_get_info(device) ==
  IF KnownCores(device)
  THEN MergedTables(device.cores)[Len(device.cores)]
  ELSE IF device.str \in DOMAIN Compatible THEN hw_info_table[Compatible[device.str]]
  ELSE hw_info_table.V_ERR
=============================================================================
