------------------------------- MODULE Im2dDrm -------------------------------
(* Buffers described the way the kernel's display code describes them: the  *)
(* overload of wrapbuffer_handle for a DRM fourcc and modifier (im2d.cpp)   *)
(* with core/utils/drm_utils.  A modifier is [vendor, type, block, split]:  *)
(* its vendor and type fields, the four bits of the block size, and the bit *)
(* that is AFBC_FORMAT_MOD_SPLIT for ARM.                                   *)
EXTENDS Im2dApi
LOCAL INSTANCE SequencesExt
LOCAL INSTANCE TLC

(* A packed RGB fourcc: DRM names the components from the high end of a     *)
(* little-endian word, the library in the order of memory.                  *)
RGBA == <<"R", "G", "B", "A">>
BGRA == <<"B", "G", "R", "A">>
ARGB == <<"A", "R", "G", "B">>
ABGR == <<"A", "B", "G", "R">>
RGBX == <<"R", "G", "B", "X">>
BGRX == <<"B", "G", "R", "X">>
XRGB == <<"X", "R", "G", "B">>
XBGR == <<"X", "B", "G", "R">>
RGB == <<"R", "G", "B">>
BGR == <<"B", "G", "R">>

(* Defect: the 32-bit formats keep the order of the name. *)
Packed32_AsNamed == [o \in {RGBA, BGRA, ARGB, ABGR, RGBX, BGRX, XRGB, XBGR} |-> o]
Packed32 == RGBA :> ABGR @@ BGRA :> ARGB @@ ARGB :> BGRA @@ ABGR :> RGBA
            @@ RGBX :> XBGR @@ BGRX :> XRGB @@ XRGB :> BGRX @@ XBGR :> RGBX
Packed30 == ABGR :> RGBA @@ ARGB :> BGRA @@ XBGR :> RGBX @@ XRGB :> BGRX
            @@ RGBA :> ABGR @@ BGRA :> ARGB @@ RGBX :> XBGR @@ BGRX :> XRGB
Packed16 == RGBA :> ABGR @@ BGRA :> ARGB @@ ARGB :> BGRA @@ ABGR :> RGBA
Packed24 == RGB :> BGR @@ BGR :> RGB

(* The YUV formats by their names. *)
Yuv ==
  [ YUV420_8BIT |-> "YCbCr_420_SP",  YUV420_10BIT |-> "YCbCr_420_SP_10B",
    NV12 |-> "YCbCr_420_SP",         NV21 |-> "YCrCb_420_SP",
    NV15 |-> "YCbCr_420_SP_10B",     P010 |-> "P010",
    YUV420 |-> "YCbCr_420_P",        YVU420 |-> "YCrCb_420_P",
    YUYV |-> "YUYV_422",             YVYU |-> "YVYU_422",
    UYVY |-> "UYVY_422",             VYUY |-> "VYUY_422",      Y210 |-> "Y210",
    NV16 |-> "YCbCr_422_SP",         NV61 |-> "YCrCb_422_SP",
    NV20 |-> "YCbCr_422_SP_10B",     P210 |-> "P210",
    YUV422 |-> "YCbCr_422_P",        YVU422 |-> "YCrCb_422_P",
    VUY101010 |-> "YUV_444_10B",
    NV24 |-> "YCbCr_444_SP",         NV42 |-> "YCrCb_444_SP" ]

(* A fourcc is [bits, name]: 16 with five or four bits a colour and an      *)
(* alpha, 565 and 888 with three components, 32, 30, or 0 for YUV, whose    *)
(* name is one word.                                                        *)
TableOf(bits) ==
  CASE bits = 16 -> Packed16 [] bits \in {565, 888} -> Packed24
    [] bits = 30 -> Packed30 [] bits = 32 -> Packed32
Names(bits) == IF bits = 0 THEN {<<x>> : x \in DOMAIN Yuv} ELSE DOMAIN TableOf(bits)
drm_fourcc_table ==
  [f \in UNION {{[bits |-> n, name |-> x] : x \in Names(n)} : n \in {0, 16, 30, 32, 565, 888}}
     |-> IF f.bits = 0 THEN Yuv[f.name[1]] ELSE TableOf(f.bits)[f.name]]
get_format_from_drm_fourcc(f) ==
  IF f \in DOMAIN drm_fourcc_table THEN drm_fourcc_table[f] ELSE "UNKNOWN"

(* The format of Im2dHardware that stands for an RK_FORMAT: the checks do   *)
(* not tell the orders apart, except where the alpha of 16 bits is.         *)
Stands(bits, rk) ==
  CASE bits = 16 -> IF Head(rk) = "A" THEN "ARGB_5551" ELSE "RGBA_5551"
    [] bits = 565 -> "RGB_565" [] bits = 888 -> "RGB_888"
    [] bits = 30 -> "RGBA_1010102" [] bits = 32 -> "RGBA_8888"
    [] rk \in {"YCbCr_420_SP", "YCrCb_420_SP"} -> "YCbCr_420_SP"
    [] rk \in {"YCbCr_420_P", "YCrCb_420_P"} -> "YCbCr_420_P"
    [] rk \in {"YCbCr_422_SP", "YCrCb_422_SP"} -> "YCbCr_422_SP"
    [] rk \in {"YCbCr_422_P", "YCrCb_422_P"} -> "YCbCr_422_P"
    [] rk \in {"YCbCr_444_SP", "YCrCb_444_SP"} -> "YCbCr_444_SP"
    [] rk \in {"YUYV_422", "YVYU_422", "UYVY_422", "VYUY_422"} -> "YUYV_422"
    [] OTHER -> rk

(* Everything that is not recognised is taken for raster. *)
get_mode_from_drm_modifier(m) ==
  CASE m.vendor = "ARM" /\ m.type = "AFBC" /\ m.block = 1 -> "FBC"
    [] m.vendor = "ARM" /\ m.type = "AFBC" /\ m.block = 2 -> "AFBC32x8"
    [] m.vendor = "ROCKCHIP" /\ m.type = "RFBC" /\ m.block % 2 = 1 -> "RKFBC64x4"
    [] m.vendor = "ROCKCHIP" /\ m.type = "TILED" /\ m.block = 2 -> "TILE4x4"
    [] m.vendor = "ROCKCHIP" /\ m.type = "TILED" /\ m.block = 1 -> "TILE"
    [] OTHER -> "RASTER"

NotSplit == {"YUV420_8BIT", "YUV420_10BIT", "YUYV", "Y210"}
(* 32x8 blocks are split for RGB and are not for YUV.  The vendor is not    *)
(* looked at.                                                               *)
check_drm_modifier_afbc(f, m) ==
  m.block = 2 =>
    /\ f.bits \in {888, 30, 32} \/ (f.bits = 0 /\ f.name[1] = "VUY101010") => m.split
    /\ f.bits = 0 /\ f.name[1] \in NotSplit => ~m.split

wrapbuffer_handle_drm(w, h, f, m, ws, hs) ==
  IF ~check_drm_modifier_afbc(f, m) THEN NoBuffer
  ELSE [set_default_rga_buffer("handle", w, h, Stands(f.bits, get_format_from_drm_fourcc(f)),
                               OrElse(ws, w), OrElse(hs, h))
        EXCEPT !.rd = get_mode_from_drm_modifier(m)]

-----------------------------------------------------------------------------
(* Properties *)

(* Sampling, planes, first chroma component and bits: what drm_fourcc.h     *)
(* says of a fourcc.  The two formats without an RGA counterpart only exist *)
(* compressed and are what the plain ones are.                              *)
DrmLayout ==
  [ NV12 |-> <<420, 2, "Cb", 8>>,   NV21 |-> <<420, 2, "Cr", 8>>,   NV15 |-> <<420, 2, "Cb", 10>>,
    NV16 |-> <<422, 2, "Cb", 8>>,   NV61 |-> <<422, 2, "Cr", 8>>,   NV20 |-> <<422, 2, "Cb", 10>>,
    NV24 |-> <<444, 2, "Cb", 8>>,   NV42 |-> <<444, 2, "Cr", 8>>,
    YUV420 |-> <<420, 3, "Cb", 8>>, YVU420 |-> <<420, 3, "Cr", 8>>,
    YUV422 |-> <<422, 3, "Cb", 8>>, YVU422 |-> <<422, 3, "Cr", 8>>,
    YUV420_8BIT |-> <<420, 2, "Cb", 8>>, YUV420_10BIT |-> <<420, 2, "Cb", 10>>,
    YUYV |-> <<422, 1, "Y0CbY1Cr", 8>>, YVYU |-> <<422, 1, "Y0CrY1Cb", 8>>,
    UYVY |-> <<422, 1, "CbY0CrY1", 8>>, VYUY |-> <<422, 1, "CrY0CbY1", 8>>,
    VUY101010 |-> <<444, 1, "Cb", 10>> ]
(* What rga.h says of an RK_FORMAT. *)
RkLayout ==
  [ YCbCr_420_SP |-> <<420, 2, "Cb", 8>>,  YCrCb_420_SP |-> <<420, 2, "Cr", 8>>,
    YCbCr_422_SP |-> <<422, 2, "Cb", 8>>,  YCrCb_422_SP |-> <<422, 2, "Cr", 8>>,
    YCbCr_444_SP |-> <<444, 2, "Cb", 8>>,  YCrCb_444_SP |-> <<444, 2, "Cr", 8>>,
    YCbCr_420_P |-> <<420, 3, "Cb", 8>>,   YCrCb_420_P |-> <<420, 3, "Cr", 8>>,
    YCbCr_422_P |-> <<422, 3, "Cb", 8>>,   YCrCb_422_P |-> <<422, 3, "Cr", 8>>,
    YCbCr_420_SP_10B |-> <<420, 2, "Cb", 10>>, YCbCr_422_SP_10B |-> <<422, 2, "Cb", 10>>,
    YUYV_422 |-> <<422, 1, "Y0CbY1Cr", 8>>, YVYU_422 |-> <<422, 1, "Y0CrY1Cb", 8>>,
    UYVY_422 |-> <<422, 1, "CbY0CrY1", 8>>, VYUY_422 |-> <<422, 1, "CrY0CbY1", 8>>,
    YUV_444_10B |-> <<444, 1, "Cb", 10>> ]
SameBytes(f) ==
  LET rk == get_format_from_drm_fourcc(f)
  IN  IF f.bits = 0 THEN DrmLayout[f.name[1]] = RkLayout[rk] ELSE rk = Reverse(f.name)

(* The storage a modifier describes, for those the cores have. *)
Storage(m) ==
  CASE m.type = "LINEAR" -> "RASTER"
    [] m.type = "AFBC" /\ m.block = 1 -> "FBC"       [] m.type = "AFBC" /\ m.block = 2 -> "AFBC32x8"
    [] m.type = "RFBC" /\ m.block = 1 -> "RKFBC64x4" [] m.type = "TILED" /\ m.block = 1 -> "TILE"
    [] m.type = "TILED" /\ m.block = 2 -> "TILE4x4"  [] OTHER -> "unknown"

(* A copy from a buffer the application described in DRM's terms succeeds   *)
(* only when the driver is told the same bytes: the same order of           *)
(* components in memory, whichever end DRM names them from (drm_utils.cpp   *)
(* 52-128), and the storage of the modifier, for the modifiers the cores    *)
(* have.  What any other modifier says is not checked: the library takes it *)
(* for raster (172).  A format or a modifier that was refused when the      *)
(* buffer was wrapped never reaches the driver, although the refusal is     *)
(* only a structure of zeros.                                               *)
DrmSourceKept ==
  api # NoApi /\ "drm" \in DOMAIN api.args /\ api.result = "SUCCESS" =>
    LET f == api.args.drm.fourcc  m == api.args.drm.modifier
    IN  /\ f \in DOMAIN drm_fourcc_table /\ SameBytes(f)
        /\ Storage(m) # "unknown" => api.done[1].req.reg.rd[1] = Storage(m)
=============================================================================
