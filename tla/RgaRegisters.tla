----------------------------- MODULE RgaRegisters -----------------------------
(* The fields of a driver request (struct rga_req) other than its windows:  *)
(* how it names its buffers and which of them go through the MMU, and the   *)
(* alpha and logic registers the features of a call share.  The setters of  *)
(* NormalRgaApi.cpp serve both interfaces; what is computed for them in     *)
(* generate_blit_req and its siblings is here, the legacy copies are in     *)
(* RgaLegacy.  Addresses are symbols: which pointer, descriptor or handle   *)
(* of the caller a field holds.                                             *)
EXTENDS Im2dCheck

Null == "null"

-----------------------------------------------------------------------------
(* Buffers.  The rga_info_t of an operand: exactly one address is set, and  *)
(* stands for the operand by its name.                                      *)
rga_set_buffer_info(name, b) ==
  LET at(kind) == IF b.addr = kind THEN name ELSE Null
  IN  [handle |-> at("handle"), phyAddr |-> at("phy"), fd |-> at("fd"), virAddr |-> at("vir"),
       mmuFlag |-> b.addr \in {"fd", "vir"}]

NoInfo == rga_set_buffer_info("none", [addr |-> "none"])

(* "get src addr": a handle takes the place of a descriptor; a descriptor   *)
(* of 0 or -1 is none.                                                      *)
GetAddress(info) ==
  CASE info.handle # Null -> [Fd |-> info.handle, Buf |-> Null]
    [] info.handle = Null /\ info.phyAddr # Null -> [Fd |-> Null, Buf |-> info.phyAddr]
    [] info.handle = Null /\ info.phyAddr = Null -> [Fd |-> info.fd, Buf |-> info.virAddr]

(* Defect: the handle's flag is left as the comparison of two null pointers *)
(* made it.                                                                 *)
MmuFlag_NoFd(info) ==
  LET a == GetAddress(info) IN IF a.Fd # Null /\ a.Fd = info.fd THEN info.mmuFlag ELSE a.Buf = info.virAddr

(* A chain of tests, the last that applies decides: for a descriptor the    *)
(* first two compare null with null.                                        *)
MmuFlag(info) ==
  LET a == GetAddress(info)
      byVir == a.Buf = info.virAddr
      byPhy == byVir /\ a.Buf # info.phyAddr
      byFd == byPhy /\ a.Fd = Null
  IN  IF a.Fd # Null /\ a.Fd = info.fd THEN info.mmuFlag ELSE byFd

(* NormalRgaSetSrcVirtualInfo and its twins: the three plane addresses.     *)
(* "offset" is a number of bytes added to a null pointer.                   *)
Planes(y, uv, v) == [y |-> y, uv |-> uv, v |-> v]
NoPlanes == Planes(Null, Null, Null)
Past(buf) == IF buf = Null THEN "offset" ELSE "past"

(* The layout a driver wants its addresses in. *)
AddressLayout(device) ==
  CASE device.driver # "RGA1" -> "planes"
    [] device.driver = "RGA1" /\ (device.number % 1000) \div 100 < 6 -> "virtual"
    [] OTHER -> "fds"

OldPlanes(a) == Planes(a.Buf, Past(a.Buf), Past(a.Buf))

(* RGA_DRIVER_IOC_RGA1, below and from minor version 6. *)
Rga1Planes(layout, info) ==
  LET a == GetAddress(info)
  IN  IF layout = "fds" /\ a.Fd # Null THEN NoPlanes ELSE OldPlanes(a)

NoFds == <<Null, Null>>

(* NormalRgaSetFdsOffsets writes both halves: the last descriptor stays.    *)
Fds(layout, src, src1, dst) ==
  LET fd(info) == GetAddress(info).Fd
  IN  IF layout # "fds" THEN NoFds
      ELSE IF fd(dst) # Null THEN <<Null, fd(dst)>>
      ELSE IF fd(src1) # Null THEN <<Null, fd(src1)>>
      ELSE <<fd(src), Null>>

(* Defect: handle mode computes a third plane. *)
BlitPlanes_Offset(layout, info) ==
  LET a == GetAddress(info)
  IN  IF layout = "planes" THEN Planes(a.Fd, a.Buf, Past(a.Buf)) ELSE Rga1Planes(layout, info)

(* generate_blit_req: in handle mode a plane is a handle or nothing. *)
BlitPlanes(layout, info) ==
  LET a == GetAddress(info)
  IN  IF layout = "planes"
      THEN Planes(a.Fd, a.Buf, IF info.handle # Null THEN Null ELSE Past(a.Buf))
      ELSE Rga1Planes(layout, info)

(* generate_fill_req and generate_color_palette_req have no such case. *)
FillPlanes(layout, info) ==
  LET a == GetAddress(info)
  IN  IF layout = "planes" THEN Planes(a.Fd, a.Buf, Past(a.Buf)) ELSE Rga1Planes(layout, info)

(* NormalRgaMmuInfo and NormalRgaMmuFlag, for source and destination. *)
MmuInfo(src, dst) ==
  IF src \/ dst THEN {"EN"} \cup (IF src THEN {"SRC"} ELSE {}) \cup (IF dst THEN {"DST"} ELSE {})
  ELSE {}

(* A blit's pattern adds its bits whether or not the MMU is enabled. *)
BlitMmu(layout, src, src1, usePat, dst) ==
  LET on(info) == layout = "virtual" \/ MmuFlag(info)
  IN  MmuInfo(on(src), on(dst)) \cup (IF usePat /\ on(src1) THEN {"SRC1"} ELSE {})

(* A palette enables the MMU for any of its three buffers. *)
PaletteMmu(layout, src, lut, dst) ==
  LET on(info) == layout = "virtual" \/ MmuFlag(info)
  IN  MmuInfo(on(src), on(dst)) \cup (IF on(lut) THEN {"EN", "SRC1"} ELSE {})

(* A fill sets both flags from the one buffer; none in the oldest layout. *)
FillMmu(layout, dst) ==
  LET on == layout # "virtual" /\ MmuFlag(dst) IN MmuInfo(on, on)

-----------------------------------------------------------------------------
(* Alpha, logic and colour registers.  rga_info_t.blend is a word of mode,  *)
(* pre-multiplication and the two global alphas.                            *)

Word(mode, premul, fg, bg) == [mode |-> mode, premul |-> premul, fg |-> fg, bg |-> bg]
NoWord == Word("NONE", FALSE, 0, 0)
Opaque == 255

(* flag and mode are alpha_rop_flag and alpha_rop_mode as sets of bits.     *)
(* Bit 9 is both "pre-multiply" and "real colour".                          *)
NoAlpha ==
  [flag |-> {}, mode |-> {}, PD_mode |-> "NONE", fg |-> 0, bg |-> 0, rop |-> 0,
   key |-> "none", gr_color |-> "zero", dither_mode |-> 0]

NormalRgaSetAlphaEnInfo(r, w) ==
  [r EXCEPT !.flag = @ \cup {"ALPHA", "PD", "CAL"}, !.mode = @ \cup {"PIXEL"},
            !.fg = w.fg, !.bg = w.bg, !.PD_mode = w.mode]

NormalRgaSetSrcTransModeInfo(r, key) ==
  [r EXCEPT !.key = key, !.mode = @ \cup {"ZERO"}]

NormalRgaNNQuantizeMode(r, quantize) ==
  IF quantize THEN [r EXCEPT !.flag = @ \cup {"NN"}, !.gr_color = "nn"] ELSE r

(* Dithering to four bits overwrites the flags, and four of the six numbers *)
(* of a quantization.                                                       *)
NormalRgaDitherMode(r, dither, fmt) ==
  LET on == IF dither.enable THEN [r EXCEPT !.flag = {"ALPHA", "DITHER"}] ELSE r
  IN  IF fmt \in {"Y4", "Y8"}
      THEN [on EXCEPT !.dither_mode = dither.mode,
                      !.gr_color = IF @ = "nn" THEN "mixed" ELSE "lut"]
      ELSE on

(* The codes of the legacy interface among the modes of the driver. *)
LegacyCodes == {"0x405", "0x504", "0x105", "0x501", "0x100"}

LegacyCode(w) ==
  CASE w.mode = "0x405" -> Word("SRC_OVER", TRUE, w.fg, Opaque)
    [] w.mode = "0x504" -> Word("DST_OVER", TRUE, Opaque, Opaque)
    [] w.mode = "0x105" -> Word("SRC_OVER", FALSE, w.fg, Opaque)
    [] w.mode = "0x501" -> Word("DST_OVER", FALSE, Opaque, Opaque)
    [] w.mode = "0x100" -> Word("SRC", FALSE, Opaque, Opaque)
    [] OTHER -> w

SetBlend(r, word) ==
  LET w == LegacyCode(word)
      set == NormalRgaSetAlphaEnInfo(r, w)
  IN  IF word.mode = "NONE" THEN r
      ELSE IF w.premul THEN [set EXCEPT !.flag = @ \cup {"BIT9"}] ELSE set

(* Any RGB source and a 565 destination: the source's own format is         *)
(* compared with `||'.                                                      *)
ditherEn(src, dst) == is_rgb_format(src) /\ dst = "RGB_565"

NormalRgaSetBitbltMode(r, dither_en) ==
  IF dither_en THEN [r EXCEPT !.flag = @ \cup {"DITHER"}] ELSE r

(* A logic operation replaces what was set before it. *)
SetRop(r, code) ==
  IF code > 0 THEN [r EXCEPT !.rop = code, !.flag = {"ALPHA", "ROP"}, !.mode = {"PIXEL"}] ELSE r

SetColorKey(r, key) ==
  IF key = "none" THEN r
  ELSE NormalRgaSetSrcTransModeInfo([r EXCEPT !.flag = @ \cup {"BIT9"}], key)

-----------------------------------------------------------------------------
(* What rga_task_submit puts into rga_info_t of the usage and the options.  *)

ColorKeys == {"KEY_NORMAL", "KEY_INVERTED"}

(* Both modes at once leave the field at 0. *)
colorkey_mode(usage) ==
  CASE usage \cap ColorKeys = {} -> "none"
    [] usage \cap ColorKeys = {"KEY_INVERTED"} -> "inverted"
    [] OTHER -> "normal"

(* The options as the library reads them, of the fields modelled: a         *)
(* structure of an older header has neither the Gaussian part nor an        *)
(* interpolation (task_interp), and one it takes for a colour is not read   *)
(* at all (the failure is ignored).                                         *)
rga_get_opt(opt) ==
  CASE opt.api = "above" -> [opt EXCEPT !.rop = 0, !.ksize = 0]
    [] opt.api = "1.7.2" -> [opt EXCEPT !.ksize = 0]
    [] OTHER -> opt

task_rop(c) == IF "ROP" \in c.usage THEN rga_get_opt(c.opt).rop ELSE 0

(* Several modes at once match no case; a key without a mode blends SRC. *)
task_blend(c) ==
  LET w == IF "BLEND" \in c.usage
           THEN Word(IF c.blend.mode = "several" THEN "NONE" ELSE c.blend.mode,
                     "PRE_MUL" \in c.usage, c.blend.fg, c.blend.bg)
           ELSE NoWord
      keyed == IF c.usage \cap ColorKeys # {} /\ w.mode = "NONE"
               THEN Word("SRC", TRUE, Opaque, Opaque) ELSE w
  IN  IF "GAUSS" \in c.usage /\ keyed.fg # Opaque THEN [keyed EXCEPT !.fg = c.blend.fg] ELSE keyed

task_dither(c) ==
  IF c.dst.fmt \in {"Y4", "Y8"}
  THEN [enable |-> c.y4 # "RGB_TO_Y4", mode |-> IF c.y4 = "RGB_TO_Y1_DITHER" THEN 1 ELSE 0]
  ELSE [enable |-> FALSE, mode |-> 0]

(* Features with fields of their own.  The alpha bits of a 5551 pattern     *)
(* are looked up in the pattern even when nothing reads it.                 *)
OwnFields == {"MOSAIC", "OSD", "PRE_INTR", "GAUSS"}
task_fields(c) ==
  (c.usage \cap OwnFields) \cup
  (IF "ALPHA_BIT_MAP" \in c.usage /\ c.pat.fmt \in {"RGBA_5551", "ARGB_5551"} THEN {"RGBA5551"} ELSE {})

(* Defect: dithering is set up before the quantization and after the logic  *)
(* operation.                                                               *)
BlitAlpha_Order(c) ==
  LET r == NormalRgaSetBitbltMode(SetBlend(NoAlpha, task_blend(c)), ditherEn(c.src.fmt, c.dst.fmt))
      nn == NormalRgaNNQuantizeMode(r, "QUANTIZE" \in c.usage)
      key == SetColorKey(nn, colorkey_mode(c.usage))
  IN  NormalRgaDitherMode(SetRop(key, task_rop(c)), task_dither(c), c.dst.fmt)

(* generate_blit_req, in its order. *)
BlitAlpha(c) ==
  LET r == NormalRgaSetBitbltMode(SetBlend(NoAlpha, task_blend(c)), ditherEn(c.src.fmt, c.dst.fmt))
      nn == NormalRgaNNQuantizeMode(r, "QUANTIZE" \in c.usage)
      dither == NormalRgaDitherMode(nn, task_dither(c), c.dst.fmt)
      rop == SetRop(dither, task_rop(c))
      key == SetColorKey(rop, colorkey_mode(c.usage))
  IN  IF "GAUSS" \in c.usage THEN [key EXCEPT !.fg = task_blend(c).fg] ELSE key

(* Three coefficients for a 3 x 3 kernel, or none. *)
rga_generate_gauss_coe(opt) ==
  IF rga_get_opt(opt).ksize = 3 THEN [status |-> "SUCCESS", size |-> (3 + 3) \div 2]
  ELSE [status |-> "NOT_SUPPORTED", size |-> 0]

-----------------------------------------------------------------------------
(* Turns.  The tables at the four angles a request can have. *)

Angle(rot) == CASE rot = "ROT_90" -> 90 [] rot = "ROT_180" -> 180 [] rot = "ROT_270" -> 270 [] OTHER -> 0
sina_table == [a \in {0, 90, 180, 270} |-> IF a = 90 THEN 65536 ELSE IF a = 270 THEN -65536 ELSE 0]
cosa_table == [a \in {0, 90, 180, 270} |-> IF a = 0 THEN 65536 ELSE IF a = 180 THEN -65536 ELSE 0]

(* The registers of a request of zeros. *)
NoRegs ==
  [src |-> NoPlanes, src1 |-> NoPlanes, dst |-> NoPlanes, fds |-> NoFds, mmu |-> {},
   handle |-> FALSE, clip |-> Size(0, 0), rd |-> <<>>, sina |-> 0, cosa |-> 0,
   alpha |-> NoAlpha, fields |-> {}, palette_mode |-> 0]

palette_mode(fmt) == IF fmt \in {"BPP8", "YCbCr_400"} THEN 3 ELSE 0

(* Storage modes, of the pattern only when there is one. *)
RdModes(src, pat, usePat, dst) == IF usePat THEN <<src.rd, dst.rd, pat.rd>> ELSE <<src.rd, dst.rd>>

blit_regs(layout, c, src, pat, usePat, dst, rot, clip) ==
  LET s == rga_set_buffer_info("src", src)
      p == IF usePat THEN rga_set_buffer_info("src1", pat) ELSE NoInfo
      d == rga_set_buffer_info("dst", dst)
  IN  [NoRegs EXCEPT !.src = BlitPlanes(layout, s), !.dst = BlitPlanes(layout, d),
                     !.src1 = IF usePat THEN BlitPlanes(layout, p) ELSE NoPlanes,
                     !.fds = Fds(layout, s, p, d),
                     !.mmu = BlitMmu(layout, s, p, usePat, d),
                     !.handle = d.handle # Null,
                     !.clip = clip,
                     !.rd = RdModes(src, pat, usePat, dst),
                     !.sina = sina_table[Angle(rot)], !.cosa = cosa_table[Angle(rot)],
                     !.alpha = BlitAlpha(c), !.fields = task_fields(c)]

(* The clip of a fill is the size of its rectangle, wherever it is. *)
fill_regs(layout, dst) ==
  LET d == rga_set_buffer_info("dst", dst)
  IN  [NoRegs EXCEPT !.dst = FillPlanes(layout, d), !.mmu = FillMmu(layout, d),
                     !.fds = Fds(layout, NoInfo, NoInfo, d),
                     !.handle = d.handle # Null, !.clip = Size(dst.w, dst.h), !.rd = <<dst.rd>>]

palette_regs(layout, src, lut, dst, clip) ==
  LET s == rga_set_buffer_info("src", src)
      l == rga_set_buffer_info("src1", lut)
      d == rga_set_buffer_info("dst", dst)
  IN  [NoRegs EXCEPT !.src = FillPlanes(layout, s), !.src1 = FillPlanes(layout, l),
                     !.dst = FillPlanes(layout, d), !.fds = Fds(layout, s, d, l),
                     !.mmu = PaletteMmu(layout, s, l, d), !.handle = TRUE,
                     !.clip = clip, !.rd = RdModes(src, lut, TRUE, dst),
                     !.palette_mode = palette_mode(src.fmt)]
=============================================================================
