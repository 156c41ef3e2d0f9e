------------------------------ MODULE RgaLegacy ------------------------------
(* The drawing functions of the legacy interface, RgaBlit, RgaCollorFill    *)
(* and RgaCollorPalette: the requests they make of the operands im2d also   *)
(* takes, without rga_check and without the capability tables, and how a    *)
(* call ends.  The context they run in is the subject of RgaContext.  The   *)
(* Android branches (gralloc buffers) are left out.                         *)
EXTENDS Im2dRequest

(* 1000 * ctx->mVersion: 3.2 on the multi-core driver, elsewhere the number *)
(* the driver's version string starts with.                                 *)
mVersion == IF device.driver = "multi" THEN 3200 ELSE device.number

-----------------------------------------------------------------------------
(* A zero hstride stands for the height. *)
LegacyWindow(b, r) ==
  LET win == Window(rga_apply_rect(b, r), r)
  IN  [win EXCEPT !.hs = IF @ = 0 THEN win.h ELSE @]

(* fd 0 is not an address, except that RgaCollorFill tells it from -1. *)
Addressless(b) == b.addr \in {"none", "fd0"}

(* With src1 the lower bounds are integer divisions and never bind.  The    *)
(* float nearest to 1.003 exceeds the double 1.003 it is compared with, so  *)
(* the oldest driver is not meant by `<= 1.003'.                            *)
LegacyScaleRefused(src, to, usePat, version) ==
  LET shrinks(n) == src.w > n * to.w \/ src.h > n * to.h
      grows(n) == n * src.w < to.w \/ n * src.h < to.h
  IN  IF usePat THEN shrinks(16) \/ (version <= 2000 /\ shrinks(8))
      ELSE \/ shrinks(16) \/ grows(16)
           \/ version < 2000 /\ (shrinks(8) \/ grows(8))
           \/ version < 1003 /\ grows(2)

LegacyBicubicLimit == 1996

LegacyInterpRefused(i, src, to, dst) ==
  \/ i.v = "BICUBIC" /\ src.h < to.h /\ OverBicubic(src, to, dst, LegacyBicubicLimit)
  \/ /\ \/ i.v = "LINEAR" /\ src.h > to.h
        \/ i.h = "LINEAR" /\ src.w > to.w
     /\ src.w < to.w \/ src.h < to.h

(* A conversion the caller names replaces the default one. *)
LegacyCsc(mode, src, dst, src1) ==
  LET full == FullCsc(mode)
      fields == IF mode = IM_COLOR_SPACE_DEFAULT
                THEN Csm(DefaultY2R(src, dst, src1), DefaultR2Y(src, dst, src1), 0)
                ELSE Csm(mode.y2r, mode.r2y, full)
  IN  IF full # 0 /\ full \notin FullMatrices THEN Refuse
      ELSE IF mode = Csm(0, 0, rgb2yuv_709_limit) THEN Accept([fields EXCEPT !.r2y = 3])
      ELSE Accept(fields)

(* Defect: the destination's turn is forgotten in the scale. *)
LegacyScaleTo_NoTurn(dst, src1, usePat, rot, flip) == IF usePat THEN src1 ELSE dst

LegacyScaleTo(dst, src1, usePat, rot, flip) ==
  LET ref == IF usePat THEN src1 ELSE dst
  IN  IF rot \in {"ROT_90", "ROT_270"} /\ flip = "NONE" THEN Turned(ref) ELSE ref

(* The rotation switch: sizes are given before the rotation. *)
LegacyTurn(win, rot) == IF rot \in {"ROT_90", "ROT_270"} THEN Turned(win) ELSE win

-----------------------------------------------------------------------------
(* Registers: the copies of what RgaRegisters has for im2d. *)

(* The comparison of a fill is one of a float with a double. *)
LegacyLayout(version) ==
  CASE version <= 1003 -> "virtual" [] version > 1003 /\ version < 1600 -> "fds" [] OTHER -> "planes"
LegacyFillLayout(version) == IF version = 1003 THEN "fds" ELSE LegacyLayout(version)

LegacyAddress(info) ==
  IF info.handle # Null THEN [Fd |-> info.handle, Buf |-> Null]
  ELSE IF info.phyAddr # Null THEN [Fd |-> Null, Buf |-> info.phyAddr]
  ELSE [Fd |-> info.fd, Buf |-> info.virAddr]

(* Defect: a descriptor is taken for a handle. *)
LegacyMmuFlag_NoFd(info) == LegacyAddress(info).Fd = Null /\ LegacyAddress(info).Buf # info.phyAddr

LegacyMmuFlag(info) ==
  LET a == LegacyAddress(info)
  IN  IF a.Fd # Null THEN a.Fd = info.fd /\ info.mmuFlag
      ELSE a.Buf = info.virAddr /\ a.Buf # info.phyAddr

LegacyOldPlanes(layout, info) ==
  LET a == LegacyAddress(info)
  IN  IF layout = "fds" /\ a.Fd # Null THEN NoPlanes ELSE Planes(a.Buf, Past(a.Buf), Past(a.Buf))

(* A third plane behind the second, with handles behind a null pointer. *)
LegacyPlanes(layout, info) ==
  LET a == LegacyAddress(info)
  IN  IF layout = "planes" THEN Planes(a.Fd, a.Buf, Past(a.Buf)) ELSE LegacyOldPlanes(layout, info)

LegacySetBlend(r, word) ==
  LET w == LegacyCode(word)
      set == NormalRgaSetAlphaEnInfo(r, w)
  IN  IF word.mode = "NONE" THEN r
      ELSE IF w.premul THEN [set EXCEPT !.flag = @ \cup {"BIT9"}] ELSE set

LegacyDitherEn(src, dst) == is_rgb_format(src) /\ dst = "RGB_565"

(* The caller fills rga_info as im2d does. *)
LegacyAlpha(c) ==
  LET r == NormalRgaSetBitbltMode(LegacySetBlend(NoAlpha, task_blend(c)), LegacyDitherEn(c.src.fmt, c.dst.fmt))
      nn == NormalRgaNNQuantizeMode(r, "QUANTIZE" \in c.usage)
      dither == NormalRgaDitherMode(nn, task_dither(c), c.dst.fmt)
      rop == SetRop(dither, task_rop(c))
  IN  SetColorKey(rop, colorkey_mode(c.usage))

LegacyFields(c) == task_fields(c) \ {"GAUSS"}

LegacyMmu(layout, src, src1, dst) ==
  LET on(info) == layout = "virtual" \/ LegacyMmuFlag(info)
  IN  MmuInfo(on(src), on(dst)) \cup (IF src1 # NoInfo /\ on(src1) THEN {"SRC1"} ELSE {})

LegacyRegs(layout, c, usePat, rot, clip) ==
  LET s == rga_set_buffer_info("src", c.src)
      p == IF usePat THEN rga_set_buffer_info("src1", c.pat) ELSE NoInfo
      d == rga_set_buffer_info("dst", c.dst)
  IN  [NoRegs EXCEPT !.src = LegacyPlanes(layout, s), !.dst = LegacyPlanes(layout, d),
                     !.src1 = IF usePat THEN LegacyPlanes(layout, p) ELSE NoPlanes,
                     !.fds = Fds(layout, s, p, d), !.mmu = LegacyMmu(layout, s, p, d),
                     !.handle = d.handle # Null, !.clip = clip,
                     !.rd = RdModes(c.src, c.pat, usePat, c.dst),
                     !.sina = sina_table[Angle(rot)], !.cosa = cosa_table[Angle(rot)],
                     !.alpha = LegacyAlpha(c), !.fields = LegacyFields(c)]

LegacyBlitRequest(s, p, d, rot, flip, interp, csc, reg) ==
  Request("blit", s, LegacyTurn(p, rot), LegacyTurn(d, rot), rot, flip, interp, csc, reg)

LegacyFillRegs(layout, dst, clip) ==
  LET d == rga_set_buffer_info("dst", dst)
      on == layout # "virtual" /\ LegacyMmuFlag(d)
  IN  [NoRegs EXCEPT !.dst = LegacyPlanes(layout, d), !.mmu = MmuInfo(on, on),
                     !.fds = Fds(layout, NoInfo, NoInfo, d),
                     !.handle = d.handle # Null, !.clip = clip, !.rd = <<dst.rd>>]

(* The palette has handles only, and no mode for a grey source. *)
LegacyPaletteRegs(layout, c, clip) ==
  LET s == rga_set_buffer_info("src", c.src)
      l == rga_set_buffer_info("src1", c.pat)
      d == rga_set_buffer_info("dst", c.dst)
  IN  [NoRegs EXCEPT !.src = LegacyPlanes(layout, s), !.src1 = LegacyPlanes(layout, l),
                     !.dst = LegacyPlanes(layout, d), !.fds = Fds(layout, s, d, l),
                     !.mmu = IF layout = "virtual" THEN {"EN", "SRC", "DST", "SRC1"} ELSE {},
                     !.handle = TRUE, !.clip = clip,
                     !.rd = RdModes(c.src, c.pat, TRUE, c.dst),
                     !.palette_mode = IF c.src.fmt = "BPP8" THEN 3 ELSE 0]

-----------------------------------------------------------------------------
LegacyRectsFit(c, s, p, usePat, d) ==
  /\ checkRectForRga(s, c.src.fmt)
  /\ usePat => checkRectForRga(p, c.pat.fmt)
  /\ checkRectForRga(d, c.dst.fmt)

(* A buffer without an address ends the call with ret, which is 0. *)
RgaBlit(c, version) ==
  LET usePat == "BLEND" \in c.usage /\ c.pat.w > 0    \* src1 # NULL
      rot == OnlyOne(c.usage, Rotations)
      flip == OnlyOne(c.usage, Flips)
      s == LegacyWindow(c.src, c.srect)
      d == LegacyWindow(c.dst, c.drect)
      p == IF usePat THEN LegacyWindow(c.pat, c.prect) ELSE NoWindow
      bufs == {c.src, c.dst} \cup (IF usePat THEN {c.pat} ELSE {})
      to == LegacyScaleTo(d, p, usePat, rot, flip)
      interp == PickInterp(c.interp, s, to, d, LegacyBicubicLimit)
      csc == LegacyCsc(c.dst.csm, c.src.fmt, c.dst.fmt, IF usePat THEN c.pat.fmt ELSE "none")
  IN
  IF MixedHandles(bufs) THEN Fails("FAILED")
  ELSE IF \E b \in bufs : Addressless(b) THEN Sends(<<>>)
  ELSE IF \/ ~LegacyRectsFit(c, s, p, usePat, d)
          \/ LegacyScaleRefused(s, to, usePat, version)
          \/ LegacyInterpRefused(interp, s, to, d)
          \/ ~csc.ok
  THEN Fails("FAILED")
  ELSE Sends(<<LegacyBlitRequest(s, p, d, rot, flip, interp, csc.mode,
               LegacyRegs(LegacyLayout(version), c, usePat, rot, Size(d.ws, d.hs)))>>)

(* A fill checks no rectangle; its conversion field keeps the mode's low    *)
(* byte.                                                                    *)
FillCsc(mode, fmt) ==
  IF mode = IM_COLOR_SPACE_DEFAULT THEN Csm(0, IF is_yuv_format(fmt) THEN 2 ELSE 0, 0)
  ELSE Csm(mode.y2r, mode.r2y, 0)

RgaCollorFill(c, version) ==
  LET d == LegacyWindow(c.dst, c.drect) IN
  CASE c.dst.addr = "none" -> Sends(<<>>)
    [] c.dst.addr = "fd0" -> Fails("FAILED")
    [] OTHER -> Sends(<<Request("fill", NoWindow, NoWindow, d, "NONE",
                                "NONE", DefaultInterp, FillCsc(c.dst.csm, c.dst.fmt),
                                LegacyFillRegs(LegacyFillLayout(version), c.dst, Size(d.w, d.h)))>>)

(* What the driver finds where the drawing request should be: the call      *)
(* passes the address of the pointer to the request.                        *)
StrayRequest == [ZeroRequest EXCEPT !.kind = "stray"]

(* The request that loads the palette. *)
PaletteRequest(s, lut, d, reg) ==
  Request("update_palette", s, lut, d, "NONE", "NONE", DefaultInterp, IM_COLOR_SPACE_DEFAULT, reg)

LegacyPaletteRectsFit(c, s, d) == checkRectForRga(s, c.src.fmt) /\ checkRectForRga(d, c.dst.fmt)

RgaCollorPalette(c, version) ==
  LET lut == c.pat.w > 0
      s == LegacyWindow(c.src, c.srect)
      d == LegacyWindow(c.dst, c.drect)
      load == PaletteRequest(s, Window(rga_apply_rect(c.pat, c.prect), c.prect), d,
                             LegacyPaletteRegs(LegacyLayout(version), c, Size(d.ws, d.hs)))
  IN
  IF \/ \E b \in {c.src, c.dst} \cup (IF lut THEN {c.pat} ELSE {}) : b.addr # "handle"
     \/ ~LegacyPaletteRectsFit(c, s, d)
  THEN Fails("FAILED")
  ELSE Sends(IF lut THEN <<load, StrayRequest>> ELSE <<StrayRequest>>)

-----------------------------------------------------------------------------
(* A legacy call: verdict stays "NONE", nobody checks it.  An im2d device   *)
(* type RGA1 is an RGA2 for this interface.                                 *)
LegacyBegin ==
  /\ call = NoCall
  /\ call' \in {c \in Calls : Possible(c)}
  /\ UNCHANGED <<device, verdict, status, sent>>

Legacy == call # NoCall /\ verdict = "NONE"

LegacyTask ==
  IF "COLOR_FILL" \in call.usage THEN RgaCollorFill(call, mVersion)
  ELSE IF "COLOR_PALETTE" \in call.usage THEN RgaCollorPalette(call, mVersion)
  ELSE RgaBlit(call, mVersion)

(* The call returns 0 and nothing was sent. *)
LegacyNothing(task) ==
  /\ task.status = "SUCCESS"
  /\ task.requests = <<>>
  /\ status' = "SUCCESS"
  /\ UNCHANGED <<device, call, verdict, sent>>

LegacyProcess ==
  /\ Legacy /\ status = "NONE"
  /\ LET task == LegacyTask
     IN  Rejected(task) \/ DriverTakes(task) \/ DriverRefuses(task) \/ LegacyNothing(task)

LegacyNext ==
  \/ Next
  \/ LegacyBegin
  \/ LegacyProcess

LegacySpec == Init /\ [][LegacyNext]_vars

-----------------------------------------------------------------------------
(* Properties *)

(* What im2d makes of the same operands. *)
Im2dTask == rga_task_submit(device, call)

(* The two interfaces differ on purpose or by neglect where a caller names  *)
(* colour conversions or interpolations (im2d declares spaces and has the   *)
(* cores' limits), where a zero hstride is filled in, where only im2d drops *)
(* an unusable pattern, for palettes, for several turns at once, for a      *)
(* reduction under a pattern by more than 8 on version 2.0, which RgaBlit   *)
(* counts among the first chips there and only there, and for what only one *)
(* of them has: Gaussian blur, option structures, old codes.                *)
Comparable ==
  /\ hw.version # {"V_ERR"}
  /\ call.usage \cap {"COLOR_PALETTE", "CROP", "GAUSS"} = {}
  /\ call.opt.api = "current" /\ call.blend.mode \notin LegacyCodes
  /\ \A b \in {call.src, call.dst, call.pat} : b.csm = IM_COLOR_SPACE_DEFAULT
  /\ call.interp = DefaultInterp
  /\ "BLEND" \in call.usage => (call.pat.w > 0 <=> ~Addressless(call.pat))
  /\ ~Addressless(call.src)
  /\ mVersion = 2000 /\ "BLEND" \in call.usage => call.pat.w <= 0
  /\ \A u, v \in call.usage \cap (Rotations \cup Flips) : u = v

(* Known differences of the registers: with handles the legacy functions    *)
(* send a third plane and im2d blits do not, and the two switch between the *)
(* address layouts of the first chips at other versions.                    *)
Compared(reg) ==
  LET handled == IF reg.handle
                 THEN [reg EXCEPT !.src.v = Null, !.src1.v = Null, !.dst.v = Null] ELSE reg
  IN  IF device.driver = "RGA1"
      THEN [handled EXCEPT !.src = NoPlanes, !.src1 = NoPlanes, !.dst = NoPlanes,
                           !.fds = NoFds, !.mmu = {}]
      ELSE handled

SameButLimits(a, b) ==
  [a EXCEPT !.interp = b.interp, !.reg = Compared(@)] = [b EXCEPT !.reg = Compared(@)]

(* RgaBlit and generate_blit_req are two copies of one long function; so    *)
(* are the fills.  Operands im2d accepts are not refused by the legacy      *)
(* interface, and both make the same request of them, windows, addresses,   *)
(* MMU and feature registers, up to the choice of the interpolation, whose  *)
(* limit is a constant in RgaBlit and depends on the core in im2d.          *)
LegacyAgrees ==
  Legacy /\ status # "NONE" /\ Comparable =>
    LET task == Im2dTask
    IN  task.status = "SUCCESS" =>
          /\ LegacyTask.status = "SUCCESS"
          /\ \A i \in DOMAIN sent :
               SameButLimits(sent[i], ForDriver(device.driver, task.requests[i]))
=============================================================================
