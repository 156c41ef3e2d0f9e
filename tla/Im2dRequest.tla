----------------------------- MODULE Im2dRequest -----------------------------
(* One im2d task from the application's operands to the driver: imcheck,    *)
(* then rga_task_submit, which checks again, generates a request            *)
(* (generate_blit_req, generate_fill_req, generate_color_palette_req) and   *)
(* hands it to the driver.  Jobs, fences and the session are the subject of *)
(* other modules; the registers of a request are in RgaRegisters.           *)
EXTENDS Im2dCsc, RgaRegisters

CONSTANTS Devices,     \* [cores, str, number, driver]: what the driver reports
          Calls        \* operands the application may pass

VARIABLES device,      \* what the session knows of its device
          call,        \* the operands of the running call, or NoCall
          verdict,     \* what imcheck answered for them
          status,      \* what the call returned, "NONE" while it runs
          sent         \* the requests it gave the driver, in order
vars == <<device, call, verdict, status, sent>>

(* What an application can pass. *)
im_rect == [x : Int, y : Int, w : Int, h : Int]
rga_buffer_t ==
  [addr : {"handle", "phy", "fd", "vir", "fd0", "none"}, w : Int, h : Int, ws : Int, hs : Int,
   fmt : STRING, csm : [y2r : 0 .. 3, r2y : 0 .. 3, full : 0 .. 31], rd : STRING]
im_opt_t == [api : {"current", "1.7.2", "above"}, rop : Nat, ksize : Int]
PorterDuff == {"SRC", "DST", "SRC_OVER", "DST_OVER", "SRC_IN", "DST_IN", "SRC_OUT", "DST_OUT",
               "SRC_ATOP", "DST_ATOP", "XOR"}
Usages == FeatureUsages \cup Rotations \cup Flips \cup ColorKeys
          \cup {"BLEND", "PRE_MUL", "CROP", "ASYNC"}
Tasks ==
  [src : rga_buffer_t, dst : rga_buffer_t, pat : rga_buffer_t,
   srect : im_rect, drect : im_rect, prect : im_rect, usage : SUBSET Usages,
   interp : [h : STRING, v : STRING], release : BOOLEAN,
   blend : [mode : PorterDuff \cup LegacyCodes \cup {"several"}, fg : Nat, bg : Nat],
   y4 : STRING, opt : im_opt_t]
ASSUME CallsAssumption == Calls \subseteq Tasks

(* Every driver reports a core; the older ones are told apart by the number *)
(* of the version string.                                                   *)
ASSUME DevicesAssumption ==
  \A d \in Devices : /\ d.cores \in Seq(STRING) /\ d.cores # <<>>
                     /\ d.driver \in {"multi", "RGA1", "RGA2"} /\ d.number \in Nat
                     /\ d.driver = "RGA2" => d.number >= 2000

(* rga_session_init takes the driver for the first one when its version is  *)
(* below 2.  No core the library knows by its version has such a one, and   *)
(* the strings it knows (TRY_TO_COMPATIBLE) begin with 1.3 or 1.6.          *)
ASSUME FirstDriverAssumption ==
  \A d \in Devices :
    d.driver = "RGA1" =>
      /\ ~KnownCores(d)
      /\ d.str \in DOMAIN Compatible => d.str \in {"v1_3", "v1_6"} /\ d.number \in 1300..1999

NoCall == [usage |-> {"none"}]
NoRect == [x |-> 0, y |-> 0, w |-> 0, h |-> 0]

(* The session adds hardware_info to what the driver reports, once. *)
rga_session_init(d) ==
  [cores |-> d.cores, str |-> d.str, number |-> d.number, driver |-> d.driver,
   hardware_info |-> rga_get_info(d)]
hw == device.hardware_info

-----------------------------------------------------------------------------
(* Requests.  A window is the active rectangle of a buffer and its strides. *)

Window(b, r) == [x |-> r.x, y |-> r.y, w |-> b.w, h |-> b.h, ws |-> b.ws, hs |-> b.hs]
NoWindow == [x |-> 0, y |-> 0, w |-> 0, h |-> 0, ws |-> 0, hs |-> 0]
Turned(win) == [win EXCEPT !.w = win.h, !.h = win.w]

Request(kind, src, src1, dst, rotation, flip, interp, csc, reg) ==
  [kind |-> kind, src |-> src, src1 |-> src1, dst |-> dst, rotation |-> rotation,
   flip |-> flip, interp |-> interp, csc |-> csc, reg |-> reg]

DefaultInterp == [h |-> "DEFAULT", v |-> "DEFAULT"]

(* A request of zeros: what is left when generate_blit_req returns early.   *)
ZeroRequest ==
  Request("zero", NoWindow, NoWindow, NoWindow, "NONE", "NONE", DefaultInterp,
          IM_COLOR_SPACE_DEFAULT, NoRegs)

Fails(s) == [status |-> s, requests |-> <<>>]
Sends(reqs) == [status |-> "SUCCESS", requests |-> reqs]

checkRectForRga(win, fmt) ==
  /\ win.x >= 0 /\ win.y >= 0
  /\ win.w >= 2 /\ win.h >= 2
  /\ win.x + win.w <= win.ws
  /\ win.y + win.h <= win.hs
  /\ is_yuv_format(fmt) =>
       /\ win.ws % 4 = 0
       /\ \A n \in {win.x, win.y, win.w, win.h, win.hs} : n % 2 = 0

(* Handles are used for every buffer or for none. *)
MixedHandles(bufs) ==
  /\ \E b \in bufs : b.addr = "handle"
  /\ \E b \in bufs : b.addr # "handle"

(* srcinfo.rotation: a rotation or a flip counts only when it is the only   *)
(* one of its group.                                                        *)
OnlyOne(usage, group) ==
  IF \E u \in group : usage \cap group = {u}
  THEN CHOOSE u \in group : usage \cap group = {u} ELSE "NONE"

(* Defect: a quarter turn does not turn the scale. *)
ScaleTo_NoTurn(dst, src1, usePat, rot, flip) == IF usePat THEN src1 ELSE dst

(* The scale is measured against the pattern when there is one.  It is      *)
(* turned only for a rotation without a flip: with a flip the code's        *)
(* `rotation' carries it in its high bits and equals neither constant.      *)
ScaleTo(dst, src1, usePat, rot, flip) ==
  LET ref == IF usePat THEN src1 ELSE dst
  IN  IF rot \in {"ROT_90", "ROT_270"} /\ flip = "NONE" THEN Turned(ref) ELSE ref

(* `1/16' is an integer division: only shrinking is bounded here. *)
ScaleTooLarge(src, to, driver) ==
  \E limit \in {16} \cup (IF driver = "RGA1" THEN {8} ELSE {}) :
     src.w > limit * to.w \/ src.h > limit * to.h

OverBicubic(src, to, dst, limit) ==
  src.w > limit \/ (dst.w > limit /\ src.w > to.w)

(* Only the options of a current header say how to interpolate. *)
task_interp(c) == IF c.opt.api = "current" THEN c.interp ELSE DefaultInterp

PickInterp(interp, src, to, dst, limit) ==
  [h |-> CASE interp.h # "DEFAULT" -> interp.h
           [] interp.h = "DEFAULT" /\ src.w > to.w -> "AVERAGE"
           [] interp.h = "DEFAULT" /\ src.w < to.w -> "BICUBIC"
           [] OTHER -> "DEFAULT",
   v |-> CASE interp.v # "DEFAULT" -> interp.v
           [] interp.v = "DEFAULT" /\ src.h > to.h -> "AVERAGE"
           [] interp.v = "DEFAULT" /\ src.h < to.h ->
                IF OverBicubic(src, to, dst, limit) THEN "LINEAR" ELSE "BICUBIC"
           [] OTHER -> "DEFAULT"]

InterpRefused(i, src, to, dst, limit) ==
  \/ i.v = "BICUBIC" /\ src.h < to.h /\ OverBicubic(src, to, dst, limit)
  \/ /\ \/ i.v = "LINEAR" /\ src.h > to.h
        \/ i.h = "LINEAR" /\ src.w > to.w
     /\ src.w < to.w \/ src.h < to.h
  \/ i.v = "LINEAR" /\ src.h > to.h /\ dst.w > 4096

BlitRectsFit(s, src, p, pat, usePat, d, dst) ==
  /\ checkRectForRga(s, src.fmt)
  /\ usePat => checkRectForRga(p, pat.fmt)
  /\ checkRectForRga(d, dst.fmt)

generate_blit_req(dev, c, src, dst, pat, usePat, mode) ==
  LET rot == OnlyOne(c.usage, Rotations)
      flip == OnlyOne(c.usage, Flips)
      s == Window(src, c.srect)
      d == Window(dst, c.drect)
      p == IF usePat THEN Window(pat, c.prect) ELSE NoWindow
      to == ScaleTo(d, p, usePat, rot, flip)
      limit == dev.hardware_info.scale_ver_bicubic_limit
      interp == PickInterp(task_interp(c), s, to, d, limit)
      turn(win) == IF rot \in {"ROT_90", "ROT_270"} THEN Turned(win) ELSE win
      csc == request_csc(mode, src.fmt, dst.fmt, IF usePat THEN pat.fmt ELSE "none")
  IN
  IF MixedHandles({src, dst} \cup (IF usePat THEN {pat} ELSE {})) THEN Fails("FAILED")
  ELSE IF ~rga_is_buffer_valid(src) THEN Sends(<<ZeroRequest>>)
  ELSE IF \/ ~BlitRectsFit(s, src, p, pat, usePat, d, dst)
          \/ ScaleTooLarge(s, to, dev.driver)
          \/ InterpRefused(interp, s, to, d, limit)
          \/ ~csc.ok
  THEN Fails("FAILED")
  ELSE Sends(<<Request("blit", s, turn(p), turn(d), rot, flip, interp, csc.mode,
                       blit_regs(AddressLayout(dev), c, src, pat, usePat, dst, rot, Size(d.ws, d.hs)))>>)

(* A fill converts its colour with the mode's low byte, or with BT.601.  It *)
(* checks no rectangle.                                                     *)
generate_fill_req(dev, c, dst, mode) ==
  LET default == Csm(0, IF is_yuv_format(dst.fmt) THEN 2 ELSE 0, 0)
  IN  Sends(<<Request("fill", NoWindow, NoWindow, Window(dst, c.drect), "NONE", "NONE",
                      DefaultInterp,
                      IF mode = IM_COLOR_SPACE_DEFAULT \/ mode = CscError THEN default
                      ELSE Csm(mode.y2r, mode.r2y, 0), fill_regs(AddressLayout(dev), dst))>>)

(* The rectangle of the palette is not looked at. *)
PaletteRectsFit(s, src, d, dst) == checkRectForRga(s, src.fmt) /\ checkRectForRga(d, dst.fmt)

(* The palette is loaded by a request of its own, sent while the drawing    *)
(* request is being generated.                                              *)
generate_color_palette_req(dev, c, src, dst, pat) ==
  LET s == Window(src, c.srect)
      d == Window(dst, c.drect)
      lut == IF rga_is_buffer_valid(pat) THEN Window(pat, c.prect) ELSE NoWindow
      req(kind) == Request(kind, s, lut, d, "NONE", "NONE", DefaultInterp, IM_COLOR_SPACE_DEFAULT,
                           palette_regs(AddressLayout(dev), src, pat, dst, Size(d.ws, d.hs)))
  IN
  IF \/ \E b \in {src, dst, pat} : b.addr # "handle"
     \/ ~PaletteRectsFit(s, src, d, dst)
  THEN Fails("FAILED")
  ELSE Sends(<<req("update_palette"), req("palette")>>)

rga_task_submit(dev, c) ==
  LET info == dev.hardware_info
      src == rga_apply_rect(c.src, c.srect)
      dst == rga_apply_rect(c.dst, c.drect)
      readsPat == c.usage \cap {"COLOR_PALETTE", "BLEND"} # {} /\ rga_is_buffer_valid(c.pat)
      pat == IF readsPat THEN rga_apply_rect(c.pat, c.prect) ELSE c.pat
      checked == rga_check(info, src, dst, pat, c.srect, c.drect, c.prect, c.usage)
      csc == task_csc(info, src, dst, pat)
  IN
  IF ~rga_is_buffer_valid(c.dst) THEN Fails("INVALID_PARAM")
  ELSE IF ~Known(src.fmt) \/ ~Known(dst.fmt) \/ (readsPat /\ ~Known(pat.fmt))
  THEN Fails("NOT_SUPPORTED")
  ELSE IF checked # "NOERROR" THEN Fails(checked)
  ELSE IF ~csc.ok THEN Fails("ILLEGAL_PARAM")
  ELSE IF "GAUSS" \in c.usage /\ c.usage \cap (Rotations \cup Flips) # {} THEN Fails("NOT_SUPPORTED")
  ELSE IF "GAUSS" \in c.usage /\ (src.w # dst.w \/ src.h # dst.h) THEN Fails("INVALID_PARAM")
  ELSE IF "GAUSS" \in c.usage /\ rga_generate_gauss_coe(c.opt).status # "SUCCESS"
  THEN Fails(rga_generate_gauss_coe(c.opt).status)
  ELSE IF "ASYNC" \in c.usage /\ ~c.release THEN Fails("ILLEGAL_PARAM")
  ELSE IF "COLOR_FILL" \in c.usage THEN generate_fill_req(dev, c, dst, csc.mode)
  ELSE IF "COLOR_PALETTE" \in c.usage THEN generate_color_palette_req(dev, c, src, dst, pat)
  ELSE generate_blit_req(dev, c, src, dst, pat, UsesPat(c.usage, pat), csc.mode)

-----------------------------------------------------------------------------
(* An older driver has a request without storage modes, handles and the     *)
(* newer features, and with one global alpha nobody sets.                   *)
NormalRgaCompatModeConvertRga2Fields(reg) ==
  [reg EXCEPT !.handle = FALSE, !.rd = <<>>, !.fields = {},
              !.alpha.fg = 0, !.alpha.bg = 0]

(* It wants the corner of a turned destination the hardware starts in;      *)
(* since the multi-core driver this is the driver's business.               *)

(* Defect: the sizes are not the turned ones. *)
NormalRgaCompatModeConvertRga2_Swapped(req) ==
  LET sin == req.reg.sina
      cos == req.reg.cosa
  IN  [req EXCEPT !.reg = NormalRgaCompatModeConvertRga2Fields(@),
                  !.dst.x = IF sin = 65536 \/ cos = -65536 THEN @ + req.dst.w - 1 ELSE @,
                  !.dst.y = IF sin = -65536 \/ cos = -65536 THEN @ + req.dst.h - 1 ELSE @]

NormalRgaCompatModeConvertRga2(req) ==
  LET sin == req.reg.sina
      cos == req.reg.cosa
  IN  [req EXCEPT !.reg = NormalRgaCompatModeConvertRga2Fields(@),
                  !.dst.x = CASE sin = 65536 /\ cos = 0 -> @ + req.dst.h - 1
                              [] sin = 0 /\ cos = -65536 -> @ + req.dst.w - 1
                              [] OTHER -> @,
                  !.dst.y = CASE sin = 0 /\ cos = -65536 -> @ + req.dst.h - 1
                              [] sin = -65536 /\ cos = 0 -> @ + req.dst.w - 1
                              [] OTHER -> @]

(* The palette is loaded with the newer request on every driver. *)
ForDriver(driver, req) ==
  IF driver = "multi" \/ req.kind = "update_palette" THEN req
  ELSE NormalRgaCompatModeConvertRga2(req)

-----------------------------------------------------------------------------
Init ==
  /\ \E d \in Devices : device = rga_session_init(d)
  /\ call = NoCall
  /\ verdict = "NONE"
  /\ status = "NONE"
  /\ sent = <<>>

(* Only the multi-core driver imports buffers and gives handles for them. *)
Possible(c) == device.driver = "multi" \/ \A b \in {c.src, c.dst, c.pat} : b.addr # "handle"

(* The application asks imcheck about the operands it is going to use.  An  *)
(* unknown device never gets a session.                                     *)
ImCheck ==
  /\ call = NoCall
  /\ hw.version # {"V_ERR"}
  /\ \E c \in Calls :
       /\ Possible(c) /\ c.blend.mode \notin LegacyCodes
       /\ call' = c /\ verdict' = rga_check_external(hw, c)
  /\ UNCHANGED <<device, status, sent>>

(* The submission of a task: [status, requests], what became of the call    *)
(* before the driver was asked, and the requests for it.                    *)

(* The call fails before anything reaches the driver. *)
Rejected(task) ==
  /\ task.status # "SUCCESS"
  /\ status' = task.status
  /\ UNCHANGED <<device, call, verdict, sent>>

(* The driver, or the job the task is added to, takes the next request; the *)
(* last one ends the call.  EINTR and ERESTARTSYS repeat the same ioctl and *)
(* are not seen.                                                            *)
DriverTakes(task) ==
  /\ task.status = "SUCCESS"
  /\ task.requests # <<>>
  /\ sent' = Append(sent, ForDriver(device.driver, task.requests[Len(sent) + 1]))
  /\ status' = IF Len(sent') = Len(task.requests) THEN "SUCCESS" ELSE status
  /\ UNCHANGED <<device, call, verdict>>

DriverRefuses(task) ==
  /\ task.status = "SUCCESS"
  /\ task.requests # <<>>
  /\ status' = "FAILED"
  /\ UNCHANGED <<device, call, verdict, sent>>

(* improcess: rga_task_submit on the operands imcheck was asked about. *)
Process ==
  /\ verdict # "NONE" /\ status = "NONE"
  /\ LET task == rga_task_submit(device, call)
     IN  Rejected(task) \/ DriverTakes(task) \/ DriverRefuses(task)

Return ==
  /\ status # "NONE"
  /\ call' = NoCall /\ verdict' = "NONE" /\ status' = "NONE" /\ sent' = <<>>
  /\ UNCHANGED device

Next ==
  \/ ImCheck
  \/ Process
  \/ Return

Spec == Init /\ [][Next]_vars

-----------------------------------------------------------------------------
(* Properties *)

Statuses == {"NONE", "NOERROR", "SUCCESS", "FAILED", "ILLEGAL_PARAM", "INVALID_PARAM",
             "NOT_SUPPORTED"}
Kinds == {"zero", "blit", "fill", "update_palette", "palette", "stray"}

(* A call of this interface: imcheck was asked first. *)
ByIm2d == verdict # "NONE"

(* Types: nothing is left of a call that returned, and at most the requests *)
(* of its task were sent.                                                   *)
TypeOK ==
  /\ device \in {rga_session_init(d) : d \in Devices}
  /\ call = NoCall \/ call.usage \subseteq Usages
  /\ verdict \in Statuses \ {"SUCCESS", "FAILED"} /\ status \in Statuses \ {"NOERROR"}
  /\ \A i \in DOMAIN sent : sent[i].kind \in Kinds
  /\ call = NoCall => verdict = "NONE" /\ status = "NONE" /\ sent = <<>>
  /\ Len(sent) <= 2

(* A call that succeeds is one imcheck accepts: the submit path converts    *)
(* and checks its operands itself (im2d_impl.cpp 1843-1886) and must not be *)
(* laxer than rga_check_external.  Two known differences are left out:      *)
(* imcheck resizes the destination for IM_CROP, and it wants a known format *)
(* of a pattern nobody reads.                                               *)
AcceptedIsChecked ==
  /\ ByIm2d /\ status = "SUCCESS"
  /\ "CROP" \notin call.usage
  /\ rga_is_buffer_valid(call.pat) => Known(call.pat.fmt)
  => verdict = "NOERROR"

(* The buffers the hardware reads or writes for the call, and a core whose  *)
(* row alignment their strides have.                                        *)
Used ==
  {call.dst} \cup (IF "COLOR_FILL" \in call.usage THEN {} ELSE {call.src})
             \cup (IF UsesPat(call.usage, call.pat) THEN {call.pat} ELSE {})
AlignedFor(entry) ==
  \A b \in Used : (FormatTable[b.fmt].bits * b.ws) % (entry.byte_stride * 8) = 0

(* The merged table of a device with several cores (im2d_impl.cpp 76-106)   *)
(* loses nothing and demands what every core demands: a call one core would *)
(* take is accepted if its strides suit all cores, and the strides of an    *)
(* accepted call suit all cores, whatever order the driver lists them in.   *)
MergeSound ==
  LET cores == {CoreTable[device.cores[i]] : i \in DOMAIN device.cores}
  IN  ByIm2d /\ status = "NONE" /\ sent = <<>> /\ KnownCores(device) =>
        /\ /\ \E e \in cores : rga_check_external(e, call) = "NOERROR"
           /\ \A e \in cores : AlignedFor(e)
           => verdict = "NOERROR"
        /\ verdict = "NOERROR" => \A e \in cores : AlignedFor(e)

InBuffer(win) == win.x >= 0 /\ win.y >= 0 /\ win.x + win.w <= win.ws /\ win.y + win.h <= win.hs

(* The area the hardware writes: the size of the destination is given       *)
(* before the rotation, and to an older driver from the corner it starts in.*)
Footprint(req) ==
  LET d == req.dst
      area == IF req.rotation \in {"ROT_90", "ROT_270"} THEN Turned(d) ELSE d
      left == req.rotation \in {"ROT_90", "ROT_180"} /\ device.driver # "multi"
      up == req.rotation \in {"ROT_270", "ROT_180"} /\ device.driver # "multi"
  IN  [area EXCEPT !.x = IF left THEN d.x - area.w + 1 ELSE d.x,
                   !.y = IF up THEN d.y - area.h + 1 ELSE d.y]

(* What a request covers of a buffer is what the caller named. *)
Named(b, r) ==
  LET win == Window(rga_apply_rect(b, r), r)
  IN  [win EXCEPT !.hs = IF @ = 0 THEN win.h ELSE @]

(* A blit or palette request reads the source rectangle and writes the      *)
(* destination rectangle its caller named, inside their buffers, whatever   *)
(* the turn and whichever driver gets it (checkRectForRga, the rotation     *)
(* switch, NormalRgaCompatModeConvertRga2).  An im2d blit's pattern covers  *)
(* exactly the destination, and its fill stays in the buffer; a fill whose  *)
(* rectangle has an offset and no size is left out: nothing checks it.      *)
WindowsFit ==
  \A i \in DOMAIN sent :
    LET req == sent[i] IN
    /\ req.kind \in {"blit", "palette", "update_palette"} =>
         /\ InBuffer(req.src) /\ req.src = Named(call.src, call.srect)
         /\ InBuffer(Footprint(req)) /\ Footprint(req) = Named(call.dst, call.drect)
    /\ ByIm2d /\ req.kind = "fill" /\ call.drect.w > 0 => InBuffer(req.dst)
    /\ ByIm2d /\ req.kind = "blit" /\ req.src1 # NoWindow =>
         req.src1.w = req.dst.w /\ req.src1.h = req.dst.h

-----------------------------------------------------------------------------
(* Addresses and features. *)

(* A pointer is looked up through the MMU, and so is a descriptor's memory; *)
(* a physical address is not, and a handle is the driver's business.        *)
Translated(b) == b.addr \in {"fd", "vir"}

(* Descriptors and handles go into the first plane, pointers into the       *)
(* second and third.                                                        *)
NamedBy(planes, b, name) ==
  IF b.addr \in {"handle", "fd"} THEN planes.y = name /\ planes.uv = Null
  ELSE planes = Planes(Null, name, Past(name))

Reads(req) ==
  CASE req.kind = "fill" -> {"dst"}
    [] req.kind = "blit" /\ req.src1 = NoWindow -> {"src", "dst"}
    [] OTHER -> {"src", "src1", "dst"}
OperandOf == [src |-> call.src, src1 |-> call.pat, dst |-> call.dst]
MmuBit == [src |-> "SRC", src1 |-> "SRC1", dst |-> "DST"]

(* Every buffer a request uses is the one the caller passed for it, in the  *)
(* plane its kind of address belongs in, and exactly the addresses that     *)
(* need translation are translated: the flag is the outcome of five tests   *)
(* in a row (im2d_impl.cpp 3460-3497), two of which compare null pointers.  *)
(* A handle that a blit sends comes without an offset, since "With          *)
(* `handle_flag & 1`, the island interprets every nonzero plane address as  *)
(* a handle ID" (docs/HANDLE-PLANES.md 6); fills, palettes and RgaBlit send *)
(* one and are left out of this.  Left out, too: the first chips' layouts,  *)
(* which hold a descriptor in the line drawing fields, and the enable bit   *)
(* of a blit whose pattern alone is translated.                             *)
OperandsReached ==
  \A i \in DOMAIN sent :
    LET req == sent[i] IN
    device.driver # "RGA1" /\ req.kind \notin {"zero", "stray"} =>
      \A name \in Reads(req) :
        LET b == OperandOf[name] IN
        /\ NamedBy(req.reg[name], b, name)
        /\ Translated(b) <=> MmuBit[name] \in req.reg.mmu
        /\ Translated(b) /\ name # "src1" => "EN" \in req.reg.mmu
        /\ ByIm2d /\ req.kind = "blit" /\ b.addr = "handle" => req.reg[name].v = Null

(* The features of a call share two words of the request, and each setter   *)
(* adds to them or overwrites them (im2d_impl.cpp 2921-2972, 3591-3660).    *)
(* What the caller asked for is in the request, and nothing else is: a      *)
(* logic operation and a colour key always, blending and quantization       *)
(* unless a logic operation or a dithering to four bits takes their place,  *)
(* global alphas where the driver has them.  A mode of an older interface   *)
(* reaches the driver as one of its own.  A feature with fields of its own  *)
(* that the older request lacks is refused for the chips that use it.       *)
FeaturesCarried ==
  \A i \in {j \in DOMAIN sent : sent[j].kind = "blit"} :
    LET r == sent[i].reg
        blends == "BLEND" \in call.usage /\ call.blend.mode # "several"
        keyed == call.usage \cap ColorKeys # {}
        rop == "ROP" \in call.usage /\ call.opt.api # "above" /\ call.opt.rop > 0
        dithers == call.dst.fmt \in {"Y4", "Y8"} /\ call.y4 # "RGB_TO_Y4"
    IN  /\ rop <=> "ROP" \in r.alpha.flag
        /\ rop => r.alpha.rop = call.opt.rop /\ r.alpha.mode \cap {"PIXEL"} # {}
        /\ keyed <=> r.alpha.key # "none"
        /\ keyed => "BIT9" \in r.alpha.flag
        /\ ~rop /\ ~dithers =>
             /\ blends \/ keyed <=> "PD" \in r.alpha.flag
             /\ blends \/ keyed => r.alpha.PD_mode \in PorterDuff
             /\ blends /\ call.blend.mode \in PorterDuff => r.alpha.PD_mode = call.blend.mode
             /\ "QUANTIZE" \in call.usage <=> "NN" \in r.alpha.flag
        /\ blends /\ call.blend.mode \in PorterDuff /\ device.driver = "multi" =>
             r.alpha.fg = call.blend.fg /\ r.alpha.bg = call.blend.bg
        /\ ByIm2d => call.usage \cap OwnFields = r.fields \ {"RGBA5551"}

(* The interpolation chosen by default fits the scaling the windows ask     *)
(* for: shrinking is averaged, enlarging is not, a copy is left alone.      *)
(* Scale and windows are computed apart (im2d_impl.cpp 3030-3080 and the    *)
(* rotation switch).  A quarter turn with a flip is left out: there the     *)
(* scale is taken from the unturned size.                                   *)
InterpFitsScale ==
  \A i \in DOMAIN sent :
    LET req == sent[i]
        fits(mode, m, n) == CASE m > n -> mode = "AVERAGE"
                              [] m < n -> mode \in {"BICUBIC", "LINEAR"}
                              [] m = n -> mode = "DEFAULT"
        to == IF req.src1 = NoWindow THEN req.dst ELSE req.src1
    IN  /\ req.kind = "blit"
        /\ call.interp = DefaultInterp
        /\ ~(Turns(call.usage) /\ req.flip # "NONE")
        => fits(req.interp.h, req.src.w, to.w) /\ fits(req.interp.v, req.src.h, to.h)

-----------------------------------------------------------------------------
(* Colour: what a request converts, and what its operands ask for.          *)

Y2RFrom == <<BT601_LIMIT, BT601_FULL, BT709_LIMIT>>
R2YTo == <<BT601_FULL, BT601_LIMIT, BT709_LIMIT>>
FullStep(code) ==
  CASE code = rgb2yuv_601_full -> <<RGB_FULL, BT601_FULL>>
    [] code = rgb2yuv_709_full -> <<RGB_FULL, BT709_FULL>>
    [] code = rgb2yuv_709_limit -> <<RGB_FULL, BT709_LIMIT>>
    [] code = 5 -> <<BT709_LIMIT, BT601_LIMIT>>
    [] code = 7 -> <<BT601_FULL, BT709_LIMIT>>
    [] code = 9 -> <<BT709_FULL, BT601_LIMIT>>
    [] code = 10 -> <<BT709_FULL, BT601_FULL>>

(* The conversions the registers of a request name. *)
Steps(csc) ==
  (IF csc.y2r = 0 THEN {} ELSE {<<Y2RFrom[csc.y2r], RGB_FULL>>}) \cup
  (IF csc.r2y = 0 THEN {} ELSE {<<RGB_FULL, R2YTo[csc.r2y]>>}) \cup
  (IF csc.full = 0 THEN {} ELSE {FullStep(csc.full)})

(* The spaces the application means: those its buffers declare, or the ones *)
(* the conversion it names for the destination starts and ends in.          *)
SrcSpace ==
  CASE call.dst.csm.y2r # 0 -> Y2RFrom[call.dst.csm.y2r]
    [] call.dst.csm.y2r = 0 /\ call.dst.csm.r2y # 0 /\ is_rgb_format(call.src.fmt) -> RGB_FULL
    [] OTHER -> Declared(call.src).full
DstSpace ==
  CASE call.dst.csm.r2y # 0 -> R2YTo[call.dst.csm.r2y]
    [] call.dst.csm.r2y = 0 /\ call.dst.csm.y2r # 0 -> RGB_FULL
    [] OTHER -> Declared(call.dst).full

Fits(space, fmt) ==
  \/ is_rgb_format(fmt) /\ space = RGB_FULL
  \/ is_yuv_format(fmt) /\ space \in BT601_LIMIT .. BT709_FULL

(* Every buffer declares a space its format can have, the call either names *)
(* spaces or names conversions, and a pattern is one that is read: task_csc *)
(* converts through any it is given.                                        *)
Consistent ==
  /\ Fits(SrcSpace, call.src.fmt) /\ Fits(DstSpace, call.dst.fmt)
  /\ rga_is_buffer_valid(call.pat) =>
       "BLEND" \in call.usage /\ Declared(call.pat).full = RGB_FULL
  /\ call.dst.csm.y2r + call.dst.csm.r2y > 0 =>
       \A b \in {call.src, call.dst, call.pat} : FullCsc(b.csm) = 0

Wanted ==
  {p \in IF UsesPat(call.usage, call.pat) THEN {<<SrcSpace, RGB_FULL>>, <<RGB_FULL, DstSpace>>}
         ELSE {<<SrcSpace, DstSpace>>} : p[1] # p[2]}

Blits == {i \in DOMAIN sent : ByIm2d /\ sent[i].kind = "blit"}

(* A blit whose buffers declare consistent colour spaces converts exactly   *)
(* from the source's to the destination's, through the pattern's if there   *)
(* is one, on cores with and without the full matrix: the two fields and    *)
(* the matrix never name two conversions, and none is lost (task_csc,       *)
(* request_csc).  Left out: BT.709 full to BT.709 limited range.            *)
ConversionExact ==
  \A i \in Blits :
    Consistent /\ <<SrcSpace, DstSpace>> # <<BT709_FULL, BT709_LIMIT>> =>
      Steps(sent[i].csc) = Wanted

(* A conversion the library has no matrix for is refused, not dropped:      *)
(* tests/unit/unit_session.cpp calls it "the same shape of rejection for an *)
(* unsupported YUV-to-YUV conversion".                                      *)
UnsupportedIsRefused == \A i \in Blits : Consistent => Steps(sent[i].csc) = Wanted

(* A call that succeeds handed over the task it describes, not an empty     *)
(* request: "IM_STATUS_SUCCESS on success or else negative error code" is   *)
(* what the developer guide promises of improcess and of improcessTask.     *)
SuccessSendsTask == status = "SUCCESS" => \A i \in DOMAIN sent : sent[i].kind # "zero"
=============================================================================
