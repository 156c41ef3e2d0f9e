------------------------------- MODULE Im2dCsc -------------------------------
(* The colour space conversion of a task: how rga_task_submit turns the     *)
(* modes of its buffers into the mode of the destination, and how           *)
(* generate_blit_req turns that mode into the registers of the request: the *)
(* two fields of yuv2rgb_mode and the full matrix.                          *)
EXTENDS Im2dCheck

(* Colour spaces, as the full-range field numbers them. *)
RGB_FULL == 1
RGB_CLIP == 2
BT601_LIMIT == 3
BT601_FULL == 4
BT709_LIMIT == 5
BT709_FULL == 6
Spaces == RGB_FULL .. BT709_FULL

(* Codes of the full matrix (rga.h). *)
rgb2yuv_601_full == 1
rgb2yuv_709_full == 2
rgb2yuv_709_limit == 11

(* IM_STATUS_NOT_SUPPORTED, -1, used as a mode: every bit is set. *)
CscError == Csm(3, 3, 31)

(* Bitwise or; no field of a mode is wider than five bits. *)
Or(a, b) ==
  LET at(k) == IF (a \div k) % 2 = 1 \/ (b \div k) % 2 = 1 THEN k ELSE 0
  IN  at(1) + at(2) + at(4) + at(8) + at(16)
CsmOr(a, b) == Csm(Or(a.y2r, b.y2r), Or(a.r2y, b.r2y), Or(a.full, b.full))

rga_get_default_csc_mode(f) ==
  Csm(0, 0, IF is_rgb_format(f) THEN RGB_FULL ELSE IF is_yuv_format(f) THEN BT601_LIMIT ELSE 0)

(* The mode from one space (row) to another (column). *)
CscMatrix(hw) ==
  LET X == CscError
      N == IM_COLOR_SPACE_DEFAULT
      y(k) == Csm(k, 0, 0)
      r(k) == Csm(0, k, 0)
      f(k) == Csm(0, 0, k)
      r709 == IF "DST_FULL_CSC" \in hw.feature THEN f(rgb2yuv_709_limit) ELSE r(3)
  IN \* RGB_FULL, RGB_CLIP, 601 limit, 601 full, 709 limit, 709 full
  << << N,     X, r(2),  r(1),  r709,  f(rgb2yuv_709_full) >>,
     << X,     X, X,     X,     X,     X     >>,
     << y(1),  X, N,     f(13), f(3),  f(4)  >>,
     << y(2),  X, f(14), N,     f(7),  f(8)  >>,
     << y(3),  X, f(5),  f(6),  N,     f(15) >>,
     << f(12), X, f(9),  f(10), f(16), N     >> >>

IsSpace(m) == m.y2r = 0 /\ m.r2y = 0 /\ m.full \in Spaces

rga_get_csc_mode(hw, in, out) ==
  IF IsSpace(in) /\ IsSpace(out) THEN CscMatrix(hw)[in.full][out.full] ELSE CscError

(* The codes whose coefficients NormalRgaFullColorSpaceConvert knows. *)
FullMatrices == {rgb2yuv_601_full, rgb2yuv_709_full, rgb2yuv_709_limit, 5, 7, 9, 10}

-----------------------------------------------------------------------------
(* rga_task_submit: dstinfo.color_space_mode, or a refusal. *)

Accept(mode) == [ok |-> TRUE, mode |-> mode]
Refuse == [ok |-> FALSE, mode |-> IM_COLOR_SPACE_DEFAULT]

Declared(b) ==
  IF b.csm = IM_COLOR_SPACE_DEFAULT THEN rga_get_default_csc_mode(b.fmt) ELSE b.csm

(* On a core with the full matrix BT.709 limited range goes through it. *)
PreferFull(hw, m) ==
  IF m.r2y = 3 /\ "DST_FULL_CSC" \in hw.feature THEN Csm(m.y2r, 0, rgb2yuv_709_limit) ELSE m

task_csc(hw, src, dst, pat) ==
  LET m == dst.csm
      rgbPat == rga_is_buffer_valid(pat) /\ is_rgb_format(pat.fmt)
  IN
  CASE m.y2r # 0 /\ m.r2y # 0 ->
         IF rgbPat /\ is_yuv_format(src.fmt) /\ is_yuv_format(dst.fmt)
         THEN Accept(PreferFull(hw, m)) ELSE Refuse
    [] m.y2r # 0 /\ m.r2y = 0 ->
         IF is_yuv_format(src.fmt) /\ is_rgb_format(dst.fmt) THEN Accept(m) ELSE Refuse
    [] m.y2r = 0 /\ m.r2y # 0 ->
         IF is_rgb_format(src.fmt) /\ is_yuv_format(dst.fmt)
         THEN Accept(IF rgbPat THEN m ELSE PreferFull(hw, m)) ELSE Refuse
    [] m.y2r = 0 /\ m.r2y = 0
       /\ (\E b \in {src, dst, pat} : FullCsc(b.csm) # 0) ->
         IF ~rga_is_buffer_valid(pat)
         THEN Accept(rga_get_csc_mode(hw, Declared(src), Declared(dst)))
         ELSE IF is_rgb_format(pat.fmt)
         THEN Accept(CsmOr(rga_get_csc_mode(hw, Declared(src), Declared(pat)),
                           rga_get_csc_mode(hw, Declared(pat), Declared(dst))))
         ELSE Refuse
    [] OTHER -> Accept(IM_COLOR_SPACE_DEFAULT)

-----------------------------------------------------------------------------
(* generate_blit_req: the registers.  src1 is the pattern, if it is used.   *)

(* Defect: the pattern between source and destination is not looked at. *)
DefaultY2R_NoPat(src, dst, src1) == IF is_yuv_format(src) /\ is_rgb_format(dst) THEN 1 ELSE 0

DefaultY2R(src, dst, src1) ==
  IF /\ is_yuv_format(src)
     /\ IF src1 = "none" THEN is_rgb_format(dst)
        ELSE is_rgb_format(src1) /\ (is_rgb_format(dst) \/ is_yuv_format(dst))
  THEN 1 ELSE 0

DefaultR2Y(src, dst, src1) ==
  IF /\ is_yuv_format(dst)
     /\ IF src1 = "none" THEN is_rgb_format(src)
        ELSE is_rgb_format(src1) /\ (is_rgb_format(src) \/ is_yuv_format(src))
  THEN 2 ELSE 0

request_csc(mode, src, dst, src1) ==
  LET full == FullCsc(mode)
      y2r == IF mode.y2r # 0 THEN mode.y2r ELSE DefaultY2R(src, dst, src1)
      r2y == IF mode.r2y # 0 THEN mode.r2y ELSE DefaultR2Y(src, dst, src1)
  IN  IF full = 0 THEN Accept(Csm(y2r, r2y, 0))
      ELSE IF full \notin FullMatrices THEN Refuse
      ELSE Accept(Csm(y2r, CASE full = rgb2yuv_709_limit -> 3
                             [] full = rgb2yuv_709_full -> 0
                             [] OTHER -> r2y, full))
=============================================================================
