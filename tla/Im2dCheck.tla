------------------------------ MODULE Im2dCheck ------------------------------
(* The parameter checks of im2d (im2d_impl.cpp, rga_check and its helpers): *)
(* what imcheck answers and what every task passes through before a request *)
(* is generated.  A check is a status, "NOERROR" when it passes; checks run *)
(* in the code's order and the first failure is the answer.                 *)
(*                                                                          *)
(* A buffer is [addr, w, h, ws, hs, fmt, csm, rd]: how its memory is named, *)
(* its size and strides, format, colour space mode and storage mode.  A     *)
(* rect is [x, y, w, h].  Sizes stay far below 2^30, so sums do not wrap.   *)
EXTENDS Im2dHardware

Check(bad, status) == IF bad THEN status ELSE "NOERROR"

FirstError(checks) ==
  LET bad == {i \in DOMAIN checks : checks[i] # "NOERROR"}
  IN  IF bad = {} THEN "NOERROR" ELSE checks[CHOOSE i \in bad : \A j \in bad : i <= j]

(* A colour space mode: the YUV-to-RGB, RGB-to-YUV and full-range fields of *)
(* the word.  The Y4 dithering modes are left out.                          *)
Csm(y2r, r2y, full) == [y2r |-> y2r, r2y |-> r2y, full |-> full]
IM_COLOR_SPACE_DEFAULT == Csm(0, 0, 0)
FullCsc(csm) == csm.full % 16       \* IM_FULL_CSC_MASK

rga_is_buffer_valid(b) == b.addr \notin {"none", "fd0"}

rga_apply_rect(b, r) == IF r.w > 0 /\ r.h > 0 THEN [b EXCEPT !.w = r.w, !.h = r.h] ELSE b

Rotations == {"ROT_90", "ROT_180", "ROT_270"}
Flips == {"FLIP_H", "FLIP_V", "FLIP_H_V"}
Turns(usage) == usage \cap {"ROT_90", "ROT_270"} # {}
UsesPat(usage, pat) == "BLEND" \in usage /\ rga_is_buffer_valid(pat)

-----------------------------------------------------------------------------

rga_check_info(b, r, res) == FirstError(<<
  Check(b.w <= 0 \/ b.h <= 0, "ILLEGAL_PARAM"),
  Check(b.w < 2 \/ b.h < 2, "ILLEGAL_PARAM"),
  Check(b.ws < b.w \/ b.hs < b.h, "INVALID_PARAM"),
  Check(\/ r.w = 0 /\ r.h > 0
        \/ r.w > 0 /\ r.h = 0, "ILLEGAL_PARAM"),
  Check(r.w < 0 \/ r.h < 0 \/ r.x < 0 \/ r.y < 0, "ILLEGAL_PARAM"),
  Check(r.x + r.w > b.ws \/ r.y + r.h > b.hs, "INVALID_PARAM"),
  Check(b.w > res.w \/ b.h > res.h, "NOT_SUPPORTED"),
  Check(r.w > res.w \/ r.h > res.h, "NOT_SUPPORTED") >>)

rga_yuv_legality_check(b, r) ==
  Check(\E n \in {b.ws, b.hs, b.w, b.h, r.x, r.y, r.w, r.h} : n % 2 # 0, "INVALID_PARAM")

rga_check_format(b, r, formats, usage) ==
  LET f == FormatTable[b.fmt] IN FirstError(<<
    Check(/\ f.class \notin formats
          /\ ~(f.class = "BPP" /\ "COLOR_PALETTE" \in usage), "NOT_SUPPORTED"),
    IF is_yuv_format(b.fmt) THEN rga_yuv_legality_check(b, r) ELSE "NOERROR" >>)

rga_check_align(b, byte_stride, is_read) == FirstError(<<
  Check(b.rd = "FBC" /\ (b.ws % 16 # 0 \/ b.hs % 16 # 0), "NOT_SUPPORTED"),
  Check(b.rd = "TILE" /\ (b.w % 8 # 0 \/ b.h % 8 # 0), "NOT_SUPPORTED"),
  Check(b.rd = "TILE" /\ is_read /\ (b.ws % 16 # 0 \/ b.hs % 16 # 0), "NOT_SUPPORTED"),
  Check((FormatTable[b.fmt].bits * b.ws) % (byte_stride * 8) # 0, "NOT_SUPPORTED") >>)

(* The quotients are floats in the code; at these sizes they compare as the *)
(* products do.                                                             *)
rga_check_limit(src, dst, limit, usage) ==
  LET dw == IF Turns(usage) THEN dst.h ELSE dst.w
      dh == IF Turns(usage) THEN dst.w ELSE dst.h
  IN  Check(\/ src.w > limit * dw \/ src.h > limit * dh
            \/ dw > limit * src.w \/ dh > limit * src.h, "NOT_SUPPORTED")

rga_check_blend(dst, pat, pat_enable) == FirstError(<<
  Check(~is_rgb_format(IF rga_is_buffer_valid(pat) THEN pat.fmt ELSE dst.fmt), "NOT_SUPPORTED"),
  Check(pat_enable /\ (pat.w # dst.w \/ pat.h # dst.h), "NOT_SUPPORTED") >>)

IsRga1(hw) == hw.version \cap {"RGA_1", "RGA_1_PLUS"} # {}

rga_check_rotate(usage, hw) ==
  Check(/\ IsRga1(hw)
        /\ \/ "FLIP_H_V" \in usage
           \/ usage \cap Rotations # {} /\ usage \cap Flips # {}, "NOT_SUPPORTED")

(* The usages that need a feature of the same name (IM_NN_QUANTIZE asks for *)
(* QUANTIZE).                                                               *)
FeatureUsages == {"COLOR_FILL", "COLOR_PALETTE", "ROP", "QUANTIZE", "MOSAIC", "OSD",
                  "PRE_INTR", "ALPHA_BIT_MAP", "GAUSS"}

rga_check_feature(src, dst, pat, pat_enable, usage, feature) ==
  Check(\/ (usage \cap FeatureUsages) \ feature # {}
        \/ pat_enable /\ pat.csm.r2y # 0 /\ "SRC1_R2Y_CSC" \notin feature
        \/ /\ \/ FullCsc(src.csm) # 0 \/ FullCsc(dst.csm) # 0
              \/ pat_enable /\ FullCsc(pat.csm) # 0
           /\ "DST_FULL_CSC" \notin feature, "NOT_SUPPORTED")

rga_check_buffer(b, r, res, formats, stride, usage, is_read) == FirstError(<<
  rga_check_info(b, r, res),
  rga_check_format(b, r, formats, usage),
  rga_check_align(b, stride, is_read) >>)

rga_check(hw, src, dst, pat, srect, drect, prect, usage) ==
  LET fill == "COLOR_FILL" \in usage
      pat_enable == UsesPat(usage, pat)
      input(b, r) == rga_check_buffer(b, r, hw.input_resolution, hw.input_format,
                                      hw.byte_stride, usage, TRUE)
  IN FirstError(<<
       rga_check_feature(src, dst, pat, pat_enable, usage, hw.feature),
       IF fill THEN "NOERROR" ELSE input(src, srect),
       Check(pat_enable /\ IsRga1(hw), "NOT_SUPPORTED"),
       IF pat_enable THEN input(pat, prect) ELSE "NOERROR",
       rga_check_buffer(dst, drect, hw.output_resolution, hw.output_format,
                        hw.byte_stride, usage, FALSE),
       IF fill THEN "NOERROR" ELSE rga_check_limit(src, dst, hw.scale_limit, usage),
       IF "BLEND" \in usage THEN rga_check_blend(dst, pat, pat_enable) ELSE "NOERROR",
       rga_check_rotate(usage, hw) >>)

(* Defect: the rect of the pattern is not applied. *)
rga_check_external_NoPatRect(hw, c) ==
  IF ~Known(c.src.fmt) \/ ~Known(c.dst.fmt) \/ ~Known(c.pat.fmt) THEN "NOT_SUPPORTED"
  ELSE rga_check(hw, rga_apply_rect(c.src, c.srect), rga_apply_rect(c.dst, c.drect), c.pat,
                 c.srect, c.drect, c.prect, c.usage)

(* imcheck: the same checks on the operands as the application passes them. *)
(* IM_CROP makes the destination rect as large as the source rect.          *)
rga_check_external(hw, c) ==
  LET drect == IF "CROP" \in c.usage THEN [c.drect EXCEPT !.w = c.srect.w, !.h = c.srect.h]
               ELSE c.drect
      pat == IF rga_is_buffer_valid(c.pat) THEN rga_apply_rect(c.pat, c.prect) ELSE c.pat
  IN  IF \/ ~Known(c.src.fmt) \/ ~Known(c.dst.fmt)
         \/ rga_is_buffer_valid(c.pat) /\ ~Known(c.pat.fmt)
      THEN "NOT_SUPPORTED"
      ELSE rga_check(hw, rga_apply_rect(c.src, c.srect), rga_apply_rect(c.dst, drect), pat,
                     c.srect, drect, c.prect, c.usage)
=============================================================================
