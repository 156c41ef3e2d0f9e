------------------------------- MODULE Im2dApi -------------------------------
(* The functions of the im2d interface: what each makes of its arguments    *)
(* before rga_task_submit gets them.  Every function exists up to three     *)
(* times: for C++ with default arguments, as a macro for C, and as a task   *)
(* of a job.  Several make more than one submission (the array functions,   *)
(* rectangles, borders); the first that fails ends the call.  The jobs and  *)
(* fences between them are the subject of Im2dJob and Im2dFences.           *)
EXTENDS RgaLegacy
LOCAL INSTANCE SequencesExt

CONSTANTS ApiCalls     \* [name, via, given, args]: calls the application makes

VARIABLES api          \* the running call: its name, way and arguments, the
                       \* parts to do and done, whether it had a fence when
                       \* it looked for one, and its result
apiVars == <<vars, api>>

NoApi == [name |-> "none"]

(* What a function does with its arguments: it refuses them, or submits     *)
(* parts.  A part is a call of rga_task_submit and the image it reads from. *)
Refused(s) == [status |-> s, parts |-> <<>>]
Part(c, from) == [call |-> c, from |-> from]
Draws(parts) == [status |-> "SUCCESS", parts |-> parts]

(* The loop over an array: upTo[n] are the submissions of the first n.      *)
PartsUpTo(plans) ==
  LET upTo[n \in 0 .. Len(plans)] == IF n = 0 THEN <<>> ELSE upTo[n - 1] \o plans[n].parts
  IN  upTo
Together(plans) == Draws(PartsUpTo(plans)[Len(plans)])

-----------------------------------------------------------------------------
(* Buffers and empty operands. *)

set_default_rga_buffer(addr, w, h, fmt, ws, hs) ==
  [addr |-> addr, w |-> w, h |-> h, ws |-> ws, hs |-> hs, fmt |-> fmt,
   csm |-> IM_COLOR_SPACE_DEFAULT, rd |-> "RASTER"]

(* The functions agree; a stride of 0 is the size. *)
OrElse(n, default) == IF n = 0 THEN default ELSE n
wrapbuffer_virtualaddr(w, h, fmt, ws, hs) ==
  set_default_rga_buffer("vir", w, h, fmt, OrElse(ws, w), OrElse(hs, h))
wrapbuffer_physicaladdr(w, h, fmt, ws, hs) ==
  set_default_rga_buffer("phy", w, h, fmt, OrElse(ws, w), OrElse(hs, h))
wrapbuffer_fd(w, h, fmt, ws, hs) ==
  set_default_rga_buffer("fd", w, h, fmt, OrElse(ws, w), OrElse(hs, h))
wrapbuffer_handle(w, h, fmt, ws, hs) ==
  set_default_rga_buffer("handle", w, h, fmt, OrElse(ws, w), OrElse(hs, h))

(* Zeroed structures; a buffer of zeros has format 0, which is RGBA_8888.   *)
(* Options of version 0 are read as those of an old header, and options     *)
(* that are not there are not read.                                         *)
NoBuffer == set_default_rga_buffer("none", 0, 0, "RGBA_8888", 0, 0)
NoOpt == [api |-> "1.7.2", rop |-> 0, ksize |-> 0]
CurrentOpt == [NoOpt EXCEPT !.api = "current"]
NullOpt == [NoOpt EXCEPT !.api = "above"]

empty_structure(src, dst, blend) ==
  [src |-> src, dst |-> dst, pat |-> NoBuffer, srect |-> NoRect, drect |-> NoRect,
   prect |-> NoRect, usage |-> {}, interp |-> DefaultInterp, release |-> FALSE,
   blend |-> blend, y4 |-> "default", opt |-> NoOpt]

Empty(a) == empty_structure(a.src, a.dst, a.blend)

(* sync is 0, 1 or something else, which counts as 1. *)
rga_single_task_submit(a, c) ==
  Draws(<<Part([c EXCEPT !.usage = @ \cup (IF a.sync = 0 THEN {"ASYNC"} ELSE {}),
                         !.release = a.release], "src")>>)
improcessTask(c) == Draws(<<Part(c, "src")>>)

SameSize(a) == a.src.w = a.dst.w /\ a.src.h = a.dst.h
RectOf(x, y, w, h) == [x |-> x, y |-> y, w |-> w, h |-> h]

-----------------------------------------------------------------------------
(* One submission.  A function and its Task twin are written out twice in   *)
(* the code, and here.                                                      *)

imcopy(a) == IF SameSize(a) THEN rga_single_task_submit(a, Empty(a)) ELSE Refused("INVALID_PARAM")
imcopyTask(a) == IF SameSize(a) THEN improcessTask(Empty(a)) ELSE Refused("INVALID_PARAM")

(* Factors are multiples of 1/4; one alone makes the other 1.  For YUV the  *)
(* size is rounded down to even numbers and checked at once.                *)
Factor(f) == OrElse(f, 4)
Resized(a) ==
  LET even(n) == IF is_yuv_format(a.dst.fmt) THEN n - (n % 2) ELSE n
  IN  [a.dst EXCEPT !.w = even((a.src.w * Factor(a.fx)) \div 4),
                    !.h = even((a.src.h * Factor(a.fy)) \div 4)]
Scales(a) == a.fx > 0 \/ a.fy > 0

imresize(a) ==
  LET dst == IF Scales(a) THEN Resized(a) ELSE a.dst
      c == empty_structure(a.src, dst, a.blend)
      checked == IF is_yuv_format(dst.fmt) THEN rga_check_external(hw, c) ELSE "NOERROR"
  IN  IF Scales(a) /\ ~Known(dst.fmt) THEN Refused("NOT_SUPPORTED")
      ELSE IF Scales(a) /\ checked # "NOERROR" THEN Refused(checked)
      ELSE rga_single_task_submit(a, [c EXCEPT !.opt = CurrentOpt, !.interp = a.interp])
imresizeTask(a) ==
  LET dst == IF Scales(a) THEN Resized(a) ELSE a.dst
      c == empty_structure(a.src, dst, a.blend)
      checked == IF is_yuv_format(dst.fmt) THEN rga_check_external(hw, c) ELSE "NOERROR"
  IN  IF Scales(a) /\ ~Known(dst.fmt) THEN Refused("NOT_SUPPORTED")
      ELSE IF Scales(a) /\ checked # "NOERROR" THEN Refused(checked)
      ELSE improcessTask([c EXCEPT !.opt = CurrentOpt, !.interp = a.interp])

(* The twins differ: the task forgets what the destination declares. *)
imcvtcolor(a) ==
  rga_single_task_submit(a,
    [Empty(a) EXCEPT !.src.fmt = a.sfmt, !.dst.fmt = a.dfmt,
                     !.dst.csm = IF @ = IM_COLOR_SPACE_DEFAULT THEN a.mode ELSE @])
imcvtcolorTask(a) ==
  improcessTask([Empty(a) EXCEPT !.src.fmt = a.sfmt, !.dst.fmt = a.dfmt, !.dst.csm = a.mode])

imcrop(a) ==
  rga_single_task_submit(a, [Empty(a) EXCEPT !.srect = a.rect,
                                             !.drect = RectOf(0, 0, a.rect.w, a.rect.h)])
(* Defect: the size of the destination is left to the buffer. *)
imcropTask_NoSize(a) == improcessTask([Empty(a) EXCEPT !.srect = a.rect])
imcropTask(a) ==
  improcessTask([Empty(a) EXCEPT !.srect = a.rect, !.drect = RectOf(0, 0, a.rect.w, a.rect.h)])

imtranslate(a) ==
  LET w == a.src.w - a.x  h == a.src.h - a.y
  IN  IF ~SameSize(a) THEN Refused("INVALID_PARAM")
      ELSE rga_single_task_submit(a, [Empty(a) EXCEPT !.srect = RectOf(0, 0, w, h),
                                                      !.drect = RectOf(a.x, a.y, w, h)])
imtranslateTask(a) ==
  LET w == a.src.w - a.x  h == a.src.h - a.y
  IN  IF ~SameSize(a) THEN Refused("INVALID_PARAM")
      ELSE improcessTask([Empty(a) EXCEPT !.srect = RectOf(0, 0, w, h),
                                          !.drect = RectOf(a.x, a.y, w, h)])

imrotate(a) == rga_single_task_submit(a, [Empty(a) EXCEPT !.usage = a.flags])
imrotateTask(a) == improcessTask([Empty(a) EXCEPT !.usage = a.flags])
imflip(a) == rga_single_task_submit(a, [Empty(a) EXCEPT !.usage = a.flags])
imflipTask(a) == improcessTask([Empty(a) EXCEPT !.usage = a.flags])

imcomposite(a) == rga_single_task_submit(a, [Empty(a) EXCEPT !.usage = a.flags, !.pat = a.pat])
imcompositeTask(a) == improcessTask([Empty(a) EXCEPT !.usage = a.flags, !.pat = a.pat])
imblend(a) == imcomposite([a EXCEPT !.pat = NoBuffer])
imblendTask(a) == imcompositeTask([a EXCEPT !.pat = NoBuffer])

imcolorkey(a) == rga_single_task_submit(a, [Empty(a) EXCEPT !.usage = a.flags])
imcolorkeyTask(a) == improcessTask([Empty(a) EXCEPT !.usage = a.flags])
imquantize(a) == rga_single_task_submit(a, [Empty(a) EXCEPT !.usage = {"QUANTIZE"}])
imquantizeTask(a) == improcessTask([Empty(a) EXCEPT !.usage = {"QUANTIZE"}])
imrop(a) == rga_single_task_submit(a, [Empty(a) EXCEPT !.usage = {"ROP"}, !.opt.rop = a.rop])
imropTask(a) == improcessTask([Empty(a) EXCEPT !.usage = {"ROP"}, !.opt.rop = a.rop])
impalette(a) ==
  IF ~SameSize(a) THEN Refused("INVALID_PARAM")
  ELSE rga_single_task_submit(a, [Empty(a) EXCEPT !.usage = {"COLOR_PALETTE"}, !.pat = a.pat])
impaletteTask(a) ==
  IF ~SameSize(a) THEN Refused("INVALID_PARAM")
  ELSE improcessTask([Empty(a) EXCEPT !.usage = {"COLOR_PALETTE"}, !.pat = a.pat])

(* The image below an OSD block and the one it is put into are the same. *)
imosd(a) ==
  rga_single_task_submit(a,
    [empty_structure(a.dst, a.dst, [a.blend EXCEPT !.mode = "DST_OVER"])
       EXCEPT !.usage = {"BLEND", "OSD"}, !.pat = a.pat, !.srect = a.rect, !.drect = a.rect,
              !.opt = CurrentOpt])
imosdTask(a) ==
  improcessTask(
    [empty_structure(a.dst, a.dst, [a.blend EXCEPT !.mode = "DST_OVER"])
       EXCEPT !.usage = {"BLEND", "OSD"}, !.pat = a.pat, !.srect = a.rect, !.drect = a.rect,
              !.opt = CurrentOpt])

(* The options get a version, or the kernel would not be read. *)
imsetOptGaussianBlur(opt, ksize) ==
  [opt EXCEPT !.ksize = ksize, !.api = IF opt = NoOpt THEN "current" ELSE @]
imgaussianBlur(a) ==
  IF ~SameSize(a) THEN Refused("INVALID_PARAM")
  ELSE rga_single_task_submit(a, [Empty(a) EXCEPT !.usage = {"GAUSS"},
                                                  !.opt = imsetOptGaussianBlur(@, a.ksize)])

-----------------------------------------------------------------------------
(* Several submissions. *)

InImage(image, rect) == [empty_structure(image, image, [mode |-> "SRC_OVER", fg |-> 0, bg |-> 0])
                           EXCEPT !.srect = rect, !.drect = rect]
immosaic(a) ==
  rga_single_task_submit(a, [InImage(a.dst, a.rect) EXCEPT !.usage = {"MOSAIC"}, !.opt = CurrentOpt])
immosaicTask(a) ==
  improcessTask([InImage(a.dst, a.rect) EXCEPT !.usage = {"MOSAIC"}, !.opt = CurrentOpt])

(* The source of a fill is zeroed, whatever the caller has. *)
imfill(a) ==
  rga_single_task_submit(a, [empty_structure(NoBuffer, a.dst, a.blend)
                               EXCEPT !.drect = a.rect, !.usage = {"COLOR_FILL"}])
imfillTask(a) ==
  improcessTask([empty_structure(NoBuffer, a.dst, a.blend)
                   EXCEPT !.drect = a.rect, !.usage = {"COLOR_FILL"}])

immosaicArray(a) == Together([i \in DOMAIN a.rects |-> immosaic([a EXCEPT !.rect = a.rects[i]])])
immosaicTaskArray(a) ==
  Together([i \in DOMAIN a.rects |-> immosaicTask([a EXCEPT !.rect = a.rects[i]])])
imfillArray(a) == Together([i \in DOMAIN a.rects |-> imfill([a EXCEPT !.rect = a.rects[i]])])
imfillTaskArray(a) == Together([i \in DOMAIN a.rects |-> imfillTask([a EXCEPT !.rect = a.rects[i]])])

(* Two bars of the full width and two between them. *)

imrectangle(a) ==
  LET r == a.rect  t == a.thickness  v == r.h - 2 * t
      bars == <<RectOf(r.x, r.y, r.w, t), RectOf(r.x, r.y + r.h - t, r.w, t),
                RectOf(r.x, r.y + t, t, v), RectOf(r.x + r.w - t, r.y + t, t, v)>>
  IN  IF t < 0 THEN imfill(a) ELSE imfillArray([a EXCEPT !.rects = bars])
imrectangleTask(a) ==
  LET r == a.rect  t == a.thickness  v == r.h - 2 * t
      bars == <<RectOf(r.x, r.y, r.w, t), RectOf(r.x, r.y + r.h - t, r.w, t),
                RectOf(r.x, r.y + t, t, v), RectOf(r.x + r.w - t, r.y + t, t, v)>>
  IN  IF t < 0 THEN imfillTask(a) ELSE imfillTaskArray([a EXCEPT !.rects = bars])
imrectangleArray(a) ==
  Together([i \in DOMAIN a.rects |-> imrectangle([a EXCEPT !.rect = a.rects[i]])])
imrectangleTaskArray(a) ==
  Together([i \in DOMAIN a.rects |-> imrectangleTask([a EXCEPT !.rect = a.rects[i]])])

(* Borders.  The image is copied first, then top and bottom are drawn from  *)
(* it, then left and right over the full height from the result.            *)
border_rect(a) ==
  LET b == a.border  h == a.src.h + b.top + b.bottom
  IN  [top |-> RectOf(b.left, 0, a.src.w, b.top),
       bottom |-> RectOf(b.left, a.src.h + b.top, a.src.w, b.bottom),
       left |-> RectOf(0, 0, b.left, h),
       right |-> RectOf(a.src.w + b.left, 0, b.right, h)]

(* Defect: a repeated border is read where a mirrored one is. *)
border_src_rect_Mirrored(a) ==
  LET b == a.border  r == border_rect(a)
  IN  [top |-> RectOf(0, 0, a.src.w, b.top),
       bottom |-> RectOf(0, a.src.h - b.bottom, a.src.w, b.bottom),
       left |-> RectOf(b.left, 0, b.left, r.left.h),
       right |-> RectOf(r.right.x - b.right, 0, b.right, r.right.h)]
border_src_rect(a) ==
  LET b == a.border  r == border_rect(a)
  IN  IF b.type = "REFLECT"
      THEN [top |-> RectOf(0, 0, a.src.w, b.top),
            bottom |-> RectOf(0, a.src.h - b.bottom, a.src.w, b.bottom),
            left |-> RectOf(b.left, 0, b.left, r.left.h),
            right |-> RectOf(r.right.x - b.right, 0, b.right, r.right.h)]
      ELSE [top |-> RectOf(0, a.src.h - b.top, a.src.w, b.top),
            bottom |-> RectOf(0, 0, a.src.w, b.bottom),
            left |-> RectOf(r.right.x - b.left, 0, b.left, r.right.h),
            right |-> RectOf(b.left, 0, b.right, r.left.h)]

(* A part of the border, from the source or from what is drawn already. *)
BorderPart(a, side) ==
  LET across == side \in {"top", "bottom"}
      image == IF across THEN a.src ELSE a.dst
      flip == IF across THEN "FLIP_V" ELSE "FLIP_H"
  IN  Part([empty_structure(image, a.dst, a.blend)
              EXCEPT !.opt = NullOpt, !.srect = border_src_rect(a)[side],
                     !.drect = border_rect(a)[side],
                     !.usage = IF a.border.type = "REFLECT" THEN {flip} ELSE {}],
           IF across THEN "src" ELSE "dst")

(* An empty side above or below is skipped; left and right are drawn        *)
(* together, and an empty one of them is refused by the check.  An unknown  *)
(* type cancels the job and returns what that returns.  These are the parts *)
(* of a call that gets a fence wherever it looks for one (LooksAtFence).    *)
immakeBorder(a) ==
  LET b == a.border
      copy == Part([Empty(a) EXCEPT !.opt = NullOpt, !.usage = {"ASYNC"}, !.release = TRUE,
                                    !.drect = RectOf(b.left, b.top, a.src.w, a.src.h)], "src")
      fill(side) == imfillTask([a EXCEPT !.rect = border_rect(a)[side]]).parts
      when(cond, parts) == IF cond THEN parts ELSE <<>>
      constant == when(b.top # 0, fill("top")) \o when(b.bottom # 0, fill("bottom"))
                  \o when(b.left # 0, fill("left")) \o when(b.right # 0, fill("right"))
      mirrored == when(b.top # 0, <<BorderPart(a, "top")>>)
                  \o when(b.bottom # 0, <<BorderPart(a, "bottom")>>)
                  \o when(b.left # 0 \/ b.right # 0,
                          <<BorderPart(a, "left"), BorderPart(a, "right")>>)
  IN  IF a.sync # 1 /\ ~a.release THEN Refused("INVALID_PARAM")
      ELSE IF \/ a.src.w + b.left + b.right # a.dst.w
              \/ a.src.h + b.top + b.bottom # a.dst.h THEN Refused("ILLEGAL_PARAM")
      ELSE Draws(<<copy>> \o CASE b.type = "CONSTANT" -> constant
                              [] b.type \in {"REFLECT", "WRAP"} -> mirrored
                              [] OTHER -> <<>>)

(* It goes on only behind a fence above 0: that of the copy, and that of    *)
(* the job with the top and the bottom when left and right read what these  *)
(* drew.  Without one it returns the status it has, which is success.       *)
BorderCalls == {"immakeBorder", "immakeBorderAsync"}
AwaitsCopy(n) == n = 1
AwaitsAcross(b, n) ==
  /\ b.type \in {"REFLECT", "WRAP"} /\ (b.top # 0 \/ b.bottom # 0)
  /\ n = IF b.top # 0 /\ b.bottom # 0 THEN 3 ELSE 2
LooksAtFence(name, a, n) ==   \* after the n-th part
  name \in BorderCalls /\ (AwaitsCopy(n) \/ AwaitsAcross(a.border, n))

(* Whether the fence that comes back can be above 0, can be 0.  The         *)
(* multi-core driver answers with a new descriptor, which is 0 only in a    *)
(* process without standard input.  An older one is given a converted copy, *)
(* and the fence is read from the request it was made of, where it is 0.    *)
FenceAboveZero == IF device.driver = "multi" THEN BOOLEAN ELSE {FALSE}
-----------------------------------------------------------------------------
(* Ways to call.  Optional arguments are the last ones; those not given     *)
(* have default values, listed here as records in the order of the          *)
(* arguments.                                                               *)
Filled(a, optional, given) ==
  [f \in DOMAIN a |->
     IF \E i \in DOMAIN optional : i > given /\ f \in DOMAIN optional[i]
     THEN optional[CHOOSE i \in DOMAIN optional : i > given /\ f \in DOMAIN optional[i]][f]
     ELSE a[f]]

SrcOver(a) == [flags |-> {"BLEND"}, blend |-> [a.blend EXCEPT !.mode = "SRC_OVER"]]
NormalKey == [flags |-> {"KEY_NORMAL"}]
Wait == [sync |-> 1]
NoFence == [release |-> FALSE]

(* C++: default arguments of the declarations. *)
cpp_optional(name, a) ==
  CASE name = "imresize" ->
         <<[fx |-> 0], [fy |-> 0], [interp |-> DefaultInterp], Wait, NoFence>>
    [] name = "imcvtcolor" -> <<[mode |-> IM_COLOR_SPACE_DEFAULT], Wait, NoFence>>
    [] name \in {"imblend", "imcomposite"} -> <<SrcOver(a), Wait, NoFence>>
    [] name = "imcolorkey" -> <<NormalKey, Wait, NoFence>>
    [] name = "imgaussianBlur" -> <<[sigma_y |-> 0], Wait, NoFence>>
    [] OTHER -> <<Wait, NoFence>>

(* C: the macros count the arguments they got, in arrays of int or double,  *)
(* and call functions that have no fence.                                   *)
NoRelease(a) == [a EXCEPT !.release = FALSE]
imcopy_t(a) == imcopy(NoRelease(a))
imresize_t(a) == imresize(NoRelease(a))
imcvtcolor_t(a) == imcvtcolor(NoRelease(a))
imcrop_t(a) == imcrop(NoRelease(a))
imtranslate_t(a) == imtranslate(NoRelease(a))
imrotate_t(a) == imrotate(NoRelease(a))
imflip_t(a) == imflip(NoRelease(a))
imblend_t(a) == imcomposite(NoRelease(a))
imcolorkey_t(a) == imcolorkey(NoRelease(a))
imquantize_t(a) == imquantize(NoRelease(a))
imrop_t(a) == imrop(NoRelease(a))
imfill_t(a) == imfill(NoRelease(a))
impalette_t(a) == impalette(NoRelease(a))
imgaussianBlur_t(a) == imgaussianBlur(NoRelease(a))
imosd_c(a) == imosd(NoRelease(a))
immosaic_c(a) == immosaic(NoRelease(a))
immakeBorder_c(a) == immakeBorder([a EXCEPT !.sync = 1, !.release = FALSE])
immakeBorderAsync(a) == immakeBorder(a)

Macro(function_t(_), counts, optional, given, a) ==
  IF given \in counts THEN function_t(Filled(a, optional, given)) ELSE Refused("INVALID_PARAM")

c_imcopy(n, a) == Macro(imcopy_t, {0, 1}, <<Wait>>, n, a)
c_imresize(n, a) ==
  Macro(imresize_t, {0, 2, 3, 4}, <<[fx |-> 0], [fy |-> 0], [interp |-> DefaultInterp], Wait>>, n, a)
c_imcvtcolor(n, a) ==
  Macro(imcvtcolor_t, {0, 1, 2}, <<[mode |-> IM_COLOR_SPACE_DEFAULT], Wait>>, n, a)
c_imcrop(n, a) == Macro(imcrop_t, {0, 1}, <<Wait>>, n, a)
c_imtranslate(n, a) == Macro(imtranslate_t, {0, 1}, <<Wait>>, n, a)
c_imrotate(n, a) == Macro(imrotate_t, {0, 1}, <<Wait>>, n, a)
c_imflip(n, a) == Macro(imflip_t, {0, 1}, <<Wait>>, n, a)
c_imblend(n, a) == Macro(imblend_t, {0, 1, 2}, <<SrcOver(a), Wait>>, n, [a EXCEPT !.pat = NoBuffer])
c_imcomposite(n, a) == Macro(imblend_t, {0, 1, 2}, <<SrcOver(a), Wait>>, n, a)
c_imcolorkey(n, a) == Macro(imcolorkey_t, {0, 1, 2}, <<NormalKey, Wait>>, n, a)
c_imquantize(n, a) == Macro(imquantize_t, {0, 1}, <<Wait>>, n, a)
c_imrop(n, a) == Macro(imrop_t, {0, 1}, <<Wait>>, n, a)
c_imfill(n, a) == Macro(imfill_t, {0, 1}, <<Wait>>, n, a)
c_imreset(n, a) == Macro(imfill_t, {0, 1}, <<Wait>>, n, a)
c_imdraw(n, a) == Macro(imfill_t, {0, 1}, <<Wait>>, n, a)
c_impalette(n, a) == Macro(impalette_t, {0, 1}, <<Wait>>, n, a)
c_imgaussianBlur(n, a) == Macro(imgaussianBlur_t, {0, 1, 2}, <<[sigma_y |-> 0], Wait>>, n, a)
(* IM_UP_SCALE halves the size. *)
impyramid(a) ==
  LET f == IF a.up THEN 2 ELSE 8
  IN  imresize_t([a EXCEPT !.fx = f, !.fy = f, !.interp = DefaultInterp, !.sync = 1])

(* Strides are given to a macro both or not at all. *)
wrapbuffer_handle_t(w, h, ws, hs, fmt) == wrapbuffer_handle(w, h, fmt, ws, hs)
wrapbuffer_virtualaddr_t(w, h, ws, hs, fmt) == wrapbuffer_virtualaddr(w, h, fmt, ws, hs)
wrapbuffer_physicaladdr_t(w, h, ws, hs, fmt) == wrapbuffer_physicaladdr(w, h, fmt, ws, hs)
wrapbuffer_fd_t(w, h, ws, hs, fmt) == wrapbuffer_fd(w, h, fmt, ws, hs)

Wrapped(function_t(_, _, _, _, _), w, h, fmt, strides) ==
  CASE Len(strides) = 0 -> function_t(w, h, w, h, fmt)
    [] Len(strides) = 2 -> function_t(w, h, strides[1], strides[2], fmt)
    [] OTHER -> NoBuffer
c_wrapbuffer_handle(w, h, fmt, strides) == Wrapped(wrapbuffer_handle_t, w, h, fmt, strides)
c_wrapbuffer_virtualaddr(w, h, fmt, strides) == Wrapped(wrapbuffer_virtualaddr_t, w, h, fmt, strides)
c_wrapbuffer_physicaladdr(w, h, fmt, strides) == Wrapped(wrapbuffer_physicaladdr_t, w, h, fmt, strides)
c_wrapbuffer_fd(w, h, fmt, strides) == Wrapped(wrapbuffer_fd_t, w, h, fmt, strides)
-----------------------------------------------------------------------------
(* A call of the application. *)

cpp_call(name, a) ==
  CASE name = "imcopy" -> imcopy(a)           [] name = "imresize" -> imresize(a)
    [] name = "imcvtcolor" -> imcvtcolor(a)   [] name = "imcrop" -> imcrop(a)
    [] name = "imtranslate" -> imtranslate(a) [] name = "imrotate" -> imrotate(a)
    [] name = "imflip" -> imflip(a)           [] name = "imblend" -> imblend(a)
    [] name = "imcomposite" -> imcomposite(a) [] name = "imcolorkey" -> imcolorkey(a)
    [] name = "imosd" -> imosd(a)             [] name = "imquantize" -> imquantize(a)
    [] name = "imrop" -> imrop(a)             [] name = "immosaic" -> immosaic(a)
    [] name = "impalette" -> impalette(a)     [] name = "imgaussianBlur" -> imgaussianBlur(a)
    [] name = "imfill" -> imfill(a)           [] name = "imfillArray" -> imfillArray(a)
    [] name = "imrectangle" -> imrectangle(a) [] name = "imrectangleArray" -> imrectangleArray(a)
    [] name = "immosaicArray" -> immosaicArray(a)
    [] name = "immakeBorder" -> immakeBorder(a)

task_call(name, a) ==
  CASE name = "imcopy" -> imcopyTask(a)           [] name = "imresize" -> imresizeTask(a)
    [] name = "imcvtcolor" -> imcvtcolorTask(a)   [] name = "imcrop" -> imcropTask(a)
    [] name = "imtranslate" -> imtranslateTask(a) [] name = "imrotate" -> imrotateTask(a)
    [] name = "imflip" -> imflipTask(a)           [] name = "imblend" -> imblendTask(a)
    [] name = "imcomposite" -> imcompositeTask(a) [] name = "imcolorkey" -> imcolorkeyTask(a)
    [] name = "imosd" -> imosdTask(a)             [] name = "imquantize" -> imquantizeTask(a)
    [] name = "imrop" -> imropTask(a)             [] name = "immosaic" -> immosaicTask(a)
    [] name = "impalette" -> impaletteTask(a)     [] name = "imfill" -> imfillTask(a)
    [] name = "imfillArray" -> imfillTaskArray(a) [] name = "imrectangle" -> imrectangleTask(a)
    [] name = "imrectangleArray" -> imrectangleTaskArray(a)
    [] name = "immosaicArray" -> immosaicTaskArray(a)

c_call(name, n, a) ==
  CASE name = "imcopy" -> c_imcopy(n, a)           [] name = "imresize" -> c_imresize(n, a)
    [] name = "imcvtcolor" -> c_imcvtcolor(n, a)   [] name = "imcrop" -> c_imcrop(n, a)
    [] name = "imtranslate" -> c_imtranslate(n, a) [] name = "imrotate" -> c_imrotate(n, a)
    [] name = "imflip" -> c_imflip(n, a)           [] name = "imblend" -> c_imblend(n, a)
    [] name = "imcomposite" -> c_imcomposite(n, a) [] name = "imcolorkey" -> c_imcolorkey(n, a)
    [] name = "imosd" -> imosd_c(a)                [] name = "imquantize" -> c_imquantize(n, a)
    [] name = "imrop" -> c_imrop(n, a)             [] name = "immosaic" -> immosaic_c(a)
    [] name = "impalette" -> c_impalette(n, a)     [] name = "imfill" -> c_imfill(n, a)
    [] name = "imreset" -> c_imreset(n, a)         [] name = "imdraw" -> c_imdraw(n, a)
    [] name = "imgaussianBlur" -> c_imgaussianBlur(n, a)
    [] name = "impyramid" -> impyramid(a)
    [] name = "immakeBorder" -> immakeBorder_c(a)
    [] name = "immakeBorderAsync" -> immakeBorderAsync(a)

(* Names of C++, names only C has, and names one of the ways does not have. *)
CppNames ==
  {"imcopy", "imresize", "imcvtcolor", "imcrop", "imtranslate", "imrotate", "imflip", "imblend",
   "imcomposite", "imcolorkey", "imosd", "imquantize", "imrop", "immosaic", "impalette",
   "imgaussianBlur", "imfill", "imfillArray", "imrectangle", "imrectangleArray", "immosaicArray",
   "immakeBorder"}
COnly == {"imreset", "imdraw", "impyramid", "immakeBorderAsync"}
NoTask == {"imgaussianBlur", "immakeBorder"} \cup COnly
NoMacro == {"imfillArray", "imrectangle", "imrectangleArray", "immosaicArray"}

(* What an application can pass; a call has the arguments of every function *)
(* and reads its own.                                                       *)
ArgNames == {"src", "dst", "pat", "rect", "rects", "x", "y", "fx", "fy", "interp", "sfmt", "dfmt", "mode",
             "flags", "blend", "rop", "ksize", "sigma_y", "thickness", "border", "sync", "release"}
ASSUME ApiCallsAssumption ==
  \A k \in ApiCalls :
    /\ k.name \in CppNames \cup COnly /\ k.given \in Nat
    /\ k.args = [f \in DOMAIN k.args |-> k.args[f]] /\ ArgNames \subseteq DOMAIN k.args
    /\ k.args.dst \in rga_buffer_t /\ k.args.rects \in Seq(im_rect)

Plan(k) ==
  CASE k.via = "cpp" -> cpp_call(k.name, Filled(k.args, cpp_optional(k.name, k.args), k.given))
    [] k.via = "c" -> c_call(k.name, k.given, k.args)
    [] k.via = "task" -> task_call(k.name, k.args)

(* Only the multi-core driver gives handles, for buffers and for jobs, and  *)
(* a task is added to a job.                                                *)
ApiPossible(k) ==
  \/ device.driver = "multi"
  \/ k.via # "task" /\ \A b \in {k.args.src, k.args.dst, k.args.pat} : b.addr # "handle"

ApiInit == Init /\ api = NoApi

ApiBegin ==
  /\ call = NoCall /\ api = NoApi
  /\ hw.version # {"V_ERR"}
  /\ \E k \in ApiCalls :
       /\ ApiPossible(k)
       /\ LET plan == Plan(k)
          IN  api' = [name |-> k.name, via |-> k.via, given |-> k.given, args |-> k.args,
                      todo |-> plan.parts, done |-> <<>>, fenced |-> TRUE,
                      result |-> IF plan.parts = <<>> THEN plan.status ELSE "NONE"]
  /\ UNCHANGED vars

Running == api # NoApi /\ api.result = "NONE"

(* The next part becomes a task; what imcheck would say of it is recorded,  *)
(* nobody asks.                                                             *)
ApiSubmit ==
  /\ call = NoCall /\ Running
  /\ call' = Head(api.todo).call
  /\ verdict' = rga_check_external(hw, call')
  /\ UNCHANGED <<device, status, sent, api>>

ApiProcess == Running /\ Process /\ UNCHANGED api

(* A part that fails ends the call, whatever was drawn before it, and so    *)
(* does one after which the call looks for a fence above 0 and finds none.  *)
ApiPartFails ==
  /\ Running /\ Return /\ status # "SUCCESS"
  /\ api' = [api EXCEPT !.result = status]

AfterPart(fenced) ==
  [api EXCEPT !.todo = Tail(@),
              !.done = Append(@, [from |-> Head(api.todo).from, req |-> sent[Len(sent)]]),
              !.fenced = fenced,
              !.result = IF Len(api.todo) = 1 \/ ~fenced THEN "SUCCESS" ELSE @]

ApiPartDone ==
  /\ Running /\ Return /\ status = "SUCCESS"
  /\ \E fenced \in IF LooksAtFence(api.name, api.args, Len(api.done) + 1) THEN FenceAboveZero ELSE {TRUE} :
       api' = AfterPart(fenced)

ApiReturn ==
  /\ api # NoApi /\ ~Running
  /\ api' = NoApi
  /\ UNCHANGED vars

ApiNext ==
  \/ api = NoApi /\ LegacyNext /\ UNCHANGED api
  \/ ApiBegin
  \/ ApiSubmit
  \/ ApiProcess
  \/ ApiPartFails
  \/ ApiPartDone
  \/ ApiReturn

ApiSpec == ApiInit /\ [][ApiNext]_apiVars

-----------------------------------------------------------------------------
(* Properties *)

(* A submission without what tells a single call from a task. *)
Untimed(part) == [part EXCEPT !.call.usage = @ \ {"ASYNC"}, !.call.release = FALSE]
Work(plan) == [plan EXCEPT !.parts = [i \in DOMAIN @ |-> Untimed(@[i])]]

(* A function, its macro and its task are three copies of the same few      *)
(* lines (im2d.cpp 901-1472 and 1683-2014, im2d_single.h 565-1031): the     *)
(* same arguments, with the same number of optional ones, make the same     *)
(* submissions, or are refused alike.  The exceptions are known:            *)
(* imcvtcolorTask overwrites the space a destination declares, imresize     *)
(* takes a single factor in C++ and not in C, and no macro takes a fence,   *)
(* the last argument in C++.                                                *)
TwinsAgree ==
  api # NoApi /\ call = NoCall /\ api.done = <<>> /\ api.name \notin COnly =>
    LET full == Filled(api.args, cpp_optional(api.name, api.args), api.given)
        plan == Work(cpp_call(api.name, full))
    IN  /\ \/ api.name \in NoTask
           \/ api.name = "imcvtcolor" /\ full.dst.csm # IM_COLOR_SPACE_DEFAULT
           \/ Work(task_call(api.name, full)) = plan
        /\ \/ api.name \in NoMacro
           \/ api.name = "imresize" /\ api.given = 1
           \/ api.given >= Len(cpp_optional(api.name, api.args))
           \/ api.name = "immakeBorder" /\ api.given > 0
           \/ Work(c_call(api.name, api.given, api.args)) = plan

(* Pictures.  An unscaled blit copies its window, mirrored or not; a fill   *)
(* paints its window.                                                       *)
Pixels(b) == (0 .. b.w - 1) \X (0 .. b.h - 1)
Inside(q, r) == q[1] \in r.x .. r.x + r.w - 1 /\ q[2] \in r.y .. r.y + r.h - 1
SrcPixel(x, y) == <<"src", x, y>>
Blank == [q \in Pixels(api.args.dst) |-> <<"dst", q[1], q[2]>>]

Drawn(image, part) ==
  LET req == part.req
      col(q) == IF req.flip = "FLIP_H" THEN req.dst.x + req.dst.w - 1 - q[1] ELSE q[1] - req.dst.x
      row(q) == IF req.flip = "FLIP_V" THEN req.dst.y + req.dst.h - 1 - q[2] ELSE q[2] - req.dst.y
      read(q) == LET x == req.src.x + col(q)  y == req.src.y + row(q)
                 IN  IF part.from = "src" THEN SrcPixel(x, y) ELSE image[<<x, y>>]
  IN  [q \in DOMAIN image |-> IF ~Inside(q, req.dst) THEN image[q]
                              ELSE IF req.kind = "fill" THEN <<"colour">> ELSE read(q)]
Picture == FoldLeft(Drawn, Blank, api.done)

(* What the developer guide says a call draws. *)
Inner(r, t) == RectOf(r.x + t, r.y + t, r.w - 2 * t, r.h - 2 * t)
InFrame(q, r, t) == Inside(q, r) /\ (t < 0 \/ ~Inside(q, Inner(r, t)))
Mirror(k, n) == IF k < 0 THEN -1 - k ELSE IF k >= n THEN 2 * n - 1 - k ELSE k
Bordered(q, a) ==
  LET x == q[1] - a.border.left  y == q[2] - a.border.top
      inImage == x \in 0 .. a.src.w - 1 /\ y \in 0 .. a.src.h - 1
  IN  CASE a.border.type = "REFLECT" -> SrcPixel(Mirror(x, a.src.w), Mirror(y, a.src.h))
        [] a.border.type = "WRAP" -> SrcPixel(x % a.src.w, y % a.src.h)
        [] OTHER -> IF inImage THEN SrcPixel(x, y) ELSE <<"colour">>

Promised(q, a, name) ==
  LET old == <<"dst", q[1], q[2]>>
      paint(yes) == IF yes THEN <<"colour">> ELSE old
  IN  CASE name = "imcopy" -> SrcPixel(q[1], q[2])
        [] name = "imcrop" -> IF q[1] < a.rect.w /\ q[2] < a.rect.h
                              THEN SrcPixel(a.rect.x + q[1], a.rect.y + q[2]) ELSE old
        [] name = "imtranslate" -> IF q[1] >= a.x /\ q[2] >= a.y
                                   THEN SrcPixel(q[1] - a.x, q[2] - a.y) ELSE old
        [] name = "imflip" ->
             SrcPixel(IF "FLIP_H" \in a.flags THEN a.src.w - 1 - q[1] ELSE q[1],
                      IF "FLIP_V" \in a.flags THEN a.src.h - 1 - q[2] ELSE q[2])
        [] name \in {"imfill", "imreset", "imdraw"} -> paint(Inside(q, a.rect))
        [] name = "imfillArray" -> paint(\E i \in DOMAIN a.rects : Inside(q, a.rects[i]))
        [] name = "imrectangle" -> paint(InFrame(q, a.rect, a.thickness))
        [] name = "imrectangleArray" ->
             paint(\E i \in DOMAIN a.rects : InFrame(q, a.rects[i], a.thickness))
        [] name \in BorderCalls -> Bordered(q, a)

(* Calls that draw pixels, at sizes that leave nothing to interpretation: a *)
(* frame inside its rectangle, a border no larger than the image.           *)
Framed(a, r) == 2 * a.thickness <= r.w
Pictured(a, name) ==
  CASE name \in {"imcopy", "imtranslate", "imflip"} -> a.flags \in {{}, {"FLIP_H"}, {"FLIP_V"}}
    [] name \in {"imcrop", "imfill", "imreset", "imdraw"} -> a.rect.w > 0
    [] name = "imfillArray" -> TRUE
    [] name = "imrectangle" -> a.rect.w > 0 /\ Framed(a, a.rect)
    [] name = "imrectangleArray" -> \A i \in DOMAIN a.rects : Framed(a, a.rects[i])
    [] name \in BorderCalls -> a.border.type # "unknown"
    [] OTHER -> FALSE

(* A call that returns IM_STATUS_SUCCESS has drawn the picture its          *)
(* documentation describes, when its requests are carried out in order: the *)
(* four bars of a frame meet and do not leave it (im2d.cpp 1434-1448), the  *)
(* parts of a border continue the image by reflection or repetition, also   *)
(* in the corners, which left and right take from what top and bottom have  *)
(* drawn (1498-1656), and a crop or a translation moves every pixel to its  *)
(* place and touches no other.  A call that gave up for want of a fence is  *)
(* left to BorderDrawn.                                                     *)
Succeeded == api # NoApi /\ api.result = "SUCCESS" /\ Pictured(api.args, api.name)
AsPromised == \A q \in Pixels(api.args.dst) : Picture[q] = Promised(q, api.args, api.name)
GaveUp == ~api.fenced /\ api.todo # <<>>
DrawsWhatItSays == Succeeded /\ ~GaveUp => AsPromised

(* immakeBorder returns IM_STATUS_SUCCESS only when the border is drawn:    *)
(* the developer guide (Rockchip_Developer_Guide_RGA_EN.md 2593) says that  *)
(* it will "draw a border to the input image and output it to the output    *)
(* target image buffer", and (2611) that it returns IM_STATUS_SUCCESS on    *)
(* success.  On an older driver the copy's fence is 0 (im2d_impl.cpp 2357)  *)
(* and the call returns success with the image alone (im2d.cpp 1522).       *)
BorderDrawn == Succeeded /\ api.name \in BorderCalls => AsPromised
=============================================================================
