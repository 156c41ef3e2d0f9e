---------------------------- MODULE MCIm2dRequest ----------------------------
(* Devices and calls for the model checker: each family of calls varies one *)
(* concern of the request path and keeps the rest plain.                    *)
EXTENDS Im2dQuery, Im2dDrm, FiniteSets, TLC

Device(cores, str, number, driver) ==
  [cores |-> cores, str |-> str, number |-> number, driver |-> driver]

(* RK3588 lists its three cores in either order; the last four devices     *)
(* have a core the library does not know, and two an unknown version.       *)
MCDevices ==
  { Device(<<"RGA3", "RGA3", "RK3568">>, "v3_0_76831", 3000, "multi"),
    Device(<<"RK3568", "RGA3", "RGA3">>, "v3_2_63318", 3200, "multi"),
    Device(<<"RK3576", "RK3576">>, "v4_1", 4100, "multi"),
    Device(<<"RK3399">>, "v3_02", 3020, "RGA2"),
    Device(<<"RK3506">>, "v3_7", 3700, "multi"),
    Device(<<"other">>, "v2_00", 2000, "RGA2"),
    Device(<<"other">>, "v1_3", 1300, "RGA1"),
    Device(<<"other">>, "v1_0", 1000, "RGA1"),
    Device(<<"other">>, "v9", 9000, "multi") }

OlderDevices == {d \in MCDevices : d.driver # "multi"}

Buffer(w, h, fmt) == wrapbuffer_fd(w, h, fmt, 0, 0)
Rect(x, y, w, h) == RectOf(x, y, w, h)

Call(src, dst, usage) ==
  [src |-> src, dst |-> dst, pat |-> NoBuffer, srect |-> NoRect, drect |-> NoRect,
   prect |-> NoRect, usage |-> usage, interp |-> DefaultInterp, release |-> TRUE,
   blend |-> [mode |-> "SRC_OVER", fg |-> Opaque, bg |-> Opaque], y4 |-> "default",
   opt |-> [api |-> "current", rop |-> 136, ksize |-> 3]]

Rgb(w, h) == Buffer(w, h, "RGBA_8888")
Plain(usage) == Call(Rgb(64, 64), Rgb(64, 64), usage)

(* Sizes at and beyond the limits of the cores, and every kind of turn. *)
Shapes == {Size(64, 64), Size(64, 16), Size(16, 256), Size(1, 16), Size(2, 2), Size(1296, 64),
           Size(2048, 1024), Size(4112, 64), Size(8208, 16)}
Transforms == {{}, {"ROT_90"}, {"ROT_180", "FLIP_V"}, {"ROT_270", "FLIP_H"}, {"FLIP_H_V"},
               {"ROT_90", "ROT_180"}}
Scaling == {Call(Rgb(s.w, s.h), Rgb(d.w, d.h), u) : s, d \in Shapes, u \in Transforms}

Interps == {[h |-> h, v |-> v] : h, v \in {"DEFAULT", "LINEAR", "BICUBIC"}}
Interpolation ==
  {[Call(Rgb(s.w, s.h), Rgb(d.w, d.h), u) EXCEPT !.interp = i] :
     s, d \in {Size(64, 64), Size(128, 32), Size(2048, 256), Size(4128, 512)},
     u \in {{}, {"ROT_90"}}, i \in Interps}

(* Rectangles inside, across and outside the buffer, odd ones and halves. *)
Rects == {NoRect, Rect(0, 0, 32, 32), Rect(32, 32, 32, 32), Rect(33, 1, 30, 20), Rect(48, 0, 32, 32),
          Rect(0, 33, 32, 32), Rect(8, 8, 0, 0), Rect(0, 0, 16, 0), Rect(-2, 0, 32, 32)}
Cropping ==
  {[Call(Buffer(64, 64, f), Buffer(64, 64, g), u) EXCEPT !.srect = r, !.drect = q] :
     f, g \in {"RGBA_8888", "YCbCr_420_SP"}, u \in {{}, {"ROT_90"}, {"CROP"}, {"COLOR_FILL"}},
     r, q \in Rects}

(* Every pair of formats, at strides that suit every core, only some, none. *)
Formatted ==
  {Call(Buffer(w, 64, f), Buffer(w, 64, g), {}) :
     w \in {62, 64}, f, g \in DOMAIN FormatTable \cup {"unknown"}}
Stored ==
  {[Call(Buffer(w, 64, "YCbCr_420_SP"), Rgb(w, 64), {}) EXCEPT !.src.rd = m, !.dst.rd = n,
                                                              !.src.ws = s] :
     w \in {60, 64}, m, n \in {"RASTER", "FBC", "TILE"}, s \in {60, 72, 80}}

(* Rows of the source, the destination and the pattern that suit some cores. *)
Strided ==
  {[Plain(u) EXCEPT !.src.ws = a, !.dst.ws = b, !.pat = [Rgb(64, 64) EXCEPT !.ws = p]] :
     a, b, p \in {66, 68}, u \in {{}, {"BLEND"}, {"COLOR_FILL"}, {"CROP"}}}

Patterned ==
  {[Call(Buffer(64, 64, f), Buffer(64, 64, g), u) EXCEPT !.pat = p, !.prect = r] :
     f, g \in {"RGBA_8888", "YCbCr_420_SP"},
     u \in {{"BLEND"}, {"BLEND", "ROT_90"}, {"COLOR_PALETTE"}},
     p \in {NoBuffer, Rgb(64, 64), Rgb(128, 128), Rgb(64, 32), Buffer(64, 64, "YCbCr_420_SP"),
            Buffer(64, 64, "unknown")},
     r \in {NoRect, Rect(0, 0, 64, 64), Rect(32, 32, 64, 64), Rect(64, 65, 64, 64)}}
ScaledOver ==
  {[Call(Rgb(s.w, s.h), Rgb(64, 64), {"BLEND"}) EXCEPT !.pat = Rgb(64, 64)] :
     s \in {Size(16, 64), Size(512, 64), Size(640, 512), Size(1024, 1024), Size(1040, 64)}}
Palette ==
  {[Call(Buffer(64, 64, "BPP8"), Rgb(n, n), {"COLOR_PALETTE"})
      EXCEPT !.src.addr = "handle", !.dst.addr = "handle", !.pat = [Rgb(256, 2) EXCEPT !.addr = a]] :
     n \in {32, 64}, a \in {"handle", "vir"}}
  \cup {[c EXCEPT !.src.addr = "handle", !.dst.addr = "handle",
                  !.pat.addr = IF @ = "none" THEN @ ELSE "handle"] :
          c \in {p \in Patterned : p.usage = {"COLOR_PALETTE"}}}

Addresses == {"handle", "phy", "fd", "vir", "fd0", "none"}
Addressed ==
  {[Plain(u) EXCEPT !.src.addr = a, !.dst.addr = b, !.pat = [Rgb(64, 64) EXCEPT !.addr = p]] :
     a, b, p \in Addresses, u \in {{}, {"BLEND"}, {"COLOR_FILL"}}}

Featured ==
  {[Plain(u \cup x) EXCEPT !.release = r] :
     u \in {{f} : f \in FeatureUsages}, x \in {{}, {"ASYNC"}, {"ROT_90"}}, r \in BOOLEAN}
  \cup {Call(Rgb(64, 64), Rgb(32, 32), {"GAUSS"})}

(* Features that share registers, and old option structures and codes. *)
Shared == {"PRE_MUL", "KEY_NORMAL", "KEY_INVERTED", "QUANTIZE", "ROP", "MOSAIC", "OSD"}
Blend(f, usage, m, a) ==
  [Call(Rgb(64, 64), Buffer(64, 64, f), usage) EXCEPT !.blend.mode = m, !.blend.fg = a]
Blended ==
  {Blend(f, u \cup x, m, a) :
     f \in {"RGBA_8888", "RGB_565", "Y4"}, u \in {{}, {"BLEND"}},
     x \in {y \in SUBSET Shared : Cardinality(y) <= 2},
     m \in {"SRC_OVER", "XOR", "several"}, a \in {128, Opaque}}
  \cup {Blend(f, {"BLEND"} \cup x, m, a) :
          f \in {"RGBA_8888", "Y4"}, x \in {{}} \cup {{y} : y \in Shared}, m \in LegacyCodes,
          a \in {128, Opaque}}
Dithered ==
  {[Call(Rgb(64, 64), Buffer(64, 64, f), u) EXCEPT !.y4 = y] :
     f \in {"Y4", "Y8"}, u \in {{}, {"QUANTIZE"}, {"ROP"}, {"BLEND", "KEY_NORMAL"}},
     y \in {"default", "RGB_TO_Y4", "RGB_TO_Y4_DITHER", "RGB_TO_Y1_DITHER"}}
Options ==
  {[Plain(u) EXCEPT !.opt = [api |-> v, rop |-> c, ksize |-> k]] :
     u \in {{"ROP"}, {"GAUSS"}, {"GAUSS", "BLEND"}}, v \in {"current", "1.7.2", "above"},
     c \in {0, 136}, k \in {3, 5}}
  \cup {[Call(Rgb(64, 64), Rgb(128, 32), {}) EXCEPT !.opt.api = v, !.interp = i] :
           v \in {"1.7.2", "above"}, i \in Interps}
  \cup {[Plain({"ALPHA_BIT_MAP"}) EXCEPT !.pat = Buffer(64, 64, f)] : f \in {"RGBA_5551", "RGB_565"}}

(* Colour spaces declared by the buffers, and conversions named by the      *)
(* destination, with and without a pattern.                                 *)
Declarations == {Csm(0, 0, k) : k \in 0 .. 6}
Conversions == {Csm(y, r, 0) : y, r \in 0 .. 3}
Coloured ==
  {[Call(Buffer(64, 64, f), Buffer(64, 64, g), IF p = NoBuffer THEN {} ELSE u)
      EXCEPT !.src.csm = a, !.dst.csm = b, !.pat = p] :
     f, g \in {"RGBA_8888", "YCbCr_420_SP"},
     a \in Declarations, b \in Declarations \cup Conversions,
     p \in {NoBuffer, Rgb(64, 64)}, u \in {{"BLEND"}}}

Strideless ==
  {[Plain(u) EXCEPT !.src.hs = h, !.dst.hs = k] : u \in {{}, {"ROT_90"}, {"COLOR_FILL"}}, h, k \in {0, 64}}

MCCalls ==
  Scaling \cup Interpolation \cup Cropping \cup Formatted \cup Stored \cup Strided \cup Patterned
  \cup ScaledOver \cup Palette \cup Addressed \cup Featured \cup Coloured \cup Strideless
  \cup Blended \cup Dithered \cup Options
-----------------------------------------------------------------------------
(* Calls of the interface.  Small pictures: 8 pixels wide, which suits the  *)
(* strides of every core.                                                   *)
ApiCall(name, via, given, a) == [name |-> name, via |-> via, given |-> given, args |-> a]

Small == Buffer(8, 8, "RGBA_8888")
Arguments ==
  [src |-> Small, dst |-> Small, pat |-> NoBuffer, rect |-> NoRect, rects |-> <<>>, x |-> 0, y |-> 0,
   fx |-> 0, fy |-> 0, interp |-> DefaultInterp, sfmt |-> "RGBA_8888", dfmt |-> "RGBA_8888",
   mode |-> IM_COLOR_SPACE_DEFAULT, flags |-> {},
   blend |-> [mode |-> "XOR", fg |-> Opaque, bg |-> Opaque], rop |-> 136, ksize |-> 3, sigma_y |-> 1,
   thickness |-> 2, border |-> [top |-> 2, bottom |-> 2, left |-> 2, right |-> 2, type |-> "CONSTANT"],
   sync |-> 0, release |-> TRUE, up |-> FALSE]

(* Macros take any number of arguments, functions theirs. *)
CCounts(name) ==
  CASE name \in NoMacro -> {}
    [] name \in {"imosd", "immosaic"} -> {1}
    [] name \in {"impyramid", "immakeBorder", "immakeBorderAsync"} -> {0}
    [] OTHER -> 0 .. Len(cpp_optional(name, Arguments)) + 1

(* Every way to make a call, with every number of optional arguments. *)
EveryWay(name, arguments) ==
  {ApiCall(name, "cpp", n, a) : n \in IF name \in COnly THEN {} ELSE 0 .. Len(cpp_optional(name, Arguments)),
                                a \in arguments}
  \cup {ApiCall(name, "c", n, a) : n \in CCounts(name), a \in arguments}
  \cup {ApiCall(name, "task", 0, a) : a \in IF name \in NoTask THEN {} ELSE arguments}

InPicture == {Rect(0, 0, 8, 8), Rect(2, 2, 4, 4), Rect(4, 2, 4, 6), Rect(0, 6, 4, 2), Rect(6, 6, 4, 4)}
Frames == {<<r>> : r \in InPicture} \cup {<<Rect(0, 0, 4, 6), Rect(2, 2, 6, 6)>>}
Borders == {[top |-> t, bottom |-> b, left |-> l, right |-> r, type |-> y] :
              t, b, l, r \in {0, 2}, y \in {"CONSTANT", "REFLECT", "WRAP", "unknown"}}

Drawing ==
  EveryWay("imcopy", {Arguments, [Arguments EXCEPT !.dst.w = 6]})
  \cup EveryWay("imcrop", {[Arguments EXCEPT !.rect = r] : r \in InPicture})
  \cup EveryWay("imtranslate", {[Arguments EXCEPT !.x = x, !.y = y] : x \in {0, 2, 7}, y \in {0, 4}})
  \cup EveryWay("imflip", {[Arguments EXCEPT !.flags = {f}] : f \in Flips})
  \cup UNION {EveryWay(n, {[Arguments EXCEPT !.rect = r] : r \in InPicture}) :
                n \in {"imfill", "imreset", "imdraw", "immosaic"}}
  \cup UNION {EveryWay(n, {[Arguments EXCEPT !.rects = rs] : rs \in {<<>>} \cup Frames}) :
                n \in {"imfillArray", "immosaicArray"}}
  \cup EveryWay("imrectangle",
         {[Arguments EXCEPT !.rect = r, !.thickness = t] : r \in InPicture, t \in {-1, 1, 2, 3}})
  \cup EveryWay("imrectangleArray", {[Arguments EXCEPT !.rects = rs] : rs \in Frames})
Bordering ==
  UNION {EveryWay(n,
           {[Arguments EXCEPT !.border = b, !.sync = s, !.release = (s = 0),
                              !.src.w = 8 - b.left - b.right, !.src.h = 8 - b.top - b.bottom,
                              !.dst.w = w] : b \in Borders, s \in {0, 1}, w \in {6, 8}}) :
           n \in {"immakeBorder", "immakeBorderAsync"}}

(* The rest of the interface; sizes and formats that the checks tell apart  *)
(* are the subject of the calls above.                                      *)
Other ==
  EveryWay("imresize",
    {[Arguments EXCEPT !.src = Buffer(32, 32, f), !.dst = Buffer(32, 32, f), !.fx = x, !.fy = y,
                       !.interp = i] :
       f \in {"RGBA_8888", "YCbCr_420_SP", "unknown"}, x, y \in {0, 2, 8},
       i \in {DefaultInterp, [h |-> "LINEAR", v |-> "LINEAR"]}})
  \cup EveryWay("impyramid", {[Arguments EXCEPT !.up = u] : u \in BOOLEAN})
  \cup EveryWay("imcvtcolor",
         {[Arguments EXCEPT !.src = Buffer(32, 32, "YCbCr_420_SP"), !.dst.csm = k, !.sfmt = "YCbCr_420_SP",
                            !.mode = m] : k \in {IM_COLOR_SPACE_DEFAULT, Csm(0, 0, 1)}, m \in {Csm(1, 0, 0)}})
  \cup EveryWay("imrotate", {[Arguments EXCEPT !.flags = {f}] : f \in Rotations})
  \cup UNION {EveryWay(n, {[Arguments EXCEPT !.flags = {"BLEND"}, !.pat = p] : p \in {NoBuffer, Small}}) :
                n \in {"imblend", "imcomposite"}}
  \cup EveryWay("imcolorkey", {[Arguments EXCEPT !.flags = {"KEY_INVERTED"}]})
  \cup EveryWay("imosd", {[Arguments EXCEPT !.pat = Small, !.rect = Rect(0, 0, 8, 8)]})
  \cup EveryWay("imquantize", {Arguments})
  \cup EveryWay("imrop", {Arguments})
  \cup EveryWay("imgaussianBlur", {Arguments, [Arguments EXCEPT !.ksize = 5], [Arguments EXCEPT !.dst.w = 6]})
  \cup EveryWay("impalette",
         {[Arguments EXCEPT !.src = wrapbuffer_handle(8, 8, "BPP8", 0, 0), !.dst = c_wrapbuffer_handle(8, 8, "RGBA_8888", s),
                            !.pat = wrapbuffer_handle(256, 2, "RGBA_8888", 0, 0)] :
            s \in {<<>>, <<8>>, <<8, 16>>}})

Wrapping ==
  {ApiCall("imcopy", "c", 0, [Arguments EXCEPT !.src = b, !.dst = d]) :
     b, d \in UNION {{c_wrapbuffer_fd(8, 8, "RGBA_8888", s), c_wrapbuffer_handle(8, 8, "RGBA_8888", s),
                      c_wrapbuffer_virtualaddr(8, 8, "RGBA_8888", s),
                      c_wrapbuffer_physicaladdr(8, 8, "RGBA_8888", s)} : s \in {<<>>, <<16>>, <<16, 8>>}}}

(* Every fourcc, one that is not in the table, and every kind of modifier. *)
Modifiers ==
  {[vendor |-> "NONE", type |-> "LINEAR", block |-> 0, split |-> FALSE],
   [vendor |-> "OTHER", type |-> "OTHER", block |-> 2, split |-> TRUE]}
  \cup {[vendor |-> "ARM", type |-> "AFBC", block |-> b, split |-> s] : b \in 1 .. 3, s \in BOOLEAN}
  \cup {[vendor |-> "ROCKCHIP", type |-> t, block |-> b, split |-> FALSE] :
          t \in {"RFBC", "TILED"}, b \in 1 .. 2}
Described ==
  {ApiCall("imcopy", "cpp", 0,
           [src |-> wrapbuffer_handle_drm(64, 64, f, m, 0, 0),
            drm |-> [fourcc |-> f, modifier |-> m]]
           @@ [Arguments EXCEPT !.dst = wrapbuffer_handle(64, 64, "RGBA_8888", 0, 0)]) :
     f \in DOMAIN drm_fourcc_table \cup {[bits |-> 0, name |-> <<"VUY888">>]}, m \in Modifiers}

MCApiCalls == Described \cup Drawing \cup Bordering \cup Other \cup Wrapping
=============================================================================
