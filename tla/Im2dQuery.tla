------------------------------ MODULE Im2dQuery ------------------------------
(* querystring: the report an application asks for before it decides what   *)
(* to draw.  The text is put together in a static string without a lock,    *)
(* and the caller gets a pointer into it.  Queries share nothing with       *)
(* drawing calls but the session's hardware_info, which never changes; so   *)
(* no drawing call runs here once a query has begun.                        *)
EXTENDS Im2dApi

CONSTANTS Askers       \* threads that ask

VARIABLES info,        \* the static string: a sequence of lines, or Garbled
          query        \* per thread, what it asked for and what it has so far
queryVars == <<apiVars, info, query>>

(* IM_INFORMATION *)
RGA_VENDOR == 0
RGA_VERSION == 1
RGA_MAX_INPUT == 2
RGA_MAX_OUTPUT == 3
RGA_BYTE_STRIDE == 4
RGA_SCALE_LIMIT == 5
RGA_INPUT_FORMAT == 6
RGA_OUTPUT_FORMAT == 7
RGA_FEATURE == 8
RGA_EXPECTED == 9
RGA_ALL == 10

Garbled == <<[line |-> -1, says |-> "garbled"]>>
Invalid == <<[line |-> -1, says |-> "Invalid instruction"]>>
NoQuery == [pc |-> "idle", asked |-> 0, name |-> 0, all |-> FALSE, out |-> <<>>, clash |-> FALSE]

-----------------------------------------------------------------------------
(* Lines.  What has no word in the code's lists is left out; a               *)
(* number the code calls "unknown" is 0.                                    *)

Wordless == {"RGBA_1010102", "444_10", "SECURE"}
ResolutionText(w) == IF w \in {2048, 4096, 8192, 8128, 2880, 1280} THEN w ELSE 0
output_version == IF hw.version = {"V_ERR"} THEN {"unknown"} ELSE hw.version
InputText == IF hw.input_format = {} THEN {"unknown"} ELSE hw.input_format \ Wordless

(* Defect: every 16 bit format is looked up in the wrong list. *)
OutputText_Input ==
  IF hw.output_format = {} THEN {"unknown"}
  ELSE (hw.output_format \ (Wordless \cup {"ARGB_16BIT", "RGBA_16BIT"}))
       \cup (hw.input_format \cap {"ARGB_16BIT", "RGBA_16BIT"})
(* ARGB_16BIT is looked up in the list of the inputs. *)
OutputText ==
  IF hw.output_format = {} THEN {"unknown"}
  ELSE (hw.output_format \ (Wordless \cup {"ARGB_16BIT"})) \cup (hw.input_format \cap {"ARGB_16BIT"})

ScaleText == IF hw.scale_limit \in {8, 16} THEN hw.scale_limit ELSE 0
FeatureText == hw.feature \ Wordless
ExpectedText == IF hw.performance \in {1, 2, 4} THEN hw.performance ELSE 0

Line(name) ==
  [line |-> name,
   says |-> CASE name = RGA_VENDOR -> "Rockchip"
              [] name = RGA_VERSION -> output_version
              [] name = RGA_MAX_INPUT -> ResolutionText(hw.input_resolution.w)
              [] name = RGA_MAX_OUTPUT -> ResolutionText(hw.output_resolution.w)
              [] name = RGA_BYTE_STRIDE -> hw.byte_stride
              [] name = RGA_SCALE_LIMIT -> ScaleText
              [] name = RGA_INPUT_FORMAT -> InputText
              [] name = RGA_OUTPUT_FORMAT -> OutputText
              [] name = RGA_FEATURE -> FeatureText
              [] name = RGA_EXPECTED -> ExpectedText]

-----------------------------------------------------------------------------
Others(t) == {u \in Askers \ {t} : query[u].pc # "idle"}

(* A ghost: the caller did not have the string to itself until it had read  *)
(* the answer.                                                              *)
Clash(t) == [u \in Askers |-> [query[u] EXCEPT !.clash = @ \/ (u # t /\ query[u].pc # "idle")]]

Ask(t, name) ==
  /\ query[t].pc = "idle"
  /\ query' = [Clash(t) EXCEPT ![t] = [NoQuery EXCEPT !.pc = "loop", !.asked = name, !.name = name,
                                                      !.clash = Others(t) # {}]]
  /\ UNCHANGED <<apiVars, info>>

(* The assignment to the static string; with another one at the same time   *)
(* it leaves either text or neither.                                        *)
Store(t, out) == info' \in {out} \cup (IF \E u \in Others(t) : query[u].pc = "loop" THEN {Garbled} ELSE {})

(* One round of the loop.  The first round of RGA_ALL only turns to line 0: *)
(* the string is empty then and the counter stays.                          *)
BeginAll(t) ==
  /\ query[t].pc = "loop" /\ query[t].name = RGA_ALL /\ ~query[t].all
  /\ Store(t, query[t].out)
  /\ query' = [query EXCEPT ![t].all = TRUE, ![t].name = IF info' = <<>> THEN 0 ELSE 1]
  /\ UNCHANGED apiVars

EndAll(t) ==
  /\ query[t].pc = "loop" /\ query[t].name = RGA_ALL /\ query[t].all
  /\ Store(t, query[t].out)
  /\ query' = [query EXCEPT ![t].pc = "reads"]
  /\ UNCHANGED apiVars

AddLine(t) ==
  LET out == Append(query[t].out, Line(query[t].name))
  IN  /\ query[t].pc = "loop" /\ query[t].name < RGA_ALL
      /\ Store(t, out)
      /\ query' = [query EXCEPT ![t].out = out,
                                ![t].name = IF query[t].all THEN @ + 1 ELSE @,
                                ![t].pc = IF query[t].all THEN "loop" ELSE "reads"]
      /\ UNCHANGED apiVars

Refuse_query(t) ==
  /\ query[t].pc = "loop" /\ query[t].name > RGA_ALL
  /\ query' = [query EXCEPT ![t].pc = "reads", ![t].out = Invalid]
  /\ UNCHANGED <<apiVars, info>>

(* The caller has read what the pointer points to. *)
ReadAnswer(t) ==
  /\ query[t].pc = "reads"
  /\ query' = [query EXCEPT ![t] = NoQuery]
  /\ UNCHANGED <<apiVars, info>>

Querystring(t) ==
  \/ \E name \in RGA_VENDOR .. RGA_ALL + 1 : Ask(t, name)
  \/ BeginAll(t) \/ AddLine(t) \/ EndAll(t) \/ Refuse_query(t)
  \/ ReadAnswer(t)

QueryInit ==
  /\ ApiInit
  /\ info = <<>>
  /\ query = [t \in Askers |-> NoQuery]

NoneAsks == \A t \in Askers : query[t] = NoQuery

QueryNext ==
  \/ NoneAsks /\ info = <<>> /\ ApiNext /\ UNCHANGED <<info, query>>
  \/ /\ call = NoCall /\ api = NoApi /\ hw.version # {"V_ERR"}
     /\ \E t \in Askers : Querystring(t)

QuerySpec == QueryInit /\ [][QueryNext]_queryVars

-----------------------------------------------------------------------------
(* Properties *)

Answer(t) == IF query[t].asked > RGA_ALL THEN query[t].out ELSE info

(* What the checks accept. *)
Plain8(f) == [NoBuffer EXCEPT !.addr = "fd", !.w = 8, !.h = 8, !.ws = 8, !.hs = 8, !.fmt = f]
Accepted(formats) ==
  {FormatTable[f].class : f \in {g \in DOMAIN FormatTable :
                                   rga_check_format(Plain8(g), NoRect, formats, {}) = "NOERROR"}}
Wide(n) == [Plain8("RGBA_8888") EXCEPT !.w = n, !.ws = n]
WidestOf(res, n) ==
  /\ rga_check_info(Wide(n), NoRect, res) = "NOERROR"
  /\ rga_check_info(Wide(n + 1), NoRect, res) = "NOT_SUPPORTED"
Steepest(n) ==
  /\ rga_check_limit(Wide(8), Wide(8 * n), hw.scale_limit, {}) = "NOERROR"
  /\ rga_check_limit(Wide(8), Wide(8 * n + 1), hw.scale_limit, {}) = "NOT_SUPPORTED"

Agrees(l) ==
  CASE l.line = RGA_MAX_INPUT -> l.says > 0 => WidestOf(hw.input_resolution, l.says)
    [] l.line = RGA_MAX_OUTPUT -> l.says > 0 => WidestOf(hw.output_resolution, l.says)
    [] l.line = RGA_SCALE_LIMIT -> Steepest(l.says)
    [] l.line = RGA_INPUT_FORMAT -> Accepted(hw.input_format) \ Wordless \subseteq l.says
    [] l.line = RGA_OUTPUT_FORMAT ->
         /\ Accepted(hw.output_format) \ Wordless \subseteq l.says
         /\ \A class \in l.says : class \in hw.output_format
    [] OTHER -> TRUE

(* A caller that has the static string to itself gets a complete report,    *)
(* each line once and in order, and what the report says agrees with what   *)
(* imcheck accepts on this device: the widest image, the steepest scale,    *)
(* every format with a word of its own and, for the output, no other        *)
(* (im2d.cpp 544-816 against rga_check).                                    *)
ReportTrue ==
  \A t \in Askers :
    query[t].pc = "reads" /\ ~query[t].clash =>
      LET all == query[t].asked = RGA_ALL
          first == IF all THEN RGA_VENDOR ELSE query[t].asked
      IN  IF query[t].asked > RGA_ALL THEN Answer(t) = Invalid
          ELSE /\ Len(Answer(t)) = IF all THEN RGA_EXPECTED - RGA_VENDOR + 1 ELSE 1
               /\ \A i \in DOMAIN Answer(t) :
                    Answer(t)[i].line = first + i - 1 /\ Agrees(Answer(t)[i])
=============================================================================
