----------------------------- MODULE Im2dApiProofs -----------------------------
(***************************************************************************)
(* Proofs about the interfaces, for any device: what querystring reports,  *)
(* that the legacy functions and im2d make the same requests, that a       *)
(* function, its macro and its task do, and that the rectangles of frames  *)
(* and borders make the picture their functions name.                      *)
(***************************************************************************)
EXTENDS Im2dQuery, Im2dRequestProofs

-----------------------------------------------------------------------------
(* The report                                                              *)

\* The table of every session is as good as a row.
LEMMA SessionRow ==
  ASSUME NEW d \in Devices, rga_get_info(d).version # {"V_ERR"}
  PROVE  Row(rga_get_info(d))
  <1>1. CASE KnownCores(d)
    <2>1. d.cores \in Seq(STRING) /\ d.cores # <<>>
      BY DevicesAssumption
    <2>2. Merges(MergedTables(d.cores)[Len(d.cores)], d.cores, Len(d.cores))
      BY <1>1, <2>1, MergedAll DEF KnownCores
    <2> QED
      BY <1>1, <2>2 DEF Merges, rga_get_info
  <1>2. CASE ~KnownCores(d) /\ d.str \in DOMAIN Compatible
    <2>1. Compatible[d.str] \in DOMAIN hw_info_table \ {"V_ERR"}
      BY <1>2, TableJoined DEF Compatible
    <2> QED
      BY <1>2, <2>1, TableRows DEF rga_get_info
  <1>3. CASE ~KnownCores(d) /\ d.str \notin DOMAIN Compatible
    <2>1. rga_get_info(d) = hw_info_table.V_ERR /\ hw_info_table.V_ERR = OlderCores.V_ERR
      BY <1>3, TableJoined DEF rga_get_info
    <2>2. OlderCores.V_ERR.version = {"V_ERR"}
      BY DEF OlderCores, NoEntry
    <2> QED
      BY <2>1, <2>2
  <1> QED
    BY <1>1, <1>2, <1>3

LEMMA WideIs ==
  ASSUME NEW n
  PROVE  /\ Wide(n).w = n /\ Wide(n).h = 8 /\ Wide(n).ws = n /\ Wide(n).hs = 8
         /\ NoRect.x = 0 /\ NoRect.y = 0 /\ NoRect.w = 0 /\ NoRect.h = 0
  BY DEF Wide, Plain8, NoBuffer, set_default_rga_buffer, NoRect

\* The widest image a size lets through is as wide as the size.
LEMMA WidestIs ==
  ASSUME NEW res, Measured(res)
  PROVE  WidestOf(res, res.w)
  <1> DEFINE b(n) == Wide(n)
             r == NoRect
             p1(n) == Check(b(n).w <= 0 \/ b(n).h <= 0, "ILLEGAL_PARAM")
             p2(n) == Check(b(n).w < 2 \/ b(n).h < 2, "ILLEGAL_PARAM")
             p3(n) == Check(b(n).ws < b(n).w \/ b(n).hs < b(n).h, "INVALID_PARAM")
             p4 == Check((r.w = 0 /\ r.h > 0) \/ (r.w > 0 /\ r.h = 0), "ILLEGAL_PARAM")
             p5 == Check(r.w < 0 \/ r.h < 0 \/ r.x < 0 \/ r.y < 0, "ILLEGAL_PARAM")
             p6(n) == Check(r.x + r.w > b(n).ws \/ r.y + r.h > b(n).hs, "INVALID_PARAM")
             p7(n) == Check(b(n).w > res.w \/ b(n).h > res.h, "NOT_SUPPORTED")
             p8 == Check(r.w > res.w \/ r.h > res.h, "NOT_SUPPORTED")
             all(n) == <<p1(n), p2(n), p3(n), p4, p5, p6(n), p7(n), p8>>
  <1>1. \A n : rga_check_info(Wide(n), NoRect, res) = FirstError(all(n))
    BY DEF rga_check_info
  <1>2. ASSUME NEW n \in Nat, n >= 8
        PROVE  /\ p1(n) = "NOERROR" /\ p2(n) = "NOERROR" /\ p3(n) = "NOERROR" /\ p4 = "NOERROR"
               /\ p5 = "NOERROR" /\ p6(n) = "NOERROR" /\ p8 = "NOERROR"
               /\ p7(n) = IF n > res.w THEN "NOT_SUPPORTED" ELSE "NOERROR"
    BY <1>2, WideIs DEF Check, Measured
  <1>3. \A n : /\ DOMAIN all(n) = 1..8 /\ all(n)[1] = p1(n) /\ all(n)[2] = p2(n) /\ all(n)[3] = p3(n)
               /\ all(n)[4] = p4 /\ all(n)[5] = p5 /\ all(n)[6] = p6(n) /\ all(n)[7] = p7(n)
               /\ all(n)[8] = p8
    <2> HIDE DEF p1, p2, p3, p4, p5, p6, p7, p8
    <2> QED
      OBVIOUS
  <1> HIDE DEF p1, p2, p3, p4, p5, p6, p7, p8, all
  <1>4. 1..8 = {1, 2, 3, 4, 5, 6, 7, 8}
    OBVIOUS
  <1>5. ASSUME NEW n \in Nat, n >= 8
        PROVE  FirstError(all(n)) = IF n > res.w THEN "NOT_SUPPORTED" ELSE "NOERROR"
    <2>1. \A i \in {1, 2, 3, 4, 5, 6, 7, 8} : i # 7 => all(n)[i] = "NOERROR"
      BY <1>2, <1>3, <1>5
    <2>2. all(n)[7] = IF n > res.w THEN "NOT_SUPPORTED" ELSE "NOERROR"
      BY <1>2, <1>3, <1>5
    <2>3. DOMAIN all(n) \subseteq 1..8
      BY <1>3
    <2>4. \/ FirstError(all(n)) = "NOERROR" /\ \A i \in DOMAIN all(n) : all(n)[i] = "NOERROR"
          \/ \E i \in DOMAIN all(n) : all(n)[i] # "NOERROR" /\ FirstError(all(n)) = all(n)[i]
      BY <2>3, FirstErrorIsOne
    <2>5. CASE n > res.w
      <3>1. all(n)[7] # "NOERROR" /\ 7 \in DOMAIN all(n)
        BY <1>3, <1>4, <2>2, <2>5
      <3> QED
        BY <1>3, <1>4, <2>1, <2>2, <2>4, <2>5, <3>1
    <2>6. CASE ~(n > res.w)
      BY <1>3, <1>4, <2>1, <2>2, <2>4, <2>6
    <2> QED
      BY <2>5, <2>6
  <1>6. res.w \in Nat /\ res.w >= 8 /\ res.w + 1 \in Nat /\ res.w + 1 >= 8
        /\ ~(res.w > res.w) /\ res.w + 1 > res.w
    BY DEF Measured
  <1> QED
    BY <1>1, <1>5, <1>6 DEF WidestOf

LEMMA SteepestIs ==
  ASSUME hw.scale_limit \in {8, 16}
  PROVE  Steepest(hw.scale_limit)
  <1>1. ~Turns({})
    BY DEF Turns
  <1> QED
    BY <1>1, WideIs DEF Steepest, rga_check_limit, Check

LEMMA AcceptedIs == \A formats : Accepted(formats) \subseteq formats
  <1> SUFFICES ASSUME NEW formats, NEW f \in DOMAIN FormatTable,
                      rga_check_format(Plain8(f), NoRect, formats, {}) = "NOERROR"
               PROVE  FormatTable[f].class \in formats
    BY DEF Accepted
  <1>1. Plain8(f).fmt = f
    BY DEF Plain8, NoBuffer, set_default_rga_buffer
  <1> DEFINE p == Check(FormatTable[f].class \notin formats
                        /\ ~(FormatTable[f].class = "BPP" /\ "COLOR_PALETTE" \in {}), "NOT_SUPPORTED")
             q == IF is_yuv_format(f) THEN rga_yuv_legality_check(Plain8(f), NoRect) ELSE "NOERROR"
  <1>2. rga_check_format(Plain8(f), NoRect, formats, {}) = FirstError(<<p, q>>)
    BY <1>1 DEF rga_check_format
  <1>3. p = "NOERROR" => FormatTable[f].class \in formats
    BY CheckIff
  <1> HIDE DEF p, q
  <1>4. FirstError(<<p, q>>) = "NOERROR" => p = "NOERROR"
    BY ChainIff
  <1> QED
    BY <1>2, <1>3, <1>4

\* What a caller has collected, and what the string holds for it: for a
\* caller without a clash nobody else has written to the string since.
QueryFields == {"pc", "asked", "name", "all", "out", "clash"}
FirstLines(n) == [i \in 1..n |-> Line(i - 1)]
Collects(q) ==
  IF q.all THEN q.asked = RGA_ALL /\ q.name \in 0..RGA_ALL /\ q.out = FirstLines(q.name)
  ELSE q.asked \in 0..RGA_ALL + 1 /\ q.name = q.asked /\ q.out = <<>>
Reported(q, text) ==
  /\ q.asked \in 0..RGA_ALL + 1
  /\ q.asked > RGA_ALL => q.out = Invalid
  /\ q.asked = RGA_ALL => text = FirstLines(RGA_ALL)
  /\ q.asked < RGA_ALL => text = <<Line(q.asked)>>

QueryShape ==
  /\ DOMAIN query = Askers
  /\ \A t \in Askers : /\ DOMAIN query[t] = QueryFields
                       /\ query[t].pc \in {"idle", "loop", "reads"}
                       /\ query[t].all \in BOOLEAN /\ query[t].clash \in BOOLEAN
SessionKept == /\ \E d \in Devices : device = rga_session_init(d)
               /\ \A t \in Askers : query[t].pc # "idle" => hw.version # {"V_ERR"}
ClashSeen == \A t, u \in Askers : t # u /\ query[t].pc # "idle" /\ query[u].pc # "idle" => query[t].clash
AloneCollects == \A t \in Askers : query[t].pc = "loop" /\ ~query[t].clash => Collects(query[t])
AloneReads == \A t \in Askers : query[t].pc = "reads" /\ ~query[t].clash => Reported(query[t], info)
QueryInv == QueryShape /\ SessionKept /\ ClashSeen /\ AloneCollects /\ AloneReads

\* No step changes the session.
LEMMA DeviceKept == ApiNext => device' = device
  <1>1. Next => device' = device
    BY DEF Next, ImCheck, Process, Return, Rejected, DriverTakes, DriverRefuses
  <1>2. LegacyNext => device' = device
    BY <1>1 DEF LegacyNext, LegacyBegin, LegacyProcess, Rejected, DriverTakes, DriverRefuses, LegacyNothing
  <1>3. Process => device' = device
    BY DEF Process, Rejected, DriverTakes, DriverRefuses
  <1>4. Return => device' = device
    BY DEF Return
  <1> QED
    BY <1>2, <1>3, <1>4 DEF ApiNext, ApiBegin, ApiSubmit, ApiProcess, ApiPartFails, ApiPartDone, ApiReturn, vars

\* The lines depend on the session only.
LEMMA LinesKept ==
  ASSUME device' = device
  PROVE  /\ hw' = hw /\ \A n : Line(n)' = Line(n)
         /\ \A q : Collects(q)' = Collects(q)
  <1>1. hw' = hw
    BY DEF hw
  <1>2. \A n : Line(n)' = Line(n)
    BY <1>1 DEF Line, ResolutionText, output_version, InputText, OutputText, ScaleText, FeatureText,
                ExpectedText
  <1>3. \A n : FirstLines(n)' = FirstLines(n)
    BY <1>2 DEF FirstLines
  <1> QED
    BY <1>1, <1>2, <1>3 DEF Collects

LEMMA ReportedKept ==
  ASSUME device' = device, info' = info
  PROVE  \A q : Reported(q, info)' = Reported(q, info)
  BY LinesKept DEF Reported, FirstLines

\* One caller is on its own, or all that have begun know of a clash.
LEMMA StoreAlone ==
  ASSUME QueryInv, NEW t \in Askers, NEW out, query[t].pc = "loop", ~query[t].clash, Store(t, out)
  PROVE  info' = out
  <1>1. Others(t) = {}
    BY DEF Others, QueryInv, ClashSeen
  <1> QED
    BY <1>1 DEF Store

\* A step of a caller that has begun: nobody else without a clash is about.
LEMMA CallerSteps ==
  ASSUME QueryInv, NEW t \in Askers, query[t].pc # "idle", device' = device,
         NEW q, query' = [query EXCEPT ![t] = q],
         DOMAIN q = QueryFields, q.pc \in {"idle", "loop", "reads"}, q.all \in BOOLEAN, q.clash \in BOOLEAN,
         q.pc # "idle" => q.clash = query[t].clash,
         q.pc = "loop" /\ ~q.clash => Collects(q),
         q.pc = "reads" /\ ~q.clash => Reported(q, info')
  PROVE  QueryInv'
  <1> USE DEF QueryInv
  <1>1. query'[t] = q /\ \A u \in Askers : u # t => query'[u] = query[u]
    BY DEF QueryShape
  <1>2. QueryShape'
    BY <1>1 DEF QueryShape
  <1>3. SessionKept'
    BY <1>1, LinesKept DEF SessionKept
  <1>4. ClashSeen'
    BY <1>1 DEF ClashSeen
  <1>5. \A u \in Askers : u # t /\ query'[u].pc # "idle" => query'[u].clash
    BY <1>1 DEF ClashSeen
  <1>6. AloneCollects'
    BY <1>1, <1>5, LinesKept DEF AloneCollects
  <1>7. AloneReads'
    <2>1. Reported(q, info)' = Reported(q, info')
      BY LinesKept DEF Reported, FirstLines
    <2> QED
      BY <1>1, <1>5, <2>1 DEF AloneReads
  <1> QED
    BY <1>2, <1>3, <1>4, <1>6, <1>7

LEMMA AskKeeps ==
  ASSUME QueryInv, NEW t \in Askers, NEW name \in RGA_VENDOR .. RGA_ALL + 1, Ask(t, name),
         hw.version # {"V_ERR"}
  PROVE  QueryInv'
  <1> USE DEF QueryInv
  <1> DEFINE q == [NoQuery EXCEPT !.pc = "loop", !.asked = name, !.name = name, !.clash = Others(t) # {}]
  <1>1. /\ DOMAIN q = QueryFields /\ q.pc = "loop" /\ q.asked = name /\ q.name = name /\ q.all = FALSE
        /\ q.out = <<>> /\ q.clash = (Others(t) # {})
    BY DEF NoQuery, QueryFields
  <1>2. query' = [Clash(t) EXCEPT ![t] = q] /\ query[t].pc = "idle" /\ info' = info /\ device' = device
    BY DEF Ask, apiVars, vars
  <1> HIDE DEF q
  <1>3. DOMAIN query' = Askers /\ query'[t] = q
        /\ \A u \in Askers : u # t => query'[u] = [query[u] EXCEPT !.clash = @ \/ (u # t /\ query[u].pc # "idle")]
    BY <1>2 DEF Clash, QueryShape
  <1>4. ASSUME NEW u \in Askers, u # t
        PROVE  /\ DOMAIN query'[u] = QueryFields /\ query'[u].pc = query[u].pc /\ query'[u].asked = query[u].asked
               /\ query'[u].name = query[u].name /\ query'[u].all = query[u].all
               /\ query'[u].out = query[u].out
               /\ query'[u].clash = (query[u].clash \/ query[u].pc # "idle")
    BY <1>3, <1>4 DEF QueryShape, QueryFields
  <1>5. QueryShape'
    BY <1>1, <1>3, <1>4 DEF QueryShape
  <1>6. SessionKept'
    BY <1>2, <1>3, <1>4, LinesKept DEF SessionKept
  <1>7. ClashSeen'
    <2>1. \A u \in Askers : u # t /\ query[u].pc # "idle" => Others(t) # {}
      BY DEF Others
    <2>2. \A u \in Askers : u # t /\ query'[u].pc # "idle" => query'[u].clash
      BY <1>4
    <2> QED
      BY <1>1, <1>3, <1>4, <2>1, <2>2 DEF ClashSeen
  <1>8. \A u \in Askers : u # t /\ query'[u].pc # "idle" => query'[u].clash
    BY <1>4
  <1>9. AloneCollects'
    <2>1. Collects(q)
      BY <1>1 DEF Collects, RGA_VENDOR, RGA_ALL
    <2> QED
      BY <1>2, <1>3, <1>8, <2>1, LinesKept DEF AloneCollects
  <1>10. AloneReads'
    BY <1>1, <1>3, <1>8 DEF AloneReads
  <1> QED
    BY <1>5, <1>6, <1>7, <1>9, <1>10

LEMMA BeginAllKeeps ==
  ASSUME QueryInv, NEW t \in Askers, BeginAll(t)
  PROVE  QueryInv'
  <1> DEFINE n == IF info' = <<>> THEN 0 ELSE 1
             q == [query[t] EXCEPT !.all = TRUE, !.name = n]
  <1>1. DOMAIN query = Askers /\ DOMAIN query[t] = QueryFields /\ query[t].clash \in BOOLEAN
    BY DEF QueryInv, QueryShape
  <1>2. /\ query' = [query EXCEPT ![t] = q] /\ device' = device /\ query[t].pc = "loop"
        /\ query[t].name = RGA_ALL /\ ~query[t].all /\ Store(t, query[t].out)
    BY <1>1 DEF BeginAll, apiVars, vars
  <1>3. /\ DOMAIN q = QueryFields /\ q.pc = "loop" /\ q.all = TRUE /\ q.name = n /\ q.asked = query[t].asked
        /\ q.out = query[t].out /\ q.clash = query[t].clash
    BY <1>1, <1>2 DEF QueryFields
  <1> HIDE DEF q
  <1>4. ~q.clash => Collects(q)
    <2>1. SUFFICES ASSUME ~q.clash
                   PROVE  Collects(q)
      OBVIOUS
    <2>2. query[t].out = <<>> /\ query[t].asked = RGA_ALL
      BY <1>2, <1>3, <2>1 DEF QueryInv, AloneCollects, Collects
    <2>3. n = 0
      BY <1>2, <1>3, <2>1, <2>2, StoreAlone
    <2>4. FirstLines(0) = <<>>
      BY DEF FirstLines
    <2> QED
      BY <1>3, <2>2, <2>3, <2>4 DEF Collects, RGA_ALL
  <1> QED
    BY <1>1, <1>2, <1>3, <1>4, CallerSteps

LEMMA EndAllKeeps ==
  ASSUME QueryInv, NEW t \in Askers, EndAll(t)
  PROVE  QueryInv'
  <1> DEFINE q == [query[t] EXCEPT !.pc = "reads"]
  <1>1. DOMAIN query = Askers /\ DOMAIN query[t] = QueryFields /\ query[t].clash \in BOOLEAN
        /\ query[t].all \in BOOLEAN
    BY DEF QueryInv, QueryShape
  <1>2. /\ query' = [query EXCEPT ![t] = q] /\ device' = device /\ query[t].pc = "loop"
        /\ query[t].name = RGA_ALL /\ query[t].all /\ Store(t, query[t].out)
    BY <1>1 DEF EndAll, apiVars, vars
  <1>3. /\ DOMAIN q = QueryFields /\ q.pc = "reads" /\ q.all = query[t].all /\ q.asked = query[t].asked
        /\ q.clash = query[t].clash
    BY <1>1, <1>2 DEF QueryFields
  <1> HIDE DEF q
  <1>4. ~q.clash => Reported(q, info')
    <2>1. SUFFICES ASSUME ~q.clash
                   PROVE  Reported(q, info')
      OBVIOUS
    <2>2. query[t].out = FirstLines(RGA_ALL) /\ query[t].asked = RGA_ALL
      BY <1>2, <1>3, <2>1 DEF QueryInv, AloneCollects, Collects
    <2>3. info' = FirstLines(RGA_ALL)
      BY <1>2, <1>3, <2>1, <2>2, StoreAlone
    <2> QED
      BY <1>3, <2>2, <2>3 DEF Reported, RGA_ALL
  <1> QED
    BY <1>1, <1>2, <1>3, <1>4, CallerSteps

LEMMA LineAdded == \A n \in Nat : Append(FirstLines(n), Line(n)) = FirstLines(n + 1)
  <1> SUFFICES ASSUME NEW n \in Nat
               PROVE  Append(FirstLines(n), Line(n)) = FirstLines(n + 1)
    OBVIOUS
  <1> DEFINE f(i) == Line(i - 1)
  <1>1. f(n + 1) = Line(n)
    OBVIOUS
  <1> HIDE DEF f
  <1>2. Append([i \in 1..n |-> f(i)], f(n + 1)) = [i \in 1..n + 1 |-> f(i)]
    OBVIOUS
  <1> QED
    BY <1>1, <1>2 DEF FirstLines, f

LEMMA AddLineKeeps ==
  ASSUME QueryInv, NEW t \in Askers, AddLine(t)
  PROVE  QueryInv'
  <1> DEFINE out == Append(query[t].out, Line(query[t].name))
             n == IF query[t].all THEN query[t].name + 1 ELSE query[t].name
             pc == IF query[t].all THEN "loop" ELSE "reads"
             q == [query[t] EXCEPT !.out = out, !.name = n, !.pc = pc]
  <1>1. DOMAIN query = Askers /\ DOMAIN query[t] = QueryFields /\ query[t].clash \in BOOLEAN
        /\ query[t].all \in BOOLEAN
    BY DEF QueryInv, QueryShape
  <1>2. /\ device' = device /\ query[t].pc = "loop" /\ query[t].name < RGA_ALL /\ Store(t, out)
        /\ query' = [query EXCEPT ![t].out = out,
                                  ![t].name = IF query[t].all THEN @ + 1 ELSE @,
                                  ![t].pc = IF query[t].all THEN "loop" ELSE "reads"]
    BY DEF AddLine, apiVars, vars
  <1> HIDE DEF out
  <1>3. query' = [query EXCEPT ![t] = q]
    BY <1>1, <1>2 DEF QueryFields
  <1>4. /\ DOMAIN q = QueryFields /\ q.pc = pc /\ q.all = query[t].all /\ q.asked = query[t].asked
        /\ q.name = n /\ q.out = out /\ q.clash = query[t].clash
    BY <1>1, <1>2 DEF QueryFields
  <1> HIDE DEF q
  <1>5. ASSUME ~q.clash
        PROVE  info' = out /\ Collects(query[t])
    BY <1>2, <1>4, <1>5, StoreAlone DEF QueryInv, AloneCollects
  <1>6. CASE query[t].all
    <2>1. ASSUME ~q.clash
          PROVE  Collects(q)
      <3>1. query[t].name \in 0..9 /\ query[t].out = FirstLines(query[t].name) /\ query[t].asked = RGA_ALL
        BY <1>2, <1>5, <1>6, <2>1 DEF Collects, RGA_ALL
      <3>2. query[t].name \in Nat
        BY <3>1
      <3>3. out = FirstLines(query[t].name + 1)
        BY <3>1, <3>2, LineAdded DEF out
      <3> QED
        BY <1>4, <1>6, <3>1, <3>3 DEF Collects, RGA_ALL
    <2>2. q.pc = "loop"
      BY <1>4, <1>6
    <2>3. q.pc # "reads" /\ q.all \in BOOLEAN /\ q.clash \in BOOLEAN /\ query[t].pc # "idle"
      BY <1>1, <1>2, <1>4, <2>2
    <2> HIDE DEF n, pc
    <2> QED
      BY <1>2, <1>3, <1>4, <2>1, <2>2, <2>3, CallerSteps
  <1>7. CASE ~query[t].all
    <2>1. ASSUME ~q.clash
          PROVE  Reported(q, info')
      <3>1. query[t].name \in 0..9 /\ query[t].out = <<>> /\ query[t].asked = query[t].name
        BY <1>2, <1>5, <1>7, <2>1 DEF Collects, RGA_ALL
      <3>2. out = <<Line(query[t].asked)>>
        BY <3>1 DEF out
      <3>3. info' = <<Line(query[t].asked)>>
        BY <1>5, <2>1, <3>2
      <3> QED
        BY <1>4, <3>1, <3>3 DEF Reported, RGA_ALL
    <2>2. q.pc = "reads"
      BY <1>4, <1>7
    <2> QED
      BY ZenonT(60), <1>1, <1>2, <1>3, <1>4, <2>1, <2>2, CallerSteps
  <1> QED
    BY <1>6, <1>7

LEMMA RefuseKeeps ==
  ASSUME QueryInv, NEW t \in Askers, Refuse_query(t)
  PROVE  QueryInv'
  <1> DEFINE q == [query[t] EXCEPT !.pc = "reads", !.out = Invalid]
  <1>1. DOMAIN query = Askers /\ DOMAIN query[t] = QueryFields /\ query[t].clash \in BOOLEAN
        /\ query[t].all \in BOOLEAN
    BY DEF QueryInv, QueryShape
  <1>2. /\ query' = [query EXCEPT ![t] = q] /\ device' = device /\ query[t].pc = "loop"
        /\ query[t].name > RGA_ALL
    BY <1>1 DEF Refuse_query, apiVars, vars
  <1>3. /\ DOMAIN q = QueryFields /\ q.pc = "reads" /\ q.all = query[t].all /\ q.asked = query[t].asked
        /\ q.clash = query[t].clash /\ q.out = Invalid
    BY <1>1, <1>2 DEF QueryFields
  <1> HIDE DEF q
  <1>4. ASSUME ~q.clash
        PROVE  Reported(q, info')
    <2>1. Collects(query[t])
      BY <1>2, <1>3, <1>4 DEF QueryInv, AloneCollects
    <2>2. q.asked \in 0..RGA_ALL + 1 /\ q.asked > RGA_ALL
      BY <1>2, <1>3, <2>1 DEF Collects, RGA_ALL
    <2> QED
      BY <1>3, <2>2 DEF Reported, RGA_ALL
  <1> QED
    BY <1>1, <1>2, <1>3, <1>4, CallerSteps

LEMMA ReadKeeps ==
  ASSUME QueryInv, NEW t \in Askers, ReadAnswer(t)
  PROVE  QueryInv'
  <1>1. query' = [query EXCEPT ![t] = NoQuery] /\ device' = device /\ query[t].pc # "idle"
    BY DEF ReadAnswer, apiVars, vars
  <1>2. DOMAIN NoQuery = QueryFields /\ NoQuery.pc = "idle" /\ NoQuery.all = FALSE /\ NoQuery.clash = FALSE
    BY DEF NoQuery, QueryFields
  <1> QED
    BY <1>1, <1>2, CallerSteps

LEMMA ApiKeepsQuery ==
  ASSUME QueryInv, device' = device, UNCHANGED <<info, query>>
  PROVE  QueryInv'
  <1>1. hw' = hw /\ \A q : Collects(q)' = Collects(q)
    BY LinesKept
  <1>2. \A q : Reported(q, info)' = Reported(q, info)
    BY ReportedKept
  <1>3. query' = query
    OBVIOUS
  <1>4. QueryShape' /\ SessionKept' /\ ClashSeen'
    BY <1>1, <1>3 DEF QueryInv, QueryShape, SessionKept, ClashSeen
  <1>5. AloneCollects' /\ AloneReads'
    BY <1>1, <1>2, <1>3 DEF QueryInv, AloneCollects, AloneReads
  <1> QED
    BY <1>4, <1>5 DEF QueryInv

LEMMA SpecQueryInv == QuerySpec => []QueryInv
  <1>1. QueryInit => QueryInv
    <2> SUFFICES ASSUME QueryInit
                 PROVE  QueryInv
      OBVIOUS
    <2>1. DOMAIN NoQuery = QueryFields /\ NoQuery.pc = "idle" /\ NoQuery.all = FALSE /\ NoQuery.clash = FALSE
      BY DEF NoQuery, QueryFields
    <2>2. DOMAIN query = Askers /\ \A t \in Askers : query[t] = NoQuery
      BY DEF QueryInit
    <2>3. \E d \in Devices : device = rga_session_init(d)
      BY DEF QueryInit, ApiInit, Init
    <2> QED
      BY <2>1, <2>2, <2>3 DEF QueryInv, QueryShape, SessionKept, ClashSeen, AloneCollects, AloneReads
  <1>2. QueryInv /\ [QueryNext]_queryVars => QueryInv'
    <2> SUFFICES ASSUME QueryInv, [QueryNext]_queryVars
                 PROVE  QueryInv'
      OBVIOUS
    <2>1. CASE ApiNext /\ UNCHANGED <<info, query>>
      BY <2>1, DeviceKept, ApiKeepsQuery
    <2>2. ASSUME NEW t \in Askers, Querystring(t), hw.version # {"V_ERR"}
          PROVE  QueryInv'
      BY <2>2, AskKeeps, BeginAllKeeps, AddLineKeeps, EndAllKeeps, RefuseKeeps, ReadKeeps DEF Querystring
    <2>3. CASE UNCHANGED queryVars
      <3>1. device' = device /\ UNCHANGED <<info, query>>
        BY <2>3 DEF queryVars, apiVars, vars
      <3> QED
        BY <3>1, ApiKeepsQuery
    <2> QED
      BY <2>1, <2>2, <2>3 DEF QueryNext
  <1> QED
    BY <1>1, <1>2, PTL DEF QuerySpec

\* Every line agrees with the checks on a device with a table.
LEMMA LinesAgree ==
  ASSUME Row(hw), NEW n \in 0..9
  PROVE  Line(n).line = n /\ Agrees(Line(n))
  <1> USE DEF RGA_VENDOR, RGA_VERSION, RGA_MAX_INPUT, RGA_MAX_OUTPUT, RGA_BYTE_STRIDE, RGA_SCALE_LIMIT,
              RGA_INPUT_FORMAT, RGA_OUTPUT_FORMAT, RGA_FEATURE, RGA_EXPECTED
  <1>1. Line(n).line = n
    BY DEF Line
  <1>2. CASE n = 2
    <2>1. Line(n).says = ResolutionText(hw.input_resolution.w)
      BY <1>2 DEF Line
    <2>2. Line(n).says > 0 => Line(n).says = hw.input_resolution.w
      BY <2>1 DEF ResolutionText
    <2>3. WidestOf(hw.input_resolution, hw.input_resolution.w)
      BY WidestIs DEF Row
    <2> QED
      BY <1>1, <1>2, <2>2, <2>3 DEF Agrees
  <1>3. CASE n = 3
    <2>1. Line(n).says = ResolutionText(hw.output_resolution.w)
      BY <1>3 DEF Line
    <2>2. Line(n).says > 0 => Line(n).says = hw.output_resolution.w
      BY <2>1 DEF ResolutionText
    <2>3. WidestOf(hw.output_resolution, hw.output_resolution.w)
      BY WidestIs DEF Row
    <2> QED
      BY <1>1, <1>3, <2>2, <2>3 DEF Agrees
  <1>4. CASE n = 5
    <2>1. Line(n).says = hw.scale_limit
      BY <1>4 DEF Line, ScaleText, Row
    <2> QED
      BY <1>1, <1>4, <2>1, SteepestIs DEF Agrees, Row
  <1>5. CASE n = 6
    <2>1. Line(n).says = InputText
      BY <1>5 DEF Line
    <2>2. Accepted(hw.input_format) \ Wordless \subseteq InputText
      BY AcceptedIs DEF InputText
    <2> QED
      BY <1>1, <1>5, <2>1, <2>2 DEF Agrees
  <1>6. CASE n = 7
    <2>1. Line(n).says = OutputText
      BY <1>6 DEF Line
    <2>2. Accepted(hw.output_format) \subseteq hw.output_format
      BY AcceptedIs
    <2>3. hw.output_format # {} /\ ("ARGB_16BIT" \in hw.output_format <=> "ARGB_16BIT" \in hw.input_format)
      BY DEF Row
    <2>4. Accepted(hw.output_format) \ Wordless \subseteq OutputText
      BY <2>2, <2>3 DEF OutputText
    <2>5. \A class \in OutputText : class \in hw.output_format
      BY <2>3 DEF OutputText
    <2> QED
      BY <1>1, <1>6, <2>1, <2>4, <2>5 DEF Agrees
  <1>7. CASE n \notin {2, 3, 5, 6, 7}
    BY <1>1, <1>7 DEF Agrees
  <1> QED
    BY <1>1, <1>2, <1>3, <1>4, <1>5, <1>6, <1>7

\* What querystring hands to a caller that has the string to itself is
\* complete and true of the device, whatever the other threads asked before.
THEOREM ReportIsTrue == QuerySpec => []ReportTrue
  <1>1. QueryInv => ReportTrue
    <2> SUFFICES ASSUME QueryInv, NEW t \in Askers, query[t].pc = "reads", ~query[t].clash
                 PROVE  LET all == query[t].asked = RGA_ALL
                            first == IF all THEN RGA_VENDOR ELSE query[t].asked
                        IN  IF query[t].asked > RGA_ALL THEN Answer(t) = Invalid
                            ELSE /\ Len(Answer(t)) = IF all THEN RGA_EXPECTED - RGA_VENDOR + 1 ELSE 1
                                 /\ \A i \in DOMAIN Answer(t) :
                                      Answer(t)[i].line = first + i - 1 /\ Agrees(Answer(t)[i])
      BY DEF ReportTrue
    <2>1. Row(hw)
      <3>1. PICK d \in Devices : device = rga_session_init(d)
        BY DEF QueryInv, SessionKept
      <3>2. hw = rga_get_info(d)
        BY <3>1 DEF hw, rga_session_init
      <3>3. hw.version # {"V_ERR"}
        BY DEF QueryInv, SessionKept
      <3> QED
        BY <3>2, <3>3, SessionRow
    <2>2. Reported(query[t], info)
      BY DEF QueryInv, AloneReads
    <2>3. CASE query[t].asked > RGA_ALL
      BY <2>2, <2>3 DEF Reported, Answer
    <2>4. CASE query[t].asked = RGA_ALL
      <3>1. Answer(t) = FirstLines(10)
        BY <2>2, <2>4 DEF Reported, Answer, RGA_ALL
      <3>2. Len(FirstLines(10)) = 10 /\ DOMAIN FirstLines(10) = 1..10
            /\ \A i \in 1..10 : FirstLines(10)[i] = Line(i - 1)
        BY DEF FirstLines
      <3>3. \A i \in 1..10 : Line(i - 1).line = i - 1 /\ Agrees(Line(i - 1))
        BY <2>1, LinesAgree
      <3> QED
        BY <2>4, <3>1, <3>2, <3>3 DEF RGA_ALL, RGA_VENDOR, RGA_EXPECTED
    <2>5. CASE query[t].asked < RGA_ALL
      <3>1. query[t].asked \in 0..9 /\ Answer(t) = <<Line(query[t].asked)>>
        BY <2>2, <2>5 DEF Reported, Answer, RGA_ALL
      <3>2. Line(query[t].asked).line = query[t].asked /\ Agrees(Line(query[t].asked))
        BY <2>1, <3>1, LinesAgree
      <3>3. Len(Answer(t)) = 1 /\ DOMAIN Answer(t) = {1} /\ Answer(t)[1] = Line(query[t].asked)
        BY <3>1
      <3> QED
        BY <2>5, <3>1, <3>2, <3>3 DEF RGA_ALL
    <2>6. query[t].asked \in 0..11
      BY SMTT(40), <2>2 DEF Reported, RGA_ALL
    <2> QED
      BY <2>3, <2>4, <2>5, <2>6 DEF RGA_ALL
  <1> QED
    BY <1>1, SpecQueryInv, PTL

-----------------------------------------------------------------------------
(* The two interfaces                                                      *)

\* What im2d makes of the operands of a legacy call that it accepts.
Im2dRegs(usePat) ==
  blit_regs(AddressLayout(device), call, rga_apply_rect(call.src, call.srect), PatOf(call), usePat,
            rga_apply_rect(call.dst, call.drect), Rot, Size(DstRect.ws, DstRect.hs))
OldRegs(usePat) == LegacyRegs(LegacyLayout(mVersion), call, usePat, Rot, Size(DstRect.ws, DstRect.hs))
Scaled(usePat) == ScaleTo(DstRect, PatRect(usePat), usePat, Rot, Flip)
BlitReq(usePat, asked, limit, csc, reg) ==
  Request("blit", SrcRect, Facing(PatRect(usePat), Rot), Facing(DstRect, Rot), Rot, Flip,
          PickInterp(asked, SrcRect, Scaled(usePat), DstRect, limit), csc, reg)
Operated(usePat) == {call.src, call.dst} \cup (IF usePat THEN {call.pat} ELSE {})
PatUsed == UsesPat(call.usage, call.pat)

LEMMA Im2dBlits ==
  ASSUME call \in Tasks, Im2dTask.status = "SUCCESS", call.usage \cap {"COLOR_FILL", "COLOR_PALETTE"} = {},
         rga_is_buffer_valid(call.src)
  PROVE  /\ Im2dTask = Sends(<<BlitReq(PatUsed, task_interp(call), hw.scale_ver_bicubic_limit,
                                      BlitCsc(PatUsed).mode, Im2dRegs(PatUsed))>>)
         /\ checkRectForRga(SrcRect, call.src.fmt) /\ checkRectForRga(DstRect, call.dst.fmt)
         /\ PatUsed => /\ checkRectForRga(PatRect(PatUsed), call.pat.fmt)
                       /\ PatRect(PatUsed).w = DstRect.w /\ PatRect(PatUsed).h = DstRect.h
         /\ ~ScaleTooLarge(SrcRect, Scaled(PatUsed), device.driver)
         /\ ~MixedHandles(Operated(PatUsed))
         /\ TaskCsc.ok /\ BlitCsc(PatUsed).ok
         /\ rga_is_buffer_valid(call.dst)
         /\ rga_check_limit(SrcRect, DstRect, hw.scale_limit, call.usage) = "NOERROR"
  <1> DEFINE src == rga_apply_rect(call.src, call.srect)
             dst == rga_apply_rect(call.dst, call.drect)
             pat == PatOf(call)
             mode == task_csc(device.hardware_info, src, dst, pat).mode
  <1>1. /\ rga_is_buffer_valid(call.dst)
        /\ rga_check(hw, src, dst, pat, call.srect, call.drect, call.prect, call.usage) = "NOERROR"
        /\ task_csc(device.hardware_info, src, dst, pat).ok
        /\ Im2dTask = generate_blit_req(device, call, src, dst, pat, UsesPat(call.usage, pat), mode)
    BY SubmitSucceeds DEF Im2dTask, hw
  <1>2. /\ UsesPat(call.usage, pat) => pat.w = dst.w /\ pat.h = dst.h
        /\ rga_check_limit(src, dst, hw.scale_limit, call.usage) = "NOERROR"
    BY <1>1, TaskChecked, CheckIs DEF CheckParts
  <1>3. /\ src.addr = call.src.addr /\ src.fmt = call.src.fmt
        /\ dst.addr = call.dst.addr /\ dst.fmt = call.dst.fmt
        /\ \A fmt : checkRectForRga(Window(src, call.srect), fmt) => Window(src, call.srect) = SrcRect
        /\ \A fmt : checkRectForRga(Window(dst, call.drect), fmt) => Window(dst, call.drect) = DstRect
    BY OperandWindows DEF Tasks, SrcRect, DstRect
  <1>4. UsesPat(call.usage, pat) <=> PatUsed
    BY PatternOf DEF UsesPat, rga_is_buffer_valid, PatUsed
  <1>5. \A s : Fails(s).status = s
    BY DEF Fails
  <1> DEFINE usePat == UsesPat(call.usage, pat)
             s == Window(src, call.srect)
             d == Window(dst, call.drect)
             p == IF usePat THEN Window(pat, call.prect) ELSE NoWindow
             to == ScaleTo(d, p, usePat, Rot, Flip)
             limit == device.hardware_info.scale_ver_bicubic_limit
             csc == request_csc(mode, src.fmt, dst.fmt, IF usePat THEN pat.fmt ELSE "none")
             interp == PickInterp(task_interp(call), s, to, d, limit)
             regs == blit_regs(AddressLayout(device), call, src, pat, usePat, dst, Rot, Size(d.ws, d.hs))
             bufs == {src, dst} \cup (IF usePat THEN {pat} ELSE {})
             made == Request("blit", s, Facing(p, Rot), Facing(d, Rot), Rot, Flip, interp, csc.mode, regs)
  <1>6. rga_is_buffer_valid(src)
    BY <1>3 DEF rga_is_buffer_valid
  <1>7. \/ Im2dTask = Fails("FAILED")
        \/ /\ Im2dTask = Sends(<<made>>) /\ csc.ok /\ ~MixedHandles(bufs)
           /\ BlitRectsFit(s, src, p, pat, usePat, d, dst)
           /\ ~ScaleTooLarge(s, to, device.driver)
    BY <1>1, <1>6 DEF generate_blit_req, Rot, Flip, Facing, Quarter
  <1>8. /\ Im2dTask = Sends(<<made>>) /\ csc.ok /\ ~MixedHandles(bufs)
        /\ BlitRectsFit(s, src, p, pat, usePat, d, dst)
        /\ ~ScaleTooLarge(s, to, device.driver)
    <2> HIDE DEF made, csc, bufs, s, p, usePat, d, to
    <2> QED
      BY <1>5, <1>7
  <1>9. s = SrcRect /\ d = DstRect /\ checkRectForRga(s, call.src.fmt) /\ checkRectForRga(d, call.dst.fmt)
    BY <1>3, <1>8 DEF BlitRectsFit
  <1>10. usePat => /\ pat = rga_apply_rect(call.pat, call.prect) /\ pat.fmt = call.pat.fmt
                   /\ pat.addr = call.pat.addr
    BY PatternOf
  <1>11. /\ p = PatRect(PatUsed)
         /\ PatUsed => checkRectForRga(p, call.pat.fmt)
    BY <1>4, <1>8, <1>10, OperandWindows DEF BlitRectsFit, PatRect, Tasks
  <1>12. PatUsed => p.w = d.w /\ p.h = d.h
    BY <1>2, <1>4 DEF Window
  <1>13. csc = BlitCsc(PatUsed)
    BY <1>3, <1>4, PatternOf DEF BlitCsc, TaskCsc, hw
  <1>14. usePat = PatUsed
    BY <1>4 DEF UsesPat, rga_is_buffer_valid, PatUsed
  <1>15. to = Scaled(PatUsed) /\ regs = Im2dRegs(PatUsed)
    BY <1>9, <1>11, <1>14 DEF Scaled, Im2dRegs
  <1>16. made = BlitReq(PatUsed, task_interp(call), hw.scale_ver_bicubic_limit, BlitCsc(PatUsed).mode, Im2dRegs(PatUsed))
    BY <1>9, <1>11, <1>13, <1>15 DEF BlitReq, hw
  <1>17. ~MixedHandles(Operated(PatUsed))
    <2>1. \A b \in Operated(PatUsed) : \E c \in bufs : c.addr = b.addr
      BY <1>3, <1>10, <1>14 DEF Operated
    <2> HIDE DEF bufs
    <2> QED
      BY <1>8, <2>1 DEF MixedHandles
  <1>18. src.w = s.w /\ src.h = s.h /\ dst.w = d.w /\ dst.h = d.h
    BY DEF Window
  <1>19. rga_check_limit(SrcRect, DstRect, hw.scale_limit, call.usage) = "NOERROR"
    BY <1>2, <1>9, <1>18 DEF rga_check_limit
  <1> QED
    BY <1>1, <1>8, <1>9, <1>11, <1>12, <1>13, <1>15, <1>16, <1>17, <1>19 DEF TaskCsc, hw

LEMMA SessionLimit ==
  ASSUME DeviceInv, hw.version # {"V_ERR"}
  PROVE  /\ hw.scale_limit \in {8, 16} /\ mVersion \in Nat
         /\ device.driver = "RGA1" => hw.scale_limit = 8 /\ mVersion \in 1300..1999
         /\ device.driver # "RGA1" => mVersion >= 2000
  <1>1. PICK d \in Devices : device = rga_session_init(d)
    BY DEF DeviceInv
  <1>2. /\ hw = rga_get_info(d) /\ device.driver = d.driver /\ device.number = d.number
    BY <1>1 DEF rga_session_init, hw
  <1>3. Row(hw)
    BY <1>2, SessionRow
  <1>4. ASSUME device.driver = "RGA1"
        PROVE  hw.scale_limit = 8 /\ mVersion \in 1300..1999
    <2>0. d.driver = "RGA1"
      BY <1>2, <1>4
    <2>1. ~KnownCores(d) /\ (d.str \in DOMAIN Compatible => d.str \in {"v1_3", "v1_6"} /\ d.number \in 1300..1999)
      BY ONLY <2>0, FirstDriverAssumption, d \in Devices
    <2>2. d.str \in DOMAIN Compatible
      <3>1. SUFFICES ASSUME d.str \notin DOMAIN Compatible
                     PROVE  FALSE
        OBVIOUS
      <3>2. hw = hw_info_table.V_ERR /\ hw_info_table.V_ERR = OlderCores.V_ERR
        BY <1>2, <2>1, <3>1, TableJoined DEF rga_get_info
      <3> QED
        BY <3>2 DEF OlderCores, NoEntry
    <2>3. hw = hw_info_table[Compatible[d.str]] /\ Compatible[d.str] \in {"RGA_1", "RGA_1_PLUS"}
      BY <1>2, <2>1, <2>2 DEF rga_get_info, Compatible
    <2>4. hw \in {OlderCores.RGA_1, OlderCores.RGA_1_PLUS}
      BY <2>3, TableJoined
    <2>5. OlderCores.RGA_1.scale_limit = 8
      BY DEF OlderCores, Entry
    <2>6. OlderCores.RGA_1_PLUS.scale_limit = 8
      BY DEF OlderCores, Entry
    <2> QED
      BY <1>2, <1>4, <2>1, <2>2, <2>4, <2>5, <2>6 DEF mVersion
  <1>5. device.driver # "RGA1" => mVersion >= 2000
    BY DEF DeviceInv, mVersion
  <1>6. mVersion \in Nat
    BY DEF DeviceInv, mVersion
  <1> QED
    BY <1>3, <1>4, <1>5, <1>6 DEF Row

\* A scale that im2d accepts is not refused by RgaBlit.
LEMMA ScaleTaken ==
  ASSUME DeviceInv, Comparable, call \in Tasks,
         checkRectForRga(SrcRect, call.src.fmt), checkRectForRga(DstRect, call.dst.fmt),
         PatUsed => PatRect(PatUsed).w = DstRect.w /\ PatRect(PatUsed).h = DstRect.h,
         PatUsed <=> "BLEND" \in call.usage /\ call.pat.w > 0,
         ~ScaleTooLarge(SrcRect, Scaled(PatUsed), device.driver),
         rga_check_limit(SrcRect, DstRect, hw.scale_limit, call.usage) = "NOERROR"
  PROVE  ~LegacyScaleRefused(SrcRect, Scaled(PatUsed), PatUsed, mVersion)
  <1> DEFINE to == Scaled(PatUsed)
             s == SrcRect
             dw == IF Turns(call.usage) THEN DstRect.h ELSE DstRect.w
             dh == IF Turns(call.usage) THEN DstRect.w ELSE DstRect.h
  <1>1. /\ hw.scale_limit \in {8, 16} /\ mVersion \in Nat
        /\ device.driver = "RGA1" => hw.scale_limit = 8 /\ mVersion \in 1300..1999
        /\ device.driver # "RGA1" => mVersion >= 2000
    BY SessionLimit DEF Comparable
  <1>2. /\ SrcRect \in Windows /\ DstRect \in Windows /\ PatRect(PatUsed) \in Windows
        /\ Rot \in Rotations \cup {"NONE"} /\ Flip \in Flips \cup {"NONE"}
    BY CallRects DEF PatUsed, UsesPat
  <1>3. Turns(call.usage) <=> Quarter(Rot) /\ Flip = "NONE"
    <2>1. \A u, v \in call.usage \cap (Rotations \cup Flips) : u = v
      BY DEF Comparable
    <2>2. CASE Turns(call.usage)
      <3>1. PICK u \in call.usage : u \in {"ROT_90", "ROT_270"}
        BY <2>2 DEF Turns
      <3>2. call.usage \cap Rotations = {u} /\ call.usage \cap Flips = {} /\ u \in Rotations
        BY <2>1, <3>1 DEF Rotations, Flips
      <3>3. Rot = u
        BY <3>2 DEF Rot, OnlyOne
      <3>4. Flip = "NONE"
        BY <3>2, OnlyOneIs DEF Flip
      <3> QED
        BY <2>2, <3>1, <3>3, <3>4 DEF Quarter
    <2>3. CASE ~Turns(call.usage)
      BY <2>3, CallRects
    <2> QED
      BY <2>2, <2>3
  <1>4. to.w = dw /\ to.h = dh /\ dw \in Int /\ dh \in Int /\ s.w \in Int /\ s.h \in Int
    <2> DEFINE ref == IF PatUsed THEN PatRect(PatUsed) ELSE DstRect
    <2>1. ref \in Windows /\ ref.w = DstRect.w /\ ref.h = DstRect.h
      BY <1>2
    <2>2. to = IF Quarter(Rot) /\ Flip = "NONE" THEN Turned(ref) ELSE ref
      BY DEF Scaled, ScaleTo, Quarter
    <2> HIDE DEF ref
    <2> QED
      BY <1>2, <1>3, <2>1, <2>2 DEF Turned, Windows
  <1>5. s.w >= 2 /\ s.h >= 2 /\ dw >= 2 /\ dh >= 2
    BY DEF checkRectForRga
  <1>6. LET n == hw.scale_limit
        IN  s.w <= n * dw /\ s.h <= n * dh /\ dw <= n * s.w /\ dh <= n * s.h
    <2>1. ~(\/ s.w > hw.scale_limit * dw \/ s.h > hw.scale_limit * dh
            \/ dw > hw.scale_limit * s.w \/ dh > hw.scale_limit * s.h)
      BY CheckIff DEF rga_check_limit
    <2> HIDE DEF dw, dh
    <2> QED
      BY <1>1, <1>4, <2>1
  <1> HIDE DEF to, s, dw, dh
  <1>7. /\ s.w <= 16 * dw /\ s.h <= 16 * dh /\ dw <= 16 * s.w /\ dh <= 16 * s.h
        /\ device.driver = "RGA1" => s.w <= 8 * dw /\ s.h <= 8 * dh /\ dw <= 8 * s.w /\ dh <= 8 * s.h
    BY <1>1, <1>4, <1>5, <1>6
  <1>8. PatUsed => mVersion # 2000
    <2>1. call.pat.w \in Int
      BY DEF Tasks, rga_buffer_t
    <2> QED
      BY <2>1 DEF Comparable
  <1>9. /\ mVersion < 2000 => device.driver = "RGA1" 
        /\ ~(mVersion < 1003)
        /\ PatUsed /\ mVersion <= 2000 => device.driver = "RGA1"
    BY <1>1, <1>8
  <1>10. ~LegacyScaleRefused(s, to, PatUsed, mVersion)
    BY <1>4, <1>7, <1>9 DEF LegacyScaleRefused
  <1> QED
    BY <1>10 DEF s, to

\* An interpolation that the caller leaves to the interface is never refused.
LEMMA DefaultInterpTaken ==
  ASSUME NEW s, NEW to, NEW d, NEW limit, s.h \in Int, to.h \in Int, s.w \in Int, to.w \in Int
  PROVE  ~LegacyInterpRefused(PickInterp(DefaultInterp, s, to, d, LegacyBicubicLimit), s, to, d)
  BY DEF LegacyInterpRefused, PickInterp, DefaultInterp

\* RgaBlit makes its request of operands that im2d accepts.
LEMMA LegacyBlits ==
  ASSUME DeviceInv, Comparable, call \in Tasks, Im2dTask.status = "SUCCESS",
         "COLOR_FILL" \notin call.usage
  PROVE  LegacyTask = Sends(<<BlitReq(PatUsed, call.interp, LegacyBicubicLimit, BlitCsc(PatUsed).mode, OldRegs(PatUsed))>>)
  <1> DEFINE usePat == "BLEND" \in call.usage /\ call.pat.w > 0
             s == LegacyWindow(call.src, call.srect)
             d == LegacyWindow(call.dst, call.drect)
             p == IF usePat THEN LegacyWindow(call.pat, call.prect) ELSE NoWindow
             bufs == {call.src, call.dst} \cup (IF usePat THEN {call.pat} ELSE {})
             to == LegacyScaleTo(d, p, usePat, Rot, Flip)
             interp == PickInterp(call.interp, s, to, d, LegacyBicubicLimit)
             csc == LegacyCsc(call.dst.csm, call.src.fmt, call.dst.fmt, IF usePat THEN call.pat.fmt ELSE "none")
             regs == LegacyRegs(LegacyLayout(mVersion), call, usePat, Rot, Size(d.ws, d.hs))
             made == LegacyBlitRequest(s, p, d, Rot, Flip, interp, csc.mode, regs)
  <1>1. call.usage \cap {"COLOR_FILL", "COLOR_PALETTE"} = {} /\ rga_is_buffer_valid(call.src)
    BY DEF Comparable, Addressless, rga_is_buffer_valid
  <1>2. /\ checkRectForRga(SrcRect, call.src.fmt) /\ checkRectForRga(DstRect, call.dst.fmt)
        /\ PatUsed => /\ checkRectForRga(PatRect(PatUsed), call.pat.fmt)
                      /\ PatRect(PatUsed).w = DstRect.w /\ PatRect(PatUsed).h = DstRect.h
        /\ ~ScaleTooLarge(SrcRect, Scaled(PatUsed), device.driver)
        /\ ~MixedHandles(Operated(PatUsed))
        /\ rga_is_buffer_valid(call.dst)
        /\ rga_check_limit(SrcRect, DstRect, hw.scale_limit, call.usage) = "NOERROR"
    BY <1>1, Im2dBlits
  <1>3. PatUsed = usePat
    BY DEF Comparable, PatUsed, UsesPat, rga_is_buffer_valid, Addressless
  <1>4. /\ s = SrcRect /\ d = DstRect /\ p = PatRect(PatUsed)
    BY ZenonT(60), <1>3, OperandWindows DEF Tasks, SrcRect, DstRect, PatRect
  <1>5. to = Scaled(PatUsed) /\ bufs = Operated(PatUsed) /\ regs = OldRegs(PatUsed)
    BY <1>3, <1>4 DEF LegacyScaleTo, Scaled, ScaleTo, Operated, OldRegs
  <1>6. \A b \in bufs : ~Addressless(b)
    BY <1>1, <1>2 DEF rga_is_buffer_valid, Addressless, Comparable
  <1>7. LegacyRectsFit(call, s, p, usePat, d)
    BY <1>2, <1>3, <1>4 DEF LegacyRectsFit
  <1>8. ~LegacyScaleRefused(s, to, usePat, mVersion)
    BY <1>2, <1>3, <1>4, <1>5, ScaleTaken
  <1>9. ~LegacyInterpRefused(interp, s, to, d)
    <2>1. SrcRect \in Windows /\ DstRect \in Windows /\ PatRect(PatUsed) \in Windows
      BY CallRects DEF PatUsed, UsesPat
    <2>2. Scaled(PatUsed).h \in Int /\ Scaled(PatUsed).w \in Int
      BY <2>1 DEF Scaled, ScaleTo, Windows, Turned
    <2>3. SrcRect.h \in Int /\ SrcRect.w \in Int
      BY <2>1 DEF Windows
    <2> QED
      BY <1>4, <1>5, <2>2, <2>3, DefaultInterpTaken DEF Comparable
  <1>10. csc.ok /\ csc.mode = BlitCsc(PatUsed).mode
    <2> DEFINE pf == IF usePat THEN call.pat.fmt ELSE "none"
    <2>1. call.dst.csm = IM_COLOR_SPACE_DEFAULT /\ IM_COLOR_SPACE_DEFAULT = Csm(0, 0, 0)
          /\ FullCsc(IM_COLOR_SPACE_DEFAULT) = 0
      BY DEF Comparable, IM_COLOR_SPACE_DEFAULT, FullCsc, Csm
    <2>2. csc = Accept(Csm(DefaultY2R(call.src.fmt, call.dst.fmt, pf), DefaultR2Y(call.src.fmt, call.dst.fmt, pf), 0))
      BY <2>1 DEF LegacyCsc, Csm, rgb2yuv_709_limit
    <2>3. TaskCsc = Accept(IM_COLOR_SPACE_DEFAULT)
      <3>1. /\ rga_apply_rect(call.src, call.srect).csm = IM_COLOR_SPACE_DEFAULT
            /\ rga_apply_rect(call.dst, call.drect).csm = IM_COLOR_SPACE_DEFAULT
            /\ PatOf(call).csm = IM_COLOR_SPACE_DEFAULT
        BY OperandWindows, PatternOf DEF Comparable, Tasks
      <3>2. IM_COLOR_SPACE_DEFAULT.y2r = 0 /\ IM_COLOR_SPACE_DEFAULT.r2y = 0
        BY DEF IM_COLOR_SPACE_DEFAULT, Csm
      <3> QED
        BY <2>1, <3>1, <3>2 DEF TaskCsc, task_csc
    <2>4. BlitCsc(PatUsed) = request_csc(IM_COLOR_SPACE_DEFAULT, call.src.fmt, call.dst.fmt, pf)
      BY <1>3, <2>3 DEF BlitCsc, Accept
    <2>5. BlitCsc(PatUsed) = Accept(Csm(DefaultY2R(call.src.fmt, call.dst.fmt, pf), DefaultR2Y(call.src.fmt, call.dst.fmt, pf), 0))
      BY <2>1, <2>4 DEF request_csc, Csm
    <2> QED
      BY <2>2, <2>5 DEF Accept
  <1>11. LegacyTask = RgaBlit(call, mVersion)
    BY <1>1 DEF LegacyTask
  <1>12. ~MixedHandles(bufs)
    BY <1>2, <1>5
  <1>13. LegacyTask = Sends(<<made>>)
    <2>1. RgaBlit(call, mVersion) =
            IF MixedHandles(bufs) THEN Fails("FAILED")
            ELSE IF \E b \in bufs : Addressless(b) THEN Sends(<<>>)
            ELSE IF \/ ~LegacyRectsFit(call, s, p, usePat, d)
                    \/ LegacyScaleRefused(s, to, usePat, mVersion)
                    \/ LegacyInterpRefused(interp, s, to, d)
                    \/ ~csc.ok
            THEN Fails("FAILED") ELSE Sends(<<made>>)
      BY DEF RgaBlit, Rot, Flip
    <2> HIDE DEF s, d, p, bufs, to, interp, csc, made, usePat
    <2> QED
      BY <1>6, <1>7, <1>8, <1>9, <1>10, <1>11, <1>12, <2>1
  <1>14. made = BlitReq(PatUsed, call.interp, LegacyBicubicLimit, BlitCsc(PatUsed).mode, OldRegs(PatUsed))
    BY <1>4, <1>5, <1>10 DEF LegacyBlitRequest, LegacyTurn, Facing, Quarter, BlitReq
  <1> QED
    BY <1>13, <1>14

\* The registers as functions of their names.
RegFields == {"src", "src1", "dst", "fds", "mmu", "handle", "clip", "rd", "sina", "cosa", "alpha", "fields",
              "palette_mode"}
IsRegs(reg) == reg = [f \in RegFields |-> reg[f]]

LEMMA SameRegs ==
  ASSUME NEW a, NEW b, IsRegs(a), IsRegs(b), \A f \in RegFields : a[f] = b[f]
  PROVE  a = b
  BY DEF IsRegs

InfoOf(name, b) == rga_set_buffer_info(name, b)
PatInfo(usePat) == IF usePat THEN InfoOf("src1", call.pat) ELSE NoInfo

LEMMA OldRegsAre ==
  ASSUME NEW usePat
  PROVE  LET reg == OldRegs(usePat)
             layout == LegacyLayout(mVersion)
             s == InfoOf("src", call.src)
             d == InfoOf("dst", call.dst)
             p == PatInfo(usePat)
         IN  /\ IsRegs(reg)
             /\ reg.src = LegacyPlanes(layout, s) /\ reg.dst = LegacyPlanes(layout, d)
             /\ reg.src1 = (IF usePat THEN LegacyPlanes(layout, p) ELSE NoPlanes)
             /\ reg.fds = Fds(layout, s, p, d) /\ reg.mmu = LegacyMmu(layout, s, p, d)
             /\ reg.handle = (d.handle # Null) /\ reg.clip = Size(DstRect.ws, DstRect.hs)
             /\ reg.rd = RdModes(call.src, call.pat, usePat, call.dst)
             /\ reg.sina = sina_table[Angle(Rot)] /\ reg.cosa = cosa_table[Angle(Rot)]
             /\ reg.alpha = LegacyAlpha(call) /\ reg.fields = LegacyFields(call)
             /\ reg.palette_mode = 0
  <1> DEFINE layout == LegacyLayout(mVersion)
             s == InfoOf("src", call.src)
             d == InfoOf("dst", call.dst)
             p == PatInfo(usePat)
             clip == Size(DstRect.ws, DstRect.hs)
             a1 == LegacyPlanes(layout, s)
             a2 == LegacyPlanes(layout, d)
             a3 == IF usePat THEN LegacyPlanes(layout, p) ELSE NoPlanes
             a4 == Fds(layout, s, p, d)
             a5 == LegacyMmu(layout, s, p, d)
             a6 == d.handle # Null
             a8 == RdModes(call.src, call.pat, usePat, call.dst)
             a9 == sina_table[Angle(Rot)]
             a10 == cosa_table[Angle(Rot)]
             a11 == LegacyAlpha(call)
             a12 == LegacyFields(call)
             reg == [NoRegs EXCEPT !.src = a1, !.dst = a2, !.src1 = a3, !.fds = a4, !.mmu = a5,
                                   !.handle = a6, !.clip = clip, !.rd = a8, !.sina = a9, !.cosa = a10,
                                   !.alpha = a11, !.fields = a12]
  <1>1. OldRegs(usePat) = reg
    BY DEF OldRegs, LegacyRegs, InfoOf, PatInfo
  <1> HIDE DEF a1, a2, a3, a4, a5, a6, clip, a8, a9, a10, a11, a12
  <1>2. /\ IsRegs(reg) /\ reg.src = a1 /\ reg.dst = a2 /\ reg.src1 = a3 /\ reg.fds = a4 /\ reg.mmu = a5
        /\ reg.handle = a6 /\ reg.clip = clip /\ reg.rd = a8 /\ reg.sina = a9 /\ reg.cosa = a10
        /\ reg.alpha = a11 /\ reg.fields = a12 /\ reg.palette_mode = 0
    BY ZenonT(60) DEF NoRegs, IsRegs, RegFields
  <1> HIDE DEF reg
  <1> QED
    BY <1>1, <1>2 DEF a1, a2, a3, a4, a5, a6, clip, a8, a9, a10, a11, a12

LEMMA Im2dRegsAre ==
  ASSUME NEW usePat, call \in Tasks
  PROVE  LET reg == Im2dRegs(usePat)
             layout == AddressLayout(device)
             s == InfoOf("src", call.src)
             d == InfoOf("dst", call.dst)
             p == PatInfo(usePat)
         IN  /\ IsRegs(reg)
             /\ reg.src = BlitPlanes(layout, s) /\ reg.dst = BlitPlanes(layout, d)
             /\ reg.src1 = (IF usePat THEN BlitPlanes(layout, p) ELSE NoPlanes)
             /\ reg.fds = Fds(layout, s, p, d) /\ reg.mmu = BlitMmu(layout, s, p, usePat, d)
             /\ reg.handle = (d.handle # Null) /\ reg.clip = Size(DstRect.ws, DstRect.hs)
             /\ reg.rd = RdModes(call.src, call.pat, usePat, call.dst)
             /\ reg.sina = sina_table[Angle(Rot)] /\ reg.cosa = cosa_table[Angle(Rot)]
             /\ reg.alpha = BlitAlpha(call) /\ reg.fields = task_fields(call)
             /\ reg.palette_mode = 0
  <1> DEFINE src == rga_apply_rect(call.src, call.srect)
             dst == rga_apply_rect(call.dst, call.drect)
             pat == PatOf(call)
             layout == AddressLayout(device)
             s == InfoOf("src", call.src)
             d == InfoOf("dst", call.dst)
             p == PatInfo(usePat)
             clip == Size(DstRect.ws, DstRect.hs)
             a1 == BlitPlanes(layout, s)
             a2 == BlitPlanes(layout, d)
             a3 == IF usePat THEN BlitPlanes(layout, p) ELSE NoPlanes
             a4 == Fds(layout, s, p, d)
             a5 == BlitMmu(layout, s, p, usePat, d)
             a6 == d.handle # Null
             a8 == RdModes(call.src, call.pat, usePat, call.dst)
             a9 == sina_table[Angle(Rot)]
             a10 == cosa_table[Angle(Rot)]
             a11 == BlitAlpha(call)
             a12 == task_fields(call)
             reg == [NoRegs EXCEPT !.src = a1, !.dst = a2, !.src1 = a3, !.fds = a4, !.mmu = a5,
                                   !.handle = a6, !.clip = clip, !.rd = a8, !.sina = a9, !.cosa = a10,
                                   !.alpha = a11, !.fields = a12]
  <1>1. /\ src.addr = call.src.addr /\ dst.addr = call.dst.addr /\ pat.addr = call.pat.addr
        /\ src.rd = call.src.rd /\ dst.rd = call.dst.rd /\ pat.rd = call.pat.rd
    BY DEF Tasks, rga_buffer_t, rga_apply_rect, PatOf
  <1>2. \A name, a, b : a.addr = b.addr => rga_set_buffer_info(name, a) = rga_set_buffer_info(name, b)
    BY DEF rga_set_buffer_info
  <1>3. /\ rga_set_buffer_info("src", src) = s /\ rga_set_buffer_info("dst", dst) = d
        /\ rga_set_buffer_info("src1", pat) = InfoOf("src1", call.pat)
    BY <1>1, <1>2 DEF InfoOf
  <1>4. RdModes(src, pat, usePat, dst) = a8
    BY <1>1 DEF RdModes
  <1> HIDE DEF src, dst, pat, a8, s, d
  <1>5. Im2dRegs(usePat) = reg
    <2>1. Im2dRegs(usePat) = blit_regs(layout, call, src, pat, usePat, dst, Rot, clip)
      BY DEF Im2dRegs, src, dst, pat
    <2> DEFINE i == rga_set_buffer_info("src", src)
               j == IF usePat THEN rga_set_buffer_info("src1", pat) ELSE NoInfo
               k == rga_set_buffer_info("dst", dst)
    <2>2. i = s /\ k = d /\ j = p
      BY <1>3 DEF PatInfo
    <2>3. blit_regs(layout, call, src, pat, usePat, dst, Rot, clip) =
            [NoRegs EXCEPT !.src = BlitPlanes(layout, i), !.dst = BlitPlanes(layout, k),
                           !.src1 = IF usePat THEN BlitPlanes(layout, j) ELSE NoPlanes,
                           !.fds = Fds(layout, i, j, k), !.mmu = BlitMmu(layout, i, j, usePat, k),
                           !.handle = k.handle # Null, !.clip = clip,
                           !.rd = RdModes(src, pat, usePat, dst), !.sina = a9, !.cosa = a10,
                           !.alpha = a11, !.fields = a12]
      BY DEF blit_regs
    <2> HIDE DEF i, j, k, p, layout, a9, a10, a11, a12, clip
    <2> QED
      BY <1>4, <2>1, <2>2, <2>3
  <1> HIDE DEF a1, a2, a3, a4, a5, a6, clip, a8, a9, a10, a11, a12
  <1>6. /\ IsRegs(reg) /\ reg.src = a1 /\ reg.dst = a2 /\ reg.src1 = a3 /\ reg.fds = a4 /\ reg.mmu = a5
        /\ reg.handle = a6 /\ reg.clip = clip /\ reg.rd = a8 /\ reg.sina = a9 /\ reg.cosa = a10
        /\ reg.alpha = a11 /\ reg.fields = a12 /\ reg.palette_mode = 0
    BY ZenonT(60) DEF NoRegs, IsRegs, RegFields
  <1> HIDE DEF reg
  <1> QED
    BY <1>5, <1>6 DEF a1, a2, a3, a4, a5, a6, clip, a8, a9, a10, a11, a12, s, d

\* The addresses, the MMU flags and the feature registers of the two copies.
LEMMA PlanesAgree ==
  ASSUME NEW name \in {"src", "src1", "dst"}, NEW b \in rga_buffer_t, ~Addressless(b)
  PROVE  LET i == InfoOf(name, b)
             new == BlitPlanes("planes", i)
             old == LegacyPlanes("planes", i)
         IN  /\ new = Planes(new.y, new.uv, new.v) /\ old = Planes(old.y, old.uv, old.v)
             /\ new.y = old.y /\ new.uv = old.uv
             /\ i.handle = Null => new = old
             /\ i.handle # Null <=> b.addr = "handle"
             /\ LegacyMmuFlag(i) = MmuFlag(i) /\ MmuFlag(i) \in BOOLEAN
             /\ i # NoInfo
             /\ FillPlanes("planes", i) = old
  <1> DEFINE i == InfoOf(name, b)
  <1>1. b.addr \in {"handle", "phy", "fd", "vir"} /\ name # Null
    BY DEF rga_buffer_t, Addressless, Null
  <1>2. /\ i.handle = (IF b.addr = "handle" THEN name ELSE Null)
        /\ i.phyAddr = (IF b.addr = "phy" THEN name ELSE Null)
        /\ i.fd = (IF b.addr = "fd" THEN name ELSE Null)
        /\ i.virAddr = (IF b.addr = "vir" THEN name ELSE Null)
        /\ i.mmuFlag = (b.addr \in {"fd", "vir"})
    BY DEF InfoOf, rga_set_buffer_info
  <1>3. NoInfo.handle = Null /\ NoInfo.phyAddr = Null /\ NoInfo.fd = Null /\ NoInfo.virAddr = Null
    BY DEF NoInfo, rga_set_buffer_info
  <1> HIDE DEF i
  <1>4. /\ GetAddress(i) = LegacyAddress(i)
        /\ GetAddress(i).Fd = (IF b.addr \in {"handle", "fd"} THEN name ELSE Null)
        /\ GetAddress(i).Buf = (IF b.addr \in {"phy", "vir"} THEN name ELSE Null)
    BY <1>1, <1>2 DEF GetAddress, LegacyAddress
  <1>5. i # NoInfo /\ (i.handle # Null <=> b.addr = "handle")
    BY <1>1, <1>2, <1>3
  <1>6. LegacyMmuFlag(i) = MmuFlag(i) /\ MmuFlag(i) \in BOOLEAN
    BY <1>1, <1>2, <1>4 DEF LegacyMmuFlag, MmuFlag
  <1>7. /\ BlitPlanes("planes", i) = Planes(GetAddress(i).Fd, GetAddress(i).Buf,
                                            IF i.handle # Null THEN Null ELSE Past(GetAddress(i).Buf))
        /\ LegacyPlanes("planes", i) = Planes(GetAddress(i).Fd, GetAddress(i).Buf, Past(GetAddress(i).Buf))
    BY <1>4 DEF BlitPlanes, LegacyPlanes
  <1>10. FillPlanes("planes", i) = LegacyPlanes("planes", i)
    BY <1>4 DEF FillPlanes, LegacyPlanes
  <1>8. \A y, uv, v : Planes(y, uv, v).y = y /\ Planes(y, uv, v).uv = uv /\ Planes(y, uv, v).v = v
    BY DEF Planes
  <1>9. /\ BlitPlanes("planes", i).y = GetAddress(i).Fd /\ BlitPlanes("planes", i).uv = GetAddress(i).Buf
        /\ LegacyPlanes("planes", i).y = GetAddress(i).Fd /\ LegacyPlanes("planes", i).uv = GetAddress(i).Buf
        /\ LegacyPlanes("planes", i).v = Past(GetAddress(i).Buf)
        /\ BlitPlanes("planes", i).v = IF i.handle # Null THEN Null ELSE Past(GetAddress(i).Buf)
    BY <1>7, <1>8
  <1> QED
    BY <1>5, <1>6, <1>7, <1>9, <1>10 DEF i

LEMMA AlphaAgrees ==
  ASSUME "GAUSS" \notin call.usage
  PROVE  LegacyAlpha(call) = BlitAlpha(call) /\ LegacyFields(call) = task_fields(call)
  <1>1. \A r, word : LegacySetBlend(r, word) = SetBlend(r, word)
    BY DEF LegacySetBlend, SetBlend
  <1>2. \A f, g : LegacyDitherEn(f, g) = ditherEn(f, g)
    BY DEF LegacyDitherEn, ditherEn
  <1>3. LegacyAlpha(call) = BlitAlpha(call)
    BY <1>1, <1>2 DEF LegacyAlpha, BlitAlpha
  <1> QED
    BY <1>3 DEF LegacyFields, task_fields

\* Requests that differ in the interpolation and in registers nobody compares are
\* the same up to the limits, also after their conversion for the driver.
ReqFields == {"kind", "src", "src1", "dst", "rotation", "flip", "interp", "csc", "reg"}
IsReq(req) == req = [f \in ReqFields |-> req[f]]

LEMMA SameReq ==
  ASSUME NEW a, NEW b, IsReq(a), IsReq(b), \A f \in ReqFields : a[f] = b[f]
  PROVE  a = b
  BY DEF IsReq

LEMMA ReqIs ==
  ASSUME NEW kind, NEW src, NEW src1, NEW dst, NEW rot, NEW flip, NEW interp, NEW csc, NEW reg
  PROVE  LET req == Request(kind, src, src1, dst, rot, flip, interp, csc, reg)
         IN  /\ IsReq(req) /\ req.kind = kind /\ req.src = src /\ req.src1 = src1 /\ req.dst = dst
             /\ req.rotation = rot /\ req.flip = flip /\ req.interp = interp /\ req.csc = csc
             /\ req.reg = reg
  BY DEF Request, IsReq, ReqFields

\* Where the conversion for an older driver puts a destination.
MovedX(dst, reg) == CASE reg.sina = 65536 /\ reg.cosa = 0 -> dst.x + dst.h - 1
                      [] reg.sina = 0 /\ reg.cosa = -65536 -> dst.x + dst.w - 1
                      [] OTHER -> dst.x
MovedY(dst, reg) == CASE reg.sina = 0 /\ reg.cosa = -65536 -> dst.y + dst.h - 1
                      [] reg.sina = -65536 /\ reg.cosa = 0 -> dst.y + dst.w - 1
                      [] OTHER -> dst.y
MovedTo(dst, reg) ==
  IF device.driver = "multi" THEN dst ELSE [dst EXCEPT !.x = MovedX(dst, reg), !.y = MovedY(dst, reg)]

LEMMA RequestIs ==
  ASSUME NEW kind, NEW src, NEW src1, NEW dst, NEW rot, NEW flip, NEW interp, NEW csc, NEW reg,
         kind # "update_palette"
  PROVE  ForDriver(device.driver, Request(kind, src, src1, dst, rot, flip, interp, csc, reg)) =
           Request(kind, src, src1, MovedTo(dst, reg), rot, flip, interp, csc, RegsFor(kind, reg))
  <1> DEFINE x == MovedX(dst, reg)
             y == MovedY(dst, reg)
             to == [dst EXCEPT !.x = x, !.y = y]
             fields == NormalRgaCompatModeConvertRga2Fields(reg)
             req == Request(kind, src, src1, dst, rot, flip, interp, csc, reg)
             made == Request(kind, src, src1, to, rot, flip, interp, csc, fields)
             conv == [req EXCEPT !.reg = fields, !.dst.x = x, !.dst.y = y]
  <1>1. /\ IsReq(req) /\ req.kind = kind /\ req.src = src /\ req.src1 = src1 /\ req.dst = dst
        /\ req.rotation = rot /\ req.flip = flip /\ req.interp = interp /\ req.csc = csc
        /\ req.reg = reg
    BY ReqIs
  <1>2. CASE device.driver = "multi"
    BY <1>2 DEF ForDriver, RegsFor, MovedTo
  <1>3. CASE device.driver # "multi"
    <2>1. NormalRgaCompatModeConvertRga2(req) = conv
      BY DEF NormalRgaCompatModeConvertRga2, Request, MovedX, MovedY
    <2>2. ForDriver(device.driver, req) = NormalRgaCompatModeConvertRga2(req) /\ RegsFor(kind, reg) = fields
          /\ MovedTo(dst, reg) = to
      BY <1>1, <1>3 DEF ForDriver, RegsFor, MovedTo
    <2> HIDE DEF x, y, fields, req
    <2>3. /\ IsReq(conv) /\ conv.kind = kind /\ conv.src = src /\ conv.src1 = src1
          /\ conv.rotation = rot /\ conv.flip = flip /\ conv.interp = interp /\ conv.csc = csc
          /\ conv.reg = fields
      BY <1>1 DEF IsReq, ReqFields
    <2>4. conv.dst = to
      BY <1>1 DEF IsReq, ReqFields
    <2> HIDE DEF conv, to
    <2>5. /\ IsReq(made) /\ made.kind = kind /\ made.src = src /\ made.src1 = src1 /\ made.dst = to
          /\ made.rotation = rot /\ made.flip = flip /\ made.interp = interp /\ made.csc = csc
          /\ made.reg = fields
      BY ReqIs
    <2> HIDE DEF made
    <2>6. \A f \in ReqFields : conv[f] = made[f]
      BY <2>3, <2>4, <2>5 DEF ReqFields
    <2>7. conv = made
      BY <2>3, <2>5, <2>6, SameReq
    <2> QED
      BY <2>1, <2>2, <2>7 DEF made, req
  <1> QED
    BY <1>2, <1>3

LEMMA SameRequest ==
  ASSUME NEW kind, NEW src, NEW src1, NEW dst, NEW rot, NEW flip, NEW i, NEW j, NEW csc, NEW a, NEW b,
         kind # "update_palette", a.sina = b.sina, a.cosa = b.cosa,
         Compared(RegsFor(kind, a)) = Compared(RegsFor(kind, b))
  PROVE  SameButLimits(ForDriver(device.driver, Request(kind, src, src1, dst, rot, flip, i, csc, a)),
                       ForDriver(device.driver, Request(kind, src, src1, dst, rot, flip, j, csc, b)))
  <1> DEFINE moved == MovedTo(dst, a)
             p == RegsFor(kind, a)
             q == RegsFor(kind, b)
             r == Request(kind, src, src1, moved, rot, flip, i, csc, p)
             t == Request(kind, src, src1, moved, rot, flip, j, csc, q)
             c == Compared(p)
             left == [r EXCEPT !.interp = j, !.reg = c]
             right == [t EXCEPT !.reg = c]
  <1>1. MovedX(dst, b) = MovedX(dst, a) /\ MovedY(dst, b) = MovedY(dst, a)
    BY DEF MovedX, MovedY
  <1>2. MovedTo(dst, b) = moved
    BY <1>1 DEF MovedTo
  <1>3. ForDriver(device.driver, Request(kind, src, src1, dst, rot, flip, i, csc, a)) = r
    BY RequestIs
  <1>4. ForDriver(device.driver, Request(kind, src, src1, dst, rot, flip, j, csc, b)) = t
    BY <1>2, RequestIs
  <1>5. Compared(p) = c /\ Compared(q) = c
    OBVIOUS
  <1> HIDE DEF moved, p, q, c
  <1>6. /\ IsReq(r) /\ r.kind = kind /\ r.src = src /\ r.src1 = src1 /\ r.dst = moved
        /\ r.rotation = rot /\ r.flip = flip /\ r.interp = i /\ r.csc = csc /\ r.reg = p
    BY ReqIs
  <1>7. /\ IsReq(t) /\ t.kind = kind /\ t.src = src /\ t.src1 = src1 /\ t.dst = moved
        /\ t.rotation = rot /\ t.flip = flip /\ t.interp = j /\ t.csc = csc /\ t.reg = q
    BY ReqIs
  <1> HIDE DEF r, t
  <1>8. /\ IsReq(left) /\ left.kind = kind /\ left.src = src /\ left.src1 = src1 /\ left.dst = moved
        /\ left.rotation = rot /\ left.flip = flip /\ left.interp = j /\ left.csc = csc /\ left.reg = c
    BY <1>6 DEF IsReq, ReqFields
  <1>9. /\ IsReq(right) /\ right.kind = kind /\ right.src = src /\ right.src1 = src1
        /\ right.dst = moved /\ right.rotation = rot /\ right.flip = flip /\ right.interp = j
        /\ right.csc = csc /\ right.reg = c
    BY <1>7 DEF IsReq, ReqFields
  <1>10. left = right
    <2> HIDE DEF left, right
    <2>1. \A f \in ReqFields : left[f] = right[f]
      BY <1>8, <1>9 DEF ReqFields
    <2> QED
      BY <1>8, <1>9, <2>1, SameReq
  <1>11. SameButLimits(r, t)
    BY <1>5, <1>6, <1>7, <1>10 DEF SameButLimits
  <1> QED
    BY <1>3, <1>4, <1>11

\* Which registers are compared: all but the third planes of handles and, on the
\* first driver, the addresses.
Address == {"src", "src1", "dst", "fds", "mmu"}
LikePlanes(p, q) == p = Planes(p.y, p.uv, p.v) /\ q = Planes(p.y, p.uv, q.v)

LEMMA ComparedSame ==
  ASSUME NEW kind, NEW a, NEW b, kind # "update_palette", IsRegs(a), IsRegs(b),
         \A f \in RegFields \ Address : a[f] = b[f],
         \/ device.driver = "RGA1"
         \/ a = b
         \/ /\ device.driver = "multi" /\ a.handle = TRUE
            /\ a.fds = b.fds /\ a.mmu = b.mmu
            /\ \A f \in {"src", "src1", "dst"} : LikePlanes(a[f], b[f])
  PROVE  Compared(RegsFor(kind, a)) = Compared(RegsFor(kind, b))
  <1>1. CASE device.driver = "RGA1"
    <2>1. \A r : NormalRgaCompatModeConvertRga2Fields(r) =
                   [r EXCEPT !.handle = FALSE, !.rd = <<>>, !.fields = {}, !.alpha = [@ EXCEPT !.fg = 0, !.bg = 0]]
      BY DEF NormalRgaCompatModeConvertRga2Fields
    <2> DEFINE blank(r) == [r EXCEPT !.src = NoPlanes, !.src1 = NoPlanes, !.dst = NoPlanes,
                                     !.fds = NoFds, !.mmu = {}]
               conv(r) == NormalRgaCompatModeConvertRga2Fields(r)
    <2>2. \A r : IsRegs(r) => IsRegs(conv(r)) /\ conv(r).handle = FALSE
      BY ZenonT(60) DEF IsRegs, RegFields, NormalRgaCompatModeConvertRga2Fields
    <2>3. \A f \in RegFields \ Address : conv(a)[f] = conv(b)[f]
      <3> USE DEF RegFields, Address, IsRegs
      <3>1. "alpha" \in RegFields \ Address
        OBVIOUS
      <3>2. a.alpha = b.alpha
        BY <3>1
      <3>3. conv(a).alpha = conv(b).alpha
        BY <3>2 DEF NormalRgaCompatModeConvertRga2Fields
      <3>4. ASSUME NEW f \in RegFields \ Address, f # "alpha"
            PROVE  conv(a)[f] = conv(b)[f]
        BY <3>4 DEF NormalRgaCompatModeConvertRga2Fields
      <3> QED
        BY <3>3, <3>4
    <2>4. Compared(conv(a)) = blank(conv(a)) /\ Compared(conv(b)) = blank(conv(b))
      BY <1>1, <2>2 DEF Compared
    <2> HIDE DEF conv
    <2>5. blank(conv(a)) = blank(conv(b))
      BY <2>2, <2>3 DEF IsRegs, RegFields, Address
    <2> QED
      BY <1>1, <2>4, <2>5 DEF RegsFor, conv
  <1>2. CASE a = b
    BY <1>2
  <1>3. CASE /\ device.driver = "multi" /\ a.handle = TRUE
             /\ a.fds = b.fds /\ a.mmu = b.mmu
             /\ \A f \in {"src", "src1", "dst"} : LikePlanes(a[f], b[f])
    <2> DEFINE cut(r) == [r EXCEPT !.src.v = Null, !.src1.v = Null, !.dst.v = Null]
    <2>1. Compared(RegsFor(kind, a)) = cut(a) /\ Compared(RegsFor(kind, b)) = cut(b)
      <3>1. b.handle = TRUE
        BY <1>3 DEF RegFields, Address
      <3> QED
        BY <1>3, <3>1 DEF Compared, RegsFor
    <2>2. \A p, q : LikePlanes(p, q) => [p EXCEPT !.v = Null] = [q EXCEPT !.v = Null]
      BY DEF LikePlanes, Planes
    <2> DEFINE cut2(r) == [r EXCEPT !.src = [r.src EXCEPT !.v = Null], !.src1 = [r.src1 EXCEPT !.v = Null],
                                    !.dst = [r.dst EXCEPT !.v = Null]]
    <2>3. \A r : IsRegs(r) => cut(r) = cut2(r)
      BY DEF IsRegs, RegFields
    <2>4. /\ [a.src EXCEPT !.v = Null] = [b.src EXCEPT !.v = Null]
          /\ [a.src1 EXCEPT !.v = Null] = [b.src1 EXCEPT !.v = Null]
          /\ [a.dst EXCEPT !.v = Null] = [b.dst EXCEPT !.v = Null]
      BY <1>3, <2>2
    <2>5. ASSUME NEW p, NEW q, NEW r
          PROVE  [a EXCEPT !.src = p, !.src1 = q, !.dst = r] = [b EXCEPT !.src = p, !.src1 = q, !.dst = r]
      BY <1>3 DEF IsRegs, RegFields, Address
    <2>6. cut2(a) = cut2(b)
      BY <2>4, <2>5
    <2> QED
      BY <2>1, <2>3, <2>6
  <1> QED
    BY <1>1, <1>2, <1>3

LEMMA MmuAgrees ==
  ASSUME call \in Tasks, NEW usePat \in BOOLEAN, \A b \in Operated(usePat) : ~Addressless(b)
  PROVE  LET s == InfoOf("src", call.src)
             d == InfoOf("dst", call.dst)
             p == PatInfo(usePat)
         IN  LegacyMmu("planes", s, p, d) = BlitMmu("planes", s, p, usePat, d)
  <1> DEFINE s == InfoOf("src", call.src)
             d == InfoOf("dst", call.dst)
             p == PatInfo(usePat)
  <1>1. call.src \in rga_buffer_t /\ call.dst \in rga_buffer_t /\ call.pat \in rga_buffer_t
    BY DEF Tasks
  <1>2. ~Addressless(call.src) /\ ~Addressless(call.dst) /\ (usePat => ~Addressless(call.pat))
    BY DEF Operated
  <1>3. LegacyMmuFlag(s) = MmuFlag(s) /\ LegacyMmuFlag(d) = MmuFlag(d)
    BY <1>1, <1>2, PlanesAgree
  <1>4. usePat => p # NoInfo /\ LegacyMmuFlag(p) = MmuFlag(p)
    BY <1>1, <1>2, PlanesAgree DEF PatInfo
  <1>5. ~usePat => p = NoInfo
    BY DEF PatInfo
  <1>6. "planes" # "virtual"
    OBVIOUS
  <1> HIDE DEF s, d, p
  <1>7. LegacyMmu("planes", s, p, d) = MmuInfo(LegacyMmuFlag(s), LegacyMmuFlag(d))
                                        \cup (IF p # NoInfo /\ LegacyMmuFlag(p) THEN {"SRC1"} ELSE {})
    BY <1>6 DEF LegacyMmu, MmuInfo
  <1>8. BlitMmu("planes", s, p, usePat, d) = MmuInfo(MmuFlag(s), MmuFlag(d))
                                        \cup (IF usePat /\ MmuFlag(p) THEN {"SRC1"} ELSE {})
    BY <1>6 DEF BlitMmu, MmuInfo
  <1>9. (p # NoInfo /\ LegacyMmuFlag(p)) <=> (usePat /\ MmuFlag(p))
    BY <1>4, <1>5
  <1>10. LegacyMmu("planes", s, p, d) = BlitMmu("planes", s, p, usePat, d)
    BY <1>3, <1>7, <1>8, <1>9
  <1> QED
    BY <1>10 DEF s, d, p

\* The registers of the two copies, as far as they are compared.
LEMMA RegsAgree ==
  ASSUME DeviceInv, call \in Tasks, Possible(call), NEW usePat \in BOOLEAN,
         \A b \in Operated(usePat) : ~Addressless(b), ~MixedHandles(Operated(usePat)),
         "GAUSS" \notin call.usage
  PROVE  LET old == OldRegs(usePat)
             new == Im2dRegs(usePat)
         IN  /\ old.sina = new.sina /\ old.cosa = new.cosa
             /\ Compared(RegsFor("blit", old)) = Compared(RegsFor("blit", new))
  <1> DEFINE old == OldRegs(usePat)
             new == Im2dRegs(usePat)
             s == InfoOf("src", call.src)
             d == InfoOf("dst", call.dst)
             p == PatInfo(usePat)
  <1>1. /\ IsRegs(old) /\ IsRegs(new)
        /\ old.sina = new.sina /\ old.cosa = new.cosa
        /\ \A f \in RegFields \ Address : old[f] = new[f]
    BY OldRegsAre, Im2dRegsAre, AlphaAgrees DEF RegFields, Address
  <1>2. ASSUME device.driver # "RGA1"
        PROVE  \/ old = new
               \/ /\ device.driver = "multi" /\ old.handle = TRUE
                  /\ old.fds = new.fds /\ old.mmu = new.mmu
                  /\ \A f \in {"src", "src1", "dst"} : LikePlanes(old[f], new[f])
    <2>1. AddressLayout(device) = "planes" /\ LegacyLayout(mVersion) = "planes"
      BY <1>2, PlanesLayout
    <2>2. /\ old.src = LegacyPlanes("planes", s) /\ old.dst = LegacyPlanes("planes", d)
          /\ old.src1 = (IF usePat THEN LegacyPlanes("planes", p) ELSE NoPlanes)
          /\ old.fds = Fds("planes", s, p, d) /\ old.mmu = LegacyMmu("planes", s, p, d)
          /\ old.handle = (d.handle # Null)
      BY <2>1, OldRegsAre
    <2>3. /\ new.src = BlitPlanes("planes", s) /\ new.dst = BlitPlanes("planes", d)
          /\ new.src1 = (IF usePat THEN BlitPlanes("planes", p) ELSE NoPlanes)
          /\ new.fds = Fds("planes", s, p, d) /\ new.mmu = BlitMmu("planes", s, p, usePat, d)
          /\ new.handle = (d.handle # Null)
      BY <2>1, Im2dRegsAre
    <2>4. old.mmu = new.mmu /\ old.fds = new.fds
      BY <2>2, <2>3, MmuAgrees
    <2>5. call.src \in rga_buffer_t /\ call.dst \in rga_buffer_t /\ call.pat \in rga_buffer_t
      BY DEF Tasks
    <2>6. ~Addressless(call.src) /\ ~Addressless(call.dst) /\ (usePat => ~Addressless(call.pat))
      BY DEF Operated
    <2>7. \A a, b : /\ b = Planes(b.y, b.uv, b.v) /\ a = Planes(a.y, a.uv, a.v) /\ a.y = b.y /\ a.uv = b.uv
                    => LikePlanes(b, a)
      BY DEF LikePlanes
    <2>8. /\ LikePlanes(old.src, new.src) /\ (s.handle = Null => old.src = new.src)
          /\ s.handle # Null <=> call.src.addr = "handle"
      BY <2>2, <2>3, <2>5, <2>6, <2>7, PlanesAgree
    <2>9. /\ LikePlanes(old.dst, new.dst) /\ (d.handle = Null => old.dst = new.dst)
          /\ d.handle # Null <=> call.dst.addr = "handle"
      BY <2>2, <2>3, <2>5, <2>6, <2>7, PlanesAgree
    <2>10. /\ LikePlanes(old.src1, new.src1)
           /\ usePat => /\ p.handle = Null => old.src1 = new.src1
                        /\ p.handle # Null <=> call.pat.addr = "handle"
           /\ ~usePat => old.src1 = new.src1
      <3>1. CASE usePat
        BY <2>2, <2>3, <2>5, <2>6, <2>7, <3>1, PlanesAgree DEF PatInfo
      <3>2. CASE ~usePat
        <4>1. old.src1 = NoPlanes /\ new.src1 = NoPlanes
          BY <2>2, <2>3, <3>2
        <4>2. LikePlanes(NoPlanes, NoPlanes)
          BY DEF LikePlanes, NoPlanes, Planes
        <4> QED
          BY <3>2, <4>1, <4>2
      <3> QED
        BY <3>1, <3>2
    <2>11. CASE call.dst.addr = "handle"
      <3>1. device.driver = "multi"
        BY <2>11 DEF Possible
      <3>2. old.handle = TRUE
        BY <2>2, <2>9, <2>11
      <3> QED
        BY <2>4, <2>8, <2>9, <2>10, <3>1, <3>2
    <2>12. CASE call.dst.addr # "handle"
      <3>1. call.src.addr # "handle" /\ (usePat => call.pat.addr # "handle")
        BY <2>12 DEF MixedHandles, Operated
      <3>2. old.src = new.src /\ old.dst = new.dst /\ old.src1 = new.src1
        BY <2>8, <2>9, <2>10, <2>12, <3>1
      <3>3. \A f \in RegFields : old[f] = new[f]
        BY <1>1, <2>4, <3>2 DEF RegFields, Address
      <3> QED
        BY <1>1, <3>3, SameRegs
    <2> QED
      BY <2>11, <2>12
  <1>3. Compared(RegsFor("blit", old)) = Compared(RegsFor("blit", new))
    <2> HIDE DEF old, new
    <2> QED
      BY <1>1, <1>2, ComparedSame
  <1> QED
    BY <1>1, <1>3

OldFillRegs == LegacyFillRegs(LegacyFillLayout(mVersion), call.dst, Size(DstRect.w, DstRect.h))
Im2dFillRegs == fill_regs(AddressLayout(device), rga_apply_rect(call.dst, call.drect))
FillReq(reg) ==
  Request("fill", NoWindow, NoWindow, DstRect, "NONE", "NONE", DefaultInterp,
          Csm(0, IF is_yuv_format(call.dst.fmt) THEN 2 ELSE 0, 0), reg)

LEMMA Im2dFills ==
  ASSUME call \in Tasks, Im2dTask.status = "SUCCESS", "COLOR_FILL" \in call.usage, Comparable
  PROVE  /\ Im2dTask = Sends(<<FillReq(Im2dFillRegs)>>)
         /\ rga_is_buffer_valid(call.dst)
         /\ rga_apply_rect(call.dst, call.drect).w = DstRect.w
         /\ rga_apply_rect(call.dst, call.drect).h = DstRect.h
  <1> DEFINE src == rga_apply_rect(call.src, call.srect)
             dst == rga_apply_rect(call.dst, call.drect)
             pat == PatOf(call)
             csc == task_csc(device.hardware_info, src, dst, pat)
             mode == csc.mode
  <1>1. /\ rga_is_buffer_valid(call.dst)
        /\ rga_check(hw, src, dst, pat, call.srect, call.drect, call.prect, call.usage) = "NOERROR"
        /\ Im2dTask = generate_fill_req(device, call, dst, mode)
    BY SubmitSucceeds DEF Im2dTask, hw
  <1>2. ~(dst.w <= 0 \/ dst.h <= 0) /\ ~(dst.ws < dst.w \/ dst.hs < dst.h)
    BY <1>1, TaskChecked, InfoChecked
  <1>3. dst.h \in Int /\ dst.hs \in Int /\ dst.fmt = call.dst.fmt
    BY DEF Tasks, rga_buffer_t, im_rect, rga_apply_rect
  <1>4. dst.hs # 0
    BY <1>2, <1>3
  <1>5. Window(dst, call.drect) = DstRect
    BY <1>4 DEF DstRect, Named, Window
  <1>6. mode = IM_COLOR_SPACE_DEFAULT
    <2>1. /\ src.csm = IM_COLOR_SPACE_DEFAULT /\ dst.csm = IM_COLOR_SPACE_DEFAULT
          /\ pat.csm = IM_COLOR_SPACE_DEFAULT
      BY OperandWindows, PatternOf DEF Comparable, Tasks
    <2>2. /\ IM_COLOR_SPACE_DEFAULT.y2r = 0 /\ IM_COLOR_SPACE_DEFAULT.r2y = 0
          /\ FullCsc(IM_COLOR_SPACE_DEFAULT) = 0
      BY DEF IM_COLOR_SPACE_DEFAULT, FullCsc, Csm
    <2>3. csc = Accept(IM_COLOR_SPACE_DEFAULT)
      BY <2>1, <2>2 DEF task_csc
    <2> QED
      BY <2>3 DEF Accept
  <1> HIDE DEF mode
  <1>7. Im2dTask = Sends(<<FillReq(Im2dFillRegs)>>)
    BY <1>1, <1>3, <1>5, <1>6 DEF generate_fill_req, FillReq, Im2dFillRegs
  <1>8. Window(dst, call.drect).w = dst.w /\ Window(dst, call.drect).h = dst.h
    BY DEF Window
  <1> QED
    BY <1>1, <1>5, <1>7, <1>8

LEMMA LegacyFills ==
  ASSUME call \in Tasks, "COLOR_FILL" \in call.usage, Comparable, rga_is_buffer_valid(call.dst)
  PROVE  LegacyTask = Sends(<<FillReq(OldFillRegs)>>)
  <1>1. LegacyWindow(call.dst, call.drect) = DstRect
    BY OperandWindows DEF Tasks, DstRect
  <1>2. call.dst.addr # "none" /\ call.dst.addr # "fd0"
    BY DEF rga_is_buffer_valid
  <1>3. call.dst.csm = IM_COLOR_SPACE_DEFAULT
    BY DEF Comparable
  <1>4. FillCsc(call.dst.csm, call.dst.fmt) = Csm(0, IF is_yuv_format(call.dst.fmt) THEN 2 ELSE 0, 0)
    BY <1>3 DEF FillCsc
  <1>5. LegacyTask = RgaCollorFill(call, mVersion)
    BY DEF LegacyTask
  <1> QED
    BY <1>1, <1>2, <1>4, <1>5 DEF RgaCollorFill, FillReq, OldFillRegs

LEMMA FillRegsAgree ==
  ASSUME DeviceInv, call \in Tasks, rga_is_buffer_valid(call.dst),
         rga_apply_rect(call.dst, call.drect).w = DstRect.w,
         rga_apply_rect(call.dst, call.drect).h = DstRect.h
  PROVE  /\ OldFillRegs.sina = Im2dFillRegs.sina /\ OldFillRegs.cosa = Im2dFillRegs.cosa
         /\ Compared(RegsFor("fill", OldFillRegs)) = Compared(RegsFor("fill", Im2dFillRegs))
  <1> DEFINE dst == rga_apply_rect(call.dst, call.drect)
             d == InfoOf("dst", call.dst)
             clip == Size(DstRect.w, DstRect.h)
             a1 == LegacyPlanes(LegacyFillLayout(mVersion), d)
             b1 == FillPlanes(AddressLayout(device), d)
             on == LegacyFillLayout(mVersion) # "virtual" /\ LegacyMmuFlag(d)
             a2 == MmuInfo(on, on)
             b2 == FillMmu(AddressLayout(device), d)
             a3 == Fds(LegacyFillLayout(mVersion), NoInfo, NoInfo, d)
             b3 == Fds(AddressLayout(device), NoInfo, NoInfo, d)
             a4 == d.handle # Null
             a5 == <<call.dst.rd>>
             regs(p, m, f) == [NoRegs EXCEPT !.dst = p, !.mmu = m, !.fds = f, !.handle = a4,
                                             !.clip = clip, !.rd = a5]
             old == regs(a1, a2, a3)
             new == regs(b1, b2, b3)
  <1>1. dst.addr = call.dst.addr /\ dst.rd = call.dst.rd
    BY DEF Tasks, rga_buffer_t, rga_apply_rect
  <1>2. rga_set_buffer_info("dst", dst) = d
    BY <1>1 DEF rga_set_buffer_info, InfoOf
  <1>3. OldFillRegs = old
    BY DEF OldFillRegs, LegacyFillRegs, InfoOf
  <1>4. Im2dFillRegs = new
    <2>1. Size(dst.w, dst.h) = clip
      OBVIOUS
    <2> HIDE DEF d, clip, dst
    <2> QED
      BY <1>1, <1>2, <2>1 DEF Im2dFillRegs, fill_regs, dst
  <1>5. device.driver # "RGA1" => a1 = b1 /\ a2 = b2 /\ a3 = b3
    <2> SUFFICES ASSUME device.driver # "RGA1"
                 PROVE  a1 = b1 /\ a2 = b2 /\ a3 = b3
      OBVIOUS
    <2>1. AddressLayout(device) = "planes" /\ LegacyFillLayout(mVersion) = "planes"
      BY PlanesLayout
    <2>2. call.dst \in rga_buffer_t /\ ~Addressless(call.dst)
      BY DEF Tasks, rga_is_buffer_valid, Addressless
    <2>3. FillPlanes("planes", d) = LegacyPlanes("planes", d) /\ LegacyMmuFlag(d) = MmuFlag(d)
      BY <2>2, PlanesAgree
    <2> QED
      BY <2>1, <2>3 DEF FillMmu, MmuInfo
  <1> HIDE DEF d, clip, a1, b1, a2, b2, a3, b3, a4, a5
  <1>6. /\ IsRegs(old) /\ IsRegs(new) /\ old.sina = 0 /\ new.sina = 0 /\ old.cosa = 0 /\ new.cosa = 0
        /\ \A f \in RegFields \ Address : old[f] = new[f]
    BY ZenonT(60) DEF NoRegs, IsRegs, RegFields, Address
  <1>7. device.driver # "RGA1" => old = new
    BY <1>5
  <1> HIDE DEF old, new
  <1>8. Compared(RegsFor("fill", old)) = Compared(RegsFor("fill", new))
    BY <1>6, <1>7, ComparedSame
  <1> QED
    BY <1>3, <1>4, <1>6, <1>8

\* Handles come from the driver that makes them.
HandleInv == call # NoCall => Possible(call)

LEMMA SpecHandleInv == LegacySpec => []HandleInv
  <1>1. Init => HandleInv
    BY DEF Init, HandleInv
  <1>2. HandleInv /\ [LegacyNext]_vars => HandleInv'
    <2> SUFFICES ASSUME HandleInv, [LegacyNext]_vars
                 PROVE  HandleInv'
      OBVIOUS
    <2>1. CASE ImCheck
      BY <2>1 DEF ImCheck, HandleInv, Possible
    <2>2. CASE LegacyBegin
      BY <2>2 DEF LegacyBegin, HandleInv, Possible
    <2>3. CASE Return
      BY <2>3 DEF Return, HandleInv
    <2>4. CASE Process \/ LegacyProcess \/ UNCHANGED vars
      <3>1. call' = call /\ device' = device
        BY <2>4 DEF Process, LegacyProcess, Rejected, DriverTakes, DriverRefuses, LegacyNothing, vars
      <3> QED
        BY <3>1 DEF HandleInv, Possible
    <2> QED
      BY <2>1, <2>2, <2>3, <2>4 DEF LegacyNext, Next
  <1> QED
    BY <1>1, <1>2, PTL DEF LegacySpec

LEMMA TasksAgree ==
  ASSUME DeviceInv, call \in Tasks, Possible(call), Comparable,
         Im2dTask.status = "SUCCESS"
  PROVE  \E a, b : /\ LegacyTask = Sends(<<a>>) /\ Im2dTask = Sends(<<b>>)
                   /\ SameButLimits(ForDriver(device.driver, a), ForDriver(device.driver, b))
  <1>1. CASE "COLOR_FILL" \in call.usage
    <2>1. /\ Im2dTask = Sends(<<FillReq(Im2dFillRegs)>>) /\ rga_is_buffer_valid(call.dst)
          /\ rga_apply_rect(call.dst, call.drect).w = DstRect.w
          /\ rga_apply_rect(call.dst, call.drect).h = DstRect.h
      BY <1>1, Im2dFills
    <2>2. LegacyTask = Sends(<<FillReq(OldFillRegs)>>)
      BY <1>1, <2>1, LegacyFills
    <2>3. SameButLimits(ForDriver(device.driver, FillReq(OldFillRegs)),
                        ForDriver(device.driver, FillReq(Im2dFillRegs)))
      BY <2>1, FillRegsAgree, SameRequest DEF FillReq
    <2> QED
      BY <2>1, <2>2, <2>3
  <1>2. CASE "COLOR_FILL" \notin call.usage
    <2>1. call.usage \cap {"COLOR_FILL", "COLOR_PALETTE"} = {} /\ rga_is_buffer_valid(call.src)
          /\ "GAUSS" \notin call.usage
      BY <1>2 DEF Comparable, Addressless, rga_is_buffer_valid
    <2> DEFINE csc == BlitCsc(PatUsed).mode
               a == BlitReq(PatUsed, call.interp, LegacyBicubicLimit, csc, OldRegs(PatUsed))
               b == BlitReq(PatUsed, task_interp(call), hw.scale_ver_bicubic_limit, csc, Im2dRegs(PatUsed))
    <2>2. Im2dTask = Sends(<<b>>) /\ ~MixedHandles(Operated(PatUsed)) /\ rga_is_buffer_valid(call.dst)
      BY <2>1, Im2dBlits
    <2>3. LegacyTask = Sends(<<a>>)
      BY <1>2, LegacyBlits
    <2>4. PatUsed \in BOOLEAN /\ \A c \in Operated(PatUsed) : ~Addressless(c)
      BY <2>1, <2>2 DEF PatUsed, UsesPat, Operated, rga_is_buffer_valid, Addressless
    <2>5. /\ OldRegs(PatUsed).sina = Im2dRegs(PatUsed).sina /\ OldRegs(PatUsed).cosa = Im2dRegs(PatUsed).cosa
          /\ Compared(RegsFor("blit", OldRegs(PatUsed))) = Compared(RegsFor("blit", Im2dRegs(PatUsed)))
      BY <2>1, <2>2, <2>4, RegsAgree
    <2> HIDE DEF csc
    <2>6. SameButLimits(ForDriver(device.driver, a), ForDriver(device.driver, b))
      BY <2>5, SameRequest DEF BlitReq
    <2> QED
      BY <2>2, <2>3, <2>6
  <1> QED
    BY <1>1, <1>2

\* RgaBlit and generate_blit_req, RgaCollorFill and generate_fill_req are copies of
\* each other: for every device and every pair of calls that the two interfaces do
\* not treat differently on purpose (Comparable), what im2d accepts the legacy
\* function accepts, and the driver gets the same request of it, windows, address
\* planes, MMU flags and feature registers, up to the interpolation limits.
THEOREM InterfacesAgree == LegacySpec => []LegacyAgrees
  <1>1. RequestInv /\ HandleInv => LegacyAgrees
    <2> SUFFICES ASSUME RequestInv, HandleInv, Legacy, Comparable, Im2dTask.status = "SUCCESS"
                 PROVE  /\ LegacyTask.status = "SUCCESS"
                        /\ \A i \in DOMAIN sent :
                             SameButLimits(sent[i], ForDriver(device.driver, Im2dTask.requests[i]))
      BY DEF LegacyAgrees
    <2>1. ~ByIm2d /\ call # NoCall /\ call \in Tasks /\ DeviceInv /\ Possible(call)
      BY DEF Legacy, ByIm2d, RequestInv, OperandInv, HandleInv
    <2>2. PICK a, b : /\ LegacyTask = Sends(<<a>>) /\ Im2dTask = Sends(<<b>>)
                      /\ SameButLimits(ForDriver(device.driver, a), ForDriver(device.driver, b))
      BY <2>1, TasksAgree
    <2>3. /\ LegacyTask.status = "SUCCESS" /\ LegacyTask.requests = <<a>> /\ Im2dTask.requests = <<b>>
      BY <2>2 DEF Sends
    <2>4. TaskNow = LegacyTask
      BY <2>1 DEF TaskNow
    <2>5. ASSUME NEW i \in DOMAIN sent
          PROVE  i = 1 /\ sent[i] = ForDriver(device.driver, a)
      <3>1. /\ DOMAIN sent = 1..Len(sent) /\ Len(sent) \in Nat
            /\ Len(sent) > 0 => Len(sent) <= Len(TaskNow.requests)
            /\ \A n \in 1..Len(sent) : sent[n] = Taken(n)
        BY DEF RequestInv, SentInv
      <3>2. Len(TaskNow.requests) = 1 /\ TaskNow.requests[1] = a
        BY <2>3, <2>4
      <3>3. i = 1 /\ sent[i] = Taken(i)
        BY <3>1, <3>2
      <3> QED
        BY <3>2, <3>3 DEF Taken
    <2>6. Im2dTask.requests[1] = b
      BY <2>3
    <2> QED
      BY <2>2, <2>3, <2>5, <2>6
  <1> QED
    BY <1>1, SpecRequestInv, SpecHandleInv, PTL

-----------------------------------------------------------------------------
(* Functions, macros and tasks                                             *)

\* A call as a function of its fields, and without what tells a single call from
\* a task.
CallFields == {"src", "dst", "pat", "srect", "drect", "prect", "usage", "interp", "release", "blend",
               "y4", "opt"}
IsCall(c) == c = [f \in CallFields |-> c[f]]
Plainly(c) == [c EXCEPT !.usage = @ \ {"ASYNC"}, !.release = FALSE]
Stripped(parts) == [i \in DOMAIN parts |-> Untimed(parts[i])]

LEMMA WorkIs ==
  ASSUME NEW parts
  PROVE  Work(Draws(parts)) = Draws(Stripped(parts))
  <1> DEFINE p == Draws(parts)
  <1>1. p = [f \in {"status", "parts"} |-> p[f]] /\ p.parts = parts /\ p.status = "SUCCESS"
    BY DEF Draws
  <1>2. Work(p) = [p EXCEPT !.parts = Stripped(p.parts)]
    BY DEF Work, Stripped
  <1> HIDE DEF p
  <1>3. Work(p) = [f \in {"status", "parts"} |-> IF f = "parts" THEN Stripped(parts) ELSE p[f]]
    BY <1>1, <1>2
  <1>4. Draws(Stripped(parts)) = [f \in {"status", "parts"} |-> Draws(Stripped(parts))[f]]
        /\ Draws(Stripped(parts)).parts = Stripped(parts) /\ Draws(Stripped(parts)).status = "SUCCESS"
    BY DEF Draws
  <1>5. Work(p) = Draws(Stripped(parts))
    <2> DEFINE d == Draws(Stripped(parts))
    <2> HIDE DEF d
    <2>1. \A f \in {"status", "parts"} : d[f] = IF f = "parts" THEN Stripped(parts) ELSE p[f]
      BY <1>1, <1>4 DEF d
    <2> QED
      BY <1>3, <1>4, <2>1 DEF d
  <1> QED
    BY <1>5 DEF p

LEMMA StrippedOne ==
  ASSUME NEW c, IsCall(c), NEW from
  PROVE  Stripped(<<Part(c, from)>>) = <<Part(Plainly(c), from)>>
  <1> DEFINE p == Part(c, from)
             less == Untimed(p)
  <1>1. p.call = c /\ p.from = from /\ DOMAIN p = {"call", "from"}
    BY DEF Part
  <1>2. less.call = Plainly(c)
    BY DEF Part, Plainly, IsCall, CallFields, Untimed
  <1>3. less = Part(Plainly(c), from)
    <2>1. less = [p EXCEPT !.call = Plainly(c)]
      BY DEF Part, Plainly, IsCall, CallFields, Untimed
    <2> HIDE DEF less
    <2> QED
      BY <2>1 DEF Part
  <1>4. DOMAIN <<p>> = {1} /\ <<p>>[1] = p
    OBVIOUS
  <1> HIDE DEF p
  <1>5. Stripped(<<p>>) = [i \in {1} |-> less]
    BY <1>4 DEF Stripped
  <1> QED
    BY <1>3, <1>5 DEF p

LEMMA PlainTwice ==
  ASSUME NEW c, IsCall(c), NEW r, NEW more \in SUBSET {"ASYNC"}
  PROVE  LET d == [c EXCEPT !.usage = @ \cup more, !.release = r]
         IN  IsCall(d) /\ Plainly(d) = Plainly(c)
  <1> DEFINE d == [c EXCEPT !.usage = @ \cup more, !.release = r]
  <1>1. IsCall(d) /\ d.usage = c.usage \cup more
        /\ \A f \in CallFields \ {"usage", "release"} : d[f] = c[f]
    BY DEF IsCall, CallFields
  <1>2. d.usage \ {"ASYNC"} = c.usage \ {"ASYNC"}
    BY <1>1
  <1> HIDE DEF d
  <1>3. /\ IsCall(Plainly(d)) /\ IsCall(Plainly(c))
        /\ Plainly(d).usage = c.usage \ {"ASYNC"} /\ Plainly(c).usage = c.usage \ {"ASYNC"}
        /\ Plainly(d).release = FALSE /\ Plainly(c).release = FALSE
        /\ \A f \in CallFields \ {"usage", "release"} : Plainly(d)[f] = d[f] /\ Plainly(c)[f] = c[f]
    BY <1>1, <1>2 DEF IsCall, CallFields, Plainly
  <1>4. \A f \in CallFields : Plainly(d)[f] = Plainly(c)[f]
    BY <1>1, <1>3
  <1>5. Plainly(d) = Plainly(c)
    BY <1>3, <1>4 DEF IsCall
  <1> QED
    BY <1>1, <1>5 DEF d

\* A single call and a task of the same operands do the same work.
LEMMA SameWork ==
  ASSUME NEW a, NEW c, IsCall(c)
  PROVE  /\ Work(rga_single_task_submit(a, c)) = Draws(<<Part(Plainly(c), "src")>>)
         /\ Work(improcessTask(c)) = Draws(<<Part(Plainly(c), "src")>>)
         /\ \E d : rga_single_task_submit(a, c).parts = <<d>>
         /\ \E d : improcessTask(c).parts = <<d>>
  <1> DEFINE more == IF a.sync = 0 THEN {"ASYNC"} ELSE {}
             d == [c EXCEPT !.usage = @ \cup more, !.release = a.release]
  <1>1. more \in SUBSET {"ASYNC"}
    OBVIOUS
  <1>2. rga_single_task_submit(a, c) = Draws(<<Part(d, "src")>>) /\ improcessTask(c) = Draws(<<Part(c, "src")>>)
    BY DEF rga_single_task_submit, improcessTask
  <1>3. \A parts : Draws(parts).parts = parts
    BY DEF Draws
  <1> HIDE DEF more
  <1>4. IsCall(d) /\ Plainly(d) = Plainly(c)
    BY <1>1, PlainTwice
  <1> HIDE DEF d
  <1> QED
    BY <1>2, <1>3, <1>4, WorkIs, StrippedOne

LEMMA EmptyIs ==
  ASSUME NEW src, NEW dst, NEW blend
  PROVE  /\ IsCall(empty_structure(src, dst, blend))
         /\ \A g \in CallFields : \A v : IsCall([empty_structure(src, dst, blend) EXCEPT ![g] = v])
  BY DEF empty_structure, IsCall, CallFields

\* The same arguments, up to how long the caller waits.
Alike(a, b) == \A f \in ArgNames \ {"sync", "release"} : a[f] = b[f]

LEMMA OneTwin ==
  ASSUME NEW a, NEW c, IsCall(c)
  PROVE  Work(rga_single_task_submit(a, c)) = Work(improcessTask(c))
  BY SameWork

\* The functions that submit one task, one pair of copies after the other.
LEMMA SingleTwins ==
  ASSUME NEW a, NEW b, Alike(a, b)
  PROVE  /\ Work(imcopy(a)) = Work(imcopyTask(b))
         /\ Work(imcrop(a)) = Work(imcropTask(b))
         /\ Work(imtranslate(a)) = Work(imtranslateTask(b))
         /\ Work(imrotate(a)) = Work(imrotateTask(b))
         /\ Work(imflip(a)) = Work(imflipTask(b))
         /\ Work(imcomposite(a)) = Work(imcompositeTask(b))
         /\ Work(imcolorkey(a)) = Work(imcolorkeyTask(b))
         /\ Work(imquantize(a)) = Work(imquantizeTask(b))
         /\ Work(imrop(a)) = Work(imropTask(b))
         /\ Work(impalette(a)) = Work(impaletteTask(b))
  <1>1. /\ a.src = b.src /\ a.dst = b.dst /\ a.pat = b.pat /\ a.blend = b.blend /\ a.rect = b.rect
        /\ a.x = b.x /\ a.y = b.y /\ a.flags = b.flags /\ a.rop = b.rop
    BY DEF Alike, ArgNames
  <1>2. Empty(a) = Empty(b) /\ SameSize(a) = SameSize(b)
    BY <1>1 DEF Empty, SameSize
  <1>3. IsCall(Empty(b)) /\ Empty(b).opt = NoOpt
    BY EmptyIs DEF Empty, empty_structure
  <1> DEFINE e == Empty(b)
  <1> HIDE DEF e
  <1>4. Work(imcopy(a)) = Work(imcopyTask(b))
    BY <1>2, <1>3, OneTwin DEF imcopy, imcopyTask
  <1>5. Work(imcrop(a)) = Work(imcropTask(b))
    <2> DEFINE c == [e EXCEPT !.srect = b.rect, !.drect = RectOf(0, 0, b.rect.w, b.rect.h)]
    <2>1. IsCall(c)
      BY <1>3 DEF e, IsCall, CallFields
    <2>2. imcrop(a) = rga_single_task_submit(a, c) /\ imcropTask(b) = improcessTask(c)
      BY <1>1, <1>2 DEF imcrop, imcropTask, e
    <2> QED
      BY <2>1, <2>2, OneTwin
  <1>6. Work(imtranslate(a)) = Work(imtranslateTask(b))
    <2> DEFINE c == [e EXCEPT !.srect = RectOf(0, 0, b.src.w - b.x, b.src.h - b.y),
                              !.drect = RectOf(b.x, b.y, b.src.w - b.x, b.src.h - b.y)]
    <2>1. IsCall(c)
      BY <1>3 DEF e, IsCall, CallFields
    <2>2. CASE ~SameSize(b)
      BY <1>2, <2>2 DEF imtranslate, imtranslateTask
    <2>3. CASE SameSize(b)
      <3>1. imtranslate(a) = rga_single_task_submit(a, c) /\ imtranslateTask(b) = improcessTask(c)
        BY <1>1, <1>2, <2>3 DEF imtranslate, imtranslateTask, e
      <3> QED
        BY <2>1, <3>1, OneTwin
    <2> QED
      BY <2>2, <2>3
  <1>7. /\ Work(imrotate(a)) = Work(imrotateTask(b)) /\ Work(imflip(a)) = Work(imflipTask(b))
        /\ Work(imcolorkey(a)) = Work(imcolorkeyTask(b))
        /\ Work(imquantize(a)) = Work(imquantizeTask(b))
    <2> DEFINE c == [e EXCEPT !.usage = b.flags]  d == [e EXCEPT !.usage = {"QUANTIZE"}]
    <2>1. IsCall(c) /\ IsCall(d)
      BY <1>3 DEF e, IsCall, CallFields
    <2>2. /\ imrotate(a) = rga_single_task_submit(a, c) /\ imrotateTask(b) = improcessTask(c)
          /\ imflip(a) = rga_single_task_submit(a, c) /\ imflipTask(b) = improcessTask(c)
          /\ imcolorkey(a) = rga_single_task_submit(a, c) /\ imcolorkeyTask(b) = improcessTask(c)
          /\ imquantize(a) = rga_single_task_submit(a, d) /\ imquantizeTask(b) = improcessTask(d)
      BY <1>1, <1>2 DEF imrotate, imrotateTask, imflip, imflipTask, imcolorkey, imcolorkeyTask,
                        imquantize, imquantizeTask, e
    <2> HIDE DEF c, d
    <2> QED
      BY <2>1, <2>2, OneTwin
  <1>8. Work(imcomposite(a)) = Work(imcompositeTask(b))
    <2> DEFINE c == [e EXCEPT !.usage = b.flags, !.pat = b.pat]
    <2>1. IsCall(c)
      BY <1>3 DEF e, IsCall, CallFields
    <2>2. imcomposite(a) = rga_single_task_submit(a, c) /\ imcompositeTask(b) = improcessTask(c)
      BY <1>1, <1>2 DEF imcomposite, imcompositeTask, e
    <2> QED
      BY <2>1, <2>2, OneTwin
  <1>9. Work(imrop(a)) = Work(imropTask(b))
    <2> DEFINE c == [e EXCEPT !.usage = {"ROP"}, !.opt.rop = b.rop]
    <2>1. IsCall(c)
      BY <1>3 DEF e, IsCall, CallFields
    <2>2. imrop(a) = rga_single_task_submit(a, c) /\ imropTask(b) = improcessTask(c)
      BY <1>1, <1>2 DEF imrop, imropTask, e
    <2> QED
      BY <2>1, <2>2, OneTwin
  <1>10. Work(impalette(a)) = Work(impaletteTask(b))
    <2> DEFINE c == [e EXCEPT !.usage = {"COLOR_PALETTE"}, !.pat = b.pat]
    <2>1. IsCall(c)
      BY <1>3 DEF e, IsCall, CallFields
    <2>2. CASE ~SameSize(b)
      BY <1>2, <2>2 DEF impalette, impaletteTask
    <2>3. CASE SameSize(b)
      <3>1. impalette(a) = rga_single_task_submit(a, c) /\ impaletteTask(b) = improcessTask(c)
        BY <1>1, <1>2, <2>3 DEF impalette, impaletteTask, e
      <3> QED
        BY <2>1, <3>1, OneTwin
    <2> QED
      BY <2>2, <2>3
  <1> QED
    BY <1>4, <1>5, <1>6, <1>7, <1>8, <1>9, <1>10

\* A resized call is checked before it is submitted, by both alike.
LEMMA ResizeTwins ==
  ASSUME NEW a, NEW b, Alike(a, b)
  PROVE  Work(imresize(a)) = Work(imresizeTask(b))
  <1>1. /\ a.src = b.src /\ a.dst = b.dst /\ a.blend = b.blend /\ a.fx = b.fx /\ a.fy = b.fy
        /\ a.interp = b.interp
    BY DEF Alike, ArgNames
  <1>2. Resized(a) = Resized(b) /\ Scales(a) = Scales(b)
    BY <1>1 DEF Resized, Scales
  <1> DEFINE dst == IF Scales(b) THEN Resized(b) ELSE b.dst
             e == empty_structure(b.src, dst, b.blend)
             checked == IF is_yuv_format(dst.fmt) THEN rga_check_external(hw, e) ELSE "NOERROR"
             c == [e EXCEPT !.opt = CurrentOpt, !.interp = b.interp]
  <1>3. IsCall(e)
    BY EmptyIs
  <1>4. /\ imresize(a) = IF Scales(b) /\ ~Known(dst.fmt) THEN Refused("NOT_SUPPORTED")
                         ELSE IF Scales(b) /\ checked # "NOERROR" THEN Refused(checked)
                         ELSE rga_single_task_submit(a, c)
        /\ imresizeTask(b) = IF Scales(b) /\ ~Known(dst.fmt) THEN Refused("NOT_SUPPORTED")
                             ELSE IF Scales(b) /\ checked # "NOERROR" THEN Refused(checked)
                             ELSE improcessTask(c)
    BY <1>1, <1>2, Zenon DEF imresize, imresizeTask
  <1>5. IsCall(c)
    <2> HIDE DEF e
    <2> QED
      BY <1>3 DEF IsCall, CallFields
  <1> HIDE DEF c, checked, dst
  <1>6. Work(rga_single_task_submit(a, c)) = Work(improcessTask(c))
    BY <1>5, OneTwin
  <1> QED
    BY <1>4, <1>6

\* Unless the destination declares a colour space.
LEMMA CvtTwins ==
  ASSUME NEW a, NEW b, Alike(a, b), b.dst \in rga_buffer_t, b.dst.csm = IM_COLOR_SPACE_DEFAULT
  PROVE  Work(imcvtcolor(a)) = Work(imcvtcolorTask(b))
  <1>1. /\ a.src = b.src /\ a.dst = b.dst /\ a.blend = b.blend /\ a.sfmt = b.sfmt /\ a.dfmt = b.dfmt
        /\ a.mode = b.mode
    BY DEF Alike, ArgNames
  <1>2. Empty(a) = Empty(b)
    BY <1>1 DEF Empty
  <1> DEFINE e == Empty(b)
             c == [e EXCEPT !.src.fmt = b.sfmt, !.dst.fmt = b.dfmt, !.dst.csm = b.mode]
             d == [e EXCEPT !.src.fmt = b.sfmt, !.dst.fmt = b.dfmt,
                            !.dst.csm = IF @ = IM_COLOR_SPACE_DEFAULT THEN b.mode ELSE @]
  <1>3. IsCall(e) /\ e.dst = b.dst
    BY EmptyIs DEF Empty, empty_structure
  <1>4. imcvtcolor(a) = rga_single_task_submit(a, d) /\ imcvtcolorTask(b) = improcessTask(c)
    BY <1>1, <1>2 DEF imcvtcolor, imcvtcolorTask
  <1> HIDE DEF e
  <1>5. IsCall(c)
    BY <1>3 DEF IsCall, CallFields
  <1>6. d = c
    BY <1>3 DEF IsCall, CallFields, rga_buffer_t
  <1> HIDE DEF c, d
  <1> QED
    BY <1>4, <1>5, <1>6, OneTwin

\* The arguments of a call.
IsArgs(a) == a = [f \in DOMAIN a |-> a[f]] /\ ArgNames \subseteq DOMAIN a

\* One argument replaced.
LEMMA ReplacedAlike ==
  ASSUME NEW a, NEW b, IsArgs(a), IsArgs(b), NEW g \in ArgNames, NEW v,
         \A f \in ArgNames \ {"sync", "release", g} : a[f] = b[f]
  PROVE  /\ Alike([a EXCEPT ![g] = v], [b EXCEPT ![g] = v])
         /\ IsArgs([a EXCEPT ![g] = v]) /\ [a EXCEPT ![g] = v][g] = v
         /\ \A f \in ArgNames \ {g} : [a EXCEPT ![g] = v][f] = a[f]
  BY DEF IsArgs, Alike

LEMMA BlendTwins ==
  ASSUME NEW a, NEW b, IsArgs(a), IsArgs(b), Alike(a, b)
  PROVE  Work(imblend(a)) = Work(imblendTask(b))
  <1>1. "pat" \in ArgNames
    BY DEF ArgNames
  <1>0. \A f \in ArgNames \ {"sync", "release", "pat"} : a[f] = b[f]
    BY DEF Alike
  <1>2. Alike([a EXCEPT !["pat"] = NoBuffer], [b EXCEPT !["pat"] = NoBuffer])
    BY <1>0, <1>1, ReplacedAlike
  <1>3. Alike([a EXCEPT !.pat = NoBuffer], [b EXCEPT !.pat = NoBuffer])
    BY <1>2
  <1> QED
    BY <1>3, SingleTwins DEF imblend, imblendTask

\* The functions that draw into an image, or blur it.
LEMMA ImageTwins ==
  ASSUME NEW a, NEW b, Alike(a, b)
  PROVE  /\ Work(imosd(a)) = Work(imosdTask(b))
         /\ Work(immosaic(a)) = Work(immosaicTask(b))
         /\ Work(imfill(a)) = Work(imfillTask(b))
         /\ Work(imgaussianBlur(a)) = Work(imgaussianBlur(b))
  <1>1. /\ a.src = b.src /\ a.dst = b.dst /\ a.pat = b.pat /\ a.blend = b.blend /\ a.rect = b.rect
        /\ a.ksize = b.ksize
    BY DEF Alike, ArgNames
  <1>2. Work(imosd(a)) = Work(imosdTask(b))
    <2> DEFINE e == empty_structure(b.dst, b.dst, [b.blend EXCEPT !.mode = "DST_OVER"])
               c == [e EXCEPT !.usage = {"BLEND", "OSD"}, !.pat = b.pat, !.srect = b.rect,
                              !.drect = b.rect, !.opt = CurrentOpt]
    <2>1. IsCall(e)
      BY EmptyIs
    <2>2. imosd(a) = rga_single_task_submit(a, c) /\ imosdTask(b) = improcessTask(c)
      BY <1>1 DEF imosd, imosdTask
    <2> HIDE DEF e
    <2>3. IsCall(c)
      BY <2>1 DEF IsCall, CallFields
    <2> QED
      BY <2>2, <2>3, OneTwin
  <1>3. Work(immosaic(a)) = Work(immosaicTask(b))
    <2> DEFINE e == empty_structure(b.dst, b.dst, [mode |-> "SRC_OVER", fg |-> 0, bg |-> 0])
               f == [e EXCEPT !.srect = b.rect, !.drect = b.rect]
               c == [f EXCEPT !.usage = {"MOSAIC"}, !.opt = CurrentOpt]
    <2>1. IsCall(e)
      BY EmptyIs
    <2>2. immosaic(a) = rga_single_task_submit(a, c) /\ immosaicTask(b) = improcessTask(c)
      BY <1>1 DEF immosaic, immosaicTask, InImage
    <2> HIDE DEF e
    <2>3. IsCall(f)
      BY <2>1 DEF IsCall, CallFields
    <2> HIDE DEF f
    <2>4. IsCall(c)
      BY <2>3 DEF IsCall, CallFields
    <2> QED
      BY <2>2, <2>4, OneTwin
  <1>4. Work(imfill(a)) = Work(imfillTask(b))
    <2> DEFINE e == empty_structure(NoBuffer, b.dst, b.blend)
               c == [e EXCEPT !.drect = b.rect, !.usage = {"COLOR_FILL"}]
    <2>1. IsCall(e)
      BY EmptyIs
    <2>2. imfill(a) = rga_single_task_submit(a, c) /\ imfillTask(b) = improcessTask(c)
      BY <1>1 DEF imfill, imfillTask
    <2> HIDE DEF e
    <2>3. IsCall(c)
      BY <2>1 DEF IsCall, CallFields
    <2> QED
      BY <2>2, <2>3, OneTwin
  <1>5. Work(imgaussianBlur(a)) = Work(imgaussianBlur(b))
    <2> DEFINE e == Empty(b)
               c == [e EXCEPT !.usage = {"GAUSS"}, !.opt = imsetOptGaussianBlur(@, b.ksize)]
    <2>1. IsCall(e) /\ Empty(a) = e /\ SameSize(a) = SameSize(b)
      BY <1>1, EmptyIs DEF Empty, SameSize
    <2>2. CASE ~SameSize(b)
      BY <2>1, <2>2 DEF imgaussianBlur
    <2>3. CASE SameSize(b)
      <3>1. imgaussianBlur(a) = rga_single_task_submit(a, c) /\ imgaussianBlur(b) = rga_single_task_submit(b, c)
        BY <1>1, <2>1, <2>3 DEF imgaussianBlur
      <3> HIDE DEF e
      <3>2. IsCall(c)
        BY <2>1 DEF IsCall, CallFields
      <3> QED
        BY <3>1, <3>2, OneTwin
    <2> QED
      BY <2>2, <2>3
  <1> QED
    BY <1>2, <1>3, <1>4, <1>5

\* Sequences, of whatever they hold.
Held(s) == {s[j] : j \in 1 .. Len(s)}
IsSeq(s) == s \in Seq(Held(s))

LEMMA SeqHeld ==
  ASSUME NEW S, NEW s \in Seq(S)
  PROVE  IsSeq(s) /\ Held(s) \subseteq S
  BY DEF IsSeq, Held

LEMMA HeldIn ==
  ASSUME NEW S, NEW s, IsSeq(s), Held(s) \subseteq S
  PROVE  s \in Seq(S)
  BY DEF IsSeq

\* f on the first m places, g on the next n.
InTurn(f, g, m, n) == [i \in 1 .. m + n |-> IF i <= m THEN f[i] ELSE g[i - m]]

LEMMA StrippedJoin ==
  ASSUME NEW S, NEW s \in Seq(S), NEW t \in Seq(S)
  PROVE  /\ Stripped(s \o t) = InTurn(Stripped(s), Stripped(t), Len(s), Len(t)) /\ s \o t \in Seq(S)
         /\ Len(s) \in Nat /\ DOMAIN Stripped(s) = 1 .. Len(s)
  <1>1. /\ s \o t \in Seq(S) /\ Len(s \o t) = Len(s) + Len(t) /\ Len(s) \in Nat /\ Len(t) \in Nat
        /\ DOMAIN (s \o t) = 1 .. Len(s) + Len(t) /\ DOMAIN s = 1 .. Len(s) /\ DOMAIN t = 1 .. Len(t)
    OBVIOUS
  <1>2. \A i \in 1 .. Len(s) + Len(t) : (s \o t)[i] = IF i <= Len(s) THEN s[i] ELSE t[i - Len(s)]
    OBVIOUS
  <1>3. ASSUME NEW i \in 1 .. Len(s) + Len(t)
        PROVE  Untimed((s \o t)[i]) = IF i <= Len(s) THEN Stripped(s)[i] ELSE Stripped(t)[i - Len(s)]
    <2>1. CASE i <= Len(s)
      BY <1>1, <1>2, <2>1 DEF Stripped
    <2>2. CASE ~(i <= Len(s))
      <3>1. i - Len(s) \in 1 .. Len(t)
        BY <1>1, <2>2
      <3> QED
        BY <1>1, <1>2, <2>2, <3>1 DEF Stripped
    <2> QED
      BY <2>1, <2>2
  <1> QED
    BY <1>1, <1>3 DEF Stripped, InTurn

\* The loop over an array is what its equation says.
LEMMA PartsUpToIs ==
  ASSUME NEW plans, Len(plans) \in Nat
  PROVE  PartsUpTo(plans) =
           [n \in 0 .. Len(plans) |->
              IF n = 0 THEN <<>> ELSE PartsUpTo(plans)[n - 1] \o plans[n].parts]
  <1> DEFINE Runs(n, f) == f = [k \in 0 .. n |-> IF k = 0 THEN <<>> ELSE f[k - 1] \o plans[k].parts]
             Good == {n \in 0 .. Len(plans) : \E f : Runs(n, f)}
  <1>1. \E f : Runs(0, f)
    <2>1. Runs(0, [k \in 0 .. 0 |-> <<>>])
      OBVIOUS
    <2> QED
      BY <2>1
  <1>2. ASSUME NEW n \in 0 .. Len(plans), n + 1 \in 0 .. Len(plans), NEW f, Runs(n, f)
        PROVE  \E g : Runs(n + 1, g)
    <2> DEFINE g == [k \in 0 .. (n + 1) |-> IF k = n + 1 THEN f[n] \o plans[n + 1].parts ELSE f[k]]
    <2>1. Runs(n + 1, g)
      BY <1>2
    <2> QED
      BY <2>1
  <1> HIDE DEF Runs
  <1>3. 0 .. Len(plans) \subseteq Good
    <2>1. 0 \in Good
      BY <1>1
    <2>2. ASSUME NEW n \in 0 .. Len(plans), n < Len(plans), n \in Good PROVE n + 1 \in Good
      <3>1. n + 1 \in 0 .. Len(plans)
        BY <2>2
      <3> QED
        BY <1>2, <2>2, <3>1
    <2> HIDE DEF Good
    <2> QED
      BY <2>1, <2>2, UpTo
  <1>4. \E f : Runs(Len(plans), f)
    BY <1>3
  <1>5. PartsUpTo(plans) = CHOOSE f : Runs(Len(plans), f)
    BY DEF PartsUpTo, Runs
  <1>6. Runs(Len(plans), PartsUpTo(plans))
    BY <1>4, <1>5
  <1> QED
    BY <1>6 DEF Runs

\* Plans that do the same work, one by one, do the same work together.
LEMMA TogetherSame ==
  ASSUME NEW N \in Nat, NEW p, NEW q, Len(p) = N, Len(q) = N,
         \A i \in 1 .. N : /\ IsSeq(p[i].parts) /\ IsSeq(q[i].parts)
                           /\ Stripped(p[i].parts) = Stripped(q[i].parts)
  PROVE  /\ Work(Together(p)) = Work(Together(q))
         /\ IsSeq(Together(p).parts) /\ IsSeq(Together(q).parts)
         /\ Stripped(Together(p).parts) = Stripped(Together(q).parts)
  <1> DEFINE P == PartsUpTo(p)  Q == PartsUpTo(q)
             S == UNION {Held(p[i].parts) \cup Held(q[i].parts) : i \in 1 .. N}
             Same == {n \in 0 .. N : P[n] \in Seq(S) /\ Q[n] \in Seq(S) /\ Stripped(P[n]) = Stripped(Q[n])}
  <1>1. /\ P = [n \in 0 .. N |-> IF n = 0 THEN <<>> ELSE P[n - 1] \o p[n].parts]
        /\ Q = [n \in 0 .. N |-> IF n = 0 THEN <<>> ELSE Q[n - 1] \o q[n].parts]
    BY PartsUpToIs
  <1>2. \A i \in 1 .. N : p[i].parts \in Seq(S) /\ q[i].parts \in Seq(S)
    BY HeldIn
  <1> HIDE DEF P, Q, S
  <1>3. 0 \in Same
    <2>1. <<>> \in Seq(S) /\ 0 \in 0 .. N
      OBVIOUS
    <2> QED
      BY <1>1, <2>1
  <1>4. ASSUME NEW n \in 0 .. N, n < N, n \in Same PROVE n + 1 \in Same
    <2>1. n + 1 \in 1 .. N /\ n + 1 \in 0 .. N /\ n + 1 - 1 = n /\ n + 1 # 0
      BY <1>4
    <2>2. P[n + 1] = P[n] \o p[n + 1].parts /\ Q[n + 1] = Q[n] \o q[n + 1].parts
      BY SMTT(40), <1>1, <2>1
    <2>3. /\ p[n + 1].parts \in Seq(S) /\ q[n + 1].parts \in Seq(S)
          /\ Stripped(p[n + 1].parts) = Stripped(q[n + 1].parts)
      BY <1>2, <2>1
    <2>4. P[n] \in Seq(S) /\ Q[n] \in Seq(S) /\ Stripped(P[n]) = Stripped(Q[n])
      BY <1>4
    <2>5. ASSUME NEW s \in Seq(S), NEW t \in Seq(S), Stripped(s) = Stripped(t) PROVE Len(s) = Len(t)
      BY <2>5, StrippedJoin
    <2>6. Len(P[n]) = Len(Q[n]) /\ Len(p[n + 1].parts) = Len(q[n + 1].parts)
      BY <2>3, <2>4, <2>5
    <2>7. Stripped(P[n + 1]) = Stripped(Q[n + 1])
      BY <2>2, <2>3, <2>4, <2>6, StrippedJoin
    <2>8. P[n + 1] \in Seq(S) /\ Q[n + 1] \in Seq(S)
      BY <2>2, <2>3, <2>4
    <2> QED
      BY <2>1, <2>7, <2>8
  <1> HIDE DEF Same
  <1>5. 0 .. N \subseteq Same
    BY <1>3, <1>4, UpTo
  <1>6. P[N] \in Seq(S) /\ Q[N] \in Seq(S) /\ Stripped(P[N]) = Stripped(Q[N])
    BY <1>5 DEF Same
  <1>7. Together(p) = Draws(P[N]) /\ Together(q) = Draws(Q[N])
    BY DEF Together, P, Q
  <1>8. Together(p).parts = P[N] /\ Together(q).parts = Q[N]
    BY <1>7 DEF Draws
  <1> QED
    BY <1>6, <1>7, <1>8, SeqHeld, WorkIs

\* One part, whatever it is.
LEMMA OnePart ==
  ASSUME NEW x
  PROVE  IsSeq(<<x>>) /\ Draws(<<x>>) = Draws(Draws(<<x>>).parts) /\ Draws(<<x>>).parts = <<x>>
  <1>1. <<x>> \in Seq({x})
    OBVIOUS
  <1> QED
    BY <1>1, SeqHeld DEF Draws

Drawing(p) == p = Draws(p.parts) /\ IsSeq(p.parts)

LEMMA ImageDraws ==
  ASSUME NEW a
  PROVE  /\ Drawing(imfill(a)) /\ Drawing(imfillTask(a))
         /\ Drawing(immosaic(a)) /\ Drawing(immosaicTask(a))
  <1>1. ASSUME NEW c PROVE Drawing(rga_single_task_submit(a, c)) /\ Drawing(improcessTask(c))
    BY OnePart DEF rga_single_task_submit, improcessTask, Drawing
  <1> QED
    BY <1>1 DEF imfill, imfillTask, immosaic, immosaicTask

LEMMA SameParts ==
  ASSUME NEW p, NEW q, Drawing(p), Drawing(q)
  PROVE  Work(p) = Work(q) <=> Stripped(p.parts) = Stripped(q.parts)
  <1>1. Work(p) = Draws(Stripped(p.parts)) /\ Work(q) = Draws(Stripped(q.parts))
    BY WorkIs DEF Drawing
  <1>2. \A s : Draws(s).parts = s
    BY DEF Draws
  <1> QED
    BY <1>1, <1>2

\* The array functions make the same loop over the same rectangles.
LEMMA FillArrayTwins ==
  ASSUME NEW a, NEW b, IsArgs(a), IsArgs(b), \A f \in ArgNames \ {"sync", "release", "rect"} : a[f] = b[f],
         NEW N \in Nat, DOMAIN a.rects = 1 .. N
  PROVE  /\ Work(imfillArray(a)) = Work(imfillTaskArray(b))
         /\ Drawing(imfillArray(a)) /\ Drawing(imfillTaskArray(b))
         /\ Work(immosaicArray(a)) = Work(immosaicTaskArray(b))
  <1>1. a.rects = b.rects /\ "rect" \in ArgNames
    BY DEF ArgNames
  <1> DEFINE p == [i \in 1 .. N |-> imfill([a EXCEPT !.rect = a.rects[i]])]
             q == [i \in 1 .. N |-> imfillTask([b EXCEPT !.rect = a.rects[i]])]
             r == [i \in 1 .. N |-> immosaic([a EXCEPT !.rect = a.rects[i]])]
             s == [i \in 1 .. N |-> immosaicTask([b EXCEPT !.rect = a.rects[i]])]
  <1>2. /\ imfillArray(a) = Together(p) /\ imfillTaskArray(b) = Together(q)
        /\ immosaicArray(a) = Together(r) /\ immosaicTaskArray(b) = Together(s)
    BY <1>1 DEF imfillArray, imfillTaskArray, immosaicArray, immosaicTaskArray
  <1>3. ASSUME NEW i \in 1 .. N
        PROVE  /\ Drawing(p[i]) /\ Drawing(q[i]) /\ Work(p[i]) = Work(q[i])
               /\ Drawing(r[i]) /\ Drawing(s[i]) /\ Work(r[i]) = Work(s[i])
    <2> DEFINE x == [a EXCEPT !["rect"] = a.rects[i]]  y == [b EXCEPT !["rect"] = a.rects[i]]
    <2>1. Alike(x, y)
      BY <1>1, ReplacedAlike
    <2>2. p[i] = imfill(x) /\ q[i] = imfillTask(y) /\ r[i] = immosaic(x) /\ s[i] = immosaicTask(y)
      OBVIOUS
    <2> HIDE DEF x, y, p, q, r, s
    <2> QED
      BY <2>1, <2>2, ImageTwins, ImageDraws
  <1>4. Len(p) = N /\ Len(q) = N /\ Len(r) = N /\ Len(s) = N
    OBVIOUS
  <1> HIDE DEF p, q, r, s
  <1>5. \A i \in 1 .. N : /\ IsSeq(p[i].parts) /\ IsSeq(q[i].parts) /\ Stripped(p[i].parts) = Stripped(q[i].parts)
                          /\ IsSeq(r[i].parts) /\ IsSeq(s[i].parts) /\ Stripped(r[i].parts) = Stripped(s[i].parts)
    BY <1>3, SameParts DEF Drawing
  <1>6. Work(Together(p)) = Work(Together(q)) /\ IsSeq(Together(p).parts) /\ IsSeq(Together(q).parts)
    BY <1>4, <1>5, TogetherSame
  <1>7. Work(Together(r)) = Work(Together(s))
    BY <1>4, <1>5, TogetherSame
  <1>8. \A x : Together(x) = Draws(Together(x).parts)
    BY DEF Together, Draws
  <1> QED
    BY <1>2, <1>6, <1>7, <1>8 DEF Drawing

Bars(r, t) ==
  LET v == r.h - 2 * t
  IN  <<RectOf(r.x, r.y, r.w, t), RectOf(r.x, r.y + r.h - t, r.w, t),
        RectOf(r.x, r.y + t, t, v), RectOf(r.x + r.w - t, r.y + t, t, v)>>

\* A frame is filled, or has four bars.
LEMMA RectangleTwins ==
  ASSUME NEW a, NEW b, IsArgs(a), IsArgs(b), Alike(a, b)
  PROVE  /\ Work(imrectangle(a)) = Work(imrectangleTask(b))
         /\ Drawing(imrectangle(a)) /\ Drawing(imrectangleTask(b))
  <1>1. a.rect = b.rect /\ a.thickness = b.thickness /\ "rects" \in ArgNames
    BY DEF Alike, ArgNames
  <1>2. CASE b.thickness < 0
    <2>1. imrectangle(a) = imfill(a) /\ imrectangleTask(b) = imfillTask(b)
      BY <1>1, <1>2 DEF imrectangle, imrectangleTask
    <2> QED
      BY <2>1, ImageTwins, ImageDraws
  <1>3. CASE ~(b.thickness < 0)
    <2> DEFINE bars == Bars(b.rect, b.thickness)
               x == [a EXCEPT !["rects"] = bars]  y == [b EXCEPT !["rects"] = bars]
    <2>1. imrectangle(a) = imfillArray(x) /\ imrectangleTask(b) = imfillTaskArray(y)
      BY <1>1, <1>3 DEF imrectangle, imrectangleTask, Bars
    <2>2. DOMAIN bars = 1 .. 4
      BY DEF Bars
    <2> HIDE DEF bars
    <2>3. \A f \in ArgNames \ {"sync", "release", "rects"} : a[f] = b[f]
      BY DEF Alike
    <2>4. Alike(x, y) /\ IsArgs(x) /\ IsArgs(y) /\ x.rects = bars
      BY <1>1, <2>3, ReplacedAlike
    <2> HIDE DEF x, y
    <2>5. \A f \in ArgNames \ {"sync", "release", "rect"} : x[f] = y[f]
      BY <2>4 DEF Alike
    <2> QED
      BY ZenonT(60), <2>1, <2>2, <2>4, <2>5, FillArrayTwins
  <1> QED
    BY <1>2, <1>3

LEMMA RectangleArrayTwins ==
  ASSUME NEW a, NEW b, IsArgs(a), IsArgs(b), Alike(a, b), NEW N \in Nat, DOMAIN a.rects = 1 .. N
  PROVE  Work(imrectangleArray(a)) = Work(imrectangleTaskArray(b))
  <1>1. a.rects = b.rects /\ "rect" \in ArgNames
    BY DEF Alike, ArgNames
  <1> DEFINE p == [i \in 1 .. N |-> imrectangle([a EXCEPT !.rect = a.rects[i]])]
             q == [i \in 1 .. N |-> imrectangleTask([b EXCEPT !.rect = a.rects[i]])]
  <1>2. imrectangleArray(a) = Together(p) /\ imrectangleTaskArray(b) = Together(q)
    BY <1>1 DEF imrectangleArray, imrectangleTaskArray
  <1>3. ASSUME NEW i \in 1 .. N
        PROVE  Drawing(p[i]) /\ Drawing(q[i]) /\ Work(p[i]) = Work(q[i])
    <2> DEFINE x == [a EXCEPT !["rect"] = a.rects[i]]  y == [b EXCEPT !["rect"] = a.rects[i]]
    <2>0. \A f \in ArgNames \ {"sync", "release", "rect"} : a[f] = b[f]
      BY DEF Alike
    <2>1. Alike(x, y) /\ IsArgs(x) /\ IsArgs(y)
      BY SMTT(40), <1>1, <2>0, ReplacedAlike
    <2>2. p[i] = imrectangle(x) /\ q[i] = imrectangleTask(y)
      OBVIOUS
    <2> HIDE DEF x, y, p, q
    <2> QED
      BY <2>1, <2>2, RectangleTwins
  <1>4. Len(p) = N /\ Len(q) = N
    OBVIOUS
  <1> HIDE DEF p, q
  <1>5. \A i \in 1 .. N : IsSeq(p[i].parts) /\ IsSeq(q[i].parts) /\ Stripped(p[i].parts) = Stripped(q[i].parts)
    BY <1>3, SameParts DEF Drawing
  <1> QED
    BY <1>2, <1>4, <1>5, TogetherSame

\* Arguments that are not given have their default, the others are the caller's.
LEMMA FilledMiss ==
  ASSUME NEW a, NEW f \in DOMAIN a, NEW optional, NEW given,
         \A i \in DOMAIN optional : ~(i > given /\ f \in DOMAIN optional[i])
  PROVE  Filled(a, optional, given)[f] = a[f]
  BY DEF Filled

LEMMA FilledArgs ==
  ASSUME NEW a, IsArgs(a), NEW optional, NEW given
  PROVE  IsArgs(Filled(a, optional, given)) /\ DOMAIN Filled(a, optional, given) = DOMAIN a
  BY DEF IsArgs, Filled

\* short is the list of a macro, long the one of the declaration in C++.
Lists(short, long, m) ==
  /\ DOMAIN short = 1 .. m /\ DOMAIN long = 1 .. m + 1 /\ long[m + 1] = NoFence
  /\ \A i \in 1 .. m : long[i] = short[i]
  /\ \A i \in 1 .. m : \A j \in 1 .. m : \A f : f \in DOMAIN short[i] /\ f \in DOMAIN short[j] => i = j

SameExcept(a, b, g) == \A f \in ArgNames \ {g} : a[f] = b[f]

LEMMA FilledAlike ==
  ASSUME NEW a, IsArgs(a), NEW b, IsArgs(b), NEW g, SameExcept(a, b, g),
         NEW n \in Nat, NEW m \in Nat, NEW short, NEW long,
         Lists(short, long, m)
  PROVE  \A f \in ArgNames \ {"sync", "release", g} : Filled(a, long, n)[f] = Filled(b, short, n)[f]
  <1> SUFFICES ASSUME NEW f \in ArgNames \ {"sync", "release", g}
               PROVE  Filled(a, long, n)[f] = Filled(b, short, n)[f]
    OBVIOUS
  <1> USE DEF Lists
  <1>0. f \in DOMAIN a /\ f \in DOMAIN b /\ a[f] = b[f] /\ f \notin DOMAIN long[m + 1]
    BY DEF IsArgs, NoFence, SameExcept
  <1>1. CASE \E j \in 1 .. m : f \in DOMAIN short[j] /\ j > n
    <2>0. PICK j \in 1 .. m : f \in DOMAIN short[j] /\ j > n
      BY <1>1
    <2>1. \A i \in DOMAIN short : f \in DOMAIN short[i] <=> i = j
      BY <2>0
    <2>2. \A i \in DOMAIN long : f \in DOMAIN long[i] <=> i = j
      <3> SUFFICES ASSUME NEW i \in 1 .. m + 1 PROVE f \in DOMAIN long[i] <=> i = j
        OBVIOUS
      <3>1. CASE i = m + 1
        BY <1>0, <3>1
      <3>2. CASE i # m + 1
        <4>1. i \in 1 .. m
          BY <3>2
        <4> QED
          BY <2>1, <4>1
      <3> QED
        BY <3>1, <3>2
    <2>3. j \in DOMAIN short /\ j \in DOMAIN long
      BY <2>0
    <2>4. Filled(b, short, n)[f] = short[j][f]
      BY ONLY <1>0, <2>0, <2>1, <2>3 DEF Filled
    <2>5. Filled(a, long, n)[f] = long[j][f]
      BY ONLY <1>0, <2>0, <2>2, <2>3 DEF Filled
    <2> QED
      BY <2>0, <2>4, <2>5
  <1>2. CASE ~\E j \in 1 .. m : f \in DOMAIN short[j] /\ j > n
    <2>1. \A i \in DOMAIN short : ~(i > n /\ f \in DOMAIN short[i])
      BY <1>2
    <2>2. \A i \in DOMAIN long : ~(i > n /\ f \in DOMAIN long[i])
      <3> SUFFICES ASSUME NEW i \in 1 .. m + 1 PROVE ~(i > n /\ f \in DOMAIN long[i])
        OBVIOUS
      <3>1. CASE i = m + 1
        BY <1>0, <3>1
      <3>2. CASE i # m + 1
        <4>1. i \in 1 .. m
          BY <3>2
        <4> QED
          BY <2>1, <4>1
      <3> QED
        BY <3>1, <3>2
    <2> QED
      BY <1>0, <2>1, <2>2, FilledMiss
  <1> QED
    BY <1>1, <1>2

\* A macro's function ignores the fence.
LEMMA NoReleaseAlike ==
  ASSUME NEW a, NEW b, IsArgs(b), Alike(a, b)
  PROVE  Alike(a, NoRelease(b)) /\ IsArgs(NoRelease(b))
  BY DEF Alike, IsArgs, NoRelease

LEMMA MacroAlike ==
  ASSUME NEW a, IsArgs(a), NEW n \in Nat, NEW m \in Nat, NEW short, NEW long, Lists(short, long, m)
  PROVE  Alike(NoRelease(Filled(a, short, n)), Filled(a, long, n)) /\ IsArgs(Filled(a, long, n))
  <1>0. SameExcept(a, a, "release")
    BY DEF SameExcept
  <1>1. \A f \in ArgNames \ {"sync", "release", "release"} : Filled(a, long, n)[f] = Filled(a, short, n)[f]
    BY <1>0, FilledAlike
  <1>2. Alike(Filled(a, long, n), Filled(a, short, n))
    BY <1>1 DEF Alike
  <1>3. IsArgs(Filled(a, short, n)) /\ IsArgs(Filled(a, long, n))
    BY FilledArgs
  <1>4. Alike(Filled(a, long, n), NoRelease(Filled(a, short, n)))
    BY <1>2, <1>3, NoReleaseAlike
  <1> QED
    BY <1>3, <1>4 DEF Alike

LEMMA WaitLists == Lists(<<Wait>>, <<Wait, NoFence>>, 1)
  BY DEF Lists, Wait, NoFence

LEMMA TwoLists ==
  ASSUME NEW o, "sync" \notin DOMAIN o
  PROVE  Lists(<<o, Wait>>, <<o, Wait, NoFence>>, 2)
  <1>1. DOMAIN Wait = {"sync"}
    BY DEF Wait
  <1> QED
    BY <1>1 DEF Lists

LEMMA ResizeLists ==
  Lists(<<[fx |-> 0], [fy |-> 0], [interp |-> DefaultInterp], Wait>>,
        <<[fx |-> 0], [fy |-> 0], [interp |-> DefaultInterp], Wait, NoFence>>, 4)
  BY DEF Lists, Wait, NoFence

\* Where a macro has its own list of counts, and a count of it was given.
LEMMA MacroTwins ==
  ASSUME NEW a, IsArgs(a), NEW n \in 0 .. 1
  PROVE  LET full == Filled(a, <<Wait, NoFence>>, n)
         IN  /\ Work(c_imcopy(n, a)) = Work(imcopy(full))
             /\ Work(c_imcrop(n, a)) = Work(imcrop(full))
             /\ Work(c_imtranslate(n, a)) = Work(imtranslate(full))
             /\ Work(c_imrotate(n, a)) = Work(imrotate(full))
             /\ Work(c_imflip(n, a)) = Work(imflip(full))
             /\ Work(c_imquantize(n, a)) = Work(imquantize(full))
             /\ Work(c_imrop(n, a)) = Work(imrop(full))
             /\ Work(c_imfill(n, a)) = Work(imfill(full))
             /\ Work(c_impalette(n, a)) = Work(impalette(full))
             /\ Work(imosd_c(a)) = Work(imosd(full))
             /\ Work(immosaic_c(a)) = Work(immosaic(full))
  <1> DEFINE full == Filled(a, <<Wait, NoFence>>, n)
             less == NoRelease(Filled(a, <<Wait>>, n))
  <1>1. Alike(less, full) /\ Alike(full, full)
    <2>1. n \in Nat /\ 1 \in Nat
      OBVIOUS
    <2>2. Alike(less, full)
      BY <2>1, WaitLists, MacroAlike
    <2> QED
      BY <2>2 DEF Alike
  <1>2. /\ c_imcopy(n, a) = imcopy(less) /\ c_imcrop(n, a) = imcrop(less)
        /\ c_imtranslate(n, a) = imtranslate(less) /\ c_imrotate(n, a) = imrotate(less)
        /\ c_imflip(n, a) = imflip(less) /\ c_imquantize(n, a) = imquantize(less)
        /\ c_imrop(n, a) = imrop(less) /\ c_imfill(n, a) = imfill(less)
        /\ c_impalette(n, a) = impalette(less)
    <2>1. n \in {0, 1}
      OBVIOUS
    <2> QED
      BY <2>1 DEF c_imcopy, c_imcrop, c_imtranslate, c_imrotate, c_imflip, c_imquantize, c_imrop, c_imfill,
                  c_impalette, Macro, imcopy_t, imcrop_t, imtranslate_t, imrotate_t, imflip_t,
                  imquantize_t, imrop_t, imfill_t, impalette_t
  <1>3. Alike(NoRelease(a), full)
    <2>1. Alike(a, full)
      BY DEF Alike, Filled, Wait, NoFence, IsArgs
    <2>2. Alike(full, NoRelease(a))
      BY <2>1, NoReleaseAlike DEF Alike
    <2> QED
      BY <2>2 DEF Alike
  <1>4. imosd_c(a) = imosd(NoRelease(a)) /\ immosaic_c(a) = immosaic(NoRelease(a))
    BY DEF imosd_c, immosaic_c
  <1> HIDE DEF full, less
  <1>5. /\ Work(imcopy(less)) = Work(imcopy(full)) /\ Work(imcrop(less)) = Work(imcrop(full))
        /\ Work(imtranslate(less)) = Work(imtranslate(full)) /\ Work(imrotate(less)) = Work(imrotate(full))
        /\ Work(imflip(less)) = Work(imflip(full)) /\ Work(imquantize(less)) = Work(imquantize(full))
        /\ Work(imrop(less)) = Work(imrop(full)) /\ Work(impalette(less)) = Work(impalette(full))
    BY <1>1, SingleTwins
  <1>6. Work(imfill(less)) = Work(imfill(full))
    BY <1>1, ImageTwins
  <1>7. /\ Work(imosd(NoRelease(a))) = Work(imosd(full))
        /\ Work(immosaic(NoRelease(a))) = Work(immosaic(full))
    BY <1>1, <1>3, ImageTwins
  <1> QED
    BY <1>2, <1>4, <1>5, <1>6, <1>7 DEF full

LEMMA ResizeMacro ==
  ASSUME NEW a, IsArgs(a), NEW n \in {0, 2, 3, 4}
  PROVE  Work(c_imresize(n, a)) =
           Work(imresize(Filled(a, <<[fx |-> 0], [fy |-> 0], [interp |-> DefaultInterp], Wait, NoFence>>, n)))
  <1> DEFINE full == Filled(a, <<[fx |-> 0], [fy |-> 0], [interp |-> DefaultInterp], Wait, NoFence>>, n)
             less == NoRelease(Filled(a, <<[fx |-> 0], [fy |-> 0], [interp |-> DefaultInterp], Wait>>, n))
  <1>1. Alike(less, full) /\ Alike(full, full)
    <2>1. n \in Nat /\ 4 \in Nat
      OBVIOUS
    <2>2. Alike(less, full)
      BY <2>1, ResizeLists, MacroAlike
    <2> QED
      BY <2>2 DEF Alike
  <1>2. c_imresize(n, a) = imresize(less)
    BY DEF c_imresize, Macro, imresize_t
  <1> HIDE DEF full, less
  <1> QED
    BY <1>1, <1>2, ResizeTwins DEF full

\* The functions with one more default before the wait.
LEMMA CvtMacro ==
  ASSUME NEW a, IsArgs(a), NEW n \in 0 .. 2
  PROVE  Work(c_imcvtcolor(n, a)) =
           Work(imcvtcolor(Filled(a, <<[mode |-> IM_COLOR_SPACE_DEFAULT], Wait, NoFence>>, n)))
  <1> DEFINE full == Filled(a, <<[mode |-> IM_COLOR_SPACE_DEFAULT], Wait, NoFence>>, n)
             less == NoRelease(Filled(a, <<[mode |-> IM_COLOR_SPACE_DEFAULT], Wait>>, n))
  <1>0. n \in {0, 1, 2} /\ n \in Nat /\ 2 \in Nat /\ "sync" \notin DOMAIN [mode |-> IM_COLOR_SPACE_DEFAULT]
    OBVIOUS
  <1>1. Alike(less, full)
    BY <1>0, TwoLists, MacroAlike
  <1>2. c_imcvtcolor(n, a) = imcvtcolor(less)
    BY <1>0 DEF c_imcvtcolor, Macro, imcvtcolor_t
  <1> HIDE DEF full, less
  <1>3. /\ less.src = full.src /\ less.dst = full.dst /\ less.blend = full.blend
        /\ less.sfmt = full.sfmt /\ less.dfmt = full.dfmt /\ less.mode = full.mode
    BY <1>1 DEF Alike, ArgNames
  <1> DEFINE e == Empty(full)
             c == [e EXCEPT !.src.fmt = full.sfmt, !.dst.fmt = full.dfmt,
                            !.dst.csm = IF @ = IM_COLOR_SPACE_DEFAULT THEN full.mode ELSE @]
  <1>4. IsCall(e) /\ Empty(less) = e
    BY <1>3, EmptyIs DEF Empty
  <1>5. imcvtcolor(less) = rga_single_task_submit(less, c) /\ imcvtcolor(full) = rga_single_task_submit(full, c)
    BY <1>3, <1>4 DEF imcvtcolor
  <1> HIDE DEF e
  <1>6. IsCall(c)
    BY <1>4 DEF IsCall, CallFields
  <1> HIDE DEF c
  <1> QED
    BY <1>2, <1>5, <1>6, OneTwin DEF full

LEMMA KeyMacro ==
  ASSUME NEW a, IsArgs(a), NEW n \in 0 .. 2
  PROVE  /\ Work(c_imcolorkey(n, a)) = Work(imcolorkey(Filled(a, <<NormalKey, Wait, NoFence>>, n)))
         /\ Work(c_imgaussianBlur(n, a)) =
              Work(imgaussianBlur(Filled(a, <<[sigma_y |-> 0], Wait, NoFence>>, n)))
         /\ Work(c_imcomposite(n, a)) = Work(imcomposite(Filled(a, <<SrcOver(a), Wait, NoFence>>, n)))
  <1>0. n \in {0, 1, 2} /\ n \in Nat /\ 2 \in Nat
    OBVIOUS
  <1>1. Work(c_imcolorkey(n, a)) = Work(imcolorkey(Filled(a, <<NormalKey, Wait, NoFence>>, n)))
    <2> DEFINE full == Filled(a, <<NormalKey, Wait, NoFence>>, n)
               less == NoRelease(Filled(a, <<NormalKey, Wait>>, n))
    <2>1. "sync" \notin DOMAIN NormalKey
      BY DEF NormalKey
    <2>2. Alike(less, full) /\ Alike(full, full)
      BY <1>0, <2>1, TwoLists, MacroAlike DEF Alike
    <2>3. c_imcolorkey(n, a) = imcolorkey(less)
      BY <1>0 DEF c_imcolorkey, Macro, imcolorkey_t
    <2> HIDE DEF full, less
    <2> QED
      BY <2>2, <2>3, SingleTwins DEF full
  <1>2. Work(c_imgaussianBlur(n, a)) = Work(imgaussianBlur(Filled(a, <<[sigma_y |-> 0], Wait, NoFence>>, n)))
    <2> DEFINE full == Filled(a, <<[sigma_y |-> 0], Wait, NoFence>>, n)
               less == NoRelease(Filled(a, <<[sigma_y |-> 0], Wait>>, n))
    <2>1. "sync" \notin DOMAIN [sigma_y |-> 0]
      OBVIOUS
    <2>2. Alike(less, full) /\ Alike(full, full)
      BY <1>0, <2>1, TwoLists, MacroAlike DEF Alike
    <2>3. c_imgaussianBlur(n, a) = imgaussianBlur(less)
      BY <1>0 DEF c_imgaussianBlur, Macro, imgaussianBlur_t
    <2> HIDE DEF full, less
    <2> QED
      BY <2>2, <2>3, ImageTwins DEF full
  <1>3. Work(c_imcomposite(n, a)) = Work(imcomposite(Filled(a, <<SrcOver(a), Wait, NoFence>>, n)))
    <2> DEFINE full == Filled(a, <<SrcOver(a), Wait, NoFence>>, n)
               less == NoRelease(Filled(a, <<SrcOver(a), Wait>>, n))
    <2>1. "sync" \notin DOMAIN SrcOver(a)
      BY DEF SrcOver
    <2>2. Alike(less, full) /\ Alike(full, full)
      BY <1>0, <2>1, TwoLists, MacroAlike DEF Alike
    <2>3. c_imcomposite(n, a) = imcomposite(less)
      BY <1>0 DEF c_imcomposite, Macro, imblend_t
    <2> HIDE DEF full, less
    <2> QED
      BY <2>2, <2>3, SingleTwins DEF full
  <1> QED
    BY <1>1, <1>2, <1>3

LEMMA BlendMacro ==
  ASSUME NEW a, IsArgs(a), NEW n \in 0 .. 2
  PROVE  Work(c_imblend(n, a)) = Work(imblend(Filled(a, <<SrcOver(a), Wait, NoFence>>, n)))
  <1> DEFINE b == [a EXCEPT !["pat"] = NoBuffer]
             long == <<SrcOver(a), Wait, NoFence>>
             short == <<SrcOver(a), Wait>>
             full == Filled(a, long, n)
             less == Filled(b, short, n)
             y == [full EXCEPT !["pat"] = NoBuffer]
  <1>0. n \in {0, 1, 2} /\ n \in Nat /\ 2 \in Nat /\ "pat" \in ArgNames
    BY DEF ArgNames
  <1>1. Lists(short, long, 2) /\ \A i \in DOMAIN short : "pat" \notin DOMAIN short[i]
    <2>1. DOMAIN SrcOver(a) = {"flags", "blend"} /\ DOMAIN Wait = {"sync"}
      BY DEF SrcOver, Wait
    <2>2. Lists(short, long, 2)
      BY <2>1, TwoLists
    <2> QED
      BY <2>1, <2>2
  <1>2. IsArgs(b) /\ b["pat"] = NoBuffer /\ SameExcept(a, b, "pat")
    BY <1>0 DEF IsArgs, SameExcept
  <1>3. c_imblend(n, a) = imcomposite(NoRelease(less)) /\ imblend(full) = imcomposite(y)
    BY <1>0 DEF c_imblend, imblend, Macro, imblend_t
  <1> HIDE DEF b, long, short
  <1>4. IsArgs(less) /\ IsArgs(full) /\ DOMAIN less = DOMAIN b
    BY <1>2, FilledArgs
  <1>5. \A f \in ArgNames \ {"sync", "release", "pat"} : full[f] = less[f]
    BY <1>0, <1>1, <1>2, FilledAlike
  <1>6. less["pat"] = NoBuffer
    <2>1. "pat" \in DOMAIN b
      BY <1>0, <1>2 DEF IsArgs
    <2>2. less["pat"] = b["pat"]
      BY <1>1, <2>1 DEF Filled
    <2> QED
      BY <1>2, <2>2
  <1> HIDE DEF full, less
  <1>7. \A f \in ArgNames \ {"sync", "release"} : y[f] = less[f]
    BY <1>0, <1>4, <1>5, <1>6 DEF IsArgs
  <1> HIDE DEF y
  <1>8. Alike(y, NoRelease(less))
    BY <1>4, <1>7, NoReleaseAlike DEF Alike
  <1>9. Alike(NoRelease(less), y) /\ Alike(y, y)
    BY <1>8 DEF Alike
  <1>10. Work(imcomposite(NoRelease(less))) = Work(imcomposite(y))
    BY <1>9, SingleTwins
  <1> QED
    BY <1>3, <1>10 DEF full, long

\* The dispatch by name.
LEMMA CppCalls ==
  ASSUME NEW a
  PROVE  /\ cpp_call("imcopy", a) = imcopy(a)
         /\ cpp_call("imresize", a) = imresize(a)
         /\ cpp_call("imcvtcolor", a) = imcvtcolor(a)
         /\ cpp_call("imcrop", a) = imcrop(a)
         /\ cpp_call("imtranslate", a) = imtranslate(a)
         /\ cpp_call("imrotate", a) = imrotate(a)
         /\ cpp_call("imflip", a) = imflip(a)
         /\ cpp_call("imblend", a) = imblend(a)
         /\ cpp_call("imcomposite", a) = imcomposite(a)
         /\ cpp_call("imcolorkey", a) = imcolorkey(a)
         /\ cpp_call("imosd", a) = imosd(a)
         /\ cpp_call("imquantize", a) = imquantize(a)
         /\ cpp_call("imrop", a) = imrop(a)
         /\ cpp_call("immosaic", a) = immosaic(a)
         /\ cpp_call("impalette", a) = impalette(a)
         /\ cpp_call("imgaussianBlur", a) = imgaussianBlur(a)
         /\ cpp_call("imfill", a) = imfill(a)
         /\ cpp_call("imfillArray", a) = imfillArray(a)
         /\ cpp_call("imrectangle", a) = imrectangle(a)
         /\ cpp_call("imrectangleArray", a) = imrectangleArray(a)
         /\ cpp_call("immosaicArray", a) = immosaicArray(a)
         /\ cpp_call("immakeBorder", a) = immakeBorder(a)
  BY DEF cpp_call

LEMMA TaskCalls ==
  ASSUME NEW a
  PROVE  /\ task_call("imcopy", a) = imcopyTask(a)
         /\ task_call("imresize", a) = imresizeTask(a)
         /\ task_call("imcvtcolor", a) = imcvtcolorTask(a)
         /\ task_call("imcrop", a) = imcropTask(a)
         /\ task_call("imtranslate", a) = imtranslateTask(a)
         /\ task_call("imrotate", a) = imrotateTask(a)
         /\ task_call("imflip", a) = imflipTask(a)
         /\ task_call("imblend", a) = imblendTask(a)
         /\ task_call("imcomposite", a) = imcompositeTask(a)
         /\ task_call("imcolorkey", a) = imcolorkeyTask(a)
         /\ task_call("imosd", a) = imosdTask(a)
         /\ task_call("imquantize", a) = imquantizeTask(a)
         /\ task_call("imrop", a) = imropTask(a)
         /\ task_call("immosaic", a) = immosaicTask(a)
         /\ task_call("impalette", a) = impaletteTask(a)
         /\ task_call("imfill", a) = imfillTask(a)
         /\ task_call("imfillArray", a) = imfillTaskArray(a)
         /\ task_call("imrectangle", a) = imrectangleTask(a)
         /\ task_call("imrectangleArray", a) = imrectangleTaskArray(a)
         /\ task_call("immosaicArray", a) = immosaicTaskArray(a)
  BY DEF task_call

LEMMA CCalls ==
  ASSUME NEW n, NEW a
  PROVE  /\ c_call("imcopy", n, a) = c_imcopy(n, a)
         /\ c_call("imresize", n, a) = c_imresize(n, a)
         /\ c_call("imcvtcolor", n, a) = c_imcvtcolor(n, a)
         /\ c_call("imcrop", n, a) = c_imcrop(n, a)
         /\ c_call("imtranslate", n, a) = c_imtranslate(n, a)
         /\ c_call("imrotate", n, a) = c_imrotate(n, a)
         /\ c_call("imflip", n, a) = c_imflip(n, a)
         /\ c_call("imblend", n, a) = c_imblend(n, a)
         /\ c_call("imcomposite", n, a) = c_imcomposite(n, a)
         /\ c_call("imcolorkey", n, a) = c_imcolorkey(n, a)
         /\ c_call("imosd", n, a) = imosd_c(a)
         /\ c_call("imquantize", n, a) = c_imquantize(n, a)
         /\ c_call("imrop", n, a) = c_imrop(n, a)
         /\ c_call("immosaic", n, a) = immosaic_c(a)
         /\ c_call("impalette", n, a) = c_impalette(n, a)
         /\ c_call("imfill", n, a) = c_imfill(n, a)
         /\ c_call("imgaussianBlur", n, a) = c_imgaussianBlur(n, a)
         /\ c_call("immakeBorder", n, a) = immakeBorder_c(a)
  BY DEF c_call

LEMMA OptionalIs ==
  ASSUME NEW a, NEW name
  PROVE  cpp_optional(name, a) =
           IF name = "imresize" THEN <<[fx |-> 0], [fy |-> 0], [interp |-> DefaultInterp], Wait, NoFence>>
           ELSE IF name = "imcvtcolor" THEN <<[mode |-> IM_COLOR_SPACE_DEFAULT], Wait, NoFence>>
           ELSE IF name \in {"imblend", "imcomposite"} THEN <<SrcOver(a), Wait, NoFence>>
           ELSE IF name = "imcolorkey" THEN <<NormalKey, Wait, NoFence>>
           ELSE IF name = "imgaussianBlur" THEN <<[sigma_y |-> 0], Wait, NoFence>>
           ELSE <<Wait, NoFence>>
  BY DEF cpp_optional

\* No default is one of these arguments.
LEMMA OptionalKeeps ==
  ASSUME NEW a, IsArgs(a), NEW name, NEW n, NEW f \in {"dst", "rects"}
  PROVE  Filled(a, cpp_optional(name, a), n)[f] = a[f]
  <1>1. f \in DOMAIN a
    BY DEF IsArgs, ArgNames
  <1>2. \A i \in DOMAIN cpp_optional(name, a) : f \notin DOMAIN cpp_optional(name, a)[i]
    BY OptionalIs DEF Wait, NoFence, SrcOver, NormalKey
  <1> QED
    BY <1>1, <1>2 DEF Filled

\* immakeBorder in C waits.
LEMMA BorderMacro ==
  ASSUME NEW a, IsArgs(a)
  PROVE  immakeBorder_c(a) = immakeBorder(Filled(a, <<Wait, NoFence>>, 0))
  <1> DEFINE full == Filled(a, <<Wait, NoFence>>, 0)
             less == [a EXCEPT !.sync = 1, !.release = FALSE]
  <1>1. full = [f \in DOMAIN a |-> full[f]] /\ less = [f \in DOMAIN a |-> less[f]]
    BY DEF Filled, IsArgs
  <1>2. ASSUME NEW f \in DOMAIN a PROVE full[f] = less[f]
    <2> DEFINE o == <<Wait, NoFence>>
    <2>1. /\ DOMAIN o = {1, 2} /\ DOMAIN o[1] = {"sync"} /\ DOMAIN o[2] = {"release"}
          /\ o[1].sync = 1 /\ o[2].release = FALSE
      BY DEF Wait, NoFence
    <2>2. /\ less["sync"] = 1 /\ less["release"] = FALSE
          /\ f \notin {"sync", "release"} => less[f] = a[f]
      BY DEF IsArgs, ArgNames
    <2>3. full[f] = IF \E i \in DOMAIN o : i > 0 /\ f \in DOMAIN o[i]
                    THEN o[CHOOSE i \in DOMAIN o : i > 0 /\ f \in DOMAIN o[i]][f] ELSE a[f]
      BY DEF Filled
    <2> HIDE DEF o, full, less
    <2>4. CASE f = "sync"
      <3>1. /\ \E i \in DOMAIN o : i > 0 /\ f \in DOMAIN o[i]
            /\ \A i \in DOMAIN o : f \in DOMAIN o[i] => i = 1
        BY <2>1, <2>4
      <3>2. (CHOOSE i \in DOMAIN o : i > 0 /\ f \in DOMAIN o[i]) = 1
        BY <3>1
      <3> QED
        BY <2>1, <2>2, <2>3, <2>4, <3>1, <3>2
    <2>5. CASE f = "release"
      <3>1. /\ \E i \in DOMAIN o : i > 0 /\ f \in DOMAIN o[i]
            /\ \A i \in DOMAIN o : f \in DOMAIN o[i] => i = 2
        BY <2>1, <2>5
      <3>2. (CHOOSE i \in DOMAIN o : i > 0 /\ f \in DOMAIN o[i]) = 2
        BY <3>1
      <3> QED
        BY <2>1, <2>2, <2>3, <2>5, <3>1, <3>2
    <2>6. CASE f \notin {"sync", "release"}
      <3>1. ~\E i \in DOMAIN o : i > 0 /\ f \in DOMAIN o[i]
        BY <2>1, <2>6
      <3> QED
        BY <2>2, <2>3, <2>6, <3>1
    <2> QED
      BY <2>4, <2>5, <2>6
  <1> HIDE DEF full, less
  <1>3. full = less
    BY <1>1, <1>2
  <1> QED
    BY <1>3 DEF immakeBorder_c, full, less

\* The task of a name does the work of the function.
LEMMA TaskTwins ==
  ASSUME NEW a, IsArgs(a), a.dst \in rga_buffer_t, NEW N \in Nat, DOMAIN a.rects = 1 .. N,
         NEW name \in CppNames \ NoTask, name = "imcvtcolor" => a.dst.csm = IM_COLOR_SPACE_DEFAULT
  PROVE  Work(task_call(name, a)) = Work(cpp_call(name, a))
  <1>1. Alike(a, a) /\ \A f \in ArgNames \ {"sync", "release", "rect"} : a[f] = a[f]
    BY DEF Alike
  <1>2. CASE name \in {"imcopy", "imcrop", "imtranslate", "imrotate", "imflip", "imcomposite", "imcolorkey",
                       "imquantize", "imrop", "impalette"}
    BY <1>1, <1>2, SingleTwins, CppCalls, TaskCalls
  <1>3. CASE name \in {"imosd", "immosaic", "imfill"}
    BY <1>1, <1>3, ImageTwins, CppCalls, TaskCalls
  <1>4. CASE name \in {"imfillArray", "immosaicArray"}
    BY <1>1, <1>4, FillArrayTwins, CppCalls, TaskCalls
  <1>5. CASE name = "imrectangle"
    BY <1>1, <1>5, RectangleTwins, CppCalls, TaskCalls
  <1>6. CASE name = "imrectangleArray"
    BY <1>1, <1>6, RectangleArrayTwins, CppCalls, TaskCalls
  <1>7. CASE name = "imblend"
    BY <1>1, <1>7, BlendTwins, CppCalls, TaskCalls
  <1>8. CASE name = "imresize"
    BY <1>1, <1>8, ResizeTwins, CppCalls, TaskCalls
  <1>9. CASE name = "imcvtcolor"
    BY <1>1, <1>9, CvtTwins, CppCalls, TaskCalls
  <1> QED
    BY <1>2, <1>3, <1>4, <1>5, <1>6, <1>7, <1>8, <1>9 DEF CppNames, NoTask

\* And so does the macro, as long as it is not given the fence.
LEMMA CTwins ==
  ASSUME NEW a, IsArgs(a), NEW n \in Nat, NEW name \in CppNames \ NoMacro,
         ~(name = "imresize" /\ n = 1), ~(name = "immakeBorder" /\ n > 0),
         n < Len(cpp_optional(name, a))
  PROVE  Work(c_call(name, n, a)) = Work(cpp_call(name, Filled(a, cpp_optional(name, a), n)))
  <1>1. CASE name \in {"imcopy", "imcrop", "imtranslate", "imrotate", "imflip", "imquantize", "imrop", "imfill",
                       "impalette", "imosd", "immosaic"}
    <2>1. cpp_optional(name, a) = <<Wait, NoFence>> /\ n \in 0 .. 1
      BY SMTT(40), <1>1, OptionalIs
    <2> DEFINE full == Filled(a, <<Wait, NoFence>>, n)
    <2>2. /\ Work(c_imcopy(n, a)) = Work(imcopy(full))
          /\ Work(c_imcrop(n, a)) = Work(imcrop(full))
          /\ Work(c_imtranslate(n, a)) = Work(imtranslate(full))
          /\ Work(c_imrotate(n, a)) = Work(imrotate(full))
          /\ Work(c_imflip(n, a)) = Work(imflip(full))
          /\ Work(c_imquantize(n, a)) = Work(imquantize(full))
          /\ Work(c_imrop(n, a)) = Work(imrop(full))
          /\ Work(c_imfill(n, a)) = Work(imfill(full))
          /\ Work(c_impalette(n, a)) = Work(impalette(full))
          /\ Work(imosd_c(a)) = Work(imosd(full))
          /\ Work(immosaic_c(a)) = Work(immosaic(full))
      BY <2>1, MacroTwins
    <2> HIDE DEF full
    <2>3. Work(c_call(name, n, a)) = Work(cpp_call(name, full))
      BY <1>1, <2>2, CppCalls, CCalls
    <2> QED
      BY <2>1, <2>3 DEF full
  <1>2. CASE name = "imresize"
    <2>0. cpp_optional(name, a) = <<[fx |-> 0], [fy |-> 0], [interp |-> DefaultInterp], Wait, NoFence>>
      BY <1>2, OptionalIs
    <2>1. n \in {0, 2, 3, 4}
      <3>1. Len(cpp_optional(name, a)) = 5
        BY ONLY <2>0
      <3>2. n # 1
        BY <1>2
      <3> QED
        BY <3>1, <3>2
    <2> QED
      BY <1>2, <2>0, <2>1, ResizeMacro, CppCalls, CCalls
  <1>3. CASE name \in {"imcvtcolor", "imblend", "imcomposite", "imcolorkey", "imgaussianBlur"}
    <2>0. \E o : cpp_optional(name, a) = <<o, Wait, NoFence>>
      BY <1>3, OptionalIs
    <2>1. n \in 0 .. 2
      <3>1. Len(cpp_optional(name, a)) = 3
        BY ONLY <2>0
      <3> QED
        BY <3>1
    <2>2. CASE name = "imcvtcolor"
      <3>1. cpp_optional(name, a) = <<[mode |-> IM_COLOR_SPACE_DEFAULT], Wait, NoFence>>
        BY <2>2, OptionalIs
      <3> QED
        BY <2>1, <2>2, <3>1, CvtMacro, CppCalls, CCalls
    <2>3. CASE name = "imblend"
      <3>1. cpp_optional(name, a) = <<SrcOver(a), Wait, NoFence>>
        BY <2>3, OptionalIs
      <3> QED
        BY <2>1, <2>3, <3>1, BlendMacro, CppCalls, CCalls
    <2>4. CASE name = "imcomposite"
      <3>1. cpp_optional(name, a) = <<SrcOver(a), Wait, NoFence>>
        BY <2>4, OptionalIs
      <3> QED
        BY <2>1, <2>4, <3>1, KeyMacro, CppCalls, CCalls
    <2>5. CASE name = "imcolorkey"
      <3>1. cpp_optional(name, a) = <<NormalKey, Wait, NoFence>>
        BY <2>5, OptionalIs
      <3>2. Work(c_imcolorkey(n, a)) = Work(imcolorkey(Filled(a, cpp_optional(name, a), n)))
        BY <2>1, <3>1, KeyMacro
      <3> QED
        BY <2>5, <3>2, CppCalls, CCalls
    <2>6. CASE name = "imgaussianBlur"
      <3>1. cpp_optional(name, a) = <<[sigma_y |-> 0], Wait, NoFence>>
        BY <2>6, OptionalIs
      <3>2. Work(c_imgaussianBlur(n, a)) = Work(imgaussianBlur(Filled(a, cpp_optional(name, a), n)))
        BY <2>1, <3>1, KeyMacro
      <3> QED
        BY <2>6, <3>2, CppCalls, CCalls
    <2> QED
      BY <1>3, <2>2, <2>3, <2>4, <2>5, <2>6
  <1>4. CASE name = "immakeBorder"
    <2>1. n = 0 /\ cpp_optional(name, a) = <<Wait, NoFence>>
      BY <1>4, OptionalIs
    <2> QED
      BY <1>4, <2>1, BorderMacro, CppCalls, CCalls
  <1> QED
    BY <1>1, <1>2, <1>3, <1>4 DEF CppNames, NoMacro

\* The running call is one the application makes.
ApiInv ==
  api # NoApi => /\ {"name", "given", "args"} \subseteq DOMAIN api
                 /\ \E k \in ApiCalls : api.name = k.name /\ api.given = k.given /\ api.args = k.args

LEMMA SpecApiInv == ApiSpec => []ApiInv
  <1>1. ApiInit => ApiInv
    BY DEF ApiInit, ApiInv
  <1>2. ApiInv /\ [ApiNext]_apiVars => ApiInv'
    <2> SUFFICES ASSUME ApiInv, [ApiNext]_apiVars PROVE ApiInv'
      OBVIOUS
    <2>1. CASE api' = api
      BY <2>1 DEF ApiInv
    <2>2. CASE ApiBegin
      <3>1. PICK k \in ApiCalls : api' = [name |-> k.name, via |-> k.via, given |-> k.given, args |-> k.args,
                                         todo |-> Plan(k).parts, done |-> <<>>, fenced |-> TRUE,
                                         result |-> IF Plan(k).parts = <<>> THEN Plan(k).status ELSE "NONE"]
        BY <2>2 DEF ApiBegin
      <3>2. /\ {"name", "given", "args"} \subseteq DOMAIN api'
            /\ api'.name = k.name /\ api'.given = k.given /\ api'.args = k.args
        BY <3>1
      <3> QED
        BY <3>2 DEF ApiInv
    <2>3. CASE ApiPartFails \/ ApiPartDone
      <3>1. api # NoApi /\ \E s, t, d, f : \/ api' = [api EXCEPT !.result = s]
                                           \/ api' = [api EXCEPT !.todo = t, !.done = d, !.fenced = f, !.result = s]
        <4>1. CASE ApiPartFails
          BY <4>1 DEF ApiPartFails, Running
        <4>2. CASE ApiPartDone
          <5>1. PICK fenced : api' = AfterPart(fenced)
            BY <4>2 DEF ApiPartDone
          <5> QED
            BY Zenon, <4>2, <5>1 DEF AfterPart, ApiPartDone, Running
        <4> QED
          BY <2>3, <4>1, <4>2
      <3>2. \A g \in {"name", "given", "args"} : g \in DOMAIN api' /\ api'[g] = api[g]
        BY <3>1 DEF ApiInv
      <3> QED
        BY <3>1, <3>2 DEF ApiInv
    <2>4. CASE ApiReturn
      BY <2>4 DEF ApiReturn, ApiInv
    <2> QED
      BY <2>1, <2>2, <2>3, <2>4 DEF ApiNext, ApiSubmit, ApiProcess, apiVars
  <1> QED
    BY <1>1, <1>2, PTL DEF ApiSpec

\* The functions of im2d.cpp, the tasks and the macros of im2d_single.h are
\* copies of each other (im2d.cpp 901-1472 and 1683-2014): for every call an
\* application makes they submit the same work, rectangle for rectangle, or refuse
\* alike, but for the exceptions TwinsAgree names.
THEOREM CopiesAgree == ApiSpec => []TwinsAgree
  <1>1. ApiInv => TwinsAgree
    <2> SUFFICES ASSUME ApiInv, api # NoApi, api.name \notin COnly
                 PROVE  LET full == Filled(api.args, cpp_optional(api.name, api.args), api.given)
                            plan == Work(cpp_call(api.name, full))
                        IN  /\ \/ api.name \in NoTask
                               \/ api.name = "imcvtcolor" /\ full.dst.csm # IM_COLOR_SPACE_DEFAULT
                               \/ Work(task_call(api.name, full)) = plan
                            /\ \/ api.name \in NoMacro
                               \/ api.name = "imresize" /\ api.given = 1
                               \/ api.given >= Len(cpp_optional(api.name, api.args))
                               \/ api.name = "immakeBorder" /\ api.given > 0
                               \/ Work(c_call(api.name, api.given, api.args)) = plan
      BY DEF TwinsAgree
    <2> DEFINE a == api.args
               n == api.given
               name == api.name
               full == Filled(a, cpp_optional(name, a), n)
    <2>1. name \in CppNames /\ n \in Nat /\ IsArgs(a) /\ a.dst \in rga_buffer_t /\ a.rects \in Seq(im_rect)
      BY ApiCallsAssumption DEF ApiInv, IsArgs
    <2>2. IsArgs(full) /\ full.dst = a.dst /\ full.rects = a.rects
      BY <2>1, FilledArgs, OptionalKeeps
    <2>3. Len(a.rects) \in Nat /\ DOMAIN a.rects = 1 .. Len(a.rects)
      BY <2>1
    <2>4. Len(cpp_optional(name, a)) \in Nat
      BY OptionalIs
    <2> HIDE DEF a, n, name, full
    <2>5. \/ name \in NoTask
          \/ name = "imcvtcolor" /\ full.dst.csm # IM_COLOR_SPACE_DEFAULT
          \/ Work(task_call(name, full)) = Work(cpp_call(name, full))
      BY <2>1, <2>2, <2>3, TaskTwins
    <2>6. \/ name \in NoMacro
          \/ name = "imresize" /\ n = 1
          \/ n >= Len(cpp_optional(name, a))
          \/ name = "immakeBorder" /\ n > 0
          \/ Work(c_call(name, n, a)) = Work(cpp_call(name, full))
      BY <2>1, <2>4, CTwins DEF full
    <2> QED
      BY <2>5, <2>6 DEF a, n, name, full
  <1> QED
    BY <1>1, SpecApiInv, PTL

-----------------------------------------------------------------------------
(* Frames and borders                                                      *)

\* The request a part becomes when it is accepted, as far as a picture depends on
\* it: its windows are the rectangles of the call (RequestDraws below).
Flipped(usage) == IF "FLIP_H" \in usage THEN "FLIP_H" ELSE IF "FLIP_V" \in usage THEN "FLIP_V" ELSE "NONE"
Carried(part) ==
  [from |-> part.from,
   req |-> [kind |-> IF "COLOR_FILL" \in part.call.usage THEN "fill" ELSE "blit",
            flip |-> Flipped(part.call.usage),
            src |-> IF part.call.srect = NoRect THEN RectOf(0, 0, part.call.src.w, part.call.src.h)
                    ELSE part.call.srect,
            dst |-> part.call.drect]]

LEMMA FillOf ==
  ASSUME NEW a
  PROVE  \E p : imfill(a).parts = <<p>> /\ p.call.drect = a.rect
  <1> DEFINE e == empty_structure(NoBuffer, a.dst, a.blend)
             c == [e EXCEPT !.drect = a.rect, !.usage = {"COLOR_FILL"}]
             d == [c EXCEPT !.usage = @ \cup (IF a.sync = 0 THEN {"ASYNC"} ELSE {}), !.release = a.release]
  <1>1. imfill(a) = Draws(<<Part(d, "src")>>)
    BY DEF imfill, rga_single_task_submit
  <1>2. IsCall(e)
    BY EmptyIs
  <1> HIDE DEF e
  <1>3. d.drect = a.rect
    BY <1>2 DEF IsCall, CallFields
  <1>4. Part(d, "src").call = d
    BY DEF Part
  <1>5. imfill(a).parts = <<Part(d, "src")>>
    BY <1>1, OnePart
  <1> HIDE DEF d
  <1> QED
    BY <1>3, <1>4, <1>5

\* The four bars make the frame and nothing else, at every size and thickness.
LEMMA BarsAreFrame ==
  ASSUME NEW r \in im_rect, NEW t \in Nat, 2 * t <= r.w, 2 * t <= r.h, NEW x \in Int, NEW y \in Int
  PROVE  (\E i \in 1 .. 4 : Inside(<<x, y>>, Bars(r, t)[i])) <=> InFrame(<<x, y>>, r, t)
  <1>1. r.x \in Int /\ r.y \in Int /\ r.w \in Int /\ r.h \in Int
    BY DEF im_rect
  <1>2. /\ Bars(r, t)[1] = RectOf(r.x, r.y, r.w, t) /\ Bars(r, t)[2] = RectOf(r.x, r.y + r.h - t, r.w, t)
        /\ Bars(r, t)[3] = RectOf(r.x, r.y + t, t, r.h - 2 * t)
        /\ Bars(r, t)[4] = RectOf(r.x + r.w - t, r.y + t, t, r.h - 2 * t)
    BY DEF Bars
  <1>4. Inside(<<x, y>>, r) <=> x \in r.x .. r.x + r.w - 1 /\ y \in r.y .. r.y + r.h - 1
    BY DEF Inside
  <1>5. /\ Inside(<<x, y>>, Bars(r, t)[1]) <=> x \in r.x .. r.x + r.w - 1 /\ y \in r.y .. r.y + t - 1
        /\ Inside(<<x, y>>, Bars(r, t)[2]) <=>
             x \in r.x .. r.x + r.w - 1 /\ y \in r.y + r.h - t .. r.y + r.h - t + t - 1
        /\ Inside(<<x, y>>, Bars(r, t)[3]) <=>
             x \in r.x .. r.x + t - 1 /\ y \in r.y + t .. r.y + t + (r.h - 2 * t) - 1
        /\ Inside(<<x, y>>, Bars(r, t)[4]) <=>
             x \in r.x + r.w - t .. r.x + r.w - t + t - 1 /\ y \in r.y + t .. r.y + t + (r.h - 2 * t) - 1
    BY <1>1, <1>2 DEF Inside, RectOf
  <1>6. Inside(<<x, y>>, Inner(r, t)) <=>
          /\ x \in r.x + t .. r.x + t + (r.w - 2 * t) - 1 /\ y \in r.y + t .. r.y + t + (r.h - 2 * t) - 1
    BY <1>1 DEF Inner, Inside, RectOf
  <1>7. (\E i \in 1 .. 4 : Inside(<<x, y>>, Bars(r, t)[i])) <=>
          \/ Inside(<<x, y>>, Bars(r, t)[1]) \/ Inside(<<x, y>>, Bars(r, t)[2])
          \/ Inside(<<x, y>>, Bars(r, t)[3]) \/ Inside(<<x, y>>, Bars(r, t)[4])
    <2>1. 1 .. 4 = {1, 2, 3, 4}
      OBVIOUS
    <2> QED
      BY <2>1
  <1> QED
    BY <1>1, <1>4, <1>5, <1>6, <1>7 DEF InFrame

\* An array of single submissions, in its order.
LEMMA ArrayParts ==
  ASSUME NEW N \in Nat, NEW plans, Len(plans) = N, NEW p, p = [i \in 1 .. N |-> p[i]],
         \A i \in 1 .. N : plans[i].parts = <<p[i]>>
  PROVE  Together(plans).parts = p
  <1> DEFINE P == PartsUpTo(plans)
             S == {p[i] : i \in 1 .. N}
             First(n) == [i \in 1 .. n |-> p[i]]
             Good == {n \in 0 .. N : P[n] = First(n)}
  <1>1. P = [n \in 0 .. N |-> IF n = 0 THEN <<>> ELSE P[n - 1] \o plans[n].parts]
    BY PartsUpToIs
  <1> HIDE DEF P
  <1>2. 0 \in Good
    BY <1>1
  <1>3. ASSUME NEW n \in 0 .. N, n < N, n \in Good PROVE n + 1 \in Good
    <2>1. n + 1 \in 1 .. N /\ n + 1 \in 0 .. N /\ n + 1 - 1 = n /\ n + 1 # 0
      BY <1>3
    <2>2. P[n + 1] = P[n] \o plans[n + 1].parts
      BY <1>1, <2>1
    <2>3. P[n + 1] = First(n) \o <<p[n + 1]>>
      BY <1>3, <2>1, <2>2
    <2>4. /\ First(n) \in Seq(S) /\ Len(First(n)) = n /\ <<p[n + 1]>> \in Seq(S)
          /\ Len(<<p[n + 1]>>) = 1 /\ <<p[n + 1]>>[1] = p[n + 1]
      <3>1. n \in Nat /\ First(n) \in [1 .. n -> S]
        OBVIOUS
      <3>2. p[n + 1] \in S
        BY <2>1
      <3> HIDE DEF S, First
      <3>3. First(n) \in Seq(S) /\ Len(First(n)) = n
        BY <3>1
      <3> QED
        BY <3>2, <3>3
    <2> HIDE DEF S
    <2>5. P[n + 1] \in Seq(S) /\ Len(P[n + 1]) = n + 1
      BY <2>3, <2>4
    <2>6. ASSUME NEW i \in 1 .. n + 1 PROVE P[n + 1][i] = p[i]
      <3>1. CASE i <= n
        BY <2>3, <2>4, <3>1
      <3>2. CASE i = n + 1
        BY <2>3, <2>4, <3>2
      <3> QED
        BY <3>1, <3>2
    <2>7. P[n + 1] = [i \in 1 .. n + 1 |-> P[n + 1][i]]
      <3>1. \A s \in Seq(S) : s = [i \in 1 .. Len(s) |-> s[i]]
        OBVIOUS
      <3> QED
        BY <2>5, <3>1
    <2>8. P[n + 1] = First(n + 1)
      BY <2>6, <2>7
    <2> QED
      BY <2>1, <2>8
  <1> HIDE DEF Good
  <1>4. 0 .. N \subseteq Good
    BY <1>2, <1>3, UpTo
  <1>5. P[N] = p
    BY <1>4 DEF Good
  <1> QED
    BY <1>5 DEF Together, Draws, P

LEMMA FillArrayParts ==
  ASSUME NEW a, IsArgs(a), NEW N \in Nat, DOMAIN a.rects = 1 .. N
  PROVE  /\ DOMAIN imfillArray(a).parts = 1 .. N
         /\ \A i \in 1 .. N : imfillArray(a).parts[i].call.drect = a.rects[i]
  <1> DEFINE plans == [i \in 1 .. N |-> imfill([a EXCEPT !.rect = a.rects[i]])]
             p == [i \in 1 .. N |-> plans[i].parts[1]]
  <1>1. imfillArray(a) = Together(plans) /\ Len(plans) = N
    BY DEF imfillArray
  <1>2. ASSUME NEW i \in 1 .. N PROVE plans[i].parts = <<p[i]>> /\ p[i].call.drect = a.rects[i]
    <2>1. plans[i] = imfill([a EXCEPT !.rect = a.rects[i]]) /\ [a EXCEPT !.rect = a.rects[i]].rect = a.rects[i]
      BY DEF IsArgs, ArgNames
    <2>2. PICK s : plans[i].parts = <<s>> /\ s.call.drect = a.rects[i]
      BY <2>1, FillOf
    <2>3. p[i] = plans[i].parts[1]
      OBVIOUS
    <2> HIDE DEF p, plans
    <2> QED
      BY <2>2, <2>3
  <1>3. p = [i \in 1 .. N |-> p[i]] /\ DOMAIN p = 1 .. N
    OBVIOUS
  <1> HIDE DEF p, plans
  <1>4. Together(plans).parts = p
    BY <1>1, <1>2, <1>3, ArrayParts
  <1> QED
    BY <1>1, <1>2, <1>3, <1>4

\* imrectangle draws the frame its arguments describe and not a pixel more: the
\* windows of its submissions cover exactly the pixels of the rectangle that are
\* within the thickness of an edge, or all of them when the thickness is negative
\* (im2d.cpp 1434-1448), at every place and size and every thickness of which twice
\* fits the rectangle.
THEOREM FrameIsDrawn ==
  ASSUME NEW a, IsArgs(a), a.rect \in im_rect, a.thickness \in Int,
         2 * a.thickness <= a.rect.w, 2 * a.thickness <= a.rect.h, NEW x \in Int, NEW y \in Int
  PROVE  (\E i \in DOMAIN imrectangle(a).parts : Inside(<<x, y>>, imrectangle(a).parts[i].call.drect))
           <=> InFrame(<<x, y>>, a.rect, a.thickness)
  <1>1. CASE a.thickness < 0
    <2>1. imrectangle(a) = imfill(a)
      BY <1>1 DEF imrectangle
    <2>2. PICK p : imfill(a).parts = <<p>> /\ p.call.drect = a.rect
      BY FillOf
    <2> QED
      BY <1>1, <2>1, <2>2 DEF InFrame
  <1>2. CASE ~(a.thickness < 0)
    <2> DEFINE bars == Bars(a.rect, a.thickness)
               b == [a EXCEPT !["rects"] = bars]
    <2>1. imrectangle(a) = imfillArray(b)
      BY <1>2 DEF imrectangle, Bars
    <2>2. IsArgs(b) /\ b.rects = bars /\ DOMAIN bars = 1 .. 4
      BY DEF IsArgs, ArgNames, Bars
    <2> HIDE DEF bars, b
    <2>3. /\ DOMAIN imrectangle(a).parts = 1 .. 4
          /\ \A i \in 1 .. 4 : imrectangle(a).parts[i].call.drect = bars[i]
      BY <2>1, <2>2, FillArrayParts
    <2>4. (\E i \in DOMAIN imrectangle(a).parts : Inside(<<x, y>>, imrectangle(a).parts[i].call.drect))
            <=> \E i \in 1 .. 4 : Inside(<<x, y>>, bars[i])
      BY <2>3
    <2>5. a.thickness \in Nat
      BY <1>2
    <2> QED
      BY <2>4, <2>5, BarsAreFrame DEF bars
  <1> QED
    BY <1>1, <1>2

\* z is s and then t.
JoinOf(S, z, s, t, m, n) ==
  /\ z \in Seq(S) /\ Len(z) = m + n /\ \A i \in 1 .. m : z[i] = s[i]
  /\ \A i \in m + 1 .. m + n : z[i] = t[i - m]

LEMMA JoinAt ==
  ASSUME NEW S, NEW s \in Seq(S), NEW t \in Seq(S), NEW m, Len(s) = m, NEW n, Len(t) = n
  PROVE  JoinOf(S, s \o t, s, t, m, n)
  BY DEF JoinOf

LEMMA FiveParts ==
  ASSUME NEW c, NEW t, NEW b, NEW l, NEW r
  PROVE  LET s == <<c>> \o ((<<t>> \o <<b>>) \o <<l, r>>)
             u == <<c>> \o (((<<t>> \o <<b>>) \o <<l>>) \o <<r>>)
         IN  /\ Len(s) = 5 /\ s[1] = c /\ s[2] = t /\ s[3] = b /\ s[4] = l /\ s[5] = r
             /\ Len(u) = 5 /\ u[1] = c /\ u[2] = t /\ u[3] = b /\ u[4] = l /\ u[5] = r
  <1> DEFINE S == {c, t, b, l, r}
             tb == <<t>> \o <<b>>
             lr == <<l, r>>
             s4 == tb \o lr
             u3 == tb \o <<l>>
             u4 == u3 \o <<r>>
  <1>1. /\ <<c>> \in Seq(S) /\ <<t>> \in Seq(S) /\ <<b>> \in Seq(S) /\ <<l>> \in Seq(S) /\ <<r>> \in Seq(S)
        /\ Len(<<c>>) = 1 /\ <<c>>[1] = c /\ Len(<<l>>) = 1 /\ <<l>>[1] = l /\ Len(<<r>>) = 1 /\ <<r>>[1] = r
        /\ lr \in Seq(S) /\ Len(lr) = 2 /\ lr[1] = l /\ lr[2] = r
    OBVIOUS
  <1>2. tb \in Seq(S) /\ Len(tb) = 2 /\ tb[1] = t /\ tb[2] = b
    BY <1>1
  <1> HIDE DEF S, tb, lr
  <1>3. s4 \in Seq(S) /\ Len(s4) = 4 /\ s4[1] = t /\ s4[2] = b /\ s4[3] = l /\ s4[4] = r
    <2>1. JoinOf(S, s4, tb, lr, 2, 2)
      BY <1>1, <1>2, JoinAt
    <2> HIDE DEF s4
    <2> QED
      BY <1>1, <1>2, <2>1 DEF JoinOf
  <1>4. u3 \in Seq(S) /\ Len(u3) = 3 /\ u3[1] = t /\ u3[2] = b /\ u3[3] = l
    <2>1. JoinOf(S, u3, tb, <<l>>, 2, 1)
      BY <1>1, <1>2, JoinAt
    <2> HIDE DEF u3
    <2> QED
      BY <1>1, <1>2, <2>1 DEF JoinOf
  <1> HIDE DEF s4, u3
  <1>5. u4 \in Seq(S) /\ Len(u4) = 4 /\ u4[1] = t /\ u4[2] = b /\ u4[3] = l /\ u4[4] = r
    <2>1. JoinOf(S, u4, u3, <<r>>, 3, 1)
      BY <1>1, <1>4, JoinAt
    <2> HIDE DEF u4
    <2> QED
      BY <1>1, <1>4, <2>1 DEF JoinOf
  <1> HIDE DEF u4
  <1> DEFINE s5 == <<c>> \o s4  u5 == <<c>> \o u4
  <1>6. s5 \in Seq(S) /\ Len(s5) = 5 /\ s5[1] = c /\ s5[2] = t /\ s5[3] = b /\ s5[4] = l /\ s5[5] = r
    <2>1. JoinOf(S, s5, <<c>>, s4, 1, 4)
      BY <1>1, <1>3, JoinAt
    <2> HIDE DEF s5
    <2> QED
      BY <1>1, <1>3, <2>1 DEF JoinOf
  <1>7. u5 \in Seq(S) /\ Len(u5) = 5 /\ u5[1] = c /\ u5[2] = t /\ u5[3] = b /\ u5[4] = l /\ u5[5] = r
    <2>1. JoinOf(S, u5, <<c>>, u4, 1, 4)
      BY <1>1, <1>5, JoinAt
    <2> HIDE DEF u5
    <2> QED
      BY <1>1, <1>5, <2>1 DEF JoinOf
  <1> QED
    BY <1>6, <1>7 DEF s4, u4, u3, tb, lr, s5, u5

\* Arguments of immakeBorder: an image and a border on every side that is no wider
\* than the image.
Bordering(a) ==
  /\ IsArgs(a) /\ a.sync = 1
  /\ a.src.w \in Nat /\ a.src.h \in Nat
  /\ a.border.top \in 1 .. a.src.h /\ a.border.bottom \in 1 .. a.src.h
  /\ a.border.left \in 1 .. a.src.w /\ a.border.right \in 1 .. a.src.w
  /\ a.dst.w = a.src.w + a.border.left + a.border.right
  /\ a.dst.h = a.src.h + a.border.top + a.border.bottom
  /\ a.border.type \in {"CONSTANT", "REFLECT", "WRAP"}

CopyPart(a) ==
  Part([Empty(a) EXCEPT !.opt = NullOpt, !.usage = {"ASYNC"}, !.release = TRUE,
                        !.drect = RectOf(a.border.left, a.border.top, a.src.w, a.src.h)], "src")
FillPart(a, side) ==
  Part([empty_structure(NoBuffer, a.dst, a.blend)
          EXCEPT !.drect = border_rect(a)[side], !.usage = {"COLOR_FILL"}], "src")
SidePart(a, side) == IF a.border.type = "CONSTANT" THEN FillPart(a, side) ELSE BorderPart(a, side)

LEMMA BorderParts ==
  ASSUME NEW a, Bordering(a)
  PROVE  LET p == immakeBorder(a).parts
         IN  /\ Len(p) = 5 /\ p[1] = CopyPart(a) /\ p[2] = SidePart(a, "top") /\ p[3] = SidePart(a, "bottom")
             /\ p[4] = SidePart(a, "left") /\ p[5] = SidePart(a, "right")
  <1>1. /\ a.border.top # 0 /\ a.border.bottom # 0 /\ a.border.left # 0 /\ a.border.right # 0
        /\ ~(a.src.w + a.border.left + a.border.right # a.dst.w)
        /\ ~(a.src.h + a.border.top + a.border.bottom # a.dst.h) /\ a.sync = 1
    BY DEF Bordering
  <1>2. CASE a.border.type = "CONSTANT"
    <2>1. ASSUME NEW side PROVE imfillTask([a EXCEPT !.rect = border_rect(a)[side]]).parts = <<FillPart(a, side)>>
      <3> DEFINE b == [a EXCEPT !.rect = border_rect(a)[side]]
      <3>1. b.rect = border_rect(a)[side] /\ b.dst = a.dst /\ b.blend = a.blend
        BY DEF Bordering, IsArgs, ArgNames
      <3> HIDE DEF b
      <3>2. imfillTask(b) = Draws(<<FillPart(a, side)>>)
        BY <3>1 DEF imfillTask, improcessTask, FillPart
      <3> QED
        BY <3>2 DEF Draws, b
    <2>2. immakeBorder(a) = Draws(<<CopyPart(a)>> \o
            (((<<FillPart(a, "top")>> \o <<FillPart(a, "bottom")>>) \o <<FillPart(a, "left")>>)
               \o <<FillPart(a, "right")>>))
      BY <1>1, <1>2, <2>1 DEF immakeBorder, CopyPart
    <2> QED
      BY <1>2, <2>2, FiveParts DEF SidePart, Draws
  <1>3. CASE a.border.type \in {"REFLECT", "WRAP"}
    <2>1. immakeBorder(a) = Draws(<<CopyPart(a)>> \o
            ((<<BorderPart(a, "top")>> \o <<BorderPart(a, "bottom")>>)
               \o <<BorderPart(a, "left"), BorderPart(a, "right")>>))
      BY <1>1, <1>3 DEF immakeBorder, CopyPart
    <2> QED
      BY <1>3, <2>1, FiveParts DEF SidePart, Draws
  <1> QED
    BY <1>2, <1>3 DEF Bordering

LEMMA CarriedCopy ==
  ASSUME NEW a, Bordering(a)
  PROVE  LET p == Carried(CopyPart(a))
         IN  /\ p.from = "src" /\ p.req.kind # "fill" /\ p.req.flip = "NONE"
             /\ p.req.src = RectOf(0, 0, a.src.w, a.src.h)
             /\ p.req.dst = RectOf(a.border.left, a.border.top, a.src.w, a.src.h)
  <1> DEFINE e == Empty(a)
             c == [e EXCEPT !.opt = NullOpt, !.usage = {"ASYNC"}, !.release = TRUE,
                            !.drect = RectOf(a.border.left, a.border.top, a.src.w, a.src.h)]
  <1>1. IsCall(e) /\ e.srect = NoRect /\ e.src = a.src
    BY EmptyIs DEF Empty, empty_structure
  <1>2. CopyPart(a) = Part(c, "src")
    BY DEF CopyPart
  <1>3. Part(c, "src").call = c /\ Part(c, "src").from = "src"
    BY DEF Part
  <1> HIDE DEF e
  <1>4. /\ c.usage = {"ASYNC"} /\ c.srect = NoRect /\ c.src = a.src
        /\ c.drect = RectOf(a.border.left, a.border.top, a.src.w, a.src.h)
    BY <1>1 DEF IsCall, CallFields
  <1> HIDE DEF c
  <1> QED
    BY <1>2, <1>3, <1>4 DEF Carried, Flipped

LEMMA CarriedFill ==
  ASSUME NEW a, Bordering(a), NEW side
  PROVE  Carried(FillPart(a, side)).req.kind = "fill" /\ Carried(FillPart(a, side)).req.dst = border_rect(a)[side]
  <1> DEFINE e == empty_structure(NoBuffer, a.dst, a.blend)
             c == [e EXCEPT !.drect = border_rect(a)[side], !.usage = {"COLOR_FILL"}]
  <1>1. IsCall(e)
    BY EmptyIs
  <1>2. FillPart(a, side) = Part(c, "src") /\ Part(c, "src").call = c
    BY DEF FillPart, Part
  <1> HIDE DEF e
  <1>3. c.drect = border_rect(a)[side] /\ c.usage = {"COLOR_FILL"}
    BY <1>1 DEF IsCall, CallFields
  <1> HIDE DEF c
  <1> QED
    BY <1>2, <1>3 DEF Carried

Across(side) == side \in {"top", "bottom"}
LEMMA CarriedBorder ==
  ASSUME NEW a, Bordering(a), NEW side \in {"top", "bottom", "left", "right"}, border_src_rect(a)[side] # NoRect
  PROVE  LET p == Carried(BorderPart(a, side))
         IN  /\ p.from = (IF Across(side) THEN "src" ELSE "dst") /\ p.req.kind # "fill"
             /\ p.req.flip = IF a.border.type # "REFLECT" THEN "NONE"
                             ELSE IF Across(side) THEN "FLIP_V" ELSE "FLIP_H"
             /\ p.req.src = border_src_rect(a)[side] /\ p.req.dst = border_rect(a)[side]
  <1> DEFINE flip == IF Across(side) THEN "FLIP_V" ELSE "FLIP_H"
             usage == IF a.border.type = "REFLECT" THEN {flip} ELSE {}
             from == IF Across(side) THEN "src" ELSE "dst"
             e == empty_structure(IF Across(side) THEN a.src ELSE a.dst, a.dst, a.blend)
             c == [e EXCEPT !.opt = NullOpt, !.srect = border_src_rect(a)[side],
                            !.drect = border_rect(a)[side], !.usage = usage]
  <1>1. IsCall(e)
    BY EmptyIs
  <1>2. BorderPart(a, side) = Part(c, from)
    BY DEF BorderPart, Across
  <1>3. Part(c, from).call = c /\ Part(c, from).from = from
    BY DEF Part
  <1> HIDE DEF e
  <1>4. /\ c.usage = usage /\ c.srect = border_src_rect(a)[side] /\ c.drect = border_rect(a)[side]
    BY <1>1 DEF IsCall, CallFields
  <1>5. Flipped(usage) = (IF a.border.type # "REFLECT" THEN "NONE" ELSE flip) /\ "COLOR_FILL" \notin usage
    BY DEF Flipped
  <1> HIDE DEF c, usage, from
  <1>6. /\ Carried(BorderPart(a, side)).from = from /\ Carried(BorderPart(a, side)).req.kind # "fill"
        /\ Carried(BorderPart(a, side)).req.flip = Flipped(usage)
        /\ Carried(BorderPart(a, side)).req.src = border_src_rect(a)[side]
        /\ Carried(BorderPart(a, side)).req.dst = border_rect(a)[side]
    BY <1>2, <1>3, <1>4, <1>5 DEF Carried
  <1> QED
    BY <1>5, <1>6 DEF from

LEMMA BorderNumbers ==
  ASSUME NEW a, Bordering(a)
  PROVE  LET b == a.border  w == a.src.w  h == a.src.h  r == border_rect(a)  s == border_src_rect(a)
             H == h + b.top + b.bottom
         IN  /\ r.top = RectOf(b.left, 0, w, b.top) /\ r.bottom = RectOf(b.left, h + b.top, w, b.bottom)
             /\ r.left = RectOf(0, 0, b.left, H) /\ r.right = RectOf(w + b.left, 0, b.right, H)
             /\ b.type = "REFLECT" =>
                  /\ s.top = RectOf(0, 0, w, b.top) /\ s.bottom = RectOf(0, h - b.bottom, w, b.bottom)
                  /\ s.left = RectOf(b.left, 0, b.left, H)
                  /\ s.right = RectOf(w + b.left - b.right, 0, b.right, H)
             /\ b.type # "REFLECT" =>
                  /\ s.top = RectOf(0, h - b.top, w, b.top) /\ s.bottom = RectOf(0, 0, w, b.bottom)
                  /\ s.left = RectOf(w + b.left - b.left, 0, b.left, H)
                  /\ s.right = RectOf(b.left, 0, b.right, H)
  <1> DEFINE b == a.border  w == a.src.w  h == a.src.h  r == border_rect(a)  s == border_src_rect(a)
             H == h + b.top + b.bottom
  <1>1. /\ r.top = RectOf(b.left, 0, w, b.top) /\ r.bottom = RectOf(b.left, h + b.top, w, b.bottom)
        /\ r.left = RectOf(0, 0, b.left, H) /\ r.right = RectOf(w + b.left, 0, b.right, H)
    BY DEF border_rect
  <1>0. w \in Int /\ h \in Int /\ b.left \in Int /\ b.right \in Int /\ b.top \in Int /\ b.bottom \in Int
    BY DEF Bordering
  <1>2. r.left.h = H /\ r.right.h = H /\ r.right.x = w + b.left
    BY <1>1 DEF RectOf
  <1>3. ASSUME b.type = "REFLECT"
        PROVE  /\ s.top = RectOf(0, 0, w, b.top) /\ s.bottom = RectOf(0, h - b.bottom, w, b.bottom)
               /\ s.left = RectOf(b.left, 0, b.left, H)
               /\ s.right = RectOf(w + b.left - b.right, 0, b.right, H)
    <2>1. s = [top |-> RectOf(0, 0, w, b.top), bottom |-> RectOf(0, h - b.bottom, w, b.bottom),
               left |-> RectOf(b.left, 0, b.left, r.left.h),
               right |-> RectOf(r.right.x - b.right, 0, b.right, r.right.h)]
      BY <1>3 DEF border_src_rect
    <2> HIDE DEF s, r, b, w, h, H
    <2>2. /\ s.top = RectOf(0, 0, w, b.top) /\ s.bottom = RectOf(0, h - b.bottom, w, b.bottom)
          /\ s.left = RectOf(b.left, 0, b.left, r.left.h)
          /\ s.right = RectOf(r.right.x - b.right, 0, b.right, r.right.h)
      BY <2>1
    <2>3. s.left = RectOf(b.left, 0, b.left, H)
      BY <1>2, <2>2
    <2>4. s.right = RectOf(w + b.left - b.right, 0, b.right, H)
      BY <1>0, <1>2, <2>2
    <2> QED
      BY <2>2, <2>3, <2>4
  <1>4. ASSUME b.type # "REFLECT"
        PROVE  /\ s.top = RectOf(0, h - b.top, w, b.top) /\ s.bottom = RectOf(0, 0, w, b.bottom)
               /\ s.left = RectOf(w + b.left - b.left, 0, b.left, H) /\ s.right = RectOf(b.left, 0, b.right, H)
    <2>1. s = [top |-> RectOf(0, h - b.top, w, b.top), bottom |-> RectOf(0, 0, w, b.bottom),
               left |-> RectOf(r.right.x - b.left, 0, b.left, r.right.h),
               right |-> RectOf(b.left, 0, b.right, r.left.h)]
      BY <1>4 DEF border_src_rect
    <2> HIDE DEF s, r, b, w, h, H
    <2>2. /\ s.top = RectOf(0, h - b.top, w, b.top) /\ s.bottom = RectOf(0, 0, w, b.bottom)
          /\ s.left = RectOf(r.right.x - b.left, 0, b.left, r.right.h)
          /\ s.right = RectOf(b.left, 0, b.right, r.left.h)
      BY <2>1
    <2>3. s.left = RectOf(w + b.left - b.left, 0, b.left, H)
      BY <1>0, <1>2, <2>2
    <2>4. s.right = RectOf(b.left, 0, b.right, H)
      BY <1>2, <2>2
    <2> QED
      BY <2>2, <2>3, <2>4
  <1> HIDE DEF r, b, w, h, H
  <1> HIDE DEF s
  <1> QED
    BY <1>1, <1>3, <1>4 DEF r, s, b, w, h, H

LEMMA ModNear ==
  ASSUME NEW n \in Nat, n > 0, NEW k \in Int
  PROVE  /\ k \in 0 .. n - 1 => k % n = k
         /\ k \in -n .. -1 => k % n = k + n
         /\ k \in n .. 2 * n - 1 => k % n = k - n
  OBVIOUS

\* The picture after each part of a mirrored or repeated border, and the pixel of
\* the source it shows.
ShownX(a, x) == IF a.border.type = "REFLECT" THEN Mirror(x - a.border.left, a.src.w)
                ELSE (x - a.border.left) % a.src.w
ShownY(a, y) == IF a.border.type = "REFLECT" THEN Mirror(y - a.border.top, a.src.h)
                ELSE (y - a.border.top) % a.src.h

LEMMA ShownIs ==
  ASSUME NEW a, Bordering(a), a.border.type # "CONSTANT", NEW x \in Int, NEW y \in Int
  PROVE  LET b == a.border  w == a.src.w  h == a.src.h  mirrors == b.type = "REFLECT"
         IN  /\ x \in 0 .. b.left - 1 =>
                  ShownX(a, x) = IF mirrors THEN b.left - 1 - x ELSE w + x - b.left
             /\ x \in b.left .. b.left + w - 1 => ShownX(a, x) = x - b.left
             /\ x \in w + b.left .. w + b.left + b.right - 1 =>
                  ShownX(a, x) = IF mirrors THEN 2 * w + b.left - 1 - x ELSE x - b.left - w
             /\ y \in 0 .. b.top - 1 =>
                  ShownY(a, y) = IF mirrors THEN b.top - 1 - y ELSE h + y - b.top
             /\ y \in b.top .. b.top + h - 1 => ShownY(a, y) = y - b.top
             /\ y \in h + b.top .. h + b.top + b.bottom - 1 =>
                  ShownY(a, y) = IF mirrors THEN 2 * h + b.top - 1 - y ELSE y - b.top - h
  <1> DEFINE b == a.border  w == a.src.w  h == a.src.h
             k == x - b.left  l == y - b.top
  <1>1. /\ w \in Nat /\ h \in Nat /\ b.top \in 1 .. h /\ b.bottom \in 1 .. h /\ b.left \in 1 .. w
        /\ b.right \in 1 .. w
    BY DEF Bordering
  <1>2. CASE b.type = "REFLECT"
    BY <1>1, <1>2 DEF ShownX, ShownY, Mirror
  <1>3. CASE b.type # "REFLECT"
    <2>1. /\ ShownX(a, x) = k % w /\ ShownY(a, y) = l % h /\ k \in Int /\ l \in Int /\ w > 0 /\ h > 0
      BY <1>1, <1>3 DEF ShownX, ShownY
    <2>2. /\ k \in 0 .. w - 1 => k % w = k
          /\ k \in -w .. -1 => k % w = k + w
          /\ k \in w .. 2 * w - 1 => k % w = k - w
      BY <1>1, <2>1, ModNear
    <2>3. /\ l \in 0 .. h - 1 => l % h = l
          /\ l \in -h .. -1 => l % h = l + h
          /\ l \in h .. 2 * h - 1 => l % h = l - h
      BY <1>1, <2>1, ModNear
    <2>4. /\ x \in 0 .. b.left - 1 => k \in -w .. -1
          /\ x \in b.left .. b.left + w - 1 => k \in 0 .. w - 1
          /\ x \in w + b.left .. w + b.left + b.right - 1 => k \in w .. 2 * w - 1
      BY <1>1
    <2>5. /\ y \in 0 .. b.top - 1 => l \in -h .. -1
          /\ y \in b.top .. b.top + h - 1 => l \in 0 .. h - 1
          /\ y \in h + b.top .. h + b.top + b.bottom - 1 => l \in h .. 2 * h - 1
      BY <1>1
    <2> DEFINE mx == k % w  my == l % h
    <2> HIDE DEF mx, my
    <2>6. /\ x \in 0 .. b.left - 1 => ShownX(a, x) = w + x - b.left
          /\ x \in b.left .. b.left + w - 1 => ShownX(a, x) = x - b.left
          /\ x \in w + b.left .. w + b.left + b.right - 1 => ShownX(a, x) = x - b.left - w
      BY <1>1, <2>1, <2>2, <2>4 DEF mx
    <2>7. /\ y \in 0 .. b.top - 1 => ShownY(a, y) = h + y - b.top
          /\ y \in b.top .. b.top + h - 1 => ShownY(a, y) = y - b.top
          /\ y \in h + b.top .. h + b.top + b.bottom - 1 => ShownY(a, y) = y - b.top - h
      BY <1>1, <2>1, <2>3, <2>5 DEF my
    <2> QED
      BY <1>3, <2>6, <2>7
  <1> QED
    BY <1>2, <1>3

\* What a request does to the pixel <<x, y>>: a window of size W, H at X, Y, read
\* from U, V.
BlitOf(drawn, image, from, flip, X, Y, W, H, U, V, x, y) ==
  LET u == U + (IF flip = "FLIP_H" THEN X + W - 1 - x ELSE x - X)
      v == V + (IF flip = "FLIP_V" THEN Y + H - 1 - y ELSE y - Y)
  IN  /\ DOMAIN drawn = DOMAIN image
      /\ ~(x \in X .. X + W - 1 /\ y \in Y .. Y + H - 1) => drawn[<<x, y>>] = image[<<x, y>>]
      /\ x \in X .. X + W - 1 /\ y \in Y .. Y + H - 1 =>
           drawn[<<x, y>>] = IF from = "src" THEN SrcPixel(u, v) ELSE image[<<u, v>>]

LEMMA BlitAt ==
  ASSUME NEW image, NEW part, part.req.kind # "fill",
         NEW X \in Int, NEW Y \in Int, NEW W \in Int, NEW H \in Int, part.req.dst = RectOf(X, Y, W, H),
         NEW U \in Int, NEW V \in Int, NEW M, NEW N, part.req.src = RectOf(U, V, M, N),
         NEW x \in Int, NEW y \in Int, <<x, y>> \in DOMAIN image
  PROVE  BlitOf(Drawn(image, part), image, part.from, part.req.flip, X, Y, W, H, U, V, x, y)
  <1> DEFINE q == <<x, y>>  r == part.req
  <1>1. q[1] = x /\ q[2] = y /\ q \in DOMAIN image
    OBVIOUS
  <1>2. /\ r.dst.x = X /\ r.dst.y = Y /\ r.dst.w = W /\ r.dst.h = H /\ r.src.x = U /\ r.src.y = V
    BY DEF RectOf
  <1> HIDE DEF q, r
  <1>3. Inside(q, r.dst) <=> x \in X .. X + W - 1 /\ y \in Y .. Y + H - 1
    BY <1>1, <1>2 DEF Inside
  <1>4. /\ DOMAIN Drawn(image, part) = DOMAIN image
        /\ ~Inside(q, r.dst) => Drawn(image, part)[q] = image[q]
    BY <1>1 DEF r, Drawn
  <1>5. ASSUME Inside(q, r.dst)
        PROVE  LET u == U + (IF r.flip = "FLIP_H" THEN X + W - 1 - x ELSE x - X)
                   v == V + (IF r.flip = "FLIP_V" THEN Y + H - 1 - y ELSE y - Y)
               IN  Drawn(image, part)[q] = IF part.from = "src" THEN SrcPixel(u, v) ELSE image[<<u, v>>]
    <2> DEFINE u == r.src.x + (IF r.flip = "FLIP_H" THEN r.dst.x + r.dst.w - 1 - q[1] ELSE q[1] - r.dst.x)
               v == r.src.y + (IF r.flip = "FLIP_V" THEN r.dst.y + r.dst.h - 1 - q[2] ELSE q[2] - r.dst.y)
    <2>1. Drawn(image, part)[q] = IF part.from = "src" THEN SrcPixel(u, v) ELSE image[<<u, v>>]
      BY <1>1, <1>5 DEF r, Drawn
    <2>2. /\ u = U + (IF r.flip = "FLIP_H" THEN X + W - 1 - x ELSE x - X)
          /\ v = V + (IF r.flip = "FLIP_V" THEN Y + H - 1 - y ELSE y - Y)
      BY <1>1, <1>2
    <2> HIDE DEF u, v
    <2> QED
      BY <2>1, <2>2
  <1> QED
    BY <1>3, <1>4, <1>5 DEF q, r, BlitOf

PaintOf(drawn, image, X, Y, W, H, x, y) ==
  /\ DOMAIN drawn = DOMAIN image
  /\ drawn[<<x, y>>] = IF x \in X .. X + W - 1 /\ y \in Y .. Y + H - 1 THEN <<"colour">> ELSE image[<<x, y>>]

LEMMA FillAt ==
  ASSUME NEW image, NEW part, part.req.kind = "fill",
         NEW X \in Int, NEW Y \in Int, NEW W \in Int, NEW H \in Int, part.req.dst = RectOf(X, Y, W, H),
         NEW x \in Int, NEW y \in Int, <<x, y>> \in DOMAIN image
  PROVE  PaintOf(Drawn(image, part), image, X, Y, W, H, x, y)
  <1> DEFINE q == <<x, y>>  r == part.req
  <1>1. q[1] = x /\ q[2] = y /\ q \in DOMAIN image
    OBVIOUS
  <1>2. r.dst.x = X /\ r.dst.y = Y /\ r.dst.w = W /\ r.dst.h = H
    BY DEF RectOf
  <1> HIDE DEF q, r
  <1>3. Inside(q, r.dst) <=> x \in X .. X + W - 1 /\ y \in Y .. Y + H - 1
    BY <1>1, <1>2 DEF Inside
  <1>4. /\ DOMAIN Drawn(image, part) = DOMAIN image
        /\ ~Inside(q, r.dst) => Drawn(image, part)[q] = image[q]
        /\ Inside(q, r.dst) => Drawn(image, part)[q] = <<"colour">>
    BY <1>1 DEF r, Drawn
  <1> QED
    BY <1>3, <1>4 DEF q, r, PaintOf

\* The picture after the copy and after each side.
Copied(a, image) == Drawn(image, Carried(CopyPart(a)))
Topped(a, image) == Drawn(Copied(a, image), Carried(SidePart(a, "top")))
Banded(a, image) == Drawn(Topped(a, image), Carried(SidePart(a, "bottom")))
Lefted(a, image) == Drawn(Banded(a, image), Carried(SidePart(a, "left")))
Finished(a, image) == Drawn(Lefted(a, image), Carried(SidePart(a, "right")))

LEMMA CopiedAt ==
  ASSUME NEW a, Bordering(a), NEW image, DOMAIN image = Pixels(a.dst),
         NEW x \in Int, NEW y \in Int, <<x, y>> \in Pixels(a.dst)
  PROVE  /\ DOMAIN Copied(a, image) = Pixels(a.dst)
         /\ x \in a.border.left .. a.border.left + a.src.w - 1 /\ y \in a.border.top .. a.border.top + a.src.h - 1 =>
              Copied(a, image)[<<x, y>>] = SrcPixel(x - a.border.left, y - a.border.top)
  <1> DEFINE p == Carried(CopyPart(a))  b == a.border  w == a.src.w  h == a.src.h
  <1>1. /\ p.from = "src" /\ p.req.kind # "fill" /\ p.req.flip = "NONE"
        /\ p.req.src = RectOf(0, 0, w, h) /\ p.req.dst = RectOf(b.left, b.top, w, h)
    BY CarriedCopy
  <1>2. b.left \in Int /\ b.top \in Int /\ w \in Int /\ h \in Int /\ 0 \in Int
    BY DEF Bordering
  <1> HIDE DEF p, b, w, h
  <1>3. /\ DOMAIN Drawn(image, p) = DOMAIN image
        /\ x \in b.left .. b.left + w - 1 /\ y \in b.top .. b.top + h - 1 =>
             Drawn(image, p)[<<x, y>>] = SrcPixel(0 + (x - b.left), 0 + (y - b.top))
    <2>1. BlitOf(Drawn(image, p), image, p.from, p.req.flip, b.left, b.top, w, h, 0, 0, x, y)
      BY <1>1, <1>2, BlitAt
    <2> QED
      BY <1>1, <2>1 DEF BlitOf
  <1>4. 0 + (x - b.left) = x - b.left /\ 0 + (y - b.top) = y - b.top
    BY <1>2
  <1> QED
    BY <1>3, <1>4 DEF Copied, p, b, w, h

\* Top and bottom complete the columns of the image.
LEMMA BandedAt ==
  ASSUME NEW a, Bordering(a), a.border.type # "CONSTANT", NEW image, DOMAIN image = Pixels(a.dst),
         NEW x \in a.border.left .. a.border.left + a.src.w - 1,
         NEW y \in 0 .. a.src.h + a.border.top + a.border.bottom - 1
  PROVE  /\ DOMAIN Banded(a, image) = Pixels(a.dst)
         /\ Banded(a, image)[<<x, y>>] = SrcPixel(ShownX(a, x), ShownY(a, y))
  <1> DEFINE t == Carried(SidePart(a, "top"))  u == Carried(SidePart(a, "bottom"))
             b == a.border  w == a.src.w  h == a.src.h  mirrors == b.type = "REFLECT"
             flip == IF mirrors THEN "FLIP_V" ELSE "NONE"
             one == Copied(a, image)  two == Topped(a, image)
             from == IF mirrors THEN 0 ELSE h - b.top
             start == IF mirrors THEN h - b.bottom ELSE 0
  <1>0. /\ w \in Nat /\ h \in Nat /\ b.top \in 1 .. h /\ b.bottom \in 1 .. h /\ b.left \in 1 .. w
        /\ b.right \in 1 .. w /\ a.dst.w = w + b.left + b.right /\ a.dst.h = h + b.top + b.bottom
    BY DEF Bordering
  <1>1. x \in Int /\ y \in Int /\ <<x, y>> \in Pixels(a.dst)
    BY <1>0 DEF Pixels
  <1>2. \A n, m, k, l : RectOf(k, l, n, m) = NoRect => n = 0
    BY DEF RectOf, NoRect
  <1>3. /\ border_src_rect(a).top = RectOf(0, from, w, b.top) /\ border_rect(a).top = RectOf(b.left, 0, w, b.top)
        /\ border_src_rect(a).bottom = RectOf(0, start, w, b.bottom)
        /\ border_rect(a).bottom = RectOf(b.left, h + b.top, w, b.bottom)
    BY BorderNumbers
  <1>4. border_src_rect(a)["top"] # NoRect /\ border_src_rect(a)["bottom"] # NoRect
    BY <1>0, <1>2, <1>3
  <1>5. SidePart(a, "top") = BorderPart(a, "top") /\ SidePart(a, "bottom") = BorderPart(a, "bottom")
    BY DEF SidePart
  <1>6. /\ t.from = "src" /\ t.req.kind # "fill" /\ t.req.flip = flip
        /\ t.req.src = RectOf(0, from, w, b.top) /\ t.req.dst = RectOf(b.left, 0, w, b.top)
    BY <1>3, <1>4, <1>5, CarriedBorder DEF Across
  <1>7. /\ u.from = "src" /\ u.req.kind # "fill" /\ u.req.flip = flip
        /\ u.req.src = RectOf(0, start, w, b.bottom) /\ u.req.dst = RectOf(b.left, h + b.top, w, b.bottom)
    BY <1>3, <1>4, <1>5, CarriedBorder DEF Across
  <1>8. two = Drawn(one, t) /\ Banded(a, image) = Drawn(two, u)
    BY DEF Topped, Banded
  <1>9. /\ DOMAIN one = Pixels(a.dst)
        /\ y \in b.top .. b.top + h - 1 => one[<<x, y>>] = SrcPixel(x - b.left, y - b.top)
    BY <1>1, CopiedAt
  <1>10. from \in Int /\ start \in Int /\ flip # "FLIP_H"
    BY <1>0
  <1>11. /\ x \in b.left .. b.left + w - 1 /\ ShownX(a, x) = x - b.left
         /\ y \in 0 .. b.top - 1 => ShownY(a, y) = IF mirrors THEN b.top - 1 - y ELSE h + y - b.top
         /\ y \in b.top .. b.top + h - 1 => ShownY(a, y) = y - b.top
         /\ y \in h + b.top .. h + b.top + b.bottom - 1 =>
              ShownY(a, y) = IF mirrors THEN 2 * h + b.top - 1 - y ELSE y - b.top - h
    BY <1>1, ShownIs
  <1> HIDE DEF t, u, b, w, h, one, two
  <1>12. /\ DOMAIN two = Pixels(a.dst)
         /\ ~(y \in 0 .. 0 + b.top - 1) => two[<<x, y>>] = one[<<x, y>>]
         /\ y \in 0 .. 0 + b.top - 1 =>
              two[<<x, y>>] = SrcPixel(0 + (x - b.left), from + (IF flip = "FLIP_V" THEN 0 + b.top - 1 - y ELSE y - 0))
    <2> HIDE DEF from, flip
    <2>1. b.left \in Int /\ 0 \in Int /\ w \in Int /\ b.top \in Int
      BY <1>0
    <2>2. BlitOf(Drawn(one, t), one, t.from, t.req.flip, b.left, 0, w, b.top, 0, from, x, y)
      BY <1>1, <1>6, <1>9, <1>10, <2>1, BlitAt
    <2> QED
      BY <1>6, <1>8, <1>9, <1>10, <1>11, <2>2 DEF BlitOf
  <1>13. /\ DOMAIN Drawn(two, u) = Pixels(a.dst)
         /\ ~(y \in h + b.top .. h + b.top + b.bottom - 1) => Drawn(two, u)[<<x, y>>] = two[<<x, y>>]
         /\ y \in h + b.top .. h + b.top + b.bottom - 1 =>
              Drawn(two, u)[<<x, y>>] =
                SrcPixel(0 + (x - b.left),
                         start + (IF flip = "FLIP_V" THEN h + b.top + b.bottom - 1 - y ELSE y - (h + b.top)))
    <2> HIDE DEF start, flip
    <2>1. b.left \in Int /\ 0 \in Int /\ w \in Int /\ b.bottom \in Int /\ h + b.top \in Int
      BY <1>0
    <2>2. BlitOf(Drawn(two, u), two, u.from, u.req.flip, b.left, h + b.top, w, b.bottom, 0, start, x, y)
      BY <1>1, <1>7, <1>10, <1>12, <2>1, BlitAt
    <2> QED
      BY <1>7, <1>10, <1>11, <1>12, <2>2 DEF BlitOf
  <1>14. 0 + (x - b.left) = x - b.left
    BY <1>0, <1>1
  <1>15. CASE y \in 0 .. b.top - 1
    <2>1. y \in 0 .. 0 + b.top - 1 /\ ~(y \in h + b.top .. h + b.top + b.bottom - 1)
      BY <1>0, <1>15
    <2>2. from + (IF flip = "FLIP_V" THEN 0 + b.top - 1 - y ELSE y - 0) = ShownY(a, y)
      BY <1>0, <1>11, <1>15
    <2> QED
      BY <1>8, <1>11, <1>12, <1>13, <1>14, <2>1, <2>2
  <1>16. CASE y \in b.top .. b.top + h - 1
    <2>1. ~(y \in 0 .. 0 + b.top - 1) /\ ~(y \in h + b.top .. h + b.top + b.bottom - 1)
      BY <1>0, <1>16
    <2> QED
      BY <1>8, <1>9, <1>11, <1>12, <1>13, <1>16, <2>1
  <1>17. CASE y \in h + b.top .. h + b.top + b.bottom - 1
    <2>1. start + (IF flip = "FLIP_V" THEN h + b.top + b.bottom - 1 - y ELSE y - (h + b.top)) = ShownY(a, y)
      BY <1>0, <1>11, <1>17
    <2> QED
      BY <1>8, <1>11, <1>13, <1>14, <1>17, <2>1
  <1>18. y \in 0 .. b.top - 1 \/ y \in b.top .. b.top + h - 1 \/ y \in h + b.top .. h + b.top + b.bottom - 1
    BY <1>0, <1>1 DEF b, h
  <1> QED
    BY <1>15, <1>16, <1>17, <1>18

\* Left and right copy whole columns of the picture, its corners included.
LEMMA LeftedAt ==
  ASSUME NEW a, Bordering(a), a.border.type # "CONSTANT", NEW image, DOMAIN image = Pixels(a.dst),
         NEW x \in 0 .. a.border.left + a.src.w - 1,
         NEW y \in 0 .. a.src.h + a.border.top + a.border.bottom - 1
  PROVE  /\ DOMAIN Lefted(a, image) = Pixels(a.dst)
         /\ Lefted(a, image)[<<x, y>>] = SrcPixel(ShownX(a, x), ShownY(a, y))
  <1> DEFINE p == Carried(SidePart(a, "left"))
             b == a.border  w == a.src.w  H == a.src.h + b.top + b.bottom  mirrors == b.type = "REFLECT"
             flip == IF mirrors THEN "FLIP_H" ELSE "NONE"
             old == Banded(a, image)
             from == IF mirrors THEN b.left ELSE w + b.left - b.left
             c == IF mirrors THEN 2 * b.left - 1 - x ELSE w + x
  <1>0. /\ w \in Nat /\ a.src.h \in Nat /\ b.top \in Nat /\ b.bottom \in Nat /\ b.left \in 1 .. w
        /\ b.right \in 1 .. w /\ a.dst.w = w + b.left + b.right /\ a.dst.h = H /\ H \in Int
    BY DEF Bordering
  <1>1. x \in Int /\ y \in Int /\ <<x, y>> \in Pixels(a.dst)
    BY <1>0 DEF Pixels
  <1>2. \A n, m, k, l : RectOf(k, l, n, m) = NoRect => n = 0
    BY DEF RectOf, NoRect
  <1>3. border_src_rect(a).left = RectOf(from, 0, b.left, H) /\ border_rect(a).left = RectOf(0, 0, b.left, H)
    BY BorderNumbers
  <1>4. border_src_rect(a)["left"] # NoRect
    BY <1>0, <1>2, <1>3
  <1>5. /\ p.from = "dst" /\ p.req.kind # "fill" /\ p.req.flip = flip
        /\ p.req.src = RectOf(from, 0, b.left, H) /\ p.req.dst = RectOf(0, 0, b.left, H)
    <2>1. SidePart(a, "left") = BorderPart(a, "left")
      BY DEF SidePart
    <2> QED
      BY <1>3, <1>4, <2>1, CarriedBorder DEF Across
  <1>6. b.left \in b.left .. b.left + w - 1 /\ DOMAIN old = Pixels(a.dst)
    <2>1. b.left \in b.left .. b.left + w - 1
      BY <1>0
    <2> QED
      BY <2>1, BandedAt
  <1>7. from \in Int /\ flip # "FLIP_V" /\ b.left \in Int /\ 0 \in Int
    BY <1>0
  <1>8. x \in b.left .. b.left + w - 1 => old[<<x, y>>] = SrcPixel(ShownX(a, x), ShownY(a, y))
    BY BandedAt
  <1>9. ASSUME x \in 0 .. b.left - 1
        PROVE  old[<<c, y>>] = SrcPixel(ShownX(a, x), ShownY(a, y))
    <2>1. c \in b.left .. b.left + w - 1 /\ c \in Int
      BY <1>0, <1>1, <1>9
    <2>2. old[<<c, y>>] = SrcPixel(ShownX(a, c), ShownY(a, y))
      <3> HIDE DEF c
      <3> QED
        BY <2>1, BandedAt
    <2>3. ShownX(a, c) = c - b.left
      <3> HIDE DEF c
      <3> QED
        BY <1>1, <2>1, ShownIs
    <2>4. ShownX(a, x) = IF mirrors THEN b.left - 1 - x ELSE w + x - b.left
      BY <1>1, <1>9, ShownIs
    <2>5. ShownX(a, c) = ShownX(a, x)
      BY <1>0, <1>1, <2>3, <2>4
    <2> QED
      BY <2>2, <2>5
  <1> HIDE DEF p, b, w, H, old
  <1>10. /\ DOMAIN Drawn(old, p) = Pixels(a.dst)
         /\ ~(x \in 0 .. 0 + b.left - 1) => Drawn(old, p)[<<x, y>>] = old[<<x, y>>]
         /\ x \in 0 .. 0 + b.left - 1 =>
              Drawn(old, p)[<<x, y>>] =
                old[<<from + (IF flip = "FLIP_H" THEN 0 + b.left - 1 - x ELSE x - 0), 0 + (y - 0)>>]
    <2> HIDE DEF from, flip
    <2>1. BlitOf(Drawn(old, p), old, p.from, p.req.flip, 0, 0, b.left, H, from, 0, x, y)
      BY <1>0, <1>1, <1>5, <1>6, <1>7, BlitAt
    <2>2. y \in 0 .. 0 + H - 1
      BY <1>0, <1>1 DEF H, b
    <2> QED
      BY <1>5, <1>6, <1>7, <2>1, <2>2 DEF BlitOf
  <1>11. /\ from + (IF flip = "FLIP_H" THEN 0 + b.left - 1 - x ELSE x - 0) = c /\ 0 + (y - 0) = y
         /\ x \in 0 .. 0 + b.left - 1 <=> x \in 0 .. b.left - 1
         /\ x \in 0 .. b.left - 1 \/ x \in b.left .. b.left + w - 1
    BY <1>0, <1>1 DEF w, b
  <1>12. Lefted(a, image) = Drawn(old, p)
    BY DEF Lefted, old, p
  <1> HIDE DEF c
  <1>13. CASE x \in 0 .. b.left - 1
    BY <1>9, <1>10, <1>11, <1>12, <1>13
  <1>14. CASE ~(x \in 0 .. b.left - 1)
    BY <1>8, <1>10, <1>11, <1>12, <1>14
  <1> QED
    BY <1>13, <1>14

LEMMA FinishedAt ==
  ASSUME NEW a, Bordering(a), a.border.type # "CONSTANT", NEW image, DOMAIN image = Pixels(a.dst),
         NEW x \in 0 .. a.src.w + a.border.left + a.border.right - 1,
         NEW y \in 0 .. a.src.h + a.border.top + a.border.bottom - 1
  PROVE  Finished(a, image)[<<x, y>>] = SrcPixel(ShownX(a, x), ShownY(a, y))
  <1> DEFINE p == Carried(SidePart(a, "right"))
             b == a.border  w == a.src.w  H == a.src.h + b.top + b.bottom  mirrors == b.type = "REFLECT"
             X == w + b.left
             flip == IF mirrors THEN "FLIP_H" ELSE "NONE"
             old == Lefted(a, image)
             from == IF mirrors THEN w + b.left - b.right ELSE b.left
             c == IF mirrors THEN 2 * w + 2 * b.left - 1 - x ELSE x - w
  <1>0. /\ w \in Nat /\ a.src.h \in Nat /\ b.top \in Nat /\ b.bottom \in Nat /\ b.left \in 1 .. w
        /\ b.right \in 1 .. w /\ a.dst.w = w + b.left + b.right /\ a.dst.h = H /\ H \in Int /\ X \in Int
    BY DEF Bordering
  <1>1. x \in Int /\ y \in Int /\ <<x, y>> \in Pixels(a.dst)
    BY <1>0 DEF Pixels
  <1>2. \A n, m, k, l : RectOf(k, l, n, m) = NoRect => n = 0
    BY DEF RectOf, NoRect
  <1>3. border_src_rect(a).right = RectOf(from, 0, b.right, H) /\ border_rect(a).right = RectOf(X, 0, b.right, H)
    BY BorderNumbers
  <1>4. border_src_rect(a)["right"] # NoRect
    BY <1>0, <1>2, <1>3
  <1>5. /\ p.from = "dst" /\ p.req.kind # "fill" /\ p.req.flip = flip
        /\ p.req.src = RectOf(from, 0, b.right, H) /\ p.req.dst = RectOf(X, 0, b.right, H)
    <2>1. SidePart(a, "right") = BorderPart(a, "right")
      BY DEF SidePart
    <2> QED
      BY <1>3, <1>4, <2>1, CarriedBorder DEF Across
  <1>6. DOMAIN old = Pixels(a.dst)
    <2>1. 0 \in 0 .. b.left + w - 1
      BY <1>0
    <2> QED
      BY <2>1, LeftedAt
  <1>7. from \in Int /\ flip # "FLIP_V" /\ b.right \in Int /\ 0 \in Int
    BY <1>0
  <1>8. x \in 0 .. b.left + w - 1 => old[<<x, y>>] = SrcPixel(ShownX(a, x), ShownY(a, y))
    BY LeftedAt
  <1>9. ASSUME x \in X .. X + b.right - 1
        PROVE  old[<<c, y>>] = SrcPixel(ShownX(a, x), ShownY(a, y))
    <2>1. c \in b.left .. b.left + w - 1 /\ c \in Int /\ c \in 0 .. b.left + w - 1
      BY <1>0, <1>1, <1>9
    <2>2. old[<<c, y>>] = SrcPixel(ShownX(a, c), ShownY(a, y))
      <3> HIDE DEF c
      <3> QED
        BY <2>1, LeftedAt
    <2>3. ShownX(a, c) = c - b.left
      <3> HIDE DEF c
      <3> QED
        BY <1>1, <2>1, ShownIs
    <2>4. ShownX(a, x) = IF mirrors THEN 2 * w + b.left - 1 - x ELSE x - b.left - w
      BY <1>1, <1>9, ShownIs
    <2>5. ShownX(a, c) = ShownX(a, x)
      BY <1>0, <1>1, <2>3, <2>4
    <2> QED
      BY <2>2, <2>5
  <1> HIDE DEF p, b, w, H, old
  <1>10. /\ ~(x \in X .. X + b.right - 1) => Drawn(old, p)[<<x, y>>] = old[<<x, y>>]
         /\ x \in X .. X + b.right - 1 =>
              Drawn(old, p)[<<x, y>>] =
                old[<<from + (IF flip = "FLIP_H" THEN X + b.right - 1 - x ELSE x - X), 0 + (y - 0)>>]
    <2> HIDE DEF from, flip, X
    <2>1. BlitOf(Drawn(old, p), old, p.from, p.req.flip, X, 0, b.right, H, from, 0, x, y)
      BY <1>0, <1>1, <1>5, <1>6, <1>7, BlitAt
    <2>2. y \in 0 .. 0 + H - 1
      BY <1>0, <1>1 DEF H, b
    <2> QED
      BY <1>5, <1>6, <1>7, <2>1, <2>2 DEF BlitOf
  <1>11. /\ from + (IF flip = "FLIP_H" THEN X + b.right - 1 - x ELSE x - X) = c /\ 0 + (y - 0) = y
         /\ x \in 0 .. b.left + w - 1 \/ x \in X .. X + b.right - 1
    BY <1>0, <1>1 DEF w, b
  <1>12. Finished(a, image) = Drawn(old, p)
    BY DEF Finished, old, p
  <1> HIDE DEF c, X
  <1>13. CASE x \in X .. X + b.right - 1
    BY <1>9, <1>10, <1>11, <1>12, <1>13
  <1>14. CASE ~(x \in X .. X + b.right - 1)
    BY <1>8, <1>10, <1>11, <1>12, <1>14
  <1> QED
    BY <1>13, <1>14

\* A border of one colour is four fills round the copy.
LEMMA FilledAt ==
  ASSUME NEW a, Bordering(a), a.border.type = "CONSTANT", NEW image, DOMAIN image = Pixels(a.dst),
         NEW x \in 0 .. a.src.w + a.border.left + a.border.right - 1,
         NEW y \in 0 .. a.src.h + a.border.top + a.border.bottom - 1
  PROVE  Finished(a, image)[<<x, y>>] =
           IF /\ x \in a.border.left .. a.border.left + a.src.w - 1
              /\ y \in a.border.top .. a.border.top + a.src.h - 1
           THEN SrcPixel(x - a.border.left, y - a.border.top) ELSE <<"colour">>
  <1> DEFINE b == a.border  w == a.src.w  h == a.src.h  H == h + b.top + b.bottom  X == w + b.left  Y == h + b.top
             q == <<x, y>>
             t == Carried(SidePart(a, "top"))  u == Carried(SidePart(a, "bottom"))
             l == Carried(SidePart(a, "left"))  r == Carried(SidePart(a, "right"))
             one == Copied(a, image)  two == Topped(a, image)  three == Banded(a, image)
             four == Lefted(a, image)  five == Finished(a, image)
             inside == x \in b.left .. b.left + w - 1 /\ y \in b.top .. b.top + h - 1
  <1>0. /\ w \in Nat /\ h \in Nat /\ b.top \in 1 .. h /\ b.bottom \in 1 .. h /\ b.left \in 1 .. w
        /\ b.right \in 1 .. w /\ a.dst.w = w + b.left + b.right /\ a.dst.h = H /\ H \in Int /\ X \in Int /\ Y \in Int
        /\ 0 \in Int /\ b.left \in Int /\ b.right \in Int /\ b.top \in Int /\ b.bottom \in Int /\ w \in Int
    BY DEF Bordering
  <1>1. x \in Int /\ y \in Int /\ q \in Pixels(a.dst)
    BY <1>0 DEF Pixels
  <1>2. /\ t.req.kind = "fill" /\ t.req.dst = RectOf(b.left, 0, w, b.top)
        /\ u.req.kind = "fill" /\ u.req.dst = RectOf(b.left, Y, w, b.bottom)
        /\ l.req.kind = "fill" /\ l.req.dst = RectOf(0, 0, b.left, H)
        /\ r.req.kind = "fill" /\ r.req.dst = RectOf(X, 0, b.right, H)
    <2>1. /\ border_rect(a).top = RectOf(b.left, 0, w, b.top) /\ border_rect(a).bottom = RectOf(b.left, Y, w, b.bottom)
          /\ border_rect(a).left = RectOf(0, 0, b.left, H) /\ border_rect(a).right = RectOf(X, 0, b.right, H)
      BY BorderNumbers
    <2>2. \A side : SidePart(a, side) = FillPart(a, side)
      BY DEF SidePart
    <2> QED
      BY <2>1, <2>2, CarriedFill
  <1>3. /\ two = Drawn(one, t) /\ three = Drawn(two, u) /\ four = Drawn(three, l) /\ five = Drawn(four, r)
    BY DEF Topped, Banded, Lefted, Finished
  <1>4. DOMAIN one = Pixels(a.dst) /\ (inside => one[q] = SrcPixel(x - b.left, y - b.top))
    BY <1>1, CopiedAt
  <1> HIDE DEF b, w, h, H, X, Y, t, u, l, r, one, two, three, four, five
  <1>5. /\ DOMAIN two = Pixels(a.dst)
        /\ two[q] = IF x \in b.left .. b.left + w - 1 /\ y \in 0 .. 0 + b.top - 1 THEN <<"colour">> ELSE one[q]
    <2>1. PaintOf(Drawn(one, t), one, b.left, 0, w, b.top, x, y)
      BY <1>0, <1>1, <1>2, <1>4, FillAt
    <2> QED
      BY <1>3, <1>4, <2>1 DEF PaintOf
  <1>6. /\ DOMAIN three = Pixels(a.dst)
        /\ three[q] = IF x \in b.left .. b.left + w - 1 /\ y \in Y .. Y + b.bottom - 1 THEN <<"colour">> ELSE two[q]
    <2>1. PaintOf(Drawn(two, u), two, b.left, Y, w, b.bottom, x, y)
      BY <1>0, <1>1, <1>2, <1>5, FillAt
    <2> QED
      BY <1>3, <1>5, <2>1 DEF PaintOf
  <1>7. /\ DOMAIN four = Pixels(a.dst)
        /\ four[q] = IF x \in 0 .. 0 + b.left - 1 /\ y \in 0 .. 0 + H - 1 THEN <<"colour">> ELSE three[q]
    <2>1. PaintOf(Drawn(three, l), three, 0, 0, b.left, H, x, y)
      BY <1>0, <1>1, <1>2, <1>6, FillAt
    <2> QED
      BY <1>3, <1>6, <2>1 DEF PaintOf
  <1>8. five[q] = IF x \in X .. X + b.right - 1 /\ y \in 0 .. 0 + H - 1 THEN <<"colour">> ELSE four[q]
    <2>1. PaintOf(Drawn(four, r), four, X, 0, b.right, H, x, y)
      BY <1>0, <1>1, <1>2, <1>7, FillAt
    <2> QED
      BY <1>3, <1>7, <2>1 DEF PaintOf
  <1>9. /\ inside => /\ ~(y \in 0 .. 0 + b.top - 1) /\ ~(y \in Y .. Y + b.bottom - 1)
                     /\ ~(x \in 0 .. 0 + b.left - 1) /\ ~(x \in X .. X + b.right - 1)
        /\ y \in 0 .. 0 + H - 1
        /\ ~inside => \/ x \in b.left .. b.left + w - 1 /\ y \in 0 .. 0 + b.top - 1
                      \/ x \in b.left .. b.left + w - 1 /\ y \in Y .. Y + b.bottom - 1
                      \/ x \in 0 .. 0 + b.left - 1 \/ x \in X .. X + b.right - 1
    BY <1>0, <1>1 DEF b, w, h, H, X, Y
  <1>10. five[q] = IF inside THEN SrcPixel(x - b.left, y - b.top) ELSE <<"colour">>
    <2> HIDE DEF q
    <2>1. CASE inside
      BY <1>4, <1>5, <1>6, <1>7, <1>8, <1>9, <2>1
    <2>2. CASE ~inside
      BY SMTT(40), <1>5, <1>6, <1>7, <1>8, <1>9, <2>2
    <2> QED
      BY <2>1, <2>2
  <1> QED
    BY <1>10 DEF five, b, w, h

LEMMA DrawnAlike ==
  ASSUME NEW image, NEW m, NEW n, m.from = n.from, m.req.kind = n.req.kind,
         m.req.kind = "fill" \/ (m.req.flip = n.req.flip /\ m.req.src.x = n.req.src.x /\ m.req.src.y = n.req.src.y),
         m.req.dst.x = n.req.dst.x, m.req.dst.y = n.req.dst.y, m.req.dst.w = n.req.dst.w, m.req.dst.h = n.req.dst.h
  PROVE  Drawn(image, m) = Drawn(image, n)
  <1>1. \A q : Inside(q, m.req.dst) <=> Inside(q, n.req.dst)
    BY DEF Inside
  <1> QED
    BY <1>1 DEF Drawn

\* Carried is what the multi-core driver, the only one on which immakeBorder gets
\* beyond the copy, is given: the request rga_task_submit makes of a part draws what
\* Carried(part) draws.
LEMMA RequestDraws ==
  ASSUME NEW part, NEW dev, NEW image,
         part.call.dst \in rga_buffer_t, part.call.drect.w > 0, part.call.drect.h > 0,
         part.call.usage \subseteq {"ASYNC", "FLIP_H", "FLIP_V", "COLOR_FILL"},
         ~({"FLIP_H", "FLIP_V"} \subseteq part.call.usage),
         rga_task_submit(dev, part.call).status = "SUCCESS",
         rga_task_submit(dev, part.call).requests[1].kind # "zero"
  PROVE  Drawn(image, [from |-> part.from, req |-> ForDriver("multi", rga_task_submit(dev, part.call).requests[1])])
           = Drawn(image, Carried(part))
  <1> DEFINE c == part.call
             task == rga_task_submit(dev, c)
             req == task.requests[1]
             mine == [from |-> part.from, req |-> req]
             p == Carried(part)
  <1>1. ForDriver("multi", req) = req
    BY DEF ForDriver
  <1>2. /\ p.from = part.from /\ p.req.flip = Flipped(c.usage) /\ p.req.dst = c.drect
        /\ p.req.kind = (IF "COLOR_FILL" \in c.usage THEN "fill" ELSE "blit")
        /\ p.req.src.x = c.srect.x /\ p.req.src.y = c.srect.y
    BY DEF Carried, RectOf, NoRect
  <1> DEFINE dst == rga_apply_rect(c.dst, c.drect)
             win == Window(dst, c.drect)
  <1>4. win.x = c.drect.x /\ win.y = c.drect.y /\ win.w = c.drect.w /\ win.h = c.drect.h
    BY DEF Window, rga_apply_rect, rga_buffer_t
  <1>5. CASE "COLOR_FILL" \in c.usage
    <2>1. req.kind = "fill" /\ req.dst = win
      <3>1. \E mode : task = generate_fill_req(dev, c, dst, mode)
        BY <1>5, SubmitSucceeds
      <3> QED
        BY <3>1 DEF generate_fill_req, Sends, Request
    <2> HIDE DEF req, win, p, dst
    <2>2. Drawn(image, mine) = Drawn(image, p)
      BY <1>2, <1>4, <1>5, <2>1, DrawnAlike
    <2> QED
      BY <1>1, <2>2 DEF req, p
  <1>6. CASE "COLOR_FILL" \notin c.usage
    <2>1. /\ req.kind = "blit" /\ req.dst = win /\ req.flip = OnlyOne(c.usage, Flips)
          /\ req.src.x = c.srect.x /\ req.src.y = c.srect.y
      <3>1. \E src, pat, usePat, mode : task = generate_blit_req(dev, c, src, dst, pat, usePat, mode)
        BY <1>6, SubmitSucceeds
      <3>2. PICK src, pat, usePat, mode : task = generate_blit_req(dev, c, src, dst, pat, usePat, mode)
        BY <3>1
      <3>3. OnlyOne(c.usage, Rotations) = "NONE"
        BY SMTT(40) DEF OnlyOne, Rotations
      <3>4. \/ task = Sends(<<ZeroRequest>>) \/ task = Fails("FAILED")
            \/ \E p1, interp, csc, regs :
                 task = Sends(<<Request("blit", Window(src, c.srect), p1, win, "NONE",
                                        OnlyOne(c.usage, Flips), interp, csc, regs)>>)
        BY ZenonT(60), <3>2, <3>3 DEF generate_blit_req
      <3>5. task # Sends(<<ZeroRequest>>) /\ task # Fails("FAILED")
        BY DEF Fails, Sends, ZeroRequest, Request
      <3>6. PICK p1, interp, csc, regs :
                 task = Sends(<<Request("blit", Window(src, c.srect), p1, win, "NONE",
                                        OnlyOne(c.usage, Flips), interp, csc, regs)>>)
        BY <3>4, <3>5
      <3> HIDE DEF task, win
      <3>7. req = Request("blit", Window(src, c.srect), p1, win, "NONE", OnlyOne(c.usage, Flips), interp, csc, regs)
        BY <3>6 DEF Sends
      <3> QED
        BY <3>7 DEF Request, Window
    <2>2. OnlyOne(c.usage, Flips) = Flipped(c.usage)
      <3>1. c.usage \cap Flips = (IF Flipped(c.usage) = "NONE" THEN {} ELSE {Flipped(c.usage)})
        BY DEF Flips, Flipped
      <3>2. CASE Flipped(c.usage) = "NONE"
        BY <3>1, <3>2 DEF OnlyOne, Flips
      <3>3. CASE Flipped(c.usage) \in Flips /\ Flipped(c.usage) # "NONE"
        BY <3>1, <3>3 DEF OnlyOne
      <3> QED
        BY <3>2, <3>3 DEF Flipped, Flips
    <2> HIDE DEF req, win, p, dst
    <2>3. Drawn(image, mine) = Drawn(image, p)
      BY <1>2, <1>4, <1>6, <2>1, <2>2, DrawnAlike
    <2> QED
      BY <1>1, <2>3 DEF req, p
  <1> QED
    BY <1>5, <1>6

\* immakeBorder (im2d.cpp 1498-1656), when it gets the fences it looks for, draws
\* the border it names.  Whatever the destination held, for every size of the image and every border no wider than
\* the image, the copy and the four sides, drawn in the order submitted, leave at
\* each pixel what a border of that type has there: the image inside, and
\* outside it the colour, the mirrored image or the repeated image.  The left and
\* right sides read the destination, so the corners are right only because top
\* and bottom come first.
THEOREM BorderIsDrawn ==
  ASSUME NEW a, Bordering(a), NEW image, DOMAIN image = Pixels(a.dst), NEW q \in Pixels(a.dst)
  PROVE  LET p == immakeBorder(a).parts
             one == Drawn(image, Carried(p[1]))  two == Drawn(one, Carried(p[2]))
             three == Drawn(two, Carried(p[3]))  four == Drawn(three, Carried(p[4]))
         IN  Len(p) = 5 /\ Drawn(four, Carried(p[5]))[q] = Bordered(q, a)
  <1> DEFINE p == immakeBorder(a).parts
             one == Drawn(image, Carried(p[1]))  two == Drawn(one, Carried(p[2]))
             three == Drawn(two, Carried(p[3]))  four == Drawn(three, Carried(p[4]))
             five == Drawn(four, Carried(p[5]))
  <1>1. /\ Len(p) = 5 /\ p[1] = CopyPart(a) /\ p[2] = SidePart(a, "top") /\ p[3] = SidePart(a, "bottom")
        /\ p[4] = SidePart(a, "left") /\ p[5] = SidePart(a, "right")
    BY BorderParts
  <1>2. five = Finished(a, image)
    <2> HIDE DEF p
    <2>1. one = Copied(a, image)
      BY <1>1 DEF Copied
    <2> HIDE DEF one
    <2>2. two = Topped(a, image)
      BY <1>1, <2>1 DEF Topped
    <2> HIDE DEF two
    <2>3. three = Banded(a, image)
      BY <1>1, <2>2 DEF Banded
    <2> HIDE DEF three
    <2>4. four = Lefted(a, image)
      BY <1>1, <2>3 DEF Lefted
    <2> HIDE DEF four
    <2> QED
      BY <1>1, <2>4 DEF Finished
  <1>3. PICK x \in 0 .. a.src.w + a.border.left + a.border.right - 1,
             y \in 0 .. a.src.h + a.border.top + a.border.bottom - 1 : q = <<x, y>>
    BY DEF Bordering, Pixels
  <1>4. q[1] = x /\ q[2] = y
    BY <1>3
  <1>5. /\ a.border.left \in Int /\ a.border.top \in Int /\ a.src.w \in Int /\ a.src.h \in Int
        /\ a.border.type \in {"CONSTANT", "REFLECT", "WRAP"} /\ x \in Int /\ y \in Int
    BY DEF Bordering
  <1> HIDE DEF five, p
  <1>6. CASE a.border.type = "CONSTANT"
    <2> DEFINE k == x - a.border.left  l == y - a.border.top
    <2>1. Bordered(q, a) = IF k \in 0 .. a.src.w - 1 /\ l \in 0 .. a.src.h - 1 THEN SrcPixel(k, l) ELSE <<"colour">>
      BY <1>4, <1>6 DEF Bordered
    <2>2. five[q] = IF /\ x \in a.border.left .. a.border.left + a.src.w - 1
                       /\ y \in a.border.top .. a.border.top + a.src.h - 1
                    THEN SrcPixel(k, l) ELSE <<"colour">>
      BY <1>2, <1>3, <1>6, FilledAt
    <2>3. /\ k \in 0 .. a.src.w - 1 <=> x \in a.border.left .. a.border.left + a.src.w - 1
          /\ l \in 0 .. a.src.h - 1 <=> y \in a.border.top .. a.border.top + a.src.h - 1
      BY <1>5
    <2> HIDE DEF k, l
    <2>4. five[q] = Bordered(q, a)
      BY <2>1, <2>2, <2>3
    <2> QED
      BY <1>1, <2>4 DEF five, p
  <1>7. CASE a.border.type \in {"REFLECT", "WRAP"}
    <2>1. Bordered(q, a) = SrcPixel(ShownX(a, x), ShownY(a, y))
      BY <1>4, <1>7 DEF Bordered, ShownX, ShownY
    <2>2. five[q] = SrcPixel(ShownX(a, x), ShownY(a, y))
      BY <1>2, <1>3, <1>7, FinishedAt
    <2> QED
      BY <1>1, <2>1, <2>2 DEF five, p
  <1> QED
    BY <1>5, <1>6, <1>7
=============================================================================
