--------------------------- MODULE Im2dRequestProofs ---------------------------
(***************************************************************************)
(* Proofs about the requests of both interfaces, for any operands that the *)
(* types of the interface allow, any device and any capability table.      *)
(***************************************************************************)
EXTENDS RgaLegacy, SequenceTheorems, WellFoundedInduction, TLAPS

\* What the running call makes of its operands, and the requests of it that the
\* driver has.
TaskNow == IF ByIm2d THEN Im2dTask ELSE LegacyTask
Taken(n) == ForDriver(device.driver, TaskNow.requests[n])

DeviceInv == /\ device.driver \in {"multi", "RGA1", "RGA2"} /\ device.number \in Nat
             /\ device.driver = "RGA2" => device.number >= 2000
             /\ \E d \in Devices : device = rga_session_init(d)
CallInv == call = NoCall => verdict = "NONE" /\ status = "NONE" /\ sent = <<>>
OperandInv == call # NoCall => call \in Tasks
VerdictInv == ByIm2d => verdict = rga_check_external(hw, call)
SentInv ==
  /\ sent \in Seq({Taken(1), Taken(2)}) /\ Len(sent) <= 2
  /\ \A n \in 1..Len(sent) : sent[n] = Taken(n)
  /\ Len(sent) > 0 => Len(sent) <= Len(TaskNow.requests) /\ TaskNow.status = "SUCCESS"
  /\ status = "SUCCESS" => TaskNow.status = "SUCCESS"
  /\ status = "NONE" => Len(sent) = 0 \/ Len(sent) < Len(TaskNow.requests)
RequestInv == DeviceInv /\ CallInv /\ OperandInv /\ VerdictInv /\ SentInv

-----------------------------------------------------------------------------
LEMMA NoCallIsNone == NoCall \notin Calls
  <1> SUFFICES ASSUME NoCall \in Tasks PROVE FALSE
    BY CallsAssumption
  <1>1. NoCall.usage \subseteq Usages /\ NoCall.usage = {"none"}
    BY DEF Tasks, NoCall
  <1> QED
    BY <1>1 DEF Usages, FeatureUsages, Rotations, Flips, ColorKeys

\* A task makes at most two requests.
ShortTask(task) ==
  \E a, b : task.requests = <<>> \/ task.requests = <<a>> \/ task.requests = <<a, b>>

LEMMA Im2dTaskIsShort == ShortTask(Im2dTask)
  <1>1. \A s : ShortTask(Fails(s))
    BY DEF ShortTask, Fails
  <1>2. \A a : ShortTask(Sends(<<a>>))
    BY DEF ShortTask, Sends
  <1>3. \A a, b : ShortTask(Sends(<<a, b>>))
    BY DEF ShortTask, Sends
  <1>4. \A dev, c, dst, mode : ShortTask(generate_fill_req(dev, c, dst, mode))
    BY <1>2 DEF generate_fill_req
  <1>5. \A dev, c, src, dst, pat : ShortTask(generate_color_palette_req(dev, c, src, dst, pat))
    BY <1>1, <1>3 DEF generate_color_palette_req
  <1>6. \A dev, c, src, dst, pat, usePat, mode :
          ShortTask(generate_blit_req(dev, c, src, dst, pat, usePat, mode))
    BY <1>1, <1>2 DEF generate_blit_req
  <1> QED
    BY <1>1, <1>4, <1>5, <1>6 DEF Im2dTask, rga_task_submit

LEMMA LegacyTaskIsShort == ShortTask(LegacyTask)
  <1>1. \A s : ShortTask(Fails(s))
    BY DEF ShortTask, Fails
  <1>2. ShortTask(Sends(<<>>)) /\ \A a, b : ShortTask(Sends(<<a>>)) /\ ShortTask(Sends(<<a, b>>))
    BY DEF ShortTask, Sends
  <1>3. \A c, version : ShortTask(RgaCollorFill(c, version))
    BY <1>1, <1>2 DEF RgaCollorFill
  <1>4. \A c, version : ShortTask(RgaCollorPalette(c, version))
    BY <1>1, <1>2 DEF RgaCollorPalette
  <1>5. \A c, version : ShortTask(RgaBlit(c, version))
    <2> TAKE c, version
    <2>1. \/ RgaBlit(c, version) = Fails("FAILED") \/ RgaBlit(c, version) = Sends(<<>>)
          \/ \E r : RgaBlit(c, version) = Sends(<<r>>)
      BY DEF RgaBlit
    <2> QED
      BY <1>1, <1>2, <2>1
  <1> QED
    BY <1>3, <1>4, <1>5 DEF LegacyTask
-----------------------------------------------------------------------------
(* The invariant of both interfaces                                        *)

\* A step that leaves the operands alone leaves what is made of them alone.
LEMMA SameTask ==
  ASSUME UNCHANGED <<device, call, verdict>>
  PROVE  TaskNow' = TaskNow /\ hw' = hw /\ Taken(1)' = Taken(1) /\ Taken(2)' = Taken(2)
  BY DEF TaskNow, Taken, ByIm2d, Im2dTask, LegacyTask, hw, mVersion

LEMMA InitRequestInv == Init => RequestInv
  <1> SUFFICES ASSUME Init PROVE RequestInv
    OBVIOUS
  <1>1. DeviceInv
    BY DevicesAssumption DEF Init, DeviceInv, rga_session_init
  <1>2. CallInv /\ OperandInv /\ VerdictInv
    BY DEF Init, CallInv, OperandInv, VerdictInv, ByIm2d
  <1>3. SentInv
    BY DEF Init, SentInv
  <1> QED
    BY <1>1, <1>2, <1>3 DEF RequestInv

\* The steps of a call that is being processed.
LEMMA ProcessKeepsInv ==
  ASSUME RequestInv, status = "NONE", call # NoCall,
         \/ Rejected(TaskNow) \/ DriverTakes(TaskNow) \/ DriverRefuses(TaskNow) \/ LegacyNothing(TaskNow)
  PROVE  RequestInv'
  <1>1. UNCHANGED <<device, call, verdict>>
    BY DEF Rejected, DriverTakes, DriverRefuses, LegacyNothing
  <1>2. DeviceInv' /\ CallInv' /\ OperandInv'
    BY <1>1 DEF RequestInv, DeviceInv, CallInv, OperandInv
  <1>3. TaskNow' = TaskNow /\ hw' = hw /\ Taken(1)' = Taken(1) /\ Taken(2)' = Taken(2)
    BY <1>1, SameTask
  <1>4. VerdictInv'
    BY <1>1, <1>3 DEF RequestInv, VerdictInv, ByIm2d
  <1>a. \A m \in {1, 2} : Taken(m)' = Taken(m)
    BY <1>3
  <1>5. SentInv'
    <2> DEFINE S == {Taken(1), Taken(2)}
    <2>0. sent \in Seq(S) /\ Len(sent) \in Nat /\ Len(sent) <= 2 /\ S' = S
      BY <1>3 DEF RequestInv, SentInv
    <2>1. CASE DriverTakes(TaskNow)
      <3>1. Len(TaskNow.requests) \in {0, 1, 2} /\ (TaskNow.requests # <<>> => Len(TaskNow.requests) # 0)
        <4>1. PICK a, b : TaskNow.requests = <<>> \/ TaskNow.requests = <<a>> \/ TaskNow.requests = <<a, b>>
          BY Im2dTaskIsShort, LegacyTaskIsShort DEF ShortTask, TaskNow
        <4>2. CASE TaskNow.requests = <<>>
          BY <4>2
        <4>3. CASE TaskNow.requests = <<a>>
          BY <4>3
        <4>4. CASE TaskNow.requests = <<a, b>>
          BY <4>4
        <4> QED
          BY <4>1, <4>2, <4>3, <4>4
      <3> DEFINE n == Len(sent) + 1
      <3>2. /\ TaskNow.status = "SUCCESS" /\ TaskNow.requests # <<>>
            /\ sent' = Append(sent, Taken(n))
            /\ status' = IF Len(sent') = Len(TaskNow.requests) THEN "SUCCESS" ELSE status
        BY <2>1 DEF DriverTakes, Taken
      <3>3. n \in {1, 2} /\ n <= Len(TaskNow.requests) /\ Taken(n) \in S
        <4>1. Len(sent) = 0 \/ Len(sent) < Len(TaskNow.requests)
          BY DEF RequestInv, SentInv
        <4> DEFINE l == Len(sent)
                   k == Len(TaskNow.requests)
        <4>2. l \in Nat /\ k \in {1, 2} /\ (l = 0 \/ l < k)
          BY <2>0, <3>1, <3>2, <4>1
        <4>3. n = l + 1
          OBVIOUS
        <4> HIDE DEF l, k, n
        <4>4. n \in {1, 2} /\ n <= k
          BY <4>2, <4>3
        <4> QED
          BY <4>4 DEF k
      <3> HIDE DEF S
      <3>4. /\ sent' \in Seq(S) /\ Len(sent') = n
            /\ \A m \in 1..Len(sent) : sent'[m] = sent[m]
            /\ sent'[n] = Taken(n)
        BY <2>0, <3>2, <3>3, AppendProperties
      <3>5. \A m \in 1..n : sent'[m] = Taken(m)
        BY <2>0, <3>4 DEF RequestInv, SentInv
      <3>6. \A m \in 1..n : sent'[m] = Taken(m)'
        BY <1>3, <3>3, <3>5
      <3> HIDE DEF n
      <3>7. sent' \in Seq(S)' /\ S' = {Taken(1)', Taken(2)'}
        BY <2>0, <3>4 DEF S
      <3>8. status' = "NONE" => n < Len(TaskNow.requests)
        BY <3>1, <3>2, <3>3, <3>4
      <3> QED
        BY <1>3, <3>2, <3>3, <3>4, <3>6, <3>7, <3>8 DEF SentInv
    <2>2. CASE Rejected(TaskNow) \/ DriverRefuses(TaskNow) \/ LegacyNothing(TaskNow)
      <3>1. sent' = sent /\ (status' = "SUCCESS" => TaskNow.status = "SUCCESS")
        BY <2>2 DEF Rejected, DriverRefuses, LegacyNothing
      <3>2. \A n \in 1..Len(sent) : sent[n] = Taken(n)'
        <4>1. \A n \in 1..Len(sent) : n \in {1, 2} /\ sent[n] = Taken(n)
          BY <2>0 DEF RequestInv, SentInv
        <4> QED
          BY <1>3, <4>1
      <3> QED
        BY <1>3, <3>1, <3>2 DEF RequestInv, SentInv
    <2> QED
      BY <2>1, <2>2
  <1> QED
    BY <1>2, <1>4, <1>5 DEF RequestInv

\* A new call, of either interface, has sent nothing.
LEMMA BeginKeepsInv ==
  ASSUME RequestInv, ImCheck \/ LegacyBegin
  PROVE  RequestInv'
  <1>1. /\ call = NoCall /\ call' \in Calls /\ UNCHANGED <<device, status, sent>>
        /\ verdict' = rga_check_external(hw, call') \/ verdict' = verdict
    BY DEF ImCheck, LegacyBegin
  <1>2. verdict = "NONE" /\ status = "NONE" /\ sent = <<>>
    BY <1>1 DEF RequestInv, CallInv
  <1>3. call' # NoCall /\ call' \in Tasks
    BY <1>1, NoCallIsNone, CallsAssumption
  <1>4. DeviceInv' /\ CallInv' /\ OperandInv'
    BY <1>1, <1>3 DEF RequestInv, DeviceInv, CallInv, OperandInv
  <1>5. VerdictInv'
    BY <1>1, <1>2 DEF VerdictInv, ByIm2d, hw
  <1>6. SentInv'
    BY <1>1, <1>2 DEF SentInv
  <1> QED
    BY <1>4, <1>5, <1>6 DEF RequestInv

LEMMA NextRequestInv == RequestInv /\ [LegacyNext]_vars => RequestInv'
  <1> SUFFICES ASSUME RequestInv, [LegacyNext]_vars PROVE RequestInv'
    OBVIOUS
  <1>1. CASE ImCheck \/ LegacyBegin
    BY <1>1, BeginKeepsInv
  <1>2. CASE Process
    <2>1. ByIm2d /\ call # NoCall /\ status = "NONE" /\ TaskNow = rga_task_submit(device, call)
      BY <1>2 DEF Process, ByIm2d, TaskNow, Im2dTask, RequestInv, CallInv
    <2> QED
      BY <1>2, <2>1, ProcessKeepsInv DEF Process
  <1>3. CASE LegacyProcess
    <2>1. ~ByIm2d /\ call # NoCall /\ status = "NONE" /\ TaskNow = LegacyTask
      BY <1>3 DEF LegacyProcess, Legacy, ByIm2d, TaskNow
    <2> QED
      BY <1>3, <2>1, ProcessKeepsInv DEF LegacyProcess
  <1>4. CASE Return
    <2>1. call' = NoCall /\ verdict' = "NONE" /\ status' = "NONE" /\ sent' = <<>> /\ UNCHANGED device
      BY <1>4 DEF Return
    <2>2. DeviceInv' /\ CallInv' /\ OperandInv' /\ VerdictInv'
      BY <2>1 DEF RequestInv, DeviceInv, CallInv, OperandInv, VerdictInv, ByIm2d
    <2>3. SentInv'
      BY <2>1 DEF SentInv
    <2> QED
      BY <2>2, <2>3 DEF RequestInv
  <1>5. CASE UNCHANGED vars
    <2>1. UNCHANGED <<device, call, verdict, status, sent>>
      BY <1>5 DEF vars
    <2>2. TaskNow' = TaskNow /\ hw' = hw /\ Taken(1)' = Taken(1) /\ Taken(2)' = Taken(2)
      BY <2>1, SameTask
    <2>3. \A n \in 1..Len(sent) : sent[n] = Taken(n)'
      <3>1. \A n \in 1..Len(sent) : n \in {1, 2} /\ sent[n] = Taken(n)
        BY DEF RequestInv, SentInv
      <3> QED
        BY <2>2, <3>1
    <2>4. SentInv'
      BY <2>1, <2>2, <2>3 DEF RequestInv, SentInv
    <2> QED
      BY <2>1, <2>2, <2>4 DEF RequestInv, DeviceInv, CallInv, OperandInv, VerdictInv, ByIm2d
  <1> QED
    BY <1>1, <1>2, <1>3, <1>4, <1>5 DEF LegacyNext, Next

LEMMA SpecRequestInv == LegacySpec => []RequestInv
  BY InitRequestInv, NextRequestInv, PTL DEF LegacySpec
-----------------------------------------------------------------------------
(* What the checks let through                                             *)

\* A chain of checks, none of which is longer than eight, answers with the
\* first that fails, if one does.
LEMMA FirstOfSome ==
  ASSUME NEW bad, bad \subseteq 1..8, bad # {}
  PROVE  \E i \in bad : \A j \in bad : i <= j
  <1>1. \A i \in bad : i \in Int /\ i >= 1 /\ i <= 8
    OBVIOUS
  <1> DEFINE below(n) == \A j \in bad : j >= n
             ok == \E i \in bad : \A j \in bad : i <= j
  <1>2. below(1) /\ ~below(9)
    <2>1. PICK m \in bad : TRUE
      OBVIOUS
    <2> QED
      BY <1>1, <2>1
  <1>3. \A n \in 1..8 : below(n) => below(n + 1) \/ ok
    <2> SUFFICES ASSUME NEW n \in 1..8, below(n) PROVE below(n + 1) \/ ok
      OBVIOUS
    <2>1. CASE n \in bad
      BY <2>1
    <2>2. CASE n \notin bad
      BY <1>1, <2>2
    <2> QED
      BY <2>1, <2>2
  <1> HIDE DEF below, ok
  <1>4. \A n \in {1, 2, 3, 4, 5, 6, 7, 8} : below(n) => below(n + 1) \/ ok
    BY <1>3
  <1>5. ok
    BY <1>2, <1>4
  <1> QED
    BY <1>5 DEF ok

LEMMA FirstErrorIsOne ==
  ASSUME NEW checks, DOMAIN checks \subseteq 1..8
  PROVE  \/ FirstError(checks) = "NOERROR" /\ \A i \in DOMAIN checks : checks[i] = "NOERROR"
         \/ \E i \in DOMAIN checks : checks[i] # "NOERROR" /\ FirstError(checks) = checks[i]
  <1> DEFINE bad == {i \in DOMAIN checks : checks[i] # "NOERROR"}
  <1>1. CASE bad = {}
    BY <1>1 DEF FirstError
  <1>2. CASE bad # {}
    <2> DEFINE first == CHOOSE k \in bad : \A j \in bad : k <= j
    <2>1. bad \subseteq 1..8
      OBVIOUS
    <2>2. FirstError(checks) = checks[first]
      BY <1>2 DEF FirstError
    <2> HIDE DEF bad
    <2>3. \E i \in bad : \A j \in bad : i <= j
      BY <1>2, <2>1, FirstOfSome
    <2>4. first \in bad
      BY <2>3
    <2> HIDE DEF first
    <2> QED
      BY <2>2, <2>4 DEF bad
  <1> QED
    BY <1>1, <1>2

\* What a check may answer: never the status of a call that succeeded.
Answers == {"NOERROR", "ILLEGAL_PARAM", "INVALID_PARAM", "NOT_SUPPORTED"}

LEMMA ChainAnswers ==
  ASSUME NEW checks, DOMAIN checks \subseteq 1..8, \A i \in DOMAIN checks : checks[i] \in Answers
  PROVE  FirstError(checks) \in Answers
  BY FirstErrorIsOne DEF Answers

LEMMA ChainPasses ==
  ASSUME NEW checks, DOMAIN checks \subseteq 1..8, FirstError(checks) = "NOERROR"
  PROVE  \A i \in DOMAIN checks : checks[i] = "NOERROR"
  BY FirstErrorIsOne

LEMMA CheckAnswers == \A bad : /\ Check(bad, "ILLEGAL_PARAM") \in Answers
                               /\ Check(bad, "INVALID_PARAM") \in Answers
                               /\ Check(bad, "NOT_SUPPORTED") \in Answers
  BY DEF Check, Answers

\* The checks of one buffer and of its rectangle.
LEMMA InfoChecked ==
  ASSUME NEW b, NEW r, NEW res
  PROVE  /\ rga_check_info(b, r, res) \in Answers
         /\ rga_check_info(b, r, res) = "NOERROR" =>
              /\ ~(b.w <= 0 \/ b.h <= 0)
              /\ ~(b.ws < b.w \/ b.hs < b.h)
              /\ ~((r.w = 0 /\ r.h > 0) \/ (r.w > 0 /\ r.h = 0))
              /\ ~(r.w < 0 \/ r.h < 0 \/ r.x < 0 \/ r.y < 0)
              /\ ~(r.x + r.w > b.ws \/ r.y + r.h > b.hs)
  <1> DEFINE p1 == Check(b.w <= 0 \/ b.h <= 0, "ILLEGAL_PARAM")
             p2 == Check(b.w < 2 \/ b.h < 2, "ILLEGAL_PARAM")
             p3 == Check(b.ws < b.w \/ b.hs < b.h, "INVALID_PARAM")
             p4 == Check((r.w = 0 /\ r.h > 0) \/ (r.w > 0 /\ r.h = 0), "ILLEGAL_PARAM")
             p5 == Check(r.w < 0 \/ r.h < 0 \/ r.x < 0 \/ r.y < 0, "ILLEGAL_PARAM")
             p6 == Check(r.x + r.w > b.ws \/ r.y + r.h > b.hs, "INVALID_PARAM")
             p7 == Check(b.w > res.w \/ b.h > res.h, "NOT_SUPPORTED")
             p8 == Check(r.w > res.w \/ r.h > res.h, "NOT_SUPPORTED")
             all == <<p1, p2, p3, p4, p5, p6, p7, p8>>
  <1>1. rga_check_info(b, r, res) = FirstError(all)
    BY DEF rga_check_info
  <1>2. /\ p1 \in Answers /\ p2 \in Answers /\ p3 \in Answers /\ p4 \in Answers
        /\ p5 \in Answers /\ p6 \in Answers /\ p7 \in Answers /\ p8 \in Answers
    BY CheckAnswers
  <1>3. /\ p1 = "NOERROR" => ~(b.w <= 0 \/ b.h <= 0)
        /\ p3 = "NOERROR" => ~(b.ws < b.w \/ b.hs < b.h)
        /\ p4 = "NOERROR" => ~((r.w = 0 /\ r.h > 0) \/ (r.w > 0 /\ r.h = 0))
        /\ p5 = "NOERROR" => ~(r.w < 0 \/ r.h < 0 \/ r.x < 0 \/ r.y < 0)
        /\ p6 = "NOERROR" => ~(r.x + r.w > b.ws \/ r.y + r.h > b.hs)
    BY DEF Check
  <1> HIDE DEF p1, p2, p3, p4, p5, p6, p7, p8
  <1>4. DOMAIN all = 1..8 /\ \A i \in DOMAIN all : all[i] \in Answers
    BY <1>2
  <1>5. all[1] = p1 /\ all[3] = p3 /\ all[4] = p4 /\ all[5] = p5 /\ all[6] = p6
    OBVIOUS
  <1> HIDE DEF all
  <1>6. FirstError(all) \in Answers
    BY <1>4, ChainAnswers
  <1>7. FirstError(all) = "NOERROR" => \A i \in 1..8 : all[i] = "NOERROR"
    BY <1>4, ChainPasses
  <1>8. FirstError(all) = "NOERROR" =>
          p1 = "NOERROR" /\ p3 = "NOERROR" /\ p4 = "NOERROR" /\ p5 = "NOERROR" /\ p6 = "NOERROR"
    BY <1>5, <1>7
  <1> QED
    BY <1>1, <1>3, <1>6, <1>8

LEMMA BufferChecked ==
  ASSUME NEW b, NEW r, NEW res, NEW formats, NEW stride, NEW usage, NEW is_read
  PROVE  LET check == rga_check_buffer(b, r, res, formats, stride, usage, is_read)
         IN  check \in Answers /\ (check = "NOERROR" => rga_check_info(b, r, res) = "NOERROR")
  <1>0. "NOERROR" \in Answers
    BY DEF Answers
  <1>1. rga_check_info(b, r, res) \in Answers
    BY InfoChecked
  <1>2. rga_check_format(b, r, formats, usage) \in Answers
    <2>1. rga_yuv_legality_check(b, r) \in Answers
      BY CheckAnswers DEF rga_yuv_legality_check
    <2>2. PICK s, t \in Answers : rga_check_format(b, r, formats, usage) = FirstError(<<s, t>>)
      BY <1>0, <2>1, CheckAnswers DEF rga_check_format
    <2> QED
      BY <2>2, ChainAnswers
  <1>3. rga_check_align(b, stride, is_read) \in Answers
    <2>1. PICK s, t, u, v \in Answers : rga_check_align(b, stride, is_read) = FirstError(<<s, t, u, v>>)
      BY CheckAnswers DEF rga_check_align
    <2> QED
      BY <2>1, ChainAnswers
  <1> QED
    BY <1>1, <1>2, <1>3, ChainAnswers, ChainPasses DEF rga_check_buffer

\* The whole check: what it may answer, and what it establishes about the
\* features, the destination and a pattern that is blended.
LEMMA TaskChecked ==
  ASSUME NEW info, NEW src, NEW dst, NEW pat, NEW srect, NEW drect, NEW prect, NEW usage
  PROVE  LET check == rga_check(info, src, dst, pat, srect, drect, prect, usage)
         IN  /\ check \in Answers
             /\ check = "NOERROR" =>
                  /\ rga_check_info(dst, drect, info.output_resolution) = "NOERROR"
                  /\ UsesPat(usage, pat) => pat.w = dst.w /\ pat.h = dst.h
                  /\ usage \cap FeatureUsages \subseteq info.feature
  <1> DEFINE fill == "COLOR_FILL" \in usage
             pat_enable == UsesPat(usage, pat)
             input(b, r) == rga_check_buffer(b, r, info.input_resolution, info.input_format,
                                             info.byte_stride, usage, TRUE)
             p1 == rga_check_feature(src, dst, pat, pat_enable, usage, info.feature)
             p2 == IF fill THEN "NOERROR" ELSE input(src, srect)
             p3 == Check(pat_enable /\ IsRga1(info), "NOT_SUPPORTED")
             p4 == IF pat_enable THEN input(pat, prect) ELSE "NOERROR"
             p5 == rga_check_buffer(dst, drect, info.output_resolution, info.output_format,
                                    info.byte_stride, usage, FALSE)
             p6 == IF fill THEN "NOERROR" ELSE rga_check_limit(src, dst, info.scale_limit, usage)
             p7 == IF "BLEND" \in usage THEN rga_check_blend(dst, pat, pat_enable) ELSE "NOERROR"
             p8 == rga_check_rotate(usage, info)
             all == <<p1, p2, p3, p4, p5, p6, p7, p8>>
  <1>1. rga_check(info, src, dst, pat, srect, drect, prect, usage) = FirstError(all)
    BY DEF rga_check
  <1>0. "NOERROR" \in Answers
    BY DEF Answers
  <1>2. p1 \in Answers /\ (p1 = "NOERROR" => usage \cap FeatureUsages \subseteq info.feature)
    BY CheckAnswers DEF rga_check_feature, Check
  <1>3. p2 \in Answers /\ p4 \in Answers
    BY <1>0, BufferChecked
  <1>4. p3 \in Answers /\ p8 \in Answers
    BY CheckAnswers DEF rga_check_rotate
  <1>5. p5 \in Answers /\ (p5 = "NOERROR" => rga_check_info(dst, drect, info.output_resolution) = "NOERROR")
    BY BufferChecked
  <1>6. p6 \in Answers
    BY <1>0, CheckAnswers DEF rga_check_limit
  <1>7. p7 \in Answers /\ (p7 = "NOERROR" /\ pat_enable => pat.w = dst.w /\ pat.h = dst.h)
    <2> DEFINE mixed == Check(pat_enable /\ (pat.w # dst.w \/ pat.h # dst.h), "NOT_SUPPORTED")
               class == Check(~is_rgb_format(IF rga_is_buffer_valid(pat) THEN pat.fmt ELSE dst.fmt),
                              "NOT_SUPPORTED")
    <2>1. rga_check_blend(dst, pat, pat_enable) = FirstError(<<class, mixed>>)
      BY DEF rga_check_blend
    <2>2. class \in Answers /\ mixed \in Answers
      BY CheckAnswers
    <2>3. mixed = "NOERROR" /\ pat_enable => pat.w = dst.w /\ pat.h = dst.h
      BY DEF Check
    <2> HIDE DEF mixed, class
    <2>4. /\ FirstError(<<class, mixed>>) \in Answers
          /\ FirstError(<<class, mixed>>) = "NOERROR" => mixed = "NOERROR"
      BY <2>2, ChainAnswers, ChainPasses
    <2> QED
      BY <1>0, <2>1, <2>3, <2>4 DEF UsesPat
  <1> HIDE DEF p1, p2, p3, p4, p5, p6, p7, p8
  <1>8. DOMAIN all = 1..8 /\ \A i \in DOMAIN all : all[i] \in Answers
    BY <1>2, <1>3, <1>4, <1>5, <1>6, <1>7
  <1>9. all[1] = p1 /\ all[5] = p5 /\ all[7] = p7
    OBVIOUS
  <1> HIDE DEF all
  <1>10. FirstError(all) \in Answers
    BY <1>8, ChainAnswers
  <1>11. FirstError(all) = "NOERROR" => \A i \in 1..8 : all[i] = "NOERROR"
    BY <1>8, ChainPasses
  <1>12. FirstError(all) = "NOERROR" => p1 = "NOERROR" /\ p5 = "NOERROR" /\ p7 = "NOERROR"
    BY <1>9, <1>11
  <1> QED
    BY <1>1, <1>2, <1>5, <1>7, <1>10, <1>12

\* A pattern that nothing reads does not change the answer.
LEMMA UnreadPattern ==
  ASSUME NEW info, NEW src, NEW dst, NEW pat, NEW other, NEW srect, NEW drect, NEW prect, NEW usage,
         "BLEND" \notin usage
  PROVE  rga_check(info, src, dst, pat, srect, drect, prect, usage) =
           rga_check(info, src, dst, other, srect, drect, prect, usage)
  BY DEF rga_check, UsesPat, rga_check_feature, rga_check_blend

\* What a task that is not refused has passed, and which request it is for.
ReadsPat(c) == c.usage \cap {"COLOR_PALETTE", "BLEND"} # {} /\ rga_is_buffer_valid(c.pat)
PatOf(c) == IF ReadsPat(c) THEN rga_apply_rect(c.pat, c.prect) ELSE c.pat

LEMMA SubmitSucceeds ==
  ASSUME NEW dev, NEW c, rga_task_submit(dev, c).status = "SUCCESS"
  PROVE  LET src == rga_apply_rect(c.src, c.srect)
             dst == rga_apply_rect(c.dst, c.drect)
             pat == PatOf(c)
             mode == task_csc(dev.hardware_info, src, dst, pat).mode
         IN  /\ rga_is_buffer_valid(c.dst)
             /\ Known(src.fmt) /\ Known(dst.fmt)
             /\ rga_check(dev.hardware_info, src, dst, pat, c.srect, c.drect, c.prect, c.usage) = "NOERROR"
             /\ task_csc(dev.hardware_info, src, dst, pat).ok
             /\ rga_task_submit(dev, c) =
                  IF "COLOR_FILL" \in c.usage THEN generate_fill_req(dev, c, dst, mode)
                  ELSE IF "COLOR_PALETTE" \in c.usage
                  THEN generate_color_palette_req(dev, c, src, dst, pat)
                  ELSE generate_blit_req(dev, c, src, dst, pat, UsesPat(c.usage, pat), mode)
  <1> DEFINE src == rga_apply_rect(c.src, c.srect)
             dst == rga_apply_rect(c.dst, c.drect)
             pat == PatOf(c)
             checked == rga_check(dev.hardware_info, src, dst, pat, c.srect, c.drect, c.prect, c.usage)
  <1>1. checked # "SUCCESS"
    BY TaskChecked DEF Answers
  <1>2. \A s : Fails(s).status = "SUCCESS" => s = "SUCCESS"
    BY DEF Fails
  <1>3. rga_generate_gauss_coe(c.opt).status \in {"SUCCESS", "NOT_SUPPORTED"}
    BY DEF rga_generate_gauss_coe
  <1> QED
    BY <1>1, <1>2, <1>3 DEF rga_task_submit, ReadsPat, PatOf

\* AcceptedIsChecked: rga_task_submit applies the rectangles and checks the
\* operands itself, and accepts none that imcheck would refuse (the submit path,
\* im2d_impl.cpp 1843-1886, against rga_check_external), for every capability
\* table and all operands.
THEOREM AcceptedWasChecked == LegacySpec => []AcceptedIsChecked
  <1>1. RequestInv => AcceptedIsChecked
    <2> SUFFICES ASSUME RequestInv, ByIm2d, status = "SUCCESS", "CROP" \notin call.usage,
                        rga_is_buffer_valid(call.pat) => Known(call.pat.fmt)
                 PROVE  verdict = "NOERROR"
      BY DEF AcceptedIsChecked
    <2> DEFINE src == rga_apply_rect(call.src, call.srect)
               dst == rga_apply_rect(call.dst, call.drect)
               pat == IF rga_is_buffer_valid(call.pat) THEN rga_apply_rect(call.pat, call.prect)
                      ELSE call.pat
               answer(p) == rga_check(hw, src, dst, p, call.srect, call.drect, call.prect, call.usage)
    <2>1. rga_task_submit(device, call).status = "SUCCESS"
      BY DEF RequestInv, SentInv, TaskNow, Im2dTask
    <2>2. Known(src.fmt) /\ Known(dst.fmt) /\ answer(PatOf(call)) = "NOERROR"
      BY <2>1, SubmitSucceeds DEF hw
    <2>3. answer(pat) = answer(PatOf(call))
      <3>1. CASE "BLEND" \in call.usage
        BY <3>1 DEF PatOf, ReadsPat
      <3>2. CASE "BLEND" \notin call.usage
        BY <3>2, UnreadPattern
      <3> QED
        BY <3>1, <3>2
    <2>4. verdict = rga_check_external(hw, call)
      BY DEF RequestInv, VerdictInv
    <2>5. src.fmt = call.src.fmt /\ dst.fmt = call.dst.fmt
      <3>1. call \in Tasks
        BY NoCallIsNone DEF RequestInv, OperandInv, CallInv, ByIm2d
      <3> QED
        BY <3>1 DEF Tasks, rga_buffer_t, rga_apply_rect
    <2>6. rga_check_external(hw, call) = answer(pat)
      BY <2>2, <2>5 DEF rga_check_external
    <2> QED
      BY <2>2, <2>3, <2>4, <2>6
  <1> QED
    BY <1>1, SpecRequestInv, PTL
-----------------------------------------------------------------------------
(* Windows                                                                 *)

\* A window of six numbers.
Win(x, y, w, h, ws, hs) == [x |-> x, y |-> y, w |-> w, h |-> h, ws |-> ws, hs |-> hs]
Windows == [x : Int, y : Int, w : Int, h : Int, ws : Int, hs : Int]
Quarter(rot) == rot \in {"ROT_90", "ROT_270"}
Facing(win, rot) == IF Quarter(rot) THEN Turned(win) ELSE win

LEMMA FacingWindow ==
  ASSUME NEW win \in Windows, NEW rot
  PROVE  /\ Facing(win, rot) \in Windows
         /\ Quarter(rot) => Facing(win, rot) = Win(win.x, win.y, win.h, win.w, win.ws, win.hs)
         /\ ~Quarter(rot) => Facing(win, rot) = win
         /\ Facing(NoWindow, rot) = NoWindow
         /\ win = Win(win.x, win.y, win.w, win.h, win.ws, win.hs)
  BY DEF Windows, Win, Facing, Turned, NoWindow

LEMMA OperandWindows ==
  ASSUME NEW b \in rga_buffer_t, NEW r \in im_rect
  PROVE  /\ Window(rga_apply_rect(b, r), r) \in Windows
         /\ Named(b, r) \in Windows /\ LegacyWindow(b, r) = Named(b, r)
         /\ \A fmt : checkRectForRga(Window(rga_apply_rect(b, r), r), fmt) =>
              Window(rga_apply_rect(b, r), r) = Named(b, r)
         /\ rga_apply_rect(b, r).addr = b.addr /\ rga_apply_rect(b, r).fmt = b.fmt
         /\ rga_apply_rect(b, r).csm = b.csm
  BY DEF rga_buffer_t, im_rect, Window, rga_apply_rect, Windows, Named, LegacyWindow, checkRectForRga

\* The turn of a request, in the two registers an older driver reads it from.
LEMMA TurnRegisters ==
  ASSUME NEW rot \in Rotations \cup {"NONE"}
  PROVE  /\ rot = "NONE" => sina_table[Angle(rot)] = 0 /\ cosa_table[Angle(rot)] = 65536
         /\ rot = "ROT_90" => sina_table[Angle(rot)] = 65536 /\ cosa_table[Angle(rot)] = 0
         /\ rot = "ROT_180" => sina_table[Angle(rot)] = 0 /\ cosa_table[Angle(rot)] = -65536
         /\ rot = "ROT_270" => sina_table[Angle(rot)] = -65536 /\ cosa_table[Angle(rot)] = 0
  BY SMT DEF Rotations, Angle, sina_table, cosa_table

LEMMA WinFields == \A x, y, w, h, ws, hs : 
     /\ Win(x, y, w, h, ws, hs).x = x /\ Win(x, y, w, h, ws, hs).y = y
     /\ Win(x, y, w, h, ws, hs).w = w /\ Win(x, y, w, h, ws, hs).h = h 
     /\ Win(x, y, w, h, ws, hs).ws = ws /\ Win(x, y, w, h, ws, hs).hs = hs
  BY DEF Win

Move(win, a, b) == [win EXCEPT !.x = a, !.y = b]

LEMMA WinMoved ==
  \A x, y, w, h, ws, hs, a, b : Move(Win(x, y, w, h, ws, hs), a, b) = Win(a, b, w, h, ws, hs)
  <1> SUFFICES ASSUME NEW x, NEW y, NEW w, NEW h, NEW ws, NEW hs, NEW a, NEW b 
               PROVE  Move(Win(x, y, w, h, ws, hs), a, b) = Win(a, b, w, h, ws, hs)
    OBVIOUS
  <1>1. [Win(x, y, w, h, ws, hs) EXCEPT !.x = a] = Win(a, y, w, h, ws, hs)
    BY DEF Win
  <1>2. [Win(a, y, w, h, ws, hs) EXCEPT !.y = b] = Win(a, b, w, h, ws, hs)
    BY DEF Win
  <1>3. Move(Win(x, y, w, h, ws, hs), a, b) = [[Win(x, y, w, h, ws, hs) EXCEPT !.x = a] EXCEPT !.y = b]
    BY DEF Move
  <1> QED
    BY <1>1, <1>2, <1>3

LEMMA WinTurned ==  \A x, y, w, h, ws, hs : Turned(Win(x, y, w, h, ws, hs)) = Win(x, y, h, w, ws, hs)
  <1> SUFFICES ASSUME NEW x, NEW y, NEW w, NEW h, NEW ws, NEW hs
               PROVE Turned(Win(x, y, w, h, ws, hs)) = Win(x, y, h, w, ws, hs)
    OBVIOUS
  <1>1. [Win(x, y, w, h, ws, hs) EXCEPT !.w = h] = Win(x, y, h, h, ws, hs)
    BY DEF Win
  <1>2. [Win(x, y, h, h, ws, hs) EXCEPT !.h = w] = Win(x, y, h, w, ws, hs)
    BY DEF Win
  <1> DEFINE v == Win(x, y, w, h, ws, hs)
  <1>3. v.w = w /\ v.h = h
    BY WinFields
  <1>4. Turned(v) = [v EXCEPT !.w = v.h, !.h = v.w]
    BY DEF Turned
  <1> HIDE DEF v
  <1>5. [v EXCEPT !.w = h, !.h = w] = [[v EXCEPT !.w = h] EXCEPT !.h = w]
    OBVIOUS
  <1>6. Turned(v) = [[v EXCEPT !.w = h] EXCEPT !.h = w]
    BY <1>3, <1>4, <1>5
  <1> QED
    BY <1>1, <1>2, <1>6 DEF v

\* The area a request is for, from where its destination starts and its size.
LEMMA FootprintOf ==
  ASSUME NEW req, NEW x, NEW y, NEW w, NEW h, NEW ws, NEW hs,
         req.dst = Win(x, y, w, h, ws, hs)
  PROVE  LET old == device.driver # "multi" IN
         /\ req.rotation = "NONE" => Footprint(req) = Win(x, y, w, h, ws, hs)
         /\ req.rotation = "ROT_90" => Footprint(req) =
              Win(IF old THEN x - h + 1 ELSE x, y, h, w, ws, hs)
         /\ req.rotation = "ROT_180" => Footprint(req) =
              Win(IF old THEN x - w + 1 ELSE x, IF old THEN y - h + 1 ELSE y, w, h, ws, hs)
         /\ req.rotation = "ROT_270" => Footprint(req) =
              Win(x, IF old THEN y - w + 1 ELSE y, h, w, ws, hs)
  <1> DEFINE area == IF req.rotation \in {"ROT_90", "ROT_270"} THEN Turned(req.dst) ELSE req.dst
             left == req.rotation \in {"ROT_90", "ROT_180"} /\ device.driver # "multi"
             up == req.rotation \in {"ROT_270", "ROT_180"} /\ device.driver # "multi"
             a == IF left THEN req.dst.x - area.w + 1 ELSE req.dst.x
             b == IF up THEN req.dst.y - area.h + 1 ELSE req.dst.y
  <1>1. Footprint(req) = Move(area, a, b)
    BY DEF Footprint, Move
  <1>2. area = IF req.rotation \in {"ROT_90", "ROT_270"} THEN Win(x, y, h, w, ws, hs)
               ELSE Win(x, y, w, h, ws, hs)
    BY WinTurned
  <1>3. /\ a = IF left THEN x - area.w + 1 ELSE x
        /\ b = IF up THEN y - area.h + 1 ELSE y
        /\ area.w = IF req.rotation \in {"ROT_90", "ROT_270"} THEN h ELSE w
        /\ area.h = IF req.rotation \in {"ROT_90", "ROT_270"} THEN w ELSE h
    BY <1>2, WinFields
  <1> HIDE DEF area, a, b
  <1>4. Footprint(req) = IF req.rotation \in {"ROT_90", "ROT_270"} THEN Win(a, b, h, w, ws, hs)
                         ELSE Win(a, b, w, h, ws, hs)
    BY <1>1, <1>2, WinMoved
  <1> QED
    BY <1>3, <1>4

\* Converting a request for an older driver moves the corner of its destination
\* and strips its registers.
LEMMA Converted ==
  ASSUME NEW kind, NEW src, NEW src1, NEW x, NEW y, NEW w, NEW h, NEW ws, NEW hs,
         NEW rot, NEW flip, NEW interp, NEW csc, NEW reg
  PROVE  LET f == Win(x, y, w, h, ws, hs)
             conv == NormalRgaCompatModeConvertRga2(Request(kind, src, src1, f, rot, flip, interp, csc, reg))
             a == IF reg.sina = 65536 /\ reg.cosa = 0 THEN x + h - 1
                  ELSE IF reg.sina = 0 /\ reg.cosa = -65536 THEN x + w - 1 ELSE x
             b == IF reg.sina = 0 /\ reg.cosa = -65536 THEN y + h - 1
                  ELSE IF reg.sina = -65536 /\ reg.cosa = 0 THEN y + w - 1 ELSE y
         IN  /\ conv.kind = kind /\ conv.src = src /\ conv.src1 = src1 /\ conv.rotation = rot
             /\ conv.flip = flip /\ conv.interp = interp /\ conv.csc = csc
             /\ conv.reg = NormalRgaCompatModeConvertRga2Fields(reg)
             /\ conv.dst = Win(a, b, w, h, ws, hs)
  <1> DEFINE f == Win(x, y, w, h, ws, hs)
             req == Request(kind, src, src1, f, rot, flip, interp, csc, reg)
             conv == NormalRgaCompatModeConvertRga2(req)
  <1>1. /\ conv.kind = kind /\ conv.src = src /\ conv.src1 = src1 /\ conv.rotation = rot
        /\ conv.flip = flip /\ conv.interp = interp /\ conv.csc = csc
    BY DEF NormalRgaCompatModeConvertRga2, Request
  <1>2. conv.reg = NormalRgaCompatModeConvertRga2Fields(reg)
    BY DEF NormalRgaCompatModeConvertRga2, Request
  <1> DEFINE a == IF reg.sina = 65536 /\ reg.cosa = 0 THEN x + h - 1
                  ELSE IF reg.sina = 0 /\ reg.cosa = -65536 THEN x + w - 1 ELSE x
             b == IF reg.sina = 0 /\ reg.cosa = -65536 THEN y + h - 1
                  ELSE IF reg.sina = -65536 /\ reg.cosa = 0 THEN y + w - 1 ELSE y
  <1> DEFINE a1 == CASE reg.sina = 65536 /\ reg.cosa = 0 -> f.x + f.h - 1
                     [] reg.sina = 0 /\ reg.cosa = -65536 -> f.x + f.w - 1
                     [] OTHER -> f.x
             b1 == CASE reg.sina = 0 /\ reg.cosa = -65536 -> f.y + f.h - 1
                     [] reg.sina = -65536 /\ reg.cosa = 0 -> f.y + f.w - 1
                     [] OTHER -> f.y
             fields == NormalRgaCompatModeConvertRga2Fields(reg)
  <1>3. a1 = a /\ b1 = b
    BY WinFields
  <1> HIDE DEF f
  <1>4. conv = [req EXCEPT !.reg = fields, !.dst.x = a1, !.dst.y = b1]
    BY DEF NormalRgaCompatModeConvertRga2, Request
  <1> HIDE DEF a, b, a1, b1, fields, conv
  <1>5. [req EXCEPT !.reg = fields, !.dst.x = a1, !.dst.y = b1].dst = Move(f, a1, b1)
    BY DEF Request, Move
  <1> HIDE DEF req
  <1>6. conv.dst = Move(f, a1, b1)
    BY <1>4, <1>5
  <1>7. Move(f, a1, b1) = Win(a1, b1, w, h, ws, hs)
    BY WinMoved DEF f
  <1>8. conv.dst = Win(a, b, w, h, ws, hs)
    BY <1>3, <1>6, <1>7
  <1> QED
    BY <1>1, <1>2, <1>8 DEF conv, req, f, a, b

\* What the driver gets of a request, and the area it writes: the rectangle the
\* request is for, whatever the turn and whichever driver gets it.
LEMMA DriverGets ==
  ASSUME NEW kind, NEW src, NEW src1, NEW d \in Windows, NEW rot \in Rotations \cup {"NONE"},
         NEW flip, NEW interp, NEW csc, NEW reg,
         \/ reg.sina = sina_table[Angle(rot)] /\ reg.cosa = cosa_table[Angle(rot)]
         \/ reg.sina = 0 /\ reg.cosa = 0 /\ rot = "NONE",
         kind = "update_palette" => rot = "NONE"
  PROVE  LET req == Request(kind, src, src1, Facing(d, rot), rot, flip, interp, csc, reg)
             got == ForDriver(device.driver, req)
         IN  /\ got.kind = kind /\ got.src = src /\ got.src1 = src1 /\ got.rotation = rot
             /\ got.flip = flip /\ got.interp = interp /\ got.csc = csc
             /\ got.dst.w = Facing(d, rot).w /\ got.dst.h = Facing(d, rot).h
             /\ got.reg = IF device.driver = "multi" \/ kind = "update_palette" THEN reg
                          ELSE NormalRgaCompatModeConvertRga2Fields(reg)
             /\ Footprint(got) = d
  <1> DEFINE f == Facing(d, rot)
             req == Request(kind, src, src1, f, rot, flip, interp, csc, reg)
             got == ForDriver(device.driver, req)
             x == f.x
             y == f.y
             w == f.w
             h == f.h
             ws == f.ws
             hs == f.hs
  <1>1. d.x \in Int /\ d.y \in Int /\ d.w \in Int /\ d.h \in Int
    BY DEF Windows
  <1>2. d = Win(d.x, d.y, d.w, d.h, d.ws, d.hs)
    BY FacingWindow
  <1>3. /\ f = Win(x, y, w, h, ws, hs)
        /\ x = d.x /\ y = d.y /\ ws = d.ws /\ hs = d.hs
        /\ w = (IF Quarter(rot) THEN d.h ELSE d.w) /\ h = (IF Quarter(rot) THEN d.w ELSE d.h)
    BY <1>2, WinFields, WinTurned DEF Facing
  <1>4. rot \in {"NONE", "ROT_90", "ROT_180", "ROT_270"}
    BY DEF Rotations
  <1> HIDE DEF f, x, y, w, h, ws, hs
  <1>5. CASE device.driver = "multi" \/ kind = "update_palette"
    <2>1. got = req
      BY <1>5 DEF ForDriver, Request
    <2>2. got.rotation = rot /\ got.dst = Win(x, y, w, h, ws, hs)
      BY <1>3, <2>1 DEF Request
    <2> HIDE DEF got
    <2>3. Footprint(got) = d
      BY <1>2, <1>3, <1>4, <1>5, <2>2, FootprintOf DEF Quarter
    <2> QED
      BY <1>5, <2>1, <2>3 DEF Request, got, f
  <1>6. CASE device.driver # "multi" /\ kind # "update_palette"
    <2>1. got = NormalRgaCompatModeConvertRga2(req)
      BY <1>6 DEF ForDriver, Request
    <2> DEFINE a == IF rot = "ROT_90" THEN x + h - 1 ELSE IF rot = "ROT_180" THEN x + w - 1 ELSE x
               b == IF rot = "ROT_180" THEN y + h - 1 ELSE IF rot = "ROT_270" THEN y + w - 1 ELSE y
    <2>2. /\ got.kind = kind /\ got.src = src /\ got.src1 = src1 /\ got.rotation = rot
          /\ got.flip = flip /\ got.interp = interp /\ got.csc = csc
          /\ got.reg = NormalRgaCompatModeConvertRga2Fields(reg)
          /\ got.dst = Win(a, b, w, h, ws, hs)
      BY <1>3, <1>4, <2>1, Converted, TurnRegisters
    <2>3. got.dst.w = w /\ got.dst.h = h
      BY <2>2, WinFields
    <2> HIDE DEF got
    <2>4. /\ rot = "NONE" => a = d.x /\ b = d.y
          /\ rot = "ROT_90" => a - h + 1 = d.x /\ b = d.y
          /\ rot = "ROT_180" => a - w + 1 = d.x /\ b - h + 1 = d.y
          /\ rot = "ROT_270" => a = d.x /\ b - w + 1 = d.y
      BY <1>1, <1>3
    <2> HIDE DEF a, b
    <2>5. Footprint(got) = d
      BY <1>2, <1>3, <1>4, <1>6, <2>2, <2>4, FootprintOf DEF Quarter
    <2> QED
      BY <1>6, <2>2, <2>3, <2>5 DEF got, f, w, h
  <1> QED
    BY <1>5, <1>6
-----------------------------------------------------------------------------
(* The requests of a call                                                  *)

\* The rectangles of the operands, the turn, and the registers a blit has of
\* either interface.
SrcRect == Named(call.src, call.srect)
DstRect == Named(call.dst, call.drect)
PatRect(usePat) == IF usePat THEN Named(call.pat, call.prect) ELSE NoWindow
Rot == OnlyOne(call.usage, Rotations)
Flip == OnlyOne(call.usage, Flips)

BlitRegs(usePat, clip) ==
  IF ByIm2d
  THEN blit_regs(AddressLayout(device), call, rga_apply_rect(call.src, call.srect), PatOf(call), usePat,
                 rga_apply_rect(call.dst, call.drect), Rot, clip)
  ELSE LegacyRegs(LegacyLayout(mVersion), call, usePat, Rot, clip)

\* The conversion of a task, and of the request im2d makes of it.
TaskCsc == task_csc(hw, rga_apply_rect(call.src, call.srect), rga_apply_rect(call.dst, call.drect), PatOf(call))
BlitCsc(usePat) == request_csc(TaskCsc.mode, call.src.fmt, call.dst.fmt, IF usePat THEN call.pat.fmt ELSE "none")
Im2dConverts(usePat, csc) ==
  /\ usePat <=> UsesPat(call.usage, call.pat)
  /\ TaskCsc.ok /\ BlitCsc(usePat).ok /\ csc = BlitCsc(usePat).mode

\* The interpolation a blit was asked for; RgaBlit is told without options.
AskedInterp == IF ByIm2d THEN task_interp(call) ELSE call.interp

\* What is known of a blit that was not refused.
BlitWith(req, usePat, limit, csc, clip) ==
  /\ req = Request("blit", SrcRect, Facing(PatRect(usePat), Rot), Facing(DstRect, Rot), Rot, Flip,
                   PickInterp(AskedInterp, SrcRect, ScaleTo(DstRect, PatRect(usePat), usePat, Rot, Flip), DstRect, limit), csc,
                   BlitRegs(usePat, clip))
  /\ checkRectForRga(SrcRect, call.src.fmt) /\ checkRectForRga(DstRect, call.dst.fmt)
  /\ usePat => checkRectForRga(PatRect(usePat), call.pat.fmt) /\ "BLEND" \in call.usage
  /\ ByIm2d /\ usePat => PatRect(usePat).w = DstRect.w /\ PatRect(usePat).h = DstRect.h
  /\ ByIm2d => Im2dConverts(usePat, csc)
  /\ \A b \in {call.src, call.dst} \cup (IF usePat THEN {call.pat} ELSE {}) : rga_is_buffer_valid(b)

MadeBlit(req) == \E usePat \in BOOLEAN : \E limit, csc, clip : BlitWith(req, usePat, limit, csc, clip)

FillWindow == IF ByIm2d THEN Window(rga_apply_rect(call.dst, call.drect), call.drect) ELSE DstRect
FillRegs(clip) ==
  IF ByIm2d THEN fill_regs(AddressLayout(device), rga_apply_rect(call.dst, call.drect))
  ELSE LegacyFillRegs(LegacyFillLayout(mVersion), call.dst, clip)
MadeFill(req) ==
  \E csc, clip :
    /\ req = Request("fill", NoWindow, NoWindow, FillWindow, "NONE", "NONE", DefaultInterp, csc,
                     FillRegs(clip))
    /\ rga_is_buffer_valid(call.dst)
    /\ ByIm2d => rga_check_info(rga_apply_rect(call.dst, call.drect), call.drect,
                                hw.output_resolution) = "NOERROR"

PaletteRegs(clip) ==
  IF ByIm2d
  THEN palette_regs(AddressLayout(device), rga_apply_rect(call.src, call.srect), PatOf(call),
                    rga_apply_rect(call.dst, call.drect), clip)
  ELSE LegacyPaletteRegs(LegacyLayout(mVersion), call, clip)
MadePalette(req) ==
  \E kind \in {"update_palette", "palette"} : \E lut, clip :
    /\ req = Request(kind, SrcRect, lut, DstRect, "NONE", "NONE", DefaultInterp, IM_COLOR_SPACE_DEFAULT,
                     PaletteRegs(clip))
    /\ checkRectForRga(SrcRect, call.src.fmt) /\ checkRectForRga(DstRect, call.dst.fmt)
    /\ \A b \in {call.src, call.dst, call.pat} : b.addr = "handle"

Made(req) == \/ req \in {ZeroRequest, StrayRequest}
             \/ MadeBlit(req) \/ MadeFill(req) \/ MadePalette(req)

\* A pattern that is used is the one the caller passed, cut to its rectangle.
LEMMA PatternOf ==
  ASSUME call \in Tasks
  PROVE  /\ UsesPat(call.usage, PatOf(call)) =>
              /\ PatOf(call) = rga_apply_rect(call.pat, call.prect)
              /\ "BLEND" \in call.usage /\ rga_is_buffer_valid(call.pat)
         /\ PatOf(call).addr = call.pat.addr /\ PatOf(call).fmt = call.pat.fmt
         /\ PatOf(call).csm = call.pat.csm
  BY OperandWindows DEF Tasks, PatOf, ReadsPat, UsesPat, rga_is_buffer_valid

LEMMA Im2dMakes ==
  ASSUME call \in Tasks, ByIm2d, Im2dTask.status = "SUCCESS", NEW i \in DOMAIN Im2dTask.requests
  PROVE  Made(Im2dTask.requests[i])
  <1> DEFINE src == rga_apply_rect(call.src, call.srect)
             dst == rga_apply_rect(call.dst, call.drect)
             pat == PatOf(call)
             mode == task_csc(device.hardware_info, src, dst, pat).mode
             req == Im2dTask.requests[i]
  <1>1. /\ rga_is_buffer_valid(call.dst)
        /\ rga_check(hw, src, dst, pat, call.srect, call.drect, call.prect, call.usage) = "NOERROR"
        /\ task_csc(device.hardware_info, src, dst, pat).ok
        /\ Im2dTask = IF "COLOR_FILL" \in call.usage THEN generate_fill_req(device, call, dst, mode)
                      ELSE IF "COLOR_PALETTE" \in call.usage
                      THEN generate_color_palette_req(device, call, src, dst, pat)
                      ELSE generate_blit_req(device, call, src, dst, pat, UsesPat(call.usage, pat), mode)
    BY SubmitSucceeds DEF Im2dTask, hw
  <1>2. /\ rga_check_info(dst, call.drect, hw.output_resolution) = "NOERROR"
        /\ UsesPat(call.usage, pat) => pat.w = dst.w /\ pat.h = dst.h
    BY <1>1, TaskChecked
  <1>3. /\ src.addr = call.src.addr /\ src.fmt = call.src.fmt
        /\ dst.addr = call.dst.addr /\ dst.fmt = call.dst.fmt
        /\ \A fmt : checkRectForRga(Window(src, call.srect), fmt) => Window(src, call.srect) = SrcRect
        /\ \A fmt : checkRectForRga(Window(dst, call.drect), fmt) => Window(dst, call.drect) = DstRect
    BY OperandWindows DEF Tasks, SrcRect, DstRect
  <1>4. \A a, b : /\ DOMAIN Sends(<<a>>).requests = {1} /\ Sends(<<a>>).requests[1] = a
                  /\ DOMAIN Sends(<<a, b>>).requests = {1, 2}
                  /\ Sends(<<a, b>>).requests[1] = a /\ Sends(<<a, b>>).requests[2] = b
    BY DEF Sends
  <1>5. \A s : Fails(s).status = s /\ DOMAIN Fails(s).requests = {}
    BY DEF Fails
  <1>6. CASE "COLOR_FILL" \in call.usage
    <2>1. PICK csc : Im2dTask = Sends(<<Request("fill", NoWindow, NoWindow, Window(dst, call.drect),
                       "NONE", "NONE", DefaultInterp, csc, fill_regs(AddressLayout(device), dst))>>)
      BY <1>1, <1>6 DEF generate_fill_req
    <2>2. MadeFill(req)
      BY <1>1, <1>2, <1>4, <2>1 DEF MadeFill, FillRegs, FillWindow
    <2> QED
      BY <2>2 DEF Made
  <1>7. CASE "COLOR_FILL" \notin call.usage /\ "COLOR_PALETTE" \in call.usage
    <2> DEFINE s == Window(src, call.srect)
               d == Window(dst, call.drect)
               lut == IF rga_is_buffer_valid(pat) THEN Window(pat, call.prect) ELSE NoWindow
               regs == palette_regs(AddressLayout(device), src, pat, dst, Size(d.ws, d.hs))
               made(kind) == Request(kind, s, lut, d, "NONE", "NONE", DefaultInterp,
                                     IM_COLOR_SPACE_DEFAULT, regs)
    <2>1. Im2dTask = IF (\E b \in {src, dst, pat} : b.addr # "handle") \/ ~PaletteRectsFit(s, src, d, dst)
                     THEN Fails("FAILED") ELSE Sends(<<made("update_palette"), made("palette")>>)
      BY <1>1, <1>7 DEF generate_color_palette_req
    <2>2. /\ \A b \in {src, dst, pat} : b.addr = "handle"
          /\ PaletteRectsFit(s, src, d, dst)
          /\ req \in {made("update_palette"), made("palette")}
      BY <1>4, <1>5, <2>1
    <2>3. s = SrcRect /\ d = DstRect /\ checkRectForRga(s, call.src.fmt) /\ checkRectForRga(d, call.dst.fmt)
      BY <1>3, <2>2 DEF PaletteRectsFit
    <2>4. \A b \in {call.src, call.dst, call.pat} : b.addr = "handle"
      BY <1>3, <2>2, PatternOf
    <2>5. regs = PaletteRegs(Size(d.ws, d.hs))
      BY DEF PaletteRegs
    <2> HIDE DEF regs, lut
    <2>6. MadePalette(req)
      BY <2>2, <2>3, <2>4, <2>5 DEF MadePalette
    <2> QED
      BY <2>6 DEF Made
  <1>8. CASE "COLOR_FILL" \notin call.usage /\ "COLOR_PALETTE" \notin call.usage
    <2> DEFINE usePat == UsesPat(call.usage, pat)
               s == Window(src, call.srect)
               d == Window(dst, call.drect)
               p == IF usePat THEN Window(pat, call.prect) ELSE NoWindow
               limit == device.hardware_info.scale_ver_bicubic_limit
               csc == request_csc(mode, src.fmt, dst.fmt, IF usePat THEN pat.fmt ELSE "none")
               clip == Size(d.ws, d.hs)
               interp == PickInterp(task_interp(call), s, ScaleTo(d, p, usePat, Rot, Flip), d, limit)
               regs == blit_regs(AddressLayout(device), call, src, pat, usePat, dst, Rot, clip)
               made == Request("blit", s, Facing(p, Rot), Facing(d, Rot), Rot, Flip, interp, csc.mode, regs)
    <2>1. Im2dTask = generate_blit_req(device, call, src, dst, pat, usePat, mode)
      BY SMTT(40), <1>1, <1>8
    <2>2. \/ Im2dTask = Fails("FAILED")
          \/ Im2dTask = Sends(<<ZeroRequest>>)
          \/ /\ Im2dTask = Sends(<<made>>) /\ rga_is_buffer_valid(src) /\ csc.ok
             /\ BlitRectsFit(s, src, p, pat, usePat, d, dst)
      BY <2>1 DEF generate_blit_req, Rot, Flip, Facing, Quarter
    <2>3. CASE Im2dTask = Sends(<<ZeroRequest>>)
      BY <1>4, <2>3 DEF Made
    <2>4. CASE /\ Im2dTask = Sends(<<made>>) /\ rga_is_buffer_valid(src) /\ csc.ok
               /\ BlitRectsFit(s, src, p, pat, usePat, d, dst)
      <3>1. req = made
        BY <1>4, <2>4
      <3>2. s = SrcRect /\ d = DstRect /\ checkRectForRga(s, call.src.fmt) /\ checkRectForRga(d, call.dst.fmt)
        BY <1>3, <2>4 DEF BlitRectsFit
      <3>3. usePat => pat = rga_apply_rect(call.pat, call.prect) /\ "BLEND" \in call.usage
                      /\ rga_is_buffer_valid(call.pat) /\ pat.fmt = call.pat.fmt
        BY SMTT(40), PatternOf
      <3>4. /\ p = PatRect(usePat)
            /\ usePat => checkRectForRga(p, call.pat.fmt)
        BY <2>4, <3>3, OperandWindows DEF BlitRectsFit, PatRect, Tasks
      <3>5. usePat => p.w = d.w /\ p.h = d.h
        BY <1>2 DEF Window
      <3>6. rga_is_buffer_valid(call.src)
        BY <1>3, <2>4 DEF rga_is_buffer_valid
      <3>7. regs = BlitRegs(usePat, clip)
        BY DEF BlitRegs
      <3>8. usePat \in BOOLEAN
        BY DEF UsesPat, rga_is_buffer_valid
      <3>9. \A b \in {call.src, call.dst} \cup (IF usePat THEN {call.pat} ELSE {}) : rga_is_buffer_valid(b)
        BY <1>1, <3>3, <3>6
      <3>10. made = Request("blit", SrcRect, Facing(PatRect(usePat), Rot), Facing(DstRect, Rot), Rot, Flip,
               PickInterp(AskedInterp, SrcRect, ScaleTo(DstRect, PatRect(usePat), usePat, Rot, Flip),
                          DstRect, limit), csc.mode, BlitRegs(usePat, clip))
        BY SMTT(40), <3>2, <3>4, <3>7 DEF AskedInterp
      <3>11. Im2dConverts(usePat, csc.mode)
        <4>1. UsesPat(call.usage, pat) <=> UsesPat(call.usage, call.pat)
          BY PatternOf DEF UsesPat, rga_is_buffer_valid
        <4>2. csc = BlitCsc(usePat)
          BY <1>3, PatternOf DEF BlitCsc, TaskCsc, hw
        <4> QED
          BY <1>1, <2>4, <4>1, <4>2 DEF Im2dConverts, TaskCsc, hw
      <3> HIDE DEF usePat, s, d, p, limit, csc, clip, interp, regs, made
      <3>12. BlitWith(req, usePat, limit, csc.mode, clip)
        BY <3>1, <3>2, <3>3, <3>4, <3>5, <3>9, <3>10, <3>11 DEF BlitWith
      <3> QED
        BY SMTT(40), <3>8, <3>12 DEF Made, MadeBlit
    <2> QED
      BY <1>5, <2>2, <2>3, <2>4
  <1> QED
    BY <1>6, <1>7, <1>8

LEMMA LegacyMakes ==
  ASSUME call \in Tasks, ~ByIm2d, LegacyTask.status = "SUCCESS", NEW i \in DOMAIN LegacyTask.requests
  PROVE  Made(LegacyTask.requests[i])
  <1> DEFINE req == LegacyTask.requests[i]
  <1>1. /\ LegacyWindow(call.src, call.srect) = SrcRect
        /\ LegacyWindow(call.dst, call.drect) = DstRect
        /\ LegacyWindow(call.pat, call.prect) = Named(call.pat, call.prect)
    BY OperandWindows DEF Tasks, SrcRect, DstRect
  <1>2. \A a, b : /\ DOMAIN Sends(<<a>>).requests = {1} /\ Sends(<<a>>).requests[1] = a
                  /\ DOMAIN Sends(<<a, b>>).requests = {1, 2}
                  /\ Sends(<<a, b>>).requests[1] = a /\ Sends(<<a, b>>).requests[2] = b
                  /\ DOMAIN Sends(<<>>).requests = {}
    BY DEF Sends
  <1>3. \A s : Fails(s).status = s /\ DOMAIN Fails(s).requests = {}
    BY DEF Fails
  <1>4. \A b : ~Addressless(b) => rga_is_buffer_valid(b)
    BY DEF Addressless, rga_is_buffer_valid
  <1>5. CASE "COLOR_FILL" \in call.usage
    <2> DEFINE d == LegacyWindow(call.dst, call.drect)
               clip == Size(d.w, d.h)
               regs == LegacyFillRegs(LegacyFillLayout(mVersion), call.dst, clip)
               csc == FillCsc(call.dst.csm, call.dst.fmt)
               made == Request("fill", NoWindow, NoWindow, d, "NONE", "NONE", DefaultInterp, csc, regs)
    <2>1. \/ LegacyTask = Sends(<<>>) \/ LegacyTask = Fails("FAILED")
          \/ LegacyTask = Sends(<<made>>) /\ call.dst.addr \notin {"none", "fd0"}
      BY <1>5 DEF LegacyTask, RgaCollorFill
    <2>2. req = made /\ rga_is_buffer_valid(call.dst)
      BY <1>2, <1>3, <2>1 DEF rga_is_buffer_valid
    <2>3. d = FillWindow /\ regs = FillRegs(clip)
      BY <1>1 DEF FillWindow, FillRegs
    <2> HIDE DEF d, clip, regs, csc
    <2>4. MadeFill(req)
      BY <2>2, <2>3 DEF MadeFill
    <2> QED
      BY <2>4 DEF Made
  <1>6. CASE "COLOR_FILL" \notin call.usage /\ "COLOR_PALETTE" \in call.usage
    <2> DEFINE lut == call.pat.w > 0
               s == LegacyWindow(call.src, call.srect)
               d == LegacyWindow(call.dst, call.drect)
               clip == Size(d.ws, d.hs)
               p == Window(rga_apply_rect(call.pat, call.prect), call.prect)
               regs == LegacyPaletteRegs(LegacyLayout(mVersion), call, clip)
               load == PaletteRequest(s, p, d, regs)
               bufs == {call.src, call.dst} \cup (IF lut THEN {call.pat} ELSE {})
    <2>1. LegacyTask = IF (\E b \in bufs : b.addr # "handle") \/ ~LegacyPaletteRectsFit(call, s, d)
                       THEN Fails("FAILED")
                       ELSE Sends(IF lut THEN <<load, StrayRequest>> ELSE <<StrayRequest>>)
      BY <1>6 DEF LegacyTask, RgaCollorPalette
    <2>2. /\ \A b \in bufs : b.addr = "handle"
          /\ LegacyPaletteRectsFit(call, s, d)
          /\ LegacyTask = Sends(IF lut THEN <<load, StrayRequest>> ELSE <<StrayRequest>>)
      BY <1>3, <2>1
    <2>3. req = StrayRequest \/ (req = load /\ lut)
      <3>1. CASE lut
        <4>1. LegacyTask = Sends(<<load, StrayRequest>>)
          BY <2>2, <3>1
        <4> HIDE DEF load
        <4> QED
          BY <1>2, <3>1, <4>1
      <3>2. CASE ~lut
        <4>1. LegacyTask = Sends(<<StrayRequest>>)
          BY <2>2, <3>2
        <4> QED
          BY <1>2, <4>1
      <3> QED
        BY <3>1, <3>2
    <2>4. CASE req = load /\ lut
      <3>1. regs = PaletteRegs(clip) /\ s = SrcRect /\ d = DstRect
        BY <1>1 DEF PaletteRegs
      <3>2. checkRectForRga(SrcRect, call.src.fmt) /\ checkRectForRga(DstRect, call.dst.fmt)
        BY <2>2, <3>1 DEF LegacyPaletteRectsFit
      <3>3. \A b \in {call.src, call.dst, call.pat} : b.addr = "handle"
        BY <2>2, <2>4
      <3> HIDE DEF regs, clip, s, d, p
      <3>4. MadePalette(req)
        BY <2>4, <3>1, <3>2, <3>3 DEF MadePalette, PaletteRequest
      <3> QED
        BY <3>4 DEF Made
    <2> QED
      BY <2>3, <2>4 DEF Made
  <1>7. CASE "COLOR_FILL" \notin call.usage /\ "COLOR_PALETTE" \notin call.usage
    <2> DEFINE usePat == "BLEND" \in call.usage /\ call.pat.w > 0
               s == LegacyWindow(call.src, call.srect)
               d == LegacyWindow(call.dst, call.drect)
               p == IF usePat THEN LegacyWindow(call.pat, call.prect) ELSE NoWindow
               bufs == {call.src, call.dst} \cup (IF usePat THEN {call.pat} ELSE {})
               csc == LegacyCsc(call.dst.csm, call.src.fmt, call.dst.fmt,
                                IF usePat THEN call.pat.fmt ELSE "none")
               clip == Size(d.ws, d.hs)
               interp == PickInterp(call.interp, s, LegacyScaleTo(d, p, usePat, Rot, Flip), d,
                                    LegacyBicubicLimit)
               regs == LegacyRegs(LegacyLayout(mVersion), call, usePat, Rot, clip)
               made == LegacyBlitRequest(s, p, d, Rot, Flip, interp, csc.mode, regs)
    <2>1. LegacyTask = RgaBlit(call, mVersion)
      BY <1>7 DEF LegacyTask
    <2>2. \/ LegacyTask = Fails("FAILED")
          \/ LegacyTask = Sends(<<>>)
          \/ /\ LegacyTask = Sends(<<made>>)
             /\ \A b \in bufs : ~Addressless(b)
             /\ LegacyRectsFit(call, s, p, usePat, d)
      BY <2>1 DEF RgaBlit, Rot, Flip
    <2>3. /\ req = made
          /\ \A b \in bufs : ~Addressless(b)
          /\ LegacyRectsFit(call, s, p, usePat, d)
      <3> HIDE DEF made, bufs, s, p, usePat, d
      <3> QED
        BY <1>2, <1>3, <2>2
    <2>4. s = SrcRect /\ d = DstRect /\ p = PatRect(usePat)
      BY <1>1 DEF PatRect
    <2>5. /\ checkRectForRga(s, call.src.fmt) /\ checkRectForRga(d, call.dst.fmt)
          /\ usePat => checkRectForRga(p, call.pat.fmt) /\ "BLEND" \in call.usage
      BY <2>3 DEF LegacyRectsFit
    <2>6. \A b \in bufs : rga_is_buffer_valid(b)
      BY <1>4, <2>3
    <2>7. regs = BlitRegs(usePat, clip)
      BY DEF BlitRegs
    <2>8. usePat \in BOOLEAN
      OBVIOUS
    <2>9. made = Request("blit", SrcRect, Facing(PatRect(usePat), Rot), Facing(DstRect, Rot), Rot, Flip,
            PickInterp(AskedInterp, SrcRect, ScaleTo(DstRect, PatRect(usePat), usePat, Rot, Flip),
                       DstRect, LegacyBicubicLimit), csc.mode, BlitRegs(usePat, clip))
      BY <2>4, <2>7 DEF AskedInterp, LegacyBlitRequest, LegacyTurn, Facing, Quarter, LegacyScaleTo, ScaleTo
    <2>10. \A b \in {call.src, call.dst} \cup (IF usePat THEN {call.pat} ELSE {}) : rga_is_buffer_valid(b)
      BY <2>6
    <2> HIDE DEF usePat, s, d, p, bufs, csc, clip, interp, regs, made
    <2>11. BlitWith(req, usePat, LegacyBicubicLimit, csc.mode, clip)
      BY <2>3, <2>4, <2>5, <2>9, <2>10 DEF BlitWith
    <2> QED
      BY <2>8, <2>11 DEF Made, MadeBlit
  <1> QED
    BY <1>5, <1>6, <1>7

\* Every request the driver has is one of these, as its driver takes it.
LEMMA SentIsMade ==
  ASSUME RequestInv, NEW i \in DOMAIN sent
  PROVE  \E req : /\ sent[i] = ForDriver(device.driver, req) /\ Made(req)
                  /\ call \in Tasks
  <1>1. i \in 1..Len(sent) /\ Len(sent) > 0 /\ Len(sent) \in Nat
    BY DEF RequestInv, SentInv
  <1>2. sent[i] = Taken(i) /\ Len(sent) <= Len(TaskNow.requests) /\ TaskNow.status = "SUCCESS"
    BY <1>1 DEF RequestInv, SentInv
  <1>3. i \in DOMAIN TaskNow.requests
    <2>1. PICK a, b : TaskNow.requests = <<>> \/ TaskNow.requests = <<a>> \/ TaskNow.requests = <<a, b>>
      BY Im2dTaskIsShort, LegacyTaskIsShort DEF ShortTask, TaskNow
    <2> QED
      BY <1>1, <1>2, <2>1
  <1>4. call \in Tasks
    <2>1. call # NoCall
      BY <1>1 DEF RequestInv, CallInv
    <2> QED
      BY <2>1 DEF RequestInv, OperandInv
  <1>5. Made(TaskNow.requests[i])
    BY <1>2, <1>3, <1>4, Im2dMakes, LegacyMakes DEF TaskNow
  <1> QED
    BY <1>2, <1>4, <1>5 DEF Taken

\* A rotation or flip that counts was asked for.
LEMMA OnlyOneIs ==
  ASSUME NEW usage, NEW group
  PROVE  OnlyOne(usage, group) \in (usage \cap group) \cup {"NONE"}
  <1> DEFINE one(u) == usage \cap group = {u}
  <1>1. CASE \E u \in group : one(u)
    <2> DEFINE v == CHOOSE u \in group : one(u)
    <2>1. one(v)
      BY <1>1
    <2>2. OnlyOne(usage, group) = v
      BY <1>1 DEF OnlyOne
    <2> HIDE DEF v
    <2> QED
      BY <2>1, <2>2
  <1>2. CASE ~ \E u \in group : one(u)
    BY <1>2 DEF OnlyOne
  <1> QED
    BY <1>1, <1>2

LEMMA CallRects ==
  ASSUME call \in Tasks
  PROVE  /\ SrcRect \in Windows /\ DstRect \in Windows
         /\ \A usePat \in BOOLEAN : PatRect(usePat) \in Windows
         /\ FillWindow \in Windows
         /\ Rot \in Rotations \cup {"NONE"} /\ Flip \in Flips \cup {"NONE"}
         /\ Quarter(Rot) => Turns(call.usage)
  <1>1. /\ call.src \in rga_buffer_t /\ call.dst \in rga_buffer_t /\ call.pat \in rga_buffer_t
        /\ call.srect \in im_rect /\ call.drect \in im_rect /\ call.prect \in im_rect
    BY DEF Tasks
  <1>2. NoWindow \in Windows
    BY DEF NoWindow, Windows
  <1>3. Rot \in (call.usage \cap Rotations) \cup {"NONE"} /\ Flip \in (call.usage \cap Flips) \cup {"NONE"}
    BY OnlyOneIs DEF Rot, Flip
  <1>4. /\ SrcRect \in Windows /\ DstRect \in Windows /\ FillWindow \in Windows
        /\ \A usePat \in BOOLEAN : PatRect(usePat) \in Windows
    BY <1>1, <1>2, OperandWindows DEF SrcRect, DstRect, FillWindow, PatRect
  <1> QED
    BY <1>3, <1>4 DEF Quarter, Turns

LEMMA TurnOfRegs ==
  ASSUME NEW usePat, NEW clip
  PROVE  /\ BlitRegs(usePat, clip).sina = sina_table[Angle(Rot)]
         /\ BlitRegs(usePat, clip).cosa = cosa_table[Angle(Rot)]
         /\ FillRegs(clip).sina = 0 /\ FillRegs(clip).cosa = 0
         /\ PaletteRegs(clip).sina = 0 /\ PaletteRegs(clip).cosa = 0
  <1>1. \A layout, c, src, pat, dst, rot :
          /\ blit_regs(layout, c, src, pat, usePat, dst, rot, clip).sina = sina_table[Angle(rot)]
          /\ blit_regs(layout, c, src, pat, usePat, dst, rot, clip).cosa = cosa_table[Angle(rot)]
    BY DEF blit_regs, NoRegs
  <1>2. \A layout, c, rot : /\ LegacyRegs(layout, c, usePat, rot, clip).sina = sina_table[Angle(rot)]
                            /\ LegacyRegs(layout, c, usePat, rot, clip).cosa = cosa_table[Angle(rot)]
    BY DEF LegacyRegs, NoRegs
  <1>3. \A layout, dst : /\ fill_regs(layout, dst).sina = 0 /\ fill_regs(layout, dst).cosa = 0
                         /\ LegacyFillRegs(layout, dst, clip).sina = 0
                         /\ LegacyFillRegs(layout, dst, clip).cosa = 0
    BY DEF fill_regs, LegacyFillRegs, NoRegs
  <1>4. \A layout, src, lut, dst, c :
          /\ palette_regs(layout, src, lut, dst, clip).sina = 0
          /\ palette_regs(layout, src, lut, dst, clip).cosa = 0
          /\ LegacyPaletteRegs(layout, c, clip).sina = 0 /\ LegacyPaletteRegs(layout, c, clip).cosa = 0
    BY DEF palette_regs, LegacyPaletteRegs, NoRegs
  <1> QED
    BY <1>1, <1>2, <1>3, <1>4 DEF BlitRegs, FillRegs, PaletteRegs

\* The requests as the driver gets them.
RegsFor(kind, reg) == IF device.driver = "multi" \/ kind = "update_palette" THEN reg
                      ELSE NormalRgaCompatModeConvertRga2Fields(reg)

LEMMA BlitSent ==
  ASSUME call \in Tasks, NEW req, NEW usePat \in BOOLEAN, NEW limit, NEW csc, NEW clip,
         BlitWith(req, usePat, limit, csc, clip)
  PROVE  LET got == ForDriver(device.driver, req)
         IN  /\ got.kind = "blit" /\ got.src = SrcRect /\ got.src1 = Facing(PatRect(usePat), Rot)
             /\ got.flip = Flip /\ got.csc = csc
             /\ got.interp = PickInterp(AskedInterp, SrcRect,
                               ScaleTo(DstRect, PatRect(usePat), usePat, Rot, Flip), DstRect, limit)
             /\ got.dst.w = Facing(DstRect, Rot).w /\ got.dst.h = Facing(DstRect, Rot).h
             /\ got.reg = RegsFor("blit", BlitRegs(usePat, clip))
             /\ Footprint(got) = DstRect
             /\ usePat => got.src1 # NoWindow
  <1>1. DstRect \in Windows /\ PatRect(usePat) \in Windows /\ Rot \in Rotations \cup {"NONE"}
    BY CallRects
  <1>2. /\ BlitRegs(usePat, clip).sina = sina_table[Angle(Rot)]
        /\ BlitRegs(usePat, clip).cosa = cosa_table[Angle(Rot)]
    BY TurnOfRegs
  <1> DEFINE src1 == Facing(PatRect(usePat), Rot)
             interp == PickInterp(AskedInterp, SrcRect,
                               ScaleTo(DstRect, PatRect(usePat), usePat, Rot, Flip), DstRect, limit)
             reg == BlitRegs(usePat, clip)
  <1>3. req = Request("blit", SrcRect, src1, Facing(DstRect, Rot), Rot, Flip, interp, csc, reg)
    BY DEF BlitWith
  <1>4. usePat => src1 # NoWindow
    <2> DEFINE p == PatRect(usePat)
    <2>1. usePat => p.w >= 2 /\ p.h >= 2
      BY DEF BlitWith, checkRectForRga
    <2>2. src1.w = IF Quarter(Rot) THEN p.h ELSE p.w
      BY <1>1, FacingWindow, WinFields
    <2>3. NoWindow.w = 0 /\ p.w \in Int /\ p.h \in Int
      BY <1>1 DEF NoWindow, Windows
    <2> HIDE DEF p, src1
    <2>4. usePat => src1.w # 0
      BY <2>1, <2>2, <2>3
    <2> QED
      BY <2>3, <2>4
  <1> HIDE DEF src1, interp, reg
  <1>5. reg.sina = sina_table[Angle(Rot)] /\ reg.cosa = cosa_table[Angle(Rot)]
    BY <1>2 DEF reg
  <1> QED
    BY <1>1, <1>3, <1>4, <1>5, DriverGets DEF RegsFor, src1, interp, reg

LEMMA FillSent ==
  ASSUME call \in Tasks, NEW req, MadeFill(req)
  PROVE  LET got == ForDriver(device.driver, req)
         IN  /\ got.kind = "fill" /\ got.src1 = NoWindow
             /\ got.dst = FillWindow
             /\ \E clip : got.reg = RegsFor("fill", FillRegs(clip))
             /\ rga_is_buffer_valid(call.dst)
             /\ ByIm2d => rga_check_info(rga_apply_rect(call.dst, call.drect), call.drect,
                                         hw.output_resolution) = "NOERROR"
  <1>1. PICK csc, clip :
          /\ req = Request("fill", NoWindow, NoWindow, FillWindow, "NONE", "NONE", DefaultInterp, csc,
                           FillRegs(clip))
          /\ rga_is_buffer_valid(call.dst)
          /\ ByIm2d => rga_check_info(rga_apply_rect(call.dst, call.drect), call.drect,
                                      hw.output_resolution) = "NOERROR"
    BY DEF MadeFill
  <1> DEFINE f == FillWindow
             reg == FillRegs(clip)
             got == ForDriver(device.driver, req)
  <1>2. f = Win(f.x, f.y, f.w, f.h, f.ws, f.hs)
    BY CallRects, FacingWindow
  <1>3. reg.sina = 0 /\ reg.cosa = 0
    BY TurnOfRegs
  <1>4. req = Request("fill", NoWindow, NoWindow, f, "NONE", "NONE", DefaultInterp, csc, reg)
    BY <1>1
  <1> HIDE DEF f, reg
  <1>5. CASE device.driver = "multi"
    BY <1>1, <1>4, <1>5 DEF ForDriver, RegsFor, Request, f, reg
  <1>6. CASE device.driver # "multi"
    <2>1. got = NormalRgaCompatModeConvertRga2(req)
      BY <1>4, <1>6 DEF ForDriver, Request
    <2>2. /\ got.kind = "fill" /\ got.src1 = NoWindow
          /\ got.reg = NormalRgaCompatModeConvertRga2Fields(reg)
          /\ got.dst = Win(f.x, f.y, f.w, f.h, f.ws, f.hs)
      BY <1>2, <1>3, <1>4, <2>1, Converted
    <2> QED
      BY <1>1, <1>2, <1>6, <2>2 DEF RegsFor, f, reg
  <1> QED
    BY <1>5, <1>6

LEMMA PaletteSent ==
  ASSUME call \in Tasks, NEW req, MadePalette(req)
  PROVE  LET got == ForDriver(device.driver, req)
         IN  /\ got.kind \in {"update_palette", "palette"} /\ got.src = SrcRect
             /\ Footprint(got) = DstRect
             /\ \E clip : got.reg = RegsFor(got.kind, PaletteRegs(clip))
             /\ checkRectForRga(SrcRect, call.src.fmt) /\ checkRectForRga(DstRect, call.dst.fmt)
             /\ \A b \in {call.src, call.dst, call.pat} : b.addr = "handle"
  <1>1. PICK kind \in {"update_palette", "palette"} : \E lut, clip :
          /\ req = Request(kind, SrcRect, lut, DstRect, "NONE", "NONE", DefaultInterp,
                           IM_COLOR_SPACE_DEFAULT, PaletteRegs(clip))
          /\ checkRectForRga(SrcRect, call.src.fmt) /\ checkRectForRga(DstRect, call.dst.fmt)
          /\ \A b \in {call.src, call.dst, call.pat} : b.addr = "handle"
    BY DEF MadePalette
  <1>2. PICK lut, clip :
          /\ req = Request(kind, SrcRect, lut, DstRect, "NONE", "NONE", DefaultInterp,
                           IM_COLOR_SPACE_DEFAULT, PaletteRegs(clip))
          /\ checkRectForRga(SrcRect, call.src.fmt) /\ checkRectForRga(DstRect, call.dst.fmt)
          /\ \A b \in {call.src, call.dst, call.pat} : b.addr = "handle"
    BY <1>1
  <1> DEFINE reg == PaletteRegs(clip)
             csc == IM_COLOR_SPACE_DEFAULT
             got == ForDriver(device.driver, req)
  <1>3. Facing(DstRect, "NONE") = DstRect /\ DstRect \in Windows /\ "NONE" \in Rotations \cup {"NONE"}
    BY CallRects DEF Facing, Quarter
  <1>4. reg.sina = 0 /\ reg.cosa = 0
    BY TurnOfRegs
  <1>5. req = Request(kind, SrcRect, lut, Facing(DstRect, "NONE"), "NONE", "NONE", DefaultInterp, csc, reg)
    BY <1>2, <1>3
  <1> HIDE DEF reg, csc
  <1>6. /\ got.kind = kind /\ got.src = SrcRect /\ Footprint(got) = DstRect
        /\ got.reg = RegsFor(kind, reg)
    BY <1>1, <1>3, <1>4, <1>5, DriverGets DEF RegsFor
  <1> HIDE DEF got
  <1> QED
    BY <1>1, <1>2, <1>6 DEF reg, got

LEMMA NothingSent ==
  ASSUME NEW req \in {ZeroRequest, StrayRequest}
  PROVE  ForDriver(device.driver, req).kind \in {"zero", "stray"}
  BY DEF ZeroRequest, StrayRequest, ForDriver, NormalRgaCompatModeConvertRga2, Request

FitsScale(mode, m, n) == CASE m > n -> mode = "AVERAGE"
                           [] m < n -> mode \in {"BICUBIC", "LINEAR"}
                           [] m = n -> mode = "DEFAULT"

LEMMA FitsByCase ==
  ASSUME NEW mode, NEW m \in Int, NEW n \in Int,
         m > n => mode = "AVERAGE", m < n => mode \in {"BICUBIC", "LINEAR"}, m = n => mode = "DEFAULT"
  PROVE  FitsScale(mode, m, n)
  <1>1. CASE m > n
    BY <1>1 DEF FitsScale
  <1>2. CASE m < n
    BY <1>2 DEF FitsScale
  <1>3. CASE m = n
    BY <1>3 DEF FitsScale
  <1>4. m > n \/ m < n \/ m = n
    OBVIOUS
  <1> QED
    BY <1>1, <1>2, <1>3, <1>4, Zenon

\* InterpFitsScale: the interpolation a blit chooses by default fits the scaling
\* its windows ask for.  The scale is measured in PickInterp, before the rotation
\* switch turns the windows; the two computations agree for every size and turn,
\* of both interfaces and after the conversion for an older driver.
THEOREM InterpolationFits == LegacySpec => []InterpFitsScale
  <1>1. RequestInv => InterpFitsScale
    <2> SUFFICES ASSUME RequestInv, NEW i \in DOMAIN sent, sent[i].kind = "blit",
                        call.interp = DefaultInterp,
                        ~(Turns(call.usage) /\ sent[i].flip # "NONE")
                 PROVE  LET req == sent[i]
                            fits(mode, m, n) == CASE m > n -> mode = "AVERAGE"
                                                  [] m < n -> mode \in {"BICUBIC", "LINEAR"}
                                                  [] m = n -> mode = "DEFAULT"
                            to == IF req.src1 = NoWindow THEN req.dst ELSE req.src1
                        IN  fits(req.interp.h, req.src.w, to.w) /\ fits(req.interp.v, req.src.h, to.h)
      BY DEF InterpFitsScale
    <2>1. PICK req : sent[i] = ForDriver(device.driver, req) /\ Made(req) /\ call \in Tasks
      BY SentIsMade
    <2>2. MadeBlit(req)
      BY <2>1, NothingSent, FillSent, PaletteSent DEF Made
    <2>3. PICK usePat \in BOOLEAN : \E limit, csc, clip : BlitWith(req, usePat, limit, csc, clip)
      BY <2>2 DEF MadeBlit
    <2>4. PICK limit, csc, clip : BlitWith(req, usePat, limit, csc, clip)
      BY <2>3
    <2> DEFINE got == sent[i]
               scale == ScaleTo(DstRect, PatRect(usePat), usePat, Rot, Flip)
               to == IF got.src1 = NoWindow THEN got.dst ELSE got.src1
    <2>5. /\ got.src = SrcRect /\ got.src1 = Facing(PatRect(usePat), Rot) /\ got.flip = Flip
          /\ got.interp = PickInterp(DefaultInterp, SrcRect, scale, DstRect, limit)
          /\ got.dst.w = Facing(DstRect, Rot).w /\ got.dst.h = Facing(DstRect, Rot).h
          /\ usePat => got.src1 # NoWindow
      BY <2>1, <2>4, BlitSent, AskedInterp = DefaultInterp DEF AskedInterp, task_interp
    <2>6. Quarter(Rot) => Flip = "NONE"
      BY <2>1, <2>5, CallRects
    <2>7. scale = Facing(IF usePat THEN PatRect(usePat) ELSE DstRect, Rot)
      BY <2>6 DEF ScaleTo, Facing, Quarter
    <2>8. ~usePat => got.src1 = NoWindow
      BY <2>5, FacingWindow, CallRects, <2>1 DEF PatRect
    <2>9. to.w = scale.w /\ to.h = scale.h
      BY <2>5, <2>7, <2>8
    <2>10. SrcRect.w \in Int /\ SrcRect.h \in Int /\ scale.w \in Int /\ scale.h \in Int
      <3>1. SrcRect \in Windows /\ scale \in Windows
        BY <2>1, <2>7, CallRects, FacingWindow
      <3> QED
        BY <3>1 DEF Windows
    <2> HIDE DEF scale, got, to
    <2>11. got.interp.h = (IF SrcRect.w > scale.w THEN "AVERAGE"
                           ELSE IF SrcRect.w < scale.w THEN "BICUBIC" ELSE "DEFAULT")
      BY <2>5, <2>10 DEF PickInterp, DefaultInterp
    <2>12. /\ SrcRect.h > scale.h => got.interp.v = "AVERAGE"
           /\ SrcRect.h < scale.h => got.interp.v \in {"BICUBIC", "LINEAR"}
           /\ SrcRect.h = scale.h => got.interp.v = "DEFAULT"
      BY <2>5, <2>10 DEF PickInterp, DefaultInterp
    <2>13. got.src.w = SrcRect.w /\ got.src.h = SrcRect.h
      BY <2>5
    <2>14. FitsScale(got.interp.h, got.src.w, to.w)
      <3>1. /\ SrcRect.w > scale.w => got.interp.h = "AVERAGE"
            /\ SrcRect.w < scale.w => got.interp.h \in {"BICUBIC", "LINEAR"}
            /\ SrcRect.w = scale.w => got.interp.h = "DEFAULT"
        BY <2>10, <2>11
      <3>2. FitsScale(got.interp.h, SrcRect.w, scale.w)
        BY <2>10, <3>1, FitsByCase
      <3> QED
        BY <2>9, <2>13, <3>2
    <2>15. FitsScale(got.interp.v, got.src.h, to.h)
      <3>1. FitsScale(got.interp.v, SrcRect.h, scale.h)
        BY <2>10, <2>12, FitsByCase
      <3> QED
        BY <2>9, <2>13, <3>1
    <2> QED
      BY <2>14, <2>15 DEF got, to, FitsScale
  <1> QED
    BY <1>1, SpecRequestInv, PTL

\* WindowsFit: a request reads the source rectangle and writes the destination
\* rectangle the caller named, inside their buffers (checkRectForRga, the rotation
\* switch of generate_blit_req and of RgaBlit, NormalRgaCompatModeConvertRga2).
\* An im2d pattern covers the destination, and an im2d fill with a size stays in
\* its buffer, although only rga_check looks at it.
THEOREM RequestsStayInside == LegacySpec => []WindowsFit
  <1>0. \A win, fmt : checkRectForRga(win, fmt) => InBuffer(win)
    BY DEF checkRectForRga, InBuffer
  <1>1. RequestInv => WindowsFit
    <2> DEFINE blit(got) ==
                 got.kind \in {"blit", "palette", "update_palette"} =>
                   /\ InBuffer(got.src) /\ got.src = Named(call.src, call.srect)
                   /\ InBuffer(Footprint(got)) /\ Footprint(got) = Named(call.dst, call.drect)
               fill(got) == ByIm2d /\ got.kind = "fill" /\ call.drect.w > 0 => InBuffer(got.dst)
               pattern(got) == ByIm2d /\ got.kind = "blit" /\ got.src1 # NoWindow =>
                                 got.src1.w = got.dst.w /\ got.src1.h = got.dst.h
    <2> SUFFICES ASSUME RequestInv, NEW i \in DOMAIN sent
                 PROVE  blit(sent[i]) /\ fill(sent[i]) /\ pattern(sent[i])
      BY Zenon DEF WindowsFit
    <2>1. PICK req : sent[i] = ForDriver(device.driver, req) /\ Made(req) /\ call \in Tasks
      BY SentIsMade
    <2> DEFINE got == sent[i]
    <2>2. CASE req \in {ZeroRequest, StrayRequest}
      BY <2>1, <2>2, NothingSent
    <2>3. CASE MadeFill(req)
      <3>1. /\ got.kind = "fill" /\ got.dst = FillWindow
            /\ ByIm2d => rga_check_info(rga_apply_rect(call.dst, call.drect), call.drect,
                                        hw.output_resolution) = "NOERROR"
        BY <2>1, <2>3, FillSent
      <3>2. ASSUME ByIm2d, call.drect.w > 0 PROVE InBuffer(FillWindow)
        <4> DEFINE b == rga_apply_rect(call.dst, call.drect)
                   r == call.drect
        <4>1. /\ ~((r.w = 0 /\ r.h > 0) \/ (r.w > 0 /\ r.h = 0))
              /\ ~(r.w < 0 \/ r.h < 0 \/ r.x < 0 \/ r.y < 0)
              /\ ~(r.x + r.w > b.ws \/ r.y + r.h > b.hs)
          BY <3>1, <3>2, InfoChecked
        <4>2. r \in im_rect /\ call.dst \in rga_buffer_t
          BY <2>1 DEF Tasks
        <4>3. r.x \in Int /\ r.y \in Int /\ r.w \in Int /\ r.h \in Int /\ call.dst.ws \in Int /\ call.dst.hs \in Int
          BY <4>2 DEF im_rect, rga_buffer_t
        <4>4. r.w > 0 /\ r.h > 0
          BY <3>2, <4>1, <4>3
        <4>5. b.w = r.w /\ b.h = r.h /\ b.ws = call.dst.ws /\ b.hs = call.dst.hs
          BY <4>2, <4>4 DEF rga_apply_rect, rga_buffer_t
        <4>6. /\ FillWindow.x = r.x /\ FillWindow.y = r.y /\ FillWindow.w = b.w /\ FillWindow.h = b.h
              /\ FillWindow.ws = b.ws /\ FillWindow.hs = b.hs
          BY <3>2 DEF FillWindow, Window
        <4> HIDE DEF b, r
        <4> QED
          BY <4>1, <4>3, <4>5, <4>6 DEF InBuffer
      <3> QED
        BY <3>1, <3>2
    <2>4. CASE MadePalette(req)
      BY <1>0, <2>1, <2>4, PaletteSent DEF SrcRect, DstRect
    <2>5. CASE MadeBlit(req)
      <3>1. PICK usePat \in BOOLEAN : \E limit, csc, clip : BlitWith(req, usePat, limit, csc, clip)
        BY <2>5 DEF MadeBlit
      <3>2. PICK limit, csc, clip : BlitWith(req, usePat, limit, csc, clip)
        BY <3>1
      <3>3. /\ got.kind = "blit" /\ got.src = SrcRect /\ got.src1 = Facing(PatRect(usePat), Rot)
            /\ got.dst.w = Facing(DstRect, Rot).w /\ got.dst.h = Facing(DstRect, Rot).h
            /\ Footprint(got) = DstRect
        BY <2>1, <3>2, BlitSent
      <3>4. InBuffer(SrcRect) /\ InBuffer(DstRect)
        BY <1>0, <3>2 DEF BlitWith
      <3>5. ByIm2d /\ usePat => PatRect(usePat).w = DstRect.w /\ PatRect(usePat).h = DstRect.h
        BY <3>2 DEF BlitWith
      <3>6. PatRect(usePat) \in Windows /\ DstRect \in Windows
        BY <2>1, CallRects
      <3>7. ByIm2d /\ usePat => got.src1.w = got.dst.w /\ got.src1.h = got.dst.h
        <4>1. \A win \in Windows : /\ Facing(win, Rot).w = IF Quarter(Rot) THEN win.h ELSE win.w
                                   /\ Facing(win, Rot).h = IF Quarter(Rot) THEN win.w ELSE win.h
          BY FacingWindow, WinFields
        <4> QED
          BY <3>3, <3>5, <3>6, <4>1
      <3>8. ~usePat => got.src1 = NoWindow
        BY <3>3, <3>6, FacingWindow DEF PatRect
      <3> QED
        BY <3>3, <3>4, <3>7, <3>8 DEF SrcRect, DstRect
    <2> QED
      BY <2>1, <2>2, <2>3, <2>4, <2>5 DEF Made
  <1> QED
    BY <1>1, SpecRequestInv, PTL
-----------------------------------------------------------------------------
(* Addresses                                                               *)

Named3 == {"src", "src1", "dst"}
Addresses == {"handle", "phy", "fd", "vir"}

\* How one operand appears in a request: the plane its address is in, and the
\* flag that five tests in a row compute.
LEMMA OperandNamed ==
  ASSUME NEW name \in Named3, NEW b, b.addr \in Addresses
  PROVE  LET info == rga_set_buffer_info(name, b)
         IN  /\ MmuFlag(info) <=> Translated(b)
             /\ LegacyMmuFlag(info) <=> Translated(b)
             /\ NamedBy(BlitPlanes("planes", info), b, name)
             /\ NamedBy(FillPlanes("planes", info), b, name)
             /\ NamedBy(LegacyPlanes("planes", info), b, name)
             /\ b.addr = "handle" => BlitPlanes("planes", info).v = Null
  <1> DEFINE info == rga_set_buffer_info(name, b)
  <1>1. /\ info.handle = (IF b.addr = "handle" THEN name ELSE "null")
        /\ info.phyAddr = (IF b.addr = "phy" THEN name ELSE "null")
        /\ info.fd = (IF b.addr = "fd" THEN name ELSE "null")
        /\ info.virAddr = (IF b.addr = "vir" THEN name ELSE "null")
        /\ info.mmuFlag = (b.addr \in {"fd", "vir"})
    BY DEF rga_set_buffer_info, Null
  <1>2. name # "null"
    BY DEF Named3
  <1>3. b.addr \in {"handle", "phy", "fd", "vir"}
    BY DEF Addresses
  <1> HIDE DEF info
  <1>4. /\ GetAddress(info).Fd = (IF b.addr \in {"handle", "fd"} THEN name ELSE "null")
        /\ GetAddress(info).Buf = (IF b.addr \in {"phy", "vir"} THEN name ELSE "null")
        /\ LegacyAddress(info).Fd = GetAddress(info).Fd /\ LegacyAddress(info).Buf = GetAddress(info).Buf
    BY <1>1, <1>2, <1>3 DEF GetAddress, LegacyAddress, Null
  <1>5. MmuFlag(info) <=> Translated(b)
    BY <1>1, <1>2, <1>3, <1>4 DEF MmuFlag, Translated, Null
  <1>6. LegacyMmuFlag(info) <=> Translated(b)
    BY <1>1, <1>2, <1>3, <1>4 DEF LegacyMmuFlag, Translated, Null
  <1>7. /\ NamedBy(BlitPlanes("planes", info), b, name)
        /\ b.addr = "handle" => BlitPlanes("planes", info).v = Null
    BY <1>1, <1>2, <1>3, <1>4 DEF BlitPlanes, NamedBy, Planes, Null
  <1>8. NamedBy(FillPlanes("planes", info), b, name)
    BY <1>1, <1>2, <1>3, <1>4 DEF FillPlanes, NamedBy, Planes, Null
  <1>9. NamedBy(LegacyPlanes("planes", info), b, name)
    BY <1>1, <1>2, <1>3, <1>4 DEF LegacyPlanes, NamedBy, Planes, Null
  <1> QED
    BY <1>5, <1>6, <1>7, <1>8, <1>9 DEF info

\* Only the first chips' driver has another layout.
LEMMA PlanesLayout ==
  ASSUME DeviceInv, device.driver # "RGA1"
  PROVE  /\ AddressLayout(device) = "planes"
         /\ LegacyLayout(mVersion) = "planes" /\ LegacyFillLayout(mVersion) = "planes"
  <1>1. mVersion \in Nat /\ mVersion >= 2000
    BY DEF DeviceInv, mVersion
  <1> QED
    BY <1>1 DEF AddressLayout, LegacyLayout, LegacyFillLayout

\* The registers of every request have the same fields.
LEMMA RegsDomain ==
  ASSUME NEW usePat, NEW clip
  PROVE  \A reg \in {BlitRegs(usePat, clip), FillRegs(clip), PaletteRegs(clip)} :
           {"src", "src1", "dst", "mmu", "alpha", "fields"} \subseteq DOMAIN reg
  <1>1. \A layout, c, src, pat, dst, rot :
          DOMAIN blit_regs(layout, c, src, pat, usePat, dst, rot, clip) = DOMAIN NoRegs
    <2> SUFFICES ASSUME NEW layout, NEW c, NEW src, NEW pat, NEW dst, NEW rot
                 PROVE  DOMAIN blit_regs(layout, c, src, pat, usePat, dst, rot, clip) = DOMAIN NoRegs
      OBVIOUS
    <2> DEFINE i == rga_set_buffer_info("src", src)
               j == IF usePat THEN rga_set_buffer_info("src1", pat) ELSE NoInfo
               k == rga_set_buffer_info("dst", dst)
               a1 == BlitPlanes(layout, i)
               a2 == BlitPlanes(layout, k)
               a3 == IF usePat THEN BlitPlanes(layout, j) ELSE NoPlanes
               a4 == Fds(layout, i, j, k)
               a5 == BlitMmu(layout, i, j, usePat, k)
               a6 == k.handle # Null
               a8 == RdModes(src, pat, usePat, dst)
               a9 == sina_table[Angle(rot)]
               a10 == cosa_table[Angle(rot)]
               a11 == BlitAlpha(c)
               a12 == task_fields(c)
    <2>1. blit_regs(layout, c, src, pat, usePat, dst, rot, clip) =
            [NoRegs EXCEPT !.src = a1, !.dst = a2, !.src1 = a3, !.fds = a4, !.mmu = a5,
                           !.handle = a6, !.clip = clip, !.rd = a8, !.sina = a9, !.cosa = a10,
                           !.alpha = a11, !.fields = a12]
      BY DEF blit_regs
    <2> HIDE DEF a1, a2, a3, a4, a5, a6, a8, a9, a10, a11, a12
    <2> QED
      BY <2>1
  <1>2. \A layout, c, rot : DOMAIN LegacyRegs(layout, c, usePat, rot, clip) = DOMAIN NoRegs
    BY DEF LegacyRegs
  <1>3. \A layout, dst : /\ DOMAIN fill_regs(layout, dst) = DOMAIN NoRegs
                         /\ DOMAIN LegacyFillRegs(layout, dst, clip) = DOMAIN NoRegs
    BY DEF fill_regs, LegacyFillRegs
  <1>4. \A layout, src, lut, dst, c :
          /\ DOMAIN palette_regs(layout, src, lut, dst, clip) = DOMAIN NoRegs
          /\ DOMAIN LegacyPaletteRegs(layout, c, clip) = DOMAIN NoRegs
    <2>1. \A layout, src, lut, dst, c : DOMAIN palette_regs(layout, src, lut, dst, clip) = DOMAIN NoRegs
      BY DEF palette_regs
    <2>2. \A layout, c : DOMAIN LegacyPaletteRegs(layout, c, clip) = DOMAIN NoRegs
      BY DEF LegacyPaletteRegs
    <2> QED
      BY <2>1, <2>2
  <1>5. {"src", "src1", "dst", "mmu", "alpha", "fields"} \subseteq DOMAIN NoRegs
    BY DEF NoRegs
  <1>6. \A reg \in {BlitRegs(usePat, clip), FillRegs(clip), PaletteRegs(clip)} : DOMAIN reg = DOMAIN NoRegs
    BY <1>1, <1>2, <1>3, <1>4 DEF BlitRegs, FillRegs, PaletteRegs
  <1> QED
    BY <1>5, <1>6

\* An older driver's request keeps addresses and MMU flags.
LEMMA FieldsKept ==
  ASSUME NEW usePat, NEW clip, NEW kind
  PROVE  \A reg \in {BlitRegs(usePat, clip), FillRegs(clip), PaletteRegs(clip)} :
           /\ RegsFor(kind, reg).src = reg.src /\ RegsFor(kind, reg).src1 = reg.src1
           /\ RegsFor(kind, reg).dst = reg.dst /\ RegsFor(kind, reg).mmu = reg.mmu
  <1> DEFINE has(reg) == {"src", "src1", "dst", "mmu"} \subseteq DOMAIN reg
  <1>1. \A reg : has(reg) => 
           /\ RegsFor(kind, reg).src = reg.src /\ RegsFor(kind, reg).src1 = reg.src1
           /\ RegsFor(kind, reg).dst = reg.dst /\ RegsFor(kind, reg).mmu = reg.mmu
    BY DEF RegsFor, NormalRgaCompatModeConvertRga2Fields
  <1>2. \A reg \in {BlitRegs(usePat, clip), FillRegs(clip), PaletteRegs(clip)} : has(reg)
    BY RegsDomain
  <1> HIDE DEF has
  <1> QED
    BY <1>1, <1>2

LEMMA MmuBits ==
  ASSUME NEW s \in BOOLEAN, NEW d \in BOOLEAN
  PROVE  /\ "SRC" \in MmuInfo(s, d) <=> s
         /\ "DST" \in MmuInfo(s, d) <=> d
         /\ "EN" \in MmuInfo(s, d) <=> s \/ d
         /\ "SRC1" \notin MmuInfo(s, d)
  BY DEF MmuInfo

\* Every operand a request uses is in it, and translated when it has to be.
ReachedIn(reg, name) ==
  LET b == OperandOf[name]
  IN  /\ NamedBy(reg[name], b, name)
      /\ Translated(b) <=> MmuBit[name] \in reg.mmu
      /\ Translated(b) /\ name # "src1" => "EN" \in reg.mmu

LEMMA BlitReaches ==
  ASSUME call \in Tasks, DeviceInv, device.driver # "RGA1", NEW usePat \in BOOLEAN, NEW clip,
         \A b \in {call.src, call.dst} \cup (IF usePat THEN {call.pat} ELSE {}) : rga_is_buffer_valid(b),
         NEW name \in {"src", "dst"} \cup (IF usePat THEN {"src1"} ELSE {})
  PROVE  /\ ReachedIn(BlitRegs(usePat, clip), name)
         /\ ByIm2d /\ OperandOf[name].addr = "handle" => BlitRegs(usePat, clip)[name].v = Null
  <1> DEFINE reg == BlitRegs(usePat, clip)
             src == rga_apply_rect(call.src, call.srect)
             dst == rga_apply_rect(call.dst, call.drect)
             pat == PatOf(call)
             info(n, b) == rga_set_buffer_info(n, b)
             s == info("src", call.src)
             p == info("src1", call.pat)
             d == info("dst", call.dst)
  <1>1. /\ call.src.addr \in Addresses /\ call.dst.addr \in Addresses
        /\ usePat => call.pat.addr \in Addresses
    <2>1. /\ call.src.addr \in {"handle", "phy", "fd", "vir", "fd0", "none"}
          /\ call.dst.addr \in {"handle", "phy", "fd", "vir", "fd0", "none"}
          /\ call.pat.addr \in {"handle", "phy", "fd", "vir", "fd0", "none"}
      BY DEF Tasks, rga_buffer_t
    <2>2. rga_is_buffer_valid(call.src) /\ rga_is_buffer_valid(call.dst) /\ (usePat => rga_is_buffer_valid(call.pat))
      OBVIOUS
    <2> QED
      BY <2>1, <2>2 DEF rga_is_buffer_valid, Addresses
  <1>2. info("src", src) = s /\ info("dst", dst) = d /\ info("src1", pat) = p
    <2>1. src.addr = call.src.addr /\ dst.addr = call.dst.addr /\ pat.addr = call.pat.addr
      BY OperandWindows, PatternOf DEF Tasks
    <2> QED
      BY <2>1 DEF rga_set_buffer_info
  <1>3. /\ MmuFlag(s) <=> Translated(call.src)
        /\ MmuFlag(d) <=> Translated(call.dst)
        /\ usePat => (MmuFlag(p) <=> Translated(call.pat))
        /\ LegacyMmuFlag(s) <=> Translated(call.src)
        /\ LegacyMmuFlag(d) <=> Translated(call.dst)
        /\ usePat => (LegacyMmuFlag(p) <=> Translated(call.pat))
    BY <1>1, OperandNamed DEF Named3
  <1>4. Translated(call.src) \in BOOLEAN /\ Translated(call.dst) \in BOOLEAN /\ Translated(call.pat) \in BOOLEAN
    BY DEF Translated
  <1> DEFINE mmu == MmuInfo(Translated(call.src), Translated(call.dst))
                      \cup (IF usePat /\ Translated(call.pat) THEN {"SRC1"} ELSE {})
  <1>5. /\ "SRC" \in mmu <=> Translated(call.src)
        /\ "DST" \in mmu <=> Translated(call.dst)
        /\ "EN" \in mmu <=> Translated(call.src) \/ Translated(call.dst)
        /\ usePat => ("SRC1" \in mmu <=> Translated(call.pat))
    BY <1>4, MmuBits
  <1>6. /\ NamedBy(reg.src, call.src, "src") /\ NamedBy(reg.dst, call.dst, "dst")
        /\ usePat => NamedBy(reg.src1, call.pat, "src1")
        /\ reg.mmu = mmu
        /\ ByIm2d => /\ call.src.addr = "handle" => reg.src.v = Null
                     /\ call.dst.addr = "handle" => reg.dst.v = Null
                     /\ usePat /\ call.pat.addr = "handle" => reg.src1.v = Null
    <2>1. CASE ByIm2d
      <3>1. /\ reg.src = BlitPlanes("planes", s) /\ reg.dst = BlitPlanes("planes", d)
            /\ usePat => reg.src1 = BlitPlanes("planes", p)
            /\ reg.mmu = BlitMmu("planes", s, IF usePat THEN p ELSE NoInfo, usePat, d)
        BY <1>2, <2>1, PlanesLayout DEF BlitRegs, blit_regs, NoRegs
      <3> HIDE DEF s, p, d
      <3>2. BlitMmu("planes", s, IF usePat THEN p ELSE NoInfo, usePat, d) = mmu
        BY <1>3 DEF BlitMmu, MmuInfo
      <3> QED
        BY <1>1, <3>1, <3>2, OperandNamed DEF Named3, s, p, d
    <2>2. CASE ~ByIm2d
      <3>1. /\ reg.src = LegacyPlanes("planes", s) /\ reg.dst = LegacyPlanes("planes", d)
            /\ usePat => reg.src1 = LegacyPlanes("planes", p)
            /\ reg.mmu = LegacyMmu("planes", s, IF usePat THEN p ELSE NoInfo, d)
        BY <2>2, PlanesLayout DEF BlitRegs, LegacyRegs, NoRegs
      <3>2. usePat => p # NoInfo
        BY <1>1 DEF rga_set_buffer_info, NoInfo, Addresses, Null
      <3> HIDE DEF s, p, d
      <3>3. LegacyMmu("planes", s, IF usePat THEN p ELSE NoInfo, d) = mmu
        BY <1>3, <3>2 DEF LegacyMmu, MmuInfo
      <3> QED
        BY <1>1, <2>2, <3>1, <3>3, OperandNamed DEF Named3, s, p, d
    <2> QED
      BY <2>1, <2>2
  <1> HIDE DEF reg, mmu
  <1>7. CASE name = "src"
    BY <1>5, <1>6, <1>7 DEF ReachedIn, OperandOf, MmuBit, reg
  <1>8. CASE name = "dst"
    BY <1>5, <1>6, <1>8 DEF ReachedIn, OperandOf, MmuBit, reg
  <1>9. CASE name = "src1" /\ usePat
    BY <1>5, <1>6, <1>9 DEF ReachedIn, OperandOf, MmuBit, reg
  <1> QED
    BY <1>7, <1>8, <1>9

LEMMA FillReaches ==
  ASSUME call \in Tasks, DeviceInv, device.driver # "RGA1", NEW clip, rga_is_buffer_valid(call.dst)
  PROVE  ReachedIn(FillRegs(clip), "dst")
  <1> DEFINE reg == FillRegs(clip)
             dst == rga_apply_rect(call.dst, call.drect)
             d == rga_set_buffer_info("dst", call.dst)
             on == Translated(call.dst)
  <1>1. call.dst.addr \in Addresses
    BY DEF Tasks, rga_buffer_t, rga_is_buffer_valid, Addresses
  <1>2. rga_set_buffer_info("dst", dst) = d
    <2>1. dst.addr = call.dst.addr
      BY OperandWindows DEF Tasks
    <2> QED
      BY <2>1 DEF rga_set_buffer_info
  <1>3. (MmuFlag(d) <=> on) /\ (LegacyMmuFlag(d) <=> on)
    BY <1>1, OperandNamed DEF Named3
  <1>4. on \in BOOLEAN
    BY DEF Translated
  <1>5. NamedBy(reg.dst, call.dst, "dst") /\ reg.mmu = MmuInfo(on, on)
    <2>1. CASE ByIm2d
      <3>1. reg.dst = FillPlanes("planes", d) /\ reg.mmu = FillMmu("planes", d)
        BY <1>2, <2>1, PlanesLayout DEF FillRegs, fill_regs, NoRegs
      <3> HIDE DEF d
      <3>2. FillMmu("planes", d) = MmuInfo(on, on)
        BY <1>3 DEF FillMmu, MmuInfo
      <3> QED
        BY <1>1, <3>1, <3>2, OperandNamed DEF Named3, d
    <2>2. CASE ~ByIm2d
      <3>1. reg.dst = LegacyPlanes("planes", d)
        BY <2>2, PlanesLayout DEF FillRegs, LegacyFillRegs, NoRegs
      <3>2. reg.mmu = MmuInfo(LegacyMmuFlag(d), LegacyMmuFlag(d))
        BY <2>2, PlanesLayout DEF FillRegs, LegacyFillRegs, NoRegs, MmuInfo
      <3>3. reg.mmu = MmuInfo(on, on)
        BY <1>3, <3>2 DEF MmuInfo
      <3> QED
        BY <1>1, <3>1, <3>3, OperandNamed DEF Named3
    <2> QED
      BY <2>1, <2>2
  <1>6. ("DST" \in MmuInfo(on, on) <=> on) /\ ("EN" \in MmuInfo(on, on) <=> on)
    BY <1>4, MmuBits
  <1> HIDE DEF reg
  <1> QED
    BY <1>5, <1>6 DEF ReachedIn, OperandOf, MmuBit, reg

LEMMA PaletteReaches ==
  ASSUME call \in Tasks, DeviceInv, device.driver # "RGA1", NEW clip,
         \A b \in {call.src, call.dst, call.pat} : b.addr = "handle",
         NEW name \in Named3
  PROVE  ReachedIn(PaletteRegs(clip), name)
  <1> DEFINE reg == PaletteRegs(clip)
             src == rga_apply_rect(call.src, call.srect)
             dst == rga_apply_rect(call.dst, call.drect)
             pat == PatOf(call)
             info(n, b) == rga_set_buffer_info(n, b)
             s == info("src", call.src)
             p == info("src1", call.pat)
             d == info("dst", call.dst)
  <1>1. /\ call.src.addr = "handle" /\ call.dst.addr = "handle" /\ call.pat.addr = "handle"
        /\ "handle" \in Addresses
    BY DEF Addresses
  <1>2. info("src", src) = s /\ info("dst", dst) = d /\ info("src1", pat) = p
    <2>1. src.addr = call.src.addr /\ dst.addr = call.dst.addr /\ pat.addr = call.pat.addr
      BY OperandWindows, PatternOf DEF Tasks
    <2> QED
      BY <2>1 DEF rga_set_buffer_info
  <1>3. ~Translated(call.src) /\ ~Translated(call.dst) /\ ~Translated(call.pat)
    BY <1>1 DEF Translated
  <1>4. ~MmuFlag(s) /\ ~MmuFlag(d) /\ ~MmuFlag(p)
    BY <1>1, <1>3, OperandNamed DEF Named3
  <1>5. /\ NamedBy(reg.src, call.src, "src") /\ NamedBy(reg.dst, call.dst, "dst")
        /\ NamedBy(reg.src1, call.pat, "src1") /\ reg.mmu = {}
    <2>1. CASE ByIm2d
      <3>1. /\ reg.src = FillPlanes("planes", s) /\ reg.dst = FillPlanes("planes", d)
            /\ reg.src1 = FillPlanes("planes", p)
            /\ reg.mmu = PaletteMmu("planes", s, p, d)
        BY <1>2, <2>1, PlanesLayout DEF PaletteRegs, palette_regs, NoRegs
      <3> HIDE DEF s, p, d
      <3>2. PaletteMmu("planes", s, p, d) = {}
        BY <1>4 DEF PaletteMmu, MmuInfo
      <3> QED
        BY <1>1, <3>1, <3>2, OperandNamed DEF Named3, s, p, d
    <2>2. CASE ~ByIm2d
      <3>1. /\ reg.src = LegacyPlanes("planes", s) /\ reg.dst = LegacyPlanes("planes", d)
            /\ reg.src1 = LegacyPlanes("planes", p) /\ reg.mmu = {}
        BY <2>2, PlanesLayout DEF PaletteRegs, LegacyPaletteRegs, NoRegs
      <3> QED
        BY <1>1, <3>1, OperandNamed DEF Named3
    <2> QED
      BY <2>1, <2>2
  <1> HIDE DEF reg
  <1> QED
    BY <1>3, <1>5 DEF ReachedIn, OperandOf, MmuBit, Named3, reg

\* OperandsReached: every buffer a request uses is the one the caller passed for
\* it, in the plane its kind of address belongs in, and exactly the addresses that
\* need translation go through the MMU, for requests of both interfaces on every
\* driver but that of the first chips (the address blocks of generate_blit_req,
\* im2d_impl.cpp 3460-3497, and their copies).
THEOREM OperandsAreReached == LegacySpec => []OperandsReached
  <1>1. RequestInv => OperandsReached
    <2> DEFINE vless(got, name) == ByIm2d /\ got.kind = "blit" /\ OperandOf[name].addr = "handle" =>
                                     got.reg[name].v = Null
    <2> SUFFICES ASSUME RequestInv, NEW i \in DOMAIN sent, device.driver # "RGA1",
                        sent[i].kind \notin {"zero", "stray"}, NEW name \in Reads(sent[i])
                 PROVE  ReachedIn(sent[i].reg, name) /\ vless(sent[i], name)
      BY Zenon DEF OperandsReached, ReachedIn
    <2>1. PICK req : sent[i] = ForDriver(device.driver, req) /\ Made(req) /\ call \in Tasks
      BY SentIsMade
    <2> DEFINE got == sent[i]
    <2>2. DeviceInv
      BY DEF RequestInv
    <2>3. \A kind, reg : name \in Named3 /\ ReachedIn(reg, name)
            /\ RegsFor(kind, reg).src = reg.src /\ RegsFor(kind, reg).src1 = reg.src1
            /\ RegsFor(kind, reg).dst = reg.dst /\ RegsFor(kind, reg).mmu = reg.mmu
            => ReachedIn(RegsFor(kind, reg), name)
      BY DEF ReachedIn, Named3
    <2>4. CASE req \in {ZeroRequest, StrayRequest}
      BY <2>1, <2>4, NothingSent
    <2>5. CASE MadeFill(req)
      <3>1. PICK clip : /\ got.kind = "fill" /\ got.reg = RegsFor("fill", FillRegs(clip))
                        /\ rga_is_buffer_valid(call.dst)
        BY <2>1, <2>5, FillSent
      <3>2. name = "dst"
        BY <3>1 DEF Reads
      <3>3. ReachedIn(FillRegs(clip), "dst")
        BY <2>1, <2>2, <3>1, FillReaches
      <3>4. ReachedIn(got.reg, name)
        BY <2>3, <3>1, <3>2, <3>3, FieldsKept DEF Named3
      <3> QED
        BY <3>1, <3>4
    <2>6. CASE MadePalette(req)
      <3>1. PICK clip : /\ got.kind \in {"update_palette", "palette"}
                        /\ got.reg = RegsFor(got.kind, PaletteRegs(clip))
                        /\ \A b \in {call.src, call.dst, call.pat} : b.addr = "handle"
        BY <2>1, <2>6, PaletteSent
      <3>2. name \in Named3
        BY <3>1 DEF Reads, Named3
      <3>3. ReachedIn(PaletteRegs(clip), name)
        BY <2>1, <2>2, <3>1, <3>2, PaletteReaches
      <3>4. ReachedIn(got.reg, name)
        BY <2>3, <3>1, <3>2, <3>3, FieldsKept
      <3> QED
        BY <3>1, <3>4
    <2>7. CASE MadeBlit(req)
      <3>1. PICK usePat \in BOOLEAN : \E limit, csc, clip : BlitWith(req, usePat, limit, csc, clip)
        BY <2>7 DEF MadeBlit
      <3>2. PICK limit, csc, clip : BlitWith(req, usePat, limit, csc, clip)
        BY <3>1
      <3>3. /\ got.kind = "blit" /\ got.src1 = Facing(PatRect(usePat), Rot)
            /\ got.reg = RegsFor("blit", BlitRegs(usePat, clip))
        BY <2>1, <3>2, BlitSent
      <3>4. ~usePat => got.src1 = NoWindow
        BY <2>1, <3>3, FacingWindow, CallRects DEF PatRect
      <3>5. name \in {"src", "dst"} \cup (IF usePat THEN {"src1"} ELSE {}) /\ name \in Named3
        BY <3>3, <3>4 DEF Reads, Named3
      <3>6. \A b \in {call.src, call.dst} \cup (IF usePat THEN {call.pat} ELSE {}) : rga_is_buffer_valid(b)
        BY <3>2 DEF BlitWith
      <3>7. /\ ReachedIn(BlitRegs(usePat, clip), name)
            /\ ByIm2d /\ OperandOf[name].addr = "handle" => BlitRegs(usePat, clip)[name].v = Null
        BY <2>1, <2>2, <3>5, <3>6, BlitReaches
      <3>8. ReachedIn(got.reg, name)
        BY <2>3, <3>3, <3>5, <3>7, FieldsKept
      <3>9. got.reg[name] = BlitRegs(usePat, clip)[name]
        BY <3>3, <3>5, FieldsKept DEF Named3
      <3> QED
        BY <3>7, <3>8, <3>9
    <2> QED
      BY <2>1, <2>4, <2>5, <2>6, <2>7 DEF Made
  <1> QED
    BY <1>1, SpecRequestInv, PTL

-----------------------------------------------------------------------------
(* The features a blit carries                                             *)

\* The alpha and logic registers, and what a setter may leave in them.
AlphaFields == {"flag", "mode", "PD_mode", "fg", "bg", "rop", "key", "gr_color", "dither_mode"}
WordFields == {"mode", "premul", "fg", "bg"}

LEMMA WordOfTask ==
  ASSUME NEW c \in Tasks
  PROVE  LET w == task_blend(c)
             blends == "BLEND" \in c.usage /\ c.blend.mode # "several"
         IN  /\ DOMAIN w = WordFields /\ w.mode \in PorterDuff \cup LegacyCodes \cup {"NONE"}
             /\ w.mode # "NONE" <=> blends \/ c.usage \cap ColorKeys # {}
             /\ blends => w.mode = c.blend.mode /\ w.fg = c.blend.fg /\ w.bg = c.blend.bg
  <1> DEFINE mode == IF c.blend.mode = "several" THEN "NONE" ELSE c.blend.mode
             pre == "PRE_MUL" \in c.usage
             word == Word(mode, pre, c.blend.fg, c.blend.bg)
             first == IF "BLEND" \in c.usage THEN word ELSE NoWord
             key == Word("SRC", TRUE, Opaque, Opaque)
             keyed == IF c.usage \cap ColorKeys # {} /\ first.mode = "NONE" THEN key ELSE first
             blends == "BLEND" \in c.usage /\ c.blend.mode # "several"
  <1>1. task_blend(c) = IF "GAUSS" \in c.usage /\ keyed.fg # Opaque
                        THEN [keyed EXCEPT !.fg = c.blend.fg] ELSE keyed
    BY DEF task_blend
  <1>2. /\ c.blend.mode \in PorterDuff \cup LegacyCodes \cup {"several"}
        /\ c.blend.fg \in Nat /\ c.blend.bg \in Nat
    BY DEF Tasks
  <1>3. "NONE" \notin PorterDuff \cup LegacyCodes /\ "SRC" \in PorterDuff
    BY DEF PorterDuff, LegacyCodes
  <1>4. /\ DOMAIN word = WordFields /\ word.mode = mode /\ word.fg = c.blend.fg /\ word.bg = c.blend.bg
        /\ DOMAIN NoWord = WordFields /\ NoWord.mode = "NONE"
        /\ DOMAIN key = WordFields /\ key.mode = "SRC" /\ key.fg = Opaque
    BY <1>2, <1>3 DEF Word, NoWord, Opaque, WordFields
  <1>5. mode \in PorterDuff \cup LegacyCodes \cup {"NONE"} /\ (mode # "NONE" <=> c.blend.mode # "several")
        /\ (c.blend.mode # "several" => mode = c.blend.mode)
    BY <1>2, <1>3
  <1> HIDE DEF word, key, mode
  <1>6. /\ DOMAIN first = WordFields /\ first.mode \in PorterDuff \cup LegacyCodes \cup {"NONE"}
        /\ first.mode # "NONE" <=> blends
        /\ blends => first.mode = c.blend.mode /\ first.fg = c.blend.fg /\ first.bg = c.blend.bg
    BY <1>4, <1>5
  <1> HIDE DEF first
  <1>7. /\ DOMAIN keyed = WordFields /\ keyed.mode \in PorterDuff \cup LegacyCodes \cup {"NONE"}
        /\ keyed.mode # "NONE" <=> blends \/ c.usage \cap ColorKeys # {}
        /\ blends => keyed.mode = c.blend.mode /\ keyed.fg = c.blend.fg /\ keyed.bg = c.blend.bg
    BY <1>3, <1>4, <1>6
  <1> HIDE DEF keyed
  <1> QED
    BY <1>1, <1>2, <1>7 DEF WordFields

\* A mode of the older interface becomes one of the driver's.
LEMMA CodeOfWord ==
  ASSUME NEW w, DOMAIN w = WordFields, w.mode \in PorterDuff \cup LegacyCodes
  PROVE  /\ DOMAIN LegacyCode(w) = WordFields /\ LegacyCode(w).mode \in PorterDuff
         /\ w.mode \in PorterDuff => LegacyCode(w) = w
  BY DEF LegacyCode, WordFields, Word, Opaque, PorterDuff, LegacyCodes

\* The setters one by one.
LEMMA BlendSet ==
  ASSUME NEW w, DOMAIN w = WordFields, w.mode \in PorterDuff \cup LegacyCodes \cup {"NONE"}
  PROVE  LET r == LegacySetBlend(NoAlpha, w)
         IN  /\ SetBlend(NoAlpha, w) = r
             /\ DOMAIN r = AlphaFields /\ r.key = "none" /\ r.rop = 0
             /\ "PD" \in r.flag <=> w.mode # "NONE"
             /\ "ROP" \notin r.flag /\ "NN" \notin r.flag
             /\ w.mode # "NONE" => r.PD_mode \in PorterDuff
             /\ w.mode \in PorterDuff => r.PD_mode = w.mode /\ r.fg = w.fg /\ r.bg = w.bg
  <1> DEFINE code == LegacyCode(w)
             set == NormalRgaSetAlphaEnInfo(NoAlpha, code)
             r == LegacySetBlend(NoAlpha, w)
  <1>1. SetBlend(NoAlpha, w) = r
    BY DEF SetBlend, LegacySetBlend
  <1>2. r = IF w.mode = "NONE" THEN NoAlpha
            ELSE IF code.premul THEN [set EXCEPT !.flag = set.flag \cup {"BIT9"}] ELSE set
    BY DEF LegacySetBlend
  <1>3. w.mode # "NONE" => /\ DOMAIN code = WordFields /\ code.mode \in PorterDuff
                           /\ w.mode \in PorterDuff => code = w
    BY CodeOfWord
  <1>4. DOMAIN NoAlpha = AlphaFields /\ NoAlpha.flag = {} /\ NoAlpha.key = "none" /\ NoAlpha.rop = 0
        /\ NoAlpha.mode = {}
    BY DEF NoAlpha, AlphaFields
  <1>5. "NONE" \notin PorterDuff
    BY DEF PorterDuff
  <1> HIDE DEF code
  <1>6. w.mode # "NONE" =>
          /\ DOMAIN set = AlphaFields /\ set.key = "none" /\ set.rop = 0
          /\ set.flag = {"ALPHA", "PD", "CAL"}
          /\ set.PD_mode = code.mode /\ set.fg = code.fg /\ set.bg = code.bg
    BY <1>3, <1>4, <1>5 DEF NormalRgaSetAlphaEnInfo, AlphaFields, WordFields
  <1> HIDE DEF set
  <1>7. w.mode # "NONE" => r = set \/ r = [set EXCEPT !.flag = set.flag \cup {"BIT9"}]
    BY <1>2
  <1>8. w.mode = "NONE" => r = NoAlpha
    BY <1>2
  <1> HIDE DEF r
  <1>9. CASE w.mode = "NONE"
    BY <1>1, <1>4, <1>5, <1>8, <1>9 DEF r
  <1>10. CASE w.mode # "NONE"
    <2>1. /\ DOMAIN r = AlphaFields /\ r.key = "none" /\ r.rop = 0
          /\ r.flag = {"ALPHA", "PD", "CAL"} \/ r.flag = {"ALPHA", "PD", "CAL", "BIT9"}
          /\ r.PD_mode = set.PD_mode /\ r.fg = set.fg /\ r.bg = set.bg
      BY <1>6, <1>7, <1>10 DEF AlphaFields
    <2>2. "PD" \in r.flag /\ "ROP" \notin r.flag /\ "NN" \notin r.flag
      BY <2>1
    <2> QED
      BY <1>1, <1>3, <1>6, <1>10, <2>1, <2>2 DEF r
  <1> QED
    BY <1>9, <1>10

LEMMA FlagsSet ==
  ASSUME NEW r, DOMAIN r = AlphaFields, NEW on \in BOOLEAN, NEW quantize \in BOOLEAN
  PROVE  LET s == NormalRgaNNQuantizeMode(NormalRgaSetBitbltMode(r, on), quantize)
         IN  /\ DOMAIN s = AlphaFields
             /\ s.PD_mode = r.PD_mode /\ s.fg = r.fg /\ s.bg = r.bg /\ s.rop = r.rop /\ s.key = r.key
             /\ "PD" \in s.flag <=> "PD" \in r.flag
             /\ "ROP" \in s.flag <=> "ROP" \in r.flag
             /\ "NN" \in s.flag <=> quantize \/ "NN" \in r.flag
  <1> DEFINE b == NormalRgaSetBitbltMode(r, on)
             s == NormalRgaNNQuantizeMode(b, quantize)
  <1>1. /\ DOMAIN b = AlphaFields
        /\ b.PD_mode = r.PD_mode /\ b.fg = r.fg /\ b.bg = r.bg /\ b.rop = r.rop /\ b.key = r.key
        /\ b.flag = r.flag \/ b.flag = r.flag \cup {"DITHER"}
    BY DEF NormalRgaSetBitbltMode, AlphaFields
  <1> HIDE DEF b
  <1>2. /\ DOMAIN s = AlphaFields
        /\ s.PD_mode = b.PD_mode /\ s.fg = b.fg /\ s.bg = b.bg /\ s.rop = b.rop /\ s.key = b.key
        /\ quantize => s.flag = b.flag \cup {"NN"}
        /\ ~quantize => s = b
    BY <1>1 DEF NormalRgaNNQuantizeMode, AlphaFields
  <1> HIDE DEF s
  <1>3. "PD" \in b.flag <=> "PD" \in r.flag
    BY <1>1
  <1>4. "ROP" \in b.flag <=> "ROP" \in r.flag
    BY <1>1
  <1>5. "NN" \in b.flag <=> "NN" \in r.flag
    BY <1>1
  <1> QED
    BY <1>1, <1>2, <1>3, <1>4, <1>5 DEF b, s

LEMMA DitherSet ==
  ASSUME NEW r, DOMAIN r = AlphaFields, NEW c
  PROVE  LET s == NormalRgaDitherMode(r, task_dither(c), c.dst.fmt)
             dithers == c.dst.fmt \in {"Y4", "Y8"} /\ c.y4 # "RGB_TO_Y4"
         IN  /\ DOMAIN s = AlphaFields
             /\ s.PD_mode = r.PD_mode /\ s.fg = r.fg /\ s.bg = r.bg /\ s.rop = r.rop /\ s.key = r.key
             /\ s.flag = IF dithers THEN {"ALPHA", "DITHER"} ELSE r.flag
  <1> DEFINE dither == task_dither(c)
             dithers == c.dst.fmt \in {"Y4", "Y8"} /\ c.y4 # "RGB_TO_Y4"
             on == IF dither.enable THEN [r EXCEPT !.flag = {"ALPHA", "DITHER"}] ELSE r
             s == NormalRgaDitherMode(r, dither, c.dst.fmt)
  <1>1. dither.enable = dithers /\ dither.mode \in {0, 1}
    BY DEF task_dither
  <1>2. s = IF c.dst.fmt \in {"Y4", "Y8"}
            THEN [on EXCEPT !.dither_mode = dither.mode,
                            !.gr_color = IF on.gr_color = "nn" THEN "mixed" ELSE "lut"]
            ELSE on
    BY DEF NormalRgaDitherMode
  <1> HIDE DEF dither, dithers
  <1>3. /\ DOMAIN on = AlphaFields
        /\ on.PD_mode = r.PD_mode /\ on.fg = r.fg /\ on.bg = r.bg /\ on.rop = r.rop /\ on.key = r.key
        /\ on.flag = IF dithers THEN {"ALPHA", "DITHER"} ELSE r.flag
    BY <1>1 DEF AlphaFields
  <1> HIDE DEF on, s
  <1>4. /\ DOMAIN s = AlphaFields
        /\ s.PD_mode = on.PD_mode /\ s.fg = on.fg /\ s.bg = on.bg /\ s.rop = on.rop /\ s.key = on.key
        /\ s.flag = on.flag
    BY <1>1, <1>2, <1>3 DEF AlphaFields
  <1> QED
    BY <1>3, <1>4 DEF dither, dithers, s

LEMMA RopSet ==
  ASSUME NEW r, DOMAIN r = AlphaFields, NEW code \in Nat
  PROVE  LET s == SetRop(r, code)
         IN  /\ DOMAIN s = AlphaFields
             /\ s.PD_mode = r.PD_mode /\ s.fg = r.fg /\ s.bg = r.bg /\ s.key = r.key
             /\ code > 0 => s.rop = code /\ s.flag = {"ALPHA", "ROP"} /\ s.mode = {"PIXEL"}
             /\ ~(code > 0) => s = r
  BY DEF SetRop, AlphaFields

LEMMA KeySet ==
  ASSUME NEW r, DOMAIN r = AlphaFields, NEW key
  PROVE  LET s == SetColorKey(r, key)
         IN  /\ DOMAIN s = AlphaFields
             /\ s.PD_mode = r.PD_mode /\ s.fg = r.fg /\ s.bg = r.bg /\ s.rop = r.rop
             /\ key = "none" => s = r
             /\ key # "none" => s.key = key /\ s.flag = r.flag \cup {"BIT9"} /\ s.mode = r.mode \cup {"ZERO"}
  <1> DEFINE b == [r EXCEPT !.flag = r.flag \cup {"BIT9"}]
             s == SetColorKey(r, key)
  <1>1. DOMAIN b = AlphaFields /\ b.flag = r.flag \cup {"BIT9"} /\ b.mode = r.mode
        /\ b.PD_mode = r.PD_mode /\ b.fg = r.fg /\ b.bg = r.bg /\ b.rop = r.rop
    BY DEF AlphaFields
  <1>2. s = IF key = "none" THEN r ELSE NormalRgaSetSrcTransModeInfo(b, key)
    BY DEF SetColorKey
  <1> HIDE DEF b, s
  <1> QED
    BY <1>1, <1>2 DEF NormalRgaSetSrcTransModeInfo, AlphaFields, s

\* All setters together: RgaBlit and generate_blit_req call them in one order,
\* and a Gaussian blur sets the foreground alpha once more.
Blends(c) == "BLEND" \in c.usage /\ c.blend.mode # "several"
Keyed(c) == c.usage \cap ColorKeys # {}
Rops(c) == "ROP" \in c.usage /\ c.opt.api # "above" /\ c.opt.rop > 0
Dithers(c) == c.dst.fmt \in {"Y4", "Y8"} /\ c.y4 # "RGB_TO_Y4"

CarriesLogic(a, c) ==
  /\ Rops(c) <=> "ROP" \in a.flag
  /\ Rops(c) => a.rop = c.opt.rop /\ a.mode \cap {"PIXEL"} # {}
CarriesKey(a, c) ==
  /\ Keyed(c) <=> a.key # "none"
  /\ Keyed(c) => "BIT9" \in a.flag
CarriesBlend(a, c) ==
  ~Rops(c) /\ ~Dithers(c) =>
    /\ Blends(c) \/ Keyed(c) <=> "PD" \in a.flag
    /\ Blends(c) \/ Keyed(c) => a.PD_mode \in PorterDuff
    /\ Blends(c) /\ c.blend.mode \in PorterDuff => a.PD_mode = c.blend.mode
    /\ "QUANTIZE" \in c.usage <=> "NN" \in a.flag
CarriesAlphas(a, c) ==
  Blends(c) /\ c.blend.mode \in PorterDuff => a.fg = c.blend.fg /\ a.bg = c.blend.bg

LEMMA AlphaSet ==
  ASSUME NEW c \in Tasks
  PROVE  /\ DOMAIN LegacyAlpha(c) = AlphaFields
         /\ CarriesLogic(LegacyAlpha(c), c) /\ CarriesKey(LegacyAlpha(c), c)
         /\ CarriesBlend(LegacyAlpha(c), c) /\ CarriesAlphas(LegacyAlpha(c), c)
  <1> DEFINE w == task_blend(c)
             on == LegacyDitherEn(c.src.fmt, c.dst.fmt)
             quantize == "QUANTIZE" \in c.usage
             code == task_rop(c)
             keymode == colorkey_mode(c.usage)
             r == LegacySetBlend(NoAlpha, w)
             nn == NormalRgaNNQuantizeMode(NormalRgaSetBitbltMode(r, on), quantize)
             dither == NormalRgaDitherMode(nn, task_dither(c), c.dst.fmt)
             rop == SetRop(dither, code)
             key == SetColorKey(rop, keymode)
  <1>1. LegacyAlpha(c) = key
    BY DEF LegacyAlpha
  <1>2. on \in BOOLEAN /\ quantize \in BOOLEAN
    BY DEF LegacyDitherEn, is_rgb_format
  <1>3. /\ code \in Nat /\ (code > 0 <=> Rops(c)) /\ (Rops(c) => code = c.opt.rop)
    <2>1. c.opt \in im_opt_t
      BY DEF Tasks
    <2>2. DOMAIN c.opt = {"api", "rop", "ksize"} /\ c.opt.rop \in Nat
      BY <2>1 DEF im_opt_t
    <2>3. rga_get_opt(c.opt).rop = IF c.opt.api = "above" THEN 0 ELSE c.opt.rop
      <3>1. CASE c.opt.api = "above"
        BY <2>2, <3>1 DEF rga_get_opt
      <3>2. CASE c.opt.api = "1.7.2"
        BY <2>2, <3>2 DEF rga_get_opt
      <3>3. CASE c.opt.api # "above" /\ c.opt.api # "1.7.2"
        BY <3>3 DEF rga_get_opt
      <3> QED
        BY <3>1, <3>2, <3>3
    <2> QED
      BY <2>2, <2>3 DEF task_rop, Rops
  <1>4. keymode \in {"none", "inverted", "normal"} /\ (keymode # "none" <=> Keyed(c))
    BY DEF colorkey_mode, Keyed
  <1>5. /\ DOMAIN w = WordFields /\ w.mode \in PorterDuff \cup LegacyCodes \cup {"NONE"}
        /\ w.mode # "NONE" <=> Blends(c) \/ Keyed(c)
        /\ Blends(c) => w.mode = c.blend.mode /\ w.fg = c.blend.fg /\ w.bg = c.blend.bg
    BY WordOfTask DEF Blends, Keyed
  <1> HIDE DEF w, on, quantize, code, keymode
  <1>6. /\ DOMAIN r = AlphaFields /\ r.key = "none" /\ r.rop = 0
        /\ "PD" \in r.flag <=> w.mode # "NONE"
        /\ "ROP" \notin r.flag /\ "NN" \notin r.flag
        /\ w.mode # "NONE" => r.PD_mode \in PorterDuff
        /\ w.mode \in PorterDuff => r.PD_mode = w.mode /\ r.fg = w.fg /\ r.bg = w.bg
    BY <1>5, BlendSet
  <1> HIDE DEF r
  <1>7. /\ DOMAIN nn = AlphaFields
        /\ nn.PD_mode = r.PD_mode /\ nn.fg = r.fg /\ nn.bg = r.bg /\ nn.rop = r.rop /\ nn.key = r.key
        /\ "PD" \in nn.flag <=> "PD" \in r.flag
        /\ "ROP" \in nn.flag <=> "ROP" \in r.flag
        /\ "NN" \in nn.flag <=> quantize \/ "NN" \in r.flag
    BY <1>2, <1>6, FlagsSet
  <1> HIDE DEF nn
  <1>8. /\ DOMAIN dither = AlphaFields
        /\ dither.PD_mode = nn.PD_mode /\ dither.fg = nn.fg /\ dither.bg = nn.bg /\ dither.rop = nn.rop
        /\ dither.key = nn.key
        /\ dither.flag = IF Dithers(c) THEN {"ALPHA", "DITHER"} ELSE nn.flag
    BY <1>7, DitherSet DEF Dithers
  <1> HIDE DEF dither
  <1>9. /\ DOMAIN rop = AlphaFields
        /\ rop.PD_mode = dither.PD_mode /\ rop.fg = dither.fg /\ rop.bg = dither.bg /\ rop.key = dither.key
        /\ Rops(c) => rop.rop = c.opt.rop /\ rop.flag = {"ALPHA", "ROP"} /\ rop.mode = {"PIXEL"}
        /\ ~Rops(c) => rop = dither
    BY <1>3, <1>8, RopSet
  <1> HIDE DEF rop
  <1>10. /\ DOMAIN key = AlphaFields
         /\ key.PD_mode = rop.PD_mode /\ key.fg = rop.fg /\ key.bg = rop.bg /\ key.rop = rop.rop
         /\ ~Keyed(c) => key = rop
         /\ Keyed(c) => /\ key.key = keymode /\ key.flag = rop.flag \cup {"BIT9"}
                        /\ key.mode = rop.mode \cup {"ZERO"}
    BY <1>4, <1>9, KeySet
  <1> HIDE DEF key
  <1>11. \A bit \in {"ROP", "PD", "NN"} : bit \in key.flag <=> bit \in rop.flag
    BY <1>10
  <1>12. CarriesLogic(key, c)
    <2>1. "ROP" \in key.flag <=> "ROP" \in rop.flag
      BY <1>11
    <2>2. "ROP" \notin dither.flag
      BY <1>6, <1>7, <1>8
    <2>3. Rops(c) <=> "ROP" \in rop.flag
      BY <1>9, <2>2
    <2>4. Rops(c) => key.mode \cap {"PIXEL"} # {}
      BY <1>9, <1>10
    <2> QED
      BY <1>9, <1>10, <2>1, <2>3, <2>4 DEF CarriesLogic
  <1>13. CarriesKey(key, c)
    BY <1>4, <1>6, <1>7, <1>8, <1>9, <1>10 DEF CarriesKey
  <1>14. CarriesBlend(key, c)
    <2> SUFFICES ASSUME ~Rops(c), ~Dithers(c)
                 PROVE  /\ Blends(c) \/ Keyed(c) <=> "PD" \in key.flag
                        /\ Blends(c) \/ Keyed(c) => key.PD_mode \in PorterDuff
                        /\ Blends(c) /\ c.blend.mode \in PorterDuff => key.PD_mode = c.blend.mode
                        /\ quantize <=> "NN" \in key.flag
      BY DEF CarriesBlend, quantize
    <2>1. rop = dither /\ dither.flag = nn.flag
      BY <1>8, <1>9
    <2>2. "PD" \in key.flag <=> w.mode # "NONE"
      BY <1>6, <1>7, <1>11, <2>1
    <2>3. "NN" \in key.flag <=> quantize
      BY <1>6, <1>7, <1>11, <2>1
    <2>4. key.PD_mode = r.PD_mode
      BY <1>7, <1>8, <1>10, <2>1
    <2> QED
      BY <1>5, <1>6, <2>2, <2>3, <2>4
  <1>15. CarriesAlphas(key, c)
    BY <1>5, <1>6, <1>7, <1>8, <1>9, <1>10 DEF CarriesAlphas
  <1> QED
    BY <1>1, <1>10, <1>12, <1>13, <1>14, <1>15

\* im2d differs from the legacy interface only in the foreground of a blur.
LEMMA AlphaOfCall ==
  ASSUME call \in Tasks, NEW usePat, NEW clip
  PROVE  LET reg == BlitRegs(usePat, clip)
         IN  /\ DOMAIN reg.alpha = AlphaFields
             /\ CarriesLogic(reg.alpha, call) /\ CarriesKey(reg.alpha, call)
             /\ CarriesBlend(reg.alpha, call) /\ CarriesAlphas(reg.alpha, call)
             /\ reg.fields = IF ByIm2d THEN task_fields(call) ELSE LegacyFields(call)
  <1> DEFINE a == LegacyAlpha(call)
             fg == task_blend(call).fg
             im2d == BlitAlpha(call)
             reg == BlitRegs(usePat, clip)
  <1>1. /\ DOMAIN a = AlphaFields /\ CarriesLogic(a, call) /\ CarriesKey(a, call)
        /\ CarriesBlend(a, call) /\ CarriesAlphas(a, call)
    BY AlphaSet
  <1>2. Blends(call) => fg = call.blend.fg
    BY WordOfTask DEF Blends
  <1>3. im2d = IF "GAUSS" \in call.usage THEN [a EXCEPT !.fg = fg] ELSE a
    <2>1. SetBlend(NoAlpha, task_blend(call)) = LegacySetBlend(NoAlpha, task_blend(call))
      BY DEF SetBlend, LegacySetBlend
    <2>2. ditherEn(call.src.fmt, call.dst.fmt) = LegacyDitherEn(call.src.fmt, call.dst.fmt)
      BY DEF ditherEn, LegacyDitherEn
    <2> QED
      BY <2>1, <2>2 DEF BlitAlpha, LegacyAlpha
  <1> HIDE DEF a, fg, im2d
  <1>4. /\ DOMAIN im2d = AlphaFields
        /\ im2d.fg = a.fg \/ im2d.fg = fg
        /\ \A x \in AlphaFields \ {"fg"} : im2d[x] = a[x]
    BY <1>1, <1>3 DEF AlphaFields
  <1>5. /\ im2d.flag = a.flag /\ im2d.mode = a.mode /\ im2d.rop = a.rop /\ im2d.key = a.key
        /\ im2d.PD_mode = a.PD_mode /\ im2d.bg = a.bg
    BY <1>4 DEF AlphaFields
  <1>6. CarriesLogic(im2d, call) /\ CarriesKey(im2d, call)
    BY <1>1, <1>5 DEF CarriesLogic, CarriesKey
  <1>7. CarriesBlend(im2d, call)
    BY <1>1, <1>5 DEF CarriesBlend
  <1>8. CarriesAlphas(im2d, call)
    BY <1>1, <1>2, <1>4, <1>5 DEF CarriesAlphas
  <1>9. /\ reg.alpha = IF ByIm2d THEN im2d ELSE a
        /\ reg.fields = IF ByIm2d THEN task_fields(call) ELSE LegacyFields(call)
    <2>1. \A layout, src, pat, dst, rot :
            /\ blit_regs(layout, call, src, pat, usePat, dst, rot, clip).alpha = BlitAlpha(call)
            /\ blit_regs(layout, call, src, pat, usePat, dst, rot, clip).fields = task_fields(call)
      <3> SUFFICES ASSUME NEW layout, NEW src, NEW pat, NEW dst, NEW rot
                   PROVE  LET regs == blit_regs(layout, call, src, pat, usePat, dst, rot, clip)
                          IN  regs.alpha = BlitAlpha(call) /\ regs.fields = task_fields(call)
        OBVIOUS
      <3> DEFINE i == rga_set_buffer_info("src", src)
                 j == IF usePat THEN rga_set_buffer_info("src1", pat) ELSE NoInfo
                 k == rga_set_buffer_info("dst", dst)
                 a1 == BlitPlanes(layout, i)
                 a2 == BlitPlanes(layout, k)
                 a3 == IF usePat THEN BlitPlanes(layout, j) ELSE NoPlanes
                 a4 == Fds(layout, i, j, k)
                 a5 == BlitMmu(layout, i, j, usePat, k)
                 a6 == k.handle # Null
                 a8 == RdModes(src, pat, usePat, dst)
                 a9 == sina_table[Angle(rot)]
                 a10 == cosa_table[Angle(rot)]
                 a11 == BlitAlpha(call)
                 a12 == task_fields(call)
      <3>1. blit_regs(layout, call, src, pat, usePat, dst, rot, clip) =
              [NoRegs EXCEPT !.src = a1, !.dst = a2, !.src1 = a3, !.fds = a4, !.mmu = a5,
                             !.handle = a6, !.clip = clip, !.rd = a8, !.sina = a9, !.cosa = a10,
                             !.alpha = a11, !.fields = a12]
        BY DEF blit_regs
      <3>2. {"alpha", "fields"} \subseteq DOMAIN NoRegs
        BY DEF NoRegs
      <3> HIDE DEF a1, a2, a3, a4, a5, a6, a8, a9, a10, a11, a12
      <3>3. LET regs == blit_regs(layout, call, src, pat, usePat, dst, rot, clip)
            IN  regs.alpha = a11 /\ regs.fields = a12
        BY <3>1, <3>2
      <3> QED
        BY <3>3 DEF a11, a12
    <2>2. \A layout, rot :
            /\ LegacyRegs(layout, call, usePat, rot, clip).alpha = LegacyAlpha(call)
            /\ LegacyRegs(layout, call, usePat, rot, clip).fields = LegacyFields(call)
      <3> SUFFICES ASSUME NEW layout, NEW rot
                   PROVE  LET regs == LegacyRegs(layout, call, usePat, rot, clip)
                          IN  regs.alpha = LegacyAlpha(call) /\ regs.fields = LegacyFields(call)
        OBVIOUS
      <3> DEFINE i == rga_set_buffer_info("src", call.src)
                 j == IF usePat THEN rga_set_buffer_info("src1", call.pat) ELSE NoInfo
                 k == rga_set_buffer_info("dst", call.dst)
                 a1 == LegacyPlanes(layout, i)
                 a2 == LegacyPlanes(layout, k)
                 a3 == IF usePat THEN LegacyPlanes(layout, j) ELSE NoPlanes
                 a4 == Fds(layout, i, j, k)
                 a5 == LegacyMmu(layout, i, j, k)
                 a6 == k.handle # Null
                 a8 == RdModes(call.src, call.pat, usePat, call.dst)
                 a9 == sina_table[Angle(rot)]
                 a10 == cosa_table[Angle(rot)]
                 a11 == LegacyAlpha(call)
                 a12 == LegacyFields(call)
      <3>1. LegacyRegs(layout, call, usePat, rot, clip) =
              [NoRegs EXCEPT !.src = a1, !.dst = a2, !.src1 = a3, !.fds = a4, !.mmu = a5,
                             !.handle = a6, !.clip = clip, !.rd = a8, !.sina = a9, !.cosa = a10,
                             !.alpha = a11, !.fields = a12]
        BY DEF LegacyRegs
      <3>2. {"alpha", "fields"} \subseteq DOMAIN NoRegs
        BY DEF NoRegs
      <3> HIDE DEF a1, a2, a3, a4, a5, a6, a8, a9, a10, a11, a12
      <3>3. LET regs == LegacyRegs(layout, call, usePat, rot, clip)
            IN  regs.alpha = a11 /\ regs.fields = a12
        BY <3>1, <3>2
      <3> QED
        BY <3>3 DEF a11, a12
    <2> QED
      BY <2>1, <2>2 DEF BlitRegs, im2d, a
  <1> QED
    BY <1>1, <1>4, <1>6, <1>7, <1>8, <1>9

\* The chips with features of their own fields come with the multi-core driver:
\* the capability tables do not know the driver, and the older request has no
\* room for these fields.
OldDriversOldCores ==
  \A d \in Devices : d.driver # "multi" => rga_get_info(d).feature \cap OwnFields = {}

LEMMA FeatureOfSession ==
  ASSUME RequestInv, OldDriversOldCores, ByIm2d, NEW i \in DOMAIN sent, device.driver # "multi"
  PROVE  call.usage \cap OwnFields = {}
  <1>1. PICK d \in Devices : device = rga_session_init(d)
    BY DEF RequestInv, DeviceInv
  <1>2. hw.feature \cap OwnFields = {}
    BY <1>1 DEF OldDriversOldCores, rga_session_init, hw
  <1>3. Im2dTask.status = "SUCCESS"
    <2>1. Len(sent) > 0
      BY DEF RequestInv, SentInv
    <2> QED
      BY <2>1 DEF RequestInv, SentInv, TaskNow
  <1>4. rga_check(hw, rga_apply_rect(call.src, call.srect), rga_apply_rect(call.dst, call.drect),
                  PatOf(call), call.srect, call.drect, call.prect, call.usage) = "NOERROR"
    BY <1>3, SubmitSucceeds DEF Im2dTask, hw
  <1>5. call.usage \cap FeatureUsages \subseteq hw.feature
    BY <1>4, TaskChecked
  <1> QED
    BY <1>2, <1>5 DEF OwnFields, FeatureUsages

\* FeaturesCarried: the setters of a blit share the alpha and logic registers,
\* and what the caller asked for is in them at the end, whichever features are
\* combined, in both interfaces and for every driver (NormalRgaSetAlphaEnInfo and
\* the setters after it in generate_blit_req and RgaBlit).
THEOREM FeaturesAreCarried ==
  ASSUME OldDriversOldCores
  PROVE  LegacySpec => []FeaturesCarried
  <1>1. RequestInv => FeaturesCarried
    <2> DEFINE carried(r) ==
          /\ CarriesLogic(r.alpha, call) /\ CarriesKey(r.alpha, call) /\ CarriesBlend(r.alpha, call)
          /\ device.driver = "multi" => CarriesAlphas(r.alpha, call)
          /\ ByIm2d => call.usage \cap OwnFields = r.fields \ {"RGBA5551"}
    <2> SUFFICES ASSUME RequestInv, NEW i \in DOMAIN sent, sent[i].kind = "blit"
                 PROVE  carried(sent[i].reg)
      BY DEF FeaturesCarried, CarriesLogic, CarriesKey, CarriesBlend, CarriesAlphas, Blends, Keyed, Rops,
             Dithers
    <2>1. PICK req : sent[i] = ForDriver(device.driver, req) /\ Made(req) /\ call \in Tasks
      BY SentIsMade
    <2>2. MadeBlit(req)
      BY <2>1, NothingSent, FillSent, PaletteSent DEF Made
    <2>3. PICK usePat \in BOOLEAN : \E limit, csc, clip : BlitWith(req, usePat, limit, csc, clip)
      BY <2>2 DEF MadeBlit
    <2>4. PICK limit, csc, clip : BlitWith(req, usePat, limit, csc, clip)
      BY <2>3
    <2> DEFINE got == sent[i]
               reg == BlitRegs(usePat, clip)
    <2>5. sent[i].reg = RegsFor("blit", reg)
      <3>1. /\ got.kind = "blit" /\ got.src1 = Facing(PatRect(usePat), Rot)
            /\ got.reg = RegsFor("blit", BlitRegs(usePat, clip))
        BY <2>1, <2>4, BlitSent
      <3> QED
        BY <3>1
    <2>6. /\ DOMAIN reg.alpha = AlphaFields
          /\ CarriesLogic(reg.alpha, call) /\ CarriesKey(reg.alpha, call)
          /\ CarriesBlend(reg.alpha, call) /\ CarriesAlphas(reg.alpha, call)
          /\ reg.fields = IF ByIm2d THEN task_fields(call) ELSE LegacyFields(call)
      BY <2>1, AlphaOfCall
    <2>7. task_fields(call) \ {"RGBA5551"} = call.usage \cap OwnFields
      BY DEF task_fields, OwnFields
    <2>8. "alpha" \in DOMAIN reg /\ "fields" \in DOMAIN reg
      BY RegsDomain
    <2> HIDE DEF reg
    <2>9. CASE device.driver = "multi"
      BY <2>5, <2>6, <2>7, <2>9 DEF RegsFor
    <2>10. CASE device.driver # "multi"
      <3> DEFINE old == NormalRgaCompatModeConvertRga2Fields(reg)
      <3>1. sent[i].reg = old
        BY <2>5, <2>10 DEF RegsFor
      <3>2. /\ old.fields = {} /\ old.alpha.flag = reg.alpha.flag /\ old.alpha.mode = reg.alpha.mode
            /\ old.alpha.rop = reg.alpha.rop /\ old.alpha.key = reg.alpha.key
            /\ old.alpha.PD_mode = reg.alpha.PD_mode
        BY <2>6, <2>8 DEF NormalRgaCompatModeConvertRga2Fields, AlphaFields
      <3> HIDE DEF old
      <3>3. CarriesLogic(old.alpha, call) /\ CarriesKey(old.alpha, call)
        BY <2>6, <3>2 DEF CarriesLogic, CarriesKey
      <3>4. CarriesBlend(old.alpha, call)
        BY <2>6, <3>2 DEF CarriesBlend
      <3>5. ByIm2d => call.usage \cap OwnFields = {}
        BY <2>10, FeatureOfSession
      <3>6. ByIm2d => call.usage \cap OwnFields = old.fields \ {"RGBA5551"}
        BY <3>2, <3>5
      <3> QED
        BY <2>10, <3>1, <3>3, <3>4, <3>6
    <2> QED
      BY <2>9, <2>10
  <1> QED
    BY <1>1, SpecRequestInv, PTL

-----------------------------------------------------------------------------
(* The conversion of a blit                                                *)

\* The spaces buffers have, and the table of the modes between them.
HadSpaces == {RGB_FULL, BT601_LIMIT, BT601_FULL, BT709_LIMIT, BT709_FULL}

LEMMA SpaceNumbers ==
  /\ RGB_FULL = 1 /\ BT601_LIMIT = 3 /\ BT601_FULL = 4 /\ BT709_LIMIT = 5 /\ BT709_FULL = 6
  /\ rgb2yuv_601_full = 1 /\ rgb2yuv_709_full = 2 /\ rgb2yuv_709_limit = 11
  /\ HadSpaces = {1, 3, 4, 5, 6} /\ FullMatrices = {1, 2, 11, 5, 7, 9, 10}
  BY DEF RGB_FULL, BT601_LIMIT, BT601_FULL, BT709_LIMIT, BT709_FULL, rgb2yuv_601_full, rgb2yuv_709_full,
         rgb2yuv_709_limit, HadSpaces, FullMatrices

LEMMA CscEntries ==
  ASSUME NEW info
  PROVE  LET m == CscMatrix(info)
             y(k) == Csm(k, 0, 0)
             r(k) == Csm(0, k, 0)
             f(k) == Csm(0, 0, k)
         IN  /\ \A a \in HadSpaces : m[a][a] = Csm(0, 0, 0)
             /\ m[1][3] = r(2) /\ m[1][4] = r(1) /\ m[1][5] \in {f(11), r(3)} /\ m[1][6] = f(2)
             /\ m[3][1] = y(1) /\ m[3][4] = f(13) /\ m[3][5] = f(3) /\ m[3][6] = f(4)
             /\ m[4][1] = y(2) /\ m[4][3] = f(14) /\ m[4][5] = f(7) /\ m[4][6] = f(8)
             /\ m[5][1] = y(3) /\ m[5][3] = f(5) /\ m[5][4] = f(6) /\ m[5][6] = f(15)
             /\ m[6][1] = f(12) /\ m[6][3] = f(9) /\ m[6][4] = f(10) /\ m[6][5] = f(16)
  <1> DEFINE X == CscError
             N == IM_COLOR_SPACE_DEFAULT
             y(k) == Csm(k, 0, 0)
             r(k) == Csm(0, k, 0)
             f(k) == Csm(0, 0, k)
             r709 == IF "DST_FULL_CSC" \in info.feature THEN f(rgb2yuv_709_limit) ELSE r(3)
             m == CscMatrix(info)
  <1>1. m = << << N,     X, r(2),  r(1),  r709,  f(rgb2yuv_709_full) >>,
               << X,     X, X,     X,     X,     X     >>,
               << y(1),  X, N,     f(13), f(3),  f(4)  >>,
               << y(2),  X, f(14), N,     f(7),  f(8)  >>,
               << y(3),  X, f(5),  f(6),  N,     f(15) >>,
               << f(12), X, f(9),  f(10), f(16), N     >> >>
    BY DEF CscMatrix
  <1>2. N = Csm(0, 0, 0) /\ r709 \in {f(11), r(3)} /\ f(rgb2yuv_709_full) = f(2)
    BY SpaceNumbers DEF IM_COLOR_SPACE_DEFAULT
  <1> HIDE DEF X, N, y, r, f, r709, m
  <1>3. /\ m[1] = << N,     X, r(2),  r(1),  r709,  f(rgb2yuv_709_full) >>
        /\ m[3] = << y(1),  X, N,     f(13), f(3),  f(4)  >>
        /\ m[4] = << y(2),  X, f(14), N,     f(7),  f(8)  >>
        /\ m[5] = << y(3),  X, f(5),  f(6),  N,     f(15) >>
        /\ m[6] = << f(12), X, f(9),  f(10), f(16), N     >>
    BY <1>1
  <1>4. /\ m[1][1] = N /\ m[1][3] = r(2) /\ m[1][4] = r(1) /\ m[1][5] = r709 /\ m[1][6] = f(rgb2yuv_709_full)
    BY <1>3
  <1>5. /\ m[3][3] = N /\ m[3][1] = y(1) /\ m[3][4] = f(13) /\ m[3][5] = f(3) /\ m[3][6] = f(4)
    BY <1>3
  <1>6. /\ m[4][4] = N /\ m[4][1] = y(2) /\ m[4][3] = f(14) /\ m[4][5] = f(7) /\ m[4][6] = f(8)
    BY <1>3
  <1>7. /\ m[5][5] = N /\ m[5][1] = y(3) /\ m[5][3] = f(5) /\ m[5][4] = f(6) /\ m[5][6] = f(15)
    BY <1>3
  <1>8. /\ m[6][6] = N /\ m[6][1] = f(12) /\ m[6][3] = f(9) /\ m[6][4] = f(10) /\ m[6][5] = f(16)
    BY <1>3
  <1>9. \A a \in HadSpaces : m[a][a] = Csm(0, 0, 0)
    BY <1>2, <1>4, <1>5, <1>6, <1>7, <1>8, SpaceNumbers
  <1> QED
    BY <1>2, <1>4, <1>5, <1>6, <1>7, <1>8, <1>9 DEF y, r, f, m

\* The conversions that the registers name, from the numbers in them.
LEMMA StepsOf ==
  ASSUME NEW y \in 0..3, NEW r \in 0..3, NEW f \in FullMatrices \cup {0}
  PROVE  LET s == Steps(Csm(y, r, f))
             fromYuv == IF y = 0 THEN {} ELSE IF y = 1 THEN {<<3, 1>>} ELSE IF y = 2 THEN {<<4, 1>>} ELSE {<<5, 1>>}
             toYuv == IF r = 0 THEN {} ELSE IF r = 1 THEN {<<1, 4>>} ELSE IF r = 2 THEN {<<1, 3>>} ELSE {<<1, 5>>}
             full == IF f = 0 THEN {} ELSE IF f = 1 THEN {<<1, 4>>} ELSE IF f = 2 THEN {<<1, 6>>}
                     ELSE IF f = 11 THEN {<<1, 5>>} ELSE IF f = 5 THEN {<<5, 3>>} ELSE IF f = 7 THEN {<<4, 5>>}
                     ELSE IF f = 9 THEN {<<6, 3>>} ELSE {<<6, 4>>}
         IN  s = fromYuv \cup toYuv \cup full
  <1>1. Y2RFrom = <<3, 4, 5>> /\ R2YTo = <<4, 3, 5>>
    BY SpaceNumbers DEF Y2RFrom, R2YTo
  <1>2. y \in {0, 1, 2, 3} /\ r \in {0, 1, 2, 3} /\ f \in {0, 1, 2, 11, 5, 7, 9, 10}
    BY SpaceNumbers
  <1>3. y # 0 => Y2RFrom[y] = IF y = 1 THEN 3 ELSE IF y = 2 THEN 4 ELSE 5
    BY <1>1, <1>2
  <1>4. r # 0 => R2YTo[r] = IF r = 1 THEN 4 ELSE IF r = 2 THEN 3 ELSE 5
    BY <1>1, <1>2
  <1>5. f # 0 => FullStep(f) = IF f = 1 THEN <<1, 4>> ELSE IF f = 2 THEN <<1, 6>>
                     ELSE IF f = 11 THEN <<1, 5>> ELSE IF f = 5 THEN <<5, 3>> ELSE IF f = 7 THEN <<4, 5>>
                     ELSE IF f = 9 THEN <<6, 3>> ELSE <<6, 4>>
    BY <1>2, SpaceNumbers DEF FullStep
  <1>6. Csm(y, r, f).y2r = y /\ Csm(y, r, f).r2y = r /\ Csm(y, r, f).full = f
    BY DEF Csm
  <1>7. Steps(Csm(y, r, f)) = (IF y = 0 THEN {} ELSE {<<Y2RFrom[y], 1>>})
                              \cup (IF r = 0 THEN {} ELSE {<<1, R2YTo[r]>>})
                              \cup (IF f = 0 THEN {} ELSE {FullStep(f)})
    BY <1>6, SpaceNumbers DEF Steps
  <1> QED
    BY <1>3, <1>4, <1>5, <1>7

\* What generate_blit_req makes of a mode, where dy and dr are its defaults.
Requested(q, y, r, f, dy, dr) ==
  LET yy == IF y # 0 THEN y ELSE dy
      rr == IF r # 0 THEN r ELSE dr
      code == f % 16
  IN  /\ yy \in 0..3 /\ rr \in 0..3
      /\ code = 0 => q.mode = Csm(yy, rr, 0)
      /\ code # 0 /\ q.ok =>
           /\ code \in FullMatrices
           /\ q.mode = Csm(yy, IF code = 11 THEN 3 ELSE IF code = 2 THEN 0 ELSE rr, code)

LEMMA RequestOf ==
  ASSUME NEW y \in 0..3, NEW r \in 0..3, NEW f \in 0..31, NEW src, NEW dst, NEW src1
  PROVE  Requested(request_csc(Csm(y, r, f), src, dst, src1), y, r, f,
                   DefaultY2R(src, dst, src1), DefaultR2Y(src, dst, src1))
  <1> DEFINE mode == Csm(y, r, f)
             dy == DefaultY2R(src, dst, src1)
             dr == DefaultR2Y(src, dst, src1)
             yy == IF y # 0 THEN y ELSE dy
             rr == IF r # 0 THEN r ELSE dr
             code == f % 16
             q == request_csc(mode, src, dst, src1)
  <1>1. dy \in {0, 1} /\ dr \in {0, 2}
    BY DEF DefaultY2R, DefaultR2Y
  <1>2. mode.y2r = y /\ mode.r2y = r /\ FullCsc(mode) = code
    BY DEF Csm, FullCsc
  <1> HIDE DEF mode, dy, dr, code
  <1>3. q = IF code = 0 THEN Accept(Csm(yy, rr, 0))
            ELSE IF code \notin FullMatrices THEN Refuse
            ELSE Accept(Csm(yy, CASE code = rgb2yuv_709_limit -> 3
                                  [] code = rgb2yuv_709_full -> 0
                                  [] OTHER -> rr, code))
    BY <1>2 DEF request_csc, dy, dr
  <1>4. (CASE code = rgb2yuv_709_limit -> 3 [] code = rgb2yuv_709_full -> 0 [] OTHER -> rr)
          = IF code = 11 THEN 3 ELSE IF code = 2 THEN 0 ELSE rr
    BY SpaceNumbers
  <1>5. \A m : Accept(m).ok /\ Accept(m).mode = m
    BY DEF Accept
  <1>6. Refuse.ok = FALSE
    BY DEF Refuse
  <1> HIDE DEF q
  <1>7. yy \in 0..3 /\ rr \in 0..3
    BY <1>1
  <1> HIDE DEF yy, rr
  <1>8. code = 0 => q.mode = Csm(yy, rr, 0)
    BY <1>3, <1>5
  <1>9. code # 0 /\ q.ok =>
          /\ code \in FullMatrices
          /\ q.mode = Csm(yy, IF code = 11 THEN 3 ELSE IF code = 2 THEN 0 ELSE rr, code)
    BY <1>3, <1>4, <1>5, <1>6
  <1> QED
    BY <1>7, <1>8, <1>9 DEF mode, dy, dr, yy, rr, code, q, Requested

\* Between two spaces, without a pattern.
HasSpace(fmt, a) == /\ a \in HadSpaces
                    /\ is_rgb_format(fmt) <=> a = 1
                    /\ is_yuv_format(fmt) <=> a # 1

Straight(a, b) == IF a = b THEN {} ELSE {<<a, b>>}

LEMMA Direct ==
  ASSUME NEW info, NEW a, NEW b, NEW src, NEW dst, HasSpace(src, a), HasSpace(dst, b), ~(a = 6 /\ b = 5),
         request_csc(CscMatrix(info)[a][b], src, dst, "none").ok
  PROVE  Steps(request_csc(CscMatrix(info)[a][b], src, dst, "none").mode) = Straight(a, b)
  <1> USE DEF Straight
  <1> DEFINE m == CscMatrix(info)[a][b]
             q == request_csc(m, src, dst, "none")
             dy == DefaultY2R(src, dst, "none")
             dr == DefaultR2Y(src, dst, "none")
  <1>1. a \in {1, 3, 4, 5, 6} /\ b \in {1, 3, 4, 5, 6}
    BY SpaceNumbers DEF HasSpace
  <1>2. dy = (IF a # 1 /\ b = 1 THEN 1 ELSE 0) /\ dr = (IF b # 1 /\ a = 1 THEN 2 ELSE 0)
    BY DEF DefaultY2R, DefaultR2Y, HasSpace
  <1>3. q.ok /\ \A y \in 0..3, r \in 0..3, f \in 0..31 : m = Csm(y, r, f) => Requested(q, y, r, f, dy, dr)
    BY RequestOf
  <1> HIDE DEF m, q, dy, dr
  <1>4. CASE a = b
    <2>1. m = Csm(0, 0, 0)
      BY <1>1, <1>4, CscEntries, SpaceNumbers DEF m
    <2>2. dy = 0 /\ dr = 0
      BY <1>2, <1>4
    <2>3. q.mode = Csm(0, 0, 0)
      BY <1>3, <2>1, <2>2 DEF Requested
    <2> QED
      BY <1>4, <2>3, StepsOf DEF m, q
  <1>5. CASE a = 1 /\ b # 1
    <2>1. dy = 0 /\ dr = 2
      BY <1>2, <1>5
    <2>2. CASE b = 3
      <3>1. m = Csm(0, 2, 0)
        BY <1>5, <2>2, CscEntries DEF m
      <3>2. q.mode = Csm(0, 2, 0)
        BY <1>3, <2>1, <3>1 DEF Requested
      <3> QED
        BY <1>5, <2>2, <3>2, StepsOf DEF m, q
    <2>3. CASE b = 4
      <3>1. m = Csm(0, 1, 0)
        BY <1>5, <2>3, CscEntries DEF m
      <3>2. q.mode = Csm(0, 1, 0)
        BY <1>3, <2>1, <3>1 DEF Requested
      <3> QED
        BY <1>5, <2>3, <3>2, StepsOf DEF m, q
    <2>4. CASE b = 5
      <3>1. m = Csm(0, 0, 11) \/ m = Csm(0, 3, 0)
        BY <1>5, <2>4, CscEntries DEF m
      <3>2. q.mode = Csm(0, 3, 11) \/ q.mode = Csm(0, 3, 0)
        BY <1>3, <2>1, <3>1 DEF Requested
      <3>3. Steps(Csm(0, 3, 11)) = {<<1, 5>>} /\ Steps(Csm(0, 3, 0)) = {<<1, 5>>}
        BY StepsOf, SpaceNumbers
      <3> QED
        BY <1>5, <2>4, <3>2, <3>3 DEF m, q
    <2>5. CASE b = 6
      <3>1. m = Csm(0, 0, 2)
        BY <1>5, <2>5, CscEntries DEF m
      <3>2. q.mode = Csm(0, 0, 2)
        BY <1>3, <2>1, <3>1 DEF Requested
      <3>3. Steps(Csm(0, 0, 2)) = {<<1, 6>>}
        BY StepsOf, SpaceNumbers
      <3> QED
        BY <1>5, <2>5, <3>2, <3>3 DEF m, q
    <2> QED
      BY <1>1, <1>5, <2>2, <2>3, <2>4, <2>5
  <1>6. CASE a # 1 /\ b = 1
    <2>1. dr = 0
      BY <1>2, <1>6
    <2>2. a # 6
      <3> SUFFICES ASSUME a = 6 PROVE FALSE
        OBVIOUS
      <3>1. m = Csm(0, 0, 12)
        BY <1>6, CscEntries DEF m
      <3> QED
        BY <1>3, <3>1, SpaceNumbers DEF Requested
    <2>3. m = Csm(a - 2, 0, 0) /\ a - 2 \in {1, 2, 3}
      <3>1. /\ a = 3 => m = Csm(1, 0, 0)
            /\ a = 4 => m = Csm(2, 0, 0)
            /\ a = 5 => m = Csm(3, 0, 0)
        BY <1>6, CscEntries DEF m
      <3> QED
        BY <1>1, <1>6, <2>2, <3>1
    <2>4. q.mode = Csm(a - 2, 0, 0)
      BY <1>3, <2>1, <2>3 DEF Requested
    <2>5. Steps(Csm(1, 0, 0)) = {<<3, 1>>} /\ Steps(Csm(2, 0, 0)) = {<<4, 1>>}
          /\ Steps(Csm(3, 0, 0)) = {<<5, 1>>}
      BY StepsOf
    <2> QED
      BY <1>1, <1>6, <2>2, <2>4, <2>5 DEF m, q
  <1>7. CASE a # 1 /\ b # 1 /\ a # b
    <2>1. dy = 0 /\ dr = 0
      BY <1>2, <1>7
    <2>2. PICK f \in 0..31 : m = Csm(0, 0, f) /\ f % 16 # 0
               /\ (f % 16 \in {5, 7, 9, 10} => <<a, b>> = IF f = 5 THEN <<5, 3>> ELSE IF f = 7 THEN <<4, 5>>
                                                         ELSE IF f = 9 THEN <<6, 3>> ELSE <<6, 4>>)
               /\ f % 16 \notin {1, 2, 11} /\ f % 16 = f
      <3> DEFINE is(f) == /\ m = Csm(0, 0, f) /\ f % 16 # 0
               /\ (f % 16 \in {5, 7, 9, 10} => <<a, b>> = IF f = 5 THEN <<5, 3>> ELSE IF f = 7 THEN <<4, 5>>
                                                         ELSE IF f = 9 THEN <<6, 3>> ELSE <<6, 4>>)
               /\ f % 16 \notin {1, 2, 11} /\ f % 16 = f
      <3> SUFFICES \E f \in 0..31 : is(f)
        OBVIOUS
      <3>1. CASE a = 3
        <4>1. b \in {4, 5, 6}
          BY <1>1, <1>7, <3>1
        <4>2. /\ b = 4 => is(13)
              /\ b = 5 => is(3)
              /\ b = 6 => is(4)
          BY <3>1, CscEntries DEF m
        <4> QED
          BY <4>1, <4>2
      <3>2. CASE a = 4
        <4>1. b \in {3, 5, 6}
          BY <1>1, <1>7, <3>2
        <4>2. /\ b = 3 => is(14)
              /\ b = 5 => is(7)
              /\ b = 6 => is(8)
          BY <3>2, CscEntries DEF m
        <4> QED
          BY <4>1, <4>2
      <3>3. CASE a = 5
        <4>1. b \in {3, 4, 6}
          BY <1>1, <1>7, <3>3
        <4>2. /\ b = 3 => is(5)
              /\ b = 4 => is(6)
              /\ b = 6 => is(15)
          BY <3>3, CscEntries DEF m
        <4> QED
          BY <4>1, <4>2
      <3>4. CASE a = 6
        <4>1. b \in {3, 4}
          BY <1>1, <1>7, <3>4
        <4>2. /\ b = 3 => is(9)
              /\ b = 4 => is(10)
          BY <3>4, CscEntries DEF m
        <4> QED
          BY <4>1, <4>2
      <3> QED
        BY <1>1, <1>7, <3>1, <3>2, <3>3, <3>4
    <2>3. f \in FullMatrices /\ q.mode = Csm(0, 0, f)
      BY <1>3, <2>1, <2>2 DEF Requested
    <2>4. f \in {5, 7, 9, 10}
      BY <2>2, <2>3, SpaceNumbers
    <2>5. Steps(Csm(0, 0, f)) = {<<a, b>>}
      BY <2>2, <2>3, <2>4, StepsOf
    <2> QED
      BY <1>7, <2>3, <2>5 DEF m, q
  <1> QED
    BY <1>4, <1>5, <1>6, <1>7

\* Through an RGB pattern: from the source's space to RGB and on to the
\* destination's.
Through(a, b) == {x \in {<<a, 1>>, <<1, b>>} : x[1] # x[2]}

LEMMA OrValues ==
  /\ \A k \in {0, 1, 2, 3, 11} : Or(k, 0) = k /\ Or(0, k) = k
  /\ Or(12, 0) = 12 /\ Or(12, 2) = 14 /\ Or(12, 11) = 15
  /\ \A k : Or(31, k) = 31 /\ Or(k, 31) = 31
  BY DEF Or

LEMMA ThroughPattern ==
  ASSUME NEW info, NEW a, NEW b, NEW src, NEW dst, NEW pat, HasSpace(src, a), HasSpace(dst, b),
         is_rgb_format(pat), pat # "none",
         request_csc(CsmOr(CscMatrix(info)[a][1], CscMatrix(info)[1][b]), src, dst, pat).ok
  PROVE  Steps(request_csc(CsmOr(CscMatrix(info)[a][1], CscMatrix(info)[1][b]), src, dst, pat).mode) =
           Through(a, b)
  <1> DEFINE from == CscMatrix(info)[a][1]
             to == CscMatrix(info)[1][b]
             m == CsmOr(from, to)
             q == request_csc(m, src, dst, pat)
             dy == DefaultY2R(src, dst, pat)
             dr == DefaultR2Y(src, dst, pat)
             y == IF a = 1 THEN 0 ELSE a - 2
  <1>1. a \in {1, 3, 4, 5, 6} /\ b \in {1, 3, 4, 5, 6}
    BY SpaceNumbers DEF HasSpace
  <1>2. dy = (IF a # 1 THEN 1 ELSE 0) /\ dr = (IF b # 1 THEN 2 ELSE 0)
    BY SMTT(40) DEF DefaultY2R, DefaultR2Y, HasSpace
  <1>3. q.ok /\ \A yy \in 0..3, r \in 0..3, f \in 0..31 : m = Csm(yy, r, f) => Requested(q, yy, r, f, dy, dr)
    BY RequestOf
  <1>4. /\ b = 1 => to = Csm(0, 0, 0)
        /\ b = 3 => to = Csm(0, 2, 0)
        /\ b = 4 => to = Csm(0, 1, 0)
        /\ b = 5 => to \in {Csm(0, 0, 11), Csm(0, 3, 0)}
        /\ b = 6 => to = Csm(0, 0, 2)
    BY CscEntries, SpaceNumbers
  <1>5. /\ a # 6 => from = Csm(y, 0, 0) /\ y \in {0, 1, 2, 3}
        /\ a = 6 => from = Csm(0, 0, 12)
    <2>1. /\ a = 1 => from = Csm(0, 0, 0)
          /\ a = 3 => from = Csm(1, 0, 0)
          /\ a = 4 => from = Csm(2, 0, 0)
          /\ a = 5 => from = Csm(3, 0, 0)
          /\ a = 6 => from = Csm(0, 0, 12)
      BY CscEntries, SpaceNumbers
    <2> QED
      BY <1>1, <2>1
  <1>6. \A u, v, w, x, z, t : CsmOr(Csm(u, v, w), Csm(x, z, t)) = Csm(Or(u, x), Or(v, z), Or(w, t))
    BY DEF CsmOr, Csm
  <1>p. dy \in {0, 1} /\ dr \in {0, 2}
    BY <1>2
  <1>s. Through(a, b) = {x \in {<<a, 1>>} : x[1] # x[2]} \cup (IF b = 1 THEN {} ELSE {<<1, b>>})
    BY DEF Through
  <1> SUFFICES Steps(q.mode) = Through(a, b)
    OBVIOUS
  <1> HIDE DEF from, to, q, dy, dr
  <1>7. a # 6
    <2> SUFFICES ASSUME a = 6 PROVE FALSE
      OBVIOUS
    <2>1. PICK r \in {0, 1, 2, 3}, f \in {0, 2, 11} : to = Csm(0, r, f)
      BY <1>1, <1>4
    <2>0. m = Csm(Or(0, 0), Or(0, r), Or(12, f))
      BY <1>5, <1>6, <2>1
    <2>2. m = Csm(0, r, Or(12, f)) /\ Or(12, f) \in {12, 14, 15}
      BY <2>0, <2>1, OrValues
    <2> HIDE DEF m
    <2>3. PICK code \in {12, 14, 15} : m = Csm(0, r, code)
      BY <2>2
    <2>4. Requested(q, 0, r, code, dy, dr)
      BY <1>3, <2>3
    <2>5. code % 16 = code
      BY <2>3
    <2> QED
      BY <1>3, <2>3, <2>4, <2>5, SpaceNumbers DEF Requested
  <1>8. y \in {0, 1, 2, 3} /\ (y = 0 <=> a = 1)
    BY <1>1, <1>5, <1>7
  <1>9. \A r \in {0, 1, 2, 3}, f \in {0, 2, 11} : to = Csm(0, r, f) => m = Csm(y, r, f)
    <2> TAKE r \in {0, 1, 2, 3}, f \in {0, 2, 11}
    <2> HAVE to = Csm(0, r, f)
    <2>1. m = Csm(Or(y, 0), Or(0, r), Or(0, f))
      BY <1>5, <1>6, <1>7
    <2> QED
      BY <1>8, <2>1, OrValues
  <1>10. Steps(Csm(y, 0, 0)) = {x \in {<<a, 1>>} : x[1] # x[2]}
    BY <1>1, <1>7, <1>8, StepsOf
  <1>11. \A r \in {0, 1, 2, 3}, f \in {0, 2, 11} : Steps(Csm(y, r, f)) = Steps(Csm(y, 0, 0)) \cup Steps(Csm(0, r, f))
    BY <1>8, StepsOf, SpaceNumbers
  <1> HIDE DEF m, y
  <1>12. CASE b = 1
    <2>1. m = Csm(y, 0, 0)
      BY <1>4, <1>9, <1>12
    <2>2. q.mode = Csm(y, 0, 0)
      BY <1>2, <1>3, <1>8, <1>12, <2>1 DEF Requested
    <2> QED
      BY <1>s, <1>10, <1>12, <2>2
  <1>13. CASE b = 3
    <2>1. m = Csm(y, 2, 0)
      BY <1>4, <1>9, <1>13
    <2>2. q.mode = Csm(y, 2, 0)
      BY <1>2, <1>3, <1>8, <1>13, <2>1 DEF Requested
    <2>3. Steps(Csm(0, 2, 0)) = {<<1, 3>>}
      BY StepsOf
    <2>4. Steps(Csm(y, 2, 0)) = {x \in {<<a, 1>>} : x[1] # x[2]} \cup {<<1, 3>>}
      BY <1>10, <1>11, <2>3
    <2> QED
      BY <1>s, <1>13, <2>2, <2>4
  <1>14. CASE b = 4
    <2>1. m = Csm(y, 1, 0)
      BY <1>4, <1>9, <1>14
    <2>2. q.mode = Csm(y, 1, 0)
      BY <1>2, <1>3, <1>8, <1>14, <2>1 DEF Requested
    <2>3. Steps(Csm(0, 1, 0)) = {<<1, 4>>}
      BY StepsOf
    <2>4. Steps(Csm(y, 1, 0)) = {x \in {<<a, 1>>} : x[1] # x[2]} \cup {<<1, 4>>}
      BY <1>10, <1>11, <2>3
    <2> QED
      BY <1>s, <1>14, <2>2, <2>4
  <1>15. CASE b = 5
    <2>1. m = Csm(y, 0, 11) \/ m = Csm(y, 3, 0)
      BY <1>4, <1>9, <1>15
    <2>2. q.mode = Csm(y, 3, 11) \/ q.mode = Csm(y, 3, 0)
      BY <1>2, <1>3, <1>8, <1>15, <2>1 DEF Requested
    <2>3. Steps(Csm(0, 3, 0)) = {<<1, 5>>} /\ Steps(Csm(0, 3, 11)) = {<<1, 5>>}
      BY StepsOf, SpaceNumbers
    <2>4. Steps(q.mode) = {x \in {<<a, 1>>} : x[1] # x[2]} \cup {<<1, 5>>}
      BY <1>10, <1>11, <2>2, <2>3
    <2> QED
      BY <1>s, <1>15, <2>4
  <1>16. CASE b = 6
    <2>1. m = Csm(y, 0, 2)
      BY <1>4, <1>9, <1>16
    <2>2. q.mode = Csm(y, 0, 2)
      BY <1>2, <1>3, <1>8, <1>16, <2>1 DEF Requested
    <2>3. Steps(Csm(0, 0, 2)) = {<<1, 6>>}
      BY StepsOf, SpaceNumbers
    <2>4. Steps(Csm(y, 0, 2)) = {x \in {<<a, 1>>} : x[1] # x[2]} \cup {<<1, 6>>}
      BY <1>10, <1>11, <2>3
    <2> QED
      BY <1>s, <1>16, <2>2, <2>4
  <1> QED
    BY <1>1, <1>12, <1>13, <1>14, <1>15, <1>16

\* No format is both, and the spaces that fit one are those it has.
LEMMA FitsHas ==
  ASSUME NEW fmt, NEW a, Fits(a, fmt)
  PROVE  HasSpace(fmt, a)
  <1>1. ~(is_rgb_format(fmt) /\ is_yuv_format(fmt))
    BY DEF is_rgb_format, is_yuv_format, YuvFormats
  <1>2. (is_rgb_format(fmt) /\ a = 1) \/ (is_yuv_format(fmt) /\ a \in 3..6)
    BY SpaceNumbers DEF Fits
  <1> QED
    BY <1>1, <1>2, SpaceNumbers DEF HasSpace

\* The conversions named for the destination: the fields say them, and for
\* BT.709 the full matrix may say the second one once more.
LEMMA NamedSteps ==
  ASSUME NEW y \in 0..3, NEW r \in 0..3
  PROVE  /\ Steps(Csm(y, r, 0)) = (IF y = 0 THEN {} ELSE {<<Y2RFrom[y], 1>>})
                                  \cup (IF r = 0 THEN {} ELSE {<<1, R2YTo[r]>>})
         /\ Steps(Csm(y, 3, 11)) = Steps(Csm(y, 3, 0))
         /\ y # 0 => Y2RFrom[y] # 1
         /\ r # 0 => R2YTo[r] # 1
  <1>1. Y2RFrom = <<3, 4, 5>> /\ R2YTo = <<4, 3, 5>>
    BY SpaceNumbers DEF Y2RFrom, R2YTo
  <1>2. Csm(y, r, 0).y2r = y /\ Csm(y, r, 0).r2y = r /\ Csm(y, r, 0).full = 0
    BY DEF Csm
  <1>3. Steps(Csm(y, r, 0)) = (IF y = 0 THEN {} ELSE {<<Y2RFrom[y], 1>>})
                              \cup (IF r = 0 THEN {} ELSE {<<1, R2YTo[r]>>})
    BY <1>2, SpaceNumbers DEF Steps
  <1>4. Steps(Csm(y, 3, 11)) = Steps(Csm(y, 3, 0))
    <2>1. FullStep(11) = <<1, 5>>
      BY SpaceNumbers DEF FullStep
    <2>2. R2YTo[3] = 5
      BY <1>1
    <2>3. /\ Csm(y, 3, 11).y2r = y /\ Csm(y, 3, 11).r2y = 3 /\ Csm(y, 3, 11).full = 11
          /\ Csm(y, 3, 0).y2r = y /\ Csm(y, 3, 0).r2y = 3 /\ Csm(y, 3, 0).full = 0
      BY DEF Csm
    <2> QED
      BY <2>1, <2>2, <2>3, SpaceNumbers DEF Steps
  <1>5. (y # 0 => Y2RFrom[y] # 1) /\ (r # 0 => R2YTo[r] # 1)
    BY <1>1
  <1> QED
    BY <1>3, <1>4, <1>5

\* The error of rga_get_csc_mode is no matrix that is known.
LEMMA ErrorRefused ==
  ASSUME NEW mode, NEW src, NEW dst, NEW src1, mode.full = 31
  PROVE  ~request_csc(mode, src, dst, src1).ok
  <1>1. FullCsc(mode) = 15
    BY DEF FullCsc
  <1>2. 15 \notin FullMatrices
    BY SpaceNumbers
  <1> QED
    BY <1>1, <1>2 DEF request_csc, Refuse

LEMMA ErrorOr ==
  ASSUME NEW m
  PROVE  CscError.full = 31 /\ CsmOr(CscError, m).full = 31 /\ CsmOr(m, CscError).full = 31
  BY OrValues DEF CscError, CsmOr, Csm

\* A buffer that names no full matrix has the space of its format.
LEMMA DefaultSpace ==
  ASSUME NEW b \in rga_buffer_t, FullCsc(b.csm) = 0, Declared(b).full \in HadSpaces
  PROVE  Declared(b).full = (IF is_rgb_format(b.fmt) THEN 1 ELSE 3)
  <1>1. b.csm.full \in 0..31 /\ b.csm.full % 16 = 0
    BY DEF rga_buffer_t, FullCsc
  <1>2. b.csm.full \notin HadSpaces
    BY <1>1, SpaceNumbers
  <1>3. Declared(b) = rga_get_default_csc_mode(b.fmt)
    BY <1>2 DEF Declared
  <1> QED
    BY <1>3, SpaceNumbers DEF rga_get_default_csc_mode, Csm

\* The request of a task that passed converts as its buffers declare.
LEMMA ConvertsAsDeclared ==
  ASSUME call \in Tasks, NEW usePat \in BOOLEAN, NEW csc, Im2dConverts(usePat, csc),
         Consistent, <<SrcSpace, DstSpace>> # <<BT709_FULL, BT709_LIMIT>>
  PROVE  Steps(csc) = Wanted
  <1> DEFINE src == rga_apply_rect(call.src, call.srect)
             dst == rga_apply_rect(call.dst, call.drect)
             pat == PatOf(call)
             sf == call.src.fmt
             df == call.dst.fmt
             pf == IF usePat THEN call.pat.fmt ELSE "none"
             y == call.dst.csm.y2r
             r == call.dst.csm.r2y
             f == call.dst.csm.full
             mode == TaskCsc.mode
             q == request_csc(mode, sf, df, pf)
             dy == DefaultY2R(sf, df, pf)
             dr == DefaultR2Y(sf, df, pf)
             a == SrcSpace
             b == DstSpace
  <1>1. /\ call.src \in rga_buffer_t /\ call.dst \in rga_buffer_t /\ call.pat \in rga_buffer_t
        /\ call.srect \in im_rect /\ call.drect \in im_rect
    BY DEF Tasks
  <1>2. y \in 0..3 /\ r \in 0..3 /\ f \in 0..31 /\ call.dst.csm = Csm(y, r, f)
    BY <1>1 DEF rga_buffer_t, Csm
  <1>3. /\ src.fmt = sf /\ src.csm = call.src.csm /\ dst.fmt = df /\ dst.csm = call.dst.csm
        /\ pat.fmt = call.pat.fmt /\ pat.csm = call.pat.csm /\ pat.addr = call.pat.addr
    BY <1>1, OperandWindows, PatternOf
  <1>4. usePat <=> rga_is_buffer_valid(call.pat)
    BY DEF Im2dConverts, UsesPat, Consistent
  <1>5. TaskCsc = task_csc(hw, src, dst, pat) /\ TaskCsc.ok
    BY DEF TaskCsc, Im2dConverts
  <1>6. q.ok /\ csc = q.mode
    BY DEF Im2dConverts, BlitCsc
  <1>7. \A yy \in 0..3, rr \in 0..3, ff \in 0..31 :
          mode = Csm(yy, rr, ff) => Requested(q, yy, rr, ff, dy, dr)
    BY RequestOf
  <1>8. HasSpace(sf, a) /\ HasSpace(df, b)
    BY FitsHas DEF Consistent
  <1>9. Wanted = IF usePat THEN Through(a, b) ELSE IF a = b THEN {} ELSE {<<a, b>>}
    <2>1. CASE usePat
      BY <2>1, SpaceNumbers DEF Wanted, Through, Im2dConverts
    <2>2. CASE ~usePat
      <3>1. Wanted = {p \in {<<a, b>>} : p[1] # p[2]}
        BY <2>2 DEF Wanted, Im2dConverts
      <3> QED
        BY <2>2, <3>1
    <2> QED
      BY <2>1, <2>2
  <1>10. ~(a = 6 /\ b = 5)
    BY SpaceNumbers
  <1>11. /\ ~usePat => pf = "none"
         /\ usePat => pf = call.pat.fmt /\ rga_is_buffer_valid(pat) /\ Declared(call.pat).full = 1
         /\ ~usePat => ~rga_is_buffer_valid(pat)
    BY <1>3, <1>4, SpaceNumbers DEF Consistent, rga_is_buffer_valid
  <1>12. ~(is_rgb_format(sf) /\ is_yuv_format(sf)) /\ ~(is_rgb_format(df) /\ is_yuv_format(df))
    BY <1>8 DEF HasSpace
  <1>13. \A m : Accept(m).ok /\ Accept(m).mode = m
    BY DEF Accept
  <1>14. Refuse.ok = FALSE
    BY DEF Refuse
  <1> HIDE DEF q, dy, dr, mode, src, dst, pat, pf
  <1>15. CASE y # 0 \/ r # 0
    <2>1. f % 16 = 0
      BY <1>2, <1>15 DEF Consistent, FullCsc
    <2>2. y # 0 => a = Y2RFrom[y]
      BY DEF SrcSpace
    <2>3. r # 0 => b = R2YTo[r]
      BY DEF DstSpace
    <2>4. \A m : PreferFull(hw, m) = m \/ (m.r2y = 3 /\ PreferFull(hw, m) = Csm(m.y2r, 0, 11))
      BY SpaceNumbers DEF PreferFull
    <2>5. /\ mode = Csm(y, r, f) \/ (r = 3 /\ mode = Csm(y, 0, 11))
          /\ y # 0 => is_yuv_format(sf)
          /\ y = 0 => is_rgb_format(sf)
          /\ r # 0 => is_yuv_format(df)
          /\ r = 0 => is_rgb_format(df)
          /\ y # 0 /\ r # 0 => usePat
      <3>1. CASE y # 0 /\ r # 0
        <4>1. TaskCsc = IF rga_is_buffer_valid(pat) /\ is_rgb_format(pat.fmt) /\ is_yuv_format(src.fmt) /\ is_yuv_format(dst.fmt)
                        THEN Accept(PreferFull(hw, dst.csm)) ELSE Refuse
          BY <1>3, <1>5, <3>1 DEF task_csc
        <4> QED
          BY <1>2, <1>3, <1>5, <1>11, <1>13, <1>14, <2>4, <3>1, <4>1 DEF mode
      <3>2. CASE y # 0 /\ r = 0
        <4>1. TaskCsc = IF is_yuv_format(src.fmt) /\ is_rgb_format(dst.fmt) THEN Accept(dst.csm) ELSE Refuse
          BY <1>3, <1>5, <3>2 DEF task_csc
        <4> QED
          BY <1>2, <1>3, <1>5, <1>13, <1>14, <3>2, <4>1 DEF mode
      <3>3. CASE y = 0 /\ r # 0
        <4>1. TaskCsc = IF is_rgb_format(src.fmt) /\ is_yuv_format(dst.fmt)
                        THEN Accept(IF rga_is_buffer_valid(pat) /\ is_rgb_format(pat.fmt)
                                    THEN dst.csm ELSE PreferFull(hw, dst.csm))
                        ELSE Refuse
          BY <1>3, <1>5, <3>3 DEF task_csc
        <4> QED
          BY <1>2, <1>3, <1>5, <1>13, <1>14, <2>4, <3>3, <4>1 DEF mode
      <3> QED
        BY <1>15, <3>1, <3>2, <3>3
    <2>6. /\ y = 0 => a = 1 /\ dy = 0
          /\ r = 0 => b = 1 /\ dr = 0
      BY <1>8, <1>12, <2>5 DEF dy, dr, DefaultY2R, DefaultR2Y, HasSpace
    <2>7. q.mode = Csm(y, r, 0) \/ (r = 3 /\ q.mode = Csm(y, 3, 11))
      <3>1. CASE mode = Csm(y, r, f)
        <4>1. Requested(q, y, r, f, dy, dr)
          BY <1>2, <1>7, <3>1
        <4> QED
          BY SMTT(40), <1>2, <2>1, <2>6, <4>1 DEF Requested
      <3>2. CASE r = 3 /\ mode = Csm(y, 0, 11)
        <4>1. Requested(q, y, 0, 11, dy, dr)
          BY <1>2, <1>7, <3>2
        <4> QED
          BY <1>2, <1>6, <2>6, <3>2, <4>1 DEF Requested
      <3> QED
        BY <2>5, <3>1, <3>2
    <2>8. Steps(csc) = (IF y = 0 THEN {} ELSE {<<a, 1>>}) \cup (IF r = 0 THEN {} ELSE {<<1, b>>})
      BY <1>2, <1>6, <2>2, <2>3, <2>7, NamedSteps
    <2>9. (y # 0 <=> a # 1) /\ (r # 0 <=> b # 1)
      BY <1>2, <2>2, <2>3, <2>6, NamedSteps
    <2>10. CASE usePat
      BY <1>9, <2>8, <2>9, <2>10 DEF Through
    <2>11. CASE ~usePat
      BY <1>9, <1>15, <2>5, <2>8, <2>9, <2>11
    <2> QED
      BY <2>10, <2>11
  <1>16. CASE y = 0 /\ r = 0
    <2>1. a = Declared(call.src).full /\ b = Declared(call.dst).full
      BY <1>16 DEF SrcSpace, DstSpace
    <2>2. Declared(src) = Declared(call.src) /\ Declared(dst) = Declared(call.dst) /\ Declared(pat) = Declared(call.pat)
      BY <1>3 DEF Declared
    <2>3. CASE \E x \in {src, dst, pat} : FullCsc(x.csm) # 0
      <3>1. CASE ~usePat
        <4>1. mode = rga_get_csc_mode(hw, Declared(call.src), Declared(call.dst))
          BY <1>3, <1>5, <1>11, <1>13, <1>16, <2>2, <2>3, <3>1 DEF mode, task_csc
        <4>2. mode = CscMatrix(hw)[a][b]
          BY <1>6, <2>1, <4>1, ErrorRefused, ErrorOr DEF rga_get_csc_mode, q
        <4>3. q = request_csc(CscMatrix(hw)[a][b], sf, df, "none")
          BY <1>11, <3>1, <4>2 DEF q
        <4>4. request_csc(CscMatrix(hw)[a][b], sf, df, "none").ok
          BY <1>6, <4>3
        <4> HIDE DEF a, b, sf, df
        <4>5. Steps(request_csc(CscMatrix(hw)[a][b], sf, df, "none").mode) = Straight(a, b)
          BY <1>8, <1>10, <4>4, Direct
        <4> QED
          BY <1>6, <1>9, <3>1, <4>3, <4>5 DEF Straight
      <3>2. CASE usePat
        <4> DEFINE from == rga_get_csc_mode(hw, Declared(call.src), Declared(call.pat))
                   to == rga_get_csc_mode(hw, Declared(call.pat), Declared(call.dst))
        <4>1. TaskCsc = IF is_rgb_format(pat.fmt) THEN Accept(CsmOr(from, to)) ELSE Refuse
          BY <1>3, <1>5, <1>11, <1>16, <2>2, <2>3, <3>2 DEF task_csc
        <4>2. is_rgb_format(pf) /\ mode = CsmOr(from, to)
          BY <1>3, <1>5, <1>11, <1>13, <1>14, <3>2, <4>1 DEF mode
        <4>3. from # CscError /\ to # CscError
          BY <1>6, <4>2, ErrorRefused, ErrorOr DEF q
        <4>4. from = CscMatrix(hw)[a][1] /\ to = CscMatrix(hw)[1][b]
          BY <1>11, <2>1, <3>2, <4>3 DEF rga_get_csc_mode
        <4>5. pf # "none"
          BY <4>2 DEF is_rgb_format
        <4>6. mode = CsmOr(CscMatrix(hw)[a][1], CscMatrix(hw)[1][b])
          BY <4>2, <4>4
        <4>7. q = request_csc(CsmOr(CscMatrix(hw)[a][1], CscMatrix(hw)[1][b]), sf, df, pf)
          BY <4>6 DEF q
        <4>8. request_csc(CsmOr(CscMatrix(hw)[a][1], CscMatrix(hw)[1][b]), sf, df, pf).ok
          BY <1>6, <4>7
        <4> HIDE DEF from, to, a, b, sf, df
        <4>9. Steps(request_csc(CsmOr(CscMatrix(hw)[a][1], CscMatrix(hw)[1][b]), sf, df, pf).mode) = Through(a, b)
          BY <1>8, <4>2, <4>5, <4>8, ThroughPattern
        <4> QED
          BY <1>6, <1>9, <3>2, <4>7, <4>9
      <3> QED
        BY <3>1, <3>2
    <2>4. CASE ~\E x \in {src, dst, pat} : FullCsc(x.csm) # 0
      <3>1. mode = Csm(0, 0, 0)
        BY <1>3, <1>5, <1>13, <1>16, <2>4 DEF mode, task_csc, IM_COLOR_SPACE_DEFAULT
      <3>2. q.mode = Csm(dy, dr, 0)
        BY <1>7, <3>1 DEF Requested
      <3>3. a = (IF is_rgb_format(sf) THEN 1 ELSE 3) /\ b = (IF is_rgb_format(df) THEN 1 ELSE 3)
        BY <1>1, <1>3, <1>8, <2>1, <2>4, DefaultSpace DEF HasSpace
      <3>4. usePat => is_rgb_format(pf)
        BY <1>1, <1>3, <1>11, <2>4, DefaultSpace, SpaceNumbers
      <3>5. CASE ~usePat
        <4>1. dy = (IF a = 3 /\ b = 1 THEN 1 ELSE 0) /\ dr = (IF a = 1 /\ b = 3 THEN 2 ELSE 0)
          BY <1>8, <1>11, <3>3, <3>5 DEF dy, dr, DefaultY2R, DefaultR2Y, HasSpace
        <4>2. Steps(Csm(0, 0, 0)) = {} /\ Steps(Csm(1, 0, 0)) = {<<3, 1>>} /\ Steps(Csm(0, 2, 0)) = {<<1, 3>>}
          BY StepsOf
        <4>3. (a = 1 \/ a = 3) /\ (b = 1 \/ b = 3)
          BY <3>3
        <4> HIDE DEF a, b
        <4>4. CASE a = 1
          BY <1>6, <1>9, <3>2, <3>5, <4>1, <4>2, <4>3, <4>4
        <4>5. CASE a = 3
          BY <1>6, <1>9, <3>2, <3>5, <4>1, <4>2, <4>3, <4>5
        <4> QED
          BY <4>3, <4>4, <4>5
      <3>6. CASE usePat
        <4>1. dy = (IF a = 3 THEN 1 ELSE 0) /\ dr = (IF b = 3 THEN 2 ELSE 0)
          <5>1. pf # "none"
            BY <3>4, <3>6 DEF is_rgb_format
          <5> QED
            BY <1>8, <3>3, <3>4, <3>6, <5>1 DEF dy, dr, DefaultY2R, DefaultR2Y, HasSpace
        <4>2. /\ Steps(Csm(0, 0, 0)) = {} /\ Steps(Csm(1, 0, 0)) = {<<3, 1>>} /\ Steps(Csm(0, 2, 0)) = {<<1, 3>>}
              /\ Steps(Csm(1, 2, 0)) = {<<3, 1>>, <<1, 3>>}
          BY StepsOf
        <4>3. Through(a, b) = (IF a = 3 THEN {<<3, 1>>} ELSE {}) \cup (IF b = 3 THEN {<<1, 3>>} ELSE {})
          BY <3>3 DEF Through
        <4>4. (a = 1 \/ a = 3) /\ (b = 1 \/ b = 3)
          BY <3>3
        <4> HIDE DEF a, b
        <4>5. CASE a = 1
          BY <1>6, <1>9, <3>2, <3>6, <4>1, <4>2, <4>3, <4>4, <4>5
        <4>6. CASE a = 3
          BY <1>6, <1>9, <3>2, <3>6, <4>1, <4>2, <4>3, <4>4, <4>6
        <4> QED
          BY <4>4, <4>5, <4>6
      <3> QED
        BY <3>5, <3>6
    <2> QED
      BY <2>3, <2>4
  <1> QED
    BY <1>15, <1>16

\* ConversionExact: the conversions that the registers of a blit name are the
\* ones from the source's space to the destination's, for every pair of spaces,
\* with and without a pattern and with and without the full matrix
\* (rga_task_submit and generate_blit_req).
THEOREM ConversionsAreExact == LegacySpec => []ConversionExact
  <1>1. RequestInv => ConversionExact
    <2> SUFFICES ASSUME RequestInv, NEW i \in Blits, Consistent,
                        <<SrcSpace, DstSpace>> # <<BT709_FULL, BT709_LIMIT>>
                 PROVE  Steps(sent[i].csc) = Wanted
      BY DEF ConversionExact
    <2>0. i \in DOMAIN sent /\ ByIm2d /\ sent[i].kind = "blit"
      BY DEF Blits
    <2>1. PICK req : sent[i] = ForDriver(device.driver, req) /\ Made(req) /\ call \in Tasks
      BY <2>0, SentIsMade
    <2>2. MadeBlit(req)
      BY <2>0, <2>1, NothingSent, FillSent, PaletteSent DEF Made
    <2>3. PICK usePat \in BOOLEAN : \E limit, csc, clip : BlitWith(req, usePat, limit, csc, clip)
      BY <2>2 DEF MadeBlit
    <2>4. PICK limit, csc, clip : BlitWith(req, usePat, limit, csc, clip)
      BY <2>3
    <2> DEFINE got == sent[i]
    <2>5. /\ got.kind = "blit" /\ got.src1 = Facing(PatRect(usePat), Rot)
          /\ got.csc = csc
          /\ got.reg = RegsFor("blit", BlitRegs(usePat, clip))
      BY <2>1, <2>4, BlitSent
    <2>6. Im2dConverts(usePat, csc)
      BY <2>0, <2>4 DEF BlitWith
    <2> QED
      BY <2>1, <2>5, <2>6, ConvertsAsDeclared
  <1> QED
    BY <1>1, SpecRequestInv, PTL
-----------------------------------------------------------------------------
(* The loop of rga_get_info                                                *)

LEMMA NatMin ==
  ASSUME NEW S \in SUBSET Nat, S # {}
  PROVE  \E n \in S : \A m \in S : n <= m
  <1> DEFINE less == {p \in Nat \X Nat : p[1] < p[2]}
  <1>1. IsWellFoundedOn(less, Nat)
    BY NatLessThanWellFounded DEF OpToRel
  <1> HIDE DEF less
  <1>2. PICK x \in S : \A y \in S : <<y, x>> \notin less
    BY <1>1, WFMin
  <1>3. ASSUME NEW y \in S PROVE x <= y
    <2>1. x \in Nat /\ y \in Nat /\ <<y, x>> \in Nat \X Nat
      OBVIOUS
    <2>2. ~(y < x)
      BY <1>2, <2>1 DEF less
    <2> QED
      BY <2>1, <2>2
  <1> QED
    BY <1>3

\* Induction up to a bound, for a set instead of a predicate.
LEMMA UpTo ==
  ASSUME NEW N \in Nat, NEW S, 0 \in S, \A n \in 0 .. N : n < N /\ n \in S => n + 1 \in S
  PROVE  0 .. N \subseteq S
  <1> DEFINE Bad == (0 .. N) \ S
  <1> SUFFICES ASSUME Bad # {} PROVE FALSE
    OBVIOUS
  <1>1. Bad \in SUBSET Nat
    OBVIOUS
  <1>2. PICK n \in Bad : \A m \in Bad : n <= m
    BY <1>1, NatMin
  <1>3. n \in Nat /\ n <= N /\ n # 0
    BY <1>1
  <1>4. n - 1 \in 0 .. N /\ n - 1 < N /\ ~(n <= n - 1) /\ (n - 1) + 1 = n
    BY <1>3
  <1>5. n - 1 \in S
    BY <1>2, <1>4
  <1> QED
    BY <1>4, <1>5

\* One round of the loop.
Round(table, core) == rga_support_info_merge_table(table, CoreTable[core])

\* A recursive function is what its equation says, once a function that
\* satisfies the equation is known to exist; each round extends the one before.
LEMMA MergedTablesIs ==
  ASSUME NEW cores \in Seq(STRING)
  PROVE  MergedTables(cores) =
           [n \in 0 .. Len(cores) |->
              IF n = 0 THEN NoEntry ELSE Round(MergedTables(cores)[n - 1], cores[n])]
  <1> DEFINE Runs(n, f) == f = [k \in 0 .. n |-> IF k = 0 THEN NoEntry ELSE Round(f[k - 1], cores[k])]
             Good == {n \in 0 .. Len(cores) : \E f : Runs(n, f)}
  <1>0. Len(cores) \in Nat
    OBVIOUS
  <1>1. \E f : Runs(0, f)
    <2>1. Runs(0, [k \in 0 .. 0 |-> NoEntry])
      OBVIOUS
    <2> QED
      BY <2>1
  <1>2. ASSUME NEW n \in 0 .. Len(cores), n + 1 \in 0 .. Len(cores), NEW f, Runs(n, f)
        PROVE  \E g : Runs(n + 1, g)
    <2> DEFINE g == [k \in 0 .. (n + 1) |-> IF k = n + 1 THEN Round(f[n], cores[n + 1]) ELSE f[k]]
    <2>1. Runs(n + 1, g)
      BY <1>2
    <2> QED
      BY <2>1
  <1> HIDE DEF Runs
  <1>3. 0 .. Len(cores) \subseteq Good
    <2>1. 0 \in Good
      BY <1>0, <1>1
    <2>2. ASSUME NEW n \in 0 .. Len(cores), n < Len(cores), n \in Good PROVE n + 1 \in Good
      <3>1. n + 1 \in 0 .. Len(cores)
        BY <1>0, <2>2
      <3> QED
        BY <1>2, <2>2, <3>1
    <2> HIDE DEF Good
    <2> QED
      BY <1>0, <2>1, <2>2, UpTo
  <1>4. \E f : Runs(Len(cores), f)
    BY <1>0, <1>3
  <1>5. MergedTables(cores) = CHOOSE f : Runs(Len(cores), f)
    BY DEF MergedTables, Round, Runs
  <1>6. Runs(Len(cores), MergedTables(cores))
    BY <1>4, <1>5
  <1> QED
    BY <1>6 DEF Runs

-----------------------------------------------------------------------------
(* The rows of the tables                                                  *)

Measured(size) == size.w \in Nat /\ size.h \in Nat /\ size.w >= 8 /\ size.h >= 8

\* What every generation's row has: numbers that the checks and the report
\* know, formats, and one 16 bit word order for both directions.
Fields == {"version", "input_resolution", "output_resolution", "byte_stride", "scale_limit",
           "performance", "input_format", "output_format", "feature", "scale_ver_bicubic_limit"}
Row(e) ==
  /\ DOMAIN e = Fields
  /\ e.byte_stride \in {4, 16} /\ e.scale_limit \in {8, 16} /\ e.scale_ver_bicubic_limit \in Nat
  /\ Measured(e.input_resolution) /\ Measured(e.output_resolution)
  /\ "RGB" \in e.input_format /\ "RGB" \in e.output_format
  /\ "ARGB_16BIT" \in e.input_format <=> "ARGB_16BIT" \in e.output_format
\* The first chips, which the tables of known cores do not have.
FirstChips == {"RGA_1", "RGA_1_PLUS"}

LEMMA TableJoined ==
  /\ DOMAIN OlderCores = {"V_ERR", "RGA_1", "RGA_1_PLUS", "RGA_2", "LITE0", "LITE1", "ENHANCE"}
  /\ DOMAIN NewerCores = {"PRO", "LITE2", "RGA_3"}
  /\ DOMAIN hw_info_table = DOMAIN OlderCores \cup DOMAIN NewerCores
  /\ \A v \in DOMAIN OlderCores : hw_info_table[v] = OlderCores[v]
  /\ \A v \in DOMAIN NewerCores : hw_info_table[v] = NewerCores[v]
  <1>1. /\ DOMAIN OlderCores = {"V_ERR", "RGA_1", "RGA_1_PLUS", "RGA_2", "LITE0", "LITE1", "ENHANCE"}
        /\ DOMAIN NewerCores = {"PRO", "LITE2", "RGA_3"}
    BY DEF OlderCores, NewerCores
  <1> QED
    BY <1>1 DEF hw_info_table, Joined

LEMMA TableRows ==
  \A v \in DOMAIN hw_info_table \ {"V_ERR"} : Row(hw_info_table[v]) /\ hw_info_table[v].version = {v}
  <1>1. Row(OlderCores.RGA_1) /\ OlderCores.RGA_1.version = {"RGA_1"}
    BY DEF OlderCores, Entry, Row, Fields, Size, Measured, Base8, Base10, Out8
  <1>2. Row(OlderCores.RGA_1_PLUS) /\ OlderCores.RGA_1_PLUS.version = {"RGA_1_PLUS"}
    BY DEF OlderCores, Entry, Row, Fields, Size, Measured, Base8, Base10, Out8
  <1>3. Row(OlderCores.RGA_2) /\ OlderCores.RGA_2.version = {"RGA_2"}
    BY DEF OlderCores, Entry, Row, Fields, Size, Measured, Base8, Base10, Out8
  <1>4. Row(OlderCores.LITE0) /\ OlderCores.LITE0.version = {"LITE0"}
    BY DEF OlderCores, Entry, Row, Fields, Size, Measured, Base8, Base10, Out8
  <1>5. Row(OlderCores.LITE1) /\ OlderCores.LITE1.version = {"LITE1"}
    BY DEF OlderCores, Entry, Row, Fields, Size, Measured, Base8, Base10, Out8
  <1>6. Row(OlderCores.ENHANCE) /\ OlderCores.ENHANCE.version = {"ENHANCE"}
    BY DEF OlderCores, Entry, Row, Fields, Size, Measured, Base8, Base10, Out8
  <1>7. Row(NewerCores.PRO) /\ NewerCores.PRO.version = {"PRO"}
    BY DEF NewerCores, Entry, Row, Fields, Size, Measured, Base8, Base10, Out8
  <1>8. Row(NewerCores.LITE2) /\ NewerCores.LITE2.version = {"LITE2"}
    BY DEF NewerCores, Entry, Row, Fields, Size, Measured, Base8, Base10, Out8
  <1>9. Row(NewerCores.RGA_3) /\ NewerCores.RGA_3.version = {"RGA_3"}
    BY DEF NewerCores, Entry, Row, Fields, Size, Measured, Base8, Base10, Out8
  <1> QED
    BY <1>1, <1>2, <1>3, <1>4, <1>5, <1>6, <1>7, <1>8, <1>9, TableJoined

LEMMA AdjustRow ==
  ASSUME NEW e, Row(e), NEW infmt, NEW outfmt, NEW feat, NEW unfeat,
         "ARGB_16BIT" \notin infmt, "ARGB_16BIT" \notin outfmt
  PROVE  /\ Row(Adjust(e, infmt, outfmt, feat, unfeat))
         /\ Adjust(e, infmt, outfmt, feat, unfeat).version = e.version
  BY DEF Row, Fields, Adjust

\* The corrections of the switch over the cores keep this.
LEMMA CoreRows ==
  \A c \in DOMAIN CoreTable : Row(CoreTable[c]) /\ CoreTable[c].version \cap FirstChips = {}
  <1> DEFINE t == hw_info_table
  <1>0. /\ Row(t.RGA_2) /\ t.RGA_2.version = {"RGA_2"} /\ Row(t.LITE0) /\ t.LITE0.version = {"LITE0"}
        /\ Row(t.LITE1) /\ t.LITE1.version = {"LITE1"} /\ Row(t.ENHANCE) /\ t.ENHANCE.version = {"ENHANCE"}
        /\ Row(t.PRO) /\ t.PRO.version = {"PRO"} /\ Row(t.LITE2) /\ t.LITE2.version = {"LITE2"}
        /\ Row(t.RGA_3) /\ t.RGA_3.version = {"RGA_3"}
    BY TableRows, TableJoined
  <1> HIDE DEF t
  <1> DEFINE Good(c) == Row(CoreTable[c]) /\ CoreTable[c].version \cap FirstChips = {}
  <1>1. Good("RK3288") /\ Good("RK1108") /\ Good("RGA3")
    BY <1>0 DEF CoreTable, FirstChips, t
  <1>2. Good("RK3576") /\ Good("RV1103B") /\ Good("RK3368") /\ Good("RK3228")
    BY <1>0 DEF CoreTable, FirstChips, t
  <1>3. Good("RK3399") /\ Good("RK3568")
    BY <1>0, AdjustRow DEF CoreTable, FirstChips, t
  <1>4. Good("RV1106") /\ Good("RK3326")
    BY <1>0, AdjustRow DEF CoreTable, FirstChips, t
  <1>5. Good("RK3538")
    BY <1>0, AdjustRow DEF CoreTable, FirstChips, t, Base10
  <1>6. Good("RK3506")
    <2> DEFINE e == Adjust(t.ENHANCE, {"YUYV_422", "YUV_400"} \cup {"ALPHA_8_BIT"}, {"YUV_400"},
                       {"SRC1_R2Y_CSC", "DST_FULL_CSC"} \cup {"GAUSS"}, {"ROP"})
    <2>1. Row(e) /\ e.version \cap FirstChips = {}
      BY <1>0, AdjustRow DEF FirstChips
    <2>2. CoreTable["RK3506"] = [e EXCEPT !.input_resolution = Size(1280, 8192), !.output_resolution = Size(1280, 4096),
                                         !.scale_ver_bicubic_limit = 600]
      BY DEF CoreTable, t
    <2> HIDE DEF e
    <2>3. /\ Row([e EXCEPT !.input_resolution = Size(1280, 8192), !.output_resolution = Size(1280, 4096),
                                         !.scale_ver_bicubic_limit = 600])
          /\ [e EXCEPT !.input_resolution = Size(1280, 8192), !.output_resolution = Size(1280, 4096),
                                         !.scale_ver_bicubic_limit = 600].version = e.version
      BY <2>1 DEF Row, Fields, Measured, Size
    <2> QED
      BY <2>1, <2>2, <2>3
  <1>7. Good("RV1126B")
    <2> DEFINE e == Adjust(t.PRO, {}, {}, {}, {"MOSAIC", "ROP", "QUANTIZE"})
    <2>1. Row(e) /\ e.version \cap FirstChips = {}
      BY <1>0, AdjustRow DEF FirstChips
    <2>2. CoreTable["RV1126B"] = [e EXCEPT !.output_format = @ \ {"Y4", "Y8"}]
      BY DEF CoreTable, t
    <2> HIDE DEF e
    <2>3. /\ Row([e EXCEPT !.output_format = @ \ {"Y4", "Y8"}])
          /\ [e EXCEPT !.output_format = @ \ {"Y4", "Y8"}].version = e.version
      BY <2>1 DEF Row, Fields
    <2> QED
      BY <2>1, <2>2, <2>3
  <1>8. Good("RK1820")
    <2> DEFINE e == Adjust(t.PRO, {}, {}, {}, {"MOSAIC"})
    <2>1. Row(e) /\ e.version \cap FirstChips = {}
      BY <1>0, AdjustRow DEF FirstChips
    <2>2. CoreTable["RK1820"] = [e EXCEPT !.output_format = @ \ {"Y4", "Y8"}]
      BY DEF CoreTable, t
    <2> HIDE DEF e
    <2>3. /\ Row([e EXCEPT !.output_format = @ \ {"Y4", "Y8"}])
          /\ [e EXCEPT !.output_format = @ \ {"Y4", "Y8"}].version = e.version
      BY <2>1 DEF Row, Fields
    <2> QED
      BY <2>1, <2>2, <2>3
  <1>9. DOMAIN CoreTable = {"RK3288", "RK1108", "RGA3", "RK3399", "RK3568", "RV1106", "RK3506", "RK3576",
                            "RV1126B", "RK1820", "RV1103B", "RK3368", "RK3326", "RK3538", "RK3228"}
    BY DEF CoreTable
  <1> HIDE DEF Good
  <1>10. \A c \in DOMAIN CoreTable : Good(c)
    BY <1>1, <1>2, <1>3, <1>4, <1>5, <1>6, <1>7, <1>8, <1>9
  <1> QED
    BY <1>10 DEF Good

-----------------------------------------------------------------------------
(* The merge of the rows                                                   *)

\* A table has what a row of it has, sizes apart.
Covers(t, e) ==
  /\ e.input_format \subseteq t.input_format /\ e.output_format \subseteq t.output_format
  /\ e.feature \subseteq t.feature
  /\ e.scale_limit <= t.scale_limit /\ e.byte_stride <= t.byte_stride
Within(small, large) == small.w <= large.w /\ small.h <= large.h

LEMMA FirstRound ==
  ASSUME NEW e, Row(e)
  PROVE  LET t == rga_support_info_merge_table(NoEntry, e)
         IN  /\ Row(t) /\ Covers(t, e) /\ t.version = e.version
             /\ t.input_resolution = e.input_resolution /\ t.output_resolution = e.output_resolution
             /\ t.byte_stride = e.byte_stride
  <1> DEFINE t == rga_support_info_merge_table(NoEntry, e)
  <1>1. /\ t.byte_stride = e.byte_stride /\ t.scale_limit = e.scale_limit
        /\ t.scale_ver_bicubic_limit = e.scale_ver_bicubic_limit
    BY DEF rga_support_info_merge_table, NoEntry, Larger, Row
  <1>2. t.input_resolution = e.input_resolution /\ t.output_resolution = e.output_resolution
    BY DEF rga_support_info_merge_table, NoEntry, LargerSize, Size, Row, Measured
  <1>3. /\ t.version = e.version /\ t.feature = e.feature
        /\ t.input_format = e.input_format /\ t.output_format = e.output_format
        /\ DOMAIN t = Fields
    BY DEF rga_support_info_merge_table, NoEntry, Fields
  <1> HIDE DEF t
  <1>4. Row(t)
    BY <1>1, <1>2, <1>3 DEF Row
  <1>5. Covers(t, e)
    BY <1>1, <1>3 DEF Covers, Row
  <1> QED
    BY <1>1, <1>2, <1>3, <1>4, <1>5 DEF t

LEMMA NextRound ==
  ASSUME NEW t, NEW e, Row(t), Row(e)
  PROVE  LET m == rga_support_info_merge_table(t, e)
         IN  /\ Row(m) /\ Covers(m, e) /\ m.version = t.version \cup e.version
             /\ \A x : Row(x) /\ Covers(t, x) => Covers(m, x)
             /\ m.input_resolution = LargerSize(t.input_resolution, e.input_resolution)
             /\ m.output_resolution = LargerSize(t.output_resolution, e.output_resolution)
             /\ m.byte_stride \in {t.byte_stride, e.byte_stride}
  <1> DEFINE m == rga_support_info_merge_table(t, e)
  <1>1. /\ m.byte_stride \in {4, 16} /\ m.scale_limit \in {8, 16}
        /\ m.scale_ver_bicubic_limit \in Nat
        /\ m.byte_stride >= t.byte_stride /\ m.byte_stride >= e.byte_stride
        /\ m.scale_limit >= t.scale_limit /\ m.scale_limit >= e.scale_limit
        /\ m.byte_stride \in {t.byte_stride, e.byte_stride}
    BY DEF rga_support_info_merge_table, Larger, Row
  <1>2. /\ m.input_resolution = LargerSize(t.input_resolution, e.input_resolution)
        /\ m.output_resolution = LargerSize(t.output_resolution, e.output_resolution)
    BY DEF rga_support_info_merge_table
  <1>3. Measured(m.input_resolution) /\ Measured(m.output_resolution)
    BY <1>2 DEF LargerSize, Row
  <1>4. /\ m.version = t.version \cup e.version /\ m.feature = t.feature \cup e.feature
        /\ m.input_format = t.input_format \cup e.input_format
        /\ m.output_format = t.output_format \cup e.output_format
        /\ DOMAIN m = Fields
    BY DEF rga_support_info_merge_table, Fields
  <1> HIDE DEF m
  <1>5. Row(m)
    BY <1>1, <1>3, <1>4 DEF Row
  <1>6. Covers(m, e)
    BY <1>1, <1>4 DEF Covers
  <1>7. ASSUME NEW x, Row(x), Covers(t, x) PROVE Covers(m, x)
    BY <1>1, <1>4, <1>7 DEF Covers, Row
  <1> QED
    BY <1>1, <1>2, <1>4, <1>5, <1>6, <1>7 DEF m

\* Of two sizes that can be compared LargerSize takes the larger.
Ordered(a, b) == a = b \/ (a.w < b.w /\ a.h < b.h) \/ (b.w < a.w /\ b.h < a.h)

LEMMA LargerIs ==
  ASSUME NEW a, NEW b, Measured(a), Measured(b), Ordered(a, b)
  PROVE  /\ LargerSize(a, b) \in {a, b}
         /\ Within(a, LargerSize(a, b)) /\ Within(b, LargerSize(a, b))
  BY DEF LargerSize, Measured, Within, Ordered

LEMMA WithinTrans ==
  ASSUME NEW a, NEW b, NEW c, Measured(a), Measured(b), Measured(c), Within(a, b), Within(b, c)
  PROVE  Within(a, c)
  BY DEF Measured, Within

\* The cores of one device can be compared by their sizes.
CoresOrdered(cores) ==
  \A i, j \in DOMAIN cores :
    LET a == CoreTable[cores[i]]  b == CoreTable[cores[j]]
    IN  Ordered(a.input_resolution, b.input_resolution) /\ Ordered(a.output_resolution, b.output_resolution)

\* The table after n rounds: as good as a row, it covers the rows merged so far
\* and has the alignment of one of them; its sizes are those of cores and, if the
\* cores can be compared, the largest.
Largest(t, cores, n) ==
  /\ \E j \in 1 .. n : t.input_resolution = CoreTable[cores[j]].input_resolution
  /\ \E j \in 1 .. n : t.output_resolution = CoreTable[cores[j]].output_resolution
  /\ \A i \in 1 .. n : /\ Within(CoreTable[cores[i]].input_resolution, t.input_resolution)
                       /\ Within(CoreTable[cores[i]].output_resolution, t.output_resolution)
Merges(t, cores, n) ==
  /\ Row(t) /\ t.version \cap FirstChips = {}
  /\ \A i \in 1 .. n : Covers(t, CoreTable[cores[i]])
  /\ \E i \in 1 .. n : t.byte_stride = CoreTable[cores[i]].byte_stride
  /\ CoresOrdered(cores) => Largest(t, cores, n)

LEMMA RoundOne ==
  ASSUME NEW cores \in Seq(STRING), cores # <<>>, \A i \in DOMAIN cores : cores[i] \in DOMAIN CoreTable
  PROVE  Merges(Round(NoEntry, cores[1]), cores, 1)
  <1> DEFINE e == CoreTable[cores[1]]
             t == Round(NoEntry, cores[1])
  <1>1. Row(e) /\ e.version \cap FirstChips = {}
    BY CoreRows
  <1> HIDE DEF e
  <1>2. /\ Row(t) /\ Covers(t, e) /\ t.version = e.version
        /\ t.input_resolution = e.input_resolution /\ t.output_resolution = e.output_resolution
        /\ t.byte_stride = e.byte_stride
    BY <1>1, FirstRound DEF Round, e
  <1> HIDE DEF t
  <1>3. \A i \in 1 .. 1 : CoreTable[cores[i]] = e
    BY DEF e
  <1>4. Within(e.input_resolution, t.input_resolution) /\ Within(e.output_resolution, t.output_resolution)
    BY <1>1, <1>2 DEF Row, Measured, Within
  <1>5. Largest(t, cores, 1)
    BY <1>2, <1>3, <1>4 DEF Largest
  <1>6. Merges(t, cores, 1)
    BY <1>1, <1>2, <1>3, <1>5 DEF Merges
  <1> QED
    BY <1>6 DEF t

LEMMA RoundMore ==
  ASSUME NEW cores \in Seq(STRING), \A i \in DOMAIN cores : cores[i] \in DOMAIN CoreTable,
         NEW n \in 1 .. Len(cores), n < Len(cores), NEW t, Merges(t, cores, n)
  PROVE  Merges(Round(t, cores[n + 1]), cores, n + 1)
  <1> DEFINE e == CoreTable[cores[n + 1]]
             m == Round(t, cores[n + 1])
  <1>0. n + 1 \in DOMAIN cores /\ \A i \in 1 .. (n + 1) : i \in 1 .. n \/ i = n + 1
    OBVIOUS
  <1>a. \A i \in 1 .. (n + 1) : i \in DOMAIN cores
    BY <1>0
  <1>1. Row(e) /\ e.version \cap FirstChips = {}
    BY <1>0, CoreRows
  <1>2. Row(t) /\ t.version \cap FirstChips = {} /\ \A i \in 1 .. n : Covers(t, CoreTable[cores[i]])
    BY DEF Merges
  <1>3. /\ Row(m) /\ Covers(m, e) /\ m.version = t.version \cup e.version
        /\ \A x : Row(x) /\ Covers(t, x) => Covers(m, x)
        /\ m.input_resolution = LargerSize(t.input_resolution, e.input_resolution)
        /\ m.output_resolution = LargerSize(t.output_resolution, e.output_resolution)
        /\ m.byte_stride \in {t.byte_stride, e.byte_stride}
    BY <1>1, <1>2, NextRound DEF Round
  <1> HIDE DEF m
  <1>4. \A i \in 1 .. (n + 1) : Covers(m, CoreTable[cores[i]])
    BY <1>0, <1>a, <1>2, <1>3, CoreRows
  <1>5. ASSUME CoresOrdered(cores) PROVE Largest(m, cores, n + 1)
    <2>1. Largest(t, cores, n)
      BY <1>5 DEF Merges
    <2>2. PICK j \in 1 .. n : t.input_resolution = CoreTable[cores[j]].input_resolution
      BY <2>1 DEF Largest
    <2>3. PICK k \in 1 .. n : t.output_resolution = CoreTable[cores[k]].output_resolution
      BY <2>1 DEF Largest
    <2>4. j \in DOMAIN cores /\ k \in DOMAIN cores /\ j \in 1 .. (n + 1) /\ k \in 1 .. (n + 1)
      OBVIOUS
    <2>5. Ordered(t.input_resolution, e.input_resolution) /\ Ordered(t.output_resolution, e.output_resolution)
      BY <1>0, <1>5, <2>2, <2>3, <2>4 DEF CoresOrdered
    <2>6. /\ Measured(t.input_resolution) /\ Measured(e.input_resolution) /\ Measured(m.input_resolution)
          /\ Measured(t.output_resolution) /\ Measured(e.output_resolution) /\ Measured(m.output_resolution)
      BY <1>1, <1>2, <1>3 DEF Row
    <2>7. /\ m.input_resolution \in {t.input_resolution, e.input_resolution}
          /\ Within(t.input_resolution, m.input_resolution) /\ Within(e.input_resolution, m.input_resolution)
      BY <1>3, <2>5, <2>6, LargerIs
    <2>8. /\ m.output_resolution \in {t.output_resolution, e.output_resolution}
          /\ Within(t.output_resolution, m.output_resolution) /\ Within(e.output_resolution, m.output_resolution)
      BY <1>3, <2>5, <2>6, LargerIs
    <2>9. ASSUME NEW i \in 1 .. (n + 1)
          PROVE  /\ Within(CoreTable[cores[i]].input_resolution, m.input_resolution)
                 /\ Within(CoreTable[cores[i]].output_resolution, m.output_resolution)
      <3>1. CASE i = n + 1
        BY <2>7, <2>8, <3>1
      <3>2. CASE i \in 1 .. n
        <4>1. /\ Within(CoreTable[cores[i]].input_resolution, t.input_resolution)
              /\ Within(CoreTable[cores[i]].output_resolution, t.output_resolution)
          BY <2>1, <3>2 DEF Largest
        <4>2. Row(CoreTable[cores[i]])
          BY <1>a, CoreRows
        <4>3. Measured(CoreTable[cores[i]].input_resolution) /\ Measured(CoreTable[cores[i]].output_resolution)
          BY <4>2 DEF Row
        <4> QED
          BY <2>6, <2>7, <2>8, <4>1, <4>3, WithinTrans
      <3> QED
        BY <1>0, <3>1, <3>2
    <2>10. \E i \in 1 .. (n + 1) : m.input_resolution = CoreTable[cores[i]].input_resolution
      BY <2>2, <2>4, <2>7
    <2>11. \E i \in 1 .. (n + 1) : m.output_resolution = CoreTable[cores[i]].output_resolution
      BY <2>3, <2>4, <2>8
    <2> QED
      BY <2>9, <2>10, <2>11 DEF Largest
  <1>6. m.version \cap FirstChips = {}
    BY <1>1, <1>2, <1>3
  <1>8. \E i \in 1 .. (n + 1) : m.byte_stride = CoreTable[cores[i]].byte_stride
    <2>1. PICK j \in 1 .. n : t.byte_stride = CoreTable[cores[j]].byte_stride
      BY DEF Merges
    <2>2. j \in 1 .. (n + 1) /\ n + 1 \in 1 .. (n + 1)
      OBVIOUS
    <2> QED
      BY <1>3, <2>1, <2>2
  <1>7. Merges(m, cores, n + 1)
    BY <1>3, <1>4, <1>5, <1>6, <1>8 DEF Merges
  <1> QED
    BY <1>7 DEF m

LEMMA MergedAll ==
  ASSUME NEW cores \in Seq(STRING), cores # <<>>, \A i \in DOMAIN cores : cores[i] \in DOMAIN CoreTable
  PROVE  Merges(MergedTables(cores)[Len(cores)], cores, Len(cores))
  <1> DEFINE T == MergedTables(cores)
             Good == {n \in 0 .. Len(cores) : n = 0 \/ Merges(T[n], cores, n)}
  <1>1. Len(cores) \in Nat /\ Len(cores) > 0
    OBVIOUS
  <1>2. T = [n \in 0 .. Len(cores) |-> IF n = 0 THEN NoEntry ELSE Round(T[n - 1], cores[n])]
    BY MergedTablesIs
  <1> HIDE DEF T
  <1>3. T[0] = NoEntry /\ \A n \in 0 .. Len(cores) : n < Len(cores) => T[n + 1] = Round(T[n], cores[n + 1])
    <2>1. 0 \in 0 .. Len(cores)
      BY <1>1
    <2>2. ASSUME NEW n \in 0 .. Len(cores), n < Len(cores) PROVE T[n + 1] = Round(T[n], cores[n + 1])
      <3>1. n + 1 \in 0 .. Len(cores) /\ n + 1 # 0 /\ (n + 1) - 1 = n
        BY <1>1, <2>2
      <3> QED
        BY <1>2, <3>1
    <2> QED
      BY <1>2, <2>1, <2>2
  <1>4. 0 \in Good
    BY <1>1
  <1>5. ASSUME NEW n \in 0 .. Len(cores), n < Len(cores), n \in Good PROVE n + 1 \in Good
    <2>1. n + 1 \in 0 .. Len(cores)
      BY <1>1, <1>5
    <2>2. CASE n = 0
      BY <1>3, <1>5, <2>1, <2>2, RoundOne
    <2>3. CASE n # 0
      <3>1. n \in 1 .. Len(cores) /\ Merges(T[n], cores, n)
        BY <1>1, <1>5, <2>3
      <3>2. Merges(Round(T[n], cores[n + 1]), cores, n + 1)
        BY <1>5, <3>1, RoundMore
      <3> QED
        BY <1>3, <1>5, <2>1, <3>2
    <2> QED
      BY <2>2, <2>3
  <1>6. Len(cores) \in Good
    <2> HIDE DEF Good
    <2>1. 0 .. Len(cores) \subseteq Good
      BY <1>1, <1>4, <1>5, UpTo
    <2> QED
      BY <1>1, <2>1
  <1> QED
    BY <1>1, <1>6 DEF T

-----------------------------------------------------------------------------
(* What one core takes, the merged table takes                             *)

LEMMA ChainIff ==
  ASSUME NEW checks, DOMAIN checks \subseteq 1..8
  PROVE  FirstError(checks) = "NOERROR" <=> \A i \in DOMAIN checks : checks[i] = "NOERROR"
  BY FirstErrorIsOne

LEMMA CheckIff == \A bad : Check(bad, "NOT_SUPPORTED") = "NOERROR" <=> ~bad
  BY DEF Check

\* Larger limits let the same sizes through.
LEMMA InfoFits ==
  ASSUME NEW b, NEW r, NEW res, NEW more, Measured(res), Measured(more), Within(res, more),
         b.w \in Int, b.h \in Int, r.w \in Int, r.h \in Int, rga_check_info(b, r, res) = "NOERROR"
  PROVE  rga_check_info(b, r, more) = "NOERROR" /\ b.w >= 0 /\ b.h >= 0
  <1> DEFINE p1 == Check(b.w <= 0 \/ b.h <= 0, "ILLEGAL_PARAM")
             p2 == Check(b.w < 2 \/ b.h < 2, "ILLEGAL_PARAM")
             p3 == Check(b.ws < b.w \/ b.hs < b.h, "INVALID_PARAM")
             p4 == Check((r.w = 0 /\ r.h > 0) \/ (r.w > 0 /\ r.h = 0), "ILLEGAL_PARAM")
             p5 == Check(r.w < 0 \/ r.h < 0 \/ r.x < 0 \/ r.y < 0, "ILLEGAL_PARAM")
             p6 == Check(r.x + r.w > b.ws \/ r.y + r.h > b.hs, "INVALID_PARAM")
             p7(lim) == Check(b.w > lim.w \/ b.h > lim.h, "NOT_SUPPORTED")
             p8(lim) == Check(r.w > lim.w \/ r.h > lim.h, "NOT_SUPPORTED")
             all(lim) == <<p1, p2, p3, p4, p5, p6, p7(lim), p8(lim)>>
  <1>1. \A lim : rga_check_info(b, r, lim) = FirstError(all(lim))
    BY DEF rga_check_info
  <1>2. p7(res) = "NOERROR" => p7(more) = "NOERROR"
    BY DEF Check, Measured, Within
  <1>3. p8(res) = "NOERROR" => p8(more) = "NOERROR"
    BY DEF Check, Measured, Within
  <1>a. p1 = "NOERROR" => b.w >= 0 /\ b.h >= 0
    BY DEF Check
  <1> HIDE DEF p1, p2, p3, p4, p5, p6, p7, p8
  <1>4. \A lim : FirstError(all(lim)) = "NOERROR" <=>
                   /\ p1 = "NOERROR" /\ p2 = "NOERROR" /\ p3 = "NOERROR" /\ p4 = "NOERROR"
                   /\ p5 = "NOERROR" /\ p6 = "NOERROR" /\ p7(lim) = "NOERROR" /\ p8(lim) = "NOERROR"
    <2> TAKE lim
    <2>1. DOMAIN all(lim) = 1..8
      OBVIOUS
    <2>2. (\A i \in 1..8 : all(lim)[i] = "NOERROR") <=>
            \A i \in {1, 2, 3, 4, 5, 6, 7, 8} : all(lim)[i] = "NOERROR"
      <3>1. 1..8 = {1, 2, 3, 4, 5, 6, 7, 8}
        OBVIOUS
      <3> QED
        BY <3>1
    <2>3. FirstError(all(lim)) = "NOERROR" <=> \A i \in 1..8 : all(lim)[i] = "NOERROR"
      <3> HIDE DEF all
      <3> QED
        BY <2>1, ChainIff
    <2> QED
      BY <2>2, <2>3
  <1> HIDE DEF all
  <1> QED
    BY <1>1, <1>2, <1>3, <1>4, <1>a

LEMMA FormatFits ==
  ASSUME NEW b, NEW r, NEW formats, NEW more, formats \subseteq more, NEW usage,
         rga_check_format(b, r, formats, usage) = "NOERROR"
  PROVE  rga_check_format(b, r, more, usage) = "NOERROR"
  <1> DEFINE class == FormatTable[b.fmt].class
             p(fs) == Check(class \notin fs /\ ~(class = "BPP" /\ "COLOR_PALETTE" \in usage), "NOT_SUPPORTED")
             q == IF is_yuv_format(b.fmt) THEN rga_yuv_legality_check(b, r) ELSE "NOERROR"
  <1>1. \A fs : rga_check_format(b, r, fs, usage) = FirstError(<<p(fs), q>>)
    BY DEF rga_check_format
  <1>2. p(formats) = "NOERROR" => p(more) = "NOERROR"
    BY CheckIff
  <1> HIDE DEF p, q
  <1>3. \A fs : FirstError(<<p(fs), q>>) = "NOERROR" <=> p(fs) = "NOERROR" /\ q = "NOERROR"
    BY ChainIff
  <1> QED
    BY <1>1, <1>2, <1>3

\* The alignment is the only part that asks for the stride of the rows.
RowAligned(b, stride) == (FormatTable[b.fmt].bits * b.ws) % (stride * 8) = 0

LEMMA AlignFits ==
  ASSUME NEW b, NEW stride, NEW is_read, rga_check_align(b, stride, is_read) = "NOERROR"
  PROVE  /\ RowAligned(b, stride)
         /\ \A more : RowAligned(b, more) => rga_check_align(b, more, is_read) = "NOERROR"
  <1> DEFINE p == Check(b.rd = "FBC" /\ (b.ws % 16 # 0 \/ b.hs % 16 # 0), "NOT_SUPPORTED")
             q == Check(b.rd = "TILE" /\ (b.w % 8 # 0 \/ b.h % 8 # 0), "NOT_SUPPORTED")
             u == Check(b.rd = "TILE" /\ is_read /\ (b.ws % 16 # 0 \/ b.hs % 16 # 0), "NOT_SUPPORTED")
             v(s) == Check(~RowAligned(b, s), "NOT_SUPPORTED")
  <1>1. \A s : rga_check_align(b, s, is_read) = FirstError(<<p, q, u, v(s)>>)
    BY DEF rga_check_align, RowAligned
  <1>2. \A s : v(s) = "NOERROR" <=> RowAligned(b, s)
    BY CheckIff
  <1> HIDE DEF p, q, u, v
  <1>3. \A s : FirstError(<<p, q, u, v(s)>>) = "NOERROR" <=>
                 p = "NOERROR" /\ q = "NOERROR" /\ u = "NOERROR" /\ v(s) = "NOERROR"
    <2> TAKE s
    <2> DEFINE all == <<p, q, u, v(s)>>
    <2>1. DOMAIN all = 1..4 /\ 1..4 = {1, 2, 3, 4} /\ 1..4 \subseteq 1..8
      OBVIOUS
    <2>2. all[1] = p /\ all[2] = q /\ all[3] = u /\ all[4] = v(s)
      OBVIOUS
    <2> HIDE DEF all
    <2>3. FirstError(all) = "NOERROR" <=> \A i \in {1, 2, 3, 4} : all[i] = "NOERROR"
      BY <2>1, ChainIff
    <2>4. FirstError(all) = "NOERROR" <=>
            p = "NOERROR" /\ q = "NOERROR" /\ u = "NOERROR" /\ v(s) = "NOERROR"
      BY <2>2, <2>3
    <2> QED
      BY <2>4 DEF all
  <1> QED
    BY <1>1, <1>2, <1>3

\* Operands whose sizes are numbers.
Sized(b) == b.w \in Int /\ b.h \in Int

\* A buffer that is read and one that is written.
InputOk(table, b, r, usage) ==
  rga_check_buffer(b, r, table.input_resolution, table.input_format, table.byte_stride, usage, TRUE)
    = "NOERROR"
LEMMA InputFits ==
  ASSUME NEW e, NEW t, Row(e), Row(t), Covers(t, e), Within(e.input_resolution, t.input_resolution),
         NEW b, NEW r, Sized(b), Sized(r), NEW usage, InputOk(e, b, r, usage)
  PROVE  /\ RowAligned(b, e.byte_stride) /\ b.w >= 0 /\ b.h >= 0
         /\ RowAligned(b, t.byte_stride) => InputOk(t, b, r, usage)
  <1>1. \A a, f, s : FirstError(<<a, f, s>>) = "NOERROR" <=> a = "NOERROR" /\ f = "NOERROR" /\ s = "NOERROR"
    BY ChainIff
  <1>2. /\ rga_check_info(b, r, e.input_resolution) = "NOERROR"
        /\ rga_check_format(b, r, e.input_format, usage) = "NOERROR"
        /\ rga_check_align(b, e.byte_stride, TRUE) = "NOERROR"
    <2> DEFINE a == rga_check_info(b, r, e.input_resolution)
               f == rga_check_format(b, r, e.input_format, usage)
               s == rga_check_align(b, e.byte_stride, TRUE)
    <2>1. FirstError(<<a, f, s>>) = "NOERROR"
      BY DEF InputOk, rga_check_buffer
    <2> HIDE DEF a, f, s
    <2>2. a = "NOERROR" /\ f = "NOERROR" /\ s = "NOERROR"
      BY <1>1, <2>1
    <2> QED
      BY <2>2 DEF a, f, s
  <1>3. Measured(e.input_resolution) /\ Measured(t.input_resolution)
    BY DEF Row
  <1>4. rga_check_info(b, r, t.input_resolution) = "NOERROR" /\ b.w >= 0 /\ b.h >= 0
    BY <1>2, <1>3, InfoFits DEF Sized
  <1>5. rga_check_format(b, r, t.input_format, usage) = "NOERROR"
    BY <1>2, FormatFits DEF Covers
  <1>6. /\ RowAligned(b, e.byte_stride)
        /\ RowAligned(b, t.byte_stride) => rga_check_align(b, t.byte_stride, TRUE) = "NOERROR"
    BY <1>2, AlignFits
  <1> QED
    BY <1>1, <1>4, <1>5, <1>6 DEF InputOk, rga_check_buffer

OutputOk(table, b, r, usage) ==
  rga_check_buffer(b, r, table.output_resolution, table.output_format, table.byte_stride, usage, FALSE)
    = "NOERROR"
LEMMA OutputFits ==
  ASSUME NEW e, NEW t, Row(e), Row(t), Covers(t, e), Within(e.output_resolution, t.output_resolution),
         NEW b, NEW r, Sized(b), Sized(r), NEW usage, OutputOk(e, b, r, usage)
  PROVE  /\ RowAligned(b, e.byte_stride) /\ b.w >= 0 /\ b.h >= 0
         /\ RowAligned(b, t.byte_stride) => OutputOk(t, b, r, usage)
  <1>1. \A a, f, s : FirstError(<<a, f, s>>) = "NOERROR" <=> a = "NOERROR" /\ f = "NOERROR" /\ s = "NOERROR"
    BY ChainIff
  <1>2. /\ rga_check_info(b, r, e.output_resolution) = "NOERROR"
        /\ rga_check_format(b, r, e.output_format, usage) = "NOERROR"
        /\ rga_check_align(b, e.byte_stride, FALSE) = "NOERROR"
    <2> DEFINE a == rga_check_info(b, r, e.output_resolution)
               f == rga_check_format(b, r, e.output_format, usage)
               s == rga_check_align(b, e.byte_stride, FALSE)
    <2>1. FirstError(<<a, f, s>>) = "NOERROR"
      BY DEF OutputOk, rga_check_buffer
    <2> HIDE DEF a, f, s
    <2>2. a = "NOERROR" /\ f = "NOERROR" /\ s = "NOERROR"
      BY <1>1, <2>1
    <2> QED
      BY <2>2 DEF a, f, s
  <1>3. Measured(e.output_resolution) /\ Measured(t.output_resolution)
    BY DEF Row
  <1>4. rga_check_info(b, r, t.output_resolution) = "NOERROR" /\ b.w >= 0 /\ b.h >= 0
    BY <1>2, <1>3, InfoFits DEF Sized
  <1>5. rga_check_format(b, r, t.output_format, usage) = "NOERROR"
    BY <1>2, FormatFits DEF Covers
  <1>6. /\ RowAligned(b, e.byte_stride)
        /\ RowAligned(b, t.byte_stride) => rga_check_align(b, t.byte_stride, FALSE) = "NOERROR"
    BY <1>2, AlignFits
  <1> QED
    BY <1>1, <1>4, <1>5, <1>6 DEF OutputOk, rga_check_buffer

LEMMA LimitFits ==
  ASSUME NEW src, NEW dst, NEW limit \in {8, 16}, NEW more \in {8, 16}, limit <= more, NEW usage,
         src.w \in Int, src.h \in Int, dst.w \in Int, dst.h \in Int,
         src.w >= 0, src.h >= 0, dst.w >= 0, dst.h >= 0,
         rga_check_limit(src, dst, limit, usage) = "NOERROR"
  PROVE  rga_check_limit(src, dst, more, usage) = "NOERROR"
  <1> DEFINE dw == IF Turns(usage) THEN dst.h ELSE dst.w
             dh == IF Turns(usage) THEN dst.w ELSE dst.h
             Steep(n) == src.w > n * dw \/ src.h > n * dh \/ dw > n * src.w \/ dh > n * src.h
  <1>1. \A n : rga_check_limit(src, dst, n, usage) = "NOERROR" <=> ~Steep(n)
    BY CheckIff DEF rga_check_limit
  <1>2. dw \in Int /\ dh \in Int /\ dw >= 0 /\ dh >= 0
    OBVIOUS
  <1> HIDE DEF dw, dh
  <1>3. ~Steep(8) => ~Steep(16)
    BY <1>2
  <1> HIDE DEF Steep
  <1> QED
    BY <1>1, <1>3

\* The eight parts of the whole check.
CheckParts(table, src, dst, pat, srect, drect, prect, usage) ==
  LET fill == "COLOR_FILL" \in usage
      pat_enable == UsesPat(usage, pat)
  IN  /\ rga_check_feature(src, dst, pat, pat_enable, usage, table.feature) = "NOERROR"
      /\ ~fill => InputOk(table, src, srect, usage)
      /\ Check(pat_enable /\ IsRga1(table), "NOT_SUPPORTED") = "NOERROR"
      /\ pat_enable => InputOk(table, pat, prect, usage)
      /\ OutputOk(table, dst, drect, usage)
      /\ ~fill => rga_check_limit(src, dst, table.scale_limit, usage) = "NOERROR"
      /\ "BLEND" \in usage => rga_check_blend(dst, pat, pat_enable) = "NOERROR"
      /\ rga_check_rotate(usage, table) = "NOERROR"

LEMMA CheckIs ==
  ASSUME NEW table, NEW src, NEW dst, NEW pat, NEW srect, NEW drect, NEW prect, NEW usage
  PROVE  rga_check(table, src, dst, pat, srect, drect, prect, usage) = "NOERROR" <=>
           CheckParts(table, src, dst, pat, srect, drect, prect, usage)
  <1> DEFINE fill == "COLOR_FILL" \in usage
             pat_enable == UsesPat(usage, pat)
             input(b, r) == rga_check_buffer(b, r, table.input_resolution, table.input_format,
                                             table.byte_stride, usage, TRUE)
             p1 == rga_check_feature(src, dst, pat, pat_enable, usage, table.feature)
             p2 == IF fill THEN "NOERROR" ELSE input(src, srect)
             p3 == Check(pat_enable /\ IsRga1(table), "NOT_SUPPORTED")
             p4 == IF pat_enable THEN input(pat, prect) ELSE "NOERROR"
             p5 == rga_check_buffer(dst, drect, table.output_resolution, table.output_format,
                                    table.byte_stride, usage, FALSE)
             p6 == IF fill THEN "NOERROR" ELSE rga_check_limit(src, dst, table.scale_limit, usage)
             p7 == IF "BLEND" \in usage THEN rga_check_blend(dst, pat, pat_enable) ELSE "NOERROR"
             p8 == rga_check_rotate(usage, table)
             all == <<p1, p2, p3, p4, p5, p6, p7, p8>>
  <1>1. rga_check(table, src, dst, pat, srect, drect, prect, usage) = FirstError(all)
    BY DEF rga_check
  <1>2. CheckParts(table, src, dst, pat, srect, drect, prect, usage) <=>
          /\ p1 = "NOERROR" /\ p2 = "NOERROR" /\ p3 = "NOERROR" /\ p4 = "NOERROR"
          /\ p5 = "NOERROR" /\ p6 = "NOERROR" /\ p7 = "NOERROR" /\ p8 = "NOERROR"
    BY DEF CheckParts, InputOk, OutputOk
  <1> HIDE DEF p1, p2, p3, p4, p5, p6, p7, p8
  <1>3. DOMAIN all = 1..8 /\ 1..8 = {1, 2, 3, 4, 5, 6, 7, 8}
    OBVIOUS
  <1>4. /\ all[1] = p1 /\ all[2] = p2 /\ all[3] = p3 /\ all[4] = p4
        /\ all[5] = p5 /\ all[6] = p6 /\ all[7] = p7 /\ all[8] = p8
    OBVIOUS
  <1> HIDE DEF all
  <1>5. FirstError(all) = "NOERROR" <=> \A i \in {1, 2, 3, 4, 5, 6, 7, 8} : all[i] = "NOERROR"
    BY <1>3, ChainIff
  <1> QED
    BY <1>1, <1>2, <1>4, <1>5

LEMMA TableFits ==
  ASSUME NEW e, NEW t, Row(e), Row(t), Covers(t, e), t.version \cap FirstChips = {},
         Within(e.input_resolution, t.input_resolution), Within(e.output_resolution, t.output_resolution),
         NEW src, NEW dst, NEW pat, NEW srect, NEW drect, NEW prect, NEW usage,
         Sized(src), Sized(dst), Sized(pat), Sized(srect), Sized(drect), Sized(prect),
         CheckParts(e, src, dst, pat, srect, drect, prect, usage),
         "COLOR_FILL" \notin usage => RowAligned(src, t.byte_stride),
         UsesPat(usage, pat) => RowAligned(pat, t.byte_stride),
         RowAligned(dst, t.byte_stride)
  PROVE  CheckParts(t, src, dst, pat, srect, drect, prect, usage)
  <1> DEFINE fill == "COLOR_FILL" \in usage
             pat_enable == UsesPat(usage, pat)
  <1>1. /\ rga_check_feature(src, dst, pat, pat_enable, usage, e.feature) = "NOERROR"
        /\ ~fill => InputOk(e, src, srect, usage)
        /\ pat_enable => InputOk(e, pat, prect, usage)
        /\ OutputOk(e, dst, drect, usage)
        /\ ~fill => rga_check_limit(src, dst, e.scale_limit, usage) = "NOERROR"
        /\ "BLEND" \in usage => rga_check_blend(dst, pat, pat_enable) = "NOERROR"
    BY DEF CheckParts
  <1>2. /\ Measured(e.input_resolution) /\ Measured(t.input_resolution)
        /\ Measured(e.output_resolution) /\ Measured(t.output_resolution)
        /\ e.scale_limit \in {8, 16} /\ t.scale_limit \in {8, 16} /\ e.scale_limit <= t.scale_limit
        /\ e.input_format \subseteq t.input_format /\ e.output_format \subseteq t.output_format
        /\ e.feature \subseteq t.feature
    BY DEF Row, Covers
  <1>3. rga_check_feature(src, dst, pat, pat_enable, usage, t.feature) = "NOERROR"
    <2>1. (usage \cap FeatureUsages) \ t.feature \subseteq (usage \cap FeatureUsages) \ e.feature
      BY <1>2
    <2> HIDE DEF pat_enable
    <2> QED
      BY <1>1, <1>2, <2>1, CheckIff DEF rga_check_feature
  <1>4. ~fill => InputOk(t, src, srect, usage) /\ src.w >= 0 /\ src.h >= 0
    BY <1>1, InputFits
  <1>5. pat_enable => InputOk(t, pat, prect, usage)
    BY <1>1, InputFits
  <1>6. OutputOk(t, dst, drect, usage) /\ dst.w >= 0 /\ dst.h >= 0
    BY <1>1, OutputFits
  <1>7. ~fill => rga_check_limit(src, dst, t.scale_limit, usage) = "NOERROR"
    <2> SUFFICES ASSUME ~fill PROVE rga_check_limit(src, dst, t.scale_limit, usage) = "NOERROR"
      OBVIOUS
    <2> QED
      BY <1>1, <1>2, <1>4, <1>6, LimitFits DEF Sized
  <1>8. ~IsRga1(t)
    BY DEF IsRga1, FirstChips
  <1>9. /\ Check(pat_enable /\ IsRga1(t), "NOT_SUPPORTED") = "NOERROR"
        /\ rga_check_rotate(usage, t) = "NOERROR"
    BY <1>8, CheckIff DEF rga_check_rotate
  <1> QED
    BY <1>1, <1>3, <1>4, <1>5, <1>6, <1>7, <1>9 DEF CheckParts

LEMMA FormatBits == \A f \in DOMAIN FormatTable : FormatTable[f].bits \in Nat
  <1>1. \A f \in DOMAIN PackedFormats : PackedFormats[f].bits \in Nat
    BY DEF PackedFormats, Format
  <1>2. \A f \in DOMAIN YuvFormats : YuvFormats[f].bits \in Nat
    BY DEF YuvFormats, Format
  <1> QED
    BY <1>1, <1>2 DEF FormatTable, Joined

\* Rows that suit the wider alignment suit the narrower.
LEMMA StrideSuits ==
  ASSUME NEW b, Known(b.fmt), b.ws \in Int, NEW s \in {4, 16}, NEW t \in {4, 16}, s <= t,
         RowAligned(b, t)
  PROVE  RowAligned(b, s)
  <1> DEFINE n == FormatTable[b.fmt].bits * b.ws
  <1>1. n \in Int
    BY FormatBits DEF Known
  <1>2. \A k : RowAligned(b, k) <=> n % (k * 8) = 0
    BY DEF RowAligned
  <1> HIDE DEF n
  <1>3. n % 128 = 0 => n % 32 = 0
    BY <1>1
  <1> QED
    BY <1>2, <1>3

\* The sizes of the cores of a device can be compared.  The tables have cores of
\* which this is not true (RK3506, 1280 wide and 8192 high, against RGA3): the
\* merge would keep the sizes of the one listed first.
DevicesOrdered == \A d \in Devices : KnownCores(d) => CoresOrdered(d.cores)

\* What imcheck looks at, and that it is as large as the application says.
External(table, c) ==
  LET drect == IF "CROP" \in c.usage THEN [c.drect EXCEPT !.w = c.srect.w, !.h = c.srect.h]
               ELSE c.drect
      pat == IF rga_is_buffer_valid(c.pat) THEN rga_apply_rect(c.pat, c.prect) ELSE c.pat
  IN  CheckParts(table, rga_apply_rect(c.src, c.srect), rga_apply_rect(c.dst, drect), pat,
                 c.srect, drect, c.prect, c.usage)

LEMMA ExternalIs ==
  ASSUME NEW table, NEW c
  PROVE  rga_check_external(table, c) = "NOERROR" <=>
           /\ Known(c.src.fmt) /\ Known(c.dst.fmt) /\ (rga_is_buffer_valid(c.pat) => Known(c.pat.fmt))
           /\ External(table, c)
  BY CheckIs DEF rga_check_external, External

LEMMA AppliedRect ==
  ASSUME NEW b \in rga_buffer_t, NEW r \in im_rect
  PROVE  /\ Sized(rga_apply_rect(b, r))
         /\ rga_apply_rect(b, r).fmt = b.fmt /\ rga_apply_rect(b, r).ws = b.ws
         /\ rga_apply_rect(b, r).addr = b.addr
  BY DEF rga_apply_rect, rga_buffer_t, im_rect, Sized

LEMMA AlignedIs ==
  ASSUME NEW e
  PROVE  AlignedFor(e) <=>
           /\ RowAligned(call.dst, e.byte_stride)
           /\ "COLOR_FILL" \notin call.usage => RowAligned(call.src, e.byte_stride)
           /\ UsesPat(call.usage, call.pat) => RowAligned(call.pat, e.byte_stride)
  <1>1. Used = {call.dst} \cup (IF "COLOR_FILL" \in call.usage THEN {} ELSE {call.src})
                 \cup (IF UsesPat(call.usage, call.pat) THEN {call.pat} ELSE {})
    BY DEF Used
  <1>2. AlignedFor(e) <=> \A b \in Used : RowAligned(b, e.byte_stride)
    BY DEF AlignedFor, RowAligned
  <1> QED
    BY <1>1, <1>2

\* One core's verdict and the merged table's.
LEMMA MergedTakes ==
  ASSUME call \in Tasks, NEW e, NEW t, Row(e), Row(t), Covers(t, e), t.version \cap FirstChips = {},
         Within(e.input_resolution, t.input_resolution), Within(e.output_resolution, t.output_resolution),
         rga_check_external(e, call) = "NOERROR"
  PROVE  AlignedFor(e) /\ (AlignedFor(t) => rga_check_external(t, call) = "NOERROR")
  <1> DEFINE drect == IF "CROP" \in call.usage
                      THEN [call.drect EXCEPT !.w = call.srect.w, !.h = call.srect.h] ELSE call.drect
             src == rga_apply_rect(call.src, call.srect)
             dst == rga_apply_rect(call.dst, drect)
             pat == IF rga_is_buffer_valid(call.pat) THEN rga_apply_rect(call.pat, call.prect)
                    ELSE call.pat
  <1>1. /\ call.src \in rga_buffer_t /\ call.dst \in rga_buffer_t /\ call.pat \in rga_buffer_t
        /\ call.srect \in im_rect /\ call.drect \in im_rect /\ call.prect \in im_rect
    BY DEF Tasks
  <1>2. drect \in im_rect
    BY <1>1 DEF im_rect
  <1>3. \A table : External(table, call) <=>
                    CheckParts(table, src, dst, pat, call.srect, drect, call.prect, call.usage)
    BY DEF External
  <1> HIDE DEF drect
  <1>4. /\ Sized(src) /\ src.fmt = call.src.fmt /\ src.ws = call.src.ws
        /\ Sized(dst) /\ dst.fmt = call.dst.fmt /\ dst.ws = call.dst.ws
    BY <1>1, <1>2, AppliedRect
  <1>5. Sized(call.srect) /\ Sized(drect) /\ Sized(call.prect) /\ Sized(call.pat)
    BY <1>1, <1>2 DEF im_rect, rga_buffer_t, Sized
  <1>6. Sized(pat) /\ pat.fmt = call.pat.fmt /\ pat.ws = call.pat.ws /\ pat.addr = call.pat.addr
    BY <1>1, <1>5, AppliedRect
  <1> HIDE DEF src, dst, pat
  <1>7. UsesPat(call.usage, pat) <=> UsesPat(call.usage, call.pat)
    BY <1>6 DEF UsesPat, rga_is_buffer_valid
  <1>8. \A s : /\ RowAligned(src, s) <=> RowAligned(call.src, s)
               /\ RowAligned(dst, s) <=> RowAligned(call.dst, s)
               /\ RowAligned(pat, s) <=> RowAligned(call.pat, s)
    BY <1>4, <1>6 DEF RowAligned
  <1>9. CheckParts(e, src, dst, pat, call.srect, drect, call.prect, call.usage)
    BY <1>3, ExternalIs
  <1>10. /\ OutputOk(e, dst, drect, call.usage)
         /\ "COLOR_FILL" \notin call.usage => InputOk(e, src, call.srect, call.usage)
         /\ UsesPat(call.usage, pat) => InputOk(e, pat, call.prect, call.usage)
    BY <1>9 DEF CheckParts
  <1>11. AlignedFor(e)
    <2>1. RowAligned(dst, e.byte_stride)
      BY <1>4, <1>5, <1>10, OutputFits
    <2>2. "COLOR_FILL" \notin call.usage => RowAligned(src, e.byte_stride)
      BY <1>4, <1>5, <1>10, InputFits
    <2>3. UsesPat(call.usage, pat) => RowAligned(pat, e.byte_stride)
      BY <1>5, <1>6, <1>10, InputFits
    <2> QED
      BY <1>7, <1>8, <2>1, <2>2, <2>3, AlignedIs
  <1>12. ASSUME AlignedFor(t) PROVE rga_check_external(t, call) = "NOERROR"
    <2>1. /\ RowAligned(dst, t.byte_stride)
          /\ "COLOR_FILL" \notin call.usage => RowAligned(src, t.byte_stride)
          /\ UsesPat(call.usage, pat) => RowAligned(pat, t.byte_stride)
      BY <1>7, <1>8, <1>12, AlignedIs
    <2>2. CheckParts(t, src, dst, pat, call.srect, drect, call.prect, call.usage)
      BY <1>4, <1>5, <1>6, <1>9, <2>1, TableFits
    <2>3. /\ Known(call.src.fmt) /\ Known(call.dst.fmt)
          /\ rga_is_buffer_valid(call.pat) => Known(call.pat.fmt)
      BY ExternalIs
    <2> QED
      BY <1>3, <2>2, <2>3, ExternalIs
  <1> QED
    BY <1>11, <1>12

\* The table of a session whose cores are known.
LEMMA SessionTable ==
  ASSUME RequestInv, KnownCores(device)
  PROVE  /\ device.cores \in Seq(STRING) /\ device.cores # <<>>
         /\ Merges(hw, device.cores, Len(device.cores))
         /\ DevicesOrdered => CoresOrdered(device.cores)
  <1>1. PICK d \in Devices : device = rga_session_init(d)
    BY DEF RequestInv, DeviceInv
  <1>2. device.cores = d.cores /\ hw = rga_get_info(d)
    BY <1>1 DEF rga_session_init, hw
  <1>3. d.cores \in Seq(STRING) /\ d.cores # <<>>
    BY DevicesAssumption
  <1>4. \A i \in DOMAIN d.cores : d.cores[i] \in DOMAIN CoreTable
    BY <1>2 DEF KnownCores
  <1>5. KnownCores(d)
    BY <1>4 DEF KnownCores
  <1>6. hw = MergedTables(d.cores)[Len(d.cores)]
    BY <1>2, <1>5 DEF rga_get_info
  <1>7. Merges(MergedTables(d.cores)[Len(d.cores)], d.cores, Len(d.cores))
    BY <1>3, <1>4, MergedAll
  <1> QED
    BY <1>2, <1>3, <1>5, <1>6, <1>7 DEF DevicesOrdered

\* MergeSound: the merged table of a device, in whatever order its driver lists
\* the cores, accepts what one core accepts when the strides suit all of them,
\* and only calls whose strides do (rga_support_info_merge_table and the loop of
\* rga_get_info, against rga_check), for every list of known cores whose sizes
\* can be compared.
THEOREM MergedTableIsSound ==
  ASSUME DevicesOrdered
  PROVE  LegacySpec => []MergeSound
  <1>1. RequestInv => MergeSound
    <2> DEFINE n == Len(device.cores)
               cores == {CoreTable[device.cores[i]] : i \in DOMAIN device.cores}
    <2> SUFFICES ASSUME RequestInv, ByIm2d, KnownCores(device)
                 PROVE  /\ /\ \E e \in cores : rga_check_external(e, call) = "NOERROR"
                           /\ \A e \in cores : AlignedFor(e)
                           => verdict = "NOERROR"
                        /\ verdict = "NOERROR" => \A e \in cores : AlignedFor(e)
      BY DEF MergeSound
    <2>1. verdict = rga_check_external(hw, call)
      BY DEF RequestInv, VerdictInv
    <2>2. call \in Tasks
      BY NoCallIsNone DEF RequestInv, OperandInv, CallInv, ByIm2d
    <2>3. /\ Merges(hw, device.cores, n) /\ CoresOrdered(device.cores)
          /\ DOMAIN device.cores = 1 .. n
      BY SessionTable
    <2>4. /\ Row(hw) /\ hw.version \cap FirstChips = {}
          /\ \A i \in 1 .. n : Covers(hw, CoreTable[device.cores[i]])
          /\ \E i \in 1 .. n : hw.byte_stride = CoreTable[device.cores[i]].byte_stride
          /\ \A i \in 1 .. n : /\ Within(CoreTable[device.cores[i]].input_resolution, hw.input_resolution)
                               /\ Within(CoreTable[device.cores[i]].output_resolution, hw.output_resolution)
      BY <2>3 DEF Merges, Largest
    <2>5. ASSUME NEW e \in cores
          PROVE  /\ Row(e) /\ Covers(hw, e)
                 /\ Within(e.input_resolution, hw.input_resolution)
                 /\ Within(e.output_resolution, hw.output_resolution)
      <3>1. PICK i \in DOMAIN device.cores : e = CoreTable[device.cores[i]]
        OBVIOUS
      <3>2. device.cores[i] \in DOMAIN CoreTable
        BY DEF KnownCores
      <3> QED
        BY <2>3, <2>4, <3>1, <3>2, CoreRows
    <2>6. \E e \in cores : hw.byte_stride = e.byte_stride
      BY <2>3, <2>4
    <2> HIDE DEF cores
    <2>7. ASSUME NEW e \in cores, rga_check_external(e, call) = "NOERROR",
                 \A x \in cores : AlignedFor(x)
          PROVE  rga_check_external(hw, call) = "NOERROR"
      <3>1. AlignedFor(hw)
        BY <2>6, <2>7, AlignedIs
      <3> QED
        BY <2>2, <2>4, <2>5, <2>7, <3>1, MergedTakes
    <2>8. ASSUME rga_check_external(hw, call) = "NOERROR", NEW e \in cores
          PROVE  AlignedFor(e)
      <3>1. Covers(hw, hw) /\ Within(hw.input_resolution, hw.input_resolution)
            /\ Within(hw.output_resolution, hw.output_resolution)
        BY SMTT(40), <2>4 DEF Row, Measured, Covers, Within
      <3>2. AlignedFor(hw)
        BY <2>2, <2>4, <2>8, <3>1, MergedTakes
      <3>3. /\ e.byte_stride \in {4, 16} /\ hw.byte_stride \in {4, 16}
            /\ e.byte_stride <= hw.byte_stride
        BY <2>4, <2>5 DEF Row, Covers
      <3>4. /\ Known(call.src.fmt) /\ Known(call.dst.fmt)
            /\ rga_is_buffer_valid(call.pat) => Known(call.pat.fmt)
        BY <2>8, ExternalIs
      <3>5. call.src.ws \in Int /\ call.dst.ws \in Int /\ call.pat.ws \in Int
        BY <2>2 DEF Tasks, rga_buffer_t
      <3>6. UsesPat(call.usage, call.pat) => rga_is_buffer_valid(call.pat)
        BY DEF UsesPat
      <3>7. RowAligned(call.dst, e.byte_stride)
        BY <3>2, <3>3, <3>4, <3>5, AlignedIs, StrideSuits
      <3>8. "COLOR_FILL" \notin call.usage => RowAligned(call.src, e.byte_stride)
        BY <3>2, <3>3, <3>4, <3>5, AlignedIs, StrideSuits
      <3>9. UsesPat(call.usage, call.pat) => RowAligned(call.pat, e.byte_stride)
        BY <3>2, <3>3, <3>4, <3>5, <3>6, AlignedIs, StrideSuits
      <3> QED
        BY <3>7, <3>8, <3>9, AlignedIs
    <2> QED
      BY <2>1, <2>7, <2>8
  <1> QED
    BY <1>1, SpecRequestInv, PTL
=============================================================================
