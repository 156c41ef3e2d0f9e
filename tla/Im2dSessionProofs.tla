------------------------- MODULE Im2dSessionProofs --------------------------
(***************************************************************************)
(* Proofs about the im2d session and the buffers imported through it, for  *)
(* any number of threads, descriptors, cores, releases and drivers.        *)
(***************************************************************************)
EXTENDS Im2dBuffers, TLAPS

\* The writer lock belongs to the thread that initialises the session.
LockInv == \A t \in Threads : pc[t] \in Writing <=> writer = t

\* Which descriptors are open, at every step of the initialisation and outside.
FdInv ==
  /\ writer = Null => fds = IF rga_dev_fd = -1 THEN {} ELSE {rga_dev_fd}
  /\ \A t \in Threads :
       /\ pc[t] = "open" => fds = {} /\ rga_dev_fd = -1
       /\ pc[t] \in {"driver", "hw", "compat", "check"} =>
            fd \in Fds /\ fds = {fd} /\ rga_dev_fd = -1
       /\ pc[t] = "info" => fd \in Fds /\ fds = {fd} /\ rga_dev_fd = fd

\* A stored descriptor comes with a known driver of a version that was accepted.
DriverInv ==
  /\ rga_dev_fd # -1 => driver_type # "UNKONW" /\ rga_check_driver(librga, driver_verison)
  /\ \A t \in Threads : pc[t] = "check" => driver_type # "UNKONW"

\* Whoever was given the session, and the second lookup of rga_task_submit, can
\* rely on it: it is there, and nobody is initialising it.
UsingInv ==
  \A t \in Threads :
    pc[t] \in Using \/ (caller[t] = "debug" /\ pc[t] # "idle") =>
      rga_dev_fd # -1 /\ writer = Null /\ pc[t] # "crash"

\* What hardware_info holds: at most the error table of a failed attempt, until
\* the tables of the cores are merged.
Described ==
  /\ core_version # <<>> /\ rga_get_info_ok(core_version)
  /\ hardware_info \ {"V_ERR"} =
       IF MergesAll(core_version) THEN CoresOf(core_version) ELSE {core_version[1]}
InfoInv ==
  /\ rga_dev_fd = -1 => hardware_info \subseteq {"V_ERR"}
  /\ \A t \in Threads : /\ pc[t] = "info" => hardware_info \subseteq {"V_ERR"}
                        /\ pc[t] \in {"check", "info"} => core_version # <<>>
  /\ rga_dev_fd # -1 /\ writer = Null => Described

\* The driver's mappings are those of the handles, and need a session.
MapInv ==
  /\ mapped \subseteq Fds \X Importers
  /\ handle \in [Importers -> {0, Valid, NotSupported}]
  /\ \A m \in mapped : m[1] = rga_dev_fd /\ handle[m[2]] = Valid
  /\ mapped # {} => writer = Null
  /\ loaded => \A t \in Importers : handle[t] = Valid => <<rga_dev_fd, t>> \in mapped

IInv == TypeOK /\ LockInv /\ FdInv /\ DriverInv /\ UsingInv /\ InfoInv /\ MapInv

-----------------------------------------------------------------------------
(* Versions                                                                *)

\* The lexicographic order of two versions.
Before(v, w) == \/ v[1] < w[1]
                \/ v[1] = w[1] /\ v[2] < w[2]
                \/ v[1] = w[1] /\ v[2] = w[2] /\ v[3] < w[3]

\* rga_version_compare is that order.
LEMMA CompareIsOrder ==
  ASSUME NEW v \in rga_version_t, NEW w \in rga_version_t
  PROVE  /\ rga_version_compare(v, w) < 0 <=> Before(v, w)
         /\ rga_version_compare(v, w) > 0 <=> Before(w, v)
         /\ rga_version_compare(v, w) >= 0 <=> ~Before(v, w)
  BY DEF rga_version_t, rga_version_compare, Before

\* The rows of the two tables, one by one.
LEMMA DriverRows ==
  LET T == user_driver_bind_table
  IN  /\ DOMAIN T = 1..5 /\ Len(T) = 5
      /\ T[1].current = <<0, 0, 0>> /\ T[1].minimum = <<0, 0, 0>>
      /\ T[2].current = <<1, 0, 3>> /\ T[2].minimum = <<0, 0, 0>>
      /\ T[3].current = <<1, 6, 0>> /\ T[3].minimum = <<1, 1, 5>>
      /\ T[4].current = <<1, 7, 2>> /\ T[4].minimum = <<1, 2, 0>>
      /\ T[5].current = <<1, 7, 3>> /\ T[5].minimum = <<1, 2, 4>>
  BY DEF user_driver_bind_table, Row
LEMMA HeaderRows ==
  LET T == user_header_bind_table
  IN  /\ DOMAIN T = 1..3 /\ Len(T) = 3
      /\ T[1].current = <<0, 0, 0>> /\ T[1].minimum = <<0, 0, 0>>
      /\ T[2].current = <<1, 0, 3>> /\ T[2].minimum = <<1, 0, 3>>
      /\ T[3].current = <<1, 4, 0>> /\ T[3].minimum = <<1, 4, 0>>
  BY DEF user_header_bind_table, Row

\* The row get_current_index finds in either table for a release.
LEMMA DriverIndex ==
  ASSUME NEW v \in rga_version_t, ~Before(v, <<1, 0, 3>>)
  PROVE  get_current_index(v, user_driver_bind_table) =
           IF Before(v, <<1, 6, 0>>) THEN 2 ELSE IF Before(v, <<1, 7, 2>>) THEN 3
           ELSE IF Before(v, <<1, 7, 3>>) THEN 4 ELSE 5
  <1> DEFINE T == user_driver_bind_table
             Matches(i) == /\ rga_version_compare(v, T[i].current) >= 0
                           /\ i = Len(T) \/ rga_version_compare(T[i + 1].current, v) > 0
             k == IF Before(v, <<1, 6, 0>>) THEN 2 ELSE IF Before(v, <<1, 7, 2>>) THEN 3
                  ELSE IF Before(v, <<1, 7, 3>>) THEN 4 ELSE 5
  <1>1. \A i \in 1..5 : T[i].current \in rga_version_t
    BY DriverRows DEF rga_version_t
  <1>2. \A i \in 1..5 : Matches(i) <=> /\ ~Before(v, T[i].current)
                                       /\ i = 5 \/ Before(v, T[i + 1].current)
    BY <1>1, DriverRows, CompareIsOrder
  <1>3. \A i \in 1..5 : Matches(i) <=> i = k
    <2> HIDE DEF Matches
    <2>1. \A i \in 1..5 : i \in {1, 2, 3, 4, 5}
      OBVIOUS
    <2> QED
      BY <1>2, <2>1, DriverRows DEF Before, rga_version_t
  <1> HIDE DEF Matches, k
  <1>4. k \in 1..5
    BY DEF k
  <1>5. LastMatch(T, Matches) = k
    BY <1>3, <1>4, DriverRows DEF LastMatch
  <1> QED
    BY <1>5 DEF get_current_index, Matches, k

\* A release is a version at or after 1.0.3.
LEMMA ReleaseFacts ==
  ASSUME NEW v \in Releases
  PROVE  /\ v \in rga_version_t /\ ~Before(v, <<1, 0, 3>>)
         /\ v[1] \in 0..255 /\ v[2] \in 0..255 /\ v[3] \in 0..255
  <1>1. /\ v \in (0..255) \X (0..255) \X (0..255)
        /\ rga_version_compare(v, <<1, 0, 3>>) >= 0
    BY VersionsAssumption
  <1>2. v \in rga_version_t /\ <<1, 0, 3>> \in rga_version_t
    BY <1>1 DEF rga_version_t
  <1> QED
    BY <1>1, <1>2, CompareIsOrder

\* What rga_check_driver accepts lies before the minimum of every later row.
LEMMA AcceptedDriver ==
  ASSUME NEW v \in Releases, NEW d \in rga_version_t, rga_check_driver(v, d),
         NEW i \in DOMAIN user_driver_bind_table,
         rga_version_compare(user_driver_bind_table[i].current, v) > 0
  PROVE  rga_version_compare(d, user_driver_bind_table[i].minimum) < 0
  <1> DEFINE T == user_driver_bind_table
             k == get_current_index(v, T)
  <1>1. v \in rga_version_t /\ ~Before(v, <<1, 0, 3>>)
    BY ReleaseFacts
  <1>2. k = IF Before(v, <<1, 6, 0>>) THEN 2 ELSE IF Before(v, <<1, 7, 2>>) THEN 3
            ELSE IF Before(v, <<1, 7, 3>>) THEN 4 ELSE 5
    BY <1>1, DriverIndex
  <1>3. \A j \in 1..5 : T[j].current \in rga_version_t /\ T[j].minimum \in rga_version_t
    BY DriverRows DEF rga_version_t
  <1>4. i \in 1..5 /\ Before(v, T[i].current)
    BY <1>1, <1>3, DriverRows, CompareIsOrder
  <1>5. check_minimum_range(d, T, k) \in {0, -1}
    BY <1>2 DEF rga_check_driver, rga_version_check
  <1> HIDE DEF k
  <1>6. k \in 2..4
    BY <1>1, <1>2, <1>4, DriverRows DEF Before, rga_version_t
  <1>7. Before(d, T[k].minimum) \/ Before(d, T[k + 1].minimum)
    BY <1>3, <1>5, <1>6, DriverRows, CompareIsOrder DEF check_minimum_range
  <1>8. i > k
    BY <1>1, <1>2, <1>4, DriverRows DEF Before, rga_version_t
  <1>9. Before(d, T[i].minimum)
    <2>1. /\ T[2].minimum = <<0, 0, 0>> /\ T[3].minimum = <<1, 1, 5>>
          /\ T[4].minimum = <<1, 2, 0>> /\ T[5].minimum = <<1, 2, 4>>
      BY DriverRows
    <2>2. k \in {2, 3, 4} /\ i \in {3, 4, 5}
      BY <1>4, <1>6, <1>8
    <2> QED
      BY <1>7, <1>8, <2>1, <2>2 DEF Before, rga_version_t
  <1> QED
    BY <1>3, <1>4, <1>9, CompareIsOrder

\* The row of a release in the table of header files.
LEMMA HeaderIndex ==
  ASSUME NEW v \in rga_version_t, ~Before(v, <<1, 0, 3>>)
  PROVE  get_current_index(v, user_header_bind_table) = IF Before(v, <<1, 4, 0>>) THEN 2 ELSE 3
  <1> DEFINE T == user_header_bind_table
             Matches(i) == /\ rga_version_compare(v, T[i].current) >= 0
                           /\ i = Len(T) \/ rga_version_compare(T[i + 1].current, v) > 0
             k == IF Before(v, <<1, 4, 0>>) THEN 2 ELSE 3
  <1>1. \A i \in 1..3 : T[i].current \in rga_version_t
    BY HeaderRows DEF rga_version_t
  <1>2. \A i \in 1..3 : Matches(i) <=> /\ ~Before(v, T[i].current)
                                       /\ i = 3 \/ Before(v, T[i + 1].current)
    BY <1>1, HeaderRows, CompareIsOrder
  <1>3. \A i \in 1..3 : Matches(i) <=> i = k
    <2> HIDE DEF Matches
    <2>1. \A i \in 1..3 : i \in {1, 2, 3}
      OBVIOUS
    <2> QED
      BY <1>2, <2>1, HeaderRows DEF Before, rga_version_t
  <1> HIDE DEF Matches, k
  <1>4. k \in 1..3
    BY DEF k
  <1>5. LastMatch(T, Matches) = k
    BY <1>3, <1>4, HeaderRows DEF LastMatch
  <1> QED
    BY <1>5 DEF get_current_index, Matches, k

\* A release and a header are of one epoch when they lie on the same side of 1.4.0,
\* and rga_check_header says just that.
LEMMA HeaderChecked ==
  ASSUME NEW v \in Releases, NEW w \in rga_version_t
  PROVE  rga_check_header(v, w) <=> IF Before(v, <<1, 4, 0>>)
                                    THEN ~Before(w, <<1, 0, 3>>) /\ Before(w, <<1, 4, 0>>)
                                    ELSE ~Before(w, <<1, 4, 0>>)
  <1> DEFINE T == user_header_bind_table
             k == get_current_index(v, T)
  <1>1. v \in rga_version_t /\ ~Before(v, <<1, 0, 3>>)
    BY ReleaseFacts
  <1>2. k = IF Before(v, <<1, 4, 0>>) THEN 2 ELSE 3
    BY <1>1, HeaderIndex
  <1>3. rga_check_header(v, w) <=> check_minimum_range(w, T, k) = 0
    BY <1>2 DEF rga_check_header, rga_version_check
  <1> HIDE DEF k
  <1>4. T[2].minimum \in rga_version_t /\ T[3].minimum \in rga_version_t
    BY HeaderRows DEF rga_version_t
  <1>5. /\ rga_version_compare(w, T[2].minimum) < 0 <=> Before(w, <<1, 0, 3>>)
        /\ rga_version_compare(w, T[3].minimum) < 0 <=> Before(w, <<1, 4, 0>>)
        /\ Len(T) = 3
    BY <1>4, HeaderRows, CompareIsOrder
  <1> HIDE DEF T
  <1>6. CASE Before(v, <<1, 4, 0>>)
    <2>1. k = 2 /\ k # Len(T) /\ k + 1 = 3
      BY <1>2, <1>5, <1>6
    <2> QED
      BY <1>3, <1>5, <1>6, <2>1 DEF check_minimum_range
  <1>7. CASE ~Before(v, <<1, 4, 0>>)
    BY <1>2, <1>3, <1>5, <1>7 DEF check_minimum_range
  <1> QED
    BY <1>6, <1>7

\* The three numbers of a header's word.
Unpacked(h) == << (h \div 2^24) % 2^8, (h \div 2^16) % 2^8, (h \div 2^8) % 2^8 >>

\* Weight keeps the order of versions whose numbers fit into a byte.
LEMMA WeightIsOrder ==
  ASSUME NEW v \in rga_version_t, NEW w \in rga_version_t,
         v[2] < 256, v[3] < 256, w[2] < 256, w[3] < 256
  PROVE  Weight(v) \in Nat /\ (Weight(v) < Weight(w) <=> Before(v, w))
  <1>1. /\ v[1] \in Nat /\ v[2] \in Nat /\ v[3] \in Nat
        /\ w[1] \in Nat /\ w[2] \in Nat /\ w[3] \in Nat
    BY DEF rga_version_t
  <1> QED
    BY <1>1 DEF Weight, Before

\* Unpacking a word and weighing the version drops the build number.
LEMMA UnpackedWeight ==
  ASSUME NEW h \in Nat, h \div 2^24 < 2^8
  PROVE  /\ Unpacked(h) \in rga_version_t
         /\ Unpacked(h)[2] < 256 /\ Unpacked(h)[3] < 256
         /\ Weight(Unpacked(h)) = h \div 2^8
  <1> DEFINE a == (h \div 2^24) % 2^8
             b == (h \div 2^16) % 2^8
             c == (h \div 2^8) % 2^8
  <1>1. a \in 0..255 /\ b \in 0..255 /\ c \in 0..255
    OBVIOUS
  <1>2. (a * 2^8 + b) * 2^8 + c = h \div 2^8
    OBVIOUS
  <1> HIDE DEF a, b, c
  <1>3. Unpacked(h) = <<a, b, c>>
    BY DEF Unpacked, a, b, c
  <1> QED
    BY <1>1, <1>2, <1>3 DEF Weight, rga_version_t

\* Every release accepts the header files of its own row of the table and no
\* others, whatever the word of the header says.
LEMMA HeadersMatch == librga \in Releases => HeaderOfSameEpoch
  <1> SUFFICES ASSUME librga \in Releases PROVE HeaderOfSameEpoch
    OBVIOUS
  <1> DEFINE Epoch(n) == {i \in DOMAIN user_header_bind_table :
                            Weight(user_header_bind_table[i].minimum) <= n}
             Old == <<1, 0, 3>>
             New == <<1, 4, 0>>
  <1>1. /\ librga \in rga_version_t /\ ~Before(librga, Old)
        /\ librga[1] \in 0..255 /\ librga[2] \in 0..255 /\ librga[3] \in 0..255
    BY ReleaseFacts
  <1>2. /\ Old \in rga_version_t /\ New \in rga_version_t
        /\ Old[2] < 256 /\ Old[3] < 256 /\ New[2] < 256 /\ New[3] < 256
        /\ Weight(Old) = 65539 /\ Weight(New) = 66560 /\ Weight(<<0, 0, 0>>) = 0
    BY DEF rga_version_t, Weight
  <1>3. ASSUME NEW n \in Nat
        PROVE  Epoch(n) = {i \in 1..3 : \/ i = 1
                                        \/ i = 2 /\ Weight(Old) <= n
                                        \/ i = 3 /\ Weight(New) <= n}
    <2>1. \A i \in 1..3 : i \in {1, 2, 3}
      OBVIOUS
    <2> QED
      BY <1>2, <2>1, HeaderRows
  <1>4. ASSUME NEW m \in Nat, NEW n \in Nat
        PROVE  Epoch(m) = Epoch(n) <=> /\ Weight(Old) <= m <=> Weight(Old) <= n
                                       /\ Weight(New) <= m <=> Weight(New) <= n
    <2> HIDE DEF Epoch
    <2>1. \A k \in {m, n} : /\ 2 \in Epoch(k) <=> Weight(Old) <= k
                            /\ 3 \in Epoch(k) <=> Weight(New) <= k
      BY <1>3
    <2>2. (/\ Weight(Old) <= m <=> Weight(Old) <= n
           /\ Weight(New) <= m <=> Weight(New) <= n) => Epoch(m) = Epoch(n)
      BY <1>3
    <2> QED
      BY <2>1, <2>2
  <1> HIDE DEF Epoch, Old, New
  <1>5. /\ Weight(librga) \in Nat /\ Weight(Old) <= Weight(librga)
        /\ Weight(New) <= Weight(librga) <=> ~Before(librga, New)
    BY <1>1, <1>2, WeightIsOrder
  <1>6. ASSUME NEW h \in Nat, h \div 2^24 < 2^8
        PROVE  imcheckHeader(librga, h) <=> Epoch(h \div 2^8) = Epoch(Weight(librga))
    <2> DEFINE w == Unpacked(h)
    <2>1. w \in rga_version_t /\ w[2] < 256 /\ w[3] < 256 /\ Weight(w) = h \div 2^8
      BY <1>6, UnpackedWeight
    <2>2. imcheckHeader(librga, h) <=> rga_check_header(librga, w)
      BY DEF imcheckHeader, Unpacked
    <2>w. w \in rga_version_t /\ librga \in Releases
      BY <2>1
    <2> HIDE DEF w
    <2>3. rga_check_header(librga, w) <=> IF Before(librga, New)
                                          THEN ~Before(w, Old) /\ Before(w, New)
                                          ELSE ~Before(w, New)
      BY <2>w, HeaderChecked DEF Old, New
    <2>4. /\ Weight(Old) <= Weight(w) <=> ~Before(w, Old)
          /\ Weight(New) <= Weight(w) <=> ~Before(w, New)
          /\ Weight(w) \in Nat
      BY <1>2, <2>1, WeightIsOrder
    <2>5. Before(w, Old) => Before(w, New)
      BY <2>1 DEF Before, Old, New, rga_version_t
    <2> QED
      BY <1>4, <1>5, <2>1, <2>2, <2>3, <2>4, <2>5
  <1>7. imcheckHeader(librga, Weight(librga) * 2^8)
    <2> DEFINE n == Weight(librga)
               h == n * 2^8
    <2>1. n \in Nat /\ n < 2^24
      <3>1. \A a, b, c \in 0..255 : (a * 2^8 + b) * 2^8 + c < 2^24
        BY SMT
      <3> QED
        BY <1>1, <1>5, <3>1 DEF Weight
    <2> HIDE DEF n
    <2>2. h \in Nat /\ h \div 2^24 < 2^8 /\ h \div 2^8 = n
      BY <2>1, SMT
    <2> QED
      BY <1>6, <2>2 DEF n
  <1>8. \A h \in Headers : h \in Nat /\ h \div 2^24 < 2^8
    BY VersionsAssumption
  <1> QED
    BY <1>6, <1>7, <1>8 DEF HeaderOfSameEpoch, Epoch

-----------------------------------------------------------------------------
(* The invariant                                                           *)

LEMMA InitIInv == BufInit => IInv
  <1> SUFFICES ASSUME BufInit PROVE IInv
    OBVIOUS
  <1> USE NullAssumption DEF BufInit, Init, Writing, Using, Callers, PCs
  <1>1. TypeOK
    BY DEF TypeOK, Versions, DriverTypes
  <1>2. LockInv /\ FdInv /\ DriverInv /\ UsingInv /\ InfoInv
    BY DEF LockInv, FdInv, DriverInv, UsingInv, InfoInv
  <1>3. MapInv
    BY DEF MapInv, Valid, NotSupported
  <1> QED
    BY <1>1, <1>2, <1>3 DEF IInv

\* Steps that move one thread inside the library and write nothing else.
LEMMA MoveKeepsIInv ==
  ASSUME IInv, NEW t \in Threads, NEW label \in PCs \ Writing, NEW c \in Callers,
         pc[t] \notin Writing,
         label \in Using \/ (c = "debug" /\ label # "idle") =>
           rga_dev_fd # -1 /\ writer = Null /\ label # "crash",
         pc' = [pc EXCEPT ![t] = label], caller' = [caller EXCEPT ![t] = c],
         UNCHANGED <<librga, writer, session, fds, fd, loaded, mapped, handle>>
  PROVE  IInv'
  <1> USE NullAssumption DEF session, Writing, Using, Callers, PCs
  <1>1. TypeOK'
    BY DEF IInv, TypeOK
  <1>2. LockInv'
    BY DEF IInv, TypeOK, LockInv
  <1>3. FdInv' /\ DriverInv'
    BY DEF IInv, TypeOK, FdInv, DriverInv
  <1>4. UsingInv'
    BY DEF IInv, TypeOK, UsingInv
  <1>5. InfoInv'
    BY DEF IInv, TypeOK, InfoInv, Described
  <1>6. MapInv'
    BY DEF IInv, MapInv
  <1> QED
    BY <1>1, <1>2, <1>3, <1>4, <1>5, <1>6 DEF IInv

\* The driver's mappings belong to the session's descriptor, which is open: a
\* session step that closes nothing keeps them.
LEMMA MappedOpen ==
  ASSUME IInv
  PROVE  /\ \A m \in mapped : m[1] \in fds /\ rga_dev_fd # -1 /\ writer = Null
         /\ rga_dev_fd # -1 => rga_dev_fd \in Fds
         /\ HasSession <=> rga_dev_fd # -1
         /\ rga_dev_fd < 0 <=> rga_dev_fd = -1
  <1>1. rga_dev_fd \in Fds \cup {-1} /\ Fds \subseteq Nat \ {0}
    BY FdsAssumption DEF IInv, TypeOK
  <1>2. \A m \in mapped : m[1] \in fds /\ rga_dev_fd # -1 /\ writer = Null
    BY FdsAssumption DEF IInv, FdInv, MapInv
  <1> QED
    BY <1>1, <1>2 DEF HasSession

\* The steps of a thread that does not initialise the session.
LEMMA MovesKeepIInv ==
  ASSUME IInv, NEW t \in Threads, UNCHANGED <<librga, mapped, handle>>,
         \/ CallApi(t) \/ Lookup(t) \/ (Relock(t) /\ HasSession)
         \/ GetDebugState(t) \/ DebugDone(t) \/ SubmitIoctl(t) \/ QueryString(t)
         \/ (t \in Importers /\ (importbuffer(t) \/ releasebuffer_handle(t)))
  PROVE  IInv'
  <1> USE DEF Writing, Using, Callers, PCs, session
  <1>t. /\ pc \in [Threads -> PCs] /\ caller \in [Threads -> Callers]
        /\ caller = [caller EXCEPT ![t] = caller[t]]
    BY DEF IInv, TypeOK
  <1>1. CASE \/ CallApi(t) \/ (t \in Importers /\ (importbuffer(t) \/ releasebuffer_handle(t)))
    <2>1. PICK c \in {"submit", "query", "import", "release"} :
            caller' = [caller EXCEPT ![t] = c] /\ pc' = [pc EXCEPT ![t] = "lookup"]
      BY <1>1 DEF CallApi, importbuffer, releasebuffer_handle, Goto
    <2>2. pc[t] = "idle" /\ UNCHANGED <<writer, session, fds, fd, loaded>>
      BY <1>1 DEF CallApi, importbuffer, releasebuffer_handle
    <2> QED
      BY <2>1, <2>2, MoveKeepsIInv
  <1>2. CASE Lookup(t) \/ (Relock(t) /\ HasSession)
    <2> DEFINE label == IF HasSession THEN caller[t] ELSE "relock"
    <2>1. /\ pc[t] \in {"lookup", "relock"} /\ writer = Null
          /\ pc' = [pc EXCEPT ![t] = label]
          /\ UNCHANGED <<writer, session, fds, fd, loaded, caller>>
      BY <1>2 DEF Lookup, Relock, Found, Goto
    <2>2. label \in PCs \ Writing /\ caller[t] \in Callers
      BY <1>t
    <2>3. label \in Using \/ (caller[t] = "debug" /\ label # "idle") =>
            rga_dev_fd # -1 /\ writer = Null /\ label # "crash"
      <3>1. HasSession <=> rga_dev_fd # -1
        BY MappedOpen
      <3>2. caller[t] = "debug" => rga_dev_fd # -1
        BY <2>1 DEF IInv, UsingInv
      <3> QED
        BY <1>t, <2>1, <3>1, <3>2
    <2> HIDE DEF label
    <2> QED
      BY <1>t, <2>1, <2>2, <2>3, MoveKeepsIInv
  <1>3. CASE GetDebugState(t)
    <2>1. /\ pc[t] = "submit" /\ pc' = [pc EXCEPT ![t] = "lookup"]
          /\ caller' = [caller EXCEPT ![t] = "debug"]
          /\ UNCHANGED <<writer, session, fds, fd, loaded>>
      BY <1>3 DEF GetDebugState, Goto
    <2>2. rga_dev_fd # -1 /\ writer = Null
      BY <2>1 DEF IInv, UsingInv
    <2> QED
      BY <2>1, <2>2, MoveKeepsIInv
  <1>4. CASE DebugDone(t)
    <2>1. /\ pc[t] = "debug" /\ pc' = [pc EXCEPT ![t] = "ioctl"]
          /\ UNCHANGED <<writer, session, fds, fd, loaded, caller>>
      BY <1>4 DEF DebugDone, Goto
    <2>2. rga_dev_fd # -1 /\ writer = Null
      BY <2>1 DEF IInv, UsingInv
    <2> QED
      BY <1>t, <2>1, <2>2, MoveKeepsIInv
  <1>5. CASE SubmitIoctl(t) \/ QueryString(t)
    <2>1. /\ pc[t] \in {"ioctl", "query"} /\ pc' = [pc EXCEPT ![t] = "idle"]
          /\ UNCHANGED <<writer, session, fds, fd, loaded, caller>>
      BY <1>5 DEF SubmitIoctl, QueryString, Goto
    <2> QED
      BY <1>t, <2>1, MoveKeepsIInv
  <1> QED
    BY <1>1, <1>2, <1>3, <1>4, <1>5

\* While a thread holds the writer lock, nobody has the session or a mapping.
LEMMA WriterAlone ==
  ASSUME IInv, NEW t \in Threads, writer = t
  PROVE  /\ writer # Null /\ pc[t] \in Writing
         /\ \A u \in Threads : /\ pc[u] \notin Using
                               /\ caller[u] = "debug" => pc[u] = "idle"
                               /\ u # t => pc[u] \notin Writing
         /\ mapped = {} /\ (loaded => \A u \in Importers : handle[u] # Valid)
  BY NullAssumption DEF IInv, LockInv, UsingInv, MapInv

\* The steps of the initialisation.
LEMMA InitStepKeepsIInv ==
  ASSUME IInv, NEW t \in Threads, (Relock(t) /\ ~HasSession) \/ InitStep(t),
         UNCHANGED <<librga, handle>>, mapped' = {m \in mapped : m[1] \in fds'}
  PROVE  IInv'
  <1> USE NullAssumption, FdsAssumption DEF Writing, Using, Callers, PCs, session, Goto
  <1>t. /\ pc \in [Threads -> PCs] /\ caller \in [Threads -> Callers]
    BY DEF IInv, TypeOK
  <1>1. CASE Relock(t) /\ ~HasSession
    <2>1. /\ pc[t] = "relock" /\ writer = Null /\ writer' = t /\ pc' = [pc EXCEPT ![t] = "open"]
          /\ UNCHANGED <<session, fds, fd, loaded, caller>>
      BY <1>1 DEF Relock
    <2>2. rga_dev_fd = -1 /\ fds = {} /\ mapped = {} /\ mapped' = {}
      BY <1>1, <2>1, MappedOpen DEF IInv, FdInv
    <2>3. TypeOK' /\ LockInv'
      BY <1>t, <2>1 DEF IInv, TypeOK, LockInv
    <2>4. FdInv' /\ DriverInv'
      BY <1>t, <2>1, <2>2 DEF IInv, LockInv, FdInv, DriverInv
    <2>5. UsingInv'
      BY <1>t, <2>1, <2>2 DEF IInv, UsingInv
    <2>6. InfoInv'
      BY <1>t, <2>1, <2>2 DEF IInv, InfoInv
    <2>7. MapInv'
      BY <2>1, <2>2 DEF IInv, MapInv
    <2> QED
      BY <2>3, <2>4, <2>5, <2>6, <2>7 DEF IInv
  <1> DEFINE Fails == /\ fds' = {} /\ rga_dev_fd' = -1 /\ writer' = Null
                      /\ pc' = [pc EXCEPT ![t] = IF caller[t] \in {"debug", "query"}
                                                 THEN "crash" ELSE "idle"]
                      /\ hardware_info' \subseteq {"V_ERR"}
                      /\ driver_type' \in DriverTypes /\ user_close_fence' \in BOOLEAN
                      /\ UNCHANGED <<core_version, driver_verison, loaded, caller>>
                      /\ fd' \in Fds \cup {-1}
  \* However the initialisation fails, it leaves no session behind.
  <1>2. ASSUME Fails, writer = t PROVE IInv'
    <2>a. /\ pc[t] \in Writing /\ mapped = {} /\ mapped' = {}
          /\ \A u \in Threads : /\ pc[u] \notin Using
                                /\ caller[u] = "debug" => pc[u] = "idle"
                                /\ u # t => pc[u] \notin Writing
          /\ loaded => \A u \in Importers : handle[u] # Valid
      BY <1>2, WriterAlone
    <2>1. \A u \in Threads : /\ pc'[u] \notin Writing /\ pc'[u] \notin Using
                             /\ caller[u] = "debug" => pc'[u] = "idle"
      BY <1>t, <1>2, <2>a
    <2>2. TypeOK' /\ LockInv'
      BY <1>t, <1>2, <2>1 DEF IInv, TypeOK, LockInv
    <2>3. FdInv' /\ DriverInv' /\ UsingInv' /\ InfoInv'
      BY <1>2, <2>1 DEF FdInv, DriverInv, UsingInv, InfoInv
    <2>4. MapInv'
      BY <1>2, <2>a DEF IInv, MapInv
    <2> QED
      BY <2>2, <2>3, <2>4 DEF IInv
  \* A step that goes on to the next one of the initialisation.
  <1>3. ASSUME NEW label \in Writing, pc' = [pc EXCEPT ![t] = label], writer = t,
               UNCHANGED <<writer, caller, loaded>>, TypeOK', FdInv', DriverInv', InfoInv'
        PROVE  IInv'
    <2>a. /\ pc[t] \in Writing /\ mapped = {} /\ mapped' = {}
          /\ \A u \in Threads : /\ pc[u] \notin Using
                                /\ caller[u] = "debug" => pc[u] = "idle"
                                /\ u # t => pc[u] \notin Writing
          /\ loaded => \A u \in Importers : handle[u] # Valid
      BY <1>3, WriterAlone
    <2>1. LockInv' /\ UsingInv'
      BY <1>t, <1>3, <2>a DEF IInv, LockInv, UsingInv
    <2>2. MapInv'
      BY <1>3, <2>a DEF IInv, MapInv
    <2> QED
      BY <1>3, <2>1, <2>2 DEF IInv
  <1>w. ASSUME pc[t] \in Writing
        PROVE  /\ writer = t /\ writer # Null
               /\ \A u \in Threads : u # t => pc[u] \notin Writing
    BY <1>w DEF IInv, LockInv
  <1>4. CASE DeviceOpen(t)
    <2>1. /\ pc[t] = "open" /\ fds = {} /\ rga_dev_fd = -1 /\ hardware_info \subseteq {"V_ERR"}
          /\ UNCHANGED <<session, loaded, caller>> /\ writer = t
      BY <1>4, <1>w DEF DeviceOpen, IInv, FdInv, InfoInv
    <2>2. CASE Unlock /\ NoSession(t) /\ UNCHANGED <<fds, fd>>
      <3>1. Fails
        BY <2>1, <2>2 DEF Unlock, NoSession, IInv, TypeOK
      <3> HIDE DEF Fails
      <3> QED
        BY <1>2, <2>1, <3>1
    <2>3. CASE \E f \in Fds \ fds : /\ fds' = fds \cup {f} /\ fd' = f
                                    /\ Goto(t, "driver") /\ UNCHANGED writer
      <3>1. /\ fd' \in Fds /\ fds' = {fd'} /\ pc' = [pc EXCEPT ![t] = "driver"] /\ UNCHANGED writer
        BY <2>1, <2>3
      <3>2. TypeOK'
        BY <1>t, <1>w, <2>1, <3>1 DEF IInv, TypeOK
      <3>3. FdInv' /\ DriverInv' /\ InfoInv'
        BY <1>t, <1>w, <2>1, <3>1 DEF IInv, FdInv, DriverInv, InfoInv
      <3> QED
        BY <1>3, <2>1, <3>1, <3>2, <3>3
    <2> QED
      BY <1>4, <2>2, <2>3 DEF DeviceOpen
  <1>5. CASE DriverVersion(t)
    <2>1. /\ pc[t] = "driver" /\ fd \in Fds /\ fds = {fd} /\ rga_dev_fd = -1 /\ writer = t
          /\ UNCHANGED <<writer, rga_dev_fd, core_version, driver_type, user_close_fence,
                         hardware_info, fds, fd, loaded, caller>>
      BY <1>5, <1>w DEF DriverVersion, IInv, FdInv
    <2>2. PICK label \in {"hw", "compat"} : pc' = [pc EXCEPT ![t] = label]
      BY <1>5 DEF DriverVersion
    <2>3. TypeOK'
      BY <1>5, <1>t, <1>w, <2>1, <2>2 DEF DriverVersion, IInv, TypeOK, Versions
    <2>4. FdInv' /\ DriverInv' /\ InfoInv'
      BY <1>t, <1>w, <2>1, <2>2 DEF IInv, FdInv, DriverInv, InfoInv
    <2> QED
      BY <1>3, <2>1, <2>2, <2>3, <2>4
  <1>6. CASE HwVersion(t) \/ CompatVersion(t)
    <2>1. /\ pc[t] \in {"hw", "compat"} /\ fd \in Fds /\ fds = {fd} /\ rga_dev_fd = -1 /\ writer = t
          /\ hardware_info \subseteq {"V_ERR"}
          /\ UNCHANGED <<rga_dev_fd, driver_verison, user_close_fence, hardware_info, fd, loaded, caller>>
      BY <1>6, <1>w DEF HwVersion, CompatVersion, IInv, FdInv, InfoInv
    <2>2. CASE CloseAndFail(t) /\ UNCHANGED <<core_version, driver_type>>
      <3>1. Fails
        BY <2>1, <2>2 DEF CloseAndFail, Unlock, NoSession, IInv, TypeOK
      <3> HIDE DEF Fails
      <3> QED
        BY <1>2, <2>1, <3>1
    <2>3. CASE ~(CloseAndFail(t) /\ UNCHANGED <<core_version, driver_type>>)
      <3>1. /\ pc' = [pc EXCEPT ![t] = "check"] /\ UNCHANGED <<writer, fds>>
            /\ driver_type' \in DriverTypes \ {"UNKONW"}
            /\ core_version' \in CoreLists \cup {<<c>> : c \in Cores}
        BY <1>6, <2>3 DEF HwVersion, CompatVersion, DriverTypes
      <3>2. core_version' # <<>>
        BY <3>1, CoresAssumption
      <3>3. TypeOK'
        BY <1>t, <1>w, <2>1, <3>1 DEF IInv, TypeOK
      <3>4. FdInv' /\ DriverInv' /\ InfoInv'
        BY <1>t, <1>w, <2>1, <3>1, <3>2 DEF IInv, FdInv, DriverInv, InfoInv
      <3> QED
        BY <1>3, <2>1, <3>1, <3>3, <3>4
    <2> QED
      BY <2>2, <2>3
  <1>7. CASE CheckDriver(t)
    <2>1. /\ pc[t] = "check" /\ fd \in Fds /\ fds = {fd} /\ rga_dev_fd = -1 /\ writer = t
          /\ hardware_info \subseteq {"V_ERR"} /\ driver_type # "UNKONW" /\ core_version # <<>>
          /\ UNCHANGED <<core_version, driver_verison, driver_type, hardware_info, fd, loaded, caller>>
      BY <1>7, <1>w DEF CheckDriver, IInv, FdInv, DriverInv, InfoInv
    <2>2. CASE CloseAndFail(t) /\ UNCHANGED <<user_close_fence, rga_dev_fd>>
      <3>1. Fails
        BY <2>1, <2>2 DEF CloseAndFail, Unlock, NoSession, IInv, TypeOK
      <3> HIDE DEF Fails
      <3> QED
        BY <1>2, <2>1, <3>1
    <2>3. CASE ~(CloseAndFail(t) /\ UNCHANGED <<user_close_fence, rga_dev_fd>>)
      <3>1. /\ rga_check_driver(librga, driver_verison) /\ rga_dev_fd' = fd
            /\ pc' = [pc EXCEPT ![t] = "info"] /\ UNCHANGED <<writer, fds>>
            /\ user_close_fence' = (\/ user_close_fence
                                    \/ RGA_DRIVER_FEATURE_USER_CLOSE_FENCE(driver_verison))
        BY <1>7, <2>3 DEF CheckDriver
      <3>2. TypeOK'
        <4>1. user_close_fence' \in BOOLEAN
          BY <3>1
        <4> QED
          BY <1>t, <1>w, <2>1, <3>1, <4>1 DEF IInv, TypeOK
      <3>3. FdInv' /\ DriverInv' /\ InfoInv'
        BY <1>t, <1>w, <2>1, <3>1 DEF IInv, FdInv, DriverInv, InfoInv
      <3> QED
        BY <1>3, <2>1, <3>1, <3>2, <3>3
    <2> QED
      BY <2>2, <2>3
  <1>8. CASE GetInfo(t)
    <2>1. /\ pc[t] = "info" /\ fd \in Fds /\ fds = {fd} /\ rga_dev_fd = fd /\ writer = t
          /\ hardware_info \subseteq {"V_ERR"} /\ core_version # <<>>
          /\ UNCHANGED <<core_version, driver_verison, fd, loaded, caller>>
          /\ hardware_info' = rga_get_info(core_version, hardware_info) /\ writer' = Null
      BY <1>8, <1>w DEF GetInfo, Unlock, IInv, FdInv, DriverInv, InfoInv
    <2>l. /\ core_version \in Seq(Cores) /\ core_version[1] \in Cores
          /\ CoresOf(core_version) \subseteq Cores
          /\ core_version[1] \in CoresOf(core_version)
      <3>1. core_version \in CoreLists \cup {<<c>> : c \in Cores}
        BY <2>1 DEF IInv, TypeOK
      <3>2. \A c \in Cores : <<c>> \in Seq(Cores)
        OBVIOUS
      <3>3. core_version \in Seq(Cores) /\ core_version # <<>>
        BY <2>1, <3>1, <3>2, CoresAssumption
      <3> QED
        BY <3>3 DEF CoresOf
    <2>2. CASE rga_get_info_ok(core_version)
      <3>1. /\ pc' = [pc EXCEPT ![t] = caller[t]]
            /\ UNCHANGED <<fds, rga_dev_fd, driver_type, user_close_fence>>
        BY <1>8, <2>2 DEF GetInfo, Found
      <3>2. Described' /\ hardware_info' \subseteq Cores \cup {"V_ERR"}
        <4>1. CASE MergesAll(core_version)
          BY <2>1, <2>2, <2>l, <4>1, CoresAssumption
          DEF Described, rga_get_info, MergesAll, Cores, rga_get_info_ok, CoresOf
        <4>2. CASE ~MergesAll(core_version)
          BY <2>1, <2>2, <2>l, <4>2, CoresAssumption
          DEF Described, rga_get_info, rga_get_info_ok, Cores, MergesAll, CoresOf
        <4> QED
          BY <4>1, <4>2
      <3>3. /\ \A u \in Threads : /\ pc'[u] \notin Writing
                                  /\ caller[u] = "debug" => pc[u] = "idle"
            /\ caller[t] # "debug" /\ mapped = {} /\ mapped' = {}
            /\ loaded => \A u \in Importers : handle[u] # Valid
        BY <1>t, <1>w, <2>1, <3>1, WriterAlone
      <3>4. TypeOK' /\ LockInv'
        BY <1>t, <2>1, <3>1, <3>2, <3>3 DEF IInv, TypeOK, LockInv
      <3>5. FdInv' /\ DriverInv' /\ InfoInv'
        BY <2>1, <3>1, <3>2, <3>3 DEF IInv, FdInv, DriverInv, InfoInv
      <3>6. UsingInv'
        BY <1>t, <2>1, <3>1, <3>3 DEF UsingInv
      <3>7. MapInv'
        BY <2>1, <3>1, <3>3 DEF IInv, MapInv
      <3> QED
        BY <3>4, <3>5, <3>6, <3>7 DEF IInv
    <2>3. CASE ~rga_get_info_ok(core_version)
      <3>a. hardware_info' = {"V_ERR"}
        BY <2>1, <2>3 DEF rga_get_info, rga_get_info_ok
      <3>b. fd > 0 /\ ~(rga_dev_fd < 0)
        BY <2>1
      <3>c. /\ fds' = {} /\ rga_dev_fd' = -1 /\ driver_type' = "UNKONW" /\ user_close_fence' = FALSE
            /\ NoSession(t)
        BY <1>8, <2>1, <2>3, <3>b DEF GetInfo, rga_device_exit
      <3>1. Fails
        BY <2>1, <3>a, <3>c DEF NoSession, DriverTypes
      <3> HIDE DEF Fails
      <3> QED
        BY <1>2, <2>1, <3>1
    <2> QED
      BY <2>2, <2>3
  <1> QED
    BY <1>1, <1>4, <1>5, <1>6, <1>7, <1>8 DEF InitStep

\* The descriptor is closed at exit, when every thread is outside, and the
\* driver forgets its mappings.
LEMMA UnloadKeepsIInv ==
  ASSUME IInv, Unload, UNCHANGED <<librga, handle>>, mapped' = {m \in mapped : m[1] \in fds'}
  PROVE  IInv'
  <1> USE NullAssumption, FdsAssumption DEF Writing, Using, session
  <1>1. /\ loaded /\ loaded' = FALSE /\ hardware_info' = {}
        /\ UNCHANGED <<writer, core_version, driver_verison, fd, pc, caller>>
        /\ \A t \in Threads : pc[t] = "idle"
    BY DEF Unload, IInv, TypeOK
  <1>2. writer = Null
    BY <1>1 DEF IInv, TypeOK, LockInv
  <1>3. rga_dev_fd' = -1 /\ fds' = {} /\ driver_type' \in DriverTypes /\ user_close_fence' \in BOOLEAN
    <2>1. CASE rga_dev_fd = -1
      <3>1. fds = {} /\ driver_type \in DriverTypes /\ user_close_fence \in BOOLEAN
        BY <1>2, <2>1 DEF IInv, TypeOK, FdInv
      <3>2. rga_dev_fd < 0
        BY <2>1
      <3>3. UNCHANGED <<rga_dev_fd, fds, driver_type, user_close_fence>>
        BY <3>2 DEF Unload, rga_device_exit
      <3> QED
        BY <2>1, <3>1, <3>3
    <2>2. CASE rga_dev_fd # -1
      <3>1. ~(rga_dev_fd < 0) /\ fds = {rga_dev_fd}
        BY <1>2, <2>2, MappedOpen DEF IInv, FdInv
      <3> QED
        BY <3>1 DEF Unload, rga_device_exit, DriverTypes
    <2> QED
      BY <2>1, <2>2
  <1>4. TypeOK'
    BY <1>1, <1>2, <1>3 DEF IInv, TypeOK
  <1>l. LockInv'
    BY <1>1, <1>2 DEF IInv, LockInv
  <1>5. FdInv' /\ DriverInv' /\ UsingInv' /\ InfoInv'
    BY <1>1, <1>2, <1>3 DEF IInv, FdInv, DriverInv, UsingInv, InfoInv
  <1>6. MapInv'
    BY <1>1, <1>3 DEF IInv, MapInv
  <1> QED
    BY <1>4, <1>l, <1>5, <1>6 DEF IInv

\* The ioctls of importbuffer and releasebuffer.
LEMMA BufferStepKeepsIInv ==
  ASSUME IInv, NEW t \in Importers,
         ImportUnknownFormat(t) \/ rga_import_buffers(t) \/ rga_release_buffers(t)
  PROVE  IInv'
  <1> USE NullAssumption, ImportersAssumption DEF Writing, Using, Callers, PCs, session, Goto
  <1>1. CASE ImportUnknownFormat(t)
    <2>1. /\ UNCHANGED <<vars, mapped>> /\ handle[t] = 0
          /\ handle' = [handle EXCEPT ![t] = NotSupported]
      BY <1>1 DEF ImportUnknownFormat
    <2>2. MapInv'
      BY <2>1 DEF vars, IInv, MapInv, Valid, NotSupported
    <2> QED
      BY <2>1, <2>2 DEF vars, IInv, TypeOK, LockInv, FdInv, DriverInv, UsingInv, InfoInv, Described
  <1>2. CASE rga_import_buffers(t) \/ rga_release_buffers(t)
    <2>1. /\ pc[t] \in {"import", "release"} /\ pc' = [pc EXCEPT ![t] = "idle"] /\ t \in Threads
          /\ UNCHANGED <<librga, writer, session, fds, fd, loaded, caller>>
      BY <1>2 DEF rga_import_buffers, rga_release_buffers
    <2>2. rga_dev_fd \in Fds /\ writer = Null
      BY <2>1 DEF IInv, TypeOK, UsingInv
    <2>3. TypeOK' /\ LockInv' /\ FdInv' /\ DriverInv'
      BY <2>1 DEF IInv, TypeOK, LockInv, FdInv, DriverInv
    <2>4. UsingInv'
      BY <2>1 DEF IInv, TypeOK, UsingInv
    <2>5. InfoInv'
      BY <2>1 DEF IInv, TypeOK, InfoInv, Described
    <2>6. CASE rga_import_buffers(t)
      <3>1. \/ mapped' = mapped \cup {<<rga_dev_fd, t>>} /\ handle' = [handle EXCEPT ![t] = Valid]
            \/ UNCHANGED <<mapped, handle>>
        BY <2>6 DEF rga_import_buffers
      <3>2. MapInv'
        BY <2>1, <2>2, <3>1 DEF IInv, MapInv
      <3> QED
        BY <2>3, <2>4, <2>5, <3>2 DEF IInv
    <2>7. CASE rga_release_buffers(t)
      <3>1. /\ mapped' = IF handle[t] = Valid THEN mapped \ {<<rga_dev_fd, t>>} ELSE mapped
            /\ handle' = [handle EXCEPT ![t] = 0]
        BY <2>7 DEF rga_release_buffers
      <3>2. \A m \in mapped : m = <<m[1], m[2]>> /\ m[1] = rga_dev_fd /\ handle[m[2]] = Valid
        BY DEF IInv, MapInv
      <3>3. \A m \in mapped' : m \in mapped /\ m[2] # t
        BY <3>1, <3>2
      <3>4. \A u \in Importers \ {t} : <<rga_dev_fd, u>> \in mapped => <<rga_dev_fd, u>> \in mapped'
        BY <3>1
      <3>5. MapInv'
        BY <2>1, <2>2, <3>1, <3>2, <3>3, <3>4 DEF IInv, MapInv, Valid
      <3> QED
        BY <2>3, <2>4, <2>5, <3>5 DEF IInv
    <2> QED
      BY <1>2, <2>6, <2>7
  <1> QED
    BY <1>1, <1>2

LEMMA NextIInv == IInv /\ [BufNext]_bufVars => IInv'
  <1> SUFFICES ASSUME IInv, [BufNext]_bufVars PROVE IInv'
    OBVIOUS
  <1>1. CASE SessionStep
    <2>1. /\ UNCHANGED <<librga, handle>> /\ mapped' = {m \in mapped : m[1] \in fds'}
          /\ Unload \/ \E t \in Threads : CallApi(t) \/ Inside(t)
      BY <1>1 DEF SessionStep
    <2>2. CASE Unload
      BY <2>1, <2>2, UnloadKeepsIInv
    <2>3. ASSUME NEW t \in Threads, CallApi(t) \/ Inside(t) PROVE IInv'
      <3>1. CASE (Relock(t) /\ ~HasSession) \/ InitStep(t)
        BY <2>1, <3>1, InitStepKeepsIInv
      <3>2. CASE \/ CallApi(t) \/ Lookup(t) \/ (Relock(t) /\ HasSession)
                 \/ GetDebugState(t) \/ DebugDone(t) \/ SubmitIoctl(t) \/ QueryString(t)
        <4>1. fds' = fds
          BY <3>2 DEF CallApi, Lookup, Relock, GetDebugState, DebugDone, SubmitIoctl, QueryString
        <4>2. mapped' = mapped
          BY <2>1, <4>1, MappedOpen
        <4> QED
          BY <2>1, <3>2, <4>2, MovesKeepIInv
      <3> QED
        BY <2>3, <3>1, <3>2 DEF Inside
    <2> QED
      BY <2>1, <2>2, <2>3
  <1>2. ASSUME NEW t \in Importers, importbuffer(t) \/ releasebuffer_handle(t) PROVE IInv'
    <2>1. t \in Threads /\ UNCHANGED <<librga, mapped, handle>>
      BY <1>2, ImportersAssumption DEF importbuffer, releasebuffer_handle
    <2> QED
      BY <1>2, <2>1, MovesKeepIInv
  <1>3. ASSUME NEW t \in Importers,
               ImportUnknownFormat(t) \/ rga_import_buffers(t) \/ rga_release_buffers(t)
        PROVE  IInv'
    BY <1>3, BufferStepKeepsIInv
  <1>4. CASE UNCHANGED bufVars
    BY <1>4 DEF bufVars, vars, session, IInv, TypeOK, LockInv, FdInv, DriverInv, UsingInv,
       InfoInv, Described, MapInv
  <1> QED
    BY <1>1, <1>2, <1>3, <1>4 DEF BufNext

\* Every reachable state satisfies the inductive invariant.
LEMMA SpecIInv == BufSpec => []IInv
  BY InitIInv, NextIInv, PTL DEF BufSpec

-----------------------------------------------------------------------------
\* A thread that was given the session works on an open descriptor of a known
\* driver until it leaves, although it holds no lock, and get_debug_state is
\* never given the error pointer it does not test for.
THEOREM SessionIsUsable == BufSpec => []SessionStaysUsable
  <1>1. IInv => SessionStaysUsable
    BY NullAssumption, FdsAssumption
    DEF IInv, TypeOK, LockInv, FdInv, DriverInv, UsingInv, SessionStaysUsable
  <1> QED
    BY <1>1, SpecIInv, PTL

\* However often the initialisation fails, and whoever repeats it, no descriptor
\* of /dev/rga is left open and none is opened twice.
THEOREM DescriptorsKept == BufSpec => []NoDescriptorLeak
  <1>1. IInv => NoDescriptorLeak
    BY MappedOpen DEF IInv, FdInv, NoDescriptorLeak
  <1> QED
    BY <1>1, SpecIInv, PTL

\* The capabilities of a published session are those of the cores it reports.
THEOREM InfoIsOfCores == BufSpec => []InfoMatchesCores
  <1>1. IInv => InfoMatchesCores
    BY MappedOpen DEF IInv, InfoInv, Described, InfoMatchesCores
  <1> QED
    BY <1>1, SpecIInv, PTL

\* For every release, driver and header file: what is accepted is of the
\* release's own epoch.
THEOREM VersionsAgree == BufSpec => []VersionsMatch
  <1>1. IInv => VersionsMatch
    <2> SUFFICES ASSUME IInv PROVE VersionsMatch
      OBVIOUS
    <2>1. librga \in Releases /\ driver_verison \in rga_version_t
      BY VersionsAssumption DEF IInv, TypeOK, Versions, rga_version_t
    <2>2. DriverNotTooNew
      <3>1. HasSession => rga_check_driver(librga, driver_verison)
        BY MappedOpen DEF IInv, DriverInv
      <3> QED
        BY <2>1, <3>1, AcceptedDriver DEF DriverNotTooNew
    <2> QED
      BY <2>1, <2>2, HeadersMatch DEF VersionsMatch
  <1> QED
    BY <1>1, SpecIInv, PTL

\* A handle that was given out is mapped through the descriptor of the session,
\* and a thread that was refused one left nothing behind.
THEOREM HandlesAreGood == BufSpec => []HandlesAreMapped
  <1>1. IInv => HandlesAreMapped
    <2> SUFFICES ASSUME IInv, loaded, NEW t \in Importers
                 PROVE  {m \in mapped : m[2] = t} =
                          IF handle[t] = Valid THEN {<<rga_dev_fd, t>>} ELSE {}
      BY DEF HandlesAreMapped
    <2>1. \A m \in mapped : m = <<m[1], m[2]>> /\ m[1] = rga_dev_fd /\ handle[m[2]] = Valid
      BY DEF IInv, MapInv
    <2>2. handle[t] = Valid => <<rga_dev_fd, t>> \in mapped
      BY DEF IInv, MapInv
    <2> QED
      BY <2>1, <2>2
  <1> QED
    BY <1>1, SpecIInv, PTL

\* Nothing writes the session while a thread that was given it is inside.
THEOREM SessionIsNotRewritten == BufSpec => SessionIsFinal
  <1>1. ASSUME IInv, [BufNext]_bufVars, NEW t \in Threads, pc[t] \in Using
        PROVE  UNCHANGED session
    <2>1. writer = Null
      BY <1>1 DEF IInv, UsingInv
    <2>2. ASSUME NEW u \in Threads PROVE pc[u] \notin Writing
      <3>1. writer # u
        BY <2>1, NullAssumption
      <3> QED
        BY <1>1, <3>1 DEF IInv, LockInv
    <2>3. ~Unload
      BY <1>1 DEF Unload, Using
    <2>4. \A u \in Threads : ~InitStep(u)
      BY <2>2 DEF InitStep, DeviceOpen, DriverVersion, HwVersion, CompatVersion, CheckDriver,
         GetInfo, Writing
    <2>5. \A u \in Threads : CallApi(u) \/ Inside(u) => UNCHANGED session
      BY <2>4 DEF CallApi, Inside, Lookup, Relock, GetDebugState, DebugDone, SubmitIoctl, QueryString
    <2>6. \A u \in Importers : \/ importbuffer(u) \/ ImportUnknownFormat(u) \/ rga_import_buffers(u)
                               \/ releasebuffer_handle(u) \/ rga_release_buffers(u)
                               => UNCHANGED session
      BY DEF importbuffer, ImportUnknownFormat, rga_import_buffers, releasebuffer_handle,
         rga_release_buffers, vars
    <2> QED
      BY <1>1, <2>3, <2>5, <2>6 DEF BufNext, SessionStep, bufVars, vars
  <1>2. IInv /\ [BufNext]_bufVars => [(\E t \in Threads : pc[t] \in Using) => UNCHANGED session]_vars
    BY <1>1
  <1> QED
    BY <1>2, SpecIInv, PTL DEF BufSpec, SessionIsFinal
=============================================================================
