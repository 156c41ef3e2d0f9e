----------------------------- MODULE Im2dSession -----------------------------
(***************************************************************************)
(* The im2d session of im2d_api/src/im2d_context.cpp: one process-wide     *)
(* rga_session_t that the first caller of get_rga_session initialises      *)
(* under a writer lock and every later caller finds through the reader     *)
(* lock.  A caller keeps the pointer and reads the session's fields with   *)
(* no lock at all.                                                         *)
(*                                                                         *)
(* rga_task_submit calls get_debug_state, which looks the session up a     *)
(* second time and uses the result without testing it for an error;        *)
(* querystring tests it for NULL, which get_rga_session never returns.     *)
(***************************************************************************)
EXTENDS Im2dVersion, FiniteSets

CONSTANTS Threads,      \* application threads
          Fds,          \* descriptors open("/dev/rga") can return
          MergedCores,  \* cores rga_get_info finds a table for by number
          StringCores,  \* cores it knows only by their version string
          UnknownCores, \* cores it does not know
          CoreLists,    \* what the hardware version ioctls can report
          Releases,     \* versions of librga the tables have rows for
          Drivers,      \* versions the driver can report
          Headers,      \* versions in the header file an application was built with
          Null          \* no thread

Cores == MergedCores \cup StringCores \cup UnknownCores
ASSUME NullAssumption == Null \notin Threads
\* The process has a standard input: open() never returns 0, which the test
\* rga_dev_fd > 0 would take for "no session".
ASSUME FdsAssumption == Fds \subseteq Nat \ {0}
ASSUME CoresAssumption ==
  /\ CoreLists \subseteq Seq(Cores) \ {<<>>} /\ "V_ERR" \notin Cores
  /\ MergedCores \cap (StringCores \cup UnknownCores) = {}
  /\ StringCores \cap UnknownCores = {}

\* The tables know no release before 1.0.3: their row 0.0.0 gives an empty range.
\* A header file packs its version into one 32 bit word, a byte for each number.
ASSUME VersionsAssumption ==
  /\ Releases \subseteq {v \in (0..255) \X (0..255) \X (0..255) :
                          rga_version_compare(v, <<1, 0, 3>>) >= 0}
  /\ Drivers \subseteq rga_version_t
  /\ \A h \in Headers : h \in Nat /\ h \div 2^24 < 2^8

VARIABLES
  librga,          \* RGA_SET_CURRENT_API_VERSION of the build
  writer,          \* thread that holds rwlock for writing, or Null
  rga_dev_fd,      \* session->rga_dev_fd
  core_version,    \* session->core_version
  driver_verison,  \* session->driver_verison
  driver_type,     \* session->driver_type
  user_close_fence,\* session->driver_feature & RGA_DRIVER_FEATURE_USER_CLOSE_FENCE
  hardware_info,   \* session->hardware_info: the tables merged into it
  fds,             \* open /dev/rga descriptors
  fd,              \* the local fd of rga_device_init (one: it runs locked)
  loaded,          \* the library has not been unloaded
  pc,              \* where thread t is
  caller           \* caller[t]: who called get_rga_session

session == <<rga_dev_fd, core_version, driver_verison, driver_type,
             user_close_fence, hardware_info>>
vars == <<librga, writer, session, fds, fd, loaded, pc, caller>>

\* 0.0.0 of the static storage, and what the driver reported.
Versions == Drivers \cup {<<0, 0, 0>>}
DriverTypes == {"UNKONW", "RGA1", "RGA2", "MULTI_RGA"}
Writing == {"open", "driver", "hw", "compat", "check", "info"}
Using == {"submit", "debug", "ioctl", "query", "import", "release"}
Callers == {"submit", "debug", "query", "import", "release"}
PCs == {"idle", "lookup", "relock", "crash"} \cup Using \cup Writing

\* librga_init runs when the library is loaded.
Init ==
  /\ librga \in Releases
  /\ writer = Null
  /\ rga_dev_fd = -1 /\ core_version = <<>> /\ driver_verison = <<0, 0, 0>>
  /\ driver_type = "UNKONW" /\ user_close_fence = FALSE /\ hardware_info = {}
  /\ fds = {} /\ fd = -1
  /\ loaded = TRUE
  /\ pc = [t \in Threads |-> "idle"]
  /\ caller = [t \in Threads |-> "submit"]

Goto(t, label) == pc' = [pc EXCEPT ![t] = label]

\* get_rga_session returns the session, or ERR_PTR(IM_STATUS_NO_SESSION), which
\* most entry points return to the application, while get_debug_state and
\* querystring dereference it.
Found(t) == Goto(t, caller[t])
NoSession(t) == Goto(t, IF caller[t] \in {"debug", "query"} THEN "crash" ELSE "idle")

\* rga_task_submit, for every entry point that returns IS_ERR(session), or
\* querystring.
CallApi(t) ==
  /\ pc[t] = "idle" /\ loaded
  /\ Goto(t, "lookup")
  /\ \E c \in {"submit", "query"} : caller' = [caller EXCEPT ![t] = c]
  /\ UNCHANGED <<writer, session, fds, fd, loaded>>

HasSession == rga_dev_fd > 0

\* The fast path: read under the reader lock.
Lookup(t) ==
  /\ pc[t] = "lookup" /\ writer = Null
  /\ IF HasSession THEN Found(t) ELSE Goto(t, "relock")
  /\ UNCHANGED <<writer, session, fds, fd, loaded, caller>>

\* Defect: the descriptor is not looked at again under the writer lock.
Relock_NoRecheck(t) ==
  /\ pc[t] = "relock" /\ writer = Null
  /\ writer' = t /\ Goto(t, "open")
  /\ UNCHANGED <<session, fds, fd, loaded, caller>>

\* The slow path: the same test under the writer lock, which is kept while the
\* session is initialised.
Relock(t) ==
  /\ pc[t] = "relock" /\ writer = Null
  /\ IF HasSession THEN Found(t) /\ UNCHANGED writer
                   ELSE writer' = t /\ Goto(t, "open")
  /\ UNCHANGED <<session, fds, fd, loaded, caller>>

Unlock == writer' = Null
\* Defect: an error return that forgets the descriptor.
CloseAndFail_Leaks(t) == UNCHANGED fds /\ Unlock /\ NoSession(t)
\* close(fd) and the way out of rga_device_init.
CloseAndFail(t) == fds' = fds \ {fd} /\ Unlock /\ NoSession(t)

DeviceOpen(t) ==
  /\ pc[t] = "open"
  /\ \/ \E f \in Fds \ fds : /\ fds' = fds \cup {f} /\ fd' = f
                             /\ Goto(t, "driver") /\ UNCHANGED writer
     \/ Unlock /\ NoSession(t) /\ UNCHANGED <<fds, fd>>
  /\ UNCHANGED <<session, loaded, caller>>

\* RGA_IOC_GET_DRVIER_VERSION; a driver without it is tried in the old way.
DriverVersion(t) ==
  /\ pc[t] = "driver"
  /\ \/ (\E v \in Drivers : driver_verison' = v) /\ Goto(t, "hw")
     \/ Goto(t, "compat") /\ UNCHANGED driver_verison
  /\ UNCHANGED <<writer, rga_dev_fd, core_version, driver_type, user_close_fence,
                 hardware_info, fds, fd, loaded, caller>>

\* RGA_IOC_GET_HW_VERSION
HwVersion(t) ==
  /\ pc[t] = "hw"
  /\ \/ /\ \E l \in CoreLists : core_version' = l
        /\ driver_type' = "MULTI_RGA"
        /\ Goto(t, "check") /\ UNCHANGED <<writer, fds>>
     \/ CloseAndFail(t) /\ UNCHANGED <<core_version, driver_type>>
  /\ UNCHANGED <<rga_dev_fd, driver_verison, user_close_fence, hardware_info, fd, loaded, caller>>

\* RGA2_GET_VERSION, then RGA_GET_VERSION: one core, and its major number
\* tells RGA1 from RGA2.
CompatVersion(t) ==
  /\ pc[t] = "compat"
  /\ \/ /\ \E c \in Cores, d \in {"RGA1", "RGA2"} : core_version' = <<c>> /\ driver_type' = d
        /\ Goto(t, "check") /\ UNCHANGED <<writer, fds>>
     \/ CloseAndFail(t) /\ UNCHANGED <<core_version, driver_type>>
  /\ UNCHANGED <<rga_dev_fd, driver_verison, user_close_fence, hardware_info, fd, loaded, caller>>

\* rga_check_driver, set_driver_feature, and the descriptor is stored.
CheckDriver(t) ==
  /\ pc[t] = "check"
  /\ \/ /\ rga_check_driver(librga, driver_verison)
        /\ user_close_fence' = (\/ user_close_fence
                                \/ RGA_DRIVER_FEATURE_USER_CLOSE_FENCE(driver_verison))
        /\ rga_dev_fd' = fd
        /\ Goto(t, "info") /\ UNCHANGED <<writer, fds>>
     \/ /\ ~rga_check_driver(librga, driver_verison)
        /\ CloseAndFail(t) /\ UNCHANGED <<user_close_fence, rga_dev_fd>>
  /\ UNCHANGED <<core_version, driver_verison, driver_type, hardware_info, fd, loaded, caller>>

CoresOf(l) == {l[i] : i \in 1..Len(l)}

\* rga_get_info(version, table): the table of every core is merged into what
\* the session has.  A core without a table replaces everything by the table
\* found through the version string of the first core, or by the error table.
MergesAll(l) == CoresOf(l) \subseteq MergedCores
rga_get_info_ok(l) == MergesAll(l) \/ l[1] \in StringCores
\* Defect: a failed lookup leaves the tables merged so far in the session.
rga_get_info_Partial(l, info) ==
  CASE MergesAll(l)         -> info \cup CoresOf(l)
    [] l[1] \in StringCores -> {l[1]}
    [] OTHER                -> info \cup (CoresOf(l) \cap MergedCores)
rga_get_info(l, info) ==
  CASE MergesAll(l)         -> info \cup CoresOf(l)
    [] l[1] \in StringCores -> {l[1]}
    [] OTHER                -> {"V_ERR"}

\* Defect: the failed initialisation leaves the descriptor in the session.
rga_device_exit_KeepsFd == fds' = fds \ {rga_dev_fd} /\ driver_type' = "UNKONW"
                           /\ user_close_fence' = FALSE /\ UNCHANGED rga_dev_fd
rga_device_exit ==
  IF rga_dev_fd < 0
  THEN UNCHANGED <<fds, rga_dev_fd, driver_type, user_close_fence>>
  ELSE /\ fds' = fds \ {rga_dev_fd} /\ rga_dev_fd' = -1
       /\ driver_type' = "UNKONW" /\ user_close_fence' = FALSE

\* The second half of rga_session_init.
GetInfo(t) ==
  /\ pc[t] = "info"
  /\ hardware_info' = rga_get_info(core_version, hardware_info)
  /\ Unlock
  /\ IF rga_get_info_ok(core_version)
     THEN Found(t) /\ UNCHANGED <<fds, rga_dev_fd, driver_type, user_close_fence>>
     ELSE rga_device_exit /\ NoSession(t)
  /\ UNCHANGED <<core_version, driver_verison, fd, loaded, caller>>

\* rga_task_submit goes on to get_debug_state and is_debug_en.
GetDebugState(t) ==
  /\ pc[t] = "submit"
  /\ Goto(t, "lookup")
  /\ caller' = [caller EXCEPT ![t] = "debug"]
  /\ UNCHANGED <<writer, session, fds, fd, loaded>>

\* They take the lock once more, to update and to read is_debug.
DebugDone(t) ==
  /\ pc[t] = "debug" /\ writer = Null
  /\ Goto(t, "ioctl")
  /\ UNCHANGED <<writer, session, fds, fd, loaded, caller>>

\* ioctl(session->rga_dev_fd, ...), chosen by driver_type, without the lock.
SubmitIoctl(t) ==
  /\ pc[t] = "ioctl"
  /\ Goto(t, "idle")
  /\ UNCHANGED <<writer, session, fds, fd, loaded, caller>>

\* querystring reads hardware_info and core_version, without the lock.
QueryString(t) ==
  /\ pc[t] = "query"
  /\ Goto(t, "idle")
  /\ UNCHANGED <<writer, session, fds, fd, loaded, caller>>

\* librga_exit_destructor, when nobody is inside the library any more.
Unload ==
  /\ loaded /\ \A t \in Threads : pc[t] = "idle"
  /\ loaded' = FALSE
  /\ hardware_info' = {}
  /\ rga_device_exit
  /\ UNCHANGED <<writer, core_version, driver_verison, fd, pc, caller>>

InitStep(t) == \/ DeviceOpen(t) \/ DriverVersion(t) \/ HwVersion(t) \/ CompatVersion(t)
               \/ CheckDriver(t) \/ GetInfo(t)
Inside(t) == \/ Lookup(t) \/ Relock(t) \/ InitStep(t)
             \/ GetDebugState(t) \/ DebugDone(t) \/ SubmitIoctl(t) \/ QueryString(t)

\* A thread that dereferences the error pointer takes the process with it.
Alive == \A t \in Threads : pc[t] # "crash"
Next == /\ Alive
        /\ Unload \/ \E t \in Threads : CallApi(t) \/ Inside(t)
        /\ UNCHANGED librga
Spec == Init /\ [][Next]_vars

-----------------------------------------------------------------------------
(* Properties                                                              *)

\* Types of every variable; the writer lock is held exactly while a thread
\* initialises the session, so every error path of the initialisation unlocks.
TypeOK ==
  /\ librga \in Releases
  /\ writer \in Threads \cup {Null}
  /\ rga_dev_fd \in Fds \cup {-1} /\ fd \in Fds \cup {-1} /\ fds \subseteq Fds
  /\ core_version \in CoreLists \cup {<<c>> : c \in Cores} \cup {<<>>}
  /\ driver_verison \in Versions /\ driver_type \in DriverTypes
  /\ user_close_fence \in BOOLEAN /\ loaded \in BOOLEAN
  /\ hardware_info \subseteq Cores \cup {"V_ERR"}
  /\ pc \in [Threads -> PCs] /\ caller \in [Threads -> Callers]
  /\ \A t \in Threads : pc[t] \in Writing <=> writer = t

\* A thread that was given the session works on an open descriptor and a known
\* driver for as long as it stays inside, although it holds no lock; and the
\* second lookup of one rga_task_submit never fails, for get_debug_state does
\* not test the pointer it gets from get_rga_session.  The write lock is with a
\* thread that is still initialising, whatever failed.
SessionStaysUsable ==
  /\ \A t \in Threads : pc[t] \in Using =>
       rga_dev_fd \in fds /\ driver_type # "UNKONW"
  /\ \A t \in Threads : caller[t] = "debug" => pc[t] # "crash"
  /\ writer # Null => pc[writer] \in Writing

\* The developer guide says of querystring that it "Returns a string describing
\* properties of RGA"; it is not to dereference the error pointer instead.
QuerystringReturns == \A t \in Threads : caller[t] = "query" => pc[t] # "crash"

\* Outside the initialisation the only open descriptor is the session's: a
\* failed initialisation closes its own, and a good one opens once.
NoDescriptorLeak ==
  writer = Null => fds = IF rga_dev_fd < 0 THEN {} ELSE {rga_dev_fd}

\* What a published session claims to support comes from the cores it reports,
\* whatever an earlier, failed attempt left in hardware_info (the error table
\* has no capabilities).
InfoMatchesCores ==
  HasSession /\ writer = Null =>
    hardware_info \ {"V_ERR"} =
      IF MergesAll(core_version) THEN CoresOf(core_version) ELSE {core_version[1]}

\* A published session never runs a driver that a release newer than this one
\* introduced: no row of the table that lies ahead of the library asks for a
\* minimum the driver meets.  rga_version_check looks at the library's own row
\* and its successor only, and the version may be left from a failed attempt.
DriverNotTooNew ==
  HasSession =>
    \A i \in DOMAIN user_driver_bind_table :
      LET row == user_driver_bind_table[i]
      IN  rga_version_compare(row.current, librga) > 0
          => rga_version_compare(driver_verison, row.minimum) < 0

\* The lexicographic order, as a number, for versions the word of a header holds.
Weight(v) == (v[1] * 2^8 + v[2]) * 2^8 + v[3]
\* imcheckHeader accepts the header files of the library's own row, and those
\* only: never one the library would answer with "must to be updated", or one
\* older than the row.  The header the release was built with is among them.
HeaderOfSameEpoch ==
  LET Epoch(n) == {i \in DOMAIN user_header_bind_table :
                     Weight(user_header_bind_table[i].minimum) <= n}
  IN  /\ \A h \in Headers :
           imcheckHeader(librga, h) <=> Epoch(h \div 2^8) = Epoch(Weight(librga))
      /\ imcheckHeader(librga, Weight(librga) * 2^8)

\* A release works with the drivers and the header files of its own epoch.  The
\* header check has no state: the states in which no thread is inside are enough.
VersionsMatch ==
  /\ DriverNotTooNew
  /\ (\A t \in Threads : pc[t] = "idle") => HeaderOfSameEpoch

\* The fields are read without the lock, so nothing may write them as long as a
\* thread that was given the session is inside: a second initialisation would be
\* a race on the descriptor the thread submits to.
SessionIsFinal ==
  [][(\E t \in Threads : pc[t] \in Using) => UNCHANGED session]_vars
=============================================================================
