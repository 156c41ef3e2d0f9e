# A TLA+ model of librga

librga is the user-space side of Rockchip's 2D accelerator (RGA). An
application describes a copy, scale, rotation, blend, fill or colour conversion;
the library checks it against what the cores of the chip can do, turns it into
the driver's request structure and hands it over with an `ioctl`. There are two
interfaces: the deprecated one (`RockchipRga`, `RgaBlit`, ...; `core/`) and im2d
(`im2d_api/`). Both keep process-wide state that any thread may use.

Source paths below are relative to the repository; `impl` stands for
`im2d_api/src/im2d_impl.cpp`, `im2d` for `im2d_api/src/im2d.cpp`, `context` for
`im2d_api/src/im2d_context.cpp`, `normal` for `core/NormalRga.cpp`.

## 1. Inventory

| Part | State | Operations | What is hard | What makes it correct |
|---|---|---|---|---|
| Legacy context (normal 40-268) | `rgaCtx`, `refCount`, `active_operations`, `context_closing`, one mutex, one condition variable | `RgaInit`, `RgaDeInit`, the guard `RgaContextUse` around every drawing call | drawing calls hold no reference; the last close waits for them while opens wait for the close, on one condition variable; a fresh open fails at five places with the mutex held | nobody touches a freed context; nothing leaks; every sleeper is woken |
| `RockchipRga` objects (`core/RockchipRga.cpp`) | `mSupportRga`, `mContext` per object | constructor, `RkRgaInit`, `RkRgaDeInit`, destructor | the sequence of these calls, with several objects sharing the context | an object that says it is ready has a live context; destroyed objects leave nothing |
| im2d session (context) | `rga_dev_fd`, versions, driver type, `hardware_info`, a read-write lock | `get_rga_session`, `rga_session_init`, `get_debug_state`, destructor | double-checked locking; fields are used after the lock is gone; initialisation fails half way and is tried again | one initialisation; a published session never changes; no descriptor is lost |
| Job manager (`im2d_job.cpp`, impl 2300-2576) | `job_map`, `job_count`, the jobs, a mutex; in the driver the request ids | `imbeginJob`, the task calls, `imcancelJob`, `imendJob`, `rga_job_config` | map and driver change in two steps; the driver reuses ids; the driver reads a job while others may end it; any thread may use any handle | each job has one owner, is freed once, and is not changed while it is read |
| Fences (`core/rga_sync.cpp`, im2d, impl 2342-2362) | descriptors: who closes them, what they wait for | `improcess`, `RgaBlit`, the array calls, `immakeBorder`, `imsync`, `rga_sync_merge` | a call of several submissions fails in the middle; descriptor numbers are reused; the driver or the library closes, depending on the version | the caller's fence covers all the work; the steps of one call run in order; nobody closes what he does not own |
| Capability tables (`im2d_hardware.h`, impl 76-106, 454-749) | constant tables | `rga_get_info` merges the tables of the cores | the merged table must not promise what no core has | sound merge |
| DRM buffers of the class (`core/RockchipRga.cpp` 148-254) | a `bo_t` each: card descriptor, handle, mapping | allocate, free, map, unmap | each call fails half way; the application frees after a failure, or twice | each `bo_t` closes the card it opened and nothing else |
| Buffer import (im2d 136-183, impl 1411-1515) | none of its own; in the driver the mapped buffers | `importbuffer_*`, `releasebuffer_handle` | a handle belongs to the descriptor it came through | a handle stays mapped as long as the library is loaded |
| Versions (impl 118-386, 751-785, `im2d_hardware.h`) | two constant tables | driver check, `imcheckHeader` | one row and its successor decide | no driver newer than the release knows, no header of another epoch |
| Check (impl 388-1409) | none | `rga_check`, `imcheck` | two callers, two orders of preparation | the submit path is never laxer than `imcheck` |
| Colour selection (impl 1641-1796, 2115-2207, 3528-3582) | none | `rga_get_csc_mode`, `rga_task_submit`, `generate_blit_req` | modes of three buffers are ORed into one register in three places | the request converts from the source's space to the destination's |
| Request generation (impl 1798-2379, 2578-4521) | none | `rga_task_submit`, `generate_*_req`, `NormalRgaCompatModeConvertRga2` | rotation moves windows and swaps sizes, scale limits depend on it | the pixels touched are those the caller named |
| Registers (`core/NormalRgaApi.cpp`, impl 2700-2972, 3285-3683) | none | address, MMU, alpha, logic and dither setters | features share two words; five tests decide one MMU flag | the operands and features of the call are in the request |
| im2d functions (im2d 901-2187, `im2d_single.h`) | none | `imcopy` ... `immakeBorder`, their tasks and C macros | three copies of each; pictures made of several submissions | the copies agree; the picture is the documented one |
| `querystring` (im2d 436-821) | a static string without a lock | the report line by line | two callers meet in the string; lines read several lists | the report agrees with what the check accepts |
| DRM descriptions (`core/utils/drm_utils`, im2d 271-290) | a table | `wrapbuffer_handle` with fourcc and modifier | two byte orders; a refusal is a structure of zeros | the driver reads the bytes DRM named |
| Legacy drawing (normal 433-2466) | none | `RgaBlit`, `RgaCollorFill`, `RgaCollorPalette` | a second copy of the same thousand lines | both copies make the same request |

Interaction: a legacy drawing call enters the context with `RgaContextUse`, makes
its request and uses the context's descriptor. An im2d call looks the session up,
checks against `hardware_info`, generates the request and either sends it on the
session's descriptor or appends it to a job; `immakeBorder` and the array calls
are sequences of such calls tied together by fences. The two interfaces share no
state but the driver.

Components that are not modelled are listed with the reason in `PROJECT.json`:
Android allocators, text and logging, the C wrappers, vendored headers, samples,
tests and packaging. Inside the modelled parts the numbers of OSD, mosaic,
quantisation and Gaussian parameters and the Android branches are left out.

## 2. Modules

| Module | Models | Proved about in |
|---|---|---|
| `RgaDevice` | what the legacy context promises: open, in use, closing, shut | |
| `RgaContext` | `NormalRgaOpen`, `NormalRgaClose`, `RgaInit`, `RgaDeInit`, `RgaContextUse`; refines `RgaDevice` | `RgaContextProofs` |
| `RockchipRga` | the class; composes its objects with `RgaContext` (EXTENDS) | `RockchipRgaProofs` |
| `RgaBo` | the DRM buffers of the class (composed with it in `RockchipRga`) | `RockchipRgaProofs` |
| `Im2dVersion` | the version tables and the check against them | `Im2dSessionProofs` |
| `Im2dSession` | `im2d_context.cpp` and its users, over `Im2dVersion` | `Im2dSessionProofs` |
| `Im2dBuffers` | import and release of buffers, over `Im2dSession` | `Im2dSessionProofs` |
| `Im2dJob` | `im2d_job.cpp` and the job functions of impl | `Im2dJobProofs` |
| `Im2dJobList` | the linked list a C build keeps instead of the map, over `Im2dJob` | `Im2dJobListProofs` |
| `Im2dFences` | fence ownership over the calls that make or take one | `Im2dFencesProofs` |
| `Im2dHardware` | `hw_info_table`, `rga_get_info`, `rga_support_info_merge_table` | `Im2dRequestProofs`, `Im2dApiProofs` |
| `Im2dCheck` | `rga_check` and its parts, over `Im2dHardware` | `Im2dRequestProofs` |
| `RgaRegisters` | addresses, MMU flags and feature registers of a request, over `Im2dCheck` | `Im2dRequestProofs` |
| `Im2dCsc` | colour modes, over `Im2dCheck` | `Im2dRequestProofs` |
| `Im2dRequest` | `rga_task_submit`: a call, its check, its request, the driver's answer; composes all of these | `Im2dRequestProofs` |
| `RgaLegacy` | `RgaBlit` and its kin, on the same calls and devices | `Im2dRequestProofs`, `Im2dApiProofs` |
| `Im2dApi` | the im2d functions, tasks and macros, down to `rga_task_submit` | `Im2dApiProofs` |
| `Im2dQuery` | `querystring`, beside `Im2dApi` | `Im2dApiProofs` |
| `Im2dDrm` | buffers described by a DRM fourcc and modifier, over `Im2dApi` | |
| `MC...` | constants for TLC | |

How state and steps correspond to the code:

* **RgaContext.** A variable per global; per thread its program point `pc`, its
  local `ctx`, its `void *context` and a history variable `owned` (the thread has
  been counted and has not released). Code that runs under `mMutex` without
  releasing it is one action. The mutex is explicit in the fresh open, which keeps
  it over `malloc`, `open` and the version ioctls, each of which may fail.
  `waiters` is the set asleep on `context_idle`; a woken thread still has to get
  the mutex, and may wake for no reason, as POSIX allows. Addresses and descriptors are reused.
* **RockchipRga.** Each thread in `Objects` has an object of its own; other
  threads draw. Operations on one object do not overlap.
* **RgaBo.** A variable per field of a `bo_t`, the open descriptors, the kernel's
  dumb buffers and the mappings. The application zeroes a `bo_t`, so that it names
  descriptor 0 until it is allocated, and allocates only into one without a buffer.
* **Im2dSession.** `writer` is the holder of the write lock; readers take and
  release it in one step. Every ioctl of the initialisation is a step that may
  fail. Core lists contain merged cores, cores known by their version string only,
  and unknown ones. The driver's version is what the device reports, and the check
  on it is `rga_check_driver` of `Im2dVersion`; the release is a constant of the
  behaviour, so that older rows of the tables are met as well. The destructor runs
  when no thread is inside.
* **Im2dBuffers.** `mapped` is the driver's table of buffers per descriptor; the
  import and the release look the session up like every other user.
* **Im2dJob.** `job_map` and the driver's `requests` side by side; the ioctl in
  `rga_job_config` runs under the mutex, the ones of cancel and submit do not, and
  each is its own action. Threads use any handle, their own or not, ended or not.
  `OwnedHandles` are those which the application ends once; the others are misused
  freely. `Im2dJobList` conjoins to each step that enters or removes a handle what
  `rga_map_insert_job` or `rga_map_delete_job` does to the list under the same mutex.
* **Im2dFences.** `owner[f]` is who will close descriptor `f`, `covers[f]` the
  unfinished tasks it waits for. The rest of the process opens and closes
  descriptors at any time, so a freed number is at once somebody else's. The
  driver finishes tasks in any order that respects acquire fences. The driver is
  the multi-core one, before and since version 1.3.0.
* **Im2dRequest, RgaLegacy.** One behaviour is one call: `ImCheck` (the application
  asks `imcheck`) or `LegacyBegin`, then `Process` or `LegacyProcess` (refused by the
  library, or sent and taken or refused by the driver), then `Return`. The work is
  in operators translated from the functions of the same names. A format is its
  row of `FormatTable`, an address is its kind, a colour mode is its three
  bit-fields, a request is the record of windows, turn, interpolation,
  conversion registers and `reg`, the addresses and feature words of
  `RgaRegisters`. In an address field stands which operand it came from. Scales are compared by cross-multiplication; where the
  code divides integers or compares a float with a double constant, the operator
  does what that comparison does.

* **Im2dApi.** A call names a function, the way it is called (function, task or
  macro), how many optional arguments it is given, and its arguments. `Plan`
  turns it into the submissions the function makes, or its refusal; each is then a
  `Process` of `Im2dRequest`, and the first that fails ends the call. So does a fence
  that is not above 0 where `immakeBorder` looks at it (`LooksAtFence`), with success;
  of the fences only this is in the module (`FenceAboveZero`). `Picture` is
  what the requests that were sent paint, pixel by pixel and in order.
* **Im2dQuery.** A thread goes through `querystring` line by line. An assignment to
  the static string that meets another one leaves any text; the thread's `clash`
  remembers it. Queries are explored while no drawing call runs: they share only
  `hardware_info`, which does not change.

The operators named `X_Something` next to `X`, with a comment that begins
"Defect:", are `X` with a plausible slip; `PROJECT.json` pairs each property with
one that it detects.

## 3. Runs

| Run | Checks | Shows | States |
|---|---|---|---|
| `context` | `TypeOK`, `NoUseAfterFree`, `HolderKeepsContext`, `NoLeak`, `NeverCloseBeforeInit`, `ImplementsDevice`, `CloseFinishes`, `OpenIsWoken` | three threads open, draw and close in every interleaving with every failure: the context is safe, refines `RgaDevice`, a draining close ends and an open behind it is woken | 205 218 |
| `rockchip_rga` | `ReadyHoldsContext`, `NothingLeftBehind`, `BoOwnsItsCard` | one object in any order of calls, beside drawing threads; two DRM buffers allocated, mapped and freed in any order with every failure | 72 610 |
| `rockchip_rga_two` | `NeverCloseBeforeInit` (violated) | with two objects, `RkRgaDeInit` and then the destructor of one releases the other's reference, and a close reaches the branch the code logs as "This can not be happened" | |
| `session` | `SessionStaysUsable`, `NoDescriptorLeak`, `InfoMatchesCores`, `VersionsMatch`, `HandlesAreMapped`, `SessionIsFinal` | three threads find no session, initialise, fail, retry, submit, import and release; the destructor runs between | 1 240 193 |
| `session_query` | `QuerystringReturns` (violated) | `querystring` tests for NULL and dereferences the error pointer | |
| `job` | `TypeOK`, `JobsAccounted`, `JobNotFreedWhileRead`, `MapBacked`, `FreshHandle`, `ListIsMap`, `TasksFixedWhileRead` | three threads create, fill, configure, cancel and submit jobs under three handles, with the map and the list side by side | 597 456 |
| `fences` | `ResultCovers`, `AcquireConsumed`, `BorderOrder`, `NoForeignClose` | every call with a fence, every failure, a second call chained behind the first | 971 702 |
| `fences_close` | `FencesClosed` (violated) | the array calls never close the fences they merged, although `rga_sync.h` says the caller has to | |
| `requests` | `AcceptedIsChecked`, `MergeSound`, `WindowsFit`, `OperandsReached`, `FeaturesCarried`, `InterpFitsScale`, `ConversionExact`, `LegacyAgrees`, `TwinsAgree`, `DrawsWhatItSays`, `ReportTrue`, `DrmSourceKept` | calls of every kind on nine devices, through both interfaces and every form of the API, and two threads that ask `querystring` | 487 558 |
| `border_fence` | `BorderDrawn` (violated) | on an older driver `immakeBorder` reads 0 as the fence of the copy and returns success without a border | |
| `request_source` | `SuccessSendsTask` (violated) | a source without an address gives an all-zero request and success | |
| `request_csc` | `UnsupportedIsRefused` (violated) | the conversion BT.709 full to limited, marked "not support", is dropped silently | |

The six violated properties are the entries of "findings", with the lines of
the repository they contradict.

**Bounds.** `context`: three threads are needed for the interesting case, one
closing, one drawing, one opening; two addresses let a freed one be reused while
an old pointer is held; the descriptor is a field of the context, so one is
enough. `rockchip_rga`: one object and two drawing threads, two objects for the
violation; two `bo_t` and two cards, so that one buffer can close the other's
card. `session`: three threads, so that one initialises while one waits for the
write lock and one reads, one of which also imports; two descriptors, so that a
second open shows; three releases (the first of the tables, one in the middle, the current one),
three drivers below, within and above their rows, three lists of cores.
`job`: three handles, the least for a list with a middle, and three jobs, so that a
submit holds a job out of the map whose handle is in use again; arrays of one task
instead of 256, so that the limit is met (with arrays of two, 1 969 169 states, the
same holds). `fences`: arrays of two items (one merge), two calls (a fence passed
from one to the next), eight descriptors, which the longest sequence of openings
cannot exhaust. `requests`: the families of `MCIm2dRequest` each vary one concern
(sizes at the limits of the cores, turns, rectangles inside, across and outside,
all pairs of formats, address kinds, strides that suit all or only some cores,
colour modes, interpolations, scales under a pattern, features alone and in pairs,
old option structures) on RK3588 with its cores listed in both orders, RK3576,
RK3399 on the older driver, RK3506 and four devices with cores the library does
not know by their version: two it knows by a version string ("2.00" on the second
driver, "1.3" on the first) and two it does not know at all. The product of two
concerns is checked where they meet in the code (turn and size, format and
rectangle, pattern and turn, pattern and scale, pattern and stride, blending and the
features that share its word), not everywhere. The
API calls use pictures of 8 by 8 pixels, which suits the strides of every core,
every number of optional arguments a macro takes, and borders with and
without each side, of every type; DRM calls use every fourcc of the table and one outside, every
modifier the code tells apart and unknown ones. `border_fence` makes the border calls
on the devices with an older driver.

**Symmetry** is used over threads (and handles or jobs that are treated alike)
in runs without liveness; importers and other threads are not
exchanged. **Deadlock** is not checked for the session only: a
process whose library is unloaded has stopped.

**Fairness** appears in `context`: weak fairness of `Inside(t)` for every thread
`t`, that is, a thread inside the library goes on. The code justifies it: between
entering and leaving there is no loop but the two condition waits, the critical
sections are finite, and the driver answers an ioctl. Nothing makes a thread call
the library, and nothing is assumed about which of several sleepers gets the mutex
first. `CloseFinishes` says a close that waits for operations to end does end,
with new operations being turned away meanwhile; `OpenIsWoken` says that an
open asleep behind it wakes up.

## 4. Proofs

| Module | Theorems | Lemmas | Obligations | Holds for every |
|---|---|---|---|---|
| `RgaContextProofs` | 7 | 6 | 751 | set of threads, contexts, descriptors |
| `RockchipRgaProofs` | 4 | 16 | 411 | set of threads, `bo_t` and cards; one object |
| `Im2dSessionProofs` | 6 | 21 | 793 | set of threads, descriptors, core lists, driver versions and releases |
| `Im2dJobProofs` | 7 | 7 | 455 | set of threads, handles, jobs; every size of array |
| `Im2dJobListProofs` | 2 | 10 | 574 | the same, over the list of a C build |
| `Im2dFencesProofs` | 4 | 42 | 1397 | set of descriptors, number of calls and of array items |
| `Im2dRequestProofs` | 7 | 102 | 3204 | call and device the types allow, in both interfaces |
| `Im2dApiProofs` | 5 | 109 | 3025 | call, device, array and picture the types allow |

**Assumptions.** Each is a named ASSUME of the module that declares the constant, and
TLC evaluates it in the runs:

* the counted sets are finite (`Threads` for the context, `Handles` for the jobs),
  `Null` is none of the values, `OwnedHandles` are handles, the size of an array is
  a natural number, a list node is not `Null` (`NodeAssumption`);
* descriptors are positive (`FdsAssumption`). The code itself takes descriptor 0 for
  no session (context 214); what happens when `open` returns it is noted in section 5;
* the numbers of a release are bytes and a header's version is one 32 bit word
  (`VersionsAssumption`; `RGA_GET_API_VERSION`), and the release is 1.0.3 or later:
  the tables know none before it, and their row 0.0.0 would give an empty range;
* a call has the types of the C structures (`CallsAssumption`): integers for sizes
  and offsets, negative ones included, any format, any colour mode of the field's
  width, any set of usage bits; the driver is one of the three kinds, and a device
  has at least one core (`DevicesAssumption`);
* a device on the first driver has none of the cores known by their number, and if
  the library knows its version string, that begins with 1.3 or 1.6
  (`FirstDriverAssumption`): the session takes the driver for the first one when its
  major number is below 2 (context 151), the same number the cores and strings
  are told apart by (impl 461-738);
* an API call names a function that exists, with a destination and rectangles of the C types
  (`ApiCallsAssumption`); its other arguments are not restricted.

Some theorems have a hypothesis of their own. `OneObject` (for those on the class): the
application has one object; with two, one can release the reference of the other, as
`rockchip_rga_two` shows. `OldDriversOldCores` (for `FeaturesAreCarried`): a device on an older driver has
no core with a feature whose parameters the older request has no field for. The
tables do not know the driver, so the code does not test this: on a device where
it failed, the feature would pass the check and be dropped from the request.
`DevicesOrdered` (for `MergedTableIsSound`): two cores of a device have the same
size, or one is larger than the other in width and in height, as an input and as an output; section 5 says
what the merge does otherwise. Both hold of every device of the run.

**Legacy context.** None of the properties is inductive: `NoUseAfterFree`, say,
needs to know that the published context is allocated, that the counters count,
and that a close waits. `IInv` is `TypeOK` with

* `LockInv`: a thread is in the fresh open exactly if it has the mutex, and then
  nothing is published;
* `HeapInv`: the heap and the open descriptors are exactly the published context's,
  or exactly what the fresh open has made so far;
* `CountInv`: `refCount` is the number of owners, `active_operations` the number
  of threads in an operation (this is where cardinalities enter: lemmas `Counting`
  and `CountFacts`);
* `CloseInv`: something is published exactly while there is a reference or a
  close in progress; one thread drains at most;
* `RefInv`: owners and users point at the published context.

From it follow `TypeCorrect`, `UseIsSafe`, `HoldersAreSafe`, `NothingLeaks`,
`CloseFindsReference`, `FreeIsLast` and `Refinement`: with the mapping device =
shut, closing or open, holders = owners, users = threads in an operation, every
step of `RgaContext` is a step of `RgaDevice` or leaves it alone.

**The class.** `ClassUsesContext` is proved first: with one object, every behaviour
of the class is one of `RgaContext`, so that all its theorems hold and its `IInv`
may be used. `ObjInv` then ties `mSupportRga` to `owned`: outside a call of its own
the object says it is ready exactly if its thread is counted. That gives
`ReadyObjectHoldsContext` and `DestructorReleases`. The buffers have an invariant of
their own (`CardInv`, `DumbInv`, `MapInv`: a card that was opened is named by one
`bo_t`), which gives `BuffersOwnTheirCards` for any number of objects.

**Session.** `IInv` is `TypeOK`, `LockInv` (the holder of the write lock is the thread
in the initialisation), `FdInv` (which descriptors are open at each of its steps),
`DriverInv`, `UsingInv`, `InfoInv` and `MapInv`. The double-checked lookup rests
on `UsingInv`: whoever was given the session, or comes back for it in
`get_debug_state`, finds a stored descriptor and no writer, and this is preserved
because a writer initialises only when nothing is stored. `InfoInv` needs one more
thing than the property says: a failed attempt may leave the error table in
`hardware_info`, and never more. `VersionsAgree` goes through the order of versions
(`Before` and its lemmas) and the two tables row by row.

**Jobs.** `IInv` is `TypeOK`, `OneOwner`, `NoJobLeak` and `JobCountExact`, which
are inductive only together (`JobsAccounted` is their conjunction), with `LockInv` (a thread in the configuration ioctl
has the mutex and its job is still mapped) and `LocalInv`. It gives `TypeCorrect`,
`CountCorrect`, `ReadersAreSafe`, `JobsAreOwned` and `ReadTasksAreFixed`. For
`MapIsBacked` and `HandlesAreFresh` a second invariant, `EndInv`, says that at most
one thread is at work between the library's and the driver's half of creating or
ending an owned handle, and that the driver still has the id while it is; this is
what rules out that the id is reissued too early.

**Job list.** `ListImplementsMap` makes the theorems on the map theorems on the C
build. `ListInv` says that pointers and ends agree (`LinkInv`), that the nodes are
the entries of the map (`ValueInv`) and that every set that contains `head` and goes
on along `next` contains all nodes (`WalkInv`). Agreeing pointers alone would allow
a ring beside the list; "reachable" as a least closed set needs no induction
over data, which is why `Walk` is written that way.

**Fences.** `FenceInv` follows a call from phase to phase: what it has submitted and
is not finished is behind a fence it holds, in an array call behind the merged one
and the one to be merged (`ArrayInv`), in `immakeBorder` behind the copy's
(`BorderInv`), at the return behind the caller's (`ReturnInv`). `AcquireInv` is about who owns the
acquire fence, `OrderInv` about what the last step of a border waits for. Besides
`ResultIsCovered` and `AcquireIsConsumed` two action properties follow,
`BorderIsOrdered` and `NothingForeignClosed`.

**Requests.** `RequestInv` says that what was sent is, request by request, what the
task of the call generates, as the driver at hand takes it. The theorems are then
facts about operators. The lemmas take the call apart on both paths: what a check
that succeeds has established (`TaskChecked`), what a blit, fill or palette that was not
refused looks like (`Made`), and that conversion for an older driver turns the
destination window there and back (`BlitSent`). On them rest

* `AcceptedWasChecked`: what the submit path took, `imcheck` would have taken;
* `RequestsStayInside`: the pixels a request touches lie in the rectangles named;
* `OperandsAreReached`: every operand is where the request's addresses point, and
  the MMU flag is that of its address kind;
* `InterpolationFits`: the filter of each direction suits its scale, turns included;
* `FeaturesAreCarried`: blending, keys, logic and dithering share the alpha and logic
  words, and none undoes another;
* `ConversionsAreExact`: the fields and the matrix name exactly the conversions
  wanted. The attempt to prove an earlier form of the property failed for a reason
  in the code, which is the first bullet of section 5; `Consistent` now excludes it.

**Merged tables.** `rga_get_info` merges the tables of a list of cores in a loop, which
the model writes as a function of the number of cores merged so far. What it computes
for a list of any length is proved without an induction theorem: if the claim failed for some number, it
would fail for a least one (`UpTo`, from the well-ordering of the naturals), and the step of the loop
excludes that. `MergedTablesIs` unfolds the loop, `Merges` says what holds after each
round: the table covers the rows merged so far and has the alignment of one of them.
`MergedTableIsSound` then compares the checks against the merged table and
against each core. Two things came to light in the attempt: the property used to
say nothing of the strides of a pattern and left fills out; and for cores whose sizes
cannot be compared it is false, hence `DevicesOrdered`.

**Reports.** In `QueryInv`, `ClashSeen` says that two threads inside `querystring` are both
marked; `AloneCollects` and `AloneReads` say that an unmarked one has collected the first lines
of the report, in order, and that the static string holds what it asked for. Whether each
line is true of the device is then a question about its table, which for a list of
cores of any length is as good as a row (`SessionRow`, from the loop above).

**The two interfaces.** `InterfacesAgree` takes the call apart as the theorems on requests do,
once through im2d and once through the legacy functions, and compares the guards one by
one (rectangles, scale, interpolation, conversion), then the registers. The guards differ
where the first chips are told from the others, by the driver in im2d and by the
number of the version in `RgaBlit`; that the two tests agree is
`FirstDriverAssumption`. They do not agree for version 2.0, which the attempt showed
(section 5); `Comparable` now excludes it.

**Functions, macros and tasks.** `ApiInv` says that the running call is one an application can
make. `CopiesAgree` is then a fact about plans. Each function fills its record
of a call from the empty one and changes a few fields, as does its copy; the lemmas
compare the two up to what tells a single call from a task (`Alike`). For the array functions
the loop is again a function of the number of items done (`PartsUpTo`), compared item by item
with `UpTo`, so that arrays of any length are covered, and rectangles inside arrays.

**Frames and borders.** `FrameIsDrawn` and `BorderIsDrawn` prove for all sizes what
`DrawsWhatItSays` checks on pictures of 8 by 8: for frames with every thickness of
which twice fits the rectangle, for borders when the call gets the fences it looks for
(`LooksAtFence`), which only the multi-core driver gives. `Carried(part)` is what is drawn of a
submission; `RequestDraws` proves that the request `rga_task_submit` makes of it for
the multi-core driver draws just that. A border is followed picture by picture:
after the copy, the top and the bottom the columns of the image are complete (`BandedAt`);
the left and the right side read these columns (`LeftedAt`, `FinishedAt`), which is why
the corners are right, and in a border of one colour the four fills leave the image alone
(`FilledAt`). The border has all four sides, and none is wider than the image: a reflection
or repetition beyond that would read outside it. A side of width 0 is left to TLC.

**Model-checked only.**

* `CloseFinishes` and `OpenIsWoken`: fairness is beyond the prover.
* `DrawsWhatItSays`: a picture is a fold over the requests of a call, and the property compares
  it for calls the driver took, at sizes for which they are taken. Its geometry is
  proved for frames and borders (above); the fold of the community module is a
  recursion that the prover does not unfold.
* `DrmSourceKept`: a statement about the rows of two finite tables (fourccs and modifiers), all
  of which the run enumerates; a proof would be the same enumeration.

## 5. What the code does that its documents do not say

Shown by a violated property: the six findings. Modelled and left out of a
property, so that the rest of it is checked:

* The conversion is chosen through any pattern that has an address (impl 2186), but
  only blending reads the pattern (impl 2284): a pattern left in the call of another
  operation changes the conversion to the one through RGB, or has it refused
  (`Consistent`).
* In handle mode a fill passes the byte count of its first plane as the address of a
  third (impl 3870), and so do the palette (4413-4430) and the legacy functions,
  although "With `handle_flag & 1`, the island interprets every nonzero plane address
  as a handle ID." (`docs/HANDLE-PLANES.md` 6). The blit of im2d was repaired (impl
  3498-3517), and `OperandsReached` asks this of it only.
* A failed merge in an array call yields -1, and the call succeeds with a fence
  that covers the last items only (im2d 1421). An unknown border type returns the
  status of `imcancelJob`, success, and loses the fence of the copy (im2d 1600).
  Both are `LosesFence`.
* On the older driver an asynchronous im2d call stores 0 as the release fence (impl
  2357; `RgaBlit` stores -1). `immakeBorder` takes 0 for no fence and returns success:
  after the copy (im2d 1522), or, when a reflected or wrapped border has drawn top
  and bottom, before left and right (im2d 1619). So on the older driver no border is
  ever drawn, which `border_fence` shows; on the multi-core driver it takes a process
  without standard input. `DrawsWhatItSays` leaves out these calls (`GaveUp`) and
  checks all others, on the older driver the borders without a side.
* A synchronous `immakeBorder` with no border calls `imsync` for one descriptor
  twice (im2d 1527, 1644); another thread's descriptor of that number is closed
  (`ClosesTwice`).
* A quarter turn together with a mirror computes the scale from the unturned
  sizes (impl 3017), so calls with an extreme ratio pass `imcheck` and fail in
  `improcess`. So do YUV strides that are no multiple of 4, unsupported conversions
  and operands of which only some are handles: `imcheck` is necessary, not
  sufficient (`AcceptedIsChecked` states the direction that holds).
* `RgaBlit` returns 0 for a buffer without an address (normal 600), takes the
  integer quotient 1/16 for a bound (877) and compares a float with the double
  1.003 (868, 898). `RgaCollorPalette` gives the driver the address of a pointer
  (2457). Under a pattern it counts version 2.0 among the first chips, which reduce by 8
  at most (`<= 2.0`, 872); without one, and in im2d, version 2.0 reduces by 16.
* `imcvtcolorTask` overwrites the space that a destination declares, `imcvtcolor`
  does not; `imresize` takes one factor in C++ and none or two in C (both left out
  of `TwinsAgree`). The C macros pass no release fence, so none of them can be
  asynchronous: with `IM_ASYNC` or a sync of 0 they return `ILLEGAL_PARAM`.
* `impyramid` with `IM_UP_SCALE` halves the picture and with `IM_DOWN_SCALE` doubles
  it (`im2d_single.h` 614-619). `imrectangle` with a thickness above the width of its
  rectangle draws outside it (im2d 1441-1447).
* A report names a resolution by its width only, has no word for 8176 and none for
  the formats of `Wordless`; ARGB_16BIT as an output is looked up among the inputs
  (im2d 704). Two callers of `querystring` at one time may get any text.
* The merge of two cores takes the larger size only if both its width and its height are
  larger (impl 87-97). Of sizes that cannot be compared (RK3506 has 1280 by 8192 as an
  input, RGA3 8176 by 8176) the one listed first stays, and calls that the other core could
  serve are refused. No device of the run lists such a pair (`DevicesOrdered`).
* The version check reads the library's own row and the next. For the current
  release, whose row is the last, no driver is too new, which is why `session` is
  explored for older releases, too; the build number of a header file is ignored.
* An import of a format the library does not know returns -1 as an unsigned handle,
  which the samples' test for 0 does not catch (impl 1467).
* A DRM modifier the library does not know, such as an AFBC block of another size, is
  taken for raster (`drm_utils.cpp` 172), and `DrmSourceKept` says nothing of the
  storage then; the test for AFBC formats does not look at the
  vendor, so that RGB in Rockchip's 4 by 4 tiles is refused (178). P010, P210 and Y210 are in
  the table of formats and refused by every core.

Noted while reading, not modelled:

* A failing asynchronous submit leaves the caller's release fence as it was (impl
  2353; `docs/fix-audit.d/h6.md` asks for -1), and descriptor 0 is neither closed
  as an acquire fence (impl 2360, normal 1559) nor kept as a session (context 214).
* Without a session `imbeginJob` returns a negative status converted to an
  unsigned handle (impl 2388).
* Gaussian coefficients are freed when a task has been appended to a job (impl
  2368), before the job is submitted.
* `imconfig` accepts `IM_SCHEDULER_DEFAULT` (im2d 864), which `docs/API-TRAPS.md`
  says is rejected, and cores with bits outside the mask (869). What it stores for
  `IM_CONFIG_CHECK` (886) is read nowhere: the check cannot be turned off.
* Jobs that are never ended are leaked when the library is unloaded
  (`rga_job_manager_destroy` frees the nodes of the list, not the jobs).
* Borders and rectangles one pixel wide are refused; `imrectangle` with a height of
  twice its thickness paints two bars and then fails; a reflected or wrapped border
  with exactly one of left and right empty fails after it has drawn (im2d
  1631-1640).

## 6. Plan

The order was: the state that all threads share first (context, session, jobs),
then what ties calls together (fences), then the path of one call, then what is
built on these: registers, the functions of the API and the pictures they make,
reports, versions, buffers, DRM descriptions and the list of a C build. Next:

1. Proofs: borders without one of their sides, and what is drawn by the calls with one
   request.
2. `Im2dFences`: a driver without fences, descriptor 0, the caller's old release
   value, and jobs the application submits itself with an acquire fence.
3. Jobs and requests together: which palette and which coefficients a job draws
   with.
4. `RockchipRga`: an abstract class specification in terms of `RgaDevice`.

**Not modelled**, and not planned: the Android branches and allocators, which bind to
vendor libraries that are not in the repository; names, logging and dumps of
buffers to files, which nothing else depends on; the samples.

Out of reach of the prover and left to TLC: see the end of section 4.

## 7. Running it

    tlc -workers 2 -config MCRgaContext.cfg MCRgaContext
    tlapm RgaContextProofs.tla

and likewise for the other configurations; the module of each is in `PROJECT.json`.
