----------------------------- MODULE Im2dFences ------------------------------
(***************************************************************************)
(* Who owns a fence descriptor, and what it waits for: improcess, RgaBlit, *)
(* the array calls (immosaicArray, imfillArray, imrectangle and            *)
(* imrectangleArray), immakeBorder, imsync and rga_sync_merge.             *)
(*                                                                         *)
(* One application thread makes the calls.  The rest of the process opens  *)
(* and closes descriptors of its own meanwhile and so takes over every     *)
(* number that the library frees.  The driver runs the submitted tasks in  *)
(* its own time and starts a request when its acquire fence has signalled. *)
(* It is the multi-core driver: the older one knows neither jobs nor       *)
(* fences.                                                                 *)
(***************************************************************************)
EXTENDS Integers, FiniteSets

CONSTANTS Fds,          \* descriptor numbers
          Kinds,        \* calls the application makes
          BorderTypes,  \* border types it asks for
          Borders,      \* borders it asks for, by which sides are not empty
          ArraySize,    \* array_size
          MaxCalls      \* bound on the calls of a behaviour

\* The process has a standard input: no fence gets number 0, which the library
\* takes for "no fence".
ASSUME FdsAssumption == Fds \subseteq Nat \ {0}
ASSUME SizeAssumption == ArraySize \in Nat \ {0} /\ MaxCalls \in Nat
ASSUME InputAssumption ==
  /\ Kinds \subseteq {"improcess", "RgaBlit", "array", "immakeBorder"}
  /\ BorderTypes \subseteq {"CONSTANT", "REFLECT", "UNKNOWN"}
  /\ Borders \subseteq SUBSET {"tb", "lr"}

VARIABLES
  owner,     \* owner[f]: "free", the call ("lib"), the caller ("app"), others ("env")
  covers,    \* covers[f]: the unfinished tasks the fence f waits for
  pending,   \* requests the driver has not finished
  feature,   \* RGA_DRIVER_FEATURE_USER_CLOSE_FENCE
  calls,     \* number of calls so far
  pc,        \* where the call is
  args,      \* its arguments
  i,         \* loop index of an array call
  submitted, \* tasks of this call that the driver accepted
  release,   \* the caller's variable behind release_fence_fd
  tmp,       \* tmp_fence_fd of the array calls
  copy,      \* copy_fence_fd of immakeBorder
  dropped,   \* history: a merge of this call has failed
  status     \* result of the last call

descriptors == <<owner, covers>>
driver == <<pending, feature>>
locals == <<calls, args, i, submitted, release, tmp, copy, dropped, status>>
vars == <<descriptors, driver, pc, locals>>

Statuses == {"SUCCESS", "FAILED"}
PCs == {"idle", "returned", "improcess", "RgaBlit", "wait", "array", "merge", "immakeBorder",
        "arrayEnd", "zero", "begin", "endTb", "begin2", "finishSync", "endSync", "end"}
Call0 == [kind |-> "none", sync |-> TRUE, acquire |-> -1, type |-> "none", border |-> {}]
\* The array calls take no acquire fence, RgaBlit is called asynchronously (it
\* stores an out_fence_fd in any case), and only immakeBorder takes a border.
Arguments ==
  {a \in [kind: Kinds, sync: BOOLEAN, acquire: Fds \cup {-1},
          type: BorderTypes \cup {"none"}, border: Borders \cup {{}}] :
     /\ a.kind = "array" => a.acquire = -1
     /\ a.kind = "RgaBlit" => ~a.sync
     /\ IF a.kind = "immakeBorder" THEN a.type # "none" /\ a.border \in Borders
                                  ELSE a.type = "none" /\ a.border = {}}
Task(name) == <<calls, name, i>>

Init ==
  /\ owner = [f \in Fds |-> "free"] /\ covers = [f \in Fds |-> {}]
  /\ pending = {} /\ feature \in BOOLEAN
  /\ calls = 0 /\ pc = "idle" /\ args = Call0
  /\ i = 0 /\ submitted = {}
  /\ release = -1 /\ tmp = -1 /\ copy = -1 /\ dropped = FALSE /\ status = "SUCCESS"

Goto(label) == pc' = label
Return(s) == Goto("returned") /\ status' = s

-----------------------------------------------------------------------------
(* The descriptor table and the driver                                     *)

\* POSIX hands out the lowest number that is free.
Free == {f \in Fds : /\ owner[f] = "free"
                     /\ \A g \in Fds : g < f => owner[g] # "free"}
\* close(): of a number that is not open it changes nothing.
Closed(f, o) == IF f \in Fds THEN [o EXCEPT ![f] = "free"] ELSE o
WaitsFor(f) == IF f \in Fds THEN covers[f] ELSE {}

\* Somebody else opens and closes descriptors, one at a time.
EnvOpen == /\ \A f \in Fds : owner[f] # "env"
           /\ \E f \in Free : /\ owner' = [owner EXCEPT ![f] = "env"]
                              /\ covers' = [covers EXCEPT ![f] = {}]
           /\ UNCHANGED <<driver, pc, locals>>
EnvClose == /\ \E f \in Fds : owner[f] = "env" /\ owner' = Closed(f, owner)
            /\ UNCHANGED <<covers, driver, pc, locals>>

\* The driver finishes a request whose acquire fence has signalled.
DriverRuns ==
  /\ \E r \in pending :
       /\ r.wait = {}
       /\ pending' = {[q EXCEPT !.wait = @ \ r.tasks] : q \in pending \ {r}}
       /\ covers' = [f \in Fds |-> covers[f] \ r.tasks]
  /\ UNCHANGED <<owner, feature, pc, locals>>

Unfinished == UNION {r.tasks : r \in pending}

Queue(tasks, acquire) ==
  pending' = pending \cup {[tasks |-> tasks, wait |-> WaitsFor(acquire)]}

\* A driver without the feature closes the acquire fence itself.
DriverCloses(acquire) == IF feature THEN owner ELSE Closed(acquire, owner)

\* A fence for the tasks behind acquire and the new ones, for owner who.
NewFence(f, who, tasks, acquire, o) ==
  /\ owner' = [o EXCEPT ![f] = who]
  /\ covers' = [covers EXCEPT ![f] = WaitsFor(acquire) \cup tasks]

\* What a call leaves in *release_fence_fd is the caller's.
HandOver(f) == IF f \in Fds /\ owner[f] = "lib" THEN [owner EXCEPT ![f] = "app"] ELSE owner

\* Defect: the acquire fence is left to the caller.
UserCloses_Forgotten(acquire) == DriverCloses(acquire)
\* if (driver_feature & USER_CLOSE_FENCE && acquire_fence_fd > 0) close(...)
UserCloses(acquire) ==
  IF feature /\ acquire > 0 THEN Closed(acquire, owner) ELSE DriverCloses(acquire)

-----------------------------------------------------------------------------
(* Application                                                             *)

\* The producer of an image gives the application a fence to pass on.
AppOpen ==
  /\ pc = "idle" /\ \A f \in Fds : owner[f] # "app"
  /\ \E f \in Free : /\ owner' = [owner EXCEPT ![f] = "app"]
                     /\ covers' = [covers EXCEPT ![f] = {}]
  /\ UNCHANGED <<driver, pc, locals>>

\* A call after the first one waits for the release fence of the one before.
Call ==
  /\ pc = "idle" /\ calls < MaxCalls
  /\ args' \in Arguments
  /\ args'.acquire # -1 => owner[args'.acquire] = "app"
  /\ calls > 0 => args'.acquire # -1 /\ args'.acquire = release
  /\ calls' = calls + 1
  /\ Goto(args'.kind)
  /\ UNCHANGED <<descriptors, driver, i, submitted, release, tmp, copy, status, dropped>>

\* imsync: rga_sync_wait polls without a timeout, and the descriptor is closed
\* whether the wait succeeds or fails.
imsyncOk(f) == /\ f > 0 /\ owner[f] # "free" /\ covers[f] = {}
               /\ owner' = Closed(f, owner)
imsyncFails(f) == owner' = IF f > 0 THEN Closed(f, owner) ELSE owner

\* The application waits for a result with imsync, or keeps the fence to chain
\* another call behind it.
AppReturn ==
  /\ pc = "returned"
  /\ \/ status = "SUCCESS" /\ ~args.sync /\ release # -1 /\ (imsyncOk(release) \/ imsyncFails(release))
     \/ UNCHANGED owner
  /\ Goto("idle")
  /\ args' = Call0 /\ i' = 0 /\ submitted' = {} /\ tmp' = -1 /\ copy' = -1 /\ dropped' = FALSE
  /\ UNCHANGED <<covers, driver, calls, release, status>>

-----------------------------------------------------------------------------
(* rga_task_submit for one task, and the end of RgaBlit                     *)

\* The ioctl, or a check before it, fails.
SubmitFails ==
  /\ pc \in {"improcess", "RgaBlit", "array", "immakeBorder"}
  /\ Return("FAILED") /\ owner' = HandOver(release)
  /\ UNCHANGED <<covers, driver, calls, args, i, submitted, release, tmp, copy, dropped>>

\* A synchronous ioctl returns when the tasks are finished.
SubmitSync ==
  /\ pc = "improcess" /\ args.sync
  /\ submitted' = {Task("task")} /\ Queue(submitted', args.acquire)
  /\ Goto("wait")
  /\ UNCHANGED <<descriptors, feature, calls, args, i, release, tmp, copy, status, dropped>>

SyncDone ==
  /\ pc = "wait" /\ submitted \cap Unfinished = {}
  /\ IF args.kind = "array" THEN Goto("merge") /\ UNCHANGED status ELSE Return("SUCCESS")
  /\ UNCHANGED <<descriptors, driver, calls, args, i, submitted, release, tmp, copy, dropped>>

SubmitAsync ==
  /\ pc \in {"improcess", "RgaBlit"} /\ ~args.sync
  /\ submitted' = {Task("task")} /\ Queue(submitted', args.acquire)
  /\ \E f \in Free : /\ NewFence(f, "app", submitted', args.acquire, UserCloses(args.acquire))
                     /\ release' = f
  /\ Return("SUCCESS")
  /\ UNCHANGED <<feature, calls, args, i, tmp, copy, dropped>>

-----------------------------------------------------------------------------
(* The array calls: one submission per rectangle into *release_fence_fd     *)

\* immosaic, imfill or imrectangle for rectangle i.
ArrayItem ==
  /\ pc = "array"
  /\ submitted' = submitted \cup {Task("task")}
  /\ IF args.sync
     THEN Goto("wait") /\ UNCHANGED <<descriptors, release>>
     ELSE /\ \E f \in Free : NewFence(f, "lib", {Task("task")}, -1, owner) /\ release' = f
          /\ Goto("merge")
  /\ Queue({Task("task")}, -1)
  /\ UNCHANGED <<feature, calls, args, i, tmp, copy, status, dropped>>

\* rga_sync_merge makes a third descriptor and leaves its two inputs open.
rga_sync_merge(f, g) ==
  \/ \E h \in Free : /\ owner' = [owner EXCEPT ![h] = "lib"]
                     /\ covers' = [covers EXCEPT ![h] = covers[f] \cup covers[g]]
                     /\ tmp' = h /\ UNCHANGED dropped
  \/ tmp' = -1 /\ dropped' = TRUE /\ UNCHANGED descriptors

\* Defect: the last fence replaces the ones before it.
MergeFences_LastOnly == tmp' = release /\ UNCHANGED <<descriptors, dropped>>
MergeFences ==
  CASE ~args.sync /\ tmp >= 0 /\ release >= 0 -> rga_sync_merge(tmp, release)
    [] ~args.sync /\ tmp < 0 /\ release >= 0  -> tmp' = release /\ UNCHANGED <<descriptors, dropped>>
    [] OTHER                                  -> UNCHANGED <<tmp, descriptors, dropped>>

ArrayMerge ==
  /\ pc = "merge"
  /\ MergeFences
  /\ i' = i + 1
  /\ Goto(IF i' < ArraySize THEN "array" ELSE "arrayEnd")
  /\ UNCHANGED <<driver, calls, args, submitted, release, copy, status>>

ArrayEnd ==
  /\ pc = "arrayEnd"
  /\ release' = tmp /\ owner' = HandOver(tmp)
  /\ Return("SUCCESS")
  /\ UNCHANGED <<covers, driver, calls, args, i, submitted, tmp, copy, dropped>>

-----------------------------------------------------------------------------
(* immakeBorder                                                            *)

\* The image itself: improcess(IM_ASYNC) behind the acquire fence.
BorderCopy ==
  /\ pc = "immakeBorder"
  /\ submitted' = {Task("copy")} /\ Queue(submitted', args.acquire)
  /\ \E f \in Free :
       /\ NewFence(f, "lib", submitted', args.acquire, UserCloses(args.acquire))
       /\ copy' = f
  /\ IF copy' <= 0 THEN Return("SUCCESS")
     ELSE Goto(IF args.border # {} THEN "begin" ELSE "zero") /\ UNCHANGED status
  /\ UNCHANGED <<feature, calls, args, i, release, tmp, dropped>>

\* No border at all: the asynchronous call is finished, the synchronous one
\* waits for the copy and goes on.
ZeroBorder ==
  /\ pc = "zero"
  /\ \/ /\ ~args.sync
        /\ release' = copy /\ owner' = HandOver(copy)
        /\ Return("SUCCESS")
     \/ args.sync /\ imsyncOk(copy) /\ Goto("begin") /\ UNCHANGED <<release, status>>
     \/ args.sync /\ imsyncFails(copy) /\ Return("FAILED") /\ UNCHANGED release
  /\ UNCHANGED <<covers, driver, calls, args, i, submitted, tmp, copy, dropped>>

\* imbeginJob and the tasks of the job: any of them fails, after an
\* imcancelJob where a job exists...
BorderFails ==
  /\ pc \in {"begin", "begin2"}
  /\ Return("FAILED")
  /\ UNCHANGED <<descriptors, driver, calls, args, i, submitted, release, tmp, copy, dropped>>

\* ...or the job holds the tasks, and ends at once (a constant border, or one
\* without top and bottom) or after the top and bottom have been submitted.
BorderTasks ==
  /\ \/ pc = "begin" /\ args.type \in {"CONSTANT", "REFLECT"}
        /\ Goto(IF args.type = "REFLECT" /\ "tb" \in args.border THEN "endTb"
                ELSE IF args.sync THEN "finishSync" ELSE "end")
     \/ pc = "begin2" /\ Goto(IF args.sync THEN "finishSync" ELSE "end")
  /\ UNCHANGED <<descriptors, driver, locals>>

\* An unknown border type: the result is that of imcancelJob.
BorderUnknown ==
  /\ pc = "begin" /\ args.type = "UNKNOWN"
  /\ \E s \in Statuses : Return(s)
  /\ UNCHANGED <<descriptors, driver, calls, args, i, submitted, release, tmp, copy, dropped>>

\* The tasks in the job when it ends.
JobTasks ==
  IF args.type = "CONSTANT" THEN {Task("fill") : side \in args.border}
  ELSE IF pc = "endTb" THEN {Task("tb")} ELSE {Task("lr") : side \in args.border \ {"tb"}}

\* Defect: the fence that was waited for is closed but stays in copy_fence_fd.
BorderEndTb_KeepsCopy ==
  /\ pc = "endTb"
  /\ submitted' = submitted \cup JobTasks /\ Queue(JobTasks, copy)
  /\ \E f \in Free : NewFence(f, "lib", JobTasks, copy, Closed(copy, owner)) /\ tmp' = f
  /\ Goto("begin2")
  /\ UNCHANGED <<feature, calls, args, i, release, copy, status, dropped>>

\* imendJob(job, IM_ASYNC, copy_fence_fd, ...) for the top and bottom.
BorderEndTb ==
  /\ pc = "endTb"
  /\ submitted' = submitted \cup JobTasks /\ Queue(JobTasks, copy)
  /\ \E f \in Free : NewFence(f, "lib", JobTasks, copy, DriverCloses(copy)) /\ tmp' = f
  /\ IF tmp' <= 0 THEN Return("SUCCESS") /\ UNCHANGED copy
     ELSE copy' = tmp' /\ Goto("begin2") /\ UNCHANGED status
  /\ UNCHANGED <<feature, calls, args, i, release, dropped>>

BorderEndFails ==
  /\ pc \in {"endTb", "endSync", "end"}
  /\ Return("FAILED")
  /\ UNCHANGED <<descriptors, driver, calls, args, i, submitted, release, tmp, copy, dropped>>

\* imsync(copy_fence_fd) before the synchronous imendJob.
BorderSync ==
  /\ pc = "finishSync"
  /\ \/ imsyncOk(copy) /\ Goto("endSync") /\ UNCHANGED status
     \/ imsyncFails(copy) /\ Return("FAILED")
  /\ UNCHANGED <<covers, driver, calls, args, i, submitted, release, tmp, copy, dropped>>

\* imendJob(job): returns when the tasks are finished.
BorderEndSync ==
  /\ pc = "endSync"
  /\ submitted' = submitted \cup JobTasks /\ Queue(JobTasks, -1)
  /\ Goto("wait")
  /\ UNCHANGED <<descriptors, feature, calls, args, i, release, tmp, copy, status, dropped>>

\* Defect: the job does not wait for the copy.
BorderEnd_NoAcquire ==
  /\ pc = "end"
  /\ submitted' = submitted \cup JobTasks /\ Queue(JobTasks, -1)
  /\ \E f \in Free : NewFence(f, "app", JobTasks, -1, owner) /\ release' = f
  /\ Return("SUCCESS")
  /\ UNCHANGED <<feature, calls, args, i, tmp, copy, dropped>>

\* imendJob(job, IM_ASYNC, copy_fence_fd, release_fence_fd)
BorderEnd ==
  /\ pc = "end"
  /\ submitted' = submitted \cup JobTasks /\ Queue(JobTasks, copy)
  /\ \E f \in Free : NewFence(f, "app", JobTasks, copy, DriverCloses(copy)) /\ release' = f
  /\ Return("SUCCESS")
  /\ UNCHANGED <<feature, calls, args, i, tmp, copy, dropped>>

-----------------------------------------------------------------------------
Single == SubmitFails \/ SubmitSync \/ SubmitAsync \/ SyncDone
Array == ArrayItem \/ ArrayMerge \/ ArrayEnd
Border == \/ BorderCopy \/ ZeroBorder \/ BorderFails \/ BorderTasks \/ BorderUnknown
          \/ BorderEndTb \/ BorderEndFails \/ BorderSync \/ BorderEndSync \/ BorderEnd
Environment == EnvOpen \/ EnvClose \/ DriverRuns
Next == AppOpen \/ Call \/ AppReturn \/ Single \/ Array \/ Border \/ Environment
Spec == Init /\ [][Next]_vars

-----------------------------------------------------------------------------
(* Properties                                                              *)

\* Types of every variable.
TypeOK ==
  /\ owner \in [Fds -> {"free", "lib", "app", "env"}]
  /\ \A f \in Fds : covers[f] \subseteq Unfinished
  /\ pc \in PCs /\ args \in Arguments \cup {Call0} /\ status \in Statuses
  /\ i \in 0..ArraySize /\ calls \in 0..MaxCalls
  /\ {release, tmp, copy} \subseteq Fds \cup {-1}

\* Returns that lose a fence: after a failed merge the array calls go on with
\* -1 and report success, and so does immakeBorder with an unknown border type.
LosesFence == dropped \/ args.type = "UNKNOWN"

\* "When 'sync == 0', the fence_fd used to identify the current job state", and
\* "When 'sync == 1', wait for the operation to complete and return": when any
\* other call returns success, every task it gave the driver is finished or is
\* waited for by the fence the caller receives.
ResultCovers ==
  pc = "returned" /\ status = "SUCCESS" /\ ~LosesFence =>
    submitted \cap Unfinished \subseteq IF args.sync THEN {} ELSE WaitsFor(release)

\* The left and right of a reflected or wrapped border are read from dst, so
\* they run after the copy and the top and bottom have been written there.
BorderOrder ==
  [][\A n \in 1..calls : <<n, "lr", 0>> \in Unfinished \ Unfinished' =>
       Unfinished \cap {<<n, "copy", 0>>, <<n, "tb", 0>>} = {}]_vars

\* After a successful asynchronous improcess, RgaBlit or immakeBorder with an
\* acquire fence, that fence is closed, by the library or by an older driver.
AcquireConsumed ==
  /\ pc = "returned" /\ status = "SUCCESS" /\ args.acquire # -1
  /\ args.kind = "immakeBorder" \/ ~args.sync
  => owner[args.acquire] # "app" \/ args.acquire = release

\* A synchronous immakeBorder without any border calls imsync twice for one
\* descriptor.
ClosesTwice == args.kind = "immakeBorder" /\ args.sync /\ args.border = {}

\* "consume a valid fence": every other call closes descriptors of its own and of
\* its caller only, never one that somebody else has got under the same number.
NoForeignClose ==
  [][\A f \in Fds : owner[f] = "env" /\ owner'[f] # "env" =>
       UNCHANGED pc \/ ClosesTwice \/ LosesFence]_vars

\* rga_sync_merge: "The original fences remain valid, and the caller is
\* responsible for closing them."  A returned call keeps no descriptor open.
FencesClosed == pc = "returned" => \A f \in Fds : owner[f] # "lib"
==============================================================================
