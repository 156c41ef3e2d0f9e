------------------------------- MODULE Im2dJob -------------------------------
(***************************************************************************)
(* The job manager of im2d_api: imbeginJob, the task calls, rga_job_config,*)
(* imendJob and imcancelJob (rga_job_create, rga_task_submit on a job,     *)
(* rga_job_config, rga_job_submit and rga_job_cancel in im2d_impl.cpp, and *)
(* the handle map of im2d_job.cpp).                                        *)
(*                                                                         *)
(* A job is an array of requests in library memory under a handle that the *)
(* driver hands out for a request of its own.  The library's map and the   *)
(* driver's table are updated one after the other, the map under           *)
(* g_im2d_job_manager.mutex, the driver mostly outside it, and any thread  *)
(* may use any handle.                                                     *)
(***************************************************************************)
EXTENDS Integers, FiniteSets

CONSTANTS Threads,           \* application threads
          Handles,           \* request ids the driver can hand out
          Jobs,              \* addresses malloc can return for an im_rga_job_t
          RGA_TASK_NUM_MAX,  \* requests in one job
          Null,              \* no thread, no job, no handle
          OwnedHandles       \* handles that the application ends once

ASSUME NullAssumption == Null \notin Threads /\ Null \notin Jobs /\ Null \notin Handles
ASSUME FiniteAssumption == IsFiniteSet(Handles)
ASSUME MaxAssumption == RGA_TASK_NUM_MAX \in Nat
ASSUME OwnedAssumption == OwnedHandles \subseteq Handles

VARIABLES
  mutex,       \* owner of g_im2d_job_manager.mutex between two steps, or Null
  job_map,     \* job_map[h]: the job under handle h, or Null
  job_count,   \* g_im2d_job_manager.job_count
  heap,        \* allocated jobs
  task_count,  \* task_count[j]
  requests,    \* ids of the requests the driver has
  pc,          \* where thread t is
  handle,      \* handle[t]: the argument of the call
  job          \* job[t]: the local job pointer of the call

manager == <<mutex, job_map, job_count>>
memory  == <<heap, task_count>>
locals  == <<pc, handle, job>>
vars == <<manager, memory, requests, locals>>

Ending == {"cancel", "cancelIoctl", "submit", "submitIoctl", "submitFree"}
PCs == {"idle", "created", "add", "config", "configIoctl"} \cup Ending

Init ==
  /\ mutex = Null
  /\ job_map = [h \in Handles |-> Null] /\ job_count = 0
  /\ heap = {} /\ task_count = [j \in Jobs |-> 0]
  /\ requests = {}
  /\ pc = [t \in Threads |-> "idle"]
  /\ handle = [t \in Threads |-> Null]
  /\ job = [t \in Threads |-> Null]

Goto(t, label) == pc' = [pc EXCEPT ![t] = label]
\* The call returns and its locals are gone.
Return(t) == /\ Goto(t, "idle")
             /\ handle' = [handle EXCEPT ![t] = Null]
             /\ job' = [job EXCEPT ![t] = Null]
Locks(t, label) == pc[t] = label /\ mutex = Null
rga_map_find_job(h) == job_map[h]

\* A thread calls one of the operations on a handle.  It may be another
\* thread's handle, or one that has been ended already.  An owned handle
\* is ended only while the application has it, and once.
Call(t) ==
  /\ pc[t] = "idle"
  /\ \E h \in Handles, op \in {"add", "config", "submit", "cancel"} :
       /\ h \in OwnedHandles /\ op \in {"submit", "cancel"} =>
            /\ h \in requests
            /\ \A u \in Threads : handle[u] = h => pc[u] \notin Ending \cup {"created"}
       /\ handle' = [handle EXCEPT ![t] = h]
       /\ Goto(t, op)
  /\ UNCHANGED <<manager, memory, requests, job>>

-----------------------------------------------------------------------------
(* rga_job_create                                                          *)

\* ioctl(RGA_IOC_REQUEST_CREATE): an id the driver is not using.  A failed
\* ioctl returns 0 and changes nothing.
RequestCreate(t) ==
  /\ pc[t] = "idle"
  /\ \E h \in Handles \ requests :
       requests' = requests \cup {h} /\ handle' = [handle EXCEPT ![t] = h]
  /\ Goto(t, "created")
  /\ UNCHANGED <<manager, memory, job>>

CreateJob(t) ==
  /\ Locks(t, "created")
  /\ rga_map_find_job(handle[t]) = Null
  /\ \E j \in Jobs \ heap :
       /\ heap' = heap \cup {j}
       /\ task_count' = [task_count EXCEPT ![j] = 0]
       /\ job_map' = [job_map EXCEPT ![handle[t]] = j]
  /\ job_count' = job_count + 1
  /\ Return(t)
  /\ UNCHANGED <<mutex, requests>>

\* The handle is in the map already, or malloc fails: error_cancel_job.
CreateFails(t) ==
  /\ Locks(t, "created")
  /\ Goto(t, "cancel")
  /\ UNCHANGED <<manager, memory, requests, handle, job>>

-----------------------------------------------------------------------------
(* rga_job_cancel                                                          *)

rga_map_delete_job(h) == job_map' = [job_map EXCEPT ![h] = Null]

\* Defect: only the driver is told.
CancelRemove_Forgotten(t) ==
  /\ Locks(t, "cancel")
  /\ Goto(t, "cancelIoctl")
  /\ UNCHANGED <<manager, memory, requests, handle, job>>

CancelRemove(t) ==
  /\ Locks(t, "cancel")
  /\ IF rga_map_find_job(handle[t]) = Null
     THEN UNCHANGED <<job_map, heap, job_count>>
     ELSE /\ rga_map_delete_job(handle[t])
          /\ heap' = heap \ {rga_map_find_job(handle[t])}
          /\ job_count' = job_count - 1
  /\ Goto(t, "cancelIoctl")
  /\ UNCHANGED <<mutex, task_count, requests, handle, job>>

\* ioctl(RGA_IOC_REQUEST_CANCEL), after the mutex was released.  The driver
\* refuses an id it does not have.
CancelIoctl(t) ==
  /\ pc[t] = "cancelIoctl"
  /\ requests' = requests \ {handle[t]}
  /\ Return(t)
  /\ UNCHANGED <<manager, memory>>

-----------------------------------------------------------------------------
(* rga_job_submit                                                          *)

\* Defect: the job stays in the map while it is submitted.
SubmitTake_Keeps(t) ==
  /\ Locks(t, "submit")
  /\ rga_map_find_job(handle[t]) # Null
  /\ job' = [job EXCEPT ![t] = rga_map_find_job(handle[t])]
  /\ Goto(t, "submitIoctl")
  /\ UNCHANGED <<mutex, job_map, job_count, memory, requests, handle>>

SubmitTake(t) ==
  /\ Locks(t, "submit")
  /\ rga_map_find_job(handle[t]) # Null
  /\ job' = [job EXCEPT ![t] = rga_map_find_job(handle[t])]
  /\ rga_map_delete_job(handle[t])
  /\ job_count' = job_count - 1
  /\ Goto(t, "submitIoctl")
  /\ UNCHANGED <<mutex, memory, requests, handle>>

\* ioctl(RGA_IOC_REQUEST_SUBMIT): the driver copies job->req.  It runs and drops
\* the request, or fails and keeps it for a later cancel.
SubmitIoctl(t) ==
  /\ pc[t] = "submitIoctl"
  /\ \/ requests' = requests \ {handle[t]}
     \/ UNCHANGED requests
  /\ Goto(t, "submitFree")
  /\ UNCHANGED <<manager, memory, handle, job>>

SubmitFree(t) ==
  /\ pc[t] = "submitFree"
  /\ heap' = heap \ {job[t]}
  /\ Return(t)
  /\ UNCHANGED <<manager, task_count, requests>>

-----------------------------------------------------------------------------
(* rga_job_config and the task calls                                       *)

\* Defect: the mutex is released before the ioctl.
ConfigFind_Unlocked(t) ==
  /\ Locks(t, "config")
  /\ rga_map_find_job(handle[t]) # Null
  /\ job' = [job EXCEPT ![t] = rga_map_find_job(handle[t])]
  /\ Goto(t, "configIoctl")
  /\ UNCHANGED <<mutex, job_map, job_count, memory, requests, handle>>

\* The mutex is kept until the ioctl returns.
ConfigFind(t) ==
  /\ Locks(t, "config")
  /\ rga_map_find_job(handle[t]) # Null
  /\ job' = [job EXCEPT ![t] = rga_map_find_job(handle[t])]
  /\ mutex' = t
  /\ Goto(t, "configIoctl")
  /\ UNCHANGED <<job_map, job_count, memory, requests, handle>>

\* ioctl(RGA_IOC_REQUEST_CONFIG): the driver copies job->req; unlock.
ConfigIoctl(t) ==
  /\ pc[t] = "configIoctl"
  /\ mutex' = Null
  /\ Return(t)
  /\ UNCHANGED <<job_map, job_count, memory, requests>>

\* Defect: the bound is tested with > instead of >=.
HasRoom_OffByOne(j) == task_count[j] <= RGA_TASK_NUM_MAX
HasRoom(j) == task_count[j] < RGA_TASK_NUM_MAX

\* rga_task_submit with a job handle: job->req[job->task_count] = req.
AddTask(t) ==
  /\ Locks(t, "add")
  /\ rga_map_find_job(handle[t]) # Null
  /\ HasRoom(rga_map_find_job(handle[t]))
  /\ task_count' = [task_count EXCEPT ![rga_map_find_job(handle[t])] = @ + 1]
  /\ Return(t)
  /\ UNCHANGED <<manager, heap, requests>>

\* IM_STATUS_ILLEGAL_PARAM: no job under the handle, or a job that is full.
Rejected(t) ==
  /\ \/ Locks(t, "submit") \/ Locks(t, "config") \/ Locks(t, "add")
  /\ rga_map_find_job(handle[t]) # Null =>
       pc[t] = "add" /\ ~HasRoom(rga_map_find_job(handle[t]))
  /\ Return(t)
  /\ UNCHANGED <<manager, memory, requests>>

-----------------------------------------------------------------------------
Step(t) == \/ CreateJob(t) \/ CreateFails(t)
           \/ CancelRemove(t) \/ CancelIoctl(t)
           \/ SubmitTake(t) \/ SubmitIoctl(t) \/ SubmitFree(t)
           \/ ConfigFind(t) \/ ConfigIoctl(t) \/ AddTask(t) \/ Rejected(t)

Next == \E t \in Threads : Call(t) \/ RequestCreate(t) \/ Step(t)
Spec == Init /\ [][Next]_vars

-----------------------------------------------------------------------------
(* Properties                                                              *)

Mapped == {h \in Handles : job_map[h] # Null}
Submitting == {t \in Threads : pc[t] \in {"submitIoctl", "submitFree"}}

\* Types of every variable, and no job holds more requests than its array.
TypeOK ==
  /\ mutex \in Threads \cup {Null}
  /\ job_map \in [Handles -> Jobs \cup {Null}]
  /\ job_count \in Int
  /\ heap \subseteq Jobs
  /\ task_count \in [Jobs -> 0..RGA_TASK_NUM_MAX]
  /\ requests \subseteq Handles
  /\ pc \in [Threads -> PCs]
  /\ handle \in [Threads -> Handles \cup {Null}]
  /\ job \in [Threads -> Jobs \cup {Null}]

\* job_count is the number of jobs in the map, also when handles are cancelled
\* twice or were never valid (it drifted below zero before).
JobCountExact == job_count = Cardinality(Mapped)

\* "config borrows job->req until ioctl returns; cancel/submit must not free it
\* while the driver copies those task bytes": whoever is in one of the ioctls
\* that read a job has an allocated one.
JobNotFreedWhileRead ==
  \A t \in Threads :
    pc[t] \in {"configIoctl", "submitIoctl", "submitFree"} => job[t] \in heap

\* Every job has one owner, the map or the thread that submits it, so that it
\* is freed once...
OneOwner ==
  /\ \A h, g \in Mapped : job_map[h] = job_map[g] => h = g
  /\ \A t, u \in Submitting : job[t] = job[u] => t = u
  /\ \A h \in Mapped, t \in Submitting : job_map[h] # job[t]

\* ...and a job without an owner is not allocated.
NoJobLeak == heap = {job_map[h] : h \in Mapped} \cup {job[t] : t \in Submitting}

\* The job manager's accounts are right, whoever ends which handle how often.
JobsAccounted == OneOwner /\ NoJobLeak /\ JobCountExact

\* A request that was configured or submitted keeps the tasks it had: once the
\* driver reads a job, its task_count does not change under it.
TasksFixedWhileRead ==
  [][\A t \in Threads : pc[t] \in {"configIoctl", "submitIoctl"} =>
       task_count'[job[t]] = task_count[job[t]]]_vars

\* A handle that is ended once: its job in the map has its request in the
\* driver, so imendJob never submits under an id that was given to somebody else,
\* whatever other parts of the process do with their handles.
MapBacked == Mapped \cap OwnedHandles \subseteq requests

\* Nor does rga_job_create meet under it the error it logs as "job_map error!
\* handle already exists", whose error path would cancel the job that is there.
FreshHandle ==
  \A t \in Threads : pc[t] = "created" /\ handle[t] \in OwnedHandles =>
    job_map[handle[t]] = Null
=============================================================================
