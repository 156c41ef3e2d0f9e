---------------------------- MODULE Im2dJobProofs ----------------------------
(***************************************************************************)
(* Proofs about the job manager for any number of threads, handles, jobs   *)
(* and any RGA_TASK_NUM_MAX.                                               *)
(***************************************************************************)
EXTENDS Im2dJob, FiniteSetTheorems, TLAPS

Reading == {"configIoctl", "submitIoctl", "submitFree"}

\* The manager's mutex is held between two steps only by the configuration that
\* has borrowed a job, and that job is still the one under the handle.
LockInv ==
  \A t \in Threads :
    /\ pc[t] = "configIoctl" <=> mutex = t
    /\ pc[t] = "configIoctl" => job[t] # Null /\ job_map[handle[t]] = job[t]

\* A call has a handle, and a submission has a job.
LocalInv ==
  \A t \in Threads :
    /\ pc[t] # "idle" => handle[t] \in Handles
    /\ pc[t] \in {"submitIoctl", "submitFree"} => job[t] # Null

IInv == TypeOK /\ LockInv /\ LocalInv /\ OneOwner /\ NoJobLeak /\ JobCountExact

\* The calls that rely on the driver keeping the request of their handle.
Relying == {"created", "cancel", "cancelIoctl", "submit", "submitIoctl"}

\* For the handles that are ended once: the request of a relying call is the
\* driver's and no other call's, what is in the map is backed by a request, and a
\* call that is about to drop or has just created a request finds no job under it.
Relies(t) == pc[t] \in Relying /\ handle[t] \in OwnedHandles
EndInv ==
  /\ \A t \in Threads : Relies(t) => handle[t] \in requests
  /\ \A t, u \in Threads : Relies(t) /\ Relies(u) /\ handle[t] = handle[u] => t = u
  /\ MapBacked
  /\ \A t \in Threads :
       Relies(t) /\ pc[t] \in {"created", "cancelIoctl", "submitIoctl"} =>
         job_map[handle[t]] = Null

-----------------------------------------------------------------------------
\* Counting handles: what adding or removing one does.
LEMMA CountingHandles ==
  ASSUME NEW S \in SUBSET Handles
  PROVE  /\ Cardinality(S) \in Nat
         /\ \A h \in S : Cardinality(S \ {h}) = Cardinality(S) - 1
         /\ \A h \in Handles \ S : Cardinality(S \cup {h}) = Cardinality(S) + 1
  <1>1. IsFiniteSet(S)
    BY FiniteAssumption, FS_Subset
  <1> QED
    BY <1>1, FS_CardinalityType, FS_AddElement, FS_RemoveElement

LEMMA InitIInv == Init => IInv
  <1> SUFFICES ASSUME Init PROVE IInv
    OBVIOUS
  <1>1. Mapped = {} /\ Submitting = {}
    BY DEF Init, Mapped, Submitting
  <1>2. JobCountExact
    BY <1>1, FS_EmptySet DEF JobCountExact, Init
  <1>3. TypeOK
    BY MaxAssumption DEF Init, TypeOK, PCs, Ending
  <1>4. OneOwner /\ NoJobLeak
    BY <1>1 DEF Init, OneOwner, NoJobLeak
  <1>5. LockInv /\ LocalInv
    BY NullAssumption DEF Init, LockInv, LocalInv
  <1> QED
    BY <1>2, <1>3, <1>4, <1>5 DEF IInv

\* The steps that leave the map and the heap alone and move no job in or out of
\* a submission keep the ownership and the count.
LEMMA NoOwnerChange ==
  ASSUME IInv, UNCHANGED <<job_map, job_count, heap>>, Submitting' = Submitting,
         \A t \in Submitting : job'[t] = job[t]
  PROVE  OneOwner' /\ NoJobLeak' /\ JobCountExact'
  <1>1. Mapped' = Mapped
    BY DEF Mapped
  <1>2. JobCountExact'
    BY <1>1 DEF IInv, JobCountExact
  <1>3. OneOwner'
    BY <1>1 DEF IInv, OneOwner
  <1>4. {job'[t] : t \in Submitting'} = {job[t] : t \in Submitting}
    OBVIOUS
  <1>5. NoJobLeak'
    BY <1>1, <1>4 DEF IInv, NoJobLeak
  <1> QED
    BY <1>2, <1>3, <1>5

\* Each action preserves the invariant: the first eight change no owner, the
\* other four add a job, remove one, hand one to its submission or grow one.
LEMMA NextIInv == IInv /\ [Next]_vars => IInv'
  <1> SUFFICES ASSUME IInv, [Next]_vars PROVE IInv'
    OBVIOUS
  <1> USE NullAssumption DEF manager, memory, locals, PCs, Ending, Goto
  <1>1. ASSUME NEW t \in Threads, Call(t) PROVE IInv'
    <2> USE <1>1 DEF Call
    <2>1. Submitting' = Submitting /\ \A u \in Submitting : job'[u] = job[u]
      BY DEF IInv, TypeOK, Submitting
    <2>2. OneOwner' /\ NoJobLeak' /\ JobCountExact'
      BY <2>1, NoOwnerChange
    <2>3. TypeOK'
      BY DEF IInv, TypeOK, LocalInv
    <2>4. LockInv'
      BY DEF IInv, TypeOK, LockInv
    <2>5. LocalInv'
      BY DEF IInv, TypeOK, LocalInv
    <2> QED
      BY <2>2, <2>3, <2>4, <2>5 DEF IInv
  <1>2. ASSUME NEW t \in Threads, RequestCreate(t) PROVE IInv'
    <2> USE <1>2 DEF RequestCreate
    <2>1. Submitting' = Submitting /\ \A u \in Submitting : job'[u] = job[u]
      BY DEF IInv, TypeOK, Submitting
    <2>2. OneOwner' /\ NoJobLeak' /\ JobCountExact'
      BY <2>1, NoOwnerChange
    <2>3. TypeOK'
      BY DEF IInv, TypeOK, LocalInv
    <2>4. LockInv'
      BY DEF IInv, TypeOK, LockInv
    <2>5. LocalInv'
      BY DEF IInv, TypeOK, LocalInv
    <2> QED
      BY <2>2, <2>3, <2>4, <2>5 DEF IInv
  <1>3. ASSUME NEW t \in Threads, CreateFails(t) PROVE IInv'
    <2> USE <1>3 DEF CreateFails, Locks
    <2>1. Submitting' = Submitting /\ \A u \in Submitting : job'[u] = job[u]
      BY DEF IInv, TypeOK, Submitting
    <2>2. OneOwner' /\ NoJobLeak' /\ JobCountExact'
      BY <2>1, NoOwnerChange
    <2>3. TypeOK'
      BY DEF IInv, TypeOK, LocalInv
    <2>4. LockInv'
      BY DEF IInv, TypeOK, LockInv
    <2>5. LocalInv'
      BY DEF IInv, TypeOK, LocalInv
    <2> QED
      BY <2>2, <2>3, <2>4, <2>5 DEF IInv
  <1>4. ASSUME NEW t \in Threads, CancelIoctl(t) PROVE IInv'
    <2> USE <1>4 DEF CancelIoctl, Return
    <2>1. Submitting' = Submitting /\ \A u \in Submitting : job'[u] = job[u]
      BY DEF IInv, TypeOK, Submitting
    <2>2. OneOwner' /\ NoJobLeak' /\ JobCountExact'
      BY <2>1, NoOwnerChange
    <2>3. TypeOK'
      BY DEF IInv, TypeOK, LocalInv
    <2>4. LockInv'
      BY DEF IInv, TypeOK, LockInv
    <2>5. LocalInv'
      BY DEF IInv, TypeOK, LocalInv
    <2> QED
      BY <2>2, <2>3, <2>4, <2>5 DEF IInv
  <1>5. ASSUME NEW t \in Threads, SubmitIoctl(t) PROVE IInv'
    <2> USE <1>5 DEF SubmitIoctl
    <2>1. Submitting' = Submitting /\ \A u \in Submitting : job'[u] = job[u]
      BY DEF IInv, TypeOK, Submitting
    <2>2. OneOwner' /\ NoJobLeak' /\ JobCountExact'
      BY <2>1, NoOwnerChange
    <2>3. TypeOK'
      BY DEF IInv, TypeOK, LocalInv
    <2>4. LockInv'
      BY DEF IInv, TypeOK, LockInv
    <2>5. LocalInv'
      BY DEF IInv, TypeOK, LocalInv
    <2> QED
      BY <2>2, <2>3, <2>4, <2>5 DEF IInv
  <1>6. ASSUME NEW t \in Threads, ConfigFind(t) PROVE IInv'
    <2> USE <1>6 DEF ConfigFind, Locks, rga_map_find_job
    <2>1. Submitting' = Submitting /\ \A u \in Submitting : job'[u] = job[u]
      BY DEF IInv, TypeOK, Submitting
    <2>2. OneOwner' /\ NoJobLeak' /\ JobCountExact'
      BY <2>1, NoOwnerChange
    <2>3. TypeOK'
      BY DEF IInv, TypeOK, LocalInv
    <2>4. LockInv'
      BY DEF IInv, TypeOK, LockInv
    <2>5. LocalInv'
      BY DEF IInv, TypeOK, LocalInv
    <2> QED
      BY <2>2, <2>3, <2>4, <2>5 DEF IInv
  <1>7. ASSUME NEW t \in Threads, ConfigIoctl(t) PROVE IInv'
    <2> USE <1>7 DEF ConfigIoctl, Return
    <2>1. Submitting' = Submitting /\ \A u \in Submitting : job'[u] = job[u]
      BY DEF IInv, TypeOK, Submitting
    <2>2. OneOwner' /\ NoJobLeak' /\ JobCountExact'
      BY <2>1, NoOwnerChange
    <2>3. TypeOK'
      BY DEF IInv, TypeOK, LocalInv
    <2>4. LockInv'
      BY DEF IInv, TypeOK, LockInv
    <2>5. LocalInv'
      BY DEF IInv, TypeOK, LocalInv
    <2> QED
      BY <2>2, <2>3, <2>4, <2>5 DEF IInv
  <1>8. ASSUME NEW t \in Threads, Rejected(t) PROVE IInv'
    <2> USE <1>8 DEF Rejected, Locks, Return, rga_map_find_job
    <2>1. Submitting' = Submitting /\ \A u \in Submitting : job'[u] = job[u]
      BY DEF IInv, TypeOK, Submitting
    <2>2. OneOwner' /\ NoJobLeak' /\ JobCountExact'
      BY <2>1, NoOwnerChange
    <2>3. TypeOK'
      BY DEF IInv, TypeOK, LocalInv
    <2>4. LockInv'
      BY DEF IInv, TypeOK, LockInv
    <2>5. LocalInv'
      BY DEF IInv, TypeOK, LocalInv
    <2> QED
      BY <2>2, <2>3, <2>4, <2>5 DEF IInv
  <1>9. ASSUME NEW t \in Threads, AddTask(t) PROVE IInv'
    <2> USE <1>9 DEF AddTask, Locks, Return, rga_map_find_job, HasRoom
    <2>1. Submitting' = Submitting /\ \A u \in Submitting : job'[u] = job[u]
      BY DEF IInv, TypeOK, Submitting
    <2>2. OneOwner' /\ NoJobLeak' /\ JobCountExact'
      BY <2>1, NoOwnerChange
    <2>3. TypeOK'
      BY MaxAssumption DEF IInv, TypeOK, LocalInv
    <2>4. LockInv'
      BY DEF IInv, TypeOK, LockInv
    <2>5. LocalInv'
      BY DEF IInv, TypeOK, LocalInv
    <2> QED
      BY <2>2, <2>3, <2>4, <2>5 DEF IInv
  <1>10. ASSUME NEW t \in Threads, CreateJob(t) PROVE IInv'
    <2> USE <1>10 DEF CreateJob, Locks, Return, rga_map_find_job
    <2>h. handle[t] \in Handles \ Mapped
      BY DEF IInv, LocalInv, Mapped
    <2>j. PICK j \in Jobs \ heap :
            /\ heap' = heap \cup {j}
            /\ task_count' = [task_count EXCEPT ![j] = 0]
            /\ job_map' = [job_map EXCEPT ![handle[t]] = j]
      OBVIOUS
    <2>1. Submitting' = Submitting /\ \A u \in Submitting : job'[u] = job[u]
      BY DEF IInv, TypeOK, Submitting
    <2>2. Mapped' = Mapped \cup {handle[t]} /\ \A g \in Mapped : job_map'[g] = job_map[g]
      BY <2>h, <2>j DEF IInv, TypeOK, Mapped
    <2>3. job_map'[handle[t]] = j
      BY <2>h, <2>j DEF IInv, TypeOK
    <2>4. JobCountExact'
      <3>1. Mapped \in SUBSET Handles
        BY DEF Mapped
      <3> QED
        BY <2>2, <2>h, <3>1, CountingHandles DEF IInv, JobCountExact
    <2>5. NoJobLeak'
      BY <2>1, <2>2, <2>3, <2>j DEF IInv, NoJobLeak
    <2>6. OneOwner'
      <3>1. /\ \A g \in Mapped : job_map[g] # j
            /\ \A u \in Submitting : job[u] # j
        BY <2>j DEF IInv, NoJobLeak
      <3> QED
        BY <2>1, <2>2, <2>3, <3>1 DEF IInv, OneOwner
    <2>7. TypeOK'
      BY <2>j, <2>h, MaxAssumption DEF IInv, TypeOK
    <2>8. LockInv'
      BY <2>j DEF IInv, TypeOK, LockInv
    <2>9. LocalInv'
      BY DEF IInv, TypeOK, LocalInv
    <2> QED
      BY <2>4, <2>5, <2>6, <2>7, <2>8, <2>9 DEF IInv
  <1>11. ASSUME NEW t \in Threads, CancelRemove(t) PROVE IInv'
    <2> USE <1>11 DEF CancelRemove, Locks, rga_map_find_job, rga_map_delete_job
    <2>1. Submitting' = Submitting /\ \A u \in Submitting : job'[u] = job[u]
      BY DEF IInv, TypeOK, Submitting
    <2>2. TypeOK'
      BY DEF IInv, TypeOK
    <2>3. LockInv'
      BY DEF IInv, TypeOK, LockInv
    <2>4. LocalInv'
      BY DEF IInv, TypeOK, LocalInv
    <2>5. CASE job_map[handle[t]] = Null
      <3>1. OneOwner' /\ NoJobLeak' /\ JobCountExact'
        BY <2>1, <2>5, NoOwnerChange
      <3> QED
        BY <3>1, <2>2, <2>3, <2>4 DEF IInv
    <2>6. CASE job_map[handle[t]] # Null
      <3> USE <2>6
      <3>h. handle[t] \in Mapped
        BY DEF IInv, LocalInv, Mapped
      <3>1. Mapped' = Mapped \ {handle[t]} /\ \A g \in Mapped' : job_map'[g] = job_map[g]
        BY <3>h DEF IInv, TypeOK, Mapped
      <3>2. JobCountExact'
        <4>1. Mapped \in SUBSET Handles
          BY DEF Mapped
        <4> QED
          BY <3>1, <3>h, <4>1, CountingHandles DEF IInv, JobCountExact
      <3>3. NoJobLeak'
        <4>1. heap' = heap \ {job_map[handle[t]]}
          OBVIOUS
        <4>2. /\ \A g \in Mapped : job_map[g] = job_map[handle[t]] <=> g = handle[t]
              /\ \A u \in Submitting : job[u] # job_map[handle[t]]
          BY <3>h DEF IInv, OneOwner
        <4> QED
          BY ONLY IInv, <2>1, <3>1, <3>h, <4>1, <4>2 DEF IInv, NoJobLeak
      <3>4. OneOwner'
        BY <2>1, <3>1 DEF IInv, OneOwner
      <3> QED
        BY <3>2, <3>3, <3>4, <2>2, <2>3, <2>4 DEF IInv
    <2> QED
      BY <2>5, <2>6
  <1>12. ASSUME NEW t \in Threads, SubmitTake(t) PROVE IInv'
    <2> USE <1>12 DEF SubmitTake, Locks, rga_map_find_job, rga_map_delete_job
    <2>h. handle[t] \in Mapped
      BY DEF IInv, LocalInv, Mapped
    <2>1. /\ Submitting' = Submitting \cup {t} /\ t \notin Submitting
          /\ \A u \in Submitting : job'[u] = job[u]
          /\ job'[t] = job_map[handle[t]]
      BY DEF IInv, TypeOK, Submitting
    <2>2. Mapped' = Mapped \ {handle[t]} /\ \A g \in Mapped' : job_map'[g] = job_map[g]
      BY <2>h DEF IInv, TypeOK, Mapped
    <2>3. JobCountExact'
      <3>1. Mapped \in SUBSET Handles
        BY DEF Mapped
      <3> QED
        BY <2>2, <2>h, <3>1, CountingHandles DEF IInv, JobCountExact
    <2>4. NoJobLeak'
      <3>1. heap' = heap
        OBVIOUS
      <3> QED
        BY ONLY IInv, <2>1, <2>2, <2>h, <3>1 DEF IInv, NoJobLeak
    <2>5. OneOwner'
      <3>1. /\ \A g \in Mapped : job_map[g] = job_map[handle[t]] <=> g = handle[t]
            /\ \A u \in Submitting : job[u] # job_map[handle[t]]
        BY <2>h DEF IInv, OneOwner
      <3> QED
        BY ONLY IInv, <2>1, <2>2, <3>1 DEF IInv, OneOwner
    <2>6. TypeOK'
      BY DEF IInv, TypeOK, LocalInv
    <2>7. LockInv'
      BY DEF IInv, TypeOK, LockInv
    <2>8. LocalInv'
      BY DEF IInv, TypeOK, LocalInv
    <2> QED
      BY <2>3, <2>4, <2>5, <2>6, <2>7, <2>8 DEF IInv
  <1>13. ASSUME NEW t \in Threads, SubmitFree(t) PROVE IInv'
    <2> USE <1>13 DEF SubmitFree, Return
    <2>1. /\ Submitting' = Submitting \ {t} /\ t \in Submitting
          /\ \A u \in Submitting' : job'[u] = job[u]
      BY DEF IInv, TypeOK, Submitting
    <2>2. Mapped' = Mapped /\ job_map' = job_map
      BY DEF Mapped
    <2>3. JobCountExact'
      BY <2>2 DEF IInv, JobCountExact
    <2>4. NoJobLeak'
      <3>1. heap' = heap \ {job[t]}
        OBVIOUS
      <3>2. /\ \A g \in Mapped : job_map[g] # job[t]
            /\ \A u \in Submitting : job[u] = job[t] <=> u = t
        BY <2>1 DEF IInv, OneOwner
      <3> QED
        BY ONLY IInv, <2>1, <2>2, <3>1, <3>2 DEF IInv, NoJobLeak
    <2>5. OneOwner'
      BY <2>1, <2>2 DEF IInv, OneOwner
    <2>6. TypeOK'
      BY DEF IInv, TypeOK
    <2>7. LockInv'
      BY DEF IInv, TypeOK, LockInv
    <2>8. LocalInv'
      BY DEF IInv, TypeOK, LocalInv
    <2> QED
      BY <2>3, <2>4, <2>5, <2>6, <2>7, <2>8 DEF IInv
  <1>14. CASE UNCHANGED vars
    BY <1>14 DEF vars, IInv, TypeOK, LockInv, LocalInv, OneOwner, NoJobLeak, JobCountExact,
                 Mapped, Submitting
  <1> QED
    BY <1>1, <1>2, <1>3, <1>4, <1>5, <1>6, <1>7, <1>8, <1>9, <1>10, <1>11, <1>12, <1>13, <1>14
    DEF Next, Step

LEMMA SpecIInv == Spec => []IInv
  BY InitIInv, NextIInv, PTL DEF Spec

-----------------------------------------------------------------------------
\* The types of the manager and the tasks: no sequence of calls by any number
\* of threads writes past job->req[RGA_TASK_NUM_MAX].
THEOREM TypeCorrect == Spec => []TypeOK
  <1>1. IInv => TypeOK
    BY DEF IInv
  <1> QED
    BY <1>1, SpecIInv, PTL

\* job_count never drifts from the contents of job_map.
THEOREM CountCorrect == Spec => []JobCountExact
  <1>1. IInv => JobCountExact
    BY DEF IInv
  <1> QED
    BY <1>1, SpecIInv, PTL

\* Neither rga_job_config nor rga_job_submit hands the driver a freed job,
\* whatever handles other threads cancel or submit meanwhile.
THEOREM ReadersAreSafe == Spec => []JobNotFreedWhileRead
  <1>1. IInv => JobNotFreedWhileRead
    <2> SUFFICES ASSUME IInv, NEW t \in Threads, pc[t] \in Reading
                 PROVE  job[t] \in heap
      BY DEF JobNotFreedWhileRead, Reading
    <2>1. CASE pc[t] = "configIoctl"
      <3>1. handle[t] \in Mapped /\ job[t] = job_map[handle[t]]
        BY <2>1 DEF IInv, LockInv, LocalInv, Mapped
      <3> QED
        BY <3>1 DEF IInv, NoJobLeak
    <2>2. CASE pc[t] \in {"submitIoctl", "submitFree"}
      BY <2>2 DEF IInv, NoJobLeak, Submitting
    <2> QED
      BY <2>1, <2>2 DEF Reading
  <1> QED
    BY <1>1, SpecIInv, PTL

\* Every allocated job is owned once, so it is freed exactly once: by the cancel
\* or the submission that took it out of the map.
THEOREM JobsAreOwned == Spec => []JobsAccounted
  <1>1. IInv => JobsAccounted
    BY DEF IInv, JobsAccounted
  <1> QED
    BY <1>1, SpecIInv, PTL

\* No task call changes a job that the driver is reading.
THEOREM ReadTasksAreFixed == Spec => TasksFixedWhileRead
  <1>1. ASSUME IInv, [Next]_vars, NEW t \in Threads, pc[t] \in {"configIoctl", "submitIoctl"}
        PROVE  task_count'[job[t]] = task_count[job[t]]
    <2> USE <1>1, NullAssumption DEF manager, memory, locals
    <2>1. ASSUME NEW u \in Threads, AddTask(u)
          PROVE  task_count'[job[t]] = task_count[job[t]]
      <3> USE <2>1 DEF AddTask, Locks, rga_map_find_job
      <3>1. handle[u] \in Mapped
        BY DEF IInv, LocalInv, Mapped
      <3>2. pc[t] # "configIoctl"
        BY DEF IInv, LockInv
      <3>3. t \in Submitting
        BY <3>2 DEF Submitting
      <3>4. job[t] # job_map[handle[u]]
        BY <3>1, <3>3 DEF IInv, OneOwner
      <3> QED
        BY <3>4 DEF IInv, TypeOK
    <2>2. ASSUME NEW u \in Threads, CreateJob(u)
          PROVE  task_count'[job[t]] = task_count[job[t]]
      <3> USE <2>2 DEF CreateJob, Locks
      <3>1. pc[t] # "configIoctl"
        BY DEF IInv, LockInv
      <3>2. job[t] \in heap
        BY <3>1 DEF IInv, NoJobLeak, Submitting
      <3> QED
        BY <3>2 DEF IInv, TypeOK
    <2>3. CASE task_count' = task_count
      BY <2>3
    <2> QED
      BY <2>1, <2>2, <2>3
      DEF Next, Step, vars, Call, RequestCreate, CreateFails, CancelRemove, CancelIoctl,
          SubmitTake, SubmitIoctl, SubmitFree, ConfigFind, ConfigIoctl, Rejected
  <1>2. IInv /\ [Next]_vars =>
          [\A t \in Threads : pc[t] \in {"configIoctl", "submitIoctl"} =>
             task_count'[job[t]] = task_count[job[t]]]_vars
    BY <1>1
  <1> QED
    BY <1>2, SpecIInv, PTL DEF Spec, TasksFixedWhileRead

-----------------------------------------------------------------------------
LEMMA InitEndInv == Init => EndInv
  BY DEF Init, EndInv, MapBacked, Relies, Relying, Mapped

LEMMA NextEndInv == IInv /\ EndInv /\ [Next]_vars => EndInv'
  <1> SUFFICES ASSUME IInv, EndInv, [Next]_vars PROVE EndInv'
    OBVIOUS
  <1> USE NullAssumption, OwnedAssumption
      DEF manager, memory, locals, Ending, Relying, Relies, Goto, EndInv, MapBacked
  <1>1. ASSUME NEW t \in Threads, Call(t) PROVE EndInv'
    BY <1>1 DEF Call, Mapped, IInv, TypeOK, LocalInv
  <1>2. ASSUME NEW t \in Threads, RequestCreate(t) PROVE EndInv'
    BY <1>2 DEF RequestCreate, Mapped, IInv, TypeOK, LocalInv
  <1>3. ASSUME NEW t \in Threads, CreateJob(t) PROVE EndInv'
    BY <1>3 DEF CreateJob, Locks, Return, rga_map_find_job, Mapped, IInv, TypeOK, LocalInv
  <1>4. ASSUME NEW t \in Threads, CreateFails(t) PROVE EndInv'
    BY <1>4 DEF CreateFails, Locks, Mapped, IInv, TypeOK, LocalInv
  <1>5. ASSUME NEW t \in Threads, CancelRemove(t) PROVE EndInv'
    BY <1>5 DEF CancelRemove, Locks, rga_map_find_job, rga_map_delete_job, Mapped, IInv, TypeOK, LocalInv
  <1>6. ASSUME NEW t \in Threads, CancelIoctl(t) PROVE EndInv'
    BY <1>6 DEF CancelIoctl, Return, Mapped, IInv, TypeOK, LocalInv
  <1>7. ASSUME NEW t \in Threads, SubmitTake(t) PROVE EndInv'
    BY <1>7 DEF SubmitTake, Locks, rga_map_find_job, rga_map_delete_job, Mapped, IInv, TypeOK, LocalInv
  <1>8. ASSUME NEW t \in Threads, SubmitIoctl(t) PROVE EndInv'
    BY <1>8 DEF SubmitIoctl, Mapped, IInv, TypeOK, LocalInv
  <1>9. ASSUME NEW t \in Threads, SubmitFree(t) PROVE EndInv'
    BY <1>9 DEF SubmitFree, Return, Mapped, IInv, TypeOK, LocalInv
  <1>10. ASSUME NEW t \in Threads, ConfigFind(t) PROVE EndInv'
    BY <1>10 DEF ConfigFind, Locks, Mapped, IInv, TypeOK, LocalInv
  <1>11. ASSUME NEW t \in Threads, ConfigIoctl(t) PROVE EndInv'
    BY <1>11 DEF ConfigIoctl, Return, Mapped, IInv, TypeOK, LocalInv
  <1>12. ASSUME NEW t \in Threads, AddTask(t) PROVE EndInv'
    BY <1>12 DEF AddTask, Locks, Return, Mapped, IInv, TypeOK, LocalInv
  <1>13. ASSUME NEW t \in Threads, Rejected(t) PROVE EndInv'
    BY <1>13 DEF Rejected, Locks, Return, Mapped, IInv, TypeOK, LocalInv
  <1>14. CASE UNCHANGED vars
    BY <1>14 DEF vars, Mapped
  <1> QED
    BY <1>1, <1>2, <1>3, <1>4, <1>5, <1>6, <1>7, <1>8, <1>9, <1>10, <1>11, <1>12, <1>13, <1>14
    DEF Next, Step

\* Under a handle that the application ends once, imendJob submits only requests the
\* driver still has for that job...
THEOREM MapIsBacked == Spec => []MapBacked
  <1>1. EndInv => MapBacked
    BY DEF EndInv
  <1>2. Spec => []EndInv
    BY SpecIInv, InitEndInv, NextEndInv, PTL DEF Spec
  <1> QED
    BY <1>1, <1>2, PTL

\* ...and imbeginJob never collides with a job it knows already.
THEOREM HandlesAreFresh == Spec => []FreshHandle
  <1>1. EndInv => FreshHandle
    BY DEF EndInv, FreshHandle, Relies, Relying
  <1>2. Spec => []EndInv
    BY SpecIInv, InitEndInv, NextEndInv, PTL DEF Spec
  <1> QED
    BY <1>1, <1>2, PTL
=============================================================================
