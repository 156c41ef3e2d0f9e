--------------------------- MODULE Im2dFencesProofs ---------------------------
(***************************************************************************)
(* Proofs about the fences of the im2d calls, for any number of            *)
(* descriptors, calls and array items, and any borders.                    *)
(***************************************************************************)
EXTENDS Im2dFences, TLAPS

Names == {"task", "copy", "fill", "tb", "lr"}
TaskIds == Nat \X Names \X Nat
Requests == [tasks : SUBSET TaskIds, wait : SUBSET TaskIds]
FdOrNone == Fds \cup {-1}
Kind == {"none", "improcess", "RgaBlit", "array", "immakeBorder"}

Entry == {"improcess", "RgaBlit", "immakeBorder"}
InArray == {"array", "merge", "arrayEnd"}
InBorder == {"zero", "begin", "endTb", "begin2", "finishSync", "endSync", "end"}

Types ==
  /\ owner \in [Fds -> {"free", "lib", "app", "env"}]
  /\ covers \in [Fds -> SUBSET TaskIds]
  /\ pending \subseteq Requests /\ submitted \subseteq TaskIds
  /\ calls \in Nat /\ i \in Nat /\ pc \in PCs
  /\ args.acquire \in FdOrNone /\ args.kind \in Kind
  /\ release \in FdOrNone /\ tmp \in FdOrNone /\ copy \in FdOrNone

\* Where the call is and what it was asked for.
PhaseInv ==
  /\ pc = "idle" => args.kind = "none"
  /\ pc \in Entry => args.kind = pc
  /\ pc \in InArray => args.kind = "array"
  /\ pc \in InBorder => args.kind = "immakeBorder"
  /\ pc \in {"idle", "array"} \cup Entry => (i = 0 => submitted = {} /\ tmp = -1)
  /\ pc \in {"idle"} \cup Entry \cup InBorder => i = 0
  /\ pc = "idle" => ~dropped
  /\ args.kind \in {"immakeBorder", "improcess", "RgaBlit"} => ~dropped
  /\ pc \in {"wait", "finishSync", "endSync"} => args.sync
  /\ pc = "end" => ~args.sync
  /\ pc = "zero" => args.border = {}
  /\ pc \in {"begin", "end"} /\ ~args.sync => args.border # {}
  /\ pc \in {"endTb", "begin2"} => args.border # {}
  /\ pc = "endTb" => args.type = "REFLECT"
  /\ args.kind = "array" => args.acquire = -1 /\ args.type # "UNKNOWN" /\ (args.sync => tmp = -1)

\* A task is in one request, and the tasks of the running call are in submitted,
\* so a task that is about to be submitted is new.
TaskInv ==
  /\ \A q, r \in pending : q.tasks \cap r.tasks # {} => q = r
  /\ \A t \in Unfinished : t[1] <= calls
  /\ pc \notin {"idle", "returned"} => \A t \in Unfinished : t[1] = calls => t \in submitted
  /\ \A t \in submitted : t[1] = calls
  /\ args.kind = "array" => \A t \in submitted : IF pc = "array" THEN t[3] < i ELSE t[3] <= i
  /\ pc \in InBorder => \A t \in submitted : t[2] \in {"copy", "tb"}
  /\ pc \in {"zero", "begin", "endTb"} => \A t \in submitted : t[2] = "copy"

Open == submitted \cap Unfinished
Holds(f) == f \in Fds /\ owner[f] = "lib"

\* What is not finished yet is behind a fence that the call has, or was waited
\* for.
ArrayInv ==
  pc \in InArray =>
    /\ tmp # -1 => owner[tmp] = "lib"
    /\ args.sync => Open = {}
    /\ ~args.sync /\ pc = "merge" => Holds(release)
    /\ ~args.sync /\ ~dropped =>
         /\ Open \subseteq WaitsFor(tmp) \cup (IF pc = "merge" THEN WaitsFor(release) ELSE {})
         /\ pc = "arrayEnd" => tmp # -1
BorderInv ==
  pc \in InBorder =>
    /\ pc = "endSync" \/ (pc # "zero" /\ args.border = {}) => Open = {}
    /\ pc # "endSync" /\ (pc = "zero" \/ args.border # {}) => Holds(copy) /\ Open \subseteq covers[copy]
ReturnInv ==
  pc = "returned" /\ status = "SUCCESS" /\ ~LosesFence =>
    IF args.sync THEN Open = {}
    ELSE release \in Fds /\ owner[release] = "app" /\ Open \subseteq covers[release]

\* The acquire fence is the caller's until the call that takes it has consumed it.
AcquireInv ==
  args.acquire # -1 =>
    /\ pc \in Entry => owner[args.acquire] = "app"
    /\ pc \in InBorder => owner[args.acquire] # "app"
    /\ pc = "wait" /\ args.kind = "immakeBorder" => owner[args.acquire] # "app"

\* The left and right wait for the copy and the top and bottom of their call.
OrderInv ==
  \A r \in pending, n \in Nat : <<n, "lr", 0>> \in r.tasks =>
    Unfinished \cap {<<n, "copy", 0>>, <<n, "tb", 0>>} \subseteq r.wait

FenceInv == /\ Types /\ PhaseInv /\ TaskInv /\ ArrayInv /\ BorderInv /\ ReturnInv /\ AcquireInv
            /\ AcquireConsumed /\ OrderInv

-----------------------------------------------------------------------------
\* A number is a descriptor, or -1 for none.
LEMMA FdFacts ==
  /\ -1 \in FdOrNone /\ -1 \notin Fds /\ Fds \subseteq FdOrNone
  /\ \A f \in FdOrNone : /\ f # -1 <=> f \in Fds
                         /\ f >= 0 <=> f \in Fds
                         /\ f < 0 <=> f \notin Fds
                         /\ f > 0 <=> f \in Fds
                         /\ f <= 0 <=> f \notin Fds
  BY FdsAssumption DEF FdOrNone

\* What an application can ask for.
LEMMA ArgumentFacts ==
  ASSUME NEW a \in Arguments
  PROVE  /\ a.kind \in Kind \ {"none"} /\ a.acquire \in FdOrNone
         /\ a.kind = "array" => a.acquire = -1 /\ a.type # "UNKNOWN"
         /\ a.kind = "RgaBlit" => a.sync = FALSE
         /\ a.kind # "immakeBorder" => a.border = {}
  BY InputAssumption DEF Arguments, Kind, FdOrNone

LEMMA FreeFacts ==
  ASSUME NEW f \in Free
  PROVE  f \in Fds /\ owner[f] = "free"
  BY DEF Free

\* close() frees one number and no other.
LEMMA ClosedFacts ==
  ASSUME Types, NEW f \in FdOrNone
  PROVE  /\ Closed(f, owner) \in [Fds -> {"free", "lib", "app", "env"}]
         /\ \A g \in Fds : Closed(f, owner)[g] = IF g = f THEN "free" ELSE owner[g]
  BY DEF Closed, Types

\* The driver takes over new tasks: they are unfinished from now on, and in one
\* request.
LEMMA Queued ==
  ASSUME Types, TaskInv, NEW T \in SUBSET TaskIds, NEW W \in SUBSET TaskIds,
         pending' = pending \cup {[tasks |-> T, wait |-> W]}, T \cap Unfinished = {}
  PROVE  /\ Unfinished' = Unfinished \cup T
         /\ pending' \subseteq Requests
         /\ \A q, r \in pending' : q.tasks \cap r.tasks # {} => q = r
         /\ \A r \in pending' : r \in pending \/ (r.tasks = T /\ r.wait = W)
  <1> DEFINE new == [tasks |-> T, wait |-> W]
  <1>1. new \in Requests /\ new.tasks = T /\ new.wait = W
    BY DEF Requests
  <1> HIDE DEF new
  <1>2. pending' = pending \cup {new}
    BY DEF new
  <1>3. Unfinished' = Unfinished \cup T
    BY <1>1, <1>2 DEF Unfinished
  <1>4. \A r \in pending : r.tasks \subseteq Unfinished
    BY DEF Unfinished
  <1>5. ASSUME NEW q \in pending', NEW r \in pending', q.tasks \cap r.tasks # {}
        PROVE  q = r
    <2>1. CASE q \in pending /\ r \in pending
      BY <1>5, <2>1 DEF TaskInv
    <2>2. CASE q = new /\ r \in pending
      BY <1>1, <1>4, <1>5, <2>2
    <2>3. CASE q \in pending /\ r = new
      BY <1>1, <1>4, <1>5, <2>3
    <2> QED
      BY <1>2, <2>1, <2>2, <2>3
  <1> QED
    BY <1>1, <1>2, <1>3, <1>5 DEF Types

\* The driver finishes a request: its tasks are gone from everywhere.
LEMMA Ran ==
  ASSUME Types, TaskInv, NEW r \in pending,
         pending' = {[q EXCEPT !.wait = @ \ r.tasks] : q \in pending \ {r}}
  PROVE  /\ Unfinished' = Unfinished \ r.tasks
         /\ pending' \subseteq Requests
         /\ \A p, q \in pending' : p.tasks \cap q.tasks # {} => p = q
         /\ \A p \in pending' : \E q \in pending : p.tasks = q.tasks /\ p.wait = q.wait \ r.tasks
  <1> DEFINE after(q) == [q EXCEPT !.wait = @ \ r.tasks]
  <1>1. \A q \in pending : /\ after(q) \in Requests
                           /\ after(q).tasks = q.tasks /\ after(q).wait = q.wait \ r.tasks
    BY DEF Types, Requests
  <1>2. pending' = {after(q) : q \in pending \ {r}}
    OBVIOUS
  <1> HIDE DEF after
  <1>3. pending' \subseteq Requests
    BY <1>1, <1>2
  <1>4. Unfinished' = Unfinished \ r.tasks
    <2>1. \A q \in pending \ {r} : q.tasks \cap r.tasks = {}
      BY DEF TaskInv
    <2>2. Unfinished' = UNION {q.tasks : q \in pending \ {r}}
      BY <1>1, <1>2 DEF Unfinished
    <2>3. Unfinished = (UNION {q.tasks : q \in pending \ {r}}) \cup r.tasks
      BY DEF Unfinished
    <2> QED
      BY <2>1, <2>2, <2>3
  <1>5. \A p, q \in pending' : p.tasks \cap q.tasks # {} => p = q
    <2> SUFFICES ASSUME NEW p \in pending \ {r}, NEW q \in pending \ {r}, p.tasks \cap q.tasks # {}
                 PROVE  after(p) = after(q)
      BY <1>1, <1>2
    <2> QED
      BY DEF TaskInv
  <1>6. \A p \in pending' : \E q \in pending : p.tasks = q.tasks /\ p.wait = q.wait \ r.tasks
    <2> SUFFICES ASSUME NEW p \in pending'
                 PROVE  \E q \in pending : p.tasks = q.tasks /\ p.wait = q.wait \ r.tasks
      OBVIOUS
    <2>1. PICK q \in pending : p = after(q)
      BY <1>2
    <2> QED
      BY <1>1, <2>1
  <1> QED
    BY <1>3, <1>4, <1>5, <1>6

-----------------------------------------------------------------------------
LEMMA InitFenceInv == Init => FenceInv
  <1> SUFFICES ASSUME Init PROVE FenceInv
    OBVIOUS
  <1>1. Unfinished = {} /\ pending = {}
    BY DEF Init, Unfinished
  <1>2. args.kind = "none" /\ args.acquire = -1 /\ args.type = "none" /\ args.border = {}
    BY DEF Init, Call0
  <1>3. Types
    BY <1>2, FdFacts DEF Init, Types, PCs, Kind
  <1>4. PhaseInv
    BY <1>2 DEF Init, PhaseInv, InArray, InBorder, Entry
  <1>5. TaskInv /\ OrderInv
    BY <1>1, <1>2 DEF Init, TaskInv, OrderInv, InBorder
  <1>6. ArrayInv /\ BorderInv /\ ReturnInv /\ AcquireInv /\ AcquireConsumed
    BY <1>2 DEF Init, ArrayInv, BorderInv, ReturnInv, AcquireInv, AcquireConsumed, InArray, InBorder
  <1> QED
    BY <1>3, <1>4, <1>5, <1>6 DEF FenceInv

\* The driver finishes a request.
LEMMA DriverRunsKeepsInv ==
  ASSUME FenceInv, DriverRuns
  PROVE  FenceInv'
  <1>1. PICK r \in pending :
          /\ pending' = {[q EXCEPT !.wait = @ \ r.tasks] : q \in pending \ {r}}
          /\ covers' = [f \in Fds |-> covers[f] \ r.tasks]
    BY DEF DriverRuns
  <1>2. /\ Unfinished' = Unfinished \ r.tasks
        /\ pending' \subseteq Requests
        /\ \A p, q \in pending' : p.tasks \cap q.tasks # {} => p = q
        /\ \A p \in pending' : \E q \in pending : p.tasks = q.tasks /\ p.wait = q.wait \ r.tasks
    BY <1>1, Ran DEF FenceInv
  <1>3. UNCHANGED <<owner, pc, calls, args, i, submitted, release, tmp, copy, dropped, status>>
    BY DEF DriverRuns, locals
  <1>4. Open' = Open \ r.tasks
    BY <1>2, <1>3 DEF Open
  <1>5. \A f \in Fds : covers'[f] = covers[f] \ r.tasks
    BY <1>1
  <1>6. \A f \in FdOrNone : WaitsFor(f)' = WaitsFor(f) \ r.tasks
    BY <1>5 DEF WaitsFor
  <1>7. Types'
    BY <1>1, <1>2, <1>3 DEF FenceInv, Types
  <1>8. PhaseInv'
    BY <1>3 DEF FenceInv, PhaseInv
  <1>9. TaskInv'
    BY <1>2, <1>3 DEF FenceInv, TaskInv
  <1>10. ArrayInv'
    BY <1>3, <1>4, <1>6 DEF FenceInv, Types, ArrayInv, Holds
  <1>11. BorderInv'
    BY <1>3, <1>4, <1>5 DEF FenceInv, BorderInv, Holds
  <1>12. ReturnInv'
    BY <1>3, <1>4, <1>5 DEF FenceInv, ReturnInv, LosesFence
  <1>13. AcquireInv' /\ AcquireConsumed'
    BY <1>3 DEF FenceInv, AcquireInv, AcquireConsumed
  <1>14. OrderInv'
    BY <1>2, <1>3 DEF FenceInv, OrderInv
  <1> QED
    BY <1>7, <1>8, <1>9, <1>10, <1>11, <1>12, <1>13, <1>14 DEF FenceInv

\* Descriptors that are not the call's come and go: the rest of the process opens
\* and closes one, or the application gets a fence while no call runs.
LEMMA OthersKeepInv ==
  ASSUME FenceInv, EnvOpen \/ EnvClose \/ AppOpen
  PROVE  FenceInv'
  <1>1. UNCHANGED <<pending, pc, calls, args, i, submitted, release, tmp, copy, dropped, status>>
    BY DEF EnvOpen, EnvClose, AppOpen, driver, locals
  <1>2. PICK f \in Fds :
          /\ owner[f] \in {"free", "env"}
          /\ \E w \in {"free", "env", "app"} : owner' = [owner EXCEPT ![f] = w] /\ (w = "app" => pc = "idle")
          /\ covers' = covers \/ covers' = [covers EXCEPT ![f] = {}]
    BY DEF EnvOpen, EnvClose, AppOpen, Free, Closed
  <1>3. Unfinished' = Unfinished /\ Open' = Open
    BY <1>1 DEF Unfinished, Open
  <1>4. /\ \A g \in Fds : owner[g] \in {"lib", "app"} => owner'[g] = owner[g] /\ covers'[g] = covers[g]
        /\ \A g \in Fds : pc # "idle" /\ owner'[g] = "app" => owner[g] = "app"
    BY <1>2 DEF FenceInv, Types
  <1>5. \A g \in FdOrNone : g = -1 \/ owner[g] \in {"lib", "app"} => WaitsFor(g)' = WaitsFor(g)
    BY <1>4, FdFacts DEF WaitsFor
  <1>6. Types'
    BY <1>1, <1>2 DEF FenceInv, Types
  <1>7. PhaseInv' /\ TaskInv' /\ OrderInv'
    BY <1>1, <1>3 DEF FenceInv, PhaseInv, TaskInv, OrderInv
  <1>8. ArrayInv'
    BY <1>1, <1>3, <1>4, <1>5, FdFacts DEF FenceInv, Types, ArrayInv, Holds
  <1>9. BorderInv'
    BY <1>1, <1>3, <1>4 DEF FenceInv, BorderInv, Holds
  <1>10. ReturnInv'
    BY <1>1, <1>3, <1>4 DEF FenceInv, ReturnInv, LosesFence
  <1>11. AcquireInv' /\ AcquireConsumed'
    BY <1>1, <1>4, FdFacts DEF FenceInv, Types, AcquireInv, AcquireConsumed, Entry, InBorder
  <1> QED
    BY <1>6, <1>7, <1>8, <1>9, <1>10, <1>11 DEF FenceInv

-----------------------------------------------------------------------------
(* The application                                                         *)

LEMMA CallKeepsInv ==
  ASSUME FenceInv, Call
  PROVE  FenceInv'
  <1>1. /\ pc = "idle" /\ calls' = calls + 1 /\ args' \in Arguments /\ pc' = args'.kind
        /\ args'.acquire # -1 => owner[args'.acquire] = "app"
        /\ UNCHANGED <<owner, covers, pending, i, submitted, release, tmp, copy, dropped, status>>
    BY DEF Call, Goto, descriptors, driver
  <1>2. /\ args'.kind \in Kind \ {"none"} /\ args'.acquire \in FdOrNone
        /\ args'.kind = "array" => args'.acquire = -1 /\ args'.type # "UNKNOWN"
    BY <1>1, ArgumentFacts
  <1>3. i = 0 /\ submitted = {} /\ tmp = -1 /\ ~dropped
    BY <1>1 DEF FenceInv, PhaseInv
  <1>4. pc' \in Entry \cup {"array"} /\ pc' \notin InBorder /\ pc' \in PCs
    BY <1>1, <1>2 DEF Kind, Entry, InBorder, PCs
  <1>5. Unfinished' = Unfinished /\ Open' = {}
    BY <1>1, <1>3 DEF Unfinished, Open
  <1>6. Types'
    BY <1>1, <1>2, <1>4 DEF FenceInv, Types, Kind
  <1>7. PhaseInv'
    BY <1>1, <1>2, <1>3, <1>4 DEF PhaseInv, Entry, InArray, InBorder
  <1>8. TaskInv'
    BY <1>1, <1>3, <1>4, <1>5 DEF FenceInv, Types, TaskInv, InBorder, TaskIds, Unfinished, Requests
  <1>9. ArrayInv'
    BY <1>1, <1>3, <1>4, <1>5 DEF ArrayInv, InArray, Entry
  <1>10. BorderInv' /\ ReturnInv' /\ AcquireConsumed'
    BY <1>4 DEF BorderInv, ReturnInv, AcquireConsumed, Entry
  <1>11. AcquireInv'
    BY <1>1, <1>4 DEF AcquireInv, Entry
  <1>12. OrderInv'
    BY <1>1, <1>5 DEF FenceInv, OrderInv
  <1> QED
    BY <1>6, <1>7, <1>8, <1>9, <1>10, <1>11, <1>12 DEF FenceInv

LEMMA AppReturnKeepsInv ==
  ASSUME FenceInv, AppReturn
  PROVE  FenceInv'
  <1>1. /\ pc' = "idle" /\ args' = Call0 /\ i' = 0 /\ submitted' = {} /\ tmp' = -1 /\ copy' = -1 /\ dropped' = FALSE
        /\ UNCHANGED <<covers, pending, calls, release, status>>
    BY DEF AppReturn, Goto, driver
  <1>2. owner' \in [Fds -> {"free", "lib", "app", "env"}]
    BY ClosedFacts DEF AppReturn, imsyncOk, imsyncFails, FenceInv, Types
  <1>3. args'.kind = "none" /\ args'.acquire = -1 /\ args'.type = "none"
    BY <1>1 DEF Call0
  <1>4. Unfinished' = Unfinished
    BY <1>1 DEF Unfinished
  <1>5. Types'
    BY <1>1, <1>2, <1>3, FdFacts DEF FenceInv, Types, PCs, Kind
  <1>6. PhaseInv'
    BY <1>1, <1>3 DEF PhaseInv, InArray, InBorder, Entry
  <1>7. TaskInv' /\ OrderInv'
    BY <1>1, <1>3, <1>4 DEF FenceInv, TaskInv, OrderInv, InBorder
  <1>8. ArrayInv' /\ BorderInv' /\ ReturnInv' /\ AcquireInv' /\ AcquireConsumed'
    BY <1>1, <1>3 DEF ArrayInv, BorderInv, ReturnInv, AcquireInv, AcquireConsumed, InArray, InBorder
  <1> QED
    BY <1>5, <1>6, <1>7, <1>8 DEF FenceInv

-----------------------------------------------------------------------------
(* Steps of a call that submit nothing                                     *)

\* A return without success hands out no result.
LEMMA FailKeepsInv ==
  ASSUME FenceInv, pc \notin {"idle", "returned"}, pc' = "returned", status' = "FAILED",
         owner' \in [Fds -> {"free", "lib", "app", "env"}],
         UNCHANGED <<covers, pending, calls, args, i, submitted, tmp, copy, dropped, release>>
  PROVE  FenceInv'
  <1>1. Unfinished' = Unfinished
    BY DEF Unfinished
  <1>2. Types'
    BY DEF FenceInv, Types, PCs
  <1>3. PhaseInv'
    BY DEF FenceInv, PhaseInv, InArray, InBorder, Entry
  <1>4. TaskInv' /\ OrderInv'
    <2>1. \A t \in submitted : t[3] \in Nat
      BY DEF FenceInv, Types, TaskIds
    <2> QED
      BY <1>1, <2>1 DEF FenceInv, Types, TaskInv, OrderInv, InBorder
  <1>5. ArrayInv' /\ BorderInv' /\ ReturnInv' /\ AcquireInv' /\ AcquireConsumed'
    BY DEF ArrayInv, BorderInv, ReturnInv, AcquireInv, AcquireConsumed, InArray, InBorder, Entry
  <1> QED
    BY <1>2, <1>3, <1>4, <1>5 DEF FenceInv

LEMMA FailuresKeepInv ==
  ASSUME FenceInv,
         \/ SubmitFails \/ BorderFails \/ BorderEndFails
         \/ BorderUnknown /\ status' = "FAILED"
         \/ ZeroBorder /\ status' = "FAILED" /\ pc' = "returned" /\ UNCHANGED release
         \/ BorderSync /\ pc' = "returned"
  PROVE  FenceInv'
  <1>1. owner' \in [Fds -> {"free", "lib", "app", "env"}]
    BY ClosedFacts
    DEF SubmitFails, BorderFails, BorderEndFails, BorderUnknown, ZeroBorder, BorderSync, imsyncOk, imsyncFails,
        HandOver, descriptors, FenceInv, Types
  <1>2. /\ pc \notin {"idle", "returned"} /\ pc' = "returned" /\ status' = "FAILED"
        /\ UNCHANGED <<covers, pending, calls, args, i, submitted, tmp, copy, dropped, release>>
    BY DEF SubmitFails, BorderFails, BorderEndFails, BorderUnknown, ZeroBorder, BorderSync, Return, Goto,
           descriptors, driver
  <1> QED
    BY <1>1, <1>2, FailKeepsInv

\* A synchronous submission is finished.
LEMMA SyncDoneKeepsInv ==
  ASSUME FenceInv, SyncDone
  PROVE  FenceInv'
  <1>1. /\ pc = "wait" /\ Open = {} /\ args.sync
        /\ IF args.kind = "array" THEN pc' = "merge" ELSE pc' = "returned" /\ status' = "SUCCESS"
        /\ UNCHANGED <<owner, covers, pending, calls, args, i, submitted, release, tmp, copy, dropped>>
    BY DEF SyncDone, Return, Goto, descriptors, driver, Open, FenceInv, PhaseInv
  <1>2. Unfinished' = Unfinished /\ Open' = {}
    BY <1>1 DEF Unfinished, Open
  <1>3. Types'
    BY <1>1 DEF FenceInv, Types, PCs
  <1>4. PhaseInv'
    BY <1>1 DEF FenceInv, PhaseInv, InArray, InBorder, Entry
  <1>5. TaskInv' /\ OrderInv'
    BY <1>1, <1>2 DEF FenceInv, TaskInv, OrderInv, InBorder
  <1>6. ArrayInv'
    BY <1>1, <1>2 DEF FenceInv, PhaseInv, ArrayInv, InArray
  <1>7. BorderInv' /\ ReturnInv'
    BY <1>1, <1>2 DEF BorderInv, ReturnInv, InBorder, Open
  <1>8. AcquireInv' /\ AcquireConsumed'
    BY <1>1 DEF FenceInv, AcquireInv, AcquireConsumed, Entry, InBorder
  <1> QED
    BY <1>3, <1>4, <1>5, <1>6, <1>7, <1>8 DEF FenceInv

-----------------------------------------------------------------------------
(* The array calls                                                         *)

LEMMA ArrayMergeKeepsInv ==
  ASSUME FenceInv, ArrayMerge
  PROVE  FenceInv'
  <1>1. /\ pc = "merge" /\ i' = i + 1 /\ pc' \in {"array", "arrayEnd"} /\ i' # 0
        /\ UNCHANGED <<pending, calls, args, submitted, release, copy, status>>
    BY DEF ArrayMerge, Goto, driver, FenceInv, Types
  <1>2. Unfinished' = Unfinished /\ Open' = Open
    BY <1>1 DEF Unfinished, Open
  <1>3. args.kind = "array" /\ args.acquire = -1 /\ (args.sync => tmp = -1)
    BY <1>1 DEF FenceInv, PhaseInv, InArray
  <1>a. tmp \in FdOrNone /\ release \in FdOrNone
    BY DEF FenceInv, Types
  \* What the merge does to the fences of the call.
  <1>4. /\ owner' \in [Fds -> {"free", "lib", "app", "env"}] /\ covers' \in [Fds -> SUBSET TaskIds]
        /\ tmp' \in FdOrNone /\ (args.sync => tmp' = -1)
        /\ tmp' # -1 => owner'[tmp'] = "lib"
        /\ ~args.sync /\ ~dropped' => ~dropped /\ tmp' # -1 /\ WaitsFor(tmp) \cup WaitsFor(release) \subseteq WaitsFor(tmp)'
    <2>1. CASE args.sync
      <3>1. UNCHANGED <<tmp, descriptors, dropped>>
        BY <2>1 DEF ArrayMerge, MergeFences
      <3> QED
        BY <1>1, <1>3, <2>1, <3>1 DEF descriptors, FenceInv, Types
    <2>2. CASE ~args.sync /\ tmp \notin Fds
      <3>0. release \in Fds /\ owner[release] = "lib"
        BY <1>1, <2>2 DEF FenceInv, ArrayInv, InArray, Holds
      <3>1. tmp' = release /\ UNCHANGED <<descriptors, dropped>>
        BY <1>a, <2>2, <3>0, FdFacts DEF ArrayMerge, MergeFences
      <3>2. WaitsFor(tmp) = {} /\ WaitsFor(tmp)' = WaitsFor(release)
        BY <2>2, <3>1 DEF WaitsFor, descriptors
      <3> QED
        BY <2>2, <3>0, <3>1, <3>2, FdFacts DEF descriptors, FenceInv, Types
    <2>3. CASE ~args.sync /\ tmp \in Fds
      <3>0. release \in Fds /\ owner[release] = "lib" /\ owner[tmp] = "lib"
        BY <1>1, <2>3, FdFacts DEF FenceInv, ArrayInv, InArray, Holds
      <3>1. rga_sync_merge(tmp, release)
        BY <1>a, <2>3, <3>0, FdFacts DEF ArrayMerge, MergeFences
      <3>2. CASE tmp' = -1 /\ dropped' = TRUE /\ UNCHANGED descriptors
        BY <2>3, <3>2, FdFacts DEF descriptors, FenceInv, Types
      <3>3. CASE \E h \in Free : /\ owner' = [owner EXCEPT ![h] = "lib"]
                                  /\ covers' = [covers EXCEPT ![h] = covers[tmp] \cup covers[release]]
                                  /\ tmp' = h /\ UNCHANGED dropped
        <4>1. PICK h \in Free : /\ owner' = [owner EXCEPT ![h] = "lib"]
                                /\ covers' = [covers EXCEPT ![h] = covers[tmp] \cup covers[release]]
                                /\ tmp' = h /\ UNCHANGED dropped
          BY <3>3
        <4>2. h \in Fds /\ h \in FdOrNone /\ h # -1
          BY FreeFacts, FdFacts
        <4>3. /\ owner' \in [Fds -> {"free", "lib", "app", "env"}] /\ covers' \in [Fds -> SUBSET TaskIds]
              /\ owner'[tmp'] = "lib"
              /\ WaitsFor(tmp) \cup WaitsFor(release) \subseteq WaitsFor(tmp)'
          BY <2>3, <3>0, <4>1, <4>2 DEF FenceInv, Types, WaitsFor
        <4> QED
          BY <2>3, <4>1, <4>2, <4>3
      <3> QED
        BY <3>1, <3>2, <3>3 DEF rga_sync_merge
    <2> QED
      BY <2>1, <2>2, <2>3
  <1>5. Types'
    BY <1>1, <1>4 DEF FenceInv, Types, PCs
  <1>6. PhaseInv'
    BY <1>1, <1>3, <1>4 DEF FenceInv, PhaseInv, InArray, InBorder, Entry
  <1>7. TaskInv'
    <2>1. \A t \in submitted : t[3] \in Nat /\ t[3] <= i
      BY <1>1, <1>3 DEF FenceInv, Types, TaskIds, TaskInv
    <2>2. \A t \in submitted : t[3] < i' /\ t[3] <= i'
      BY <1>1, <2>1 DEF FenceInv, Types
    <2> QED
      BY <1>1, <1>2, <2>2 DEF FenceInv, TaskInv, InBorder
  <1>8. ArrayInv'
    BY <1>1, <1>2, <1>4 DEF FenceInv, ArrayInv, InArray
  <1>9. BorderInv' /\ ReturnInv' /\ AcquireInv' /\ AcquireConsumed'
    BY <1>1, <1>3 DEF BorderInv, ReturnInv, AcquireInv, AcquireConsumed, InBorder
  <1>10. OrderInv'
    BY <1>1, <1>2 DEF FenceInv, OrderInv
  <1> QED
    BY <1>5, <1>6, <1>7, <1>8, <1>9, <1>10 DEF FenceInv

LEMMA ArrayEndKeepsInv ==
  ASSUME FenceInv, ArrayEnd
  PROVE  FenceInv'
  <1>1. /\ pc = "arrayEnd" /\ pc' = "returned" /\ release' = tmp /\ owner' = HandOver(tmp)
        /\ UNCHANGED <<covers, pending, calls, args, i, submitted, tmp, copy, dropped>>
    BY DEF ArrayEnd, Return, Goto, driver
  <1>2. Unfinished' = Unfinished /\ Open' = Open
    BY <1>1 DEF Unfinished, Open
  <1>3. args.kind = "array" /\ args.acquire = -1
    BY <1>1 DEF FenceInv, PhaseInv, InArray
  <1>4. owner' \in [Fds -> {"free", "lib", "app", "env"}] /\ (tmp \in Fds => owner'[tmp] = "app")
    BY <1>1, FdFacts DEF HandOver, FenceInv, Types, ArrayInv, InArray
  <1>5. Types'
    BY <1>1, <1>4 DEF FenceInv, Types, PCs
  <1>6. PhaseInv'
    BY <1>1, <1>3 DEF FenceInv, PhaseInv, InArray, InBorder, Entry
  <1>7. TaskInv' /\ OrderInv'
    BY <1>1, <1>2 DEF FenceInv, TaskInv, OrderInv, InBorder
  <1>8. ReturnInv'
    BY <1>1, <1>2, <1>4, FdFacts DEF FenceInv, Types, ArrayInv, InArray, ReturnInv, LosesFence, WaitsFor
  <1>9. ArrayInv' /\ BorderInv' /\ AcquireInv' /\ AcquireConsumed'
    BY <1>1, <1>3 DEF ArrayInv, BorderInv, AcquireInv, AcquireConsumed, InArray, InBorder
  <1> QED
    BY <1>5, <1>6, <1>7, <1>8, <1>9 DEF FenceInv

-----------------------------------------------------------------------------
(* Steps that submit                                                       *)

LEMMA WaitsForType ==
  ASSUME Types, NEW f \in FdOrNone
  PROVE  WaitsFor(f) \in SUBSET TaskIds
  BY DEF Types, WaitsFor

LEMMA TaskFacts ==
  ASSUME Types, NEW name \in Names
  PROVE  /\ Task(name) \in TaskIds
         /\ Task(name)[1] = calls /\ Task(name)[2] = name /\ Task(name)[3] = i
  BY DEF Types, Task, TaskIds

\* A call submits a task that it has not submitted before, the left and right
\* behind everything it has submitted so far.
LEMMA SubmitKeepsTasks ==
  ASSUME FenceInv, pc \notin {"idle", "returned"}, calls' = calls,
         NEW name \in Names, NEW T \in SUBSET {Task(name)}, NEW W \in SUBSET TaskIds,
         pending' = pending \cup {[tasks |-> T, wait |-> W]}, submitted' = submitted \cup T,
         Task(name) \notin submitted,
         name \in {"copy", "tb"} => \A t \in submitted : t[2] # "lr",
         name = "lr" => Open \subseteq W
  PROVE  /\ pending' \subseteq Requests /\ submitted' \subseteq TaskIds
         /\ Open' \subseteq Open \cup T
         /\ \A q, r \in pending' : q.tasks \cap r.tasks # {} => q = r
         /\ \A t \in Unfinished' : t[1] <= calls
         /\ \A t \in Unfinished' : t[1] = calls => t \in submitted'
         /\ \A t \in submitted' : t[1] = calls
         /\ OrderInv'
  <1> USE DEF FenceInv
  <1>1. Task(name) \in TaskIds /\ Task(name)[1] = calls /\ Task(name)[2] = name
    BY TaskFacts
  <1>2. T \in SUBSET TaskIds /\ T \cap Unfinished = {}
    BY <1>1 DEF TaskInv
  <1>3. /\ Unfinished' = Unfinished \cup T
        /\ pending' \subseteq Requests
        /\ \A q, r \in pending' : q.tasks \cap r.tasks # {} => q = r
        /\ \A r \in pending' : r \in pending \/ (r.tasks = T /\ r.wait = W)
    BY <1>2, Queued
  <1>4. \A t \in Unfinished' : t[1] <= calls
    BY <1>1, <1>3 DEF TaskInv, Types
  <1>5. \A t \in Unfinished' : t[1] = calls => t \in submitted'
    BY <1>3 DEF TaskInv
  <1>6. \A t \in submitted' : t[1] = calls
    BY <1>1 DEF TaskInv
  <1>7. Open' \subseteq Open \cup T
    BY <1>1, <1>3 DEF Open, TaskInv
  <1>8. submitted' \subseteq TaskIds
    BY <1>2 DEF Types
  <1>9. OrderInv'
    <2> SUFFICES ASSUME NEW r \in pending', NEW n \in Nat, <<n, "lr", 0>> \in r.tasks,
                        NEW t \in Unfinished', t \in {<<n, "copy", 0>>, <<n, "tb", 0>>}
                 PROVE  t \in r.wait
      BY DEF OrderInv
    <2>0. t[1] = n /\ t[2] \in {"copy", "tb"} /\ <<n, "lr", 0>>[1] = n /\ <<n, "lr", 0>>[2] = "lr"
      OBVIOUS
    <2>1. CASE r \in pending
      <3>1. <<n, "lr", 0>> \in Unfinished
        BY <2>1 DEF Unfinished
      <3>2. t \notin T
        <4> SUFFICES ASSUME t \in T PROVE FALSE
          OBVIOUS
        <4>1. n = calls /\ name \in {"copy", "tb"}
          BY <1>1, <2>0
        <4>2. <<n, "lr", 0>> \in submitted
          BY <2>0, <3>1, <4>1 DEF TaskInv
        <4> QED
          BY <2>0, <4>1, <4>2
      <3> QED
        BY <1>3, <2>1, <3>2 DEF OrderInv
    <2>2. CASE r.tasks = T /\ r.wait = W
      <3>1. n = calls /\ name = "lr" /\ t \notin T
        BY <1>1, <2>0, <2>2
      <3>2. t \in submitted
        BY <1>3, <2>0, <3>1 DEF TaskInv
      <3> QED
        BY <1>3, <2>2, <3>1, <3>2 DEF Open
    <2> QED
      BY <1>3, <2>1, <2>2
  <1> QED
    BY <1>3, <1>4, <1>5, <1>6, <1>7, <1>8, <1>9

\* A new fence takes a number that was free; closing the acquire fence frees one.
LEMMA NewFenceFacts ==
  ASSUME Types, NEW f \in Free, NEW w, NEW T \in SUBSET TaskIds, NEW a \in FdOrNone, NEW o,
         w = "lib" \/ w = "app", o = owner \/ o = Closed(a, owner),
         owner' = [o EXCEPT ![f] = w], covers' = [covers EXCEPT ![f] = WaitsFor(a) \cup T]
  PROVE  /\ f \in Fds /\ owner[f] = "free"
         /\ owner' \in [Fds -> {"free", "lib", "app", "env"}] /\ covers' \in [Fds -> SUBSET TaskIds]
         /\ owner'[f] = w /\ covers'[f] = WaitsFor(a) \cup T
         /\ \A g \in Fds \ {f} : covers'[g] = covers[g] /\ owner'[g] = o[g]
  <1>1. f \in Fds /\ owner[f] = "free"
    BY FreeFacts
  <1>2. WaitsFor(a) \in SUBSET TaskIds
    BY WaitsForType
  <1>3. o \in [Fds -> {"free", "lib", "app", "env"}]
    BY ClosedFacts DEF Types
  <1> QED
    BY <1>1, <1>2, <1>3 DEF Types

LEMMA SubmitSyncKeepsInv ==
  ASSUME FenceInv, SubmitSync
  PROVE  FenceInv'
  <1>1. /\ pc = "improcess" /\ args.sync /\ pc' = "wait" /\ submitted' = {Task("task")}
        /\ pending' = pending \cup {[tasks |-> {Task("task")}, wait |-> WaitsFor(args.acquire)]}
        /\ UNCHANGED <<owner, covers, calls, args, i, release, tmp, copy, dropped>>
    BY DEF SubmitSync, Queue, Goto, descriptors
  <1>2. args.kind = "improcess" /\ i = 0 /\ submitted = {} /\ tmp = -1 /\ args.acquire \in FdOrNone
    BY <1>1 DEF FenceInv, PhaseInv, Types, Entry
  <1>3. /\ pending' \subseteq Requests /\ submitted' \subseteq TaskIds
        /\ \A q, r \in pending' : q.tasks \cap r.tasks # {} => q = r
        /\ \A t \in Unfinished' : t[1] <= calls
        /\ \A t \in Unfinished' : t[1] = calls => t \in submitted'
        /\ \A t \in submitted' : t[1] = calls
        /\ OrderInv'
    <2>1. WaitsFor(args.acquire) \in SUBSET TaskIds
      BY <1>2, WaitsForType DEF FenceInv
    <2>2. "task" \in Names /\ {Task("task")} \in SUBSET {Task("task")} /\ submitted' = submitted \cup {Task("task")}
      BY <1>1, <1>2 DEF Names
    <2> QED
      BY <1>1, <1>2, <2>1, <2>2, SubmitKeepsTasks
  <1>4. Types'
    BY <1>1, <1>3 DEF FenceInv, Types, PCs
  <1>5. PhaseInv'
    BY <1>1, <1>2 DEF FenceInv, PhaseInv, InArray, InBorder, Entry
  <1>6. TaskInv'
    BY <1>1, <1>2, <1>3 DEF TaskInv, InBorder
  <1>7. ArrayInv' /\ BorderInv' /\ ReturnInv' /\ AcquireInv' /\ AcquireConsumed'
    BY <1>1, <1>2 DEF ArrayInv, BorderInv, ReturnInv, AcquireInv, AcquireConsumed, InArray, InBorder, Entry
  <1> QED
    BY <1>3, <1>4, <1>5, <1>6, <1>7 DEF FenceInv

\* A call that takes over its acquire fence and keeps the new one.
LEMMA LibFence ==
  ASSUME Types, NEW f \in Free, NEW T \in SUBSET TaskIds, NEW a \in FdOrNone,
         NewFence(f, "lib", T, a, Closed(a, owner))
  PROVE  /\ f \in Fds /\ owner[f] = "free"
         /\ owner' \in [Fds -> {"free", "lib", "app", "env"}] /\ covers' \in [Fds -> SUBSET TaskIds]
         /\ owner'[f] = "lib" /\ covers'[f] = WaitsFor(a) \cup T
         /\ \A g \in Fds \ {f} : owner'[g] = Closed(a, owner)[g]
  <1> DEFINE o == Closed(a, owner)
             w == "lib"
  <1>1. /\ w = "lib" \/ w = "app"
        /\ o = owner \/ o = Closed(a, owner)
        /\ owner' = [o EXCEPT ![f] = w] /\ covers' = [covers EXCEPT ![f] = WaitsFor(a) \cup T]
    BY DEF NewFence
  <1> HIDE DEF o, w
  <1>2. /\ f \in Fds /\ owner[f] = "free"
        /\ owner' \in [Fds -> {"free", "lib", "app", "env"}] /\ covers' \in [Fds -> SUBSET TaskIds]
        /\ owner'[f] = w /\ covers'[f] = WaitsFor(a) \cup T
        /\ \A g \in Fds \ {f} : covers'[g] = covers[g] /\ owner'[g] = o[g]
    BY <1>1, NewFenceFacts
  <1> QED
    BY <1>2 DEF o, w

\* The acquire fence of a call is closed by the library or by the driver.
LEMMA AcquireIsClosed ==
  ASSUME Types, NEW a \in FdOrNone
  PROVE  UserCloses(a) = Closed(a, owner)
  BY FdFacts DEF UserCloses, DriverCloses, Closed

LEMMA SubmitAsyncKeepsInv ==
  ASSUME FenceInv, SubmitAsync
  PROVE  FenceInv'
  <1>1. /\ pc \in {"improcess", "RgaBlit"} /\ ~args.sync /\ pc' = "returned" /\ submitted' = {Task("task")}
        /\ pending' = pending \cup {[tasks |-> {Task("task")}, wait |-> WaitsFor(args.acquire)]}
        /\ UNCHANGED <<calls, args, i, tmp, copy, dropped>>
    BY DEF SubmitAsync, Queue, Return, Goto
  <1>2. args.kind = pc /\ i = 0 /\ submitted = {} /\ tmp = -1 /\ args.acquire \in FdOrNone /\ ~dropped
    BY <1>1 DEF FenceInv, PhaseInv, Types, Entry
  <1>3. /\ pending' \subseteq Requests /\ submitted' \subseteq TaskIds
        /\ \A q, r \in pending' : q.tasks \cap r.tasks # {} => q = r
        /\ \A t \in Unfinished' : t[1] <= calls
        /\ \A t \in submitted' : t[1] = calls
        /\ OrderInv'
    <2>1. WaitsFor(args.acquire) \in SUBSET TaskIds
      BY <1>2, WaitsForType DEF FenceInv
    <2>2. "task" \in Names /\ {Task("task")} \in SUBSET {Task("task")} /\ submitted' = submitted \cup {Task("task")}
      BY <1>1, <1>2 DEF Names
    <2> QED
      BY <1>1, <1>2, <2>1, <2>2, SubmitKeepsTasks
  <1>4. PICK f \in Free : /\ NewFence(f, "app", {Task("task")}, args.acquire, Closed(args.acquire, owner))
                          /\ release' = f
    BY <1>1, <1>2, AcquireIsClosed DEF SubmitAsync, FenceInv
  <1>5. /\ f \in Fds /\ owner[f] = "free"
        /\ owner' \in [Fds -> {"free", "lib", "app", "env"}] /\ covers' \in [Fds -> SUBSET TaskIds]
        /\ owner'[f] = "app" /\ covers'[f] = WaitsFor(args.acquire) \cup {Task("task")}
        /\ args.acquire # -1 => args.acquire # f /\ owner'[args.acquire] = "free"
    <2>1. {Task("task")} \in SUBSET TaskIds
      BY TaskFacts DEF Names, FenceInv
    <2>2. /\ f \in Fds /\ owner[f] = "free"
          /\ owner' \in [Fds -> {"free", "lib", "app", "env"}] /\ covers' \in [Fds -> SUBSET TaskIds]
          /\ owner'[f] = "app" /\ covers'[f] = WaitsFor(args.acquire) \cup {Task("task")}
          /\ \A g \in Fds \ {f} : owner'[g] = Closed(args.acquire, owner)[g]
      BY <1>2, <1>4, <2>1, NewFenceFacts DEF FenceInv, NewFence
    <2>3. args.acquire # -1 => /\ args.acquire \in Fds /\ owner[args.acquire] = "app"
                               /\ Closed(args.acquire, owner)[args.acquire] = "free"
      BY <1>1, <1>2, FdFacts, ClosedFacts DEF FenceInv, AcquireInv, Entry
    <2> QED
      BY <2>2, <2>3
  <1>6. Types'
    BY <1>1, <1>3, <1>4, <1>5, FdFacts DEF FenceInv, Types, PCs
  <1>7. PhaseInv'
    BY <1>1, <1>2 DEF FenceInv, PhaseInv, InArray, InBorder, Entry
  <1>8. TaskInv'
    BY <1>1, <1>2, <1>3 DEF TaskInv, InBorder
  <1>9. ReturnInv'
    BY <1>1, <1>4, <1>5 DEF ReturnInv, Open
  <1>10. ArrayInv' /\ BorderInv' /\ AcquireInv'
    BY <1>1 DEF ArrayInv, BorderInv, AcquireInv, InArray, InBorder, Entry
  <1>11. AcquireConsumed'
    BY <1>1, <1>5 DEF AcquireConsumed
  <1> QED
    BY <1>3, <1>6, <1>7, <1>8, <1>9, <1>10, <1>11 DEF FenceInv

LEMMA ArrayItemKeepsInv ==
  ASSUME FenceInv, ArrayItem
  PROVE  FenceInv'
  <1> DEFINE T == {Task("task")}
  <1>1. /\ pc = "array" /\ submitted' = submitted \cup T /\ pc' \in {"wait", "merge"}
        /\ pending' = pending \cup {[tasks |-> T, wait |-> WaitsFor(-1)]}
        /\ UNCHANGED <<calls, args, i, tmp, copy, dropped>>
        /\ args.sync => pc' = "wait" /\ UNCHANGED <<owner, covers, release>>
        /\ ~args.sync => /\ pc' = "merge"
                         /\ \E f \in Free : NewFence(f, "lib", T, -1, owner) /\ release' = f
    BY DEF ArrayItem, Queue, Goto, descriptors
  <1>2. args.kind = "array" /\ args.acquire = -1
    BY <1>1 DEF FenceInv, PhaseInv, InArray
  <1>3. /\ "task" \in Names /\ Task("task") \in TaskIds /\ Task("task")[3] = i
        /\ WaitsFor(-1) = {} /\ T \in SUBSET {Task("task")} /\ T \in SUBSET TaskIds
    BY TaskFacts, FdFacts DEF Names, FenceInv, WaitsFor
  <1>4. \A t \in submitted : t[3] \in Nat /\ t[3] < i
    BY <1>1, <1>2 DEF FenceInv, Types, TaskIds, TaskInv
  <1>5. Task("task") \notin submitted
    BY <1>3, <1>4 DEF FenceInv, Types
  <1> HIDE DEF T
  <1>6. /\ pending' \subseteq Requests /\ submitted' \subseteq TaskIds
        /\ Open' \subseteq Open \cup T
        /\ \A q, r \in pending' : q.tasks \cap r.tasks # {} => q = r
        /\ \A t \in Unfinished' : t[1] <= calls
        /\ \A t \in Unfinished' : t[1] = calls => t \in submitted'
        /\ \A t \in submitted' : t[1] = calls
        /\ OrderInv'
    <2>1. WaitsFor(-1) \in SUBSET TaskIds /\ pc \notin {"idle", "returned"}
      BY <1>1, <1>3
    <2> QED
      BY <1>1, <1>3, <1>5, <2>1, SubmitKeepsTasks
  <1>7. /\ owner' \in [Fds -> {"free", "lib", "app", "env"}] /\ covers' \in [Fds -> SUBSET TaskIds]
        /\ release' \in FdOrNone
        /\ ~args.sync => /\ Holds(release)' /\ T \subseteq WaitsFor(release)'
                         /\ tmp # -1 => owner'[tmp] = "lib"
                         /\ WaitsFor(tmp)' = WaitsFor(tmp)
    <2>1. CASE args.sync
      BY <1>1, <2>1 DEF FenceInv, Types
    <2>2. CASE ~args.sync
      <3>1. PICK f \in Free : NewFence(f, "lib", T, -1, owner) /\ release' = f
        BY <1>1, <2>2
      <3>2. /\ f \in Fds /\ owner[f] = "free"
            /\ owner' \in [Fds -> {"free", "lib", "app", "env"}] /\ covers' \in [Fds -> SUBSET TaskIds]
            /\ owner'[f] = "lib" /\ covers'[f] = WaitsFor(-1) \cup T
            /\ \A g \in Fds \ {f} : covers'[g] = covers[g] /\ owner'[g] = owner[g]
        BY <1>3, <3>1, FdFacts, NewFenceFacts DEF FenceInv, NewFence
      <3>3. tmp \in FdOrNone /\ (tmp \in Fds => tmp # f /\ owner[tmp] = "lib")
        BY <1>1, <3>2, FdFacts DEF FenceInv, Types, ArrayInv, InArray
      <3> QED
        BY <1>1, <3>1, <3>2, <3>3, FdFacts DEF Holds, WaitsFor
    <2> QED
      BY <2>1, <2>2
  <1>8. Types'
    BY <1>1, <1>6, <1>7 DEF FenceInv, Types, PCs
  <1>9. PhaseInv'
    BY <1>1, <1>2 DEF FenceInv, PhaseInv, InArray, InBorder, Entry
  <1>10. TaskInv'
    <2>1. \A t \in submitted' : t[3] <= i
      BY <1>1, <1>3, <1>4 DEF FenceInv, Types, T
    <2> QED
      BY <1>1, <1>6, <2>1 DEF TaskInv, InBorder
  <1>11. ArrayInv'
    BY <1>1, <1>6, <1>7 DEF FenceInv, ArrayInv, InArray
  <1>12. BorderInv' /\ ReturnInv' /\ AcquireInv' /\ AcquireConsumed'
    BY <1>1, <1>2 DEF BorderInv, ReturnInv, AcquireInv, AcquireConsumed, InBorder
  <1> QED
    BY <1>6, <1>8, <1>9, <1>10, <1>11, <1>12 DEF FenceInv

-----------------------------------------------------------------------------
(* immakeBorder                                                            *)

LEMMA BorderCopyKeepsInv ==
  ASSUME FenceInv, BorderCopy
  PROVE  FenceInv'
  <1> DEFINE T == {Task("copy")}
  <1>1. /\ pc = "immakeBorder" /\ submitted' = T
        /\ pending' = pending \cup {[tasks |-> T, wait |-> WaitsFor(args.acquire)]}
        /\ UNCHANGED <<calls, args, i, release, tmp, dropped>>
    BY DEF BorderCopy, Queue
  <1>2. args.kind = pc /\ i = 0 /\ submitted = {} /\ tmp = -1 /\ args.acquire \in FdOrNone /\ ~dropped
    BY <1>1 DEF FenceInv, PhaseInv, Types, Entry
  <1>3. "copy" \in Names /\ T \in SUBSET {Task("copy")} /\ T \in SUBSET TaskIds /\ \A t \in T : t[2] = "copy"
    BY TaskFacts DEF Names, FenceInv
  <1>4. PICK f \in Free : NewFence(f, "lib", T, args.acquire, Closed(args.acquire, owner)) /\ copy' = f
    BY <1>1, <1>2, AcquireIsClosed DEF BorderCopy, FenceInv
  <1> HIDE DEF T
  <1>5. /\ pending' \subseteq Requests /\ submitted' \subseteq TaskIds
        /\ \A q, r \in pending' : q.tasks \cap r.tasks # {} => q = r
        /\ \A t \in Unfinished' : t[1] <= calls
        /\ \A t \in Unfinished' : t[1] = calls => t \in submitted'
        /\ \A t \in submitted' : t[1] = calls
        /\ OrderInv'
    <2>1. WaitsFor(args.acquire) \in SUBSET TaskIds /\ submitted' = submitted \cup T
      BY <1>1, <1>2, WaitsForType DEF FenceInv
    <2> QED
      BY <1>1, <1>2, <1>3, <2>1, SubmitKeepsTasks
  <1>6. /\ f \in Fds /\ f \in FdOrNone /\ f > 0
        /\ owner' \in [Fds -> {"free", "lib", "app", "env"}] /\ covers' \in [Fds -> SUBSET TaskIds]
        /\ owner'[f] = "lib" /\ covers'[f] = WaitsFor(args.acquire) \cup T
        /\ args.acquire # -1 => owner'[args.acquire] = "free"
    <2>1. /\ f \in Fds /\ owner[f] = "free"
          /\ owner' \in [Fds -> {"free", "lib", "app", "env"}] /\ covers' \in [Fds -> SUBSET TaskIds]
          /\ owner'[f] = "lib" /\ covers'[f] = WaitsFor(args.acquire) \cup T
          /\ \A g \in Fds \ {f} : owner'[g] = Closed(args.acquire, owner)[g]
      <3>1. /\ Types /\ f \in Free /\ T \in SUBSET TaskIds /\ args.acquire \in FdOrNone
            /\ NewFence(f, "lib", T, args.acquire, Closed(args.acquire, owner))
        BY <1>2, <1>3, <1>4 DEF FenceInv
      <3> QED
        BY ONLY <3>1, LibFence
    <2>2. args.acquire # -1 => /\ args.acquire \in Fds /\ owner[args.acquire] = "app"
                               /\ Closed(args.acquire, owner)[args.acquire] = "free"
      BY <1>1, <1>2, FdFacts, ClosedFacts DEF FenceInv, AcquireInv, Entry
    <2> QED
      BY <2>1, <2>2, FdFacts
  <1>7. pc' = IF args.border # {} THEN "begin" ELSE "zero"
    BY <1>4, <1>6, FdFacts DEF BorderCopy, Goto
  <1>8. Types'
    BY <1>1, <1>4, <1>5, <1>6, <1>7 DEF FenceInv, Types, PCs
  <1>9. PhaseInv'
    BY <1>1, <1>2, <1>7 DEF FenceInv, PhaseInv, InArray, InBorder, Entry
  <1>10. TaskInv'
    BY <1>1, <1>2, <1>3, <1>5, <1>7 DEF TaskInv, InBorder
  <1>11. BorderInv'
    BY <1>1, <1>4, <1>6, <1>7 DEF BorderInv, InBorder, Holds, Open
  <1>12. AcquireInv'
    BY <1>1, <1>6, <1>7 DEF AcquireInv, Entry, InBorder
  <1>13. ArrayInv' /\ ReturnInv' /\ AcquireConsumed'
    BY <1>7 DEF ArrayInv, ReturnInv, AcquireConsumed, InArray
  <1> QED
    BY <1>5, <1>8, <1>9, <1>10, <1>11, <1>12, <1>13 DEF FenceInv

\* The tasks of a job: one task under a name that is new, or none.
LEMMA JobTasksFacts ==
  ASSUME FenceInv, pc \in {"endTb", "endSync", "end"}
  PROVE  \E name \in Names : /\ JobTasks \in SUBSET {Task(name)} /\ Task(name) \notin submitted
                             /\ name \in {"copy", "tb"} => name = "tb" /\ \A t \in submitted : t[2] # "lr"
                             /\ pc = "endTb" <=> name = "tb"
  <1> DEFINE name == IF args.type = "CONSTANT" THEN "fill" ELSE IF pc = "endTb" THEN "tb" ELSE "lr"
  <1>1. name \in Names /\ JobTasks \in SUBSET {Task(name)}
    BY DEF JobTasks, Names
  <1>2. Task(name)[2] = name
    <2> HIDE DEF name
    <2> QED
      BY <1>1, TaskFacts DEF FenceInv
  <1>3. pc = "endTb" <=> name = "tb"
    BY DEF FenceInv, PhaseInv
  <1>4. Task(name) \notin submitted
    BY <1>2 DEF FenceInv, TaskInv, InBorder
  <1>5. name # "copy" /\ \A t \in submitted : t[2] # "lr"
    BY DEF FenceInv, TaskInv, InBorder
  <1> HIDE DEF name
  <1> QED
    BY <1>1, <1>3, <1>4, <1>5

\* The driver takes over a job that waits for all that is open of the call.
LEMMA JobSubmitted ==
  ASSUME FenceInv, pc \in {"endTb", "endSync", "end"}, calls' = calls,
         NEW W \in SUBSET TaskIds, Open \subseteq W,
         pending' = pending \cup {[tasks |-> JobTasks, wait |-> W]}, submitted' = submitted \cup JobTasks
  PROVE  /\ pending' \subseteq Requests /\ submitted' \subseteq TaskIds /\ JobTasks \in SUBSET TaskIds
         /\ Open' \subseteq Open \cup JobTasks
         /\ \A q, r \in pending' : q.tasks \cap r.tasks # {} => q = r
         /\ \A t \in Unfinished' : t[1] <= calls
         /\ \A t \in Unfinished' : t[1] = calls => t \in submitted'
         /\ \A t \in submitted' : t[1] = calls
         /\ pc = "endTb" => \A t \in submitted' : t[2] \in {"copy", "tb"}
         /\ OrderInv'
  <1> DEFINE T == JobTasks
  <1>1. PICK name \in Names : /\ T \in SUBSET {Task(name)} /\ Task(name) \notin submitted
                              /\ name \in {"copy", "tb"} => name = "tb" /\ \A t \in submitted : t[2] # "lr"
                              /\ pc = "endTb" <=> name = "tb"
    BY JobTasksFacts
  <1>2. pending' = pending \cup {[tasks |-> T, wait |-> W]} /\ submitted' = submitted \cup T
    OBVIOUS
  <1>3. Task(name) \in TaskIds /\ Task(name)[2] = name
    BY TaskFacts DEF FenceInv
  <1> HIDE DEF T
  <1>4. /\ pending' \subseteq Requests /\ submitted' \subseteq TaskIds
        /\ Open' \subseteq Open \cup T
        /\ \A q, r \in pending' : q.tasks \cap r.tasks # {} => q = r
        /\ \A t \in Unfinished' : t[1] <= calls
        /\ \A t \in Unfinished' : t[1] = calls => t \in submitted'
        /\ \A t \in submitted' : t[1] = calls
        /\ OrderInv'
    BY <1>1, <1>2, SubmitKeepsTasks
  <1>5. pc = "endTb" => \A t \in submitted' : t[2] \in {"copy", "tb"}
    BY <1>1, <1>2, <1>3 DEF FenceInv, TaskInv
  <1> QED
    BY <1>1, <1>3, <1>4, <1>5 DEF T

\* The fence of the copy is the call's own while an asynchronous job waits for it.
LEMMA CopyIsHeld ==
  ASSUME FenceInv, pc \in {"endTb", "end"}
  PROVE  /\ args.kind = "immakeBorder" /\ i = 0 /\ ~dropped
         /\ copy \in Fds /\ copy \in FdOrNone /\ owner[copy] = "lib" /\ Open \subseteq WaitsFor(copy)
         /\ WaitsFor(copy) \in SUBSET TaskIds
         /\ args.acquire \in FdOrNone
         /\ args.acquire # -1 => args.acquire \in Fds /\ owner[args.acquire] # "app"
  <1>1. args.kind = "immakeBorder" /\ i = 0 /\ ~dropped /\ args.border # {}
    BY DEF FenceInv, PhaseInv, InBorder
  <1>2. Holds(copy) /\ Open \subseteq covers[copy]
    BY <1>1 DEF FenceInv, BorderInv, InBorder
  <1>3. args.acquire \in FdOrNone /\ (args.acquire # -1 => owner[args.acquire] # "app")
    BY DEF FenceInv, Types, AcquireInv, InBorder
  <1>4. WaitsFor(copy) \in SUBSET TaskIds
    BY WaitsForType DEF FenceInv, Types
  <1> QED
    BY <1>1, <1>2, <1>3, <1>4, FdFacts DEF Holds, WaitsFor

LEMMA BorderEndTbKeepsInv ==
  ASSUME FenceInv, BorderEndTb
  PROVE  FenceInv'
  <1> DEFINE T == JobTasks
  <1>1. /\ pc = "endTb" /\ submitted' = submitted \cup T
        /\ pending' = pending \cup {[tasks |-> T, wait |-> WaitsFor(copy)]}
        /\ UNCHANGED <<calls, args, i, release, dropped>>
    BY DEF BorderEndTb, Queue
  <1>2. /\ args.kind = "immakeBorder" /\ i = 0 /\ ~dropped
        /\ copy \in Fds /\ copy \in FdOrNone /\ owner[copy] = "lib" /\ Open \subseteq WaitsFor(copy)
        /\ WaitsFor(copy) \in SUBSET TaskIds
        /\ args.acquire \in FdOrNone
        /\ args.acquire # -1 => args.acquire \in Fds /\ owner[args.acquire] # "app"
    BY <1>1, CopyIsHeld
  <1>3. /\ pending' \subseteq Requests /\ submitted' \subseteq TaskIds /\ T \in SUBSET TaskIds
        /\ Open' \subseteq Open \cup T
        /\ \A q, r \in pending' : q.tasks \cap r.tasks # {} => q = r
        /\ \A t \in Unfinished' : t[1] <= calls
        /\ \A t \in Unfinished' : t[1] = calls => t \in submitted'
        /\ \A t \in submitted' : t[1] = calls
        /\ \A t \in submitted' : t[2] \in {"copy", "tb"}
        /\ OrderInv'
    BY <1>1, <1>2, JobSubmitted
  <1>4. PICK f \in Free : NewFence(f, "lib", T, copy, DriverCloses(copy)) /\ tmp' = f
    BY DEF BorderEndTb
  <1> HIDE DEF T
  <1>5. DriverCloses(copy) = owner \/ DriverCloses(copy) = Closed(copy, owner)
    BY DEF DriverCloses
  <1>6. /\ f \in Fds
        /\ owner' \in [Fds -> {"free", "lib", "app", "env"}] /\ covers' \in [Fds -> SUBSET TaskIds]
        /\ owner'[f] = "lib" /\ covers'[f] = WaitsFor(copy) \cup T
        /\ \A g \in Fds \ {f} : owner'[g] = DriverCloses(copy)[g]
    <2> DEFINE o == DriverCloses(copy)
    <2>1. /\ o = owner \/ o = Closed(copy, owner)
          /\ owner' = [o EXCEPT ![f] = "lib"] /\ covers' = [covers EXCEPT ![f] = WaitsFor(copy) \cup T]
      BY <1>4, <1>5 DEF NewFence
    <2> HIDE DEF o
    <2>2. /\ f \in Fds
          /\ owner' \in [Fds -> {"free", "lib", "app", "env"}] /\ covers' \in [Fds -> SUBSET TaskIds]
          /\ owner'[f] = "lib" /\ covers'[f] = WaitsFor(copy) \cup T
          /\ \A g \in Fds \ {f} : owner'[g] = o[g]
      <3>1. Types /\ copy \in FdOrNone /\ T \in SUBSET TaskIds /\ f \in Free
        BY <1>2, <1>3 DEF FenceInv
      <3> QED
        BY ONLY <2>1, <3>1, NewFenceFacts
    <2> QED
      BY <2>2 DEF o
  <1>7. \A g \in Fds : DriverCloses(copy)[g] = "app" => owner[g] = "app"
    BY <1>2, <1>5, ClosedFacts DEF FenceInv
  <1>8. pc' = "begin2" /\ copy' = f /\ f \in FdOrNone /\ tmp' = f
    BY <1>4, <1>6, FdFacts DEF BorderEndTb, Goto
  <1>9. Types'
    BY <1>1, <1>3, <1>6, <1>8 DEF FenceInv, Types, PCs
  <1>10. PhaseInv'
    BY <1>1, <1>2, <1>8 DEF FenceInv, PhaseInv, InArray, InBorder, Entry
  <1>11. TaskInv'
    BY <1>1, <1>2, <1>3, <1>8 DEF TaskInv, InBorder
  <1>12. BorderInv'
    <2>1. args.border # {}
      BY <1>1 DEF FenceInv, PhaseInv
    <2> QED
      BY <1>1, <1>2, <1>3, <1>6, <1>8, <2>1 DEF BorderInv, InBorder, Holds
  <1>13. AcquireInv'
    <2>1. args.acquire # -1 => owner'[args.acquire] # "app"
      BY <1>2, <1>6, <1>7
    <2> QED
      BY <1>1, <1>8, <2>1 DEF AcquireInv, Entry
  <1>14. ArrayInv' /\ ReturnInv' /\ AcquireConsumed'
    BY <1>8 DEF ArrayInv, ReturnInv, AcquireConsumed, InArray
  <1> QED
    BY <1>3, <1>9, <1>10, <1>11, <1>12, <1>13, <1>14 DEF FenceInv

LEMMA BorderEndKeepsInv ==
  ASSUME FenceInv, BorderEnd
  PROVE  FenceInv'
  <1> DEFINE T == JobTasks
  <1>1. /\ pc = "end" /\ pc' = "returned" /\ submitted' = submitted \cup T
        /\ pending' = pending \cup {[tasks |-> T, wait |-> WaitsFor(copy)]}
        /\ UNCHANGED <<calls, args, i, tmp, copy, dropped>>
    BY DEF BorderEnd, Queue, Return, Goto
  <1>2. /\ args.kind = "immakeBorder" /\ i = 0 /\ ~dropped
        /\ copy \in Fds /\ copy \in FdOrNone /\ owner[copy] = "lib" /\ Open \subseteq WaitsFor(copy)
        /\ WaitsFor(copy) \in SUBSET TaskIds
        /\ args.acquire \in FdOrNone
        /\ args.acquire # -1 => args.acquire \in Fds /\ owner[args.acquire] # "app"
    BY <1>1, CopyIsHeld
  <1>3. /\ pending' \subseteq Requests /\ submitted' \subseteq TaskIds /\ T \in SUBSET TaskIds
        /\ Open' \subseteq Open \cup T
        /\ \A q, r \in pending' : q.tasks \cap r.tasks # {} => q = r
        /\ \A t \in Unfinished' : t[1] <= calls
        /\ \A t \in submitted' : t[1] = calls
        /\ OrderInv'
    BY <1>1, <1>2, JobSubmitted
  <1>4. PICK f \in Free : NewFence(f, "app", T, copy, DriverCloses(copy)) /\ release' = f
    BY DEF BorderEnd
  <1> HIDE DEF T
  <1>5. DriverCloses(copy) = owner \/ DriverCloses(copy) = Closed(copy, owner)
    BY DEF DriverCloses
  <1>6. /\ f \in Fds
        /\ owner' \in [Fds -> {"free", "lib", "app", "env"}] /\ covers' \in [Fds -> SUBSET TaskIds]
        /\ owner'[f] = "app" /\ covers'[f] = WaitsFor(copy) \cup T
        /\ \A g \in Fds \ {f} : owner'[g] = DriverCloses(copy)[g]
    <2> DEFINE o == DriverCloses(copy)
    <2>1. /\ o = owner \/ o = Closed(copy, owner)
          /\ owner' = [o EXCEPT ![f] = "app"] /\ covers' = [covers EXCEPT ![f] = WaitsFor(copy) \cup T]
      BY <1>4, <1>5 DEF NewFence
    <2> HIDE DEF o
    <2>2. /\ f \in Fds
          /\ owner' \in [Fds -> {"free", "lib", "app", "env"}] /\ covers' \in [Fds -> SUBSET TaskIds]
          /\ owner'[f] = "app" /\ covers'[f] = WaitsFor(copy) \cup T
          /\ \A g \in Fds \ {f} : owner'[g] = o[g]
      <3>1. Types /\ copy \in FdOrNone /\ T \in SUBSET TaskIds /\ f \in Free
        BY <1>2, <1>3 DEF FenceInv
      <3> QED
        BY ONLY <2>1, <3>1, NewFenceFacts
    <2> QED
      BY <2>2 DEF o
  <1>7. \A g \in Fds : DriverCloses(copy)[g] = "app" => owner[g] = "app"
    BY <1>2, <1>5, ClosedFacts DEF FenceInv
  <1>8. Types'
    BY <1>1, <1>3, <1>4, <1>6, FdFacts DEF FenceInv, Types, PCs
  <1>9. PhaseInv'
    BY <1>1, <1>2 DEF FenceInv, PhaseInv, InArray, InBorder, Entry
  <1>10. TaskInv'
    BY <1>1, <1>2, <1>3 DEF TaskInv, InBorder
  <1>11. ReturnInv'
    <2>1. ~args.sync
      BY <1>1 DEF FenceInv, PhaseInv
    <2> QED
      BY <1>1, <1>2, <1>3, <1>4, <1>6, <2>1 DEF ReturnInv
  <1>12. AcquireConsumed'
    <2>1. args.acquire # -1 /\ args.acquire # f => owner'[args.acquire] # "app"
      BY <1>2, <1>6, <1>7
    <2> QED
      BY <1>1, <1>4, <2>1 DEF AcquireConsumed
  <1>13. ArrayInv' /\ BorderInv' /\ AcquireInv'
    BY <1>1 DEF ArrayInv, BorderInv, AcquireInv, InArray, InBorder, Entry
  <1> QED
    BY <1>3, <1>8, <1>9, <1>10, <1>11, <1>12, <1>13 DEF FenceInv

LEMMA BorderEndSyncKeepsInv ==
  ASSUME FenceInv, BorderEndSync
  PROVE  FenceInv'
  <1> DEFINE T == JobTasks
  <1>1. /\ pc = "endSync" /\ pc' = "wait" /\ submitted' = submitted \cup T
        /\ pending' = pending \cup {[tasks |-> T, wait |-> WaitsFor(-1)]}
        /\ UNCHANGED <<owner, covers, calls, args, i, release, tmp, copy, dropped>>
    BY DEF BorderEndSync, Queue, Goto, descriptors
  <1>2. args.kind = "immakeBorder" /\ i = 0 /\ ~dropped /\ args.sync
    BY <1>1 DEF FenceInv, PhaseInv, InBorder
  <1>3. WaitsFor(-1) \in SUBSET TaskIds /\ Open \subseteq WaitsFor(-1)
    BY <1>1, FdFacts DEF FenceInv, BorderInv, InBorder, WaitsFor
  <1>4. /\ pending' \subseteq Requests /\ submitted' \subseteq TaskIds
        /\ \A q, r \in pending' : q.tasks \cap r.tasks # {} => q = r
        /\ \A t \in Unfinished' : t[1] <= calls
        /\ \A t \in Unfinished' : t[1] = calls => t \in submitted'
        /\ \A t \in submitted' : t[1] = calls
        /\ OrderInv'
    BY <1>1, <1>3, JobSubmitted
  <1> HIDE DEF T
  <1>5. Types'
    BY <1>1, <1>4 DEF FenceInv, Types, PCs
  <1>6. PhaseInv'
    BY <1>1, <1>2 DEF FenceInv, PhaseInv, InArray, InBorder, Entry
  <1>7. TaskInv'
    BY <1>1, <1>2, <1>4 DEF TaskInv, InBorder
  <1>8. AcquireInv'
    BY <1>1 DEF FenceInv, AcquireInv, InBorder, Entry
  <1>9. ArrayInv' /\ BorderInv' /\ ReturnInv' /\ AcquireConsumed'
    BY <1>1 DEF ArrayInv, BorderInv, ReturnInv, AcquireConsumed, InArray, InBorder
  <1> QED
    BY <1>4, <1>5, <1>6, <1>7, <1>8, <1>9 DEF FenceInv

\* Steps of immakeBorder between the submissions: a border without sides, the
\* tasks of a job, an unknown type, and the wait before a synchronous job.
LEMMA BorderStepFacts ==
  ASSUME FenceInv, pc \in {"zero", "begin", "begin2", "finishSync"},
         pc' \in {"returned"} \cup (InBorder \ {"zero"}), copy' = copy, tmp' = tmp,
         release' \in FdOrNone, owner' \in [Fds -> {"free", "lib", "app", "env"}],
         UNCHANGED <<covers, pending, calls, args, i, submitted, dropped>>,
         pc' \in {"begin", "endTb"} => pc \in {"zero", "begin"}
  PROVE  Types' /\ TaskInv' /\ OrderInv' /\ ArrayInv' /\ Unfinished' = Unfinished /\ Open' = Open
  <1>1. Unfinished' = Unfinished /\ Open' = Open
    BY DEF Unfinished, Open
  <1>2. args.kind = "immakeBorder" /\ pc' \notin InArray \cup {"idle"} /\ pc' \in PCs
    BY DEF FenceInv, PhaseInv, InBorder, InArray, PCs
  <1>3. Types'
    BY <1>2 DEF FenceInv, Types
  <1>4. TaskInv'
    BY <1>1, <1>2 DEF FenceInv, TaskInv, InBorder
  <1>5. OrderInv' /\ ArrayInv'
    BY <1>1, <1>2 DEF FenceInv, OrderInv, ArrayInv
  <1> QED
    BY <1>1, <1>3, <1>4, <1>5

LEMMA ZeroBorderKeepsInv ==
  ASSUME FenceInv, ZeroBorder
  PROVE  FenceInv'
  <1>1. /\ pc = "zero" /\ UNCHANGED <<covers, pending, calls, args, i, submitted, tmp, copy, dropped>>
        /\ \/ ~args.sync /\ release' = copy /\ owner' = HandOver(copy) /\ pc' = "returned"
           \/ args.sync /\ imsyncOk(copy) /\ pc' = "begin" /\ UNCHANGED release
           \/ ZeroBorder /\ status' = "FAILED" /\ pc' = "returned" /\ UNCHANGED release
    BY DEF ZeroBorder, Return, Goto, driver
  <1>2. /\ args.kind = "immakeBorder" /\ i = 0 /\ ~dropped /\ args.border = {}
        /\ copy \in Fds /\ copy \in FdOrNone /\ owner[copy] = "lib" /\ Open \subseteq covers[copy]
        /\ args.acquire \in FdOrNone /\ (args.acquire # -1 => args.acquire \in Fds /\ owner[args.acquire] # "app")
    <2>1. args.acquire \in FdOrNone /\ (args.acquire # -1 => owner[args.acquire] # "app")
      BY <1>1 DEF FenceInv, Types, AcquireInv, InBorder
    <2> QED
      BY <1>1, <2>1, FdFacts DEF FenceInv, Types, PhaseInv, BorderInv, InBorder, Holds
  <1>3. CASE ~args.sync /\ release' = copy /\ owner' = HandOver(copy) /\ pc' = "returned"
    <2>1. /\ owner' \in [Fds -> {"free", "lib", "app", "env"}]
          /\ owner'[copy] = "app" /\ \A g \in Fds \ {copy} : owner'[g] = owner[g]
      BY <1>2, <1>3 DEF HandOver, FenceInv, Types
    <2>2. Types' /\ TaskInv' /\ OrderInv' /\ ArrayInv' /\ Open' = Open
      BY <1>1, <1>2, <1>3, <2>1, BorderStepFacts DEF InBorder
    <2>3. PhaseInv'
      BY <1>1, <1>2, <1>3 DEF FenceInv, PhaseInv, InArray, InBorder, Entry
    <2>4. ReturnInv'
      BY <1>1, <1>2, <1>3, <2>1, <2>2 DEF ReturnInv
    <2>5. AcquireConsumed'
      BY <1>1, <1>2, <1>3, <2>1 DEF AcquireConsumed
    <2>6. BorderInv' /\ AcquireInv'
      BY <1>3 DEF BorderInv, AcquireInv, InBorder, Entry
    <2> QED
      BY <2>2, <2>3, <2>4, <2>5, <2>6 DEF FenceInv
  <1>4. CASE args.sync /\ imsyncOk(copy) /\ pc' = "begin" /\ UNCHANGED release
    <2>1. /\ owner' \in [Fds -> {"free", "lib", "app", "env"}] /\ covers[copy] = {}
          /\ \A g \in Fds : owner'[g] = "app" => owner[g] = "app"
      BY <1>2, <1>4, ClosedFacts DEF imsyncOk, FenceInv
    <2>2. Types' /\ TaskInv' /\ OrderInv' /\ ArrayInv' /\ Open' = {}
      <3>1. release' \in FdOrNone
        BY <1>4 DEF FenceInv, Types
      <3> QED
        BY <1>1, <1>2, <1>4, <2>1, <3>1, BorderStepFacts DEF InBorder
    <2>3. PhaseInv'
      BY <1>1, <1>2, <1>4 DEF FenceInv, PhaseInv, InArray, InBorder, Entry
    <2>4. BorderInv'
      BY <1>1, <1>2, <1>4, <2>2 DEF BorderInv
    <2>5. AcquireInv'
      BY <1>1, <1>2, <1>4, <2>1 DEF AcquireInv, Entry
    <2>6. ReturnInv' /\ AcquireConsumed'
      BY <1>4 DEF ReturnInv, AcquireConsumed
    <2> QED
      BY <2>2, <2>3, <2>4, <2>5, <2>6 DEF FenceInv
  <1>5. CASE ZeroBorder /\ status' = "FAILED" /\ pc' = "returned" /\ UNCHANGED release
    BY <1>5, FailuresKeepInv
  <1> QED
    BY <1>1, <1>3, <1>4, <1>5

LEMMA BorderTasksKeepsInv ==
  ASSUME FenceInv, BorderTasks
  PROVE  FenceInv'
  <1>1. /\ UNCHANGED <<owner, covers, pending, calls, args, i, submitted, release, tmp, copy, dropped, status>>
        /\ \/ pc = "begin" /\ args.type = "REFLECT" /\ "tb" \in args.border /\ pc' = "endTb"
           \/ pc \in {"begin", "begin2"} /\ pc' = IF args.sync THEN "finishSync" ELSE "end"
    BY DEF BorderTasks, Goto, descriptors, driver, locals
  <1>2. pc \in {"begin", "begin2"} /\ pc' \in {"endTb", "finishSync", "end"}
    BY <1>1
  <1>3. Types' /\ TaskInv' /\ OrderInv' /\ ArrayInv' /\ Open' = Open
    <2>1. release' \in FdOrNone /\ owner' \in [Fds -> {"free", "lib", "app", "env"}]
      BY <1>1 DEF FenceInv, Types
    <2> QED
      BY <1>1, <1>2, <2>1, BorderStepFacts DEF InBorder
  <1>4. PhaseInv'
    BY <1>1, <1>2 DEF FenceInv, PhaseInv, InArray, InBorder, Entry
  <1>5. BorderInv'
    BY <1>1, <1>2, <1>3 DEF FenceInv, BorderInv, InBorder, Holds
  <1>6. AcquireInv'
    BY <1>1, <1>2 DEF FenceInv, AcquireInv, InBorder, Entry
  <1>7. ReturnInv' /\ AcquireConsumed'
    BY <1>2 DEF ReturnInv, AcquireConsumed
  <1> QED
    BY <1>3, <1>4, <1>5, <1>6, <1>7 DEF FenceInv

LEMMA BorderUnknownKeepsInv ==
  ASSUME FenceInv, BorderUnknown
  PROVE  FenceInv'
  <1>1. /\ pc = "begin" /\ args.type = "UNKNOWN" /\ pc' = "returned"
        /\ UNCHANGED <<owner, covers, pending, calls, args, i, submitted, release, tmp, copy, dropped>>
    BY DEF BorderUnknown, Return, Goto, descriptors, driver
  <1>2. Types' /\ TaskInv' /\ OrderInv' /\ ArrayInv'
    <2>1. release' \in FdOrNone /\ owner' \in [Fds -> {"free", "lib", "app", "env"}]
      BY <1>1 DEF FenceInv, Types
    <2> QED
      BY <1>1, <2>1, BorderStepFacts DEF InBorder
  <1>3. PhaseInv'
    BY <1>1 DEF FenceInv, PhaseInv, InArray, InBorder, Entry
  <1>4. AcquireConsumed'
    BY <1>1 DEF FenceInv, AcquireInv, AcquireConsumed, InBorder
  <1>5. BorderInv' /\ AcquireInv' /\ ReturnInv'
    BY <1>1 DEF BorderInv, AcquireInv, ReturnInv, LosesFence, InBorder, Entry
  <1> QED
    BY <1>2, <1>3, <1>4, <1>5 DEF FenceInv

LEMMA BorderSyncKeepsInv ==
  ASSUME FenceInv, BorderSync
  PROVE  FenceInv'
  <1>1. CASE pc' = "returned"
    BY <1>1, FailuresKeepInv
  <1>2. CASE pc' # "returned"
    <2>1. /\ pc = "finishSync" /\ pc' = "endSync" /\ imsyncOk(copy)
          /\ UNCHANGED <<covers, pending, calls, args, i, submitted, release, tmp, copy, dropped>>
      BY <1>2 DEF BorderSync, Return, Goto, driver
    <2>2. copy \in FdOrNone /\ release \in FdOrNone /\ args.acquire \in FdOrNone /\ args.sync
      BY <2>1 DEF FenceInv, Types, PhaseInv
    <2>3. /\ owner' \in [Fds -> {"free", "lib", "app", "env"}] /\ covers[copy] = {}
          /\ \A g \in Fds : owner'[g] = "app" => owner[g] = "app"
      BY <2>1, <2>2, ClosedFacts DEF imsyncOk, FenceInv
    <2>4. Open = {}
      BY <2>1, <2>3 DEF FenceInv, BorderInv, InBorder
    <2>5. Types' /\ TaskInv' /\ OrderInv' /\ ArrayInv' /\ Open' = Open
      BY <2>1, <2>2, <2>3, BorderStepFacts DEF InBorder
    <2>6. PhaseInv'
      BY <2>1, <2>2 DEF FenceInv, PhaseInv, InArray, InBorder, Entry
    <2>7. BorderInv'
      BY <2>1, <2>4, <2>5 DEF BorderInv
    <2>8. AcquireInv'
      BY <2>1, <2>2, <2>3, FdFacts DEF FenceInv, AcquireInv, InBorder, Entry
    <2>9. ReturnInv' /\ AcquireConsumed'
      BY <2>1 DEF ReturnInv, AcquireConsumed
    <2> QED
      BY <2>5, <2>6, <2>7, <2>8, <2>9 DEF FenceInv
  <1> QED
    BY <1>1, <1>2

-----------------------------------------------------------------------------
LEMMA StutterKeepsInv ==
  ASSUME FenceInv, UNCHANGED vars
  PROVE  FenceInv'
  <1>1. UNCHANGED <<owner, covers, pending, pc, calls, args, i, submitted, release, tmp, copy, dropped, status>>
    BY DEF vars, descriptors, driver, locals
  <1>2. Unfinished' = Unfinished /\ Open' = Open
    BY <1>1 DEF Unfinished, Open
  <1>3. Types' /\ PhaseInv' /\ TaskInv' /\ OrderInv'
    BY <1>1, <1>2 DEF FenceInv, Types, PhaseInv, TaskInv, OrderInv
  <1>4. ArrayInv' /\ BorderInv' /\ ReturnInv'
    BY <1>1, <1>2 DEF FenceInv, ArrayInv, BorderInv, ReturnInv, LosesFence, Holds, WaitsFor
  <1>5. AcquireInv' /\ AcquireConsumed'
    BY <1>1 DEF FenceInv, AcquireInv, AcquireConsumed
  <1> QED
    BY <1>3, <1>4, <1>5 DEF FenceInv

LEMMA NextFenceInv == FenceInv /\ [Next]_vars => FenceInv'
  <1> SUFFICES ASSUME FenceInv, [Next]_vars PROVE FenceInv'
    OBVIOUS
  <1>1. CASE AppOpen \/ EnvOpen \/ EnvClose
    BY <1>1, OthersKeepInv
  <1>2. CASE DriverRuns
    BY <1>2, DriverRunsKeepsInv
  <1>3. CASE Call
    BY <1>3, CallKeepsInv
  <1>4. CASE AppReturn
    BY <1>4, AppReturnKeepsInv
  <1>5. CASE Single
    BY <1>5, FailuresKeepInv, SubmitSyncKeepsInv, SubmitAsyncKeepsInv, SyncDoneKeepsInv DEF Single
  <1>6. CASE Array
    BY <1>6, ArrayItemKeepsInv, ArrayMergeKeepsInv, ArrayEndKeepsInv DEF Array
  <1>7. CASE Border
    BY <1>7, BorderCopyKeepsInv, ZeroBorderKeepsInv, FailuresKeepInv, BorderTasksKeepsInv, BorderUnknownKeepsInv,
       BorderEndTbKeepsInv, BorderSyncKeepsInv, BorderEndSyncKeepsInv, BorderEndKeepsInv DEF Border
  <1>8. CASE UNCHANGED vars
    BY <1>8, StutterKeepsInv
  <1> QED
    BY <1>1, <1>2, <1>3, <1>4, <1>5, <1>6, <1>7, <1>8 DEF Next, Environment

LEMMA SpecFenceInv == Spec => []FenceInv
  BY InitFenceInv, NextFenceInv, PTL DEF Spec

-----------------------------------------------------------------------------
\* When a call returns success and has lost no fence, everything it gave the
\* driver is finished or is waited for by the fence that the caller receives.
THEOREM ResultIsCovered == Spec => []ResultCovers
  <1>1. FenceInv => ResultCovers
    BY DEF FenceInv, ReturnInv, ResultCovers, Open, WaitsFor
  <1> QED
    BY <1>1, SpecFenceInv, PTL

\* A successful asynchronous call, and every immakeBorder, has consumed its
\* acquire fence.
THEOREM AcquireIsConsumed == Spec => []AcquireConsumed
  <1>1. FenceInv => AcquireConsumed
    BY DEF FenceInv
  <1> QED
    BY <1>1, SpecFenceInv, PTL

-----------------------------------------------------------------------------
\* Only the driver finishes tasks.
LEMMA OnlyDriverFinishes ==
  ASSUME [Next]_vars, ~DriverRuns
  PROVE  Unfinished \subseteq Unfinished'
  <1>1. pending \subseteq pending'
    <2>1. CASE UNCHANGED pending
      BY <2>1
    <2>2. CASE \E T, a : Queue(T, a)
      BY <2>2 DEF Queue
    <2>3. CASE AppOpen \/ EnvOpen \/ EnvClose \/ Call \/ AppReturn \/ UNCHANGED vars
      BY <2>1, <2>3 DEF AppOpen, EnvOpen, EnvClose, Call, AppReturn, vars, driver
    <2>4. CASE Single
      BY <2>1, <2>2, <2>4 DEF Single, SubmitFails, SubmitSync, SubmitAsync, SyncDone, driver
    <2>5. CASE Array
      BY <2>1, <2>2, <2>5 DEF Array, ArrayItem, ArrayMerge, ArrayEnd, driver
    <2>6. CASE Border
      BY <2>1, <2>2, <2>6
      DEF Border, BorderCopy, ZeroBorder, BorderFails, BorderTasks, BorderUnknown, BorderEndTb, BorderEndFails,
          BorderSync, BorderEndSync, BorderEnd, driver
    <2> QED
      BY <2>3, <2>4, <2>5, <2>6 DEF Next, Environment
  <1> QED
    BY <1>1 DEF Unfinished

\* The left and right of a border finish when nothing that writes what they read
\* is left.
THEOREM BorderIsOrdered == Spec => BorderOrder
  <1>1. FenceInv /\ [Next]_vars =>
          \A n \in 1..calls : <<n, "lr", 0>> \in Unfinished \ Unfinished' =>
            Unfinished \cap {<<n, "copy", 0>>, <<n, "tb", 0>>} = {}
    <2> SUFFICES ASSUME FenceInv, [Next]_vars, NEW n \in 1..calls, <<n, "lr", 0>> \in Unfinished \ Unfinished'
                 PROVE  Unfinished \cap {<<n, "copy", 0>>, <<n, "tb", 0>>} = {}
      OBVIOUS
    <2>1. DriverRuns
      BY OnlyDriverFinishes
    <2>2. PICK r \in pending : /\ r.wait = {}
                               /\ pending' = {[q EXCEPT !.wait = @ \ r.tasks] : q \in pending \ {r}}
      BY <2>1 DEF DriverRuns
    <2>3. Unfinished' = Unfinished \ r.tasks
      BY <2>2, Ran DEF FenceInv
    <2>4. n \in Nat
      BY DEF FenceInv, Types
    <2> QED
      BY <2>2, <2>3, <2>4 DEF FenceInv, OrderInv
  <1> QED
    BY <1>1, SpecFenceInv, PTL DEF Spec, BorderOrder

\* What a call closes is its own or its caller's.
LEMMA ClosesItsOwn ==
  ASSUME FenceInv, [Next]_vars, pc' # pc, ~ClosesTwice, ~LosesFence,
         NEW g \in Fds, owner[g] = "env"
  PROVE  owner'[g] = "env"
  <1>0. owner \in [Fds -> {"free", "lib", "app", "env"}]
    BY DEF FenceInv, Types
  <1>1. ASSUME UNCHANGED owner PROVE owner'[g] = "env"
    BY <1>1
  <1>2. ASSUME NEW a \in FdOrNone, a # -1 => owner[a] # "env", owner' = Closed(a, owner)
        PROVE  owner'[g] = "env"
    BY <1>2, FdFacts, ClosedFacts DEF FenceInv
  <1>3. ASSUME NEW a, owner' = HandOver(a) PROVE owner'[g] = "env"
    BY <1>0, <1>3 DEF HandOver
  <1>4. ASSUME NEW f \in Free, NEW w, NEW a \in FdOrNone, NEW o, o = owner \/ o = Closed(a, owner),
               a # -1 => owner[a] # "env", owner' = [o EXCEPT ![f] = w]
        PROVE  owner'[g] = "env"
    <2>1. f # g
      BY FreeFacts
    <2>2. o[g] = "env" /\ o \in [Fds -> {"free", "lib", "app", "env"}]
      BY <1>0, <1>4, FdFacts, ClosedFacts DEF FenceInv
    <2> QED
      BY <1>4, <2>1, <2>2
  <1>5. copy \in FdOrNone /\ release \in FdOrNone /\ args.acquire \in FdOrNone /\ -1 \in FdOrNone
    BY FdFacts DEF FenceInv, Types
  \* The application waits for the result of a call, which is its own.
  <1>6. CASE AppReturn
    <2>1. CASE UNCHANGED owner
      BY <1>1, <2>1
    <2>2. CASE owner' = Closed(release, owner) /\ status = "SUCCESS" /\ ~args.sync /\ pc = "returned"
      <3>1. release # -1 => owner[release] # "env"
        BY <2>2 DEF FenceInv, ReturnInv
      <3> QED
        BY <1>2, <1>5, <2>2, <3>1
    <2> QED
      BY <1>6, <2>1, <2>2 DEF AppReturn, imsyncOk, imsyncFails
  \* A submission consumes the acquire fence, the caller's.
  <1>7. CASE SubmitAsync \/ BorderCopy
    <2> DEFINE o == UserCloses(args.acquire)
    <2>1. args.acquire # -1 => owner[args.acquire] # "env"
      BY <1>7 DEF SubmitAsync, BorderCopy, FenceInv, AcquireInv, Entry
    <2>2. o = Closed(args.acquire, owner)
      BY <1>5, AcquireIsClosed DEF FenceInv
    <2>3. PICK f \in Free, w \in {"app", "lib"} : owner' = [o EXCEPT ![f] = w]
      BY <1>7 DEF SubmitAsync, BorderCopy, NewFence
    <2> HIDE DEF o
    <2> QED
      BY <1>4, <1>5, <2>1, <2>2, <2>3
  <1>8. CASE ArrayItem
    <2>1. CASE UNCHANGED owner
      BY <1>1, <2>1
    <2>2. CASE \E f \in Free : owner' = [owner EXCEPT ![f] = "lib"]
      <3>1. PICK f \in Free : owner' = [owner EXCEPT ![f] = "lib"]
        BY <2>2
      <3> QED
        BY <1>4, <1>5, <3>1
    <2> QED
      BY <1>8, <2>1, <2>2 DEF ArrayItem, NewFence, descriptors
  <1>9. CASE ArrayMerge
    <2>1. CASE UNCHANGED owner
      BY <1>1, <2>1
    <2>2. CASE \E f \in Free : owner' = [owner EXCEPT ![f] = "lib"]
      <3>1. PICK f \in Free : owner' = [owner EXCEPT ![f] = "lib"]
        BY <2>2
      <3> QED
        BY <1>4, <1>5, <3>1
    <2>3. MergeFences
      BY <1>9 DEF ArrayMerge
    <2>4. CASE rga_sync_merge(tmp, release)
      BY <2>1, <2>2, <2>4 DEF rga_sync_merge, descriptors
    <2>5. CASE UNCHANGED descriptors
      BY <2>1, <2>5 DEF descriptors
    <2> QED
      BY <2>3, <2>4, <2>5 DEF MergeFences
  \* The fence of the copy is the call's own when it is closed.
  <1>10. CASE BorderEndTb \/ BorderEnd
    <2> DEFINE o == DriverCloses(copy)
    <2>1. owner[copy] = "lib"
      BY <1>10, CopyIsHeld DEF BorderEndTb, BorderEnd
    <2>2. o = owner \/ o = Closed(copy, owner)
      BY DEF DriverCloses
    <2>3. PICK f \in Free, w \in {"app", "lib"} : owner' = [o EXCEPT ![f] = w]
      BY <1>10 DEF BorderEndTb, BorderEnd, NewFence
    <2> HIDE DEF o
    <2> QED
      BY <1>4, <1>5, <2>1, <2>2, <2>3
  <1>11. CASE BorderSync \/ ZeroBorder
    <2>1. pc \in {"finishSync", "zero"} /\ args.kind = "immakeBorder" /\ (pc = "finishSync" => args.sync)
      BY <1>11 DEF BorderSync, ZeroBorder, FenceInv, PhaseInv, InBorder
    <2>2. owner[copy] = "lib"
      BY <2>1 DEF ClosesTwice, FenceInv, BorderInv, InBorder, Holds
    <2>3. \/ owner' = owner \/ owner' = Closed(copy, owner) \/ owner' = HandOver(copy)
      BY <1>11 DEF BorderSync, ZeroBorder, imsyncOk, imsyncFails
    <2> QED
      BY <1>1, <1>2, <1>3, <1>5, <2>2, <2>3
  <1>12. CASE SubmitFails \/ ArrayEnd
    BY <1>3, <1>12 DEF SubmitFails, ArrayEnd
  <1>13. CASE \/ Call \/ SubmitSync \/ SyncDone \/ BorderFails \/ BorderTasks \/ BorderUnknown \/ BorderEndFails
              \/ BorderEndSync
    BY <1>1, <1>13
    DEF Call, SubmitSync, SyncDone, BorderFails, BorderTasks, BorderUnknown, BorderEndFails, BorderEndSync,
        descriptors
  <1>14. ~(AppOpen \/ Environment \/ UNCHANGED vars)
    BY DEF AppOpen, Environment, EnvOpen, EnvClose, DriverRuns, vars
  <1> QED
    BY <1>6, <1>7, <1>8, <1>9, <1>10, <1>11, <1>12, <1>13, <1>14 DEF Next, Single, Array, Border

\* No call closes a descriptor that the rest of the process has got under a number
\* the library once used, but for the two cases the property names.
THEOREM NothingForeignClosed == Spec => NoForeignClose
  <1>1. FenceInv /\ [Next]_vars =>
          \A f \in Fds : owner[f] = "env" /\ owner'[f] # "env" => UNCHANGED pc \/ ClosesTwice \/ LosesFence
    BY ClosesItsOwn
  <1> QED
    BY <1>1, SpecFenceInv, PTL DEF Spec, NoForeignClose
=============================================================================
