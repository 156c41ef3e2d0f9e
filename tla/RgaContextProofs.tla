-------------------------- MODULE RgaContextProofs --------------------------
(***************************************************************************)
(* Proofs about the legacy context for any number of threads, addresses    *)
(* and descriptors.                                                        *)
(***************************************************************************)
EXTENDS RgaContext, FiniteSetTheorems, TLAPS

Holders == {t \in Threads : owned[t]}
Users == {t \in Threads : pc[t] \in Using}

\* Whoever is inside the fresh open, and nobody else, holds the mutex, and the
\* process then has no published context and nobody draining one.
LockInv ==
  /\ \A t \in Threads : pc[t] \in Locked <=> mMutex = t
  /\ mMutex # Null => rgaCtx = Null

\* What is allocated is the published context, or what the fresh open has
\* acquired so far.
HeapInv ==
  /\ rgaCtx # Null => heap = {rgaCtx} /\ rgaFd[rgaCtx] \in Fds /\ fds = {rgaFd[rgaCtx]}
  /\ rgaCtx = Null /\ mMutex = Null => heap = {} /\ fds = {}
  /\ \A t \in Threads :
       /\ pc[t] = "malloc" => heap = {} /\ fds = {}
       /\ pc[t] = "device" => ctx[t] \in Ctxs /\ heap = {ctx[t]} /\ fds = {}
       /\ pc[t] = "version" => /\ ctx[t] \in Ctxs /\ heap = {ctx[t]}
                               /\ rgaFd[ctx[t]] \in Fds /\ fds = {rgaFd[ctx[t]]}

\* The two counters count what they are meant to count.
CountInv ==
  /\ refCount = Cardinality(Holders)
  /\ active_operations = Cardinality(Users)

\* A context is published while it is held or being drained, and one thread
\* drains it.
CloseInv ==
  /\ rgaCtx # Null <=> refCount > 0 \/ context_closing
  /\ context_closing => refCount = 0
  /\ \A t \in Threads : pc[t] = "drain" => context_closing
  /\ \A t, u \in Threads : pc[t] = "drain" /\ pc[u] = "drain" => t = u

\* Every holder and every user has the published context.
RefInv ==
  \A t \in Threads :
    /\ owned[t] => context[t] = rgaCtx /\ rgaCtx # Null
    /\ pc[t] \in Using => ctx[t] = rgaCtx /\ rgaCtx # Null
    /\ pc[t] \in {"check", "initClose"} => owned[t]
    /\ pc[t] = "close" => owned[t] \/ context[t] = Null
    /\ pc[t] \in {"open", "drain"} \cup Locked => ~owned[t]

IInv == TypeOK /\ LockInv /\ HeapInv /\ CountInv /\ CloseInv /\ RefInv

-----------------------------------------------------------------------------
\* Counting a set of threads: what adding or removing one does.
LEMMA Counting ==
  ASSUME NEW S \in SUBSET Threads
  PROVE  /\ Cardinality(S) \in Nat
         /\ Cardinality(S) = 0 <=> S = {}
         /\ \A t \in S : Cardinality(S \ {t}) = Cardinality(S) - 1
         /\ \A t \in Threads \ S : Cardinality(S \cup {t}) = Cardinality(S) + 1
  <1>1. IsFiniteSet(S)
    BY FiniteAssumption, FS_Subset
  <1> QED
    BY <1>1, FS_CardinalityType, FS_EmptySet, FS_AddElement, FS_RemoveElement

\* The counters seen from one thread: a holder makes refCount positive, and
\* alone if it is 1; a user makes active_operations positive.
LEMMA CountFacts ==
  ASSUME IInv
  PROVE  /\ \A t \in Threads : owned[t] => refCount > 0
         /\ \A t, u \in Threads : owned[t] /\ owned[u] /\ refCount = 1 => t = u
         /\ \A t \in Threads : pc[t] \in Using => active_operations > 0
         /\ Holders \in SUBSET Threads /\ Users \in SUBSET Threads
  <1>1. Holders \in SUBSET Threads /\ Users \in SUBSET Threads
    BY DEF Holders, Users
  <1>2. ASSUME NEW t \in Threads, owned[t]
        PROVE  refCount > 0
    <2>1. t \in Holders
      BY <1>2 DEF Holders
    <2>2. Cardinality(Holders) \in Nat /\ Cardinality(Holders) # 0
      BY <1>1, <2>1, Counting
    <2> QED
      BY <2>2 DEF IInv, CountInv
  <1>3. ASSUME NEW t \in Threads, NEW u \in Threads, owned[t], owned[u], refCount = 1
        PROVE  t = u
    <2>t. t \in Holders
      BY <1>3 DEF Holders
    <2>c. Cardinality(Holders) = 1
      BY <1>3 DEF IInv, CountInv
    <2>1. Cardinality(Holders \ {t}) = 0
      BY <1>1, <2>t, <2>c, Counting
    <2>2. Holders \ {t} = {}
      <3>1. Holders \ {t} \in SUBSET Threads
        BY <1>1
      <3> QED
        BY <3>1, <2>1, Counting
    <2> QED
      BY <1>3, <2>2 DEF Holders
  <1>4. ASSUME NEW t \in Threads, pc[t] \in Using
        PROVE  active_operations > 0
    <2>1. t \in Users
      BY <1>4 DEF Users
    <2>2. Cardinality(Users) \in Nat /\ Cardinality(Users) # 0
      BY <1>1, <2>1, Counting
    <2> QED
      BY <2>2 DEF IInv, CountInv
  <1> QED
    BY <1>1, <1>2, <1>3, <1>4

LEMMA InitIInv == Init => IInv
  <1> SUFFICES ASSUME Init PROVE IInv
    OBVIOUS
  <1>1. Holders = {} /\ Users = {}
    BY DEF Init, Holders, Users, Using
  <1>2. CountInv
    BY <1>1, FS_EmptySet DEF CountInv, Init
  <1>3. TypeOK
    BY NullAssumption DEF Init, TypeOK, PCs
  <1>4. LockInv /\ HeapInv /\ CloseInv /\ RefInv
    BY NullAssumption
    DEF Init, LockInv, HeapInv, CloseInv, RefInv, Locked, Using, Closing
  <1> QED
    BY <1>2, <1>3, <1>4 DEF IInv

\* Each action preserves the invariant.  Holders and Users change by at most
\* the acting thread; the rest follows conjunct by conjunct.
LEMMA NextIInv == IInv /\ [Next]_vars => IInv'
  <1> SUFFICES ASSUME IInv, [Next]_vars PROVE IInv'
    OBVIOUS
  <1> USE NullAssumption DEF lockVars, shared, resources, locals, PCs, Locked, Using, Closing
  <1>cf. /\ \A t \in Threads : owned[t] => refCount > 0
         /\ \A t, u \in Threads : owned[t] /\ owned[u] /\ refCount = 1 => t = u
         /\ \A t \in Threads : pc[t] \in Using => active_operations > 0
         /\ Holders \in SUBSET Threads /\ Users \in SUBSET Threads
    BY CountFacts
  <1>1. ASSUME NEW t \in Threads, CallRgaInit(t) PROVE IInv'
    <2> USE <1>1 DEF CallRgaInit, Goto
    <2>1. Holders' = Holders /\ Users' = Users
      BY DEF IInv, TypeOK, RefInv, Holders, Users
    <2>3. CountInv'
      BY <2>1 DEF IInv, CountInv
    <2>4. TypeOK'
      BY DEF IInv, TypeOK
    <2>5. LockInv'
      BY DEF IInv, TypeOK, LockInv
    <2>6. HeapInv'
      BY <1>cf DEF IInv, TypeOK, LockInv, HeapInv
    <2>7. CloseInv'
      BY <1>cf DEF IInv, TypeOK, LockInv, CloseInv, RefInv
    <2>8. RefInv'
      BY <1>cf DEF IInv, TypeOK, LockInv, CloseInv, RefInv
    <2> QED
      BY <2>3, <2>4, <2>5, <2>6, <2>7, <2>8 DEF IInv
  <1>2. ASSUME NEW t \in Threads, OpenWait(t) PROVE IInv'
    <2> USE <1>2 DEF OpenWait, Goto, Runs, MutexFree, CondWait
    <2>1. Holders' = Holders /\ Users' = Users
      BY DEF IInv, TypeOK, RefInv, Holders, Users
    <2>3. CountInv'
      BY <2>1 DEF IInv, CountInv
    <2>4. TypeOK'
      BY DEF IInv, TypeOK
    <2>5. LockInv'
      BY DEF IInv, TypeOK, LockInv
    <2>6. HeapInv'
      BY <1>cf DEF IInv, TypeOK, LockInv, HeapInv
    <2>7. CloseInv'
      BY <1>cf DEF IInv, TypeOK, LockInv, CloseInv, RefInv
    <2>8. RefInv'
      BY <1>cf DEF IInv, TypeOK, LockInv, CloseInv, RefInv
    <2> QED
      BY <2>3, <2>4, <2>5, <2>6, <2>7, <2>8 DEF IInv
  <1>3. ASSUME NEW t \in Threads, OpenShared(t) PROVE IInv'
    <2> USE <1>3 DEF OpenShared, Goto, Runs, MutexFree, TakeReference
    <2>1. Holders' = Holders \cup {t} /\ Users' = Users
      BY DEF IInv, TypeOK, RefInv, Holders, Users
    <2>2. t \notin Holders /\ refCount' = refCount + 1 /\ active_operations' = active_operations
      BY DEF IInv, RefInv, Holders, Users
    <2>3. CountInv'
      BY ONLY IInv, <1>cf, <2>1, <2>2, t \in Threads, Counting DEF IInv, CountInv
    <2>4. TypeOK'
      BY DEF IInv, TypeOK
    <2>5. LockInv'
      BY DEF IInv, TypeOK, LockInv
    <2>6. HeapInv'
      BY <1>cf DEF IInv, TypeOK, LockInv, HeapInv
    <2>7. CloseInv'
      BY <1>cf DEF IInv, TypeOK, LockInv, CloseInv, RefInv
    <2>8. RefInv'
      BY <1>cf DEF IInv, TypeOK, LockInv, CloseInv, RefInv
    <2> QED
      BY <2>3, <2>4, <2>5, <2>6, <2>7, <2>8 DEF IInv
  <1>4. ASSUME NEW t \in Threads, OpenFirst(t) PROVE IInv'
    <2> USE <1>4 DEF OpenFirst, Goto, Runs, MutexFree
    <2>1. Holders' = Holders /\ Users' = Users
      BY DEF IInv, TypeOK, RefInv, Holders, Users
    <2>3. CountInv'
      BY <2>1 DEF IInv, CountInv
    <2>4. TypeOK'
      BY DEF IInv, TypeOK
    <2>5. LockInv'
      BY DEF IInv, TypeOK, LockInv
    <2>6. HeapInv'
      BY <1>cf DEF IInv, TypeOK, LockInv, HeapInv
    <2>7. CloseInv'
      BY <1>cf DEF IInv, TypeOK, LockInv, CloseInv, RefInv
    <2>8. RefInv'
      BY <1>cf DEF IInv, TypeOK, LockInv, CloseInv, RefInv
    <2> QED
      BY <2>3, <2>4, <2>5, <2>6, <2>7, <2>8 DEF IInv
  <1>5. ASSUME NEW t \in Threads, OpenMalloc(t) PROVE IInv'
    <2> USE <1>5 DEF OpenMalloc, Goto, UnlockErr, Unlock
    <2>1. Holders' = Holders /\ Users' = Users
      BY DEF IInv, TypeOK, RefInv, Holders, Users
    <2>3. CountInv'
      BY <2>1 DEF IInv, CountInv
    <2>4. TypeOK'
      BY DEF IInv, TypeOK
    <2>5. LockInv'
      BY DEF IInv, TypeOK, LockInv
    <2>6. HeapInv'
      BY <1>cf DEF IInv, TypeOK, LockInv, HeapInv
    <2>7. CloseInv'
      BY <1>cf DEF IInv, TypeOK, LockInv, CloseInv, RefInv
    <2>8. RefInv'
      BY <1>cf DEF IInv, TypeOK, LockInv, CloseInv, RefInv
    <2> QED
      BY <2>3, <2>4, <2>5, <2>6, <2>7, <2>8 DEF IInv
  <1>6. ASSUME NEW t \in Threads, OpenDevice(t) PROVE IInv'
    <2> USE <1>6 DEF OpenDevice, Goto, RgaOpenErr, UnlockErr, Unlock
    <2>1. Holders' = Holders /\ Users' = Users
      BY DEF IInv, TypeOK, RefInv, Holders, Users
    <2>3. CountInv'
      BY <2>1 DEF IInv, CountInv
    <2>4. TypeOK'
      BY DEF IInv, TypeOK
    <2>5. LockInv'
      BY DEF IInv, TypeOK, LockInv
    <2>6. HeapInv'
      BY <1>cf DEF IInv, TypeOK, LockInv, HeapInv
    <2>7. CloseInv'
      BY <1>cf DEF IInv, TypeOK, LockInv, CloseInv, RefInv
    <2>8. RefInv'
      BY <1>cf DEF IInv, TypeOK, LockInv, CloseInv, RefInv
    <2> QED
      BY <2>3, <2>4, <2>5, <2>6, <2>7, <2>8 DEF IInv
  <1>7. ASSUME NEW t \in Threads, OpenVersion(t) PROVE IInv'
    <2> DEFINE Published == /\ rgaCtx' = ctx[t] /\ TakeReference(t, ctx[t]) /\ Unlock(t)
                            /\ UNCHANGED <<ctx, heap, fds>>
    <2>f. UNCHANGED <<waiters, active_operations, context_closing, rgaFd>> /\ pc[t] = "version"
      BY <1>7 DEF OpenVersion
    <2>o. /\ ctx[t] \in Ctxs /\ heap = {ctx[t]} /\ rgaFd[ctx[t]] \in Fds
          /\ fds = {rgaFd[ctx[t]]} /\ mMutex = t /\ rgaCtx = Null /\ t \notin Holders
          /\ ~owned[t] /\ ~context_closing /\ refCount = 0 /\ refCount \in Nat
          /\ \A u \in Threads : /\ u # t => pc[u] \notin Locked
                              /\ ~owned[u] /\ pc[u] \notin Using
                              /\ pc[u] \notin {"check", "initClose", "drain"}
      BY <2>f DEF IInv, TypeOK, LockInv, HeapInv, CloseInv, RefInv, Holders, Locked
    <2>1. CASE Published
      <3> USE <2>1 DEF Published, TakeReference, Unlock, Goto
      <3>1. Holders' = Holders \cup {t} /\ Users' = Users
        BY <2>f, <2>o DEF IInv, TypeOK, Holders, Users, Using
      <3>2. CountInv'
        BY <1>cf, <2>f, <2>o, <3>1, Counting DEF IInv, CountInv
      <3>3. TypeOK'
        BY <2>f, <2>o DEF IInv, TypeOK, PCs
      <3>4. LockInv' /\ HeapInv'
        BY <2>f, <2>o DEF IInv, TypeOK, LockInv, HeapInv, Locked
      <3>5. CloseInv' /\ RefInv'
        BY <2>f, <2>o DEF IInv, TypeOK, CloseInv, RefInv, Locked, Using, Closing
      <3> QED
        BY <3>2, <3>3, <3>4, <3>5 DEF IInv
    <2>2. CASE GetVersionError(t) /\ UNCHANGED <<rgaCtx, refCount>>
      <3> USE <2>2 DEF GetVersionError, RgaOpenErr, UnlockErr, Unlock, Goto
      <3>1. Holders' = Holders /\ Users' = Users
        BY <2>f, <2>o DEF IInv, TypeOK, Holders, Users, Using
      <3>2. CountInv'
        BY <2>f, <3>1 DEF IInv, CountInv
      <3>3. TypeOK'
        BY <2>f, <2>o DEF IInv, TypeOK, PCs
      <3>4. LockInv' /\ HeapInv'
        BY <2>f, <2>o DEF IInv, TypeOK, LockInv, HeapInv, Locked
      <3>5. CloseInv' /\ RefInv'
        BY <2>f, <2>o DEF IInv, TypeOK, CloseInv, RefInv, Locked, Using, Closing
      <3> QED
        BY <3>2, <3>3, <3>4, <3>5 DEF IInv
    <2> QED
      BY <1>7, <2>1, <2>2 DEF OpenVersion
  <1>8. ASSUME NEW t \in Threads, CheckDriverOk(t) PROVE IInv'
    <2> USE <1>8 DEF CheckDriverOk, Goto
    <2>1. Holders' = Holders /\ Users' = Users
      BY DEF IInv, TypeOK, RefInv, Holders, Users
    <2>3. CountInv'
      BY <2>1 DEF IInv, CountInv
    <2>4. TypeOK'
      BY DEF IInv, TypeOK
    <2>5. LockInv'
      BY DEF IInv, TypeOK, LockInv
    <2>6. HeapInv'
      BY <1>cf DEF IInv, TypeOK, LockInv, HeapInv
    <2>7. CloseInv'
      BY <1>cf DEF IInv, TypeOK, LockInv, CloseInv, RefInv
    <2>8. RefInv'
      BY <1>cf DEF IInv, TypeOK, LockInv, CloseInv, RefInv
    <2> QED
      BY <2>3, <2>4, <2>5, <2>6, <2>7, <2>8 DEF IInv
  <1>9. ASSUME NEW t \in Threads, CheckDriverFails(t) PROVE IInv'
    <2> USE <1>9 DEF CheckDriverFails, Goto
    <2>1. Holders' = Holders /\ Users' = Users
      BY DEF IInv, TypeOK, RefInv, Holders, Users
    <2>3. CountInv'
      BY <2>1 DEF IInv, CountInv
    <2>4. TypeOK'
      BY DEF IInv, TypeOK
    <2>5. LockInv'
      BY DEF IInv, TypeOK, LockInv
    <2>6. HeapInv'
      BY <1>cf DEF IInv, TypeOK, LockInv, HeapInv
    <2>7. CloseInv'
      BY <1>cf DEF IInv, TypeOK, LockInv, CloseInv, RefInv
    <2>8. RefInv'
      BY <1>cf DEF IInv, TypeOK, LockInv, CloseInv, RefInv
    <2> QED
      BY <2>3, <2>4, <2>5, <2>6, <2>7, <2>8 DEF IInv
  <1>10. ASSUME NEW t \in Threads, CallRgaDeInit(t) PROVE IInv'
    <2> USE <1>10 DEF CallRgaDeInit, Goto
    <2>1. Holders' = Holders /\ Users' = Users
      BY DEF IInv, TypeOK, RefInv, Holders, Users
    <2>3. CountInv'
      BY <2>1 DEF IInv, CountInv
    <2>4. TypeOK'
      BY DEF IInv, TypeOK
    <2>5. LockInv'
      BY DEF IInv, TypeOK, LockInv
    <2>6. HeapInv'
      BY <1>cf DEF IInv, TypeOK, LockInv, HeapInv
    <2>7. CloseInv'
      BY <1>cf DEF IInv, TypeOK, LockInv, CloseInv, RefInv
    <2>8. RefInv'
      BY <1>cf DEF IInv, TypeOK, LockInv, CloseInv, RefInv
    <2> QED
      BY <2>3, <2>4, <2>5, <2>6, <2>7, <2>8 DEF IInv
  <1>11. ASSUME NEW t \in Threads, CloseShared(t) PROVE IInv'
    <2> USE <1>11 DEF CloseShared, Goto, Runs, MutexFree, DropReference, ReturnFromClose, CloseMatches
    <2>1. Holders' = Holders \ {t} /\ Users' = Users
      BY DEF IInv, TypeOK, RefInv, Holders, Users
    <2>2. t \in Holders /\ refCount' = refCount - 1 /\ active_operations' = active_operations
      BY DEF IInv, RefInv, Holders, Users
    <2>3. CountInv'
      BY ONLY IInv, <1>cf, <2>1, <2>2, t \in Threads, Counting DEF IInv, CountInv
    <2>4. TypeOK'
      <3>1. refCount' \in Nat
        BY <1>cf, <2>2 DEF IInv, TypeOK, RefInv
      <3> QED
        BY <3>1 DEF IInv, TypeOK
    <2>5. LockInv'
      BY DEF IInv, TypeOK, LockInv
    <2>6. HeapInv'
      BY <1>cf DEF IInv, TypeOK, LockInv, HeapInv
    <2>7. CloseInv'
      BY <1>cf DEF IInv, TypeOK, LockInv, CloseInv, RefInv
    <2>8. RefInv'
      BY <1>cf DEF IInv, TypeOK, LockInv, CloseInv, RefInv
    <2> QED
      BY <2>3, <2>4, <2>5, <2>6, <2>7, <2>8 DEF IInv
  <1>12. ASSUME NEW t \in Threads, CloseLast(t) PROVE IInv'
    <2> USE <1>12 DEF CloseLast, Goto, Runs, MutexFree, DropReference, Teardown, Idle, Broadcast, CloseMatches
    <2>1. Holders' = Holders \ {t} /\ Users' = Users
      BY DEF IInv, TypeOK, RefInv, Holders, Users
    <2>2. t \in Holders /\ refCount' = refCount - 1 /\ active_operations' = active_operations
      BY DEF IInv, RefInv, Holders, Users
    <2>3. CountInv'
      BY ONLY IInv, <1>cf, <2>1, <2>2, t \in Threads, Counting DEF IInv, CountInv
    <2>4. TypeOK'
      <3>1. refCount' \in Nat
        BY <1>cf, <2>2 DEF IInv, TypeOK, RefInv
      <3> QED
        BY <3>1 DEF IInv, TypeOK
    <2>5. LockInv'
      BY DEF IInv, TypeOK, LockInv
    <2>6. HeapInv'
      BY <1>cf DEF IInv, TypeOK, LockInv, HeapInv
    <2>7. CloseInv'
      BY <1>cf DEF IInv, TypeOK, LockInv, CloseInv, RefInv
    <2>8. RefInv'
      BY <1>cf DEF IInv, TypeOK, LockInv, CloseInv, RefInv
    <2> QED
      BY <2>3, <2>4, <2>5, <2>6, <2>7, <2>8 DEF IInv
  <1>13. ASSUME NEW t \in Threads, CloseBusy(t) PROVE IInv'
    <2> USE <1>13 DEF CloseBusy, Goto, Runs, MutexFree, DropReference, Idle, CondWait, CloseMatches
    <2>1. Holders' = Holders \ {t} /\ Users' = Users
      BY DEF IInv, TypeOK, RefInv, Holders, Users
    <2>2. t \in Holders /\ refCount' = refCount - 1 /\ active_operations' = active_operations
      BY DEF IInv, RefInv, Holders, Users
    <2>3. CountInv'
      BY ONLY IInv, <1>cf, <2>1, <2>2, t \in Threads, Counting DEF IInv, CountInv
    <2>4. TypeOK'
      <3>1. refCount' \in Nat
        BY <1>cf, <2>2 DEF IInv, TypeOK, RefInv
      <3> QED
        BY <3>1 DEF IInv, TypeOK
    <2>5. LockInv'
      BY DEF IInv, TypeOK, LockInv
    <2>6. HeapInv'
      BY <1>cf DEF IInv, TypeOK, LockInv, HeapInv
    <2>7. CloseInv'
      BY <1>cf DEF IInv, TypeOK, LockInv, CloseInv, RefInv
    <2>8. RefInv'
      BY <1>cf DEF IInv, TypeOK, LockInv, CloseInv, RefInv
    <2> QED
      BY <2>3, <2>4, <2>5, <2>6, <2>7, <2>8 DEF IInv
  <1>14. ASSUME NEW t \in Threads, DrainAgain(t) PROVE IInv'
    <2> USE <1>14 DEF DrainAgain, Goto, Runs, MutexFree, CondWait
    <2>1. Holders' = Holders /\ Users' = Users
      BY DEF IInv, TypeOK, RefInv, Holders, Users
    <2>3. CountInv'
      BY <2>1 DEF IInv, CountInv
    <2>4. TypeOK'
      BY DEF IInv, TypeOK
    <2>5. LockInv'
      BY DEF IInv, TypeOK, LockInv
    <2>6. HeapInv'
      BY <1>cf DEF IInv, TypeOK, LockInv, HeapInv
    <2>7. CloseInv'
      BY <1>cf DEF IInv, TypeOK, LockInv, CloseInv, RefInv
    <2>8. RefInv'
      BY <1>cf DEF IInv, TypeOK, LockInv, CloseInv, RefInv
    <2> QED
      BY <2>3, <2>4, <2>5, <2>6, <2>7, <2>8 DEF IInv
  <1>15. ASSUME NEW t \in Threads, DrainDone(t) PROVE IInv'
    <2> USE <1>15 DEF DrainDone, Goto, Runs, MutexFree, Teardown, Idle, Broadcast
    <2>1. Holders' = Holders /\ Users' = Users
      BY DEF IInv, TypeOK, RefInv, Holders, Users
    <2>3. CountInv'
      BY <2>1 DEF IInv, CountInv
    <2>4. TypeOK'
      BY DEF IInv, TypeOK
    <2>5. LockInv'
      BY DEF IInv, TypeOK, LockInv
    <2>6. HeapInv'
      BY <1>cf DEF IInv, TypeOK, LockInv, HeapInv
    <2>7. CloseInv'
      BY <1>cf DEF IInv, TypeOK, LockInv, CloseInv, RefInv
    <2>8. RefInv'
      BY <1>cf DEF IInv, TypeOK, LockInv, CloseInv, RefInv
    <2> QED
      BY <2>3, <2>4, <2>5, <2>6, <2>7, <2>8 DEF IInv
  <1>16. ASSUME NEW t \in Threads, UseBegin(t) PROVE IInv'
    <2> USE <1>16 DEF UseBegin, Goto, MutexFree
    <2>1. Holders' = Holders /\ Users' = Users \cup {t}
      BY DEF IInv, TypeOK, RefInv, Holders, Users
    <2>2. t \notin Users /\ active_operations' = active_operations + 1 /\ refCount' = refCount
      BY DEF IInv, RefInv, Holders, Users
    <2>3. CountInv'
      BY ONLY IInv, <1>cf, <2>1, <2>2, t \in Threads, Counting DEF IInv, CountInv
    <2>4. TypeOK'
      BY DEF IInv, TypeOK
    <2>5. LockInv'
      BY DEF IInv, TypeOK, LockInv
    <2>6. HeapInv'
      BY <1>cf DEF IInv, TypeOK, LockInv, HeapInv
    <2>7. CloseInv'
      BY <1>cf DEF IInv, TypeOK, LockInv, CloseInv, RefInv
    <2>8. RefInv'
      BY <1>cf DEF IInv, TypeOK, LockInv, CloseInv, RefInv
    <2> QED
      BY <2>3, <2>4, <2>5, <2>6, <2>7, <2>8 DEF IInv
  <1>17. ASSUME NEW t \in Threads, UseIoctl(t) PROVE IInv'
    <2> USE <1>17 DEF UseIoctl, Goto
    <2>1. Holders' = Holders /\ Users' = Users
      BY DEF IInv, TypeOK, RefInv, Holders, Users
    <2>3. CountInv'
      BY <2>1 DEF IInv, CountInv
    <2>4. TypeOK'
      BY DEF IInv, TypeOK
    <2>5. LockInv'
      BY DEF IInv, TypeOK, LockInv
    <2>6. HeapInv'
      BY <1>cf DEF IInv, TypeOK, LockInv, HeapInv
    <2>7. CloseInv'
      BY <1>cf DEF IInv, TypeOK, LockInv, CloseInv, RefInv
    <2>8. RefInv'
      BY <1>cf DEF IInv, TypeOK, LockInv, CloseInv, RefInv
    <2> QED
      BY <2>3, <2>4, <2>5, <2>6, <2>7, <2>8 DEF IInv
  <1>18. ASSUME NEW t \in Threads, UseEnd(t) PROVE IInv'
    <2> USE <1>18 DEF UseEnd, Goto, MutexFree, Broadcast
    <2>1. Holders' = Holders /\ Users' = Users \ {t}
      BY DEF IInv, TypeOK, RefInv, Holders, Users
    <2>2. t \in Users /\ active_operations' = active_operations - 1 /\ refCount' = refCount
      BY DEF IInv, RefInv, Holders, Users
    <2>3. CountInv'
      BY ONLY IInv, <1>cf, <2>1, <2>2, t \in Threads, Counting DEF IInv, CountInv
    <2>4. TypeOK'
      <3>1. active_operations' \in Nat
        BY <1>cf, <2>2 DEF IInv, TypeOK, RefInv
      <3> QED
        BY <3>1 DEF IInv, TypeOK
    <2>5. LockInv'
      BY DEF IInv, TypeOK, LockInv
    <2>6. HeapInv'
      BY <1>cf DEF IInv, TypeOK, LockInv, HeapInv
    <2>7. CloseInv'
      BY <1>cf DEF IInv, TypeOK, LockInv, CloseInv, RefInv
    <2>8. RefInv'
      BY <1>cf DEF IInv, TypeOK, LockInv, CloseInv, RefInv
    <2> QED
      BY <2>3, <2>4, <2>5, <2>6, <2>7, <2>8 DEF IInv
  <1>19. ASSUME NEW t \in Threads, SpuriousWakeup(t) PROVE IInv'
    <2> USE <1>19 DEF SpuriousWakeup, Goto
    <2>1. Holders' = Holders /\ Users' = Users
      BY DEF IInv, TypeOK, RefInv, Holders, Users
    <2>3. CountInv'
      BY <2>1 DEF IInv, CountInv
    <2>4. TypeOK'
      BY DEF IInv, TypeOK
    <2>5. LockInv'
      BY DEF IInv, TypeOK, LockInv
    <2>6. HeapInv'
      BY <1>cf DEF IInv, TypeOK, LockInv, HeapInv
    <2>7. CloseInv'
      BY <1>cf DEF IInv, TypeOK, LockInv, CloseInv, RefInv
    <2>8. RefInv'
      BY <1>cf DEF IInv, TypeOK, LockInv, CloseInv, RefInv
    <2> QED
      BY <2>3, <2>4, <2>5, <2>6, <2>7, <2>8 DEF IInv
  <1>20. ASSUME NEW t \in Threads, CloseRejected(t) PROVE IInv'
    <2> USE <1>20 DEF CloseRejected, CloseMatches, ReturnFromClose, Runs, Goto
    <2>1. Holders' = Holders /\ Users' = Users
      BY DEF IInv, TypeOK, RefInv, Holders, Users
    <2>3. CountInv'
      BY <2>1 DEF IInv, CountInv
    <2>4. TypeOK'
      BY DEF IInv, TypeOK
    <2>5. LockInv'
      BY DEF IInv, TypeOK, LockInv
    <2>6. HeapInv'
      BY <1>cf DEF IInv, TypeOK, LockInv, HeapInv
    <2>7. CloseInv'
      BY <1>cf DEF IInv, TypeOK, LockInv, CloseInv, RefInv
    <2>8. RefInv'
      BY <1>cf DEF IInv, TypeOK, LockInv, CloseInv, RefInv
    <2> QED
      BY <2>3, <2>4, <2>5, <2>6, <2>7, <2>8 DEF IInv
  <1>21. CASE UNCHANGED vars
    <2>1. Holders' = Holders /\ Users' = Users
      BY <1>21 DEF vars, locals, Holders, Users
    <2> QED
      BY <1>21, <2>1 DEF vars, lockVars, shared, resources, locals, IInv, TypeOK,
         LockInv, HeapInv, CountInv, CloseInv, RefInv
  <1> QED
    BY <1>1, <1>2, <1>3, <1>4, <1>5, <1>6, <1>7, <1>8, <1>9, <1>10, <1>11, <1>12, <1>13, <1>14, <1>15, <1>16, <1>17, <1>18, <1>19, <1>20, <1>21
    DEF Next, Inside, Call, Open, Close, Use, CheckDriver


\* Every reachable state satisfies the inductive invariant.
LEMMA SpecIInv == Spec => []IInv
  BY InitIInv, NextIInv, PTL DEF Spec

-----------------------------------------------------------------------------
\* The types of the context's state, refCount never negative among them.
THEOREM TypeCorrect == Spec => []TypeOK
  <1>1. IInv => TypeOK
    BY DEF IInv
  <1> QED
    BY <1>1, SpecIInv, PTL

\* No operation and no version check ever touches a freed context or a closed
\* descriptor, whatever the other threads open and close meanwhile.
THEOREM UseIsSafe == Spec => []NoUseAfterFree
  <1>1. IInv => NoUseAfterFree
    BY DEF IInv, TypeOK, HeapInv, RefInv, NoUseAfterFree, Live
  <1> QED
    BY <1>1, SpecIInv, PTL

\* A reference taken by RgaInit keeps the context until its owner's RgaDeInit.
THEOREM HoldersAreSafe == Spec => []HolderKeepsContext
  <1>1. IInv => HolderKeepsContext
    <2> SUFFICES ASSUME IInv, NEW t \in Threads, owned[t]
                 PROVE  context[t] = rgaCtx /\ Live(context[t]) /\ ~context_closing
      BY DEF HolderKeepsContext
    <2>1. refCount > 0
      BY CountFacts
    <2>2. ~context_closing
      BY <2>1 DEF IInv, CloseInv
    <2>3. context[t] = rgaCtx /\ Live(context[t])
      BY DEF IInv, HeapInv, RefInv, Live
    <2> QED
      BY <2>2, <2>3
  <1> QED
    BY <1>1, SpecIInv, PTL

\* Neither the failures of NormalRgaOpen nor NormalRgaClose leak memory or a
\* descriptor, and there is never a second context.
THEOREM NothingLeaks == Spec => []NoLeak
  <1>1. IInv => NoLeak
    BY DEF IInv, HeapInv, NoLeak
  <1> QED
    BY <1>1, SpecIInv, PTL

\* "This can not be happened" is right about callers that release only what
\* they took.
THEOREM CloseFindsReference == Spec => []NeverCloseBeforeInit
  <1>1. IInv => NeverCloseBeforeInit
    <2> SUFFICES ASSUME IInv, NEW t \in Threads, pc[t] \in Closing,
                        CloseMatches(t)
                 PROVE  refCount > 0
      BY DEF NeverCloseBeforeInit
    <2>1. owned[t]
      BY DEF IInv, RefInv, CloseMatches, Closing
    <2> QED
      BY <2>1, CountFacts
  <1> QED
    BY <1>1, SpecIInv, PTL

\* close(ctx->rgaFd) and free(ctx) happen only after the drain, and only when
\* every reference was given back.
THEOREM FreeIsLast == Spec => FreedOnlyWhenUnused
  <1>1. ASSUME IInv, [Next]_vars, NEW c \in Ctxs, c = rgaCtx, c \notin heap', NEW t \in Threads
        PROVE  pc[t] \notin Using /\ ~owned'[t]
    <2> USE <1>1 DEF lockVars, shared, resources, locals
    <2>1. rgaCtx # Null /\ c \in heap /\ \A u \in Threads : pc[u] \notin Locked
      BY NullAssumption DEF IInv, LockInv, HeapInv
    <2>2. \E u \in Threads : CloseLast(u) \/ DrainDone(u)
      BY <2>1 DEF Next, vars, Inside, Call, Open, Close, Use, CheckDriver, Locked,
         CallRgaInit, OpenWait, OpenShared, OpenFirst, OpenMalloc, OpenDevice, OpenVersion,
         CheckDriverOk, CheckDriverFails, CallRgaDeInit, CloseRejected, CloseShared, CloseBusy,
         DrainAgain, UseBegin, UseIoctl, UseEnd, SpuriousWakeup
    <2>3. active_operations = 0 /\ pc[t] \notin Using
      BY <2>2, CountFacts DEF CloseLast, DrainDone, Idle
    <2>4. ~owned'[t]
      BY <2>2, CountFacts
      DEF CloseLast, DrainDone, DropReference, Runs, CloseMatches, IInv, TypeOK, RefInv, CloseInv, Closing
    <2> QED
      BY <2>3, <2>4
  <1>2. IInv /\ [Next]_vars =>
          [\A c \in Ctxs : c = rgaCtx /\ c \notin heap' =>
             \A t \in Threads : pc[t] \notin Using /\ ~owned'[t]]_vars
    BY <1>1
  <1> QED
    BY <1>2, SpecIInv, PTL DEF Spec, FreedOnlyWhenUnused

-----------------------------------------------------------------------------
(* The context implements the abstract device.                             *)

AbsDevice == IF rgaCtx = Null THEN "shut" ELSE IF context_closing THEN "closing" ELSE "open"

\* The steps that only move a thread, take the mutex or fail in a fresh open
\* leave the device, its holders and its users alone.
LEMMA HiddenSteps ==
  ASSUME IInv, NEW t \in Threads,
         \/ CallRgaInit(t) \/ OpenWait(t) \/ OpenFirst(t) \/ OpenMalloc(t) \/ OpenDevice(t)
         \/ CheckDriverOk(t) \/ CheckDriverFails(t) \/ CallRgaDeInit(t) \/ CloseRejected(t)
         \/ DrainAgain(t) \/ UseIoctl(t) \/ SpuriousWakeup(t)
  PROVE  AbsDevice' = AbsDevice /\ Holders' = Holders /\ Users' = Users
  BY DEF IInv, TypeOK, AbsDevice, Holders, Users, Using, Closing, lockVars, shared, resources,
     locals, Goto, Runs, CondWait, UnlockErr, Unlock, RgaOpenErr, ReturnFromClose,
     CallRgaInit, OpenWait, OpenFirst, OpenMalloc, OpenDevice, CheckDriverOk, CheckDriverFails,
     CallRgaDeInit, CloseRejected, DrainAgain, UseIoctl, SpuriousWakeup

\* Every step of the mutex, condition variable and counters of
\* core/NormalRga.cpp is a step of the abstract device or invisible to it.
THEOREM Refinement == Spec => ImplementsDevice
  <1>1. Init => Device!Init
    BY DEF Init, Device!Init, Using
  <1>2. ASSUME IInv, [Next]_vars PROVE [Device!Next]_(Device!devVars)
    <2> USE <1>2 DEF lockVars, shared, resources, locals, Goto, Runs, MutexFree, Using, Closing
    <2>cf. /\ \A t \in Threads : owned[t] => refCount > 0
           /\ \A t, u \in Threads : owned[t] /\ owned[u] /\ refCount = 1 => t = u
           /\ \A t \in Threads : pc[t] \in Using => active_operations > 0
           /\ Holders \in SUBSET Threads /\ Users \in SUBSET Threads
      BY CountFacts
    <2>1. ASSUME NEW t \in Threads, OpenShared(t) PROVE Device!Acquire(t)
      <3>1. AbsDevice = "open" /\ AbsDevice' = "open" /\ t \notin Holders
        BY <2>1 DEF OpenShared, TakeReference, AbsDevice, Holders, IInv, RefInv
      <3>2. Holders' = Holders \cup {t} /\ Users' = Users
        BY <2>1 DEF OpenShared, TakeReference, Holders, Users, IInv, TypeOK
      <3> QED
        BY <3>1, <3>2 DEF Device!Acquire, AbsDevice, Holders, Users
    <2>2. ASSUME NEW t \in Threads, OpenVersion(t)
          PROVE  Device!Acquire(t) \/ UNCHANGED Device!devVars
      <3>1. rgaCtx = Null /\ AbsDevice = "shut" /\ t \notin Holders /\ ctx[t] # Null /\ ~context_closing
        BY <2>2, NullAssumption
        DEF OpenVersion, AbsDevice, Holders, IInv, TypeOK, LockInv, HeapInv, RefInv, CloseInv, Locked
      <3>2. Users' = Users
        BY <2>2 DEF OpenVersion, TakeReference, GetVersionError, RgaOpenErr, UnlockErr, Users, IInv, TypeOK
      <3>3. CASE rgaCtx' = ctx[t] /\ TakeReference(t, ctx[t])
        <4>1. AbsDevice' = "open" /\ Holders' = Holders \cup {t}
          BY <2>2, <3>1, <3>3 DEF OpenVersion, TakeReference, AbsDevice, Holders, IInv, TypeOK
        <4> QED
          BY <3>1, <3>2, <4>1 DEF Device!Acquire, AbsDevice, Holders, Users
      <3>4. CASE GetVersionError(t) /\ UNCHANGED <<rgaCtx, refCount>>
        BY <2>2, <3>1, <3>2, <3>4
        DEF OpenVersion, GetVersionError, RgaOpenErr, UnlockErr, AbsDevice, Holders, Users, Device!devVars
      <3> QED
        BY <2>2, <3>3, <3>4 DEF OpenVersion
    <2>3. ASSUME NEW t \in Threads, CloseShared(t) PROVE Device!Release(t)
      <3>1. t \in Holders /\ Holders' = Holders \ {t} /\ Users' = Users
        BY <2>3 DEF CloseShared, CloseMatches, Runs, Closing, DropReference, ReturnFromClose, Holders, Users,
                    Goto, Using, IInv, TypeOK, RefInv
      <3>2. Holders # {t}
        <4>1. Cardinality(Holders) > 1
          BY <2>3 DEF CloseShared, IInv, CountInv
        <4> QED
          BY <4>1, FS_Singleton
      <3>3. AbsDevice' = "open"
        BY <2>3, <2>cf DEF CloseShared, CloseMatches, AbsDevice, IInv, CloseInv
      <3> QED
        BY <3>1, <3>2, <3>3 DEF Device!Release, AbsDevice, Holders, Users
    <2>4. ASSUME NEW t \in Threads, CloseLast(t) \/ CloseBusy(t) PROVE Device!Release(t)
      <3>1. t \in Holders /\ Holders' = Holders \ {t} /\ Users' = Users
        BY <2>4 DEF CloseLast, CloseBusy, CloseMatches, Runs, Closing, Teardown, DropReference, CondWait,
                    Goto, Using, Holders, Users, IInv, TypeOK, RefInv
      <3>2. Holders = {t}
        BY <2>4, <2>cf, <3>1 DEF CloseLast, CloseBusy, Holders
      <3>3. CASE CloseLast(t)
        <4>1. Users = {}
          BY <2>cf, <3>3 DEF CloseLast, Idle, Users
        <4>2. AbsDevice' = "shut"
          BY <3>3 DEF CloseLast, Teardown, AbsDevice
        <4> QED
          BY <3>1, <3>2, <4>1, <4>2 DEF Device!Release, AbsDevice, Holders, Users
      <3>4. CASE CloseBusy(t)
        <4>1. Users # {}
          BY <2>cf, <3>4, Counting DEF CloseBusy, Idle, IInv, CountInv
        <4>2. AbsDevice' = "closing"
          BY <3>4 DEF CloseBusy, CloseMatches, AbsDevice
        <4> QED
          BY <3>1, <3>2, <4>1, <4>2 DEF Device!Release, AbsDevice, Holders, Users
      <3> QED
        BY <2>4, <3>3, <3>4
    <2>5. ASSUME NEW t \in Threads, DrainDone(t) PROVE Device!Shut
      <3>1. Users = {} /\ Users' = {} /\ Holders' = Holders
        BY <2>5, <2>cf DEF DrainDone, Teardown, Idle, Users, Holders, IInv, TypeOK
      <3>2. AbsDevice = "closing" /\ AbsDevice' = "shut"
        BY <2>5 DEF DrainDone, Teardown, AbsDevice, IInv, CloseInv
      <3> QED
        BY <3>1, <3>2 DEF Device!Shut, AbsDevice, Holders, Users
    <2>6. ASSUME NEW t \in Threads, UseBegin(t) PROVE Device!Begin(t)
      <3>1. t \notin Users /\ Users' = Users \cup {t} /\ Holders' = Holders
        BY <2>6 DEF UseBegin, Users, Holders, IInv, TypeOK
      <3>2. AbsDevice = "open" /\ AbsDevice' = "open"
        BY <2>6 DEF UseBegin, AbsDevice
      <3> QED
        BY <3>1, <3>2 DEF Device!Begin, AbsDevice, Holders, Users
    <2>7. ASSUME NEW t \in Threads, UseEnd(t) PROVE Device!End(t)
      <3>1. t \in Users /\ Users' = Users \ {t} /\ Holders' = Holders
        BY <2>7 DEF UseEnd, Users, Holders, IInv, TypeOK
      <3>2. AbsDevice' = AbsDevice
        BY <2>7 DEF UseEnd, AbsDevice
      <3> QED
        BY <3>1, <3>2 DEF Device!End, AbsDevice, Holders, Users
    <2>8. CASE UNCHANGED vars
      BY <2>8 DEF vars, Device!devVars
    <2>9. ASSUME NEW t \in Threads, Inside(t) \/ Call(t) \/ SpuriousWakeup(t)
          PROVE  [Device!Next]_(Device!devVars)
      <3>1. CASE \/ CallRgaInit(t) \/ OpenWait(t) \/ OpenFirst(t) \/ OpenMalloc(t) \/ OpenDevice(t)
                 \/ CheckDriverOk(t) \/ CheckDriverFails(t) \/ CallRgaDeInit(t) \/ CloseRejected(t)
                 \/ DrainAgain(t) \/ UseIoctl(t) \/ SpuriousWakeup(t)
        <4>1. AbsDevice' = AbsDevice /\ Holders' = Holders /\ Users' = Users
          BY ONLY <3>1, IInv, t \in Threads, HiddenSteps
        <4> QED
          BY <4>1 DEF Device!devVars, AbsDevice, Holders, Users
      <3>2. CASE \/ OpenShared(t) \/ OpenVersion(t) \/ CloseShared(t) \/ CloseLast(t) \/ CloseBusy(t)
                 \/ DrainDone(t) \/ UseBegin(t) \/ UseEnd(t)
        BY <2>1, <2>2, <2>3, <2>4, <2>5, <2>6, <2>7, <3>2 DEF Device!Next
      <3> QED
        BY <2>9, <3>1, <3>2 DEF Inside, Call, Open, Close, Use, CheckDriver
    <2> QED
      BY <2>8, <2>9 DEF Next
  <1> QED
    BY <1>1, <1>2, SpecIInv, PTL DEF Spec, ImplementsDevice, Device!Spec
=============================================================================
