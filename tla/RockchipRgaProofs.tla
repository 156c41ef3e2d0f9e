------------------------- MODULE RockchipRgaProofs --------------------------
(***************************************************************************)
(* Proofs about class RockchipRga on the legacy context, for one object,   *)
(* any number of drawing threads, and its DRM buffers.                     *)
(***************************************************************************)
EXTENDS RockchipRga, RgaContextProofs

\* The application has one object of the class.  (With two, the destructor of
\* one gives a reference back that belongs to the other.)
OneObject == \A s, t \in Objects : s = t

Entering == {"open", "check"} \cup Locked

\* mSupportRga says whether the object is counted, whenever its thread is not in
\* a call of its own; only the object's thread is ever counted; and whoever is
\* not counted has a NULL mContext, or is about to store it.
ObjInv ==
  /\ mSupportRga \subseteq alive /\ alive \subseteq Objects
  /\ context_closing => \E t \in Threads : pc[t] = "drain"
  /\ \A t \in Threads :
       /\ t \notin Objects => ~owned[t] /\ pc[t] \in {"idle"} \cup Using
       /\ pc[t] \in Entering => t \in alive
       /\ IF pc[t] \in {"idle"} \cup Using THEN owned[t] <=> t \in mSupportRga
                                           ELSE t \notin mSupportRga
       /\ ~owned[t] => context[t] = Null \/ pc[t] = "drain"

\* The kernel's and the application's view of the buffers agree: an open card
\* is named by one bo_t, and its handle says whether the card has a buffer.
Bo == [fd : CardFds \cup {0, -1}, handle : {0, 1}, ptr : BOOLEAN]
BoType ==
  bo \in [Bos -> Bo] /\ used \subseteq Bos /\ dumb \subseteq CardFds \X Bos
CardInv ==
  /\ \A b \in Bos : IF b \in used THEN bo[b].fd # 0 ELSE bo[b].fd = 0 /\ bo[b].handle = 0
  /\ \A b, c \in used : bo[b].fd = bo[c].fd => bo[b].fd = -1 \/ b = c
  /\ 0 \in open /\ open \subseteq CardFds \cup {0}
  /\ \A f \in CardFds : f \in open <=> \E b \in used : bo[b].fd = f
DumbInv == \A f \in CardFds, b \in Bos : <<f, b>> \in dumb <=> f = bo[b].fd /\ bo[b].handle # 0
MapInv == mappings = {b \in Bos : bo[b].ptr}
BoInv == BoType /\ CardInv /\ DumbInv /\ MapInv

-----------------------------------------------------------------------------
(* The object's calls are calls the context expects.                       *)

\* The calls of an object are calls of a careful application: RgaInit without a
\* reference, RgaDeInit with one or with a NULL mContext.
LEMMA ObjectCalls ==
  ASSUME IInv, ObjInv, NEW t \in Threads
  PROVE  /\ Construct(t) \/ RkRgaInit(t) => CallRgaInit(t)
         /\ RkRgaDeInit(t) \/ Destroy(t) => CallRgaDeInit(t)
  <1>1. ASSUME Construct(t) PROVE CallRgaInit(t)
    <2>1. t \notin mSupportRga /\ pc[t] = "idle"
      BY <1>1 DEF Construct, Enter, ObjInv
    <2>2. ~owned[t] /\ context[t] = Null
      BY <2>1 DEF ObjInv
    <2>3. context' = context
      BY <1>1, <2>2 DEF Construct, IInv, TypeOK
    <2> QED
      BY <1>1, <2>1, <2>2, <2>3 DEF Construct, Enter, CallRgaInit
  <1>2. ASSUME RkRgaInit(t) PROVE CallRgaInit(t)
    BY <1>2 DEF RkRgaInit, Enter, CallRgaInit, ObjInv
  <1>3. ASSUME RkRgaDeInit(t) \/ Destroy(t) PROVE CallRgaDeInit(t)
    BY <1>3 DEF RkRgaDeInit, Destroy, Enter, CallRgaDeInit, ObjInv
  <1> QED
    BY <1>1, <1>2, <1>3

\* Every step of the class is a step of the legacy context, or not visible to it.
LEMMA RkStepIsStep == IInv /\ ObjInv /\ [RkNext]_rkVars => [Next]_vars
  <1> SUFFICES ASSUME IInv, ObjInv, RkNext PROVE [Next]_vars
    BY DEF rkVars
  <1>1. PICK t \in Threads :
          \/ Construct(t) \/ RkRgaInit(t) \/ RkRgaDeInit(t) \/ Destroy(t)
          \/ InitReturns(t) \/ ContextStep(t) \/ UNCHANGED vars
    BY DEF RkNext
  <1>2. CASE Construct(t) \/ RkRgaInit(t) \/ RkRgaDeInit(t) \/ Destroy(t)
    BY <1>2, ObjectCalls DEF Next, Call
  <1>3. CASE InitReturns(t) \/ ContextStep(t)
    BY <1>3 DEF InitReturns, ContextStep, Next, Inside, Call, CheckDriver
  <1> QED
    BY <1>1, <1>2, <1>3

\* With one object the close of a matching context is the last one.
LEMMA OneHolder ==
  ASSUME OneObject, IInv, ObjInv, NEW t \in Threads, owned[t]
  PROVE  refCount = 1
  <1>1. Holders = {t}
    BY DEF Holders, OneObject, ObjInv
  <1> QED
    BY <1>1, FS_Singleton DEF IInv, CountInv

-----------------------------------------------------------------------------
(* The object's own invariant                                              *)

LEMMA InitObjInv == RkInit => ObjInv
  BY DEF RkInit, Init, ObjInv, Using, Entering, Locked

\* The calls of the object.
LEMMA CallsKeepObjInv ==
  ASSUME IInv, ObjInv, NEW t \in Threads,
         \/ Construct(t) \/ RkRgaInit(t) \/ RkRgaDeInit(t) \/ Destroy(t) \/ InitReturns(t)
  PROVE  ObjInv'
  <1> USE DEF Using, Entering, Locked, Goto, shared, IInv, TypeOK, ObjInv
  <1>1. CASE Construct(t)
    <2>1. CallRgaInit(t)
      BY <1>1, ObjectCalls
    <2> QED
      BY <1>1, <2>1 DEF Construct, CallRgaInit
  <1>2. CASE RkRgaInit(t)
    BY <1>2 DEF RkRgaInit, Enter, objVars
  <1>3. CASE RkRgaDeInit(t)
    BY <1>3 DEF RkRgaDeInit, Enter
  <1>4. CASE Destroy(t)
    BY <1>4 DEF Destroy, Enter
  <1>5. CASE InitReturns(t)
    BY <1>5 DEF InitReturns, CheckDriverOk, RefInv
  <1> QED
    BY <1>1, <1>2, <1>3, <1>4, <1>5

\* NormalRgaOpen and the drawing operations do not touch the object.
LEMMA OpenKeepsObjInv ==
  ASSUME IInv, ObjInv, NEW t \in Threads, UNCHANGED objVars,
         Open(t) \/ CheckDriverFails(t) \/ Use(t) \/ UseBegin(t) \/ SpuriousWakeup(t)
  PROVE  ObjInv'
  <1> USE DEF Using, Entering, Locked, Goto, Runs, MutexFree, CondWait, shared, locals, objVars,
              IInv, TypeOK, ObjInv
  <1>1. CASE OpenWait(t) \/ OpenFirst(t)
    BY <1>1 DEF OpenWait, OpenFirst
  <1>2. CASE OpenShared(t)
    BY <1>2 DEF OpenShared, TakeReference
  <1>3. CASE OpenMalloc(t) \/ OpenDevice(t)
    BY <1>3 DEF OpenMalloc, OpenDevice, UnlockErr, RgaOpenErr, RefInv
  <1>4. CASE OpenVersion(t)
    BY <1>4 DEF OpenVersion, TakeReference, GetVersionError, UnlockErr, RgaOpenErr, RefInv
  <1>5. CASE CheckDriverFails(t)
    BY <1>5 DEF CheckDriverFails, RefInv
  <1>6. CASE UseIoctl(t) \/ UseEnd(t) \/ UseBegin(t) \/ SpuriousWakeup(t)
    BY <1>6 DEF UseIoctl, UseEnd, UseBegin, SpuriousWakeup
  <1> QED
    BY <1>1, <1>2, <1>3, <1>4, <1>5, <1>6 DEF Open, Use

\* NormalRgaClose: the reference of the only object is the last one, so the
\* close of it stores NULL in mContext.
LEMMA CloseKeepsObjInv ==
  ASSUME OneObject, IInv, ObjInv, NEW t \in Threads, UNCHANGED objVars, Close(t)
  PROVE  ObjInv'
  <1> USE DEF Using, Entering, Locked, Closing, Goto, Runs, MutexFree, CondWait, shared, locals,
              objVars, IInv, TypeOK, ObjInv
  <1>1. CASE CloseRejected(t)
    <2>1. ~owned[t]
      BY <1>1, OneHolder DEF CloseRejected, CloseMatches, RefInv
    <2> QED
      BY <1>1, <2>1 DEF CloseRejected, ReturnFromClose
  <1>2. CASE CloseShared(t)
    BY <1>2, OneHolder DEF CloseShared, CloseMatches, RefInv
  <1>3. CASE CloseLast(t)
    <2>1. \A u \in Threads \ {t} : pc[u] # "drain"
      BY <1>3 DEF CloseLast, CloseInv
    <2> QED
      BY <1>3, <2>1 DEF CloseLast, DropReference, Teardown
  <1>4. CASE CloseBusy(t)
    BY <1>4 DEF CloseBusy, DropReference
  <1>5. CASE DrainAgain(t)
    BY <1>5 DEF DrainAgain
  <1>6. CASE DrainDone(t)
    BY <1>6 DEF DrainDone, Teardown, CloseInv, RefInv
  <1> QED
    BY <1>1, <1>2, <1>3, <1>4, <1>5, <1>6 DEF Close

LEMMA NextObjInv == OneObject /\ IInv /\ ObjInv /\ [RkNext]_rkVars => ObjInv'
  <1> SUFFICES ASSUME OneObject, IInv, ObjInv, [RkNext]_rkVars PROVE ObjInv'
    OBVIOUS
  <1>1. CASE RkNext
    <2>1. PICK t \in Threads :
            \/ Construct(t) \/ RkRgaInit(t) \/ RkRgaDeInit(t) \/ Destroy(t)
            \/ InitReturns(t) \/ ContextStep(t) \/ UNCHANGED <<vars, objVars>>
      BY <1>1 DEF RkNext
    <2>2. CASE ContextStep(t)
      BY <2>2, OpenKeepsObjInv, CloseKeepsObjInv DEF ContextStep
    <2>3. CASE UNCHANGED <<vars, objVars>>
      BY <2>3 DEF vars, shared, locals, objVars, ObjInv
    <2> QED
      BY <2>1, <2>2, <2>3, CallsKeepObjInv
  <1>2. CASE UNCHANGED rkVars
    BY <1>2 DEF rkVars, vars, shared, locals, objVars, ObjInv
  <1> QED
    BY <1>1, <1>2

-----------------------------------------------------------------------------
(* The buffers                                                             *)

LEMMA InitBoInv == BoInit => BoInv
  BY CardFdsAssumption DEF BoInit, BoInv, Bo, BoType, CardInv, DumbInv, MapInv

\* The fields of a bo_t; -1 and 0 name no card.
LEMMA BoFacts ==
  ASSUME BoType, NEW b \in Bos
  PROVE  /\ bo[b].fd \in CardFds \cup {0, -1} /\ bo[b].handle \in {0, 1} /\ bo[b].ptr \in BOOLEAN
         /\ bo[b] = [fd |-> bo[b].fd, handle |-> bo[b].handle, ptr |-> bo[b].ptr]
         /\ -1 \notin CardFds /\ 0 \notin CardFds
         /\ bo[b].fd >= 0 <=> bo[b].fd # -1
  <1>1. -1 \notin CardFds /\ 0 \notin CardFds /\ \A f \in CardFds : f >= 0
    BY CardFdsAssumption
  <1>2. bo[b] \in Bo
    BY DEF BoType
  <1>3. /\ bo[b].fd \in CardFds \cup {0, -1} /\ bo[b].handle \in {0, 1} /\ bo[b].ptr \in BOOLEAN
        /\ bo[b] = [fd |-> bo[b].fd, handle |-> bo[b].handle, ptr |-> bo[b].ptr]
    BY <1>2 DEF Bo
  <1>4. bo[b].fd >= 0 <=> bo[b].fd # -1
    BY <1>1, <1>3
  <1> QED
    BY <1>1, <1>3, <1>4

\* One bo_t gets a card and a handle, or loses them: what the others name is not
\* touched.
LEMMA OneBoChanges ==
  ASSUME BoInv, NEW b \in Bos, NEW v \in Bo, bo' = [bo EXCEPT ![b] = v], v.ptr = bo[b].ptr,
         mappings' = mappings
  PROVE  /\ bo' \in [Bos -> Bo] /\ bo'[b] = v
         /\ \A c \in Bos \ {b} : bo'[c] = bo[c]
         /\ MapInv'
  <1>1. /\ bo' \in [Bos -> Bo] /\ bo'[b] = v
        /\ \A c \in Bos \ {b} : bo'[c] = bo[c]
    BY DEF BoInv, BoType
  <1> QED
    BY <1>1 DEF BoInv, MapInv

LEMMA AllocKeepsBoInv ==
  ASSUME BoInv, NEW b \in Bos, RkRgaGetAllocBufferExt(b)
  PROVE  BoInv'
  <1>1. used' = used \cup {b} /\ mappings' = mappings /\ (b \in used => bo[b].fd = -1)
    BY DEF RkRgaGetAllocBufferExt
  <1>2. PICK v \in Bo :
          /\ bo' = [bo EXCEPT ![b] = v] /\ v.ptr = bo[b].ptr
          /\ \/ v.fd = -1 /\ v.handle = 0 /\ open' = open /\ dumb' = dumb
             \/ /\ v.fd \in CardFds \ open /\ v.handle = 1
                /\ open' = open \cup {v.fd} /\ dumb' = dumb \cup {<<v.fd, b>>}
    <2> DEFINE e == EmptyBo(b)
    <2>1. e \in Bo /\ e.fd = -1 /\ e.handle = 0 /\ e.ptr = bo[b].ptr
      <3>1. bo[b] \in Bo
        BY DEF BoInv, BoType
      <3>2. e.ptr = bo[b].ptr
        BY <3>1 DEF EmptyBo, Bo
      <3>3. e \in Bo /\ e.fd = -1 /\ e.handle = 0
        BY <3>1 DEF EmptyBo, Bo
      <3> QED
        BY <3>2, <3>3
    <2>2. CASE bo' = [bo EXCEPT ![b] = e] /\ UNCHANGED <<open, dumb>>
      BY <2>1, <2>2, Zenon
    <2>3. ASSUME NEW f \in CardFds \ open,
                 bo' = [bo EXCEPT ![b] = [e EXCEPT !.fd = f, !.handle = 1]],
                 open' = open \cup {f}, dumb' = dumb \cup {<<f, b>>}
          PROVE  \E v \in Bo :
                   /\ bo' = [bo EXCEPT ![b] = v] /\ v.ptr = bo[b].ptr
                   /\ v.fd \in CardFds \ open /\ v.handle = 1
                   /\ open' = open \cup {v.fd} /\ dumb' = dumb \cup {<<v.fd, b>>}
      <3> DEFINE v == [e EXCEPT !.fd = f, !.handle = 1]
      <3>1. v \in Bo /\ v.fd = f /\ v.handle = 1 /\ v.ptr = bo[b].ptr
        <4> HIDE DEF e
        <4>1. e \in Bo
          BY <2>1
        <4>2. v.ptr = e.ptr
          BY <4>1 DEF Bo
        <4>3. v \in Bo /\ v.fd = f /\ v.handle = 1
          BY <4>1 DEF Bo
        <4> QED
          BY <2>1, <4>2, <4>3, Zenon
      <3> HIDE DEF v
      <3> QED
        BY <2>3, <3>1 DEF v
    <2> QED
      BY <2>2, <2>3 DEF RkRgaGetAllocBufferExt
  <1>3. /\ bo' \in [Bos -> Bo] /\ bo'[b] = v
        /\ \A c \in Bos \ {b} : bo'[c] = bo[c]
        /\ MapInv'
    BY <1>1, <1>2, OneBoChanges
  <1>4. BoType'
    BY <1>1, <1>2, <1>3 DEF BoInv, BoType
  <1>5. CardInv'
    BY <1>1, <1>2, <1>3, CardFdsAssumption, BoFacts DEF BoInv, BoType, CardInv
  <1>6. DumbInv'
    <2>1. \A f \in CardFds : <<f, b>> \notin dumb
      BY <1>1, BoFacts DEF BoInv, BoType, CardInv, DumbInv
    <2>2. ASSUME NEW f \in CardFds, NEW c \in Bos
          PROVE  <<f, c>> \in dumb' <=> f = bo'[c].fd /\ bo'[c].handle # 0
      <3>1. CASE c = b
        BY <1>2, <1>3, <2>1, <3>1, BoFacts DEF BoInv
      <3>2. CASE c # b
        BY <1>2, <1>3, <3>2 DEF BoInv, DumbInv
      <3> QED
        BY <3>1, <3>2
    <2> QED
      BY <2>2 DEF DumbInv
  <1> QED
    BY <1>3, <1>4, <1>5, <1>6 DEF BoInv

\* RkRgaFreeBuffer and RkRgaFree: the card is kept or closed, the buffer
\* destroyed by the ioctl or with its card.
LEMMA FreeKeepsBoInv ==
  ASSUME BoInv, NEW b \in Bos, RkRgaFreeBuffer(b) \/ RkRgaFree(b)
  PROVE  BoInv'
  <1>1. used' = used /\ mappings' = mappings /\ b \in used /\ bo[b].fd \in CardFds
    BY BoFacts DEF RkRgaFreeBuffer, RkRgaFree, BoInv, CardInv, BoType
  <1>2. PICK v \in Bo :
          /\ bo' = [bo EXCEPT ![b] = v] /\ v.ptr = bo[b].ptr
          /\ \/ /\ v.fd = bo[b].fd /\ open' = open
                /\ dumb' = IF v.handle = 0 THEN dumb \ {<<bo[b].fd, b>>} ELSE dumb
                /\ bo[b].handle # 0
             \/ /\ v.fd = -1 /\ open' = open \ {bo[b].fd}
                /\ \E D \in {dumb, dumb \ {<<bo[b].fd, b>>}} : dumb' = {d \in D : d[1] # bo[b].fd}
    <2>1. bo \in [Bos -> Bo] /\ bo[b] \in Bo /\ bo[b].handle \in {0, 1} /\ bo[b].fd \in CardFds \cup {0, -1}
      BY BoFacts DEF BoInv, BoType
    <2>2. CASE RkRgaFreeBuffer(b)
      <3>1. PICK r \in DestroyDumb(b) : bo' = [bo EXCEPT ![b].handle = r.handle] /\ dumb' = r.dumb
        BY <2>2 DEF RkRgaFreeBuffer
      <3>2. /\ r.handle \in {0, 1} /\ bo[b].handle # 0 /\ open' = open
            /\ dumb' = IF r.handle = 0 THEN dumb \ {<<bo[b].fd, b>>} ELSE dumb
        BY <2>1, <2>2, <3>1 DEF DestroyDumb, RkRgaFreeBuffer
      <3> DEFINE v == [bo[b] EXCEPT !.handle = r.handle]
      <3>3. bo' = [bo EXCEPT ![b] = v]
        BY <3>1
      <3>4. v \in Bo /\ v.fd = bo[b].fd
        BY <2>1, <3>2 DEF Bo
      <3>5. v.handle = r.handle /\ v.ptr = bo[b].ptr
        BY <2>1, <3>2 DEF Bo
      <3> HIDE DEF v
      <3> QED
        BY <3>2, <3>3, <3>4, <3>5
    <2>3. CASE RkRgaFree(b)
      <3>1. PICK r \in IF bo[b].handle = 0 THEN {[handle |-> 0, dumb |-> dumb]} ELSE DestroyDumb(b) :
              /\ bo' = [bo EXCEPT ![b].handle = r.handle, ![b].fd = -1]
              /\ CloseCard(bo[b].fd, r.dumb)
        BY <2>3 DEF RkRgaFree
      <3>2. /\ r.handle \in {0, 1} /\ r.dumb \in {dumb, dumb \ {<<bo[b].fd, b>>}}
            /\ open' = open \ {bo[b].fd} /\ dumb' = {d \in r.dumb : d[1] # bo[b].fd}
        BY <2>1, <3>1 DEF DestroyDumb, CloseCard
      <3> DEFINE v == [bo[b] EXCEPT !.fd = -1, !.handle = r.handle]
      <3>3. bo' = [bo EXCEPT ![b] = v]
        BY <3>1
      <3>4. v \in Bo /\ v.fd = -1 /\ v.ptr = bo[b].ptr
        <4>1. v.ptr = bo[b].ptr
          BY <2>1, <3>2 DEF Bo
        <4>2. v \in Bo /\ v.fd = -1
          BY <2>1, <3>2 DEF Bo
        <4> QED
          BY <4>1, <4>2
      <3> HIDE DEF v
      <3> QED
        BY <3>2, <3>3, <3>4
    <2> QED
      BY <2>2, <2>3
  <1>3. /\ bo' \in [Bos -> Bo] /\ bo'[b] = v
        /\ \A c \in Bos \ {b} : bo'[c] = bo[c]
        /\ MapInv'
    BY <1>1, <1>2, OneBoChanges
  <1>4. BoType'
    BY <1>1, <1>2, <1>3 DEF BoInv, BoType
  <1>5. CardInv'
    BY <1>1, <1>2, <1>3, CardFdsAssumption, BoFacts DEF BoInv, BoType, CardInv
  <1>6. DumbInv'
    <2>2. ASSUME NEW f \in CardFds, NEW c \in Bos
          PROVE  <<f, c>> \in dumb' <=> f = bo'[c].fd /\ bo'[c].handle # 0
      <3>0. <<f, c>> \in dumb <=> f = bo[c].fd /\ bo[c].handle # 0
        BY DEF BoInv, DumbInv
      <3>1. CASE c = b
        BY <1>1, <1>2, <1>3, <3>0, <3>1, BoFacts DEF BoInv
      <3>2. CASE c # b
        <4>1. <<f, c>> \in dumb => f # bo[b].fd
          <5>1. <<f, c>> \in dumb => c \in used /\ f = bo[c].fd
            BY <3>0 DEF BoInv, CardInv
          <5>2. f # -1
            BY BoFacts DEF BoInv
          <5> QED
            BY <1>1, <3>2, <5>1, <5>2 DEF BoInv, CardInv
        <4> QED
          BY <1>2, <1>3, <3>0, <3>2, <4>1
      <3> QED
        BY <3>1, <3>2
    <2> QED
      BY <2>2 DEF DumbInv
  <1> QED
    BY <1>3, <1>4, <1>5, <1>6 DEF BoInv

LEMMA MapKeepsBoInv ==
  ASSUME BoInv, NEW b \in Bos, RkRgaGetMmap(b) \/ RkRgaUnmap(b)
  PROVE  BoInv'
  <1>1. PICK p \in BOOLEAN :
          /\ bo' = [bo EXCEPT ![b].ptr = p] /\ UNCHANGED <<used, open, dumb>>
          /\ mappings' = IF p THEN mappings \cup {b} ELSE mappings \ {b}
    BY DEF RkRgaGetMmap, RkRgaUnmap
  <1> DEFINE v == [bo[b] EXCEPT !.ptr = p]
  <1>2. bo[b] \in Bo /\ bo \in [Bos -> Bo]
    BY DEF BoInv, BoType
  <1>3. v \in Bo /\ v.fd = bo[b].fd /\ v.handle = bo[b].handle
    BY <1>2 DEF Bo
  <1>4. v.ptr = p
    BY <1>2 DEF Bo
  <1>5. bo' = [bo EXCEPT ![b] = v]
    BY <1>1
  <1> HIDE DEF v
  <1>6. bo' \in [Bos -> Bo] /\ bo'[b] = v /\ \A c \in Bos \ {b} : bo'[c] = bo[c]
    BY <1>2, <1>3, <1>5
  <1>7. \A c \in Bos : bo'[c].fd = bo[c].fd /\ bo'[c].handle = bo[c].handle
    BY <1>3, <1>6
  <1>8. BoType' /\ CardInv' /\ DumbInv'
    BY <1>1, <1>6, <1>7 DEF BoInv, BoType, CardInv, DumbInv
  <1>9. MapInv'
    BY <1>1, <1>4, <1>6 DEF BoInv, MapInv
  <1> QED
    BY <1>8, <1>9 DEF BoInv

LEMMA NextBoInv == BoInv /\ [RkNext]_rkVars => BoInv'
  <1> SUFFICES ASSUME BoInv, [RkNext]_rkVars PROVE BoInv'
    OBVIOUS
  <1>1. CASE BoNext
    BY <1>1, AllocKeepsBoInv, FreeKeepsBoInv, MapKeepsBoInv DEF BoNext
  <1>2. CASE UNCHANGED boVars
    BY <1>2 DEF boVars, BoInv, BoType, CardInv, DumbInv, MapInv
  <1> QED
    BY <1>1, <1>2 DEF RkNext, rkVars, BoStep

-----------------------------------------------------------------------------
\* Every reachable state of the class satisfies the context's and the object's
\* invariants.
LEMMA RkSpecInv ==
  ASSUME OneObject
  PROVE  RkSpec => [](IInv /\ ObjInv)
  <1>1. RkInit => IInv /\ ObjInv
    BY InitIInv, InitObjInv DEF RkInit
  <1>2. IInv /\ ObjInv /\ [RkNext]_rkVars => (IInv /\ ObjInv)'
    BY OneObject, RkStepIsStep, NextIInv, NextObjInv
  <1> QED
    BY <1>1, <1>2, PTL DEF RkSpec

\* With one object, whatever it, its buffers and the drawing threads do is a
\* behaviour of the legacy context: every theorem about Spec holds of it.
THEOREM ClassUsesContext ==
  ASSUME OneObject
  PROVE  RkSpec => Spec
  <1>1. RkInit => Init
    BY DEF RkInit
  <1>2. IInv /\ ObjInv /\ [RkNext]_rkVars => [Next]_vars
    BY RkStepIsStep
  <1> QED
    BY <1>1, <1>2, RkSpecInv, OneObject, PTL DEF RkSpec, Spec

\* RkRgaIsReady tells the truth: what a ready object hands out through
\* RkRgaGetContext is the published context, allocated and with its descriptor
\* open.
THEOREM ReadyObjectHoldsContext ==
  ASSUME OneObject
  PROVE  RkSpec => []ReadyHoldsContext
  <1>1. IInv /\ ObjInv => ReadyHoldsContext
    <2> SUFFICES ASSUME IInv, ObjInv, NEW t \in mSupportRga, pc[t] = "idle"
                 PROVE  context[t] = rgaCtx /\ Live(context[t])
      BY DEF ReadyHoldsContext
    <2>1. t \in Threads /\ owned[t]
      BY ObjectsAssumption DEF ObjInv
    <2> QED
      BY <2>1 DEF IInv, RefInv, HeapInv, Live
  <1> QED
    BY <1>1, RkSpecInv, OneObject, PTL

\* The destructor gives back what the constructor took: once the object is
\* gone and no call runs, neither the context nor its descriptor is left.
THEOREM DestructorReleases ==
  ASSUME OneObject
  PROVE  RkSpec => []NothingLeftBehind
  <1>1. IInv /\ ObjInv => NothingLeftBehind
    <2> SUFFICES ASSUME IInv, ObjInv, alive = {}, \A t \in Threads : pc[t] = "idle"
                 PROVE  heap = {} /\ fds = {}
      BY DEF NothingLeftBehind
    <2>1. Holders = {} /\ ~context_closing
      BY DEF ObjInv, Holders
    <2>2. refCount = 0
      BY <2>1, FS_EmptySet DEF IInv, CountInv
    <2>3. mMutex = Null
      BY DEF IInv, TypeOK, LockInv, Locked
    <2> QED
      BY <2>1, <2>2, <2>3 DEF IInv, CloseInv, HeapInv
  <1> QED
    BY <1>1, RkSpecInv, OneObject, PTL

\* Any number of bo_t structures and descriptors: whatever fails, and in whatever
\* order buffers are allocated, mapped and freed, the descriptors and the dumb
\* buffers of the process are those the structures name.
THEOREM BuffersOwnTheirCards == RkSpec => []BoOwnsItsCard
  <1>1. BoInv => BoOwnsItsCard
    <2> SUFFICES ASSUME BoInv PROVE BoOwnsItsCard
      OBVIOUS
    <2>1. open = {0} \cup {bo[b].fd : b \in {u \in used : bo[u].fd >= 0}}
      <3>1. \A b \in used : bo[b].fd >= 0 <=> bo[b].fd \in CardFds
        BY BoFacts DEF BoInv, BoType, CardInv
      <3> QED
        BY <3>1 DEF BoInv, CardInv
    <2>2. ASSUME NEW b \in Bos
          PROVE  {d[1] : d \in {e \in dumb : e[2] = b}} =
                   IF bo[b].fd >= 0 /\ bo[b].handle # 0 THEN {bo[b].fd} ELSE {}
      <3>1. bo[b].fd >= 0 /\ bo[b].handle # 0 => bo[b].fd \in CardFds
        BY BoFacts DEF BoInv, BoType, CardInv
      <3>2. \A d \in dumb : d = <<d[1], d[2]>> /\ d[1] \in CardFds /\ d[2] \in Bos
        BY DEF BoInv, BoType
      <3>3. \A f : f \in {d[1] : d \in {e \in dumb : e[2] = b}} <=> f \in CardFds /\ <<f, b>> \in dumb
        BY <3>2
      <3>4. \A f \in CardFds : <<f, b>> \in dumb <=> f = bo[b].fd /\ bo[b].fd >= 0 /\ bo[b].handle # 0
        <4>1. \A f \in CardFds : f >= 0
          BY CardFdsAssumption
        <4> QED
          BY <4>1 DEF BoInv, DumbInv
      <3> QED
        BY <3>1, <3>3, <3>4
    <2>3. \A b \in Bos : bo[b].ptr <=> b \in mappings
      BY DEF BoInv, MapInv
    <2> QED
      BY <2>1, <2>2, <2>3 DEF BoOwnsItsCard
  <1>2. RkInit => BoInv
    BY InitBoInv DEF RkInit
  <1> QED
    BY <1>1, <1>2, NextBoInv, PTL DEF RkSpec
=============================================================================
