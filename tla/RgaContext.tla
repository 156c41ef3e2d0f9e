----------------------------- MODULE RgaContext -----------------------------
(***************************************************************************)
(* The legacy RGA context of core/NormalRga.cpp: one process-wide          *)
(* reference-counted struct rgaContext around the /dev/rga descriptor.     *)
(*                                                                         *)
(* Threads call RgaInit (NormalRgaOpen, then the driver version check),    *)
(* RgaDeInit (NormalRgaClose) and the drawing operations RgaBlit,          *)
(* RgaCollorFill, RgaCollorPalette and RgaFlush, which take no reference   *)
(* of their own: a RgaContextUse guard counts them, and the last close     *)
(* drains them before it frees the context.                                *)
(*                                                                         *)
(* A step holds mMutex from its first to its last effect unless the code   *)
(* releases the mutex in between.  The mutex is explicit where one call    *)
(* keeps it over several steps that can each fail (the fresh open).        *)
(***************************************************************************)
EXTENDS Integers, FiniteSets

CONSTANTS Threads,   \* application threads
          Ctxs,      \* addresses malloc can return for a struct rgaContext
          Fds,       \* descriptors open("/dev/rga") can return
          Null       \* NULL, no owner, no descriptor

ASSUME NullAssumption == /\ Null \notin Threads
                         /\ Null \notin Ctxs
                         /\ Null \notin Fds
ASSUME FiniteAssumption == IsFiniteSet(Threads)

VARIABLES
  mMutex,             \* owner of mMutex, or Null
  refCount,           \* refCount
  rgaCtx,             \* the published context, or Null
  active_operations,  \* live RgaContextUse guards
  context_closing,    \* the last reference is being torn down
  waiters,            \* threads asleep in pthread_cond_wait(&context_idle)
  heap,               \* allocated contexts
  fds,                \* open /dev/rga descriptors
  rgaFd,              \* rgaFd[c]: the field of context c
  context,            \* context[t]: the void *context variable of thread t
  ctx,                \* ctx[t]: the local ctx of the call thread t executes
  pc,                 \* where thread t is
  owned               \* owned[t]: t was counted and has not released (ghost)

lockVars  == <<mMutex, waiters>>
shared    == <<refCount, rgaCtx, active_operations, context_closing>>
resources == <<heap, fds, rgaFd>>
locals    == <<context, ctx, pc, owned>>
vars == <<lockVars, shared, resources, locals>>

(***************************************************************************)
(* Program points.  "idle": outside the library.                           *)
(*   open, malloc, device, version   NormalRgaOpen                         *)
(*   check                           RgaInit, after NormalRgaOpen          *)
(*   close, initClose                NormalRgaClose, from RgaDeInit or     *)
(*                                   from the failed version check         *)
(*   drain                           NormalRgaClose, waiting for the ops   *)
(*   op, opDone                      a drawing operation                   *)
(***************************************************************************)
Locked  == {"malloc", "device", "version"}
Using   == {"op", "opDone"}
Closing == {"close", "initClose"}
PCs == {"idle", "open", "check", "drain"} \cup Locked \cup Using \cup Closing

Init ==
  /\ mMutex = Null
  /\ refCount = 0
  /\ rgaCtx = Null
  /\ active_operations = 0
  /\ context_closing = FALSE
  /\ waiters = {}
  /\ heap = {}
  /\ fds = {}
  /\ rgaFd = [c \in Ctxs |-> Null]
  /\ context = [t \in Threads |-> Null]
  /\ ctx = [t \in Threads |-> Null]
  /\ pc = [t \in Threads |-> "idle"]
  /\ owned = [t \in Threads |-> FALSE]

Goto(t, label) == pc' = [pc EXCEPT ![t] = label]

\* Thread t is awake and pthread_mutex_lock, or the wake-up from
\* pthread_cond_wait, can give it the mutex.
Runs(t, label) == pc[t] = label /\ t \notin waiters
MutexFree == mMutex = Null

\* pthread_cond_wait: the mutex is released and t sleeps, in one step.
CondWait(t) == waiters' = waiters \cup {t} /\ UNCHANGED mMutex
Broadcast == waiters' = {}

\* POSIX lets pthread_cond_wait return without a signal.
SpuriousWakeup(t) ==
  /\ t \in waiters
  /\ waiters' = waiters \ {t}
  /\ UNCHANGED <<mMutex, shared, resources, locals>>

-----------------------------------------------------------------------------
(* RgaInit: NormalRgaOpen and the version check                            *)

\* An application calls RgaInit on a context variable that holds no reference.
CallRgaInit(t) ==
  /\ pc[t] = "idle" /\ ~owned[t]
  /\ Goto(t, "open")
  /\ UNCHANGED <<lockVars, shared, resources, context, ctx, owned>>

\* while (context_closing) pthread_cond_wait(&context_idle, &mMutex);
OpenWait(t) ==
  /\ Runs(t, "open") /\ MutexFree
  /\ context_closing
  /\ CondWait(t)
  /\ UNCHANGED <<shared, resources, locals>>

\* refCount++, *context = ctx, and the caller goes on to the version check.
TakeReference(t, c) ==
  /\ refCount' = refCount + 1
  /\ context' = [context EXCEPT ![t] = c]
  /\ owned' = [owned EXCEPT ![t] = TRUE]
  /\ Goto(t, "check")

\* Defect: the open does not wait for a close in progress.
OpenShared_NoWait(t) ==
  /\ Runs(t, "open") /\ MutexFree /\ rgaCtx # Null
  /\ TakeReference(t, rgaCtx)
  /\ UNCHANGED <<lockVars, rgaCtx, active_operations, context_closing, resources, ctx>>

\* Defect: only the thread that created the context is counted.
OpenShared_Uncounted(t) ==
  /\ Runs(t, "open") /\ MutexFree
  /\ ~context_closing /\ rgaCtx # Null
  /\ context' = [context EXCEPT ![t] = rgaCtx]
  /\ owned' = [owned EXCEPT ![t] = TRUE]
  /\ Goto(t, "check")
  /\ UNCHANGED <<lockVars, shared, resources, ctx>>

\* The context exists already.
OpenShared(t) ==
  /\ Runs(t, "open") /\ MutexFree
  /\ ~context_closing /\ rgaCtx # Null
  /\ TakeReference(t, rgaCtx)
  /\ UNCHANGED <<lockVars, rgaCtx, active_operations, context_closing, resources, ctx>>

\* There is none: the mutex is kept until the context is published.
OpenFirst(t) ==
  /\ Runs(t, "open") /\ MutexFree
  /\ ~context_closing /\ rgaCtx = Null
  /\ mMutex' = t
  /\ Goto(t, "malloc")
  /\ UNCHANGED <<waiters, shared, resources, context, ctx, owned>>

\* The error labels at the end of NormalRgaOpen: each one releases what the
\* steps before it acquired and falls through to the next.
Unlock(t) == mMutex' = Null
UnlockErr(t) == Unlock(t) /\ Goto(t, "idle") /\ UNCHANGED <<context, ctx, owned>>
RgaOpenErr(t) == heap' = heap \ {ctx[t]} /\ UnlockErr(t)
\* Defect: the descriptor is not closed when a version query fails.
GetVersionError_Leaks(t) == UNCHANGED fds /\ RgaOpenErr(t)
GetVersionError(t) == fds' = fds \ {rgaFd[ctx[t]]} /\ RgaOpenErr(t)

OpenMalloc(t) ==
  /\ pc[t] = "malloc"
  /\ \/ \E c \in Ctxs \ heap :
          /\ heap' = heap \cup {c}
          /\ ctx' = [ctx EXCEPT ![t] = c]
          /\ Goto(t, "device")
          /\ UNCHANGED <<mMutex, context, owned>>
     \/ UnlockErr(t) /\ UNCHANGED heap
  /\ UNCHANGED <<waiters, shared, fds, rgaFd>>

OpenDevice(t) ==
  /\ pc[t] = "device"
  /\ \/ \E f \in Fds \ fds :
          /\ fds' = fds \cup {f}
          /\ rgaFd' = [rgaFd EXCEPT ![ctx[t]] = f]
          /\ Goto(t, "version")
          /\ UNCHANGED <<mMutex, heap, context, ctx, owned>>
     \/ RgaOpenErr(t) /\ UNCHANGED <<fds, rgaFd>>
  /\ UNCHANGED <<waiters, shared>>

\* The driver and hardware version ioctls, with the fallback to the RGA2 and
\* RGA1 version ioctls; on success the context is published.
OpenVersion(t) ==
  /\ pc[t] = "version"
  /\ \/ /\ rgaCtx' = ctx[t]
        /\ TakeReference(t, ctx[t])
        /\ Unlock(t)
        /\ UNCHANGED <<ctx, heap, fds>>
     \/ GetVersionError(t) /\ UNCHANGED <<rgaCtx, refCount>>
  /\ UNCHANGED <<waiters, active_operations, context_closing, rgaFd>>

\* rga_check_driver(((struct rgaContext *)*ctx)->mDriverVersion), unlocked.
\* After the legacy fallback mDriverVersion is uninitialised, so the verdict is
\* a free choice in every case.
CheckDriverOk(t) ==
  /\ pc[t] = "check"
  /\ Goto(t, "idle")
  /\ UNCHANGED <<lockVars, shared, resources, context, ctx, owned>>

CheckDriverFails(t) ==
  /\ pc[t] = "check"
  /\ Goto(t, "initClose")
  /\ UNCHANGED <<lockVars, shared, resources, context, ctx, owned>>

-----------------------------------------------------------------------------
(* RgaDeInit: NormalRgaClose                                               *)

\* The application gives its reference back, or closes a context variable that
\* is still, or again, NULL.
CallRgaDeInit(t) ==
  /\ pc[t] = "idle"
  /\ owned[t] \/ context[t] = Null
  /\ Goto(t, "close")
  /\ UNCHANGED <<lockVars, shared, resources, context, ctx, owned>>

\* if (!ctx) ... if (!*context) ... if (*context != ctx) return -ENODEV;
CloseMatches(t) == rgaCtx # Null /\ context[t] = rgaCtx

\* RgaInit stores NULL in *ctx after the close of the failed version check.
ReturnFromClose(t) ==
  /\ context' = IF pc[t] = "initClose" THEN [context EXCEPT ![t] = Null] ELSE context
  /\ Goto(t, "idle")

CloseRejected(t) ==
  /\ \E l \in Closing : Runs(t, l)
  /\ MutexFree
  /\ ~CloseMatches(t) \/ refCount <= 0
  /\ ReturnFromClose(t)
  /\ UNCHANGED <<lockVars, shared, resources, ctx, owned>>

DropReference(t) ==
  /\ refCount' = refCount - 1
  /\ owned' = [owned EXCEPT ![t] = FALSE]

CloseShared(t) ==
  /\ \E l \in Closing : Runs(t, l)
  /\ MutexFree /\ CloseMatches(t) /\ refCount > 1
  /\ DropReference(t)
  /\ ReturnFromClose(t)
  /\ UNCHANGED <<lockVars, rgaCtx, active_operations, context_closing, resources, ctx>>

\* Defect: threads that sleep behind the close are not woken.
Teardown_Silent(t) ==
  /\ rgaCtx' = Null
  /\ context' = [context EXCEPT ![t] = Null]
  /\ fds' = fds \ {rgaFd[rgaCtx]}
  /\ heap' = heap \ {rgaCtx}
  /\ context_closing' = FALSE
  /\ Goto(t, "idle")
  /\ UNCHANGED <<waiters, mMutex, active_operations, rgaFd, ctx>>

\* rgaCtx = NULL; *context = NULL; close(fd); free(ctx); context_closing = false;
\* broadcast; unlock.
Teardown(t) ==
  /\ rgaCtx' = Null
  /\ context' = [context EXCEPT ![t] = Null]
  /\ fds' = fds \ {rgaFd[rgaCtx]}
  /\ heap' = heap \ {rgaCtx}
  /\ context_closing' = FALSE
  /\ Broadcast
  /\ Goto(t, "idle")
  /\ UNCHANGED <<mMutex, active_operations, rgaFd, ctx>>

\* Defect: the last close does not wait for the running operations.
Idle_NoDrain == TRUE

Idle == active_operations = 0

\* The last reference goes: at once when no operation is running...
CloseLast(t) ==
  /\ \E l \in Closing : Runs(t, l)
  /\ MutexFree /\ CloseMatches(t) /\ refCount = 1
  /\ Idle
  /\ DropReference(t)
  /\ Teardown(t)

\* ...and otherwise after the running ones, with new ones refused.
CloseBusy(t) ==
  /\ \E l \in Closing : Runs(t, l)
  /\ MutexFree /\ CloseMatches(t) /\ refCount = 1
  /\ ~Idle
  /\ DropReference(t)
  /\ context_closing' = TRUE
  /\ CondWait(t)
  /\ Goto(t, "drain")
  /\ UNCHANGED <<rgaCtx, active_operations, resources, context, ctx>>

\* A wake-up that finds operations still running.
DrainAgain(t) ==
  /\ Runs(t, "drain") /\ MutexFree /\ ~Idle
  /\ CondWait(t)
  /\ UNCHANGED <<shared, resources, locals>>

DrainDone(t) ==
  /\ Runs(t, "drain") /\ MutexFree /\ Idle
  /\ Teardown(t)
  /\ UNCHANGED <<refCount, owned>>

-----------------------------------------------------------------------------
(* The drawing operations                                                  *)

\* Defect: the guard does not look at context_closing.
UseBegin_WhileClosing(t) ==
  /\ pc[t] = "idle" /\ MutexFree /\ rgaCtx # Null
  /\ ctx' = [ctx EXCEPT ![t] = rgaCtx]
  /\ active_operations' = active_operations + 1
  /\ Goto(t, "op")
  /\ UNCHANGED <<lockVars, refCount, rgaCtx, context_closing, resources, context, owned>>

\* Defect: the guard's constructor does not count, its destructor does.
UseBegin_Uncounted(t) ==
  /\ pc[t] = "idle" /\ MutexFree
  /\ ~context_closing /\ rgaCtx # Null
  /\ ctx' = [ctx EXCEPT ![t] = rgaCtx]
  /\ Goto(t, "op")
  /\ UNCHANGED <<lockVars, shared, resources, context, owned>>

\* RgaContextUse(): no context, or one that is closing, is -ENODEV.
UseBegin(t) ==
  /\ pc[t] = "idle" /\ MutexFree
  /\ ~context_closing /\ rgaCtx # Null
  /\ ctx' = [ctx EXCEPT ![t] = rgaCtx]
  /\ active_operations' = active_operations + 1
  /\ Goto(t, "op")
  /\ UNCHANGED <<lockVars, refCount, rgaCtx, context_closing, resources, context, owned>>

\* The body: ioctl(ctx->rgaFd, ...), then a look at rgaCtx->driver_feature.
\* It holds no lock, and every early return of it also ends here.
UseIoctl(t) ==
  /\ pc[t] = "op"
  /\ Goto(t, "opDone")
  /\ UNCHANGED <<lockVars, shared, resources, context, ctx, owned>>

\* Defect: pthread_cond_signal wakes one waiter, which may be an open that goes
\* back to sleep instead of the close.
UseEnd_Signal(t) ==
  /\ pc[t] = "opDone" /\ MutexFree
  /\ active_operations' = active_operations - 1
  /\ IF active_operations = 1 /\ waiters # {}
     THEN \E w \in waiters : waiters' = waiters \ {w}
     ELSE UNCHANGED waiters
  /\ Goto(t, "idle")
  /\ UNCHANGED <<mMutex, refCount, rgaCtx, context_closing, resources, context, ctx, owned>>

\* ~RgaContextUse()
UseEnd(t) ==
  /\ pc[t] = "opDone" /\ MutexFree
  /\ active_operations' = active_operations - 1
  /\ IF active_operations = 1 THEN Broadcast ELSE UNCHANGED waiters
  /\ Goto(t, "idle")
  /\ UNCHANGED <<mMutex, refCount, rgaCtx, context_closing, resources, context, ctx, owned>>

-----------------------------------------------------------------------------
\* The steps by which a thread that is inside the library leaves it.
Open(t) == \/ OpenWait(t) \/ OpenShared(t) \/ OpenFirst(t)
           \/ OpenMalloc(t) \/ OpenDevice(t) \/ OpenVersion(t)
Close(t) == \/ CloseRejected(t) \/ CloseShared(t) \/ CloseLast(t) \/ CloseBusy(t)
            \/ DrainAgain(t) \/ DrainDone(t)
Use(t) == UseIoctl(t) \/ UseEnd(t)
CheckDriver(t) == CheckDriverOk(t) \/ CheckDriverFails(t)

Inside(t) == Open(t) \/ CheckDriver(t) \/ Close(t) \/ Use(t)
Call(t) == CallRgaInit(t) \/ CallRgaDeInit(t) \/ UseBegin(t)

Next == \E t \in Threads : Inside(t) \/ Call(t) \/ SpuriousWakeup(t)

Spec == Init /\ [][Next]_vars

\* A thread inside the library keeps running, and the driver answers every
\* ioctl; nobody is forced to call the library.
FairSpec == Spec /\ \A t \in Threads : WF_vars(Inside(t))

-----------------------------------------------------------------------------
(* Properties                                                              *)

Live(c) == c \in heap /\ rgaFd[c] \in fds

\* Types of every variable, and refCount never below zero.
TypeOK ==
  /\ mMutex \in Threads \cup {Null}
  /\ refCount \in Nat
  /\ rgaCtx \in Ctxs \cup {Null}
  /\ active_operations \in Nat
  /\ context_closing \in BOOLEAN
  /\ waiters \subseteq Threads
  /\ heap \subseteq Ctxs
  /\ fds \subseteq Fds
  /\ rgaFd \in [Ctxs -> Fds \cup {Null}]
  /\ context \in [Threads -> Ctxs \cup {Null}]
  /\ ctx \in [Threads -> Ctxs \cup {Null}]
  /\ pc \in [Threads -> PCs]
  /\ owned \in [Threads -> BOOLEAN]

\* An operation in flight works on the published context, allocated and with
\* its descriptor open, until its guard ends (RgaBlit reads the global
\* rgaCtx->driver_feature after the ioctl, without the mutex); so does the
\* version check that RgaInit makes after the mutex was released.
NoUseAfterFree ==
  /\ \A t \in Threads : pc[t] \in Using => ctx[t] = rgaCtx /\ Live(ctx[t])
  /\ \A t \in Threads : pc[t] = "check" => Live(context[t])

\* A thread that was counted and has not released holds the published context:
\* nobody else's close can take it away.
HolderKeepsContext ==
  \A t \in Threads : owned[t] => context[t] = rgaCtx /\ Live(context[t]) /\ ~context_closing

\* Outside a fresh open the process has one context and one descriptor, both
\* reachable from rgaCtx, or none: no failed open and no close leaks either.
NoLeak ==
  mMutex = Null =>
    IF rgaCtx = Null THEN heap = {} /\ fds = {}
                     ELSE heap = {rgaCtx} /\ fds = {rgaFd[rgaCtx]}

\* The branch of NormalRgaClose that logs "This can not be happened, close
\* before init" is not reachable: no close that matches the published context
\* finds the reference count at zero.
NeverCloseBeforeInit ==
  \A t \in Threads : pc[t] \in Closing /\ CloseMatches(t) => refCount > 0

\* The context is freed only when no operation is in flight and nobody holds a
\* reference.
FreedOnlyWhenUnused ==
  [][\A c \in Ctxs : c = rgaCtx /\ c \notin heap' =>
       \A t \in Threads : pc[t] \notin Using /\ ~owned'[t]]_vars

\* A close that waits for the operations finishes: the last guard wakes it.
CloseFinishes == \A t \in Threads : pc[t] = "drain" ~> pc[t] = "idle"

\* An open that went to sleep behind a close is woken: context_idle serves both
\* kinds of sleeper, so one wake-up must not be spent on the wrong one.
OpenIsWoken == \A t \in Threads : t \in waiters /\ pc[t] = "open" ~> t \notin waiters

-----------------------------------------------------------------------------
\* The abstraction: the context is a device that is open while held or used.
Device == INSTANCE RgaDevice WITH
  device  <- IF rgaCtx = Null THEN "shut"
             ELSE IF context_closing THEN "closing" ELSE "open",
  holders <- {t \in Threads : owned[t]},
  users   <- {t \in Threads : pc[t] \in Using}

\* NormalRgaOpen, NormalRgaClose and RgaContextUse together implement that
\* device: every step is one of its steps or changes none of its state.
ImplementsDevice == Device!Spec
=============================================================================
