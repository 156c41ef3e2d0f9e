----------------------------- MODULE RockchipRga -----------------------------
(***************************************************************************)
(* class RockchipRga (core/RockchipRga.cpp) on top of the legacy context:  *)
(* the constructor initialises, RkRgaInit and RkRgaDeInit are guarded by   *)
(* mSupportRga, and the destructor always calls RgaDeInit.  Each thread in *)
(* Objects owns one object; its mContext member is context[t].  The other  *)
(* threads only draw.                                                      *)
(***************************************************************************)
EXTENDS RgaContext, RgaBo

CONSTANT Objects
ASSUME ObjectsAssumption == Objects \subseteq Threads

VARIABLES alive,        \* objects constructed and not yet destroyed
          mSupportRga   \* objects whose mSupportRga is true

objVars == <<alive, mSupportRga>>
rkVars  == <<vars, objVars, boVars>>

RkInit == Init /\ BoInit /\ alive = {} /\ mSupportRga = {}

Enter(t, label) ==
  /\ pc[t] = "idle"
  /\ Goto(t, label)
  /\ UNCHANGED <<lockVars, shared, resources, ctx, owned>>

\* RockchipRga(): mContext(NULL), mSupportRga(false), RkRgaInit().
Construct(t) ==
  /\ t \in Objects \ alive
  /\ Enter(t, "open")
  /\ context' = [context EXCEPT ![t] = Null]
  /\ alive' = alive \cup {t}
  /\ UNCHANGED mSupportRga

\* RkRgaInit on an object that is not ready; on a ready one it returns 0.
RkRgaInit(t) ==
  /\ t \in alive \ mSupportRga
  /\ Enter(t, "open")
  /\ UNCHANGED <<context, objVars>>

\* Defect: mSupportRga stays true.
RkRgaDeInit_StaysReady(t) ==
  /\ t \in alive \cap mSupportRga
  /\ Enter(t, "close")
  /\ UNCHANGED <<context, objVars>>

\* RkRgaDeInit: RgaDeInit(&mContext) if ready, then mSupportRga = false.
RkRgaDeInit(t) ==
  /\ t \in alive \cap mSupportRga
  /\ Enter(t, "close")
  /\ mSupportRga' = mSupportRga \ {t}
  /\ UNCHANGED <<context, alive>>

\* Defect: the destructor leaves the release to RkRgaDeInit.
Destroy_NoRelease(t) ==
  /\ t \in alive
  /\ Enter(t, "idle")
  /\ alive' = alive \ {t}
  /\ mSupportRga' = mSupportRga \ {t}
  /\ UNCHANGED context

\* ~RockchipRga(): RgaDeInit(&mContext), whatever mSupportRga says.
Destroy(t) ==
  /\ t \in alive
  /\ Enter(t, "close")
  /\ alive' = alive \ {t}
  /\ mSupportRga' = mSupportRga \ {t}
  /\ UNCHANGED context

\* RgaInit returned a non-negative value.
InitReturns(t) ==
  /\ CheckDriverOk(t)
  /\ mSupportRga' = mSupportRga \cup {t}
  /\ UNCHANGED alive

ContextStep(t) ==
  /\ \/ Open(t) \/ CheckDriverFails(t) \/ Close(t) \/ Use(t)
     \/ UseBegin(t) \/ SpuriousWakeup(t)
  /\ UNCHANGED objVars

\* The buffer functions are members too, and touch no state of the object.
BoStep(t) == t \in alive /\ pc[t] = "idle" /\ BoNext

RkNext == \E t \in Threads :
  \/ /\ \/ Construct(t) \/ RkRgaInit(t) \/ RkRgaDeInit(t) \/ Destroy(t)
        \/ InitReturns(t) \/ ContextStep(t)
     /\ UNCHANGED boVars
  \/ BoStep(t) /\ UNCHANGED <<vars, objVars>>

RkSpec == RkInit /\ [][RkNext]_rkVars

-----------------------------------------------------------------------------
\* An object that reports RkRgaIsReady holds the published context, so what it
\* hands out through RkRgaGetContext is not a dangling pointer.
ReadyHoldsContext ==
  \A t \in mSupportRga : pc[t] = "idle" => context[t] = rgaCtx /\ Live(context[t])

\* With every object destroyed and no call running, nothing is left of the
\* context: the reference the constructor took was given back.
NothingLeftBehind ==
  alive = {} /\ (\A t \in Threads : pc[t] = "idle") => heap = {} /\ fds = {}
=============================================================================
