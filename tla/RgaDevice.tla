------------------------------ MODULE RgaDevice ------------------------------
(***************************************************************************)
(* What the legacy context promises, without mutex, condition variable,    *)
(* addresses or failures: a device that is open while somebody holds it,   *)
(* that is used only while open, and that the last holder shuts only after *)
(* the last user has left.                                                 *)
(***************************************************************************)
CONSTANT Threads

VARIABLES device,   \* "shut", "open" or "closing"
          holders,  \* threads that hold a reference
          users     \* threads inside a drawing operation

devVars == <<device, holders, users>>

Init == device = "shut" /\ holders = {} /\ users = {}

\* A reference can be had at any time except during a close.
Acquire(t) ==
  /\ device # "closing" /\ t \notin holders
  /\ device' = "open"
  /\ holders' = holders \cup {t}
  /\ UNCHANGED users

\* The last reference closes the device, at once if it is not in use.
Release(t) ==
  /\ t \in holders
  /\ holders' = holders \ {t}
  /\ device' = CASE holders # {t}                -> "open"
                 [] holders = {t} /\ users # {}  -> "closing"
                 [] OTHER                        -> "shut"
  /\ UNCHANGED users

Shut ==
  /\ device = "closing" /\ users = {}
  /\ device' = "shut"
  /\ UNCHANGED <<holders, users>>

Begin(t) ==
  /\ device = "open" /\ t \notin users
  /\ users' = users \cup {t}
  /\ UNCHANGED <<device, holders>>

End(t) ==
  /\ t \in users
  /\ users' = users \ {t}
  /\ UNCHANGED <<device, holders>>

Next == Shut \/ \E t \in Threads : Acquire(t) \/ Release(t) \/ Begin(t) \/ End(t)

Spec == Init /\ [][Next]_devVars
=============================================================================
