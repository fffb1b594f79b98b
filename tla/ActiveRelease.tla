----------------------------- MODULE ActiveRelease -----------------------------
(***************************************************************************)
(* What the release planes of the system have in common: releases are made *)
(* ready, at most one of them is authoritative, publishing one replaces    *)
(* the other in the same step, and what is withdrawn is gone for good.     *)
(***************************************************************************)
CONSTANTS Release, None

VARIABLES
  ready,   \* releases that may be published
  active,  \* the authoritative release, or None
  gone     \* releases withdrawn for good

Init == ready = {} /\ active = None /\ gone = {}

Prepare(r) ==
  /\ r \notin ready \cup gone
  /\ ready' = ready \cup {r}
  /\ UNCHANGED <<active, gone>>

\* Activation and rollback alike: the release replaced stays ready.
Publish(r) ==
  /\ r \in ready \ {active}
  /\ active' = r
  /\ UNCHANGED <<ready, gone>>

Withdraw(r) ==
  /\ r \notin gone
  /\ gone' = gone \cup {r} /\ ready' = ready \ {r}
  /\ active' = IF active = r THEN None ELSE active

vars == <<ready, active, gone>>

\* Whatever is no change is a stutter.
Next == vars' # vars /\ \E r \in Release : Prepare(r) \/ Publish(r) \/ Withdraw(r)

Spec == Init /\ [][Next]_vars
=============================================================================
