--------------------------- MODULE SessionLifecycle ---------------------------
(***************************************************************************)
(* What every session store of the system promises, whatever its requests  *)
(* do to each other: a session is opened at most once, what ended never    *)
(* lives again, and a fence ends the sessions it covers in the step that   *)
(* raises it and keeps those that are still to come from opening.          *)
(***************************************************************************)
CONSTANT Session

VARIABLES
  stage,   \* new, live or ended
  fenced   \* the sessions under a fence

Stages == {"new", "live", "ended"}

Init == stage = [s \in Session |-> "new"] /\ fenced = {}

Open(s) ==
  /\ stage[s] = "new" /\ s \notin fenced
  /\ stage' = [stage EXCEPT ![s] = "live"]
  /\ UNCHANGED fenced

\* Logout, expiry, or a refresh the provider refused.  A session may be
\* reported as revoked before anything else is known of it.
End(S) ==
  /\ \A s \in S : stage[s] # "ended"
  /\ stage' = [s \in Session |-> IF s \in S THEN "ended" ELSE stage[s]]
  /\ UNCHANGED fenced

Fence(S) ==
  /\ fenced' = fenced \cup S
  /\ stage' = [s \in Session |->
                 IF s \in S /\ stage[s] = "live" THEN "ended" ELSE stage[s]]

vars == <<stage, fenced>>

\* Whatever is no change is a stutter.
Next ==
  /\ vars' # vars
  /\ \/ \E s \in Session : Open(s)
     \/ \E S \in SUBSET Session : End(S) \/ Fence(S)

Spec == Init /\ [][Next]_vars
=============================================================================
