--------------------------- MODULE ResumeGateStore ---------------------------
(***************************************************************************)
(* The two durable rows the AI plane keeps for one assistant turn, and the *)
(* single SQL statements that change them: the resume gate, which says who *)
(* may run or resume the turn's graph, and the execution fence, which says *)
(* which attempt at the turn is the newest and whether it was cancelled.   *)
(*                                                                         *)
(* Abstracted: keys, digests and checkpoint identifiers (one turn is one   *)
(* row of each table); a capability token is the call that created it; a   *)
(* gate prepares at most one checkpoint, so its nonce is the fact that it  *)
(* was prepared.                                                           *)
(***************************************************************************)
EXTENDS Naturals

CONSTANTS
  Call,   \* requests that start or resume the turn's graph
  Nil

-----------------------------------------------------------------------------
(* The resume gate.                                                        *)

AbandonedState == {"reserved", "waiting", "claimed"}
TerminalState == {"completed", "failed_closed", "expired"}

Gate ==
  [state       : {"absent"} \cup AbandonedState \cup TerminalState,
   fence       : Nat,
   deadline    : Nat,
   reservation : Call \cup {Nil},
   claim       : Call \cup {Nil}]

NoGate ==
  [state |-> "absent", fence |-> 0, deadline |-> 0,
   reservation |-> Nil, claim |-> Nil]

(* reserve_start: insert if absent; a reservation whose deadline passed    *)
(* may be taken over by a newer fence.                                     *)
\* Fault: a reservation is taken over while its holder may still run.
CanReserveLive(g, fence, now) ==
  g.state = "absent" \/ (g.state = "reserved" /\ g.fence < fence)
\* Fault: a finished turn may be started once more by a newer fence.
CanReserveFinished(g, fence, now) ==
  g.state = "absent" \/ (g.deadline <= now /\ g.fence < fence)
CanReserve(g, fence, now) ==
  \/ g.state = "absent"
  \/ g.state = "reserved" /\ g.deadline <= now /\ g.fence < fence

Reserve(c, fence, deadline) ==
  [state |-> "reserved", fence |-> fence, deadline |-> deadline,
   reservation |-> c, claim |-> Nil]

(* prepare: the graph was interrupted at a checkpoint.                     *)
HoldsReservation(g, c) == g.state = "reserved" /\ g.reservation = c
CanPrepare(g, c, now) == HoldsReservation(g, c) /\ g.deadline > now
Prepare(g) == [g EXCEPT !.state = "waiting", !.reservation = Nil]

(* close_start: the graph ran to its end, or failed.                       *)
CloseStart(g, succeeded) ==
  [g EXCEPT !.state = IF succeeded THEN "completed" ELSE "failed_closed",
            !.reservation = Nil]

(* claim_once: the prepared checkpoint is handed to one resuming call.     *)
\* Fault: a checkpoint stays claimable after it was claimed.
CanClaimAgain(g, fence, now) ==
  g.state \in {"waiting", "claimed"} /\ g.fence = fence /\ g.deadline > now
CanClaimOnce(g, fence, now) ==
  g.state = "waiting" /\ g.fence = fence /\ g.deadline > now
ClaimOnce(g, c) == [g EXCEPT !.state = "claimed", !.claim = c]

(* expire: what claim_once does to a row it could not claim.               *)
Expire(g, now) ==
  IF g.state \in {"waiting", "claimed"} /\ g.deadline <= now
  THEN [g EXCEPT !.state = "expired"]
  ELSE g

(* finalize: a claim that expired meanwhile stays expired.                 *)
HoldsClaim(g, c) == g.state \in {"claimed", "expired"} /\ g.claim = c
\* Fault: the outcome overwrites an expiry.
FinalizeAnyway(g, succeeded) ==
  [g EXCEPT !.state = IF succeeded THEN "completed" ELSE "failed_closed",
            !.claim = Nil]
Finalize(g, succeeded) ==
  [g EXCEPT !.state = IF g.state = "expired" THEN "expired"
                      ELSE IF succeeded THEN "completed" ELSE "failed_closed",
            !.claim = Nil]

(* The operational sweep over rows whose process never came back.          *)
CanSweep(g, now) == g.state \in AbandonedState /\ g.deadline <= now
\* Fault: the sweep writes a state the gate does not have.
SweepToAbandoned(g) == [g EXCEPT !.state = "abandoned"]
Sweep(g) == [g EXCEPT !.state = "expired"]

-----------------------------------------------------------------------------
(* The execution fence.                                                    *)

Fence == [token : Nat, cancelled : BOOLEAN]
NoFence == [token |-> 0, cancelled |-> FALSE]   \* no row: real tokens are > 0

Greatest(a, b) == IF a < b THEN b ELSE a

\* Fault: checking in lifts an earlier cancellation.
AdvanceFenceUncancelled(f, token) ==
  [token |-> Greatest(f.token, token), cancelled |-> FALSE]
AdvanceFence(f, token) == [f EXCEPT !.token = Greatest(f.token, token)]

\* Fault: a cancellation of a superseded attempt cancels its successor.
AdvanceCancellationAlways(f, token) ==
  [token |-> Greatest(f.token, token), cancelled |-> TRUE]
AdvanceCancellation(f, token) ==
  [token     |-> Greatest(f.token, token),
   cancelled |-> f.cancelled \/ token >= f.token]

IsCurrent(f, token) == f.token = token /\ ~f.cancelled

=============================================================================
