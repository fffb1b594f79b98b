---------------------- MODULE ConversationGraphRuntime ----------------------
(***************************************************************************)
(* The durable start/resume boundary of the assistant graph: calls that    *)
(* start one turn's graph, or resume it from the checkpoint it stopped at, *)
(* each a sequence of single-statement database transactions on the turn's *)
(* resume gate.  A call may be cut off between two of them by a crash, by  *)
(* its deadline, or by a reply that is lost after the statement committed. *)
(*                                                                         *)
(* Abstracted: the graph is any run that ends, fails or stops at a         *)
(* checkpoint; the digest and control of a checkpoint match or do not.     *)
(***************************************************************************)
EXTENDS ResumeGateStore

CONSTANTS
  MaxFence,     \* bound: fences that starts carry
  MaxClock,     \* bound: ticks
  TurnBudget    \* ticks from a call to its deadline

VARIABLES
  gate,     \* the resume gate row
  clock,
  call,     \* the state of each call
  claimed   \* the calls that ever claimed the checkpoint (observation only)

vars == <<gate, clock, call, claimed>>

New == [pc |-> "new", fence |-> 0, deadline |-> 0, succeeded |-> FALSE]
Pc == {"reserving", "running", "closing", "preparing", "failing",
       "claiming", "checking", "resuming", "finalizing",
       "returned", "interrupted", "rejected", "raised"}

TypeOK ==
  /\ gate \in Gate
  /\ clock \in 0..MaxClock
  /\ \A c \in Call :
       \/ call[c] = New
       \/ call[c] \in [pc : Pc, fence : 1..MaxFence, deadline : Nat,
                       succeeded : BOOLEAN]
  /\ claimed \subseteq Call

Init ==
  /\ gate = NoGate
  /\ clock = 0
  /\ call = [c \in Call |-> New]
  /\ claimed = {}

At(c, pc) == call[c].pc = pc
Goto(c, pc) == call' = [call EXCEPT ![c].pc = pc]
InTime(c) == clock < call[c].deadline

-----------------------------------------------------------------------------
(* start                                                                   *)

CallWith(c, pc, fence, deadline) ==
  call' = [call EXCEPT ![c] = [pc |-> pc, fence |-> fence,
                               deadline |-> deadline, succeeded |-> FALSE]]

BeginStart(c) ==
  /\ At(c, "new")
  /\ \E fence \in 1..MaxFence :
       CallWith(c, "reserving", fence, clock + TurnBudget)
  /\ UNCHANGED <<gate, clock, claimed>>

(* A reservation whose reply comes after the deadline is still in place.   *)
ReserveStart(c) ==
  /\ At(c, "reserving")
  /\ IF CanReserve(gate, call[c].fence, clock) /\ InTime(c)
     THEN /\ gate' = Reserve(c, call[c].fence, call[c].deadline)
          /\ Goto(c, "running") \/ Goto(c, "rejected")
     ELSE Goto(c, "rejected") /\ UNCHANGED gate
  /\ UNCHANGED <<clock, claimed>>

GraphEnds(c) ==
  /\ At(c, "running")
  /\ InTime(c)
  /\ Goto(c, "closing") \/ Goto(c, "preparing")
  /\ UNCHANGED <<gate, clock, claimed>>

GraphFails(c) ==
  /\ At(c, "running") \/ At(c, "preparing")
  /\ Goto(c, "failing")
  /\ UNCHANGED <<gate, clock, claimed>>

(* close_start(succeeded = True): a refusal, or a lost reply, is an        *)
(* exception inside the try block and closes the start once more as failed.*)
CloseSucceeded(c) ==
  /\ At(c, "closing")
  /\ IF HoldsReservation(gate, c)
     THEN /\ gate' = CloseStart(gate, TRUE)
          /\ Goto(c, "returned") \/ Goto(c, "failing")
     ELSE Goto(c, "failing") /\ UNCHANGED gate
  /\ UNCHANGED <<clock, claimed>>

PrepareInterrupt(c) ==
  /\ At(c, "preparing")
  /\ InTime(c)
  /\ IF CanPrepare(gate, c, clock)
     THEN /\ gate' = Prepare(gate)
          /\ Goto(c, "interrupted") \/ Goto(c, "failing")
     ELSE Goto(c, "failing") /\ UNCHANGED gate
  /\ UNCHANGED <<clock, claimed>>

CloseFailed(c) ==
  /\ At(c, "failing")
  /\ gate' = IF HoldsReservation(gate, c) THEN CloseStart(gate, FALSE) ELSE gate
  /\ Goto(c, "raised")
  /\ UNCHANGED <<clock, claimed>>

-----------------------------------------------------------------------------
(* resume                                                                  *)

BeginResume(c) ==
  /\ At(c, "new")
  /\ \E s \in Call : At(s, "interrupted")
  /\ \E fence \in 1..MaxFence :
       CallWith(c, "claiming", fence, clock + TurnBudget)
  /\ UNCHANGED <<gate, clock, claimed>>

ClaimCheckpoint(c) ==
  /\ At(c, "claiming")
  /\ IF CanClaimOnce(gate, call[c].fence, clock)
     THEN /\ gate' = ClaimOnce(gate, c)
          /\ claimed' = claimed \cup {c}
          /\ Goto(c, "checking") \/ Goto(c, "rejected")
     ELSE /\ gate' = Expire(gate, clock)
          /\ Goto(c, "rejected")
          /\ UNCHANGED claimed
  /\ UNCHANGED clock

(* The digest and the control stored with the checkpoint must match.       *)
CheckBinding(c) ==
  /\ At(c, "checking")
  /\ \/ InTime(c) /\ Goto(c, "resuming")
     \/ Goto(c, "finalizing")
  /\ UNCHANGED <<gate, clock, claimed>>

Resumed(c) ==
  /\ At(c, "resuming")
  /\ \/ /\ InTime(c)
        /\ call' = [call EXCEPT ![c].pc = "finalizing", ![c].succeeded = TRUE]
     \/ Goto(c, "finalizing")
  /\ UNCHANGED <<gate, clock, claimed>>

FinalizeClaim(c) ==
  /\ At(c, "finalizing")
  /\ IF HoldsClaim(gate, c)
     THEN /\ gate' = Finalize(gate, call[c].succeeded)
          /\ \/ Goto(c, IF call[c].succeeded THEN "returned" ELSE "raised")
             \/ Goto(c, "raised")
     ELSE Goto(c, "raised") /\ UNCHANGED gate
  /\ UNCHANGED <<clock, claimed>>

-----------------------------------------------------------------------------

Crash(c) ==
  /\ call[c].pc \notin {"new", "returned", "interrupted", "rejected", "raised"}
  /\ Goto(c, "raised")
  /\ UNCHANGED <<gate, clock, claimed>>

SweepAbandoned ==
  /\ CanSweep(gate, clock)
  /\ gate' = Sweep(gate)
  /\ UNCHANGED <<clock, call, claimed>>

Tick ==
  /\ clock < MaxClock
  /\ clock' = clock + 1
  /\ UNCHANGED <<gate, call, claimed>>

Start(c) ==
  \/ BeginStart(c)
  \/ ReserveStart(c)
  \/ GraphEnds(c)
  \/ GraphFails(c)
  \/ CloseSucceeded(c)
  \/ PrepareInterrupt(c)
  \/ CloseFailed(c)
Resume(c) ==
  \/ BeginResume(c)
  \/ ClaimCheckpoint(c)
  \/ CheckBinding(c)
  \/ Resumed(c)
  \/ FinalizeClaim(c)

Next ==
  \/ \E c \in Call : Start(c) \/ Resume(c) \/ Crash(c)
  \/ SweepAbandoned
  \/ Tick

Spec == Init /\ [][Next]_vars

-----------------------------------------------------------------------------
(* What the gate is for.                                                   *)

(* Two competing starts never run the graph at once: a second one gets the *)
(* gate only when the deadline has already stopped the first.              *)
Running(c) == call[c].pc \in {"running", "closing", "preparing"} /\ InTime(c)
OneStartRuns ==
  \A c, d \in Call : Running(c) /\ Running(d) => c = d

(* A checkpoint is consumed at most once, whatever is resent, lost or      *)
(* crashed: nothing the graph did after it is done twice.                  *)
CheckpointConsumedOnce == \A c, d \in claimed : c = d

(* A result handed to the caller belongs to a gate that was closed for     *)
(* good: no later call can start or resume the same turn.                  *)
ReturnedIsRecorded ==
  (\E c \in Call : At(c, "returned")) => gate.state \in TerminalState

(* Action property: a turn whose deadline was found to have passed stays   *)
(* expired, even if the process that held it comes back and finalizes.     *)
ExpiredIsFinal ==
  [][gate.state = "expired" => gate'.state = "expired"]_vars

=============================================================================
