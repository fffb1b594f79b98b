---------------------------- MODULE TurnExecution ----------------------------
(***************************************************************************)
(* The AI plane executing one conversation turn.  The API grants fences to *)
(* successive claims of the turn and sends a request for each, which may   *)
(* be resent or overtaken by later ones; it may also deliver cancellations,*)
(* any number of times.  A request reserves the turn's resume gate; its    *)
(* graph asks the supervisor, which may end it with an answer of its own,  *)
(* races the worker against the turn's invalidation and the deadline, and  *)
(* checks that it is still the current attempt before a worker's result is *)
(* used; the request closes the gate and responds.                         *)
(*                                                                         *)
(* Abstracted: what is routed and answered, except whether the supervisor  *)
(* ends the graph and whether a worker is to be retried; the release lease *)
(* of an answer; a worker that outlives its cancellation, whose late       *)
(* result nobody reads; a read of the fence that fails while the worker    *)
(* runs, which counts as invalidation; the purge of rows long settled;     *)
(* other revisions of the graph, whose gates are others.                   *)
(***************************************************************************)
EXTENDS ResumeGateStore, FiniteSets

CONSTANTS
  MaxFence,     \* bound: claims the API grants
  MaxClock,     \* bound: ticks
  TurnBudget    \* the most ticks a request has to its deadline

MaxWorkerAttempts == 3

VARIABLES
  gate,       \* the turn's resume gate
  fence,      \* the turn's execution fence
  clock,
  call,       \* what each request is doing
  granted,    \* fences granted by the API so far
  cancelled   \* fences whose cancellation was acknowledged (observation only)

vars == <<gate, fence, clock, call, granted, cancelled>>

New == [pc |-> "new", fence |-> 0, deadline |-> 0, tries |-> 0]
Pc == {"reserving", "routing", "running", "checking", "answering", "staling", "expiring",
       "failing", "answered", "stale", "unavailable", "duplicate"}

TypeOK ==
  /\ gate \in Gate
  /\ fence \in Fence
  /\ clock \in 0..MaxClock
  /\ \A c \in Call :
       \/ call[c] = New
       \/ call[c] \in [pc : Pc, fence : 1..MaxFence, deadline : Nat,
                       tries : 0 .. MaxWorkerAttempts - 1]
  /\ granted \in 0..MaxFence
  /\ cancelled \subseteq 1..MaxFence

Init ==
  /\ gate = NoGate
  /\ fence = NoFence
  /\ clock = 0
  /\ call = [c \in Call |-> New]
  /\ granted = 0
  /\ cancelled = {}

At(c, pc) == call[c].pc = pc
Goto(c, pc) == call' = [call EXCEPT ![c].pc = pc]
InTime(c) == clock < call[c].deadline
Ended == {"answered", "stale", "unavailable", "duplicate"}

-----------------------------------------------------------------------------
(* The API plane, as this plane sees it.                                   *)

GrantFence ==
  /\ granted < MaxFence
  /\ granted' = granted + 1
  /\ UNCHANGED <<gate, fence, clock, call, cancelled>>

(* accept_durably acknowledges only the cancellation the row now names.    *)
CancelTurn(f) ==
  /\ fence' = AdvanceCancellation(fence, f)
  /\ cancelled' = IF fence'.token = f THEN cancelled \cup {f} ELSE cancelled
  /\ UNCHANGED <<gate, clock, call, granted>>

-----------------------------------------------------------------------------
(* One request.                                                            *)

Receive(c) ==
  /\ At(c, "new")
  /\ \E f \in 1..granted, deadline \in clock + 1 .. clock + TurnBudget :
       call' = [call EXCEPT ![c] = [pc |-> "reserving", fence |-> f,
                                    deadline |-> deadline, tries |-> 0]]
  /\ UNCHANGED <<gate, fence, clock, granted, cancelled>>

ReserveStart(c) ==
  /\ At(c, "reserving")
  /\ IF ~InTime(c) THEN Goto(c, "unavailable") /\ UNCHANGED gate
     ELSE IF CanReserve(gate, call[c].fence, clock)
     THEN /\ gate' = Reserve(c, call[c].fence, call[c].deadline)
          /\ Goto(c, "routing")
     ELSE Goto(c, "duplicate") /\ UNCHANGED gate
  /\ UNCHANGED <<fence, clock, granted, cancelled>>

(* The supervisor passes the turn to the worker, or ends the graph itself: *)
(* a refusal, a clarification, a handoff when routing takes too long.  It  *)
(* looks at the request's own control, which is never marked cancelled,    *)
(* and not at the fence.                                                   *)
Supervise(c) ==
  /\ At(c, "routing")
  /\ Goto(c, "running") \/ Goto(c, "answering")
  /\ UNCHANGED <<gate, fence, clock, granted, cancelled>>

(* wait_invalidated: also a turn that has no row counts as invalidated.    *)
Invalidate(c) ==
  /\ At(c, "running")
  /\ ~IsCurrent(fence, call[c].fence)
  /\ Goto(c, "staling")
  /\ UNCHANGED <<gate, fence, clock, granted, cancelled>>

WorkerReturns(c) ==
  /\ At(c, "running")
  /\ InTime(c)
  /\ Goto(c, "checking")
  /\ UNCHANGED <<gate, fence, clock, granted, cancelled>>

\* Fault: a worker that keeps asking is retried without limit.
MayRetryForever(c) == TRUE
MayRetry(c) == call[c].tries + 1 < MaxWorkerAttempts

(* is_current registers the fence and reads the row in one statement.  A   *)
(* current worker that asks to be retried goes through the supervisor      *)
(* again, twice at most.                                                   *)
CheckIn(c) ==
  /\ At(c, "checking")
  /\ InTime(c)
  /\ fence' = AdvanceFence(fence, call[c].fence)
  /\ IF IsCurrent(fence', call[c].fence)
     THEN \/ Goto(c, "answering")
          \/ /\ MayRetry(c)
             /\ call' = [call EXCEPT ![c].pc = "routing", ![c].tries = @ + 1]
     ELSE Goto(c, "staling")
  /\ UNCHANGED <<gate, clock, granted, cancelled>>

(* A graph that is cut off: past the deadline it may end by itself, as     *)
(* cancelled; the deadline, a failure of a port or of the worker may also  *)
(* end it from outside.  A check that is cut off may have registered.      *)
CutOff(c, at) ==
  /\ call[c].pc \in {"routing", "running", "checking"}
  /\ Goto(c, at)
  /\ \/ UNCHANGED fence
     \/ At(c, "checking") /\ fence' = AdvanceFence(fence, call[c].fence)
  /\ UNCHANGED <<gate, clock, granted, cancelled>>
Expires(c) == ~InTime(c) /\ CutOff(c, "expiring")
RunFails(c) == CutOff(c, "failing")

(* The graph ended: the start is closed as a success whatever the outcome, *)
(* and only then does the request respond, unless it dies in between.      *)
Response(c) ==
  CASE At(c, "answering") -> "answered"
    [] At(c, "staling") -> "stale"
    [] OTHER -> "unavailable"
CloseSucceeded(c) ==
  /\ call[c].pc \in {"answering", "staling", "expiring"}
  /\ IF HoldsReservation(gate, c)
     THEN /\ gate' = CloseStart(gate, TRUE)
          /\ Goto(c, Response(c)) \/ Goto(c, "unavailable")
     ELSE Goto(c, "failing") /\ UNCHANGED gate
  /\ UNCHANGED <<fence, clock, granted, cancelled>>

CloseFailed(c) ==
  /\ At(c, "failing")
  /\ gate' = IF HoldsReservation(gate, c) THEN CloseStart(gate, FALSE) ELSE gate
  /\ Goto(c, "unavailable")
  /\ UNCHANGED <<fence, clock, granted, cancelled>>

Crash(c) ==
  /\ call[c].pc \notin {"new"} \cup Ended
  /\ Goto(c, "unavailable")
  /\ UNCHANGED <<gate, fence, clock, granted, cancelled>>

(* The operational sweep of starts nobody closed.                          *)
SweepStart ==
  /\ CanSweep(gate, clock) /\ gate' = Sweep(gate)
  /\ UNCHANGED <<fence, clock, call, granted, cancelled>>

Tick ==
  /\ clock < MaxClock
  /\ clock' = clock + 1
  /\ UNCHANGED <<gate, fence, call, granted, cancelled>>

Execute(c) ==
  \/ Receive(c)
  \/ ReserveStart(c)
  \/ Supervise(c)
  \/ Invalidate(c)
  \/ WorkerReturns(c)
  \/ CheckIn(c)
  \/ Expires(c)
  \/ RunFails(c)
  \/ CloseSucceeded(c)
  \/ CloseFailed(c)
  \/ Crash(c)

Next ==
  \/ GrantFence
  \/ \E f \in 1..granted : CancelTurn(f)
  \/ \E c \in Call : Execute(c)
  \/ SweepStart
  \/ Tick

Spec == Init /\ [][Next]_vars

-----------------------------------------------------------------------------
(* What the fence and the gate promise together.                           *)

(* However often a turn is claimed, resent or delayed, the AI plane gives  *)
(* one answer to it.                                                       *)
AnsweredAtMostOnce == Cardinality({c \in Call : At(c, "answered")}) <= 1

PassesCheck(c) == At(c, "checking") /\ call'[c].pc = "answering"

(* Action property: once a cancellation of the turn was acknowledged, no   *)
(* worker's result passes the check any more, of whichever attempt: not    *)
(* one that had not yet registered, not one that comes after it.  Nothing  *)
(* is said of what the supervisor answers, which passes no check, nor of a *)
(* result that had passed when the cancellation arrived: the API plane     *)
(* turns those away, whose turn is settled.                                *)
CancelledStopsWorkers ==
  [][\A c \in Call : PassesCheck(c) => cancelled = {}]_vars

(* The row says cancelled exactly when some caller was told so: what was   *)
(* acknowledged is not lost to attempts that check in later, and a         *)
(* cancellation that is turned down because a newer attempt checked in has *)
(* no effect on that attempt, nor on any that follows.                     *)
CancelledAsAcknowledged == fence.cancelled <=> cancelled # {}

(* docs/conversation-graph.md:180: cancellation is checked before routing  *)
(* and before the worker.  The supervisor answers a turn all the same      *)
(* whose cancellation was acknowledged before the request arrived.         *)
CancelledNotAnswered ==
  [][\A c \in Call :
       ~At(c, "answering") /\ call'[c].pc = "answering" => cancelled = {}]_vars

(* The text of the 409 response: a request is turned away as stale only    *)
(* because its turn was superseded, by a newer claim or a cancellation.    *)
StaleMeansSuperseded ==
  \A c \in Call : At(c, "stale") =>
    granted > call[c].fence \/ fence.cancelled

=============================================================================
