----------------------------- MODULE MCEngagement -----------------------------
(***************************************************************************)
(* Small instances of the two timers that drive a session forward: the     *)
(* dispatcher of turns and the outbox of cancellations.  They share no     *)
(* state, so a behaviour takes one of them up and leaves the other where   *)
(* it began.  No state constraint: turns, faults and leases bound every    *)
(* history, so liveness is checked on the complete state graph.            *)
(***************************************************************************)
EXTENDS ConversationDispatch

CONSTANTS
  Component,   \* the timers this run takes up
  \* The outbox: its rows, what a poll takes, how often a row is tried, how long it
  \* is hidden, and the bound on crashes and stalls.
  OutboxRow, BatchSize, MaxAttempts, Lease, OutboxFaults

VARIABLES component, cancellation, erased, outboxClock, outboxWork, outboxFaults, delivered

outboxVars == <<cancellation, erased, outboxClock, outboxWork, outboxFaults, delivered>>

TwoUnits == [r \in Resource |-> 2]
MCInitialBudget == [r \in Resource |-> 4]
MCReservation == {TwoUnits}
MCUsage == {[r \in Resource |-> 1]}

Outbox == INSTANCE CancellationOutbox WITH
  row <- cancellation, clock <- outboxClock, work <- outboxWork,
  faults <- outboxFaults, Row <- OutboxRow, MaxFaults <- OutboxFaults

ASSUME OutboxAssumption ==
  MaxAttempts \in Nat \ {0} /\ Lease \in Nat \ {0} /\ OutboxFaults \in Nat

Init == component \in Component /\ DispatchInit /\ Outbox!Init

Dispatching == component = "dispatch" /\ UNCHANGED <<component, outboxVars>>
Cancelling == component = "outbox" /\ UNCHANGED <<component, vars>>

Next == (Dispatching /\ DispatchNext) \/ (Cancelling /\ Outbox!Next)

all == <<component, vars, outboxVars>>

Spec == Init /\ [][Next]_all

\* What Fairness asks of the dispatcher and, a little less than, what
\* Outbox!Fairness asks of the outbox, in the behaviours that take it up: a
\* process goes on with some row it has in hand, not with each.
TimersFire ==
  /\ \A w \in Worker :
       /\ WF_all((Dispatching /\ Poll(w)) \/ (Cancelling /\ Outbox!Claim(w)))
       /\ WF_all(\/ Dispatching /\ Step(w)
                 \/ Cancelling /\ \E r \in OutboxRow : Outbox!Dispatch(w, r))
  /\ WF_all((Dispatching /\ Tick) \/ (Cancelling /\ Outbox!Tick))

LiveSpec == Spec /\ TimersFire

-----------------------------------------------------------------------------
(* Properties.                                                             *)

\* The rows of the timer at work keep their types.
TypeOK ==
  /\ component = "dispatch" => DispatchTypeOK
  /\ component = "outbox" => Outbox!TypeOK

\* Claims beyond a turn's first, and attempts beyond a row's limit, are caused by
\* crashes, stalls or a client's commands, and a row is completed only if the AI
\* plane accepted the cancellation.
OutcomesHaveCause ==
  /\ component = "dispatch" => ReclaimsHaveCause
  /\ component = "outbox" =>
       Outbox!CompletedWasDelivered /\ Outbox!AttemptsBounded

\* A process that comes back late neither refuses another's turn nor reopens a
\* row that another has settled.
LateProcessesHarmless == RefusesOnlyItsOwn /\ Outbox!SettledRowStays

\* Whatever crashes, stalls and failed calls the processes meet, a message that
\* was acknowledged is answered, refused or cancelled as long as its session
\* stays open, and a cancellation that was committed is delivered or given up.
Waiting(i) ==
  \/ component = "dispatch" /\ i \in Turn /\ store.turns[i].status \in ActiveStatus
  \/ /\ component = "outbox" /\ i \in OutboxRow
     /\ cancellation[i].status \in Outbox!Open
Done(i) ==
  IF component = "dispatch" THEN Settled(i) \/ store.status # "open"
  ELSE cancellation[i].status \in {"completed", "failed"}

EverythingSettled == \A i \in Turn \cup OutboxRow : Waiting(i) ~> Done(i)

=============================================================================
