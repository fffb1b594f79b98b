------------------------- MODULE CancellationOutbox -------------------------
(***************************************************************************)
(* The outbox that carries cancellations of running turns to the AI plane. *)
(* A row is written with the cancellation itself; API processes claim rows *)
(* in batches under a lease, call the AI plane for each, and complete the  *)
(* row or put it back with a delay, giving up after MaxAttempts.  Claims,  *)
(* completions and retries are one transaction each; between them a        *)
(* process may crash, stall past its lease, or lose the AI plane's reply.  *)
(*                                                                         *)
(* Abstracted: the payload of a row (sessions are either there or erased), *)
(* the length of the backoff (one tick), and an update that fails, which   *)
(* is a crash before it.                                                   *)
(***************************************************************************)
EXTENDS Integers, FiniteSets, FiniteSetsExt

CONSTANTS
  Row,          \* outbox rows, numbered in the order they are created
  Worker,       \* API processes
  BatchSize,    \* rows one poll claims
  MaxAttempts,  \* MAX_CANCELLATION_ATTEMPTS
  Lease,        \* ticks a claimed row is hidden from other polls
  MaxFaults     \* bound: crashes and stalls in one history

VARIABLES
  row,        \* the outbox table
  erased,     \* the rows whose session no longer exists
  clock,
  work,       \* the dispatches each process has in hand
  faults,
  delivered   \* rows the AI plane accepted (observation only)

vars == <<row, erased, clock, work, faults, delivered>>

Open == {"pending", "processing"}
Status == Open \cup {"unwritten", "completed", "failed"}
NoDispatch == [pc |-> "none", attempts |-> 0]

TypeOK ==
  /\ row \in [Row -> [status : Status, attempts : Nat, availableAt : Nat]]
  /\ erased \subseteq Row
  /\ clock \in Nat
  /\ work \in [Worker -> [Row -> [pc : {"none", "calling", "accepted", "error"},
                                  attempts : Nat]]]
  /\ faults \in 0..MaxFaults
  /\ delivered \subseteq Row

Init ==
  /\ row = [r \in Row |->
              [status |-> "unwritten", attempts |-> 0, availableAt |-> 0]]
  /\ erased = {}
  /\ clock = 0
  /\ work = [w \in Worker |-> [r \in Row |-> NoDispatch]]
  /\ faults = 0
  /\ delivered = {}

At(w, r, pc) == work[w][r].pc = pc
Goto(w, r, pc) == work' = [work EXCEPT ![w][r].pc = pc]
Forget(w, r) == work' = [work EXCEPT ![w][r] = NoDispatch]
Idle(w) == \A r \in Row : At(w, r, "none")

-----------------------------------------------------------------------------

(* A running turn is cancelled: the row is created in that transaction.    *)
Write(r) ==
  /\ row[r].status = "unwritten"
  /\ \A q \in Row : q < r => row[q].status # "unwritten"
  /\ row' = [row EXCEPT ![r] = [status |-> "pending", attempts |-> 0,
                                availableAt |-> clock]]
  /\ UNCHANGED <<erased, clock, work, faults, delivered>>

EraseSession(r) ==
  /\ row[r].status # "unwritten"
  /\ erased' = erased \cup {r}
  /\ UNCHANGED <<row, clock, work, faults, delivered>>

\* Fault: only rows no process ever took are offered.
AvailablePending(r) ==
  row[r].status = "pending" /\ row[r].availableAt <= clock
\* Fault: a row is offered again while another process works on it.
AvailableLeased(r) == row[r].status \in Open
Available(r) == row[r].status \in Open /\ row[r].availableAt <= clock

(* The first rows available, in the order of their creation.               *)
Batch ==
  {r \in Row : /\ Available(r)
               /\ Quantify(Row, LAMBDA q : q < r /\ Available(q)) < BatchSize}

(* claimCancellationDispatches: one transaction over the batch.  A row of  *)
(* an erased session is failed on the spot and not dispatched.             *)
Claim(w) ==
  /\ Idle(w)
  /\ Batch # {}
  /\ row' = [r \in Row |->
       IF r \notin Batch THEN row[r]
       ELSE [status      |-> IF r \in erased THEN "failed" ELSE "processing",
             attempts    |-> row[r].attempts + 1,
             availableAt |-> clock + Lease]]
  /\ work' = [work EXCEPT ![w] = [r \in Row |->
       IF r \in Batch \ erased
       THEN [pc |-> "calling", attempts |-> row[r].attempts + 1]
       ELSE NoDispatch]]
  /\ UNCHANGED <<erased, clock, faults, delivered>>

(* The AI plane accepts the cancellation, or the call fails, perhaps only  *)
(* on the way back.                                                        *)
CancelAccepted(w, r) ==
  /\ At(w, r, "calling")
  /\ delivered' = delivered \cup {r}
  /\ Goto(w, r, "accepted") \/ Goto(w, r, "error")
  /\ UNCHANGED <<row, erased, clock, faults>>

CancelFailed(w, r) ==
  /\ At(w, r, "calling")
  /\ Goto(w, r, "error")
  /\ UNCHANGED <<row, erased, clock, faults, delivered>>

\* Fault: the row is completed whatever the call came to.
SucceededAnyway(w, r) == work[w][r].pc \in {"accepted", "error"}
Succeeded(w, r) == At(w, r, "accepted")

Complete(w, r) ==
  /\ Succeeded(w, r)
  /\ row' = IF row[r].status = "processing"
            THEN [row EXCEPT ![r].status = "completed"]
            ELSE row
  /\ Forget(w, r)
  /\ UNCHANGED <<erased, clock, faults, delivered>>

Terminal(w, r) == work[w][r].attempts >= MaxAttempts

\* Fault: the update does not look at the status the row has by now.
RetriesSettled(r) == TRUE
Retries(r) == row[r].status = "processing"

\* Fault: the delay is taken off the time instead of added to it.
NextAttemptEarlier == clock - 1
NextAttempt == clock + 1

Retry(w, r) ==
  /\ At(w, r, "error")
  /\ row' = IF Retries(r)
            THEN [row EXCEPT
                    ![r].status = IF Terminal(w, r) THEN "failed" ELSE "pending",
                    ![r].availableAt = NextAttempt]
            ELSE row
  /\ Forget(w, r)
  /\ UNCHANGED <<erased, clock, faults, delivered>>

Crash(w) ==
  /\ ~Idle(w)
  /\ faults < MaxFaults
  /\ faults' = faults + 1
  /\ work' = [work EXCEPT ![w] = [r \in Row |-> NoDispatch]]
  /\ UNCHANGED <<row, erased, clock, delivered>>

(* Time matters only while a row waits.  The lease is longer than the AI   *)
(* call may take, so one that lapses under a working process is a fault.   *)
Waits(r) == row[r].status \in Open /\ row[r].availableAt > clock
Stalls ==
  \E w \in Worker, r \in Row :
    ~At(w, r, "none") /\ Waits(r) /\ row[r].availableAt = clock + 1

Tick ==
  /\ \E r \in Row : Waits(r)
  /\ IF Stalls THEN faults < MaxFaults /\ faults' = faults + 1
               ELSE UNCHANGED faults
  /\ clock' = clock + 1
  /\ UNCHANGED <<row, erased, work, delivered>>

Dispatch(w, r) ==
  \/ CancelAccepted(w, r)
  \/ CancelFailed(w, r)
  \/ Complete(w, r)
  \/ Retry(w, r)

Next ==
  \/ \E r \in Row : Write(r) \/ EraseSession(r)
  \/ \E w \in Worker : Claim(w) \/ Crash(w)
  \/ \E w \in Worker, r \in Row : Dispatch(w, r)
  \/ Tick

Spec == Init /\ [][Next]_vars

(* The poll timer keeps firing and every call ends by its deadline.        *)
Fairness ==
  /\ \A w \in Worker : WF_vars(Claim(w))
  /\ \A w \in Worker, r \in Row : WF_vars(Dispatch(w, r))
  /\ WF_vars(Tick)

FairSpec == Spec /\ Fairness

-----------------------------------------------------------------------------
(* What the outbox promises.                                               *)

(* A row is completed only if the AI plane accepted the cancellation, even *)
(* when processes overtake one another on it.                              *)
CompletedWasDelivered ==
  \A r \in Row : row[r].status = "completed" => r \in delivered

(* Calls are bounded although a crash is not counted as a failure: beyond  *)
(* MaxAttempts a row is claimed again only because of a crash or a stall.  *)
AttemptsBounded ==
  \A r \in Row : row[r].attempts <= MaxAttempts + faults

(* Action property: a process that comes back late, with an error, does    *)
(* not reopen a row another process has settled.                           *)
SettledRowStays ==
  [][\A r \in Row : row[r].status \in {"completed", "failed"} =>
       row'[r].status = row[r].status]_vars

(* Liveness: a cancellation once committed is delivered or given up,       *)
(* whichever processes crash with it in hand.                              *)
EveryCancellationSettled ==
  \A r \in Row : row[r].status \in Open ~>
                 row[r].status \in {"completed", "failed"}

=============================================================================
