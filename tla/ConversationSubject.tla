------------------------- MODULE ConversationSubject -------------------------
(***************************************************************************)
(* The sessions of one authenticated customer and what they share: a token *)
(* and cost budget for each day, of which every session reserves its whole *)
(* budget when it is created and returns what remains when it is closed or *)
(* purged, and a fence that is put up when the customer's data is erased.  *)
(* A session's own life is the aggregate's; each of its commits is atomic, *)
(* as ConversationRuntime establishes.                                     *)
(*                                                                         *)
(* Transactions that touch the subject take its advisory lock first.  That *)
(* statement already fixes the snapshot of a serializable transaction, so  *)
(* an erasure that has to wait for the lock deletes the sessions that were *)
(* there before it waited.  Creation is read-committed: it sees the fence. *)
(*                                                                         *)
(* Abstracted: the profile and the release a creation also looks up (it is *)
(* then refused), which eligible sessions a purge of limited size picks,   *)
(* and an erasure the database aborts because its rows changed.            *)
(***************************************************************************)
EXTENDS ConversationAggregate

CONSTANTS
  Session,      \* session identifiers
  Eraser,       \* erasure jobs
  DailyLimit,   \* DAILY_MODEL_TOKEN_BUDGET, DAILY_COST_BUDGET_MICROS
  SessionTtl,   \* ticks a session is readable
  Retention,    \* ticks until it may be purged
  DayLength,    \* ticks of a day
  MaxClock      \* bound: ticks

VARIABLES
  clock,
  bucket,     \* remaining budget of each day; a day without a row is full
  session,    \* session and runtime rows; a deleted one keeps its last state
  creating,   \* when the creation that holds the subject's lock was requested
  fence,      \* the subject's erasure fence
  erasing     \* the snapshot of each erasure that is under way

vars == <<clock, bucket, session, creating, fence, erasing>>

Day == 0 .. MaxClock \div DayLength

Absent ==
  [life |-> "absent", createdAt |-> 0, reconciled |-> FALSE,
   refund |-> NoBudget, runtime |-> CreateSnapshot]

TypeOK ==
  /\ clock \in 0..MaxClock
  /\ bucket \in [Day -> Budget]
  /\ session \in
       [Session -> [life       : {"absent", "live", "deleted"},
                    createdAt  : Nat,
                    reconciled : BOOLEAN,
                    refund     : Budget,   \* observation only
                    runtime    : Snapshot]]
  /\ creating \in Nat \cup {Nil}
  /\ fence \in BOOLEAN
  /\ \A e \in Eraser : erasing[e] = Nil \/ erasing[e] \subseteq Session

Init ==
  /\ clock = 0
  /\ bucket = [d \in Day |-> DailyLimit]
  /\ session = [s \in Session |-> Absent]
  /\ creating = Nil
  /\ fence = FALSE
  /\ erasing = [e \in Eraser |-> Nil]

Live(s) == session[s].life = "live"
BudgetDay(s) == session[s].createdAt \div DayLength
Readable(s) == Live(s) /\ clock < session[s].createdAt + SessionTtl

-----------------------------------------------------------------------------
(* createSession: one transaction, from its lock to its commit.            *)

Locked == creating # Nil

\* Fault: the reservation is not compared with what the day has left.
MayCreateOverLimit(now) == ~Locked /\ ~fence
MayCreate(now) ==
  /\ ~Locked
  /\ ~fence
  /\ Fits(InitialBudget, bucket[now \div DayLength])

BeginCreate ==
  /\ MayCreate(clock)
  /\ creating' = clock
  /\ UNCHANGED <<clock, bucket, session, fence, erasing>>

(* The budget's date and the session's times are those of the request.     *)
FinishCreate ==
  /\ Locked
  /\ \E s \in Session :
       /\ session[s].life = "absent"
       /\ session' = [session EXCEPT ![s] =
            [Absent EXCEPT !.life = "live", !.createdAt = creating]]
  /\ bucket' = [bucket EXCEPT ![creating \div DayLength] =
                  Reserve(@, InitialBudget)]
  /\ creating' = Nil
  /\ UNCHANGED <<clock, fence, erasing>>

-----------------------------------------------------------------------------
(* What a session returns to its day, once.                                *)

Least(a, b) == IF a < b THEN a ELSE b
Returnable(remaining) ==
  [r \in Resource |-> Least(remaining[r], InitialBudget[r])]
\* Fault: a session that is closed again returns its budget again.
ToReturnAgain(s, remaining) == Returnable(remaining)
\* Fault: what turns still hold is returned with the rest.
ToReturnWithheld(s, remaining) ==
  IF session[s].reconciled THEN NoBudget ELSE InitialBudget
ToReturn(s, remaining) ==
  IF session[s].reconciled THEN NoBudget ELSE Returnable(remaining)

Plus(a, b) == [r \in Resource |-> a[r] + b[r]]

(* reconcileSubjectBudget, on the session row as it is written.            *)
Reconciled(s, runtime) ==
  [session[s] EXCEPT !.reconciled = TRUE,
                     !.refund = Plus(@, ToReturn(s, runtime.remaining)),
                     !.runtime = runtime]

Close(s) ==
  /\ Readable(s)
  /\ CanClose(session[s].runtime)
  /\ LET closed == CloseSession(session[s].runtime) IN
       /\ session' = [session EXCEPT ![s] = Reconciled(s, closed)]
       /\ bucket' = [bucket EXCEPT ![BudgetDay(s)] =
                       Plus(@, ToReturn(s, closed.remaining))]
  /\ UNCHANGED <<clock, creating, fence, erasing>>

(* Every other commit of the session's runtime.                            *)

Commit(s, next) ==
  /\ Readable(s)
  /\ session' = [session EXCEPT ![s].runtime = next]
  /\ UNCHANGED <<clock, bucket, creating, fence, erasing>>

Engage(s) ==
  LET runtime == session[s].runtime IN
  \/ \E t \in Turn, m \in Message, f \in Fingerprint, b \in Reservation :
       /\ CanAccept(runtime, t, b)
       /\ \A u \in Turn : runtime.turns[u].clientMessageId # m
       /\ Commit(s, AcceptMessage(runtime, t, m, f, b))
  \/ \E t \in Turn :
       LET next == runtime.fencingTokenHighWatermark + 1 IN
       /\ CanClaim(runtime, t, next, clock)
       /\ Commit(s, ClaimTurn(runtime, t, next, clock))
  \/ \E t \in Turn, used \in Usage :
       LET held == runtime.turns[t].fencingToken IN
       \/ \E outcome \in Outcome :
            /\ CanComplete(runtime, t, held, used, Nil, clock)
            /\ Commit(s, CompleteTurn(runtime, t, outcome, used, Nil))
       \/ \E authority \in Authority :
            /\ CanCancel(runtime, t, authority, held, used, clock)
            /\ Commit(s, CancelTurn(runtime, t, authority, used))
  \/ /\ CanRequestHandoff(runtime)
     /\ Commit(s, RequestHandoff(runtime))

-----------------------------------------------------------------------------
(* Deletion.                                                               *)

Running(s) == \E t \in Turn : ClaimLive(session[s].runtime.turns[t], clock)
Purgeable(s) ==
  /\ Live(s)
  /\ session[s].createdAt + Retention <= clock
  /\ ~Running(s)

(* purgeExpiredSessions, one of the sessions of its batch.                 *)
Purge(s) ==
  /\ Purgeable(s)
  /\ session' = [session EXCEPT ![s] =
       [Reconciled(s, session[s].runtime) EXCEPT !.life = "deleted"]]
  /\ bucket' = [bucket EXCEPT ![BudgetDay(s)] =
       Plus(@, ToReturn(s, session[s].runtime.remaining))]
  /\ UNCHANGED <<clock, creating, fence, erasing>>

(* purgeCustomerSubject asks for the creating, and may have to wait for it ... *)
BeginErase(e) ==
  /\ erasing[e] = Nil
  /\ erasing' = [erasing EXCEPT ![e] = {s \in Session : Live(s)}]
  /\ UNCHANGED <<clock, bucket, session, creating, fence>>

(* ... and, when it has it, deletes without returning any budget.          *)
\* Fault: the erasure does not wait for a creation under way.
HasLockAnyway == TRUE
HasLock == ~Locked
FinishErase(e) ==
  /\ erasing[e] # Nil
  /\ HasLock
  /\ fence' = TRUE
  /\ session' = [s \in Session |->
       IF s \in erasing[e] THEN [session[s] EXCEPT !.life = "deleted"]
       ELSE session[s]]
  /\ erasing' = [erasing EXCEPT ![e] = Nil]
  /\ UNCHANGED <<clock, bucket, creating>>

Tick ==
  /\ clock < MaxClock
  /\ clock' = clock + 1
  /\ UNCHANGED <<bucket, session, creating, fence, erasing>>

Next ==
  \/ BeginCreate \/ FinishCreate
  \/ \E s \in Session : Engage(s) \/ Close(s) \/ Purge(s)
  \/ \E e \in Eraser : BeginErase(e) \/ FinishErase(e)
  \/ Tick

Spec == Init /\ [][Next]_vars

-----------------------------------------------------------------------------
(* What the subject's rows promise.                                        *)

Spent(s, r) ==
  SumFunctionOnSet([t \in Turn |-> session[s].runtime.turns[t].usage[r]], Turn)

(* DailyLimitKept: what the sessions of a day were charged, and what may   *)
(* still be reserved that day, never exceed the day's limit, in whichever  *)
(* order sessions are created, closed, closed again, purged or erased and  *)
(* their running turns settle.                                             *)
DailyLimitKept ==
  \A d \in Day, r \in Resource :
    SumFunctionOnSet([s \in Session |-> Spent(s, r)],
                     {s \in Session : session[s].life # "absent" /\ BudgetDay(s) = d})
      + bucket[d][r] <= DailyLimit[r]

(* RefundLeavesCharges: what a session returned to its day and what its    *)
(* turns are charged, those included that settle after it was closed, fit  *)
(* in what it reserved.                                                    *)
RefundLeavesCharges ==
  \A s \in Session, r \in Resource :
    session[s].refund[r] + Spent(s, r) <= InitialBudget[r]

(* Action property: once the erasure fence is up no session of the subject *)
(* comes into being, not even one whose checks had passed before.          *)
FenceStopsCreation ==
  [][fence => \A s \in Session : ~Live(s) => session'[s].life # "live"]_vars

-----------------------------------------------------------------------------
(* What the tests and the schema say and the code does not do.             *)

(* conversation-runtime.postgres-spec.ts: after purgeCustomerSubject the   *)
(* customer's session is not found and none can be created.                *)
ErasureLeavesNoSession == fence => \A s \in Session : ~Live(s)

(* conversation_subject_budget_reconciliation: unused reservations are     *)
(* returned to the subject's daily bucket.  So a session that returned its *)
(* budget and has no turn left to settle keeps only what it was charged.   *)
UnusedIsReturned ==
  \A s \in Session, r \in Resource :
    /\ session[s].reconciled
    /\ \A t \in Turn : session[s].runtime.turns[t].status \notin ActiveStatus
    => session[s].refund[r] + Spent(s, r) = InitialBudget[r]

=============================================================================
