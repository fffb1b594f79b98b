------------------------ MODULE ConversationDispatch ------------------------
(***************************************************************************)
(* The turn dispatcher: API processes poll the durable inbox of a session, *)
(* claim its first turn, read the turn's execution context, call the AI    *)
(* plane and commit what it answers, while clients keep sending messages,  *)
(* cancelling and closing.  Every database call is one atomic step (that   *)
(* is what ConversationRuntime establishes); what is new here is all that  *)
(* can happen between two database calls of one process.                   *)
(*                                                                         *)
(* Abstracted: the AI plane is any answer or any failure, release receipts *)
(* and public events are left to AtomicConversation, the dead-letter audit *)
(* row is left out, the session stays readable, and all processes read the *)
(* database clock.  A lease is longer than an AI call may take, so one     *)
(* that lapses under a working process is counted as a fault, like a       *)
(* failed call or a crash.                                                 *)
(***************************************************************************)
EXTENDS ConversationAggregate, FiniteSets

CONSTANTS
  Worker,        \* API processes
  Disposition,   \* how a failed AI call is classified
  MaxFaults      \* bound: failed calls, crashes and stalls in one history

Dispositions == {"retry", "refuse", "stale", "dead-letter"}
MaxTurnDispatchAttempts == 3

ASSUME DispatchAssumption ==
  /\ Disposition \subseteq Dispositions
  /\ MaxFaults \in Nat

VARIABLES
  store,      \* the durable snapshot of the session
  clock,      \* the database clock
  attempts,   \* dispatchAttempts of each turn row
  work,       \* what each process is doing
  faults,     \* failed calls, crashes and stalls so far
  transient   \* transient failures of each turn so far (observation only)

vars == <<store, clock, attempts, work, faults, transient>>

Idle == [pc |-> "idle"]
Pc == {"claiming", "claimed", "calling", "completing", "failing",
       "refusing", "refusal"}
Busy ==
  [pc             : Pc,
   turn           : Turn,
   fence          : Nat,    \* the fence this process claimed
   version        : Nat,    \* the version its next write expects
   contextFence   : Nat,    \* the fence its execution context named
   attempts       : Nat,    \* dispatchAttempts when it polled
   disposition    : Dispositions]

DispatchTypeOK ==
  /\ store \in Snapshot
  /\ clock \in Nat
  /\ attempts \in [Turn -> Nat]
  /\ \A w \in Worker : work[w] = Idle \/ work[w] \in Busy
  /\ faults \in 0..MaxFaults

DispatchInit ==
  /\ store = CreateSnapshot
  /\ clock = 0
  /\ attempts = [t \in Turn |-> 0]
  /\ work = [w \in Worker |-> Idle]
  /\ faults = 0
  /\ transient = [t \in Turn |-> 0]

RowOf(w) == store.turns[work[w].turn]
At(w, pc) == work[w].pc = pc
Become(w, next) == work' = [work EXCEPT ![w] = next]
Goto(w, pc) == Become(w, [work[w] EXCEPT !.pc = pc])
Fail(w, disposition) ==
  Become(w, [work[w] EXCEPT !.pc = "failing", !.disposition = disposition])

-----------------------------------------------------------------------------
(* Claiming: findDispatchCandidates and claimTurn.                         *)

Candidates == {t \in Turn : Claimable(store.turns[t], clock)}

Poll(w) ==
  /\ At(w, "idle")
  /\ \E t \in Candidates :
       /\ \A u \in Candidates :
            store.turns[t].receivedSequence <= store.turns[u].receivedSequence
       /\ Become(w, [pc |-> "claiming", turn |-> t,
                     fence |-> store.fencingTokenHighWatermark + 1,
                     version |-> store.version, contextFence |-> 0,
                     attempts |-> attempts[t],
                     disposition |-> "stale"])
  /\ UNCHANGED <<store, clock, attempts, faults, transient>>

MayClaim(w) ==
  /\ store.version = work[w].version
  /\ CanClaim(store, work[w].turn, work[w].fence, clock)

Claim(w) ==
  /\ At(w, "claiming")
  /\ IF MayClaim(w)
     THEN /\ store' = ClaimTurn(store, work[w].turn, work[w].fence, clock)
          /\ Goto(w, "claimed")
     ELSE /\ Become(w, Idle)
          /\ UNCHANGED store
  /\ UNCHANGED <<clock, attempts, faults, transient>>

-----------------------------------------------------------------------------
(* Executing: the context is read again, the AI plane called, and the      *)
(* result committed under the version and the fence the context named.     *)

(* getTurnExecutionContext returns null for a turn no longer running; that *)
(* is not a transport error, so it is classified as a dead letter.         *)
ReadContext(w) ==
  /\ At(w, "claimed")
  /\ IF RowOf(w).status = "claimed"
     THEN Become(w, [work[w] EXCEPT !.pc = "calling",
                                    !.version = store.version,
                                    !.contextFence = RowOf(w).fencingToken])
     ELSE Fail(w, "dead-letter")
  /\ UNCHANGED <<store, clock, attempts, faults, transient>>

Answered(w) ==
  /\ At(w, "calling")
  /\ Goto(w, "completing")
  /\ UNCHANGED <<store, clock, attempts, faults, transient>>

CallFailed(w) ==
  /\ At(w, "calling")
  /\ faults < MaxFaults
  /\ faults' = faults + 1
  /\ \E d \in Disposition :
       /\ Fail(w, d)
       /\ transient' = IF d = "retry"
                       THEN [transient EXCEPT ![work[w].turn] = @ + 1]
                       ELSE transient
  /\ UNCHANGED <<store, clock, attempts>>

MayComplete(w, fence, used) ==
  /\ store.version = work[w].version
  /\ CanComplete(store, work[w].turn, fence, used, Nil, clock)

(* A commit that is refused, for its version or its fence, is no transport *)
(* error either: a dead letter.                                            *)
Complete(w) ==
  /\ At(w, "completing")
  /\ \/ \E outcome \in Outcome, used \in Usage :
          /\ MayComplete(w, work[w].contextFence, used)
          /\ store' = CompleteTurn(store, work[w].turn, outcome, used, Nil)
          /\ Become(w, Idle)
     \/ /\ \A used \in Usage : ~MayComplete(w, work[w].contextFence, used)
        /\ Fail(w, "dead-letter")
        /\ UNCHANGED store
  /\ UNCHANGED <<clock, attempts, faults, transient>>

-----------------------------------------------------------------------------
(* Failing: classify, record, and finish the turn with a safe refusal.     *)

HoldsRow(w) ==
  RowOf(w).status = "claimed" /\ RowOf(w).fencingToken = work[w].fence

Retries(w) ==
  /\ work[w].disposition = "retry"
  /\ work[w].attempts + 1 < MaxTurnDispatchAttempts

Drop(w) ==
  /\ At(w, "failing")
  /\ work[w].disposition = "stale"
  /\ Become(w, Idle)
  /\ UNCHANGED <<store, clock, attempts, faults, transient>>

Deny(w) ==
  /\ At(w, "failing")
  /\ work[w].disposition = "refuse"
  /\ Goto(w, "refusing")
  /\ UNCHANGED <<store, clock, attempts, faults, transient>>

(* recordTurnDispatchFailure with terminal = false would put the turn back *)
(* as accepted, without worker and lease but with its fence.  The table's  *)
(* claim shape check admits no fence on a turn that is not claimed, so the *)
(* update fails and the row keeps its claim until the lease lapses.        *)
RecordRetry(w) ==
  /\ At(w, "failing")
  /\ Retries(w)
  /\ Become(w, Idle)
  /\ UNCHANGED <<store, clock, attempts, faults, transient>>

DeadLetters(w) ==
  \/ work[w].disposition = "dead-letter"
  \/ work[w].disposition = "retry" /\ ~Retries(w)

RecordDeadLetter(w) ==
  /\ At(w, "failing")
  /\ DeadLetters(w)
  /\ IF HoldsRow(w)
     THEN /\ attempts' = [attempts EXCEPT ![work[w].turn] = @ + 1]
          /\ Goto(w, "refusing")
     ELSE /\ Become(w, Idle)
          /\ UNCHANGED attempts
  /\ UNCHANGED <<store, clock, faults, transient>>

(* The context is read once more for its version and fence.                *)
PrepareRefusal(w) ==
  Become(w, [work[w] EXCEPT !.pc = "refusal",
                            !.version = store.version,
                            !.contextFence = RowOf(w).fencingToken])

\* Fault: any running claim will do, not only this process's own.
ReadForRefusalUnfenced(w) ==
  /\ At(w, "refusing")
  /\ IF RowOf(w).status = "claimed" THEN PrepareRefusal(w) ELSE Become(w, Idle)
  /\ UNCHANGED <<store, clock, attempts, faults, transient>>
ReadForRefusal(w) ==
  /\ At(w, "refusing")
  /\ IF HoldsRow(w) THEN PrepareRefusal(w) ELSE Become(w, Idle)
  /\ UNCHANGED <<store, clock, attempts, faults, transient>>

Refuse(w) ==
  /\ At(w, "refusal")
  /\ store' = IF MayComplete(w, work[w].contextFence, NoBudget)
              THEN CompleteTurn(store, work[w].turn, "refusal", NoBudget, Nil)
              ELSE store
  /\ Become(w, Idle)
  /\ UNCHANGED <<clock, attempts, faults, transient>>

Crash(w) ==
  /\ ~At(w, "idle")
  /\ faults < MaxFaults
  /\ faults' = faults + 1
  /\ Become(w, Idle)
  /\ UNCHANGED <<store, clock, attempts, transient>>

-----------------------------------------------------------------------------
(* The clients, whose requests commit on the current version.              *)

(* Which new identifiers a turn and a message get makes no difference.     *)
Unused(t) == store.turns[t].status = "absent"
New(m) == \A t \in Turn : store.turns[t].clientMessageId # m
ClientAccept ==
  /\ \E t \in Turn : Unused(t)
  /\ \E m \in Message : New(m)
  /\ LET t == CHOOSE t \in Turn : Unused(t)
         m == CHOOSE m \in Message : New(m)
     IN \E f \in Fingerprint, b \in Reservation :
          /\ CanAccept(store, t, b)
          /\ store' = AcceptMessage(store, t, m, f, b)

ClientCancel ==
  \E t \in Turn :
    /\ CanCancel(store, t, "customer", 0, NoBudget, clock)
    /\ store' = CancelTurn(store, t, "customer", NoBudget)

ClientClose == CanClose(store) /\ store' = CloseSession(store)
ClientHandoff == CanRequestHandoff(store) /\ store' = RequestHandoff(store)

Client ==
  /\ ClientAccept \/ ClientCancel \/ ClientClose \/ ClientHandoff
  /\ UNCHANGED <<clock, attempts, work, faults, transient>>

(* Time matters only while a lease is running; it stands still otherwise.  *)
HolderAtWork(t) ==
  \E w \in Worker : /\ work[w].pc \notin {"idle", "claiming"}
                    /\ work[w].turn = t
                    /\ work[w].fence = store.turns[t].fencingToken
Stalls ==
  \E t \in Turn : /\ ClaimLive(store.turns[t], clock)
                  /\ ~ClaimLive(store.turns[t], clock + 1)
                  /\ HolderAtWork(t)

Tick ==
  /\ \E t \in Turn : ClaimLive(store.turns[t], clock)
  /\ IF Stalls
     THEN faults < MaxFaults /\ faults' = faults + 1
     ELSE UNCHANGED faults
  /\ clock' = clock + 1
  /\ UNCHANGED <<store, attempts, work, transient>>

Call(w) == Answered(w) \/ CallFailed(w)
Step(w) ==
  \/ Claim(w)
  \/ ReadContext(w)
  \/ Call(w)
  \/ Complete(w)
  \/ Drop(w)
  \/ Deny(w)
  \/ RecordRetry(w)
  \/ RecordDeadLetter(w)
  \/ ReadForRefusal(w)
  \/ Refuse(w)

DispatchNext ==
  \/ \E w \in Worker : Poll(w) \/ Step(w) \/ Crash(w)
  \/ Client
  \/ Tick

DispatchSpec == DispatchInit /\ [][DispatchNext]_vars

(* The poll timer keeps firing, every database call returns and every AI   *)
(* call ends, if only at its deadline; nothing obliges a client to act.    *)
Fairness ==
  /\ \A w \in Worker : WF_vars(Poll(w)) /\ WF_vars(Step(w))
  /\ WF_vars(Tick)

FairSpec == DispatchSpec /\ Fairness

-----------------------------------------------------------------------------
(* What the dispatcher is for.                                             *)

Settled(t) == store.turns[t].status \in TerminalStatus

(* Liveness: a message that was acknowledged is answered, refused or       *)
(* cancelled, whatever crashes, stalls and failed calls its processes      *)
(* meet, as long as the session stays open.                                *)
EveryMessageSettled ==
  \A t \in Turn : store.turns[t].status \in ActiveStatus ~>
                    Settled(t) \/ store.status # "open"

(* Action property: the safe refusal that ends a failure is committed only *)
(* by the process that holds the turn's claim; one that stalled while      *)
(* another took the turn over may not refuse it under the other's fence.   *)
RefusesOnlyItsOwn ==
  [][\A w \in Worker :
       At(w, "refusal") /\ store' # store /\ work'[w] = Idle
         => HoldsRow(w)]_vars

(* Every claim but a turn's first has a cause.  The claims of a session    *)
(* are at most its turns, the faults, and the client commands that made a  *)
(* running process lose its commit: polling alone never calls the AI plane *)
(* twice for one turn.                                                     *)
Completed == {t \in Turn : store.turns[t].status \in {"completed", "handed_off"}}
ClientCommands ==
  store.version - store.fencingTokenHighWatermark - Cardinality(Completed)
ReclaimsHaveCause ==
  store.fencingTokenHighWatermark <=
    Cardinality({t \in Turn : store.turns[t].status # "absent"})
      + faults + ClientCommands

-----------------------------------------------------------------------------
(* What the documentation says and the code does not do.                   *)

(* docs/conversation-runtime.md: a transient transport failure is retried  *)
(* with exponential backoff at most three times, so a turn never sees more *)
(* than one failure and three more.                                        *)
TransientRetriesBounded ==
  \A t \in Turn : transient[t] <= MaxTurnDispatchAttempts + 1

=============================================================================
