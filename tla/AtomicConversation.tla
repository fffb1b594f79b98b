------------------------- MODULE AtomicConversation -------------------------
(***************************************************************************)
(* What the conversation runtime promises its callers: every operation     *)
(* takes effect at one instant, on the state that is durable at that       *)
(* instant, together with its public event and its cancellation signal.    *)
(* Nothing is lost, applied twice or applied to a state the caller did not *)
(* read.  ConversationRuntime, where an operation is a read, a computation *)
(* and a later conditional write by one of many processes, implements it.  *)
(*                                                                         *)
(* An operation is judged at the time its caller read the clock, "now",    *)
(* which may lie before the instant it takes effect, or ahead of the       *)
(* database by at most MaxSkew ticks.                                      *)
(***************************************************************************)
EXTENDS ConversationAggregate

CONSTANTS
  Fence,      \* fencing tokens a caller may present
  Receipts,   \* release receipts the AI plane may return
  MaxSkew     \* how far a process's clock may run ahead of the database's

ASSUME AtomicAssumption ==
  /\ Fence \subseteq Nat \ {0}
  /\ Receipts \subseteq Receipt
  /\ Nil \notin Receipts
  /\ MaxSkew \in Nat

VARIABLES
  store,    \* the durable snapshot: runtime row and turn rows
  log,      \* the public event rows
  outbox,   \* conversation.ai.cancel.requested outbox rows
  clock     \* the database clock

vars == <<store, log, outbox, clock>>

CancelSignal == [turn : Turn, fencingToken : Nat, conversationVersion : Nat]

TypeOK ==
  /\ store \in Snapshot
  /\ log \in SUBSET Event
  /\ outbox \in SUBSET CancelSignal
  /\ clock \in Nat

Init ==
  /\ store = CreateSnapshot
  /\ log = {}
  /\ outbox = {}
  /\ clock = 0

\* Fault: only unsettled turns are searched for the message.
KnownWhileActive(s, m) ==
  \E t \in Turn : /\ s.turns[t].status \in ActiveStatus
                 /\ s.turns[t].clientMessageId = m
Known(s, m) ==
  \E t \in Turn : s.turns[t].status # "absent" /\ s.turns[t].clientMessageId = m

(* The durable effects of one commit whose event is about turn t.          *)
SignalsFor(s, t) ==
  IF s.turns[t].status = "claimed"
  THEN {[turn |-> t, fencingToken |-> s.turns[t].fencingToken,
         conversationVersion |-> s.version]}
  ELSE {}

Apply(next, event) ==
  /\ store' = next
  /\ log' = log \cup {event}
  /\ outbox' = IF event.type = "turn.cancelled"
               THEN outbox \cup SignalsFor(store, event.turn)
               ELSE outbox
  /\ UNCHANGED clock

ReceiptFresh(turn) == turn.receiptExpiresAt = 0 \/ turn.receiptExpiresAt > clock

Accept(t, m, f, b) ==
  /\ CanAccept(store, t, b)
  /\ ~Known(store, m)
  /\ Apply(AcceptMessage(store, t, m, f, b),
           NextEvent(store, "message.accepted", t))

Claim(t, fence, now) ==
  /\ CanClaim(store, t, fence, now)
  /\ ReceiptFresh(store.turns[t])
  /\ Apply(ClaimTurn(store, t, fence, now),
           NextEvent(store, "turn.processing", t))

Complete(t, fence, outcome, used, receipt, now) ==
  /\ CanComplete(store, t, fence, used, receipt, now)
  /\ ReceiptFresh(CompleteTurn(store, t, outcome, used, receipt).turns[t])
  /\ Apply(CompleteTurn(store, t, outcome, used, receipt),
           NextEvent(store, CompletionEventType(outcome), t))

Cancel(t, authority, fence, used, now) ==
  /\ CanCancel(store, t, authority, fence, used, now)
  /\ ReceiptFresh(store.turns[t])
  /\ Apply(CancelTurn(store, t, authority, used),
           NextEvent(store, "turn.cancelled", t))

Close ==
  /\ CanClose(store)
  /\ Apply(CloseSession(store), NextEvent(store, "session.closed", Nil))

Handoff ==
  /\ CanRequestHandoff(store)
  /\ Apply(RequestHandoff(store), NextEvent(store, "handoff.requested", Nil))

Tick ==
  /\ clock' = clock + 1
  /\ UNCHANGED <<store, log, outbox>>

Next ==
  \/ \E t \in Turn, m \in Message, f \in Fingerprint, b \in Reservation :
       Accept(t, m, f, b)
  \/ \E now \in 0..(clock + MaxSkew), t \in Turn, fence \in Fence :
       \/ Claim(t, fence, now)
       \/ \E used \in Usage :
            \/ \E outcome \in Outcome, receipt \in Receipts \cup {Nil} :
                 Complete(t, fence, outcome, used, receipt, now)
            \/ \E authority \in Authority :
                 Cancel(t, authority, fence, used, now)
  \/ Close
  \/ Handoff
  \/ Tick

Spec == Init /\ [][Next]_vars

-----------------------------------------------------------------------------
(* InboxOrder: while a turn runs, every other turn that still needs an     *)
(* answer was received after it, so two turns never run at once and no     *)
(* message overtakes an earlier one (claimTurn's first-claimable rule).    *)
InboxOrder ==
  \A t, u \in Turn :
    /\ t # u
    /\ store.turns[t].status = "claimed"
    /\ store.turns[u].status \in ActiveStatus
    => store.turns[t].receivedSequence < store.turns[u].receivedSequence

(* OneTurnPerMessage: a client message and an inbox position each belong   *)
(* to one turn, however often the message is sent (acceptMessage's replay).*)
OneTurnPerMessage ==
  \A t, u \in Turn :
    /\ t # u
    /\ store.turns[t].status # "absent"
    /\ store.turns[u].status # "absent"
    => /\ store.turns[t].clientMessageId # store.turns[u].clientMessageId
       /\ store.turns[t].receivedSequence # store.turns[u].receivedSequence

(* EventLogGapless: the durable log holds exactly one event per committed  *)
(* version, numbered from one, so a cursor never skips or repeats one.     *)
EventLogGapless ==
  /\ store.version = store.lastPublicEventSequence
  /\ \A e \in log : e.sequence \in 1..store.lastPublicEventSequence
  /\ \A i \in 1..store.lastPublicEventSequence : \E e \in log : e.sequence = i
  /\ \A e, d \in log : e.sequence = d.sequence => e = d

(* ClaimHoldsNewestFence: a running turn holds the highest fence ever      *)
(* granted in the session, so any older worker is recognisably stale.      *)
ClaimHoldsNewestFence ==
  \A t \in Turn : store.turns[t].status = "claimed" =>
    store.turns[t].fencingToken = store.fencingTokenHighWatermark

(* AnsweredOnce: a turn has one acceptance event once it exists, and one   *)
(* settling event exactly when it is settled: never two answers, never an  *)
(* answer and a cancellation, never a settled turn the client cannot see.  *)
SettlingType == {"turn.completed", "turn.cancelled", "handoff.requested"}
SettlingEvents(t) == {e \in log : e.turn = t /\ e.type \in SettlingType}
AnsweredOnce ==
  \A t \in Turn :
    /\ \A e, d \in SettlingEvents(t) : e = d
    /\ (SettlingEvents(t) # {}) <=> (store.turns[t].status \in TerminalStatus)

(* UsageWithinReservation: no turn is ever charged more than it reserved,  *)
(* and an unsettled turn is charged nothing yet.                           *)
UsageWithinReservation ==
  \A t \in Turn :
    /\ Fits(store.turns[t].usage, store.turns[t].budget)
    /\ store.turns[t].status \in ActiveStatus => store.turns[t].usage = NoBudget

(* BudgetConserved: what remains, what unsettled turns still withhold and  *)
(* what settled turns were charged always add up to the session's budget,  *)
(* in each dimension (reserve on accept, release on complete or cancel).   *)
BudgetConserved == Conserved(store)

(* Numbered: an existing turn has a place in the inbox, and an identifier  *)
(* not yet used has an empty row.  It strengthens the invariants above.    *)
Numbered ==
  \A t \in Turn :
    IF store.turns[t].status = "absent"
    THEN store.turns[t] = AbsentTurn
    ELSE store.turns[t].receivedSequence \in 1..store.lastReceivedSequence

(* IInv: the inductive invariant of the proofs.                            *)
IInv ==
  /\ TypeOK
  /\ Numbered
  /\ InboxOrder
  /\ OneTurnPerMessage
  /\ EventLogGapless
  /\ ClaimHoldsNewestFence
  /\ AnsweredOnce
  /\ UsageWithinReservation

(* SettledIsFinal: once a turn has settled, no later or late operation     *)
(* changes its row.                                                        *)
SettledIsFinal ==
  [][\A t \in Turn : store.turns[t].status \in TerminalStatus =>
       store'.turns[t] = store.turns[t]]_store

(* FenceNeverReused: the high watermark never falls, and a claim that      *)
(* changes hands gets a strictly higher fence.                             *)
FenceNeverReused ==
  [][/\ store'.fencingTokenHighWatermark >= store.fencingTokenHighWatermark
     /\ \A t \in Turn :
          /\ store'.turns[t].status = "claimed"
          /\ store'.turns[t] # store.turns[t]
          => store'.turns[t].fencingToken > store.fencingTokenHighWatermark]_store

=============================================================================
