----------------------- MODULE AtomicConversationProofs -----------------------
(***************************************************************************)
(* Proofs about AtomicConversation, for every set of turns, messages,      *)
(* budgets, fences, receipts and clock skews.                              *)
(***************************************************************************)
EXTENDS AtomicConversation

(* NowNat: the instant an operation is judged at is a natural number.      *)
LEMMA NowNat ==
  ASSUME TypeOK, NEW now \in 0..(clock + MaxSkew)
  PROVE  now \in Nat
BY AtomicAssumption DEF TypeOK

(* The lemmas below say what each operation leaves in the store: which row *)
(* it rewrites, and how the session counters move.                         *)

(* AcceptFacts: acceptMessage appends one turn to the inbox.               *)
LEMMA AcceptFacts ==
  ASSUME TypeOK, NEW t \in Turn, NEW m \in Message, NEW f \in Fingerprint,
         NEW b \in Reservation, Accept(t, m, f, b)
  PROVE  /\ store.turns[t].status = "absent"
         /\ store' \in Snapshot
         /\ store'.lastReceivedSequence = store.lastReceivedSequence + 1
         /\ store'.fencingTokenHighWatermark = store.fencingTokenHighWatermark
         /\ store'.version = store.version + 1
         /\ store'.lastPublicEventSequence = store.lastPublicEventSequence + 1
         /\ store'.turns[t] = AcceptedTurn(store, m, f, b)
         /\ \A u \in Turn \ {t} : store'.turns[u] = store.turns[u]
<1>1. store \in Snapshot /\ store' = AcceptMessage(store, t, m, f, b)
  BY DEF TypeOK, Accept, Apply
<1>2. store.turns \in [Turn -> TurnRecord]
  BY <1>1 DEF Snapshot
<1>3. store' \in Snapshot
  BY <1>1, AcceptType DEF Accept
<1>4. QED
  BY <1>1, <1>2, <1>3 DEF Accept, CanAccept, AcceptMessage, Advance

(* ClaimFacts: claimTurn rewrites one row and raises the watermark.        *)
LEMMA ClaimFacts ==
  ASSUME TypeOK, NEW t \in Turn, NEW fence \in Fence,
         NEW now \in 0..(clock + MaxSkew), Claim(t, fence, now)
  PROVE  /\ store' \in Snapshot
         /\ store'.lastReceivedSequence = store.lastReceivedSequence
         /\ store'.fencingTokenHighWatermark = fence
         /\ store'.version = store.version + 1
         /\ store'.lastPublicEventSequence = store.lastPublicEventSequence + 1
         /\ store'.turns[t] = ClaimedTurn(store.turns[t], fence, now)
         /\ \A u \in Turn \ {t} : store'.turns[u] = store.turns[u]
<1>1. store \in Snapshot /\ store' = ClaimTurn(store, t, fence, now)
  BY DEF TypeOK, Claim, Apply
<1>2. store.turns \in [Turn -> TurnRecord]
  BY <1>1 DEF Snapshot
<1>3. store' \in Snapshot
  BY <1>1, ClaimType, NowNat, AtomicAssumption
<1>4. QED
  BY <1>1, <1>2, <1>3 DEF ClaimTurn, Advance

(* CompleteFacts: completeTurn rewrites the row of a claimed turn.         *)
LEMMA CompleteFacts ==
  ASSUME TypeOK, NEW t \in Turn, NEW fence, NEW outcome \in Outcome,
         NEW used \in Usage, NEW receipt \in Receipts \cup {Nil}, NEW now,
         Complete(t, fence, outcome, used, receipt, now)
  PROVE  /\ store.turns[t].status = "claimed"
         /\ store' \in Snapshot
         /\ store'.lastReceivedSequence = store.lastReceivedSequence
         /\ store'.fencingTokenHighWatermark = store.fencingTokenHighWatermark
         /\ store'.version = store.version + 1
         /\ store'.lastPublicEventSequence = store.lastPublicEventSequence + 1
         /\ store'.turns[t] =
              CompletedTurn(store.turns[t], outcome, used, receipt)
         /\ \A u \in Turn \ {t} : store'.turns[u] = store.turns[u]
<1>1. /\ store \in Snapshot
      /\ store' = CompleteTurn(store, t, outcome, used, receipt)
      /\ CanComplete(store, t, fence, used, receipt, now)
  BY DEF TypeOK, Complete, Apply
<1>2. store.turns \in [Turn -> TurnRecord]
  BY <1>1 DEF Snapshot
<1>3. receipt = Nil \/ receipt \in Receipt
  BY AtomicAssumption
<1>4. store' \in Snapshot
  BY <1>1, <1>3, CompleteType
<1>5. QED
  BY <1>1, <1>2, <1>4 DEF CompleteTurn, CanComplete, HasCurrentClaim, Advance

(* CancelFacts: cancelTurn rewrites the row of an unsettled turn.          *)
LEMMA CancelFacts ==
  ASSUME TypeOK, NEW t \in Turn, NEW authority, NEW fence,
         NEW used \in Usage, NEW now, Cancel(t, authority, fence, used, now)
  PROVE  /\ store.turns[t].status \in ActiveStatus
         /\ store' \in Snapshot
         /\ store'.lastReceivedSequence = store.lastReceivedSequence
         /\ store'.fencingTokenHighWatermark = store.fencingTokenHighWatermark
         /\ store'.version = store.version + 1
         /\ store'.lastPublicEventSequence = store.lastPublicEventSequence + 1
         /\ store'.turns[t] = CancelledTurn(store.turns[t], authority, used)
         /\ \A u \in Turn \ {t} : store'.turns[u] = store.turns[u]
<1>1. /\ store \in Snapshot
      /\ store' = CancelTurn(store, t, authority, used)
      /\ CanCancel(store, t, authority, fence, used, now)
  BY DEF TypeOK, Cancel, Apply
<1>2. store.turns \in [Turn -> TurnRecord]
  BY <1>1 DEF Snapshot
<1>3. store' \in Snapshot
  BY <1>1, CancelType
<1>4. QED
  BY <1>1, <1>2, <1>3 DEF CancelTurn, CanCancel, Advance

(* StatusFacts: closing and handing off leave every turn row alone.        *)
LEMMA StatusFacts ==
  ASSUME TypeOK, Close \/ Handoff
  PROVE  /\ store' \in Snapshot
         /\ store'.lastReceivedSequence = store.lastReceivedSequence
         /\ store'.fencingTokenHighWatermark = store.fencingTokenHighWatermark
         /\ store'.version = store.version + 1
         /\ store'.lastPublicEventSequence = store.lastPublicEventSequence + 1
         /\ store'.turns = store.turns
<1>1. PICK status \in SessionStatus :
        store \in Snapshot /\ store' = SetStatus(store, status)
  BY DEF TypeOK, Close, Handoff, Apply, CloseSession, RequestHandoff,
         SessionStatus
<1>2. store' \in Snapshot
  BY <1>1, StatusType
<1>3. QED
  BY <1>1, <1>2 DEF SetStatus, Advance

(* SignalsType: the cancellation signal of a turn names a fence and a      *)
(* version the store really holds.                                         *)
LEMMA SignalsType ==
  ASSUME TypeOK, NEW t \in Turn
  PROVE  SignalsFor(store, t) \in SUBSET CancelSignal
<1>1. store.turns[t] \in TurnRecord /\ store.version \in Nat
  BY TurnOf DEF TypeOK, Snapshot
<1>2. QED
  BY <1>1 DEF SignalsFor, CancelSignal, TurnRecord

(* ApplyType: committing a well-formed snapshot with its next event leaves *)
(* well-formed rows in all three tables.                                   *)
LEMMA ApplyType ==
  ASSUME TypeOK, NEW next \in Snapshot, NEW type \in EventType,
         NEW t \in Turn \cup {Nil},
         type = "turn.cancelled" => t \in Turn,
         Apply(next, NextEvent(store, type, t))
  PROVE  TypeOK'
<1> DEFINE e == NextEvent(store, type, t)
<1>1. store.lastPublicEventSequence + 1 \in Nat
  BY DEF TypeOK, Snapshot
<1>2. e \in Event
  BY <1>1 DEF NextEvent, Event
<1>3. log' \in SUBSET Event
  BY <1>2 DEF Apply, TypeOK
<1>4. e.type = type /\ e.turn = t
  BY DEF NextEvent
<1>5. outbox' \in SUBSET CancelSignal
  BY <1>4, SignalsType DEF Apply, TypeOK
<1>6. QED
  BY <1>3, <1>5 DEF Apply, TypeOK

(* TypeInvariant: the store stays a well-formed snapshot (no counter below *)
(* zero, no dangling status) and the log and the outbox hold typed rows.   *)
THEOREM TypeInvariant == Spec => []TypeOK
<1>1. Init => TypeOK
  BY CreateType DEF Init, TypeOK
<1>2. TypeOK /\ [Next]_vars => TypeOK'
  <2> SUFFICES ASSUME TypeOK, [Next]_vars PROVE TypeOK'
    OBVIOUS
  <2>1. ASSUME NEW t \in Turn, NEW m \in Message, NEW f \in Fingerprint,
               NEW b \in Reservation, Accept(t, m, f, b)
        PROVE  TypeOK'
    BY <2>1, AcceptType, ApplyType DEF Accept, TypeOK, EventType
  <2>2. ASSUME NEW now \in 0..(clock + MaxSkew), NEW t \in Turn,
               NEW fence \in Fence, Claim(t, fence, now)
        PROVE  TypeOK'
    BY <2>2, ClaimType, ApplyType, NowNat, AtomicAssumption
       DEF Claim, TypeOK, EventType
  <2>3. ASSUME NEW now \in 0..(clock + MaxSkew), NEW t \in Turn,
               NEW fence \in Fence, NEW used \in Usage,
               NEW outcome \in Outcome, NEW receipt \in Receipts \cup {Nil},
               Complete(t, fence, outcome, used, receipt, now)
        PROVE  TypeOK'
    <3>1. CompleteTurn(store, t, outcome, used, receipt) \in Snapshot
      BY <2>3, CompleteFacts DEF Complete, Apply
    <3>2. CompletionEventType(outcome) \in EventType \ {"turn.cancelled"}
      BY DEF CompletionEventType, EventType
    <3>3. QED
      BY <2>3, <3>1, <3>2, ApplyType DEF Complete
  <2>4. ASSUME NEW now \in 0..(clock + MaxSkew), NEW t \in Turn,
               NEW fence \in Fence, NEW used \in Usage,
               NEW authority \in Authority,
               Cancel(t, authority, fence, used, now)
        PROVE  TypeOK'
    BY <2>4, CancelType, ApplyType DEF Cancel, TypeOK, EventType
  <2>5. CASE Close
    BY <2>5, StatusType, ApplyType
       DEF Close, CloseSession, SessionStatus, EventType, TypeOK
  <2>6. CASE Handoff
    BY <2>6, StatusType, ApplyType
       DEF Handoff, RequestHandoff, SessionStatus, EventType, TypeOK
  <2>7. CASE Tick
    BY <2>7 DEF Tick, TypeOK
  <2>8. CASE UNCHANGED vars
    BY <2>8 DEF vars, TypeOK
  <2>9. QED
    BY <2>1, <2>2, <2>3, <2>4, <2>5, <2>6, <2>7, <2>8 DEF Next
<1>3. QED
  BY <1>1, <1>2, PTL DEF Spec

-----------------------------------------------------------------------------
(* The inductive invariant.  RowInv speaks of the turn rows, LogInv of the *)
(* event rows.  RowInv is inductive only as a whole: a claim keeps the     *)
(* order of the inbox because positions are distinct (OneTurnPerMessage),  *)
(* a new position is distinct because the counter bounds the old ones      *)
(* (Numbered), and the newest fence is the only running one because the    *)
(* first claimable turn precedes every other (InboxOrder).                 *)

RowInv ==
  /\ Numbered
  /\ InboxOrder
  /\ OneTurnPerMessage
  /\ ClaimHoldsNewestFence
  /\ UsageWithinReservation
LogInv == EventLogGapless /\ AnsweredOnce

(* RowTyped: the fields of a row that the arithmetic below needs.          *)
LEMMA RowTyped ==
  ASSUME TypeOK, NEW t \in Turn
  PROVE  /\ store.turns[t] \in TurnRecord
         /\ store.turns[t].receivedSequence \in Nat
         /\ store.turns[t].budget \in Budget
         /\ store.turns[t].usage \in Budget
         /\ store.turns[t].leaseExpiresAt \in Nat
         /\ store.turns[t].status \in TurnStatus
         /\ store.lastReceivedSequence \in Nat
<1>1. store.turns[t] \in TurnRecord
  BY TurnOf DEF TypeOK
<1>2. QED
  BY <1>1 DEF TurnRecord, TypeOK, Snapshot

(* NoBudgetFits: an empty usage never exceeds a reservation.               *)
LEMMA NoBudgetFits ==
  ASSUME NEW b \in Budget
  PROVE  NoBudget \in Budget /\ Fits(NoBudget, b)
BY DEF NoBudget, Fits, Budget

(* AcceptRows: acceptMessage preserves the invariant of the turn rows.     *)
LEMMA AcceptRows ==
  ASSUME TypeOK, RowInv, NEW t \in Turn, NEW m \in Message,
         NEW f \in Fingerprint, NEW b \in Reservation, Accept(t, m, f, b)
  PROVE  RowInv'
<1> DEFINE n == store'.turns[t]
<1>1. /\ n.status = "accepted"
      /\ n.receivedSequence = store.lastReceivedSequence + 1
      /\ n.clientMessageId = m
      /\ n.usage = NoBudget
      /\ n.budget = b
  BY AcceptFacts, AcceptedFields
<1>2. /\ store'.lastReceivedSequence = store.lastReceivedSequence + 1
      /\ store'.fencingTokenHighWatermark = store.fencingTokenHighWatermark
      /\ \A u \in Turn \ {t} : store'.turns[u] = store.turns[u]
  BY AcceptFacts
<1>3. \A u \in Turn : /\ store.turns[u].receivedSequence \in Nat
                      /\ store.lastReceivedSequence \in Nat
  BY RowTyped
<1>4. \A u \in Turn : store.turns[u].status # "absent" =>
        store.turns[u].receivedSequence \in 1..store.lastReceivedSequence
  BY DEF RowInv, Numbered
<1> HIDE DEF n
<1>5. Numbered'
  <2>1. n.status # "absent"
        /\ n.receivedSequence \in 1..store'.lastReceivedSequence
    BY <1>1, <1>2, <1>3
  <2>2. ASSUME NEW u \in Turn \ {t}
        PROVE  IF store'.turns[u].status = "absent"
               THEN store'.turns[u] = AbsentTurn
               ELSE store'.turns[u].receivedSequence
                      \in 1..store'.lastReceivedSequence
    BY <1>2, <1>3, <1>4 DEF RowInv, Numbered
  <2>3. QED
    BY <2>1, <2>2 DEF Numbered, n
<1>6. InboxOrder'
  BY <1>1, <1>2, <1>3, <1>4 DEF RowInv, InboxOrder, ActiveStatus, n
<1>7. OneTurnPerMessage'
  <2>1. \A u \in Turn : store.turns[u].status # "absent" =>
          store.turns[u].clientMessageId # m
    BY DEF Accept, Known
  <2>2. QED
    BY <1>1, <1>2, <1>3, <1>4, <2>1 DEF RowInv, OneTurnPerMessage, n
<1>8. ClaimHoldsNewestFence'
  BY <1>1, <1>2 DEF RowInv, ClaimHoldsNewestFence, n
<1>9. UsageWithinReservation'
  <2>1. Fits(n.usage, n.budget)
    BY <1>1, NoBudgetFits, AggregateAssumption
  <2>2. QED
    BY <1>1, <1>2, <2>1 DEF RowInv, UsageWithinReservation, n
<1>10. QED
  BY <1>5, <1>6, <1>7, <1>8, <1>9 DEF RowInv

(* ClaimRows: claimTurn preserves it; the heart is <1>3, that the first    *)
(* claimable turn strictly precedes every other unsettled one, so no other *)
(* turn can still be marked as running.                                    *)
LEMMA ClaimRows ==
  ASSUME TypeOK, RowInv, NEW t \in Turn, NEW fence \in Fence,
         NEW now \in 0..(clock + MaxSkew), Claim(t, fence, now)
  PROVE  RowInv'
<1> DEFINE n == store'.turns[t]
<1>1. /\ n.status = "claimed"
      /\ n.receivedSequence = store.turns[t].receivedSequence
      /\ n.clientMessageId = store.turns[t].clientMessageId
      /\ n.usage = store.turns[t].usage
      /\ n.budget = store.turns[t].budget
      /\ n.fencingToken = fence
  BY ClaimFacts, RowTyped, ClaimedFields
<1>2. /\ store'.lastReceivedSequence = store.lastReceivedSequence
      /\ store'.fencingTokenHighWatermark = fence
      /\ \A u \in Turn \ {t} : store'.turns[u] = store.turns[u]
  BY ClaimFacts
<1>3. \A u \in Turn \ {t} : store.turns[u].status \in ActiveStatus =>
        /\ store.turns[t].receivedSequence < store.turns[u].receivedSequence
        /\ store.turns[u].status # "claimed"
  <2> SUFFICES ASSUME NEW u \in Turn \ {t},
                      store.turns[u].status \in ActiveStatus
               PROVE  /\ store.turns[t].receivedSequence
                            < store.turns[u].receivedSequence
                      /\ store.turns[u].status # "claimed"
    OBVIOUS
  <2>1. /\ store.turns[t].receivedSequence \in Nat
        /\ store.turns[u].receivedSequence \in Nat
        /\ store.turns[u].leaseExpiresAt \in Nat
        /\ now \in Nat
    BY RowTyped, NowNat
  <2>2. Claimable(store.turns[u], now)
    BY <2>1 DEF Claim, CanClaim, ClaimLive, Claimable, ActiveStatus
  <2>3. store.turns[t].receivedSequence <= store.turns[u].receivedSequence
    BY <2>2 DEF Claim, CanClaim, IsFirstClaimable
  <2>4. store.turns[t].status \in ActiveStatus
    BY DEF Claim, CanClaim, IsFirstClaimable, Claimable, ActiveStatus
  <2>5. store.turns[t].receivedSequence # store.turns[u].receivedSequence
    BY <2>4 DEF RowInv, OneTurnPerMessage, ActiveStatus
  <2>6. store.turns[u].status # "claimed"
    BY <2>1, <2>3, <2>4 DEF RowInv, InboxOrder
  <2>7. QED
    BY <2>1, <2>3, <2>5, <2>6
<1>4. store.turns[t].status \in ActiveStatus
  BY DEF Claim, CanClaim, IsFirstClaimable, Claimable, ActiveStatus
<1> HIDE DEF n
<1>5. Numbered'
  BY <1>1, <1>2, <1>4 DEF RowInv, Numbered, ActiveStatus, n
<1>6. InboxOrder'
  BY <1>1, <1>2, <1>3 DEF RowInv, InboxOrder, ActiveStatus, n
<1>7. OneTurnPerMessage'
  BY <1>1, <1>2, <1>4 DEF RowInv, OneTurnPerMessage, ActiveStatus, n
<1>8. ClaimHoldsNewestFence'
  BY <1>1, <1>2, <1>3 DEF ClaimHoldsNewestFence, ActiveStatus, n
<1>9. UsageWithinReservation'
  BY <1>1, <1>2, <1>4 DEF RowInv, UsageWithinReservation, ActiveStatus, n
<1>10. QED
  BY <1>5, <1>6, <1>7, <1>8, <1>9 DEF RowInv

(* SettleRows: settling one unsettled turn, whichever way, preserves it.   *)
LEMMA SettleRows ==
  ASSUME TypeOK, RowInv, NEW t \in Turn, NEW used, NEW expiry,
         NEW status \in TerminalStatus,
         store.turns[t].status \in ActiveStatus,
         Fits(used, store.turns[t].budget),
         store'.turns[t] = SettledTurn(store.turns[t], status, used, expiry),
         store'.lastReceivedSequence = store.lastReceivedSequence,
         store'.fencingTokenHighWatermark = store.fencingTokenHighWatermark,
         \A u \in Turn \ {t} : store'.turns[u] = store.turns[u]
  PROVE  RowInv'
<1> DEFINE n == store'.turns[t]
<1>1. /\ n.status = status
      /\ n.receivedSequence = store.turns[t].receivedSequence
      /\ n.clientMessageId = store.turns[t].clientMessageId
      /\ n.usage = used
      /\ n.budget = store.turns[t].budget
  BY RowTyped DEF SettledTurn, TurnRecord
<1>2. status \notin ActiveStatus \cup {"absent"}
  BY DEF TerminalStatus, ActiveStatus
<1> HIDE DEF n
<1>3. Numbered'
  BY <1>1, <1>2 DEF RowInv, Numbered, ActiveStatus, n
<1>4. InboxOrder'
  BY <1>1, <1>2 DEF RowInv, InboxOrder, ActiveStatus, n
<1>5. OneTurnPerMessage'
  BY <1>1, <1>2 DEF RowInv, OneTurnPerMessage, ActiveStatus, n
<1>6. ClaimHoldsNewestFence'
  BY <1>1, <1>2 DEF RowInv, ClaimHoldsNewestFence, ActiveStatus, n
<1>7. UsageWithinReservation'
  BY <1>1, <1>2 DEF RowInv, UsageWithinReservation, n
<1>8. QED
  BY <1>3, <1>4, <1>5, <1>6, <1>7 DEF RowInv

-----------------------------------------------------------------------------
(* AppendEvent: an event numbered one past the last keeps the log gapless. *)
LEMMA AppendEvent ==
  ASSUME TypeOK, EventLogGapless, NEW next, NEW type, NEW t,
         store'.version = store.version + 1,
         store'.lastPublicEventSequence = store.lastPublicEventSequence + 1,
         Apply(next, NextEvent(store, type, t))
  PROVE  EventLogGapless'
<1> DEFINE e == NextEvent(store, type, t)
           last == store.lastPublicEventSequence
<1>1. last \in Nat
  BY DEF TypeOK, Snapshot
<1>2. e.sequence = last + 1 /\ log' = log \cup {e}
  BY DEF NextEvent, Apply
<1>3. /\ store.version = last
      /\ \A d \in log : d.sequence \in 1..last
      /\ \A i \in 1..last : \E d \in log : d.sequence = i
      /\ \A d, c \in log : d.sequence = c.sequence => d = c
  BY DEF EventLogGapless
<1>4. store'.version = last + 1 /\ store'.lastPublicEventSequence = last + 1
  BY <1>3
<1> HIDE DEF e, last
<1>5. \A d \in log' : d.sequence \in 1..(last + 1)
  BY <1>1, <1>2, <1>3
<1>6. \A i \in 1..(last + 1) : \E d \in log' : d.sequence = i
  <2> SUFFICES ASSUME NEW i \in 1..(last + 1)
               PROVE  \E d \in log' : d.sequence = i
    OBVIOUS
  <2>1. CASE i = last + 1
    BY <2>1, <1>2
  <2>2. CASE i # last + 1
    BY <2>2, <1>1, <1>2, <1>3
  <2>3. QED
    BY <2>1, <2>2
<1>7. \A d, c \in log' : d.sequence = c.sequence => d = c
  BY <1>1, <1>2, <1>3
<1>8. QED
  BY <1>4, <1>5, <1>6, <1>7 DEF EventLogGapless

(* SettleNothing: an event that settles no turn, in a step that settles no *)
(* turn, changes no answer.                                                *)
LEMMA SettleNothing ==
  ASSUME AnsweredOnce, NEW next, NEW type, NEW t \in Turn \cup {Nil},
         type \notin SettlingType \/ t = Nil,
         \A u \in Turn : store'.turns[u].status \in TerminalStatus <=>
                         store.turns[u].status \in TerminalStatus,
         Apply(next, NextEvent(store, type, t))
  PROVE  AnsweredOnce'
<1> DEFINE e == NextEvent(store, type, t)
<1>1. log' = log \cup {e} /\ e.type = type /\ e.turn = t
  BY DEF NextEvent, Apply
<1> HIDE DEF e
<1>2. \A u \in Turn : SettlingEvents(u)' = SettlingEvents(u)
  BY <1>1, AggregateAssumption DEF SettlingEvents
<1>3. QED
  BY <1>2 DEF AnsweredOnce

(* SettleOne: settling one unsettled turn with one event answers it once.  *)
LEMMA SettleOne ==
  ASSUME AnsweredOnce, NEW next, NEW type \in SettlingType, NEW t \in Turn,
         store.turns[t].status \notin TerminalStatus,
         store'.turns[t].status \in TerminalStatus,
         \A u \in Turn \ {t} : store'.turns[u] = store.turns[u],
         Apply(next, NextEvent(store, type, t))
  PROVE  AnsweredOnce'
<1> DEFINE e == NextEvent(store, type, t)
<1>1. log' = log \cup {e} /\ e.type = type /\ e.turn = t
  BY DEF NextEvent, Apply
<1> HIDE DEF e
<1>2. \A u \in Turn \ {t} : SettlingEvents(u)' = SettlingEvents(u)
  BY <1>1 DEF SettlingEvents
<1>3. SettlingEvents(t) = {}
  BY DEF AnsweredOnce
<1>4. SettlingEvents(t)' = {e}
  BY <1>1, <1>3 DEF SettlingEvents
<1>5. QED
  BY <1>2, <1>4 DEF AnsweredOnce

(* CompleteSettles: a completed turn was unsettled, is settled now, and    *)
(* was charged no more than it reserved.                                   *)
LEMMA CompleteSettles ==
  ASSUME TypeOK, RowInv, NEW t \in Turn, NEW fence, NEW outcome \in Outcome,
         NEW used \in Usage, NEW receipt \in Receipts \cup {Nil}, NEW now,
         Complete(t, fence, outcome, used, receipt, now)
  PROVE  /\ RowInv'
         /\ store.turns[t].status \notin TerminalStatus
         /\ store'.turns[t].status \in TerminalStatus
         /\ \A u \in Turn \ {t} : store'.turns[u] = store.turns[u]
<1> DEFINE status == IF outcome = "handoff" THEN "handed_off" ELSE "completed"
           expiry == IF receipt = Nil THEN store.turns[t].receiptExpiresAt
                     ELSE receipt.expiresAt
<1>1. status \in TerminalStatus
  BY DEF TerminalStatus
<1>2. store'.turns[t] = SettledTurn(store.turns[t], status, used, expiry)
  BY CompleteFacts DEF CompletedTurn
<1>3. Fits(used, store.turns[t].budget)
  BY DEF Complete, CanComplete
<1>4. store.turns[t].status = "claimed"
  BY CompleteFacts
<1>5. store'.turns[t].status = status
  BY <1>2, RowTyped DEF SettledTurn, TurnRecord
<1> HIDE DEF status, expiry
<1>6. RowInv'
  BY <1>1, <1>2, <1>3, <1>4, SettleRows, CompleteFacts DEF ActiveStatus
<1>7. QED
  BY <1>1, <1>4, <1>5, <1>6, CompleteFacts DEF TerminalStatus

(* CancelSettles: the same for a cancellation, whoever asks for it.        *)
LEMMA CancelSettles ==
  ASSUME TypeOK, RowInv, NEW t \in Turn, NEW authority, NEW fence,
         NEW used \in Usage, NEW now, Cancel(t, authority, fence, used, now)
  PROVE  /\ RowInv'
         /\ store.turns[t].status \notin TerminalStatus
         /\ store'.turns[t].status \in TerminalStatus
         /\ \A u \in Turn \ {t} : store'.turns[u] = store.turns[u]
<1> DEFINE charge == CancelUsage(store.turns[t], authority, used)
<1>1. Fits(charge, store.turns[t].budget)
  <2>1. store \in Snapshot /\ CanCancel(store, t, authority, fence, used, now)
    BY DEF Cancel, TypeOK
  <2>2. QED
    BY <2>1, CancelUsageFits
<1>2. store'.turns[t] = SettledTurn(store.turns[t], "cancelled", charge,
                                    store.turns[t].receiptExpiresAt)
  BY CancelFacts DEF CancelledTurn
<1>3. store.turns[t].status \in ActiveStatus
  BY CancelFacts
<1>4. store'.turns[t].status = "cancelled"
  BY <1>2, RowTyped DEF SettledTurn, TurnRecord
<1> HIDE DEF charge
<1>5. RowInv'
  BY <1>1, <1>2, <1>3, SettleRows, CancelFacts DEF TerminalStatus
<1>6. QED
  BY <1>3, <1>4, <1>5, CancelFacts DEF TerminalStatus, ActiveStatus

(* StepInvariant: every step of the specification preserves IInv.          *)
LEMMA StepInvariant ==
  ASSUME TypeOK, RowInv, LogInv, Next
  PROVE  RowInv' /\ LogInv'
<1>1. ASSUME NEW t \in Turn, NEW m \in Message, NEW f \in Fingerprint,
             NEW b \in Reservation, Accept(t, m, f, b)
      PROVE  RowInv' /\ LogInv'
  <2>1. RowInv'
    BY <1>1, AcceptRows
  <2>2. EventLogGapless'
    BY <1>1, AcceptFacts, AppendEvent DEF Accept, LogInv
  <2>3. AnsweredOnce'
    <3>1. \A u \in Turn : store'.turns[u].status \in TerminalStatus <=>
                          store.turns[u].status \in TerminalStatus
      BY <1>1, AcceptFacts, AcceptedFields DEF TerminalStatus
    <3>2. QED
      BY <1>1, <3>1, SettleNothing DEF Accept, LogInv, SettlingType
  <2>4. QED
    BY <2>1, <2>2, <2>3 DEF LogInv
<1>2. ASSUME NEW now \in 0..(clock + MaxSkew), NEW t \in Turn,
             NEW fence \in Fence, Claim(t, fence, now)
      PROVE  RowInv' /\ LogInv'
  <2>1. RowInv'
    BY <1>2, ClaimRows
  <2>2. EventLogGapless'
    BY <1>2, ClaimFacts, AppendEvent DEF Claim, LogInv
  <2>3. AnsweredOnce'
    <3>1. store.turns[t].status \in ActiveStatus
      BY <1>2 DEF Claim, CanClaim, IsFirstClaimable, Claimable, ActiveStatus
    <3>2. \A u \in Turn : store'.turns[u].status \in TerminalStatus <=>
                          store.turns[u].status \in TerminalStatus
      BY <1>2, <3>1, ClaimFacts, ClaimedFields, RowTyped
         DEF TerminalStatus, ActiveStatus
    <3>3. QED
      BY <1>2, <3>2, SettleNothing DEF Claim, LogInv, SettlingType
  <2>4. QED
    BY <2>1, <2>2, <2>3 DEF LogInv
<1>3. ASSUME NEW now \in 0..(clock + MaxSkew), NEW t \in Turn,
             NEW fence \in Fence, NEW used \in Usage,
             NEW outcome \in Outcome, NEW receipt \in Receipts \cup {Nil},
             Complete(t, fence, outcome, used, receipt, now)
      PROVE  RowInv' /\ LogInv'
  <2>1. RowInv'
    BY <1>3, CompleteSettles
  <2>2. EventLogGapless'
    BY <1>3, CompleteFacts, AppendEvent DEF Complete, LogInv
  <2>3. CompletionEventType(outcome) \in SettlingType
    BY DEF CompletionEventType, SettlingType
  <2>4. AnsweredOnce'
    BY <1>3, <2>3, CompleteSettles, SettleOne DEF Complete, LogInv
  <2>5. QED
    BY <2>1, <2>2, <2>4 DEF LogInv
<1>4. ASSUME NEW now \in 0..(clock + MaxSkew), NEW t \in Turn,
             NEW fence \in Fence, NEW used \in Usage,
             NEW authority \in Authority,
             Cancel(t, authority, fence, used, now)
      PROVE  RowInv' /\ LogInv'
  <2>1. RowInv'
    BY <1>4, CancelSettles
  <2>2. EventLogGapless'
    BY <1>4, CancelFacts, AppendEvent DEF Cancel, LogInv
  <2>3. AnsweredOnce'
    BY <1>4, CancelSettles, SettleOne DEF Cancel, LogInv, SettlingType
  <2>4. QED
    BY <2>1, <2>2, <2>3 DEF LogInv
<1>5. CASE Close \/ Handoff
  <2>1. RowInv'
    BY <1>5, StatusFacts DEF RowInv, Numbered, InboxOrder, OneTurnPerMessage,
       ClaimHoldsNewestFence, UsageWithinReservation
  <2>2. \/ Apply(CloseSession(store), NextEvent(store, "session.closed", Nil))
        \/ Apply(RequestHandoff(store),
                 NextEvent(store, "handoff.requested", Nil))
    BY <1>5 DEF Close, Handoff
  <2>3. EventLogGapless'
    BY <1>5, <2>2, StatusFacts, AppendEvent DEF LogInv
  <2>4. AnsweredOnce'
    BY <1>5, <2>2, StatusFacts, SettleNothing DEF LogInv
  <2>5. QED
    BY <2>1, <2>3, <2>4 DEF LogInv
<1>6. CASE Tick
  BY <1>6 DEF Tick, RowInv, LogInv, Numbered, InboxOrder, OneTurnPerMessage,
     ClaimHoldsNewestFence, UsageWithinReservation, EventLogGapless,
     AnsweredOnce, SettlingEvents
<1>7. QED
  BY <1>1, <1>2, <1>3, <1>4, <1>5, <1>6 DEF Next

(* InductiveInvariant: in every reachable state the inbox is served in     *)
(* order by one worker at a time under the newest fence, a message has one *)
(* turn, the event log has no gap, a turn is answered exactly once, and no *)
(* turn is charged beyond its reservation.                                 *)
THEOREM InductiveInvariant == Spec => []IInv
<1>1. Init => RowInv /\ LogInv
  <2> SUFFICES ASSUME Init PROVE RowInv /\ LogInv
    OBVIOUS
  <2>1. /\ \A t \in Turn : store.turns[t] = AbsentTurn
        /\ store.version = 0
        /\ store.lastPublicEventSequence = 0
        /\ log = {}
    BY DEF Init, CreateSnapshot
  <2>2. RowInv
    BY <2>1 DEF RowInv, Numbered, InboxOrder, OneTurnPerMessage,
       ClaimHoldsNewestFence, UsageWithinReservation, AbsentTurn, Fits,
       NoBudget, ActiveStatus
  <2>3. LogInv
    BY <2>1 DEF LogInv, EventLogGapless, AnsweredOnce, SettlingEvents,
       AbsentTurn, TerminalStatus
  <2>4. QED
    BY <2>2, <2>3
<1>2. TypeOK /\ RowInv /\ LogInv /\ [Next]_vars => (RowInv /\ LogInv)'
  <2> SUFFICES ASSUME TypeOK, RowInv, LogInv, UNCHANGED vars
               PROVE  (RowInv /\ LogInv)'
    BY StepInvariant
  <2>1. QED
    BY DEF vars, RowInv, LogInv, Numbered, InboxOrder, OneTurnPerMessage,
       ClaimHoldsNewestFence, UsageWithinReservation, EventLogGapless,
       AnsweredOnce, SettlingEvents
<1>3. TypeOK /\ RowInv /\ LogInv => IInv
  BY DEF IInv, RowInv, LogInv
<1>4. QED
  BY <1>1, <1>2, <1>3, TypeInvariant, PTL DEF Spec

(* InboxServedInOrder: one turn at a time runs, in the order received.     *)
THEOREM InboxServedInOrder == Spec => []InboxOrder
<1>1. IInv => InboxOrder
  BY DEF IInv
<1>2. QED
  BY <1>1, InductiveInvariant, PTL

(* MessagesHaveOneTurn: a resent client message never gets a second turn.  *)
THEOREM MessagesHaveOneTurn == Spec => []OneTurnPerMessage
<1>1. IInv => OneTurnPerMessage
  BY DEF IInv
<1>2. QED
  BY <1>1, InductiveInvariant, PTL

(* LogIsGapless: a reader that follows the cursor sees every commit once.  *)
THEOREM LogIsGapless == Spec => []EventLogGapless
<1>1. IInv => EventLogGapless
  BY DEF IInv
<1>2. QED
  BY <1>1, InductiveInvariant, PTL

(* RunningFenceIsNewest: no superseded fence ever belongs to a running     *)
(* turn.                                                                   *)
THEOREM RunningFenceIsNewest == Spec => []ClaimHoldsNewestFence
<1>1. IInv => ClaimHoldsNewestFence
  BY DEF IInv
<1>2. QED
  BY <1>1, InductiveInvariant, PTL

(* TurnsAnsweredOnce: the log settles a turn exactly when its row does.    *)
THEOREM TurnsAnsweredOnce == Spec => []AnsweredOnce
<1>1. IInv => AnsweredOnce
  BY DEF IInv
<1>2. QED
  BY <1>1, InductiveInvariant, PTL

(* ChargesWithinReservation: no turn is charged more than it reserved.     *)
THEOREM ChargesWithinReservation == Spec => []UsageWithinReservation
<1>1. IInv => UsageWithinReservation
  BY DEF IInv
<1>2. QED
  BY <1>1, InductiveInvariant, PTL

-----------------------------------------------------------------------------
(* BudgetStep: no operation loses any of the budget or makes more of it.   *)
LEMMA BudgetStep ==
  ASSUME IInv, BudgetConserved, [Next]_vars
  PROVE  BudgetConserved'
<1> USE DEF BudgetConserved
<1>1. /\ store \in Snapshot /\ TypeOK
      /\ \A t \in Turn : Uncharged(store.turns[t])
  <2>1. ASSUME NEW t \in Turn PROVE Uncharged(store.turns[t])
    <3>1. CASE store.turns[t].status = "absent"
      BY <3>1 DEF IInv, Numbered, Uncharged, AbsentTurn
    <3>2. CASE store.turns[t].status \in ActiveStatus
      BY <3>2 DEF IInv, UsageWithinReservation, Uncharged
    <3>3. store.turns[t].status \in TurnStatus
      BY RowTyped DEF IInv
    <3> QED BY <3>1, <3>2, <3>3 DEF TurnStatus, ActiveStatus, TerminalStatus, Uncharged
  <2> QED BY <2>1 DEF IInv, TypeOK
<1>2. ASSUME NEW t \in Turn, NEW m \in Message, NEW f \in Fingerprint,
             NEW b \in Reservation, Accept(t, m, f, b)
      PROVE  Conserved(store')
  BY <1>1, <1>2, AcceptConserves, AggregateAssumption DEF Accept, Apply
<1>3. ASSUME NEW now \in 0..(clock + MaxSkew), NEW t \in Turn,
             NEW fence \in Fence, Claim(t, fence, now)
      PROVE  Conserved(store')
  <2>1. now \in Nat /\ fence \in Nat
    BY <1>1, NowNat, AtomicAssumption
  <2> QED BY <1>1, <1>3, <2>1, ClaimConserves, AggregateAssumption DEF Claim, Apply
<1>4. ASSUME NEW now \in 0..(clock + MaxSkew), NEW t \in Turn,
             NEW fence \in Fence, NEW used \in Usage,
             NEW outcome \in Outcome, NEW receipt \in Receipts \cup {Nil},
             Complete(t, fence, outcome, used, receipt, now)
      PROVE  Conserved(store')
  <2>1. receipt = Nil \/ receipt \in Receipt
    BY AtomicAssumption
  <2> QED BY <1>1, <1>4, <2>1, CompleteConserves, AggregateAssumption DEF Complete, Apply
<1>5. ASSUME NEW now \in 0..(clock + MaxSkew), NEW t \in Turn,
             NEW fence \in Fence, NEW used \in Usage,
             NEW authority \in Authority,
             Cancel(t, authority, fence, used, now)
      PROVE  Conserved(store')
  BY <1>1, <1>5, CancelConserves, AggregateAssumption DEF Cancel, Apply
<1>6. CASE Close \/ Handoff
  BY <1>6, StatusConserves DEF Close, Handoff, Apply, CloseSession, RequestHandoff
<1>7. CASE Tick \/ UNCHANGED vars
  BY <1>7 DEF Tick, vars
<1>8. Conserved(store')
  BY <1>2, <1>3, <1>4, <1>5, <1>6, <1>7 DEF Next
<1> HIDE DEF BudgetConserved
<1> QED BY <1>8 DEF BudgetConserved

(* BudgetIsConserved: at every moment the session's budget is what remains *)
(* of it, what unsettled turns withhold and what settled ones were charged. *)
THEOREM BudgetIsConserved == Spec => []BudgetConserved
<1>1. Init => BudgetConserved
  BY CreateConserves, AggregateAssumption DEF Init, BudgetConserved
<1>2. IInv /\ BudgetConserved /\ [Next]_vars => BudgetConserved'
  BY BudgetStep
<1> QED BY <1>1, <1>2, InductiveInvariant, PTL DEF Spec

(* FinalStep: only an unsettled turn's row is ever rewritten.              *)
LEMMA FinalStep ==
  ASSUME IInv, [Next]_vars
  PROVE  \A t \in Turn : store.turns[t].status \in TerminalStatus =>
           store'.turns[t] = store.turns[t]
<1> USE DEF IInv
<1> SUFFICES ASSUME NEW u \in Turn, store.turns[u].status \in TerminalStatus
             PROVE  store'.turns[u] = store.turns[u]
  OBVIOUS
<1>0. RowInv
  BY DEF RowInv
<1>1. ASSUME NEW t \in Turn, NEW m \in Message, NEW f \in Fingerprint,
             NEW b \in Reservation, Accept(t, m, f, b)
      PROVE  store'.turns[u] = store.turns[u]
  BY <1>1, AcceptFacts DEF TerminalStatus
<1>2. ASSUME NEW now \in 0..(clock + MaxSkew), NEW t \in Turn,
             NEW fence \in Fence, Claim(t, fence, now)
      PROVE  store'.turns[u] = store.turns[u]
  <2>1. store.turns[t].status \in {"accepted", "claimed"}
    BY <1>2 DEF Claim, CanClaim, IsFirstClaimable, Claimable
  <2>2. QED
    BY <1>2, <2>1, ClaimFacts DEF TerminalStatus
<1>3. ASSUME NEW now \in 0..(clock + MaxSkew), NEW t \in Turn,
             NEW fence \in Fence, NEW used \in Usage,
             NEW outcome \in Outcome, NEW receipt \in Receipts \cup {Nil},
             Complete(t, fence, outcome, used, receipt, now)
      PROVE  store'.turns[u] = store.turns[u]
  BY <1>3, CompleteFacts DEF TerminalStatus
<1>4. ASSUME NEW now \in 0..(clock + MaxSkew), NEW t \in Turn,
             NEW fence \in Fence, NEW used \in Usage,
             NEW authority \in Authority,
             Cancel(t, authority, fence, used, now)
      PROVE  store'.turns[u] = store.turns[u]
  BY <1>4, CancelFacts DEF TerminalStatus, ActiveStatus
<1>5. CASE Close \/ Handoff
  BY <1>5, StatusFacts
<1>6. CASE Tick \/ UNCHANGED vars
  BY <1>6 DEF Tick, vars
<1>7. QED
  BY <1>1, <1>2, <1>3, <1>4, <1>5, <1>6 DEF Next

(* SettledTurnsAreFinal: whatever arrives late, whatever is retried, a     *)
(* settled turn keeps its answer, its usage and its receipt.               *)
THEOREM SettledTurnsAreFinal == Spec => SettledIsFinal
<1>1. IInv /\ [Next]_vars =>
        [\A t \in Turn : store.turns[t].status \in TerminalStatus =>
           store'.turns[t] = store.turns[t]]_store
  BY FinalStep
<1>2. QED
  BY <1>1, InductiveInvariant, PTL DEF Spec, SettledIsFinal

(* FenceStep: the watermark never falls, and a row that becomes or stays   *)
(* claimed while it changes carries a fence above the old watermark.       *)
LEMMA FenceStep ==
  ASSUME IInv, [Next]_vars
  PROVE  /\ store'.fencingTokenHighWatermark >= store.fencingTokenHighWatermark
         /\ \A t \in Turn :
              /\ store'.turns[t].status = "claimed"
              /\ store'.turns[t] # store.turns[t]
              => store'.turns[t].fencingToken > store.fencingTokenHighWatermark
<1> USE DEF IInv
<1> DEFINE Good ==
      /\ store'.fencingTokenHighWatermark >= store.fencingTokenHighWatermark
      /\ \A t \in Turn :
           /\ store'.turns[t].status = "claimed"
           /\ store'.turns[t] # store.turns[t]
           => store'.turns[t].fencingToken > store.fencingTokenHighWatermark
<1>0. RowInv /\ store.fencingTokenHighWatermark \in Nat
  BY DEF RowInv, TypeOK, Snapshot
<1>1. ASSUME NEW t \in Turn, NEW m \in Message, NEW f \in Fingerprint,
             NEW b \in Reservation, Accept(t, m, f, b)
      PROVE  Good
  BY <1>0, <1>1, AcceptFacts, AcceptedFields
<1>2. ASSUME NEW now \in 0..(clock + MaxSkew), NEW t \in Turn,
             NEW fence \in Fence, Claim(t, fence, now)
      PROVE  Good
  <2>1. fence > store.fencingTokenHighWatermark /\ fence \in Nat
    BY <1>2, AtomicAssumption DEF Claim, CanClaim
  <2>2. store'.turns[t].fencingToken = fence
    BY <1>2, ClaimFacts, ClaimedFields, RowTyped
  <2>3. QED
    BY <1>0, <1>2, <2>1, <2>2, ClaimFacts
<1>3. ASSUME NEW now \in 0..(clock + MaxSkew), NEW t \in Turn,
             NEW fence \in Fence, NEW used \in Usage,
             NEW outcome \in Outcome, NEW receipt \in Receipts \cup {Nil},
             Complete(t, fence, outcome, used, receipt, now)
      PROVE  Good
  <2>1. store'.turns[t].status # "claimed"
    BY <1>0, <1>3, CompleteSettles DEF TerminalStatus
  <2>2. QED
    BY <1>0, <1>3, <2>1, CompleteFacts
<1>4. ASSUME NEW now \in 0..(clock + MaxSkew), NEW t \in Turn,
             NEW fence \in Fence, NEW used \in Usage,
             NEW authority \in Authority,
             Cancel(t, authority, fence, used, now)
      PROVE  Good
  <2>1. store'.turns[t].status # "claimed"
    BY <1>0, <1>4, CancelSettles DEF TerminalStatus
  <2>2. QED
    BY <1>0, <1>4, <2>1, CancelFacts
<1>5. CASE Close \/ Handoff
  BY <1>0, <1>5, StatusFacts
<1>6. CASE Tick \/ UNCHANGED vars
  BY <1>0, <1>6 DEF Tick, vars
<1>7. QED
  BY <1>1, <1>2, <1>3, <1>4, <1>5, <1>6 DEF Next

(* FencesNeverReused: a worker whose claim was taken over can never again  *)
(* present the fence the store expects.                                    *)
THEOREM FencesNeverReused == Spec => FenceNeverReused
<1>1. IInv /\ [Next]_vars =>
        [/\ store'.fencingTokenHighWatermark >= store.fencingTokenHighWatermark
         /\ \A t \in Turn :
              /\ store'.turns[t].status = "claimed"
              /\ store'.turns[t] # store.turns[t]
              => store'.turns[t].fencingToken
                   > store.fencingTokenHighWatermark]_store
  BY FenceStep
<1>2. QED
  BY <1>1, InductiveInvariant, PTL DEF Spec, FenceNeverReused

=============================================================================
