------------------------ MODULE ConversationAggregate ------------------------
(***************************************************************************)
(* The conversation runtime aggregate of the engagement module: a snapshot *)
(* of one chat session and the pure transitions the application service    *)
(* applies to it before it asks the repository to commit the result.  A    *)
(* transition never touches the database; it maps a snapshot to the next   *)
(* snapshot and the single public event it emits.                          *)
(*                                                                         *)
(* Abstracted: identifiers, text, citations and digests are model values   *)
(* or left out, time is a natural number of ticks, a null claim is the     *)
(* fencing token 0 (real tokens are positive), and a release receipt keeps *)
(* only the fields its validation compares.                                *)
(***************************************************************************)
EXTENDS Integers, FiniteSets, Functions, FiniteSetTheorems,
        WellFoundedInduction, TLAPS

CONSTANTS
  Turn,           \* turn identifiers (ids.nextId('turn') never repeats one)
  Message,        \* client message identifiers
  Fingerprint,    \* digests of a message's content and budget
  Resource,       \* budget dimensions: model tokens, cost micros
  InitialBudget,  \* the budget a session is created with
  Reservation,    \* budgets a message may reserve
  Usage,          \* usages a worker may report
  LeaseDuration,  \* ticks a claim is granted for
  Nil             \* "null"

Budget == [Resource -> Nat]

ASSUME AggregateAssumption ==
  /\ IsFiniteSet(Turn)
  /\ Nil \notin Turn \cup Message \cup Fingerprint
  /\ InitialBudget \in Budget
  /\ \A b \in Reservation : b \in Budget /\ \A r \in Resource : b[r] > 0
  /\ \A u \in Usage : u \in Budget
  /\ LeaseDuration \in Nat \ {0}

SessionStatus == {"open", "handoff", "closed"}
TurnStatus ==
  {"absent", "accepted", "claimed", "completed", "cancelled", "handed_off"}
ActiveStatus == {"accepted", "claimed"}
TerminalStatus == {"completed", "cancelled", "handed_off"}

TurnRecord ==
  [status             : TurnStatus,
   receivedSequence   : Nat,
   clientMessageId    : Message \cup {Nil},
   requestFingerprint : Fingerprint \cup {Nil},
   budget             : Budget,
   usage              : Budget,
   fencingToken       : Nat,
   leaseExpiresAt     : Nat,
   receiptExpiresAt   : Nat]

Snapshot ==
  [status                    : SessionStatus,
   version                   : Nat,
   lastPublicEventSequence   : Nat,
   lastReceivedSequence      : Nat,
   fencingTokenHighWatermark : Nat,
   remaining                 : Budget,
   turns                     : [Turn -> TurnRecord]]

EventType ==
  {"message.accepted", "turn.processing", "turn.completed", "turn.cancelled",
   "handoff.requested", "session.closed"}
Event == [sequence : Nat, type : EventType, turn : Turn \cup {Nil}]

Outcome == {"answer", "clarification", "refusal", "handoff"}
Authority == {"customer", "system", "worker"}
Receipt == [conversationVersion : Nat, fencingToken : Nat, expiresAt : Nat]

NoBudget == [r \in Resource |-> 0]
Fits(used, reserved) == \A r \in Resource : used[r] <= reserved[r]
Reserve(available, reserved) ==
  [r \in Resource |-> available[r] - reserved[r]]
\* Fault: the usage is forgotten and the whole reservation handed back.
ReleaseWholeBudget(available, reserved, used) ==
  [r \in Resource |-> available[r] + reserved[r]]
\* Fault: the usage is withheld a second time instead of the rest returned.
ChargeUsageAgain(available, reserved, used) ==
  [r \in Resource |-> available[r] - used[r]]
ReleaseUnusedBudget(available, reserved, used) ==
  [r \in Resource |-> available[r] + reserved[r] - used[r]]

AbsentTurn ==
  [status |-> "absent", receivedSequence |-> 0, clientMessageId |-> Nil,
   requestFingerprint |-> Nil, budget |-> NoBudget, usage |-> NoBudget,
   fencingToken |-> 0, leaseExpiresAt |-> 0, receiptExpiresAt |-> 0]

CreateSnapshot ==
  [status |-> "open", version |-> 0, lastPublicEventSequence |-> 0,
   lastReceivedSequence |-> 0, fencingTokenHighWatermark |-> 0,
   remaining |-> InitialBudget, turns |-> [t \in Turn |-> AbsentTurn]]

-----------------------------------------------------------------------------
(* Every transition emits one event and moves both counters by one.        *)

\* Fault: the event takes the last sequence instead of the one after it.
LastEventAgain(s, type, t) ==
  [sequence |-> s.lastPublicEventSequence, type |-> type, turn |-> t]
NextEvent(s, type, t) ==
  [sequence |-> s.lastPublicEventSequence + 1, type |-> type, turn |-> t]

Advance(s, status, remaining, received, watermark, turns) ==
  [status                    |-> status,
   version                   |-> s.version + 1,
   lastPublicEventSequence   |-> s.lastPublicEventSequence + 1,
   lastReceivedSequence      |-> received,
   fencingTokenHighWatermark |-> watermark,
   remaining                 |-> remaining,
   turns                     |-> turns]

(* acceptMessage: the inbox append, with the whole reservation withheld.   *)
\* Fault: the reservation is not compared with what remains.
CanAcceptOverBudget(s, t, b) ==
  s.status = "open" /\ s.turns[t].status = "absent"
CanAccept(s, t, b) ==
  /\ s.status = "open"
  /\ s.turns[t].status = "absent"
  /\ Fits(b, s.remaining)

AcceptedTurn(s, m, f, b) ==
  [AbsentTurn EXCEPT !.status = "accepted",
                     !.receivedSequence = s.lastReceivedSequence + 1,
                     !.clientMessageId = m,
                     !.requestFingerprint = f,
                     !.budget = b]

AcceptMessage(s, t, m, f, b) ==
  Advance(s, s.status, Reserve(s.remaining, b), s.lastReceivedSequence + 1,
          s.fencingTokenHighWatermark,
          [s.turns EXCEPT ![t] = AcceptedTurn(s, m, f, b)])

(* claimTurn: the head of the inbox, under a new fence and a lease.        *)
ClaimLive(turn, now) == turn.status = "claimed" /\ turn.leaseExpiresAt > now
\* Fault: a running turn is never offered again.
ClaimableOnce(turn, now) == turn.status = "accepted"
\* Fault: a running turn is offered again before its lease has lapsed.
ClaimableAnyTime(turn, now) == turn.status \in ActiveStatus
Claimable(turn, now) ==
  \/ turn.status = "accepted"
  \/ turn.status = "claimed" /\ turn.leaseExpiresAt <= now

\* Fault: any claimable turn may be taken, not the first received.
IsAnyClaimable(s, t, now) == Claimable(s.turns[t], now)
IsFirstClaimable(s, t, now) ==
  /\ Claimable(s.turns[t], now)
  /\ \A u \in Turn : Claimable(s.turns[u], now) =>
       s.turns[t].receivedSequence <= s.turns[u].receivedSequence

\* Fault: a claim may take over under the fence it takes over from.
CanClaimSameFence(s, t, fence, now) ==
  /\ s.status = "open"
  /\ \A u \in Turn \ {t} : ~ClaimLive(s.turns[u], now)
  /\ fence >= s.fencingTokenHighWatermark
  /\ IsFirstClaimable(s, t, now)
CanClaim(s, t, fence, now) ==
  /\ s.status = "open"
  /\ \A u \in Turn \ {t} : ~ClaimLive(s.turns[u], now)
  /\ fence > s.fencingTokenHighWatermark
  /\ IsFirstClaimable(s, t, now)

ClaimedTurn(turn, fence, now) ==
  [turn EXCEPT !.status = "claimed", !.fencingToken = fence,
               !.leaseExpiresAt = now + LeaseDuration]

ClaimTurn(s, t, fence, now) ==
  Advance(s, s.status, s.remaining, s.lastReceivedSequence, fence,
          [s.turns EXCEPT ![t] = ClaimedTurn(s.turns[t], fence, now)])

(* assertCurrentClaim: the newest fence, and a lease that has not lapsed.  *)
HasCurrentClaim(s, t, fence, now) ==
  /\ s.turns[t].status = "claimed"
  /\ s.turns[t].fencingToken = fence
  /\ fence >= s.fencingTokenHighWatermark
  /\ s.turns[t].leaseExpiresAt > now

(* validateReleaseCommitReceipt: bound to this version and fence, unexpired *)
ValidReceipt(s, receipt, fence, now) ==
  receipt # Nil => /\ receipt.conversationVersion = s.version
                   /\ receipt.fencingToken = fence
                   /\ receipt.expiresAt > now

SettledTurn(turn, status, used, receiptExpiresAt) ==
  [turn EXCEPT !.status = status, !.usage = used, !.fencingToken = 0,
               !.leaseExpiresAt = 0, !.receiptExpiresAt = receiptExpiresAt]

(* completeTurn: only the current claim may finish a turn.  The session is *)
(* not required to be open.                                                *)
CanComplete(s, t, fence, used, receipt, now) ==
  /\ HasCurrentClaim(s, t, fence, now)
  /\ Fits(used, s.turns[t].budget)
  /\ ValidReceipt(s, receipt, fence, now)

\* Fault: a handoff leaves the turn running.
CompletedTurnUnlessHandoff(turn, outcome, used, receipt) ==
  IF outcome = "handoff" THEN turn
  ELSE SettledTurn(turn, "completed", used, turn.receiptExpiresAt)
CompletedTurn(turn, outcome, used, receipt) ==
  SettledTurn(turn,
    IF outcome = "handoff" THEN "handed_off" ELSE "completed",
    used,
    IF receipt = Nil THEN turn.receiptExpiresAt ELSE receipt.expiresAt)

CompleteTurn(s, t, outcome, used, receipt) ==
  Advance(s, IF outcome = "handoff" THEN "handoff" ELSE s.status,
          ReleaseUnusedBudget(s.remaining, s.turns[t].budget, used),
          s.lastReceivedSequence, s.fencingTokenHighWatermark,
          [s.turns EXCEPT ![t] =
             CompletedTurn(s.turns[t], outcome, used, receipt)])

CompletionEventType(outcome) ==
  IF outcome = "handoff" THEN "handoff.requested" ELSE "turn.completed"

(* cancelTurn: a worker needs its claim and reports usage; a customer or   *)
(* the system does not, and a running turn is then charged in full.        *)
CancelUsage(turn, authority, used) ==
  IF authority = "worker" THEN used
  ELSE IF turn.status = "accepted" THEN NoBudget
  ELSE turn.budget

\* Fault: a settled turn may still be cancelled.
CanCancelSettled(s, t, authority, fence, used, now) ==
  /\ s.turns[t].status # "absent"
  /\ authority = "worker" =>
       /\ HasCurrentClaim(s, t, fence, now)
       /\ Fits(used, s.turns[t].budget)
CanCancel(s, t, authority, fence, used, now) ==
  /\ s.turns[t].status \in ActiveStatus
  /\ authority = "worker" =>
       /\ HasCurrentClaim(s, t, fence, now)
       /\ Fits(used, s.turns[t].budget)

CancelledTurn(turn, authority, used) ==
  SettledTurn(turn, "cancelled", CancelUsage(turn, authority, used),
              turn.receiptExpiresAt)

CancelTurn(s, t, authority, used) ==
  Advance(s, s.status,
          ReleaseUnusedBudget(s.remaining, s.turns[t].budget,
                              CancelUsage(s.turns[t], authority, used)),
          s.lastReceivedSequence, s.fencingTokenHighWatermark,
          [s.turns EXCEPT ![t] = CancelledTurn(s.turns[t], authority, used)])

(* closeSession and requestHandoff touch no turn.                          *)
CanClose(s) == s.status # "closed"
CanRequestHandoff(s) == s.status = "open"

SetStatus(s, status) ==
  Advance(s, status, s.remaining, s.lastReceivedSequence,
          s.fencingTokenHighWatermark, s.turns)
CloseSession(s) == SetStatus(s, "closed")
RequestHandoff(s) == SetStatus(s, "handoff")

-----------------------------------------------------------------------------
(* Where the session's budget is: with the turns, which withhold their     *)
(* reservation until they settle and their charge from then on, or left.   *)

Withheld(turn, r) ==
  IF turn.status \in ActiveStatus THEN turn.budget[r] ELSE turn.usage[r]
WithheldBy(turns, r) == SumFunctionOnSet([t \in Turn |-> Withheld(turns[t], r)], Turn)
Conserved(s) ==
  \A r \in Resource : s.remaining[r] + WithheldBy(s.turns, r) = InitialBudget[r]

(* A turn that has not settled is charged nothing.                         *)
Uncharged(turn) == turn.status \notin TerminalStatus => turn.usage = NoBudget

-----------------------------------------------------------------------------
(* Lemmas: every transition maps a well-formed snapshot to a well-formed   *)
(* snapshot, which says above all that no budget counter goes below zero.  *)

(* CreateType: a new session's snapshot is well formed.                    *)
LEMMA CreateType == CreateSnapshot \in Snapshot
BY AggregateAssumption
   DEF CreateSnapshot, Snapshot, SessionStatus, AbsentTurn, TurnRecord,
       TurnStatus, NoBudget, Budget

(* ReserveType: withholding a reservation that fits leaves a budget.       *)
LEMMA ReserveType ==
  ASSUME NEW a \in Budget, NEW b \in Budget, Fits(b, a)
  PROVE  Reserve(a, b) \in Budget
BY DEF Reserve, Budget, Fits

(* ReleaseType: releasing what a usage within the reservation left unused  *)
(* leaves a budget.                                                        *)
LEMMA ReleaseType ==
  ASSUME NEW a \in Budget, NEW b \in Budget, NEW u \in Budget, Fits(u, b)
  PROVE  ReleaseUnusedBudget(a, b, u) \in Budget
BY DEF ReleaseUnusedBudget, Budget, Fits

(* TurnOf: a turn row of a well-formed snapshot is a turn record.          *)
LEMMA TurnOf ==
  ASSUME NEW s \in Snapshot, NEW t \in Turn
  PROVE  s.turns[t] \in TurnRecord
BY DEF Snapshot

(* AdvanceType: a transition built from well-formed parts is well formed.  *)
LEMMA AdvanceType ==
  ASSUME NEW s \in Snapshot, NEW status \in SessionStatus,
         NEW remaining \in Budget, NEW received \in Nat,
         NEW watermark \in Nat, NEW turns \in [Turn -> TurnRecord]
  PROVE  Advance(s, status, remaining, received, watermark, turns) \in Snapshot
BY DEF Advance, Snapshot

(* RowType: replacing one turn row by a turn record keeps the rows typed.  *)
LEMMA RowType ==
  ASSUME NEW s \in Snapshot, NEW t \in Turn, NEW row \in TurnRecord
  PROVE  [s.turns EXCEPT ![t] = row] \in [Turn -> TurnRecord]
BY DEF Snapshot

(* AcceptedFields: the row acceptMessage writes.                           *)
LEMMA AcceptedFields ==
  ASSUME NEW s, NEW m, NEW f, NEW b
  PROVE  /\ AcceptedTurn(s, m, f, b).status = "accepted"
         /\ AcceptedTurn(s, m, f, b).receivedSequence
              = s.lastReceivedSequence + 1
         /\ AcceptedTurn(s, m, f, b).clientMessageId = m
         /\ AcceptedTurn(s, m, f, b).usage = NoBudget
         /\ AcceptedTurn(s, m, f, b).budget = b
<1> DEFINE next == s.lastReceivedSequence + 1
<1>1. AcceptedTurn(s, m, f, b) =
        [AbsentTurn EXCEPT !.status = "accepted", !.receivedSequence = next,
                           !.clientMessageId = m, !.requestFingerprint = f,
                           !.budget = b]
  BY DEF AcceptedTurn
<1>2. next = s.lastReceivedSequence + 1
  OBVIOUS
<1> HIDE DEF next
<1>3. QED
  BY <1>1, <1>2 DEF AbsentTurn

(* ClaimedFields: the row claimTurn writes.                                *)
LEMMA ClaimedFields ==
  ASSUME NEW turn \in TurnRecord, NEW fence, NEW now
  PROVE  /\ ClaimedTurn(turn, fence, now).status = "claimed"
         /\ ClaimedTurn(turn, fence, now).receivedSequence
              = turn.receivedSequence
         /\ ClaimedTurn(turn, fence, now).clientMessageId
              = turn.clientMessageId
         /\ ClaimedTurn(turn, fence, now).usage = turn.usage
         /\ ClaimedTurn(turn, fence, now).budget = turn.budget
         /\ ClaimedTurn(turn, fence, now).fencingToken = fence
<1> DEFINE deadline == now + LeaseDuration
<1>1. ClaimedTurn(turn, fence, now) =
        [turn EXCEPT !.status = "claimed", !.fencingToken = fence,
                     !.leaseExpiresAt = deadline]
  BY DEF ClaimedTurn
<1> HIDE DEF deadline
<1>2. QED
  BY <1>1 DEF TurnRecord

(* AcceptType: acceptMessage keeps the snapshot well formed.               *)
LEMMA AcceptType ==
  ASSUME NEW s \in Snapshot, NEW t \in Turn, NEW m \in Message,
         NEW f \in Fingerprint, NEW b \in Reservation, CanAccept(s, t, b)
  PROVE  AcceptMessage(s, t, m, f, b) \in Snapshot
<1>1. b \in Budget /\ NoBudget \in Budget
  BY AggregateAssumption DEF NoBudget, Budget
<1>2. Reserve(s.remaining, b) \in Budget
  BY <1>1, ReserveType DEF CanAccept, Snapshot
<1>3. /\ s.lastReceivedSequence + 1 \in Nat
      /\ s.fencingTokenHighWatermark \in Nat
      /\ s.status \in SessionStatus
  BY DEF Snapshot
<1>4. AcceptedTurn(s, m, f, b) \in TurnRecord
  BY <1>1, <1>3 DEF AcceptedTurn, AbsentTurn, TurnRecord, TurnStatus
<1>5. QED
  BY <1>2, <1>3, <1>4, RowType, AdvanceType DEF AcceptMessage

(* ClaimType: claimTurn keeps the snapshot well formed.                    *)
LEMMA ClaimType ==
  ASSUME NEW s \in Snapshot, NEW t \in Turn, NEW fence \in Nat, NEW now \in Nat
  PROVE  ClaimTurn(s, t, fence, now) \in Snapshot
<1>1. s.turns[t] \in TurnRecord
  BY TurnOf
<1>2. now + LeaseDuration \in Nat
  BY AggregateAssumption
<1>3. ClaimedTurn(s.turns[t], fence, now) \in TurnRecord
  <2> DEFINE expiry == now + LeaseDuration
  <2> HIDE DEF expiry
  <2>1. expiry \in Nat
    BY <1>2 DEF expiry
  <2>2. [s.turns[t] EXCEPT !.status = "claimed", !.fencingToken = fence,
                           !.leaseExpiresAt = expiry] \in TurnRecord
    BY <1>1, <2>1 DEF TurnRecord, TurnStatus
  <2>3. QED
    BY <2>2 DEF ClaimedTurn, expiry
<1>4. /\ s.lastReceivedSequence \in Nat
      /\ s.remaining \in Budget
      /\ s.status \in SessionStatus
  BY DEF Snapshot
<1>5. QED
  BY <1>3, <1>4, RowType, AdvanceType DEF ClaimTurn

(* SettledType: a settled turn row is a turn record.                       *)
LEMMA SettledType ==
  ASSUME NEW turn \in TurnRecord, NEW status \in TurnStatus,
         NEW u \in Budget, NEW n \in Nat
  PROVE  SettledTurn(turn, status, u, n) \in TurnRecord
BY DEF SettledTurn, TurnRecord

(* CompletedType: the row completeTurn writes is a turn record.            *)
LEMMA CompletedType ==
  ASSUME NEW turn \in TurnRecord, NEW outcome, NEW u \in Budget, NEW receipt,
         receipt = Nil \/ receipt \in Receipt
  PROVE  CompletedTurn(turn, outcome, u, receipt) \in TurnRecord
<1> DEFINE status == IF outcome = "handoff" THEN "handed_off" ELSE "completed"
           expiry == IF receipt = Nil THEN turn.receiptExpiresAt
                     ELSE receipt.expiresAt
<1>1. status \in TurnStatus
  BY DEF TurnStatus
<1>2. expiry \in Nat
  BY DEF TurnRecord, Receipt
<1>3. QED
  BY <1>1, <1>2, SettledType DEF CompletedTurn

(* CompleteType: completeTurn keeps the snapshot well formed.              *)
LEMMA CompleteType ==
  ASSUME NEW s \in Snapshot, NEW t \in Turn, NEW fence, NEW outcome,
         NEW u \in Usage, NEW receipt, receipt = Nil \/ receipt \in Receipt,
         NEW now, CanComplete(s, t, fence, u, receipt, now)
  PROVE  CompleteTurn(s, t, outcome, u, receipt) \in Snapshot
<1> DEFINE status == IF outcome = "handoff" THEN "handoff" ELSE s.status
<1>1. u \in Budget /\ s.turns[t] \in TurnRecord /\ s.turns[t].budget \in Budget
  BY AggregateAssumption, TurnOf DEF TurnRecord
<1>2. ReleaseUnusedBudget(s.remaining, s.turns[t].budget, u) \in Budget
  BY <1>1, ReleaseType DEF CanComplete, Snapshot
<1>3. CompletedTurn(s.turns[t], outcome, u, receipt) \in TurnRecord
  BY <1>1, CompletedType
<1>4. /\ s.lastReceivedSequence \in Nat
      /\ s.fencingTokenHighWatermark \in Nat
      /\ status \in SessionStatus
  BY DEF Snapshot, SessionStatus
<1>5. QED
  BY <1>2, <1>3, <1>4, RowType, AdvanceType DEF CompleteTurn

(* CancelUsageFits: whoever cancels, the charge is within the reservation. *)
LEMMA CancelUsageFits ==
  ASSUME NEW s \in Snapshot, NEW t \in Turn, NEW authority, NEW fence,
         NEW u \in Usage, NEW now, CanCancel(s, t, authority, fence, u, now)
  PROVE  /\ CancelUsage(s.turns[t], authority, u) \in Budget
         /\ Fits(CancelUsage(s.turns[t], authority, u), s.turns[t].budget)
<1>1. u \in Budget /\ s.turns[t].budget \in Budget /\ NoBudget \in Budget
  BY AggregateAssumption, TurnOf DEF TurnRecord, NoBudget, Budget
<1>2. CASE authority = "worker"
  BY <1>1, <1>2 DEF CancelUsage, CanCancel
<1>3. CASE authority # "worker"
  BY <1>1, <1>3 DEF CancelUsage, Fits, Budget, NoBudget
<1>4. QED
  BY <1>2, <1>3

(* CancelType: cancelTurn keeps the snapshot well formed.                  *)
LEMMA CancelType ==
  ASSUME NEW s \in Snapshot, NEW t \in Turn, NEW authority, NEW fence,
         NEW u \in Usage, NEW now, CanCancel(s, t, authority, fence, u, now)
  PROVE  CancelTurn(s, t, authority, u) \in Snapshot
<1> DEFINE charged == CancelUsage(s.turns[t], authority, u)
<1>1. charged \in Budget /\ Fits(charged, s.turns[t].budget)
  BY CancelUsageFits
<1>2. s.turns[t] \in TurnRecord /\ s.turns[t].budget \in Budget
  BY TurnOf DEF TurnRecord
<1>3. ReleaseUnusedBudget(s.remaining, s.turns[t].budget, charged) \in Budget
  BY <1>1, <1>2, ReleaseType DEF Snapshot
<1>4. CancelledTurn(s.turns[t], authority, u) \in TurnRecord
  BY <1>1, <1>2, SettledType DEF CancelledTurn, TurnRecord, TurnStatus
<1>5. /\ s.lastReceivedSequence \in Nat
      /\ s.fencingTokenHighWatermark \in Nat
      /\ s.status \in SessionStatus
  BY DEF Snapshot
<1>6. QED
  BY <1>3, <1>4, <1>5, RowType, AdvanceType DEF CancelTurn

(* StatusType: closing or handing off keeps the snapshot well formed.      *)
LEMMA StatusType ==
  ASSUME NEW s \in Snapshot, NEW status \in SessionStatus
  PROVE  SetStatus(s, status) \in Snapshot
BY AdvanceType DEF SetStatus, Snapshot

-----------------------------------------------------------------------------
(* Lemmas about sums.  SumFunctionOnSet is a fold, which takes out one     *)
(* element after the other.  What it adds up to is shown by the least      *)
(* number of elements for which it would not.                              *)

\* A set of naturals has a least element.
LEMMA LeastOf ==
  ASSUME NEW T, T \subseteq Nat, T # {}
  PROVE  \E n \in T : \A m \in T : n <= m
<1> DEFINE Lower == OpToRel(<, Nat)
<1>1. \A m, n \in Nat : m < n => <<m, n>> \in Lower
  BY DEF OpToRel
<1>2. IsWellFoundedOn(Lower, Nat)
  BY NatLessThanWellFounded
<1> HIDE DEF Lower
<1>3. PICK n \in T : \A m \in T : <<m, n>> \notin Lower
  BY <1>2, WFMin
<1>4. n \in Nat /\ \A m \in T : m \in Nat /\ ~(m < n)
  BY <1>1, <1>3
<1> QED BY <1>4

\* The element a sum takes out first, and the equation of the function that sums.
Pick(s) == CHOOSE x \in s : TRUE
Sums(f, S, g) ==
  g = [s \in SUBSET S |-> IF s = {} THEN 0 ELSE f[Pick(s)] + g[s \ {Pick(s)}]]
\* The same for the sets of n elements at most.
SumsTo(f, S, n, g) ==
  \A s \in SUBSET S : Cardinality(s) <= n =>
    g[s] = IF s = {} THEN 0 ELSE f[Pick(s)] + g[s \ {Pick(s)}]

LEMMA Unfold == ASSUME NEW f, NEW S PROVE SumFunctionOnSet(f, S) = (CHOOSE g : Sums(f, S, g))[S]
BY DEF SumFunctionOnSet, FoldFunctionOnSet, MapThenFoldSet, Sums, Pick

\* What is taken out leaves one element less.
LEMMA Taken ==
  ASSUME NEW S, IsFiniteSet(S), NEW s \in SUBSET S, s # {}
  PROVE  /\ Pick(s) \in s /\ s \ {Pick(s)} \in SUBSET S /\ IsFiniteSet(s)
         /\ Cardinality(s) \in Nat \ {0}
         /\ Cardinality(s \ {Pick(s)}) = Cardinality(s) - 1
<1>1. IsFiniteSet(s)
  BY FS_Subset
<1>2. Pick(s) \in s
  BY DEF Pick
<1>3. Cardinality(s) \in Nat /\ Cardinality(s) # 0
  BY <1>1, FS_CardinalityType, FS_EmptySet
<1>4. Cardinality(s \ {Pick(s)}) = Cardinality(s) - 1
  BY <1>1, <1>2, FS_RemoveElement
<1> QED BY <1>1, <1>2, <1>3, <1>4

LEMMA SumsExist ==
  ASSUME NEW f, NEW S, IsFiniteSet(S)
  PROVE  \E g : Sums(f, S, g)
<1> DEFINE Missing == {n \in Nat : ~ \E g : SumsTo(f, S, n, g)}
<1>1. Missing = {}
  <2> SUFFICES ASSUME Missing # {} PROVE FALSE
    OBVIOUS
  <2>1. PICK n \in Missing : \A m \in Missing : n <= m
    <3>1. Missing \subseteq Nat
      OBVIOUS
    <3> HIDE DEF Missing
    <3> QED BY <3>1, LeastOf
  <2>2. n # 0
    <3> DEFINE z == [s \in SUBSET S |-> 0]
    <3>1. \A s \in SUBSET S : Cardinality(s) <= 0 => s = {}
      BY FS_Subset, FS_CardinalityType, FS_EmptySet
    <3>2. SumsTo(f, S, 0, z)
      BY <3>1 DEF SumsTo
    <3> HIDE DEF z
    <3> QED BY <3>2
  <2>3. n \in Nat /\ n - 1 \in Nat /\ n - 1 \notin Missing
    BY <2>1, <2>2
  <2>4. PICK g : SumsTo(f, S, n - 1, g)
    BY <2>3
  <2> DEFINE h == [s \in SUBSET S |-> IF Cardinality(s) <= n - 1 THEN g[s]
                                      ELSE f[Pick(s)] + g[s \ {Pick(s)}]]
  <2>5. ASSUME NEW s \in SUBSET S, Cardinality(s) <= n
        PROVE  h[s] = IF s = {} THEN 0 ELSE f[Pick(s)] + h[s \ {Pick(s)}]
    <3>1. CASE s = {}
      <4>1. Cardinality(s) = 0
        BY <3>1, FS_EmptySet
      <4>2. h[s] = g[s]
        BY <4>1, <2>3
      <4>3. g[s] = 0
        <5>1. Cardinality(s) <= n - 1
          BY <4>1, <2>3
        <5> HIDE DEF Missing, h
        <5> QED BY <5>1, <2>4, <3>1 DEF SumsTo
      <4> QED BY <3>1, <4>2, <4>3
    <3>2. CASE s # {}
      <4> DEFINE r == s \ {Pick(s)}
      <4>1. /\ r \in SUBSET S /\ Cardinality(s) \in Nat \ {0}
            /\ Cardinality(r) = Cardinality(s) - 1
        BY <3>2, Taken
      <4>2. h[r] = g[r]
        BY <4>1, <2>3, <2>5
      <4>3. CASE Cardinality(s) <= n - 1
        <5>1. g[s] = f[Pick(s)] + g[r]
          BY <4>3, <2>4, <3>2 DEF SumsTo
        <5> QED BY <3>2, <4>2, <4>3, <5>1
      <4>4. CASE ~(Cardinality(s) <= n - 1)
        BY <3>2, <4>2, <4>4
      <4> QED BY <4>3, <4>4
    <3> QED BY <3>1, <3>2
  <2>6. SumsTo(f, S, n, h)
    <3> HIDE DEF h
    <3> QED BY <2>5 DEF SumsTo
  <2> HIDE DEF h
  <2> QED BY <2>6, <2>1
<1>2. Cardinality(S) \in Nat
  BY FS_CardinalityType
<1>3. PICK g : SumsTo(f, S, Cardinality(S), g)
  BY <1>1, <1>2
<1> DEFINE h == [s \in SUBSET S |-> g[s]]
<1>4. ASSUME NEW s \in SUBSET S
      PROVE  h[s] = IF s = {} THEN 0 ELSE f[Pick(s)] + h[s \ {Pick(s)}]
  <2>1. Cardinality(s) <= Cardinality(S)
    BY FS_Subset
  <2>2. s \ {Pick(s)} \in SUBSET S
    OBVIOUS
  <2> QED BY <1>3, <2>1, <2>2 DEF SumsTo
<1>5. Sums(f, S, h)
  <2>1. h = [s \in SUBSET S |-> h[s]]
    OBVIOUS
  <2> HIDE DEF h
  <2> QED BY <1>4, <2>1 DEF Sums
<1> QED BY <1>5

\* Two functions that sum agree wherever both do.
LEMMA SumsAgree ==
  ASSUME NEW f, NEW S, IsFiniteSet(S), NEW T \in SUBSET S, NEW g, NEW h,
         Sums(f, S, g), Sums(f, T, h)
  PROVE  g[T] = h[T]
<1> DEFINE Apart == {n \in Nat : \E s \in SUBSET T : Cardinality(s) = n /\ g[s] # h[s]}
<1>1. \A s \in SUBSET T :
        /\ g[s] = IF s = {} THEN 0 ELSE f[Pick(s)] + g[s \ {Pick(s)}]
        /\ h[s] = IF s = {} THEN 0 ELSE f[Pick(s)] + h[s \ {Pick(s)}]
  <2>1. \A s \in SUBSET T : s \in SUBSET S
    OBVIOUS
  <2> QED BY <2>1 DEF Sums
<1>2. IsFiniteSet(T)
  BY FS_Subset
<1>3. Apart = {}
  <2> SUFFICES ASSUME Apart # {} PROVE FALSE
    OBVIOUS
  <2>1. PICK n \in Apart : \A m \in Apart : n <= m
    <3>1. Apart \subseteq Nat
      OBVIOUS
    <3> HIDE DEF Apart
    <3> QED BY <3>1, LeastOf
  <2>2. PICK s \in SUBSET T : Cardinality(s) = n /\ g[s] # h[s]
    BY <2>1
  <2>3. s # {}
    BY <1>1, <2>2
  <2> DEFINE r == s \ {Pick(s)}
  <2>4. r \in SUBSET T /\ Cardinality(s) \in Nat \ {0} /\ Cardinality(r) = Cardinality(s) - 1
    BY <1>2, <2>3, Taken
  <2>5. g[r] = h[r]
    <3>1. g[r] # h[r] => Cardinality(r) \in Apart
      <4>1. r \in SUBSET T /\ Cardinality(r) \in Nat
        BY <2>4
      <4> HIDE DEF r
      <4> QED BY <4>1
    <3> HIDE DEF Apart, r
    <3> QED BY <2>1, <2>2, <2>4, <3>1
  <2> QED BY <1>1, <2>2, <2>3, <2>5
<1>4. Cardinality(T) \in Nat
  BY <1>2, FS_CardinalityType
<1> QED BY <1>3, <1>4

\* What a sum is: nothing of the empty set, and of any other set the value of the
\* element that is taken out first and the sum of the rest.
LEMMA SumUnfolds ==
  ASSUME NEW f, NEW S, IsFiniteSet(S)
  PROVE  /\ S = {} => SumFunctionOnSet(f, S) = 0
         /\ S # {} => SumFunctionOnSet(f, S)
                       = f[Pick(S)] + SumFunctionOnSet(f, S \ {Pick(S)})
<1>1. PICK g : g = CHOOSE x : Sums(f, S, x)
  OBVIOUS
<1>2. Sums(f, S, g) /\ SumFunctionOnSet(f, S) = g[S]
  BY <1>1, SumsExist, Unfold
<1> DEFINE R == S \ {Pick(S)}
<1>3. PICK h : h = CHOOSE x : Sums(f, R, x)
  OBVIOUS
<1>4. IsFiniteSet(R)
  BY FS_Subset
<1>5. Sums(f, R, h) /\ SumFunctionOnSet(f, R) = h[R]
  BY <1>3, <1>4, SumsExist, Unfold
<1>6. g[R] = h[R]
  BY <1>2, <1>5, SumsAgree
<1>7. S \in SUBSET S
  OBVIOUS
<1>8. g[S] = IF S = {} THEN 0 ELSE f[Pick(S)] + g[R]
  BY <1>2, <1>7 DEF Sums
<1> QED BY <1>2, <1>5, <1>6, <1>8

\* A sum of naturals is a natural.
LEMMA SumType ==
  ASSUME NEW S, IsFiniteSet(S), NEW f, \A x \in S : f[x] \in Nat
  PROVE  SumFunctionOnSet(f, S) \in Nat
<1> DEFINE Bad == {n \in Nat : \E s \in SUBSET S :
                     Cardinality(s) = n /\ SumFunctionOnSet(f, s) \notin Nat}
<1>1. Bad = {}
  <2> SUFFICES ASSUME Bad # {} PROVE FALSE
    OBVIOUS
  <2>1. PICK n \in Bad : \A m \in Bad : n <= m
    <3>1. Bad \subseteq Nat
      OBVIOUS
    <3> HIDE DEF Bad
    <3> QED BY <3>1, LeastOf
  <2>2. PICK s \in SUBSET S : Cardinality(s) = n /\ SumFunctionOnSet(f, s) \notin Nat
    BY <2>1
  <2>3. IsFiniteSet(s)
    BY FS_Subset
  <2>4. s # {}
    <3>1. s = {} => SumFunctionOnSet(f, s) = 0
      BY <2>3, SumUnfolds
    <3> HIDE DEF Bad
    <3> QED BY <2>2, <3>1
  <2> DEFINE r == s \ {Pick(s)}
  <2>5. /\ r \in SUBSET S /\ Cardinality(s) \in Nat \ {0} /\ Pick(s) \in s
        /\ Cardinality(r) = Cardinality(s) - 1
    BY <2>4, Taken
  <2>6. SumFunctionOnSet(f, r) \in Nat
    <3>1. SumFunctionOnSet(f, r) \notin Nat => Cardinality(r) \in Bad
      BY <2>5
    <3> HIDE DEF Bad, r
    <3> QED BY <2>1, <2>2, <2>5, <3>1
  <2>7. SumFunctionOnSet(f, s) = f[Pick(s)] + SumFunctionOnSet(f, r)
    BY <2>3, <2>4, SumUnfolds
  <2> QED BY <2>2, <2>5, <2>6, <2>7
<1>2. Cardinality(S) \in Nat
  BY FS_CardinalityType
<1> QED BY <1>1, <1>2

\* Any element may be the one that is taken out.
LEMMA SumTakes ==
  ASSUME NEW S, IsFiniteSet(S), NEW f, \A x \in S : f[x] \in Nat
  PROVE  \A x \in S : SumFunctionOnSet(f, S) = f[x] + SumFunctionOnSet(f, S \ {x})
<1> DEFINE Fair(s) ==
      \A x \in s : SumFunctionOnSet(f, s) = f[x] + SumFunctionOnSet(f, s \ {x})
<1> DEFINE Bad == {n \in Nat : \E s \in SUBSET S : Cardinality(s) = n /\ ~Fair(s)}
<1>1. Bad = {}
  <2> SUFFICES ASSUME Bad # {} PROVE FALSE
    OBVIOUS
  <2>1. PICK n \in Bad : \A m \in Bad : n <= m
    <3>1. Bad \subseteq Nat
      OBVIOUS
    <3> HIDE DEF Bad
    <3> QED BY <3>1, LeastOf
  <2>2. PICK s \in SUBSET S : Cardinality(s) = n /\ ~Fair(s)
    BY <2>1
  <2>3. PICK x \in s : SumFunctionOnSet(f, s) # f[x] + SumFunctionOnSet(f, s \ {x})
    BY <2>2
  <2>4. IsFiniteSet(s) /\ s # {}
    BY FS_Subset
  <2> DEFINE y == Pick(s)
             r == s \ {x}
             q == s \ {y}
             p == s \ {x, y}
  <2>5. /\ y \in s /\ q \in SUBSET S /\ Cardinality(s) \in Nat \ {0}
        /\ Cardinality(q) = Cardinality(s) - 1
    BY <2>4, Taken
  <2>6. SumFunctionOnSet(f, s) = f[y] + SumFunctionOnSet(f, q)
    BY <2>4, SumUnfolds
  <2>7. x # y
    BY <2>3, <2>6
  <2>8. r \in SUBSET S /\ IsFiniteSet(r) /\ IsFiniteSet(p) /\ Cardinality(r) = Cardinality(s) - 1
    BY <2>4, FS_Subset, FS_RemoveElement
  <2>9. Fair(r) /\ Fair(q)
    <3>1. /\ ~Fair(r) => Cardinality(r) \in Bad
          /\ ~Fair(q) => Cardinality(q) \in Bad
      <4>1. /\ r \in SUBSET S /\ Cardinality(r) \in Nat
            /\ q \in SUBSET S /\ Cardinality(q) \in Nat
        BY <2>5, <2>8
      <4> HIDE DEF r, q, Fair
      <4> QED BY <4>1
    <3> HIDE DEF Bad, r, q, Fair
    <3> QED BY <2>1, <2>2, <2>5, <2>8, <3>1
  <2>10. /\ SumFunctionOnSet(f, r) = f[y] + SumFunctionOnSet(f, p)
         /\ SumFunctionOnSet(f, q) = f[x] + SumFunctionOnSet(f, p)
    <3>1. y \in r /\ r \ {y} = p /\ x \in q /\ q \ {x} = p
      BY <2>5, <2>7
    <3> HIDE DEF r, q, p
    <3> QED BY <2>9, <3>1
  <2>11. SumFunctionOnSet(f, p) \in Nat /\ f[x] \in Nat /\ f[y] \in Nat
    <3>1. \A z \in p : f[z] \in Nat
      OBVIOUS
    <3>2. x \in S /\ y \in S
      BY <2>5
    <3> HIDE DEF p, y
    <3> QED BY <2>8, <3>1, <3>2, SumType
  <2> HIDE DEF r, q, p, y
  <2> QED BY <2>3, <2>6, <2>10, <2>11 DEF r
<1>2. Cardinality(S) \in Nat
  BY FS_CardinalityType
<1> QED BY <1>1, <1>2

\* Sums of functions that agree are the same.
LEMMA SumAgrees ==
  ASSUME NEW S, IsFiniteSet(S), NEW f, NEW h, \A x \in S : f[x] = h[x]
  PROVE  SumFunctionOnSet(f, S) = SumFunctionOnSet(h, S)
<1> DEFINE Bad == {n \in Nat : \E s \in SUBSET S :
                     Cardinality(s) = n /\ SumFunctionOnSet(f, s) # SumFunctionOnSet(h, s)}
<1>1. Bad = {}
  <2> SUFFICES ASSUME Bad # {} PROVE FALSE
    OBVIOUS
  <2>1. PICK n \in Bad : \A m \in Bad : n <= m
    <3>1. Bad \subseteq Nat
      OBVIOUS
    <3> HIDE DEF Bad
    <3> QED BY <3>1, LeastOf
  <2>2. PICK s \in SUBSET S :
          Cardinality(s) = n /\ SumFunctionOnSet(f, s) # SumFunctionOnSet(h, s)
    BY <2>1
  <2>3. IsFiniteSet(s)
    BY FS_Subset
  <2>4. s # {}
    BY <2>2, <2>3, SumUnfolds
  <2> DEFINE r == s \ {Pick(s)}
  <2>5. /\ r \in SUBSET S /\ Cardinality(s) \in Nat \ {0} /\ Pick(s) \in s
        /\ Cardinality(r) = Cardinality(s) - 1
    BY <2>4, Taken
  <2>6. SumFunctionOnSet(f, r) = SumFunctionOnSet(h, r)
    <3>1. SumFunctionOnSet(f, r) # SumFunctionOnSet(h, r) => Cardinality(r) \in Bad
      BY <2>5
    <3> HIDE DEF Bad, r
    <3> QED BY <2>1, <2>2, <2>5, <3>1
  <2>7. /\ SumFunctionOnSet(f, s) = f[Pick(s)] + SumFunctionOnSet(f, r)
        /\ SumFunctionOnSet(h, s) = h[Pick(s)] + SumFunctionOnSet(h, r)
    BY <2>3, <2>4, SumUnfolds
  <2> QED BY <2>2, <2>5, <2>6, <2>7
<1>2. Cardinality(S) \in Nat
  BY FS_CardinalityType
<1> QED BY <1>1, <1>2

\* Where two functions differ at one element only, their sums differ as much.
LEMMA SumChanges ==
  ASSUME NEW S, IsFiniteSet(S), NEW f, NEW h, NEW x \in S,
         \A y \in S : f[y] \in Nat /\ h[y] \in Nat,
         \A y \in S \ {x} : h[y] = f[y]
  PROVE  /\ SumFunctionOnSet(f, S) \in Nat /\ SumFunctionOnSet(h, S) \in Nat
         /\ SumFunctionOnSet(h, S) = SumFunctionOnSet(f, S) + h[x] - f[x]
<1> DEFINE R == S \ {x}
<1>1. IsFiniteSet(R)
  BY FS_Subset
<1>2. SumFunctionOnSet(f, R) = SumFunctionOnSet(h, R)
  BY <1>1, SumAgrees
<1>3. SumFunctionOnSet(f, R) \in Nat
  BY <1>1, SumType
<1>4. /\ SumFunctionOnSet(f, S) = f[x] + SumFunctionOnSet(f, R)
      /\ SumFunctionOnSet(h, S) = h[x] + SumFunctionOnSet(h, R)
  BY SumTakes
<1> QED BY <1>2, <1>3, <1>4

\* A sum of zeros is zero.
LEMMA SumOfNone ==
  ASSUME NEW S, IsFiniteSet(S), NEW f, \A x \in S : f[x] = 0
  PROVE  SumFunctionOnSet(f, S) = 0
<1> DEFINE Bad == {n \in Nat : \E s \in SUBSET S :
                     Cardinality(s) = n /\ SumFunctionOnSet(f, s) # 0}
<1>1. Bad = {}
  <2> SUFFICES ASSUME Bad # {} PROVE FALSE
    OBVIOUS
  <2>1. PICK n \in Bad : \A m \in Bad : n <= m
    <3>1. Bad \subseteq Nat
      OBVIOUS
    <3> HIDE DEF Bad
    <3> QED BY <3>1, LeastOf
  <2>2. PICK s \in SUBSET S : Cardinality(s) = n /\ SumFunctionOnSet(f, s) # 0
    BY <2>1
  <2>3. IsFiniteSet(s)
    BY FS_Subset
  <2>4. s # {}
    <3>1. s = {} => SumFunctionOnSet(f, s) = 0
      BY <2>3, SumUnfolds
    <3> HIDE DEF Bad
    <3> QED BY <2>2, <3>1
  <2> DEFINE r == s \ {Pick(s)}
  <2>5. /\ r \in SUBSET S /\ Cardinality(s) \in Nat \ {0} /\ Pick(s) \in s
        /\ Cardinality(r) = Cardinality(s) - 1
    BY <2>4, Taken
  <2>6. SumFunctionOnSet(f, r) = 0
    <3>1. SumFunctionOnSet(f, r) # 0 => Cardinality(r) \in Bad
      <4>1. r \in SUBSET S /\ Cardinality(r) \in Nat
        BY <2>5
      <4> HIDE DEF r
      <4> QED BY <4>1
    <3> HIDE DEF Bad, r
    <3> QED BY <2>1, <2>2, <2>5, <3>1
  <2>7. SumFunctionOnSet(f, s) = f[Pick(s)] + SumFunctionOnSet(f, r)
    BY <2>3, <2>4, SumUnfolds
  <2> QED BY <2>2, <2>5, <2>6, <2>7
<1>2. Cardinality(S) \in Nat
  BY FS_CardinalityType
<1> QED BY <1>1, <1>2

\* A sum over fewer elements, each with less, is less.
LEMMA SumFits ==
  ASSUME NEW S, IsFiniteSet(S), NEW T \in SUBSET S, NEW f, NEW h,
         \A x \in S : f[x] \in Nat /\ h[x] \in Nat, \A x \in T : f[x] <= h[x]
  PROVE  SumFunctionOnSet(f, T) <= SumFunctionOnSet(h, S)
<1> DEFINE Low(s) == SumFunctionOnSet(f, T \cap s) <= SumFunctionOnSet(h, s)
<1> DEFINE Bad == {n \in Nat : \E s \in SUBSET S : Cardinality(s) = n /\ ~Low(s)}
<1>1. Bad = {}
  <2> SUFFICES ASSUME Bad # {} PROVE FALSE
    OBVIOUS
  <2>1. PICK n \in Bad : \A m \in Bad : n <= m
    <3>1. Bad \subseteq Nat
      OBVIOUS
    <3> HIDE DEF Bad
    <3> QED BY <3>1, LeastOf
  <2>2. PICK s \in SUBSET S : Cardinality(s) = n /\ ~Low(s)
    BY <2>1
  <2>3. IsFiniteSet(s) /\ IsFiniteSet(T \cap s)
    BY FS_Subset
  <2>4. s # {}
    <3> SUFFICES ASSUME s = {} PROVE FALSE
      OBVIOUS
    <3>1. T \cap s = {}
      OBVIOUS
    <3>2. SumFunctionOnSet(h, s) = 0 /\ SumFunctionOnSet(f, T \cap s) = 0
      BY <2>3, <3>1, SumUnfolds
    <3> HIDE DEF Bad
    <3> QED BY <2>2, <3>2
  <2> DEFINE y == Pick(s)
             r == s \ {y}
  <2>5. /\ r \in SUBSET S /\ Cardinality(s) \in Nat \ {0} /\ y \in s /\ y \in S
        /\ Cardinality(r) = Cardinality(s) - 1 /\ IsFiniteSet(r)
    BY <2>4, Taken, FS_Subset
  <2>6. Low(r)
    <3>1. ~Low(r) => Cardinality(r) \in Bad
      <4>1. r \in SUBSET S /\ Cardinality(r) \in Nat
        BY <2>5
      <4> HIDE DEF r, Low
      <4> QED BY <4>1
    <3> HIDE DEF Bad, r, Low
    <3> QED BY <2>1, <2>2, <2>5, <3>1
  <2>7. SumFunctionOnSet(h, s) = h[y] + SumFunctionOnSet(h, r)
    <3> HIDE DEF Bad, Low
    <3> QED BY <2>3, <2>4, SumUnfolds
  <2>8. SumFunctionOnSet(h, r) \in Nat /\ SumFunctionOnSet(f, T \cap r) \in Nat
    <3>1. IsFiniteSet(T \cap r) /\ \A x \in r : x \in S
      BY <2>5, FS_Subset
    <3> HIDE DEF Bad, Low, r
    <3> QED BY <2>5, <3>1, SumType
  <2>9. CASE y \in T
    <3>1. y \in T \cap s /\ (T \cap s) \ {y} = T \cap r
      BY <2>5, <2>9
    <3>2. \A x \in T \cap s : f[x] \in Nat
      OBVIOUS
    <3> HIDE DEF Bad, r, y
    <3>3. SumFunctionOnSet(f, T \cap s) = f[y] + SumFunctionOnSet(f, T \cap r)
      BY <2>3, <3>1, <3>2, SumTakes
    <3>4. f[y] <= h[y] /\ f[y] \in Nat /\ h[y] \in Nat
      BY <2>5, <2>9
    <3> QED BY <2>2, <2>6, <2>7, <2>8, <3>3, <3>4
  <2>10. CASE y \notin T
    <3>1. T \cap s = T \cap r /\ h[y] \in Nat
      BY <2>5, <2>10
    <3> HIDE DEF Bad, r, y
    <3> QED BY <2>2, <2>6, <2>7, <2>8, <3>1
  <2> QED BY <2>9, <2>10
<1>2. Cardinality(S) \in Nat
  BY FS_CardinalityType
<1>3. Low(S)
  <2> HIDE DEF Low
  <2> QED BY <1>1, <1>2
<1>4. T \cap S = T
  OBVIOUS
<1> QED BY <1>3, <1>4

-----------------------------------------------------------------------------
(* Lemmas about the budget: no transition loses any of it or makes more.   *)

\* What a turn withholds, of its reservation or its charge, is a natural.
LEMMA WithheldType ==
  ASSUME NEW turn \in TurnRecord, NEW r \in Resource
  PROVE  Withheld(turn, r) \in Nat
BY DEF Withheld, TurnRecord, Budget

\* A snapshot in which one turn withholds as much more as remains less.
LEMMA ConservedBy ==
  ASSUME AggregateAssumption, NEW s \in Snapshot, NEW n \in Snapshot, NEW t \in Turn,
         Conserved(s), \A u \in Turn \ {t} : n.turns[u] = s.turns[u],
         \A r \in Resource : n.remaining[r] + Withheld(n.turns[t], r)
                             = s.remaining[r] + Withheld(s.turns[t], r)
  PROVE  Conserved(n)
<1> SUFFICES ASSUME NEW r \in Resource
             PROVE  n.remaining[r] + WithheldBy(n.turns, r) = InitialBudget[r]
  BY DEF Conserved
<1> DEFINE f == [u \in Turn |-> Withheld(s.turns[u], r)]
           h == [u \in Turn |-> Withheld(n.turns[u], r)]
<1>1. \A u \in Turn : s.turns[u] \in TurnRecord /\ n.turns[u] \in TurnRecord
  BY TurnOf
<1>2. \A u \in Turn : f[u] \in Nat /\ h[u] \in Nat
  BY <1>1, WithheldType
<1>3. \A u \in Turn \ {t} : h[u] = f[u]
  OBVIOUS
<1>4. IsFiniteSet(Turn)
  BY DEF AggregateAssumption
<1>5. /\ f[t] = Withheld(s.turns[t], r) /\ h[t] = Withheld(n.turns[t], r)
      /\ WithheldBy(s.turns, r) = SumFunctionOnSet(f, Turn)
      /\ WithheldBy(n.turns, r) = SumFunctionOnSet(h, Turn)
  BY DEF WithheldBy
<1> HIDE DEF f, h
<1>6. /\ SumFunctionOnSet(f, Turn) \in Nat /\ SumFunctionOnSet(h, Turn) \in Nat
      /\ SumFunctionOnSet(h, Turn) = SumFunctionOnSet(f, Turn) + h[t] - f[t]
  BY <1>2, <1>3, <1>4, SumChanges
<1>7. s.remaining[r] \in Nat /\ n.remaining[r] \in Nat
  BY DEF Snapshot, Budget
<1>8. s.remaining[r] + SumFunctionOnSet(f, Turn) = InitialBudget[r]
  BY <1>5 DEF Conserved
<1> QED BY <1>2, <1>5, <1>6, <1>7, <1>8

\* A new session has all of it.
LEMMA CreateConserves ==
  ASSUME AggregateAssumption
  PROVE  Conserved(CreateSnapshot)
<1> SUFFICES ASSUME NEW r \in Resource
             PROVE  CreateSnapshot.remaining[r] + WithheldBy(CreateSnapshot.turns, r)
                    = InitialBudget[r]
  BY DEF Conserved
<1> DEFINE f == [t \in Turn |-> Withheld(CreateSnapshot.turns[t], r)]
<1>1. \A t \in Turn : f[t] = 0
  BY DEF CreateSnapshot, AbsentTurn, Withheld, ActiveStatus, NoBudget
<1>2. WithheldBy(CreateSnapshot.turns, r) = SumFunctionOnSet(f, Turn)
  BY DEF WithheldBy
<1> HIDE DEF f
<1>3. SumFunctionOnSet(f, Turn) = 0
  BY <1>1, SumOfNone DEF AggregateAssumption
<1>4. CreateSnapshot.remaining[r] = InitialBudget[r] /\ InitialBudget[r] \in Nat
  BY DEF CreateSnapshot, AggregateAssumption, Budget
<1> QED BY <1>2, <1>3, <1>4

\* acceptMessage withholds the reservation of a turn that withheld nothing.
LEMMA AcceptConserves ==
  ASSUME AggregateAssumption, NEW s \in Snapshot, NEW t \in Turn, NEW m \in Message,
         NEW f \in Fingerprint, NEW b \in Reservation, CanAccept(s, t, b),
         Conserved(s), Uncharged(s.turns[t])
  PROVE  Conserved(AcceptMessage(s, t, m, f, b))
<1> DEFINE n == AcceptMessage(s, t, m, f, b)
<1>1. n \in Snapshot
  BY AcceptType
<1>2. s.turns \in [Turn -> TurnRecord]
  BY DEF Snapshot
<1>3. /\ n.turns[t] = AcceptedTurn(s, m, f, b) /\ n.remaining = Reserve(s.remaining, b)
      /\ \A u \in Turn \ {t} : n.turns[u] = s.turns[u]
  BY <1>2 DEF AcceptMessage, Advance
<1>4. n.turns[t].status = "accepted" /\ n.turns[t].budget = b
  BY <1>3, AcceptedFields
<1> HIDE DEF n
<1>5. ASSUME NEW r \in Resource
      PROVE  n.remaining[r] + Withheld(n.turns[t], r)
             = s.remaining[r] + Withheld(s.turns[t], r)
  <2>1. Withheld(n.turns[t], r) = b[r]
    BY <1>4 DEF Withheld, ActiveStatus
  <2>2. Withheld(s.turns[t], r) = 0
    BY DEF CanAccept, Withheld, ActiveStatus, TerminalStatus, Uncharged, NoBudget
  <2>3. s.remaining[r] \in Nat /\ b[r] \in Nat
    BY DEF Snapshot, Budget, AggregateAssumption
  <2>4. n.remaining[r] = s.remaining[r] - b[r]
    BY <1>3 DEF Reserve
  <2> QED BY <2>1, <2>2, <2>3, <2>4
<1>6. Conserved(n)
  BY <1>1, <1>3, <1>5, ConservedBy
<1> QED BY <1>6 DEF n

\* claimTurn withholds what was withheld.
LEMMA ClaimConserves ==
  ASSUME AggregateAssumption, NEW s \in Snapshot, NEW t \in Turn, NEW fence \in Nat,
         NEW now \in Nat, CanClaim(s, t, fence, now), Conserved(s)
  PROVE  Conserved(ClaimTurn(s, t, fence, now))
<1> DEFINE n == ClaimTurn(s, t, fence, now)
<1>1. n \in Snapshot
  BY ClaimType
<1>2. s.turns \in [Turn -> TurnRecord]
  BY DEF Snapshot
<1>3. /\ n.turns[t] = ClaimedTurn(s.turns[t], fence, now) /\ n.remaining = s.remaining
      /\ \A u \in Turn \ {t} : n.turns[u] = s.turns[u]
  BY <1>2 DEF ClaimTurn, Advance
<1>4. n.turns[t].status = "claimed" /\ n.turns[t].budget = s.turns[t].budget
  BY <1>2, <1>3, ClaimedFields
<1>5. s.turns[t].status \in ActiveStatus
  BY DEF CanClaim, IsFirstClaimable, Claimable, ActiveStatus
<1> HIDE DEF n
<1>6. \A r \in Resource : Withheld(n.turns[t], r) = Withheld(s.turns[t], r)
  BY <1>4, <1>5 DEF Withheld, ActiveStatus
<1>7. Conserved(n)
  BY <1>1, <1>3, <1>6, ConservedBy
<1> QED BY <1>7 DEF n

\* A settlement gives back what its charge leaves of the reservation.
LEMMA SettlementConserves ==
  ASSUME AggregateAssumption, NEW s \in Snapshot, NEW n \in Snapshot, NEW t \in Turn,
         NEW used \in Budget, Conserved(s), s.turns[t].status \in ActiveStatus,
         n.turns[t].status \in TerminalStatus, n.turns[t].usage = used,
         n.remaining = ReleaseUnusedBudget(s.remaining, s.turns[t].budget, used),
         \A u \in Turn \ {t} : n.turns[u] = s.turns[u]
  PROVE  Conserved(n)
<1>1. ASSUME NEW r \in Resource
      PROVE  n.remaining[r] + Withheld(n.turns[t], r)
             = s.remaining[r] + Withheld(s.turns[t], r)
  <2>1. Withheld(n.turns[t], r) = used[r] /\ Withheld(s.turns[t], r) = s.turns[t].budget[r]
    BY DEF Withheld, ActiveStatus, TerminalStatus
  <2>2. s.remaining[r] \in Nat /\ used[r] \in Nat /\ s.turns[t].budget[r] \in Nat
    BY TurnOf DEF Snapshot, Budget, TurnRecord
  <2>3. n.remaining[r] = s.remaining[r] + s.turns[t].budget[r] - used[r]
    BY DEF ReleaseUnusedBudget
  <2> QED BY <2>1, <2>2, <2>3
<1> QED BY <1>1, ConservedBy

LEMMA SettledTurnFields ==
  ASSUME NEW turn \in TurnRecord, NEW status, NEW used, NEW expiry
  PROVE  /\ SettledTurn(turn, status, used, expiry).status = status
         /\ SettledTurn(turn, status, used, expiry).usage = used
         /\ SettledTurn(turn, status, used, expiry).budget = turn.budget
BY DEF SettledTurn, TurnRecord

LEMMA CompleteConserves ==
  ASSUME AggregateAssumption, NEW s \in Snapshot, NEW t \in Turn, NEW fence, NEW outcome,
         NEW u \in Usage, NEW receipt, receipt = Nil \/ receipt \in Receipt,
         NEW now, CanComplete(s, t, fence, u, receipt, now), Conserved(s)
  PROVE  Conserved(CompleteTurn(s, t, outcome, u, receipt))
<1> DEFINE n == CompleteTurn(s, t, outcome, u, receipt)
           status == IF outcome = "handoff" THEN "handed_off" ELSE "completed"
           expiry == IF receipt = Nil THEN s.turns[t].receiptExpiresAt ELSE receipt.expiresAt
<1>1. n \in Snapshot /\ u \in Budget
  BY CompleteType DEF AggregateAssumption
<1>2. s.turns \in [Turn -> TurnRecord]
  BY DEF Snapshot
<1>3. /\ n.turns[t] = SettledTurn(s.turns[t], status, u, expiry)
      /\ n.remaining = ReleaseUnusedBudget(s.remaining, s.turns[t].budget, u)
      /\ \A v \in Turn \ {t} : n.turns[v] = s.turns[v]
  BY <1>2 DEF CompleteTurn, CompletedTurn, Advance
<1>4. status \in TerminalStatus /\ s.turns[t].status \in ActiveStatus
  BY DEF TerminalStatus, ActiveStatus, CanComplete, HasCurrentClaim
<1> HIDE DEF n, status, expiry
<1>5. n.turns[t].status = status /\ n.turns[t].usage = u
  BY <1>2, <1>3, SettledTurnFields
<1>6. Conserved(n)
  BY <1>1, <1>3, <1>4, <1>5, SettlementConserves
<1> QED BY <1>6 DEF n

LEMMA CancelConserves ==
  ASSUME AggregateAssumption, NEW s \in Snapshot, NEW t \in Turn, NEW authority, NEW fence,
         NEW u \in Usage, NEW now, CanCancel(s, t, authority, fence, u, now), Conserved(s)
  PROVE  Conserved(CancelTurn(s, t, authority, u))
<1> DEFINE n == CancelTurn(s, t, authority, u)
           charged == CancelUsage(s.turns[t], authority, u)
<1>1. n \in Snapshot /\ charged \in Budget
  BY CancelType, CancelUsageFits
<1>2. s.turns \in [Turn -> TurnRecord]
  BY DEF Snapshot
<1>3. /\ n.turns[t] = SettledTurn(s.turns[t], "cancelled", charged, s.turns[t].receiptExpiresAt)
      /\ n.remaining = ReleaseUnusedBudget(s.remaining, s.turns[t].budget, charged)
      /\ \A v \in Turn \ {t} : n.turns[v] = s.turns[v]
  BY <1>2 DEF CancelTurn, CancelledTurn, Advance
<1>4. s.turns[t].status \in ActiveStatus /\ "cancelled" \in TerminalStatus
  BY DEF CanCancel, TerminalStatus
<1> HIDE DEF n, charged
<1>5. n.turns[t].status = "cancelled" /\ n.turns[t].usage = charged
  BY <1>2, <1>3, SettledTurnFields
<1>6. Conserved(n)
  BY <1>1, <1>3, <1>4, <1>5, SettlementConserves
<1> QED BY <1>6 DEF n

LEMMA StatusConserves ==
  ASSUME NEW s, NEW status, Conserved(s)
  PROVE  Conserved(SetStatus(s, status))
<1>1. SetStatus(s, status).remaining = s.remaining /\ SetStatus(s, status).turns = s.turns
  BY DEF SetStatus, Advance
<1> QED BY <1>1 DEF Conserved

=============================================================================
