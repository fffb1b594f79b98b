-------------------------- MODULE EngagementProofs --------------------------
(***************************************************************************)
(* What the two timers of the engagement module promise, for every inbox,  *)
(* every number of processes, turns and rows and every limit.  The         *)
(* dispatcher comes first: its invariant is the order of the inbox and an  *)
(* account of the claims, in which every claim but a turn's first was paid *)
(* for by a fault or by a client's command.  The outbox has an account of  *)
(* its attempts.  The last section puts the timers together and proves the *)
(* properties of MCEngagement.                                             *)
(***************************************************************************)
EXTENDS MCEngagement, FiniteSetTheorems, TLAPS

-----------------------------------------------------------------------------
(* The dispatcher of turns.                                                *)

\* The rows of the dispatcher, and of each process what it does.
DispatchTypes ==
  /\ store \in Snapshot /\ clock \in Nat /\ attempts \in [Turn -> Nat]
  /\ work \in [Worker -> {Idle} \cup Busy] /\ faults \in 0..MaxFaults

\* The types are those of the component.
LEMMA DispatchTyped == DispatchTypes => DispatchTypeOK
BY DEF DispatchTypes, DispatchTypeOK

\* What a row of the inbox may be.
LEMMA InboxRow ==
  ASSUME DispatchTypes, NEW t \in Turn
  PROVE  /\ store.turns[t] \in TurnRecord
         /\ store.turns[t].status \in TurnStatus
         /\ store.turns[t].receivedSequence \in Nat
         /\ store.turns[t].fencingToken \in Nat
         /\ store.turns[t].leaseExpiresAt \in Nat
         /\ store.turns[t].budget \in Budget
         /\ store.lastReceivedSequence \in Nat
         /\ store.fencingTokenHighWatermark \in Nat
         /\ store.version \in Nat
<1>1. store \in Snapshot
  BY DEF DispatchTypes
<1>2. store.turns[t] \in TurnRecord
  BY <1>1, TurnOf
<1> QED BY <1>1, <1>2 DEF TurnRecord, Snapshot

\* A process that is not idle has a turn in hand.
LEMMA AtWork ==
  ASSUME DispatchTypes, NEW w \in Worker, work[w].pc # "idle"
  PROVE  work[w] \in Busy /\ work[w].turn \in Turn /\ work[w].fence \in Nat
         /\ work[w].version \in Nat /\ work[w].contextFence \in Nat
<1>1. work[w] \in {Idle} \cup Busy
  BY DEF DispatchTypes
<1>2. work[w] \in Busy
  BY <1>1 DEF Idle
<1> QED BY <1>2 DEF Busy

\* A process that goes on changes its own record only.
LEMMA WorkMoves ==
  ASSUME DispatchTypes, NEW w \in Worker, NEW next \in {Idle} \cup Busy, Become(w, next)
  PROVE  /\ work' \in [Worker -> {Idle} \cup Busy] /\ work'[w] = next
         /\ \A v \in Worker \ {w} : work'[v] = work[v]
BY DEF DispatchTypes, Become

\* What the ways of going on leave in the record.
LEMMA WorkGoes ==
  ASSUME DispatchTypes, NEW w \in Worker, work[w].pc # "idle", NEW pc \in Pc, Goto(w, pc)
  PROVE  /\ work' \in [Worker -> {Idle} \cup Busy]
         /\ work'[w] = [work[w] EXCEPT !.pc = pc]
         /\ work'[w].pc = pc /\ work'[w].turn = work[w].turn /\ work'[w].fence = work[w].fence
         /\ work'[w].version = work[w].version
         /\ work'[w].disposition = work[w].disposition
         /\ work'[w].contextFence = work[w].contextFence
         /\ work'[w].attempts = work[w].attempts
         /\ \A v \in Worker \ {w} : work'[v] = work[v]
<1> DEFINE next == [work[w] EXCEPT !.pc = pc]
<1>1. work[w] \in Busy
  BY AtWork
<1>2. /\ next \in Busy /\ next.pc = pc /\ next.turn = work[w].turn /\ next.fence = work[w].fence
      /\ next.version = work[w].version /\ next.disposition = work[w].disposition
      /\ next.contextFence = work[w].contextFence /\ next.attempts = work[w].attempts
  BY <1>1 DEF Busy
<1>3. Become(w, next)
  BY DEF Goto
<1> HIDE DEF next
<1>4. /\ work' \in [Worker -> {Idle} \cup Busy] /\ work'[w] = next
      /\ \A v \in Worker \ {w} : work'[v] = work[v]
  BY <1>2, <1>3, WorkMoves
<1> QED BY <1>2, <1>4 DEF next

\* A process that fails keeps its turn and fence and notes the disposition.
LEMMA WorkFails ==
  ASSUME DispatchTypes, NEW w \in Worker, work[w].pc # "idle", NEW d \in Dispositions, Fail(w, d)
  PROVE  /\ work' \in [Worker -> {Idle} \cup Busy]
         /\ work'[w].pc = "failing" /\ work'[w].turn = work[w].turn /\ work'[w].fence = work[w].fence
         /\ work'[w].disposition = d /\ work'[w].attempts = work[w].attempts
         /\ \A v \in Worker \ {w} : work'[v] = work[v]
<1> DEFINE next == [work[w] EXCEPT !.pc = "failing", !.disposition = d]
<1>1. work[w] \in Busy
  BY AtWork
<1>2. /\ next \in Busy /\ next.pc = "failing" /\ next.turn = work[w].turn /\ next.fence = work[w].fence
      /\ next.disposition = d /\ next.attempts = work[w].attempts
  BY <1>1 DEF Busy, Pc
<1>3. Become(w, next)
  BY DEF Fail
<1> HIDE DEF next
<1>4. /\ work' \in [Worker -> {Idle} \cup Busy] /\ work'[w] = next
      /\ \A v \in Worker \ {w} : work'[v] = work[v]
  BY <1>2, <1>3, WorkMoves
<1> QED BY <1>2, <1>4

\* The record after the context was read, for the call or for the refusal.
LEMMA WorkReads ==
  ASSUME DispatchTypes, NEW w \in Worker, work[w].pc # "idle", NEW pc \in Pc,
         Become(w, [work[w] EXCEPT !.pc = pc, !.version = store.version,
                                   !.contextFence = RowOf(w).fencingToken])
  PROVE  /\ work' \in [Worker -> {Idle} \cup Busy]
         /\ work'[w].pc = pc /\ work'[w].turn = work[w].turn /\ work'[w].fence = work[w].fence
         /\ work'[w].version = store.version
         /\ work'[w].contextFence = store.turns[work[w].turn].fencingToken
         /\ \A v \in Worker \ {w} : work'[v] = work[v]
<1> DEFINE next == [work[w] EXCEPT !.pc = pc, !.version = store.version,
                                   !.contextFence = RowOf(w).fencingToken]
<1>1. work[w] \in Busy /\ work[w].turn \in Turn
  BY AtWork
<1>2. store.version \in Nat /\ RowOf(w).fencingToken \in Nat
  BY <1>1, InboxRow DEF RowOf
<1>3. /\ next \in Busy /\ next.pc = pc /\ next.turn = work[w].turn /\ next.fence = work[w].fence
      /\ next.version = store.version /\ next.contextFence = RowOf(w).fencingToken
  BY <1>1, <1>2 DEF Busy
<1>4. Become(w, next)
  OBVIOUS
<1> HIDE DEF next
<1>5. /\ work' \in [Worker -> {Idle} \cup Busy] /\ work'[w] = next
      /\ \A v \in Worker \ {w} : work'[v] = work[v]
  BY <1>3, <1>4, WorkMoves
<1> QED BY <1>3, <1>5 DEF RowOf

-----------------------------------------------------------------------------
(* What a commit does to the snapshot.                                     *)

\* One commit: the version moves by one, and of the rows only t's changes.
Commits(received, watermark) ==
  /\ store' \in Snapshot /\ store'.version = store.version + 1
  /\ store'.lastReceivedSequence = received
  /\ store'.fencingTokenHighWatermark = watermark
Rewrites(t) == \A u \in Turn \ {t} : store'.turns[u] = store.turns[u]

\* A message is appended to the inbox.
Appends(t) ==
  /\ Commits(store.lastReceivedSequence + 1, store.fencingTokenHighWatermark) /\ Rewrites(t)
  /\ store.turns[t].status = "absent" /\ store'.turns[t].status = "accepted"
  /\ store'.turns[t].receivedSequence = store.lastReceivedSequence + 1
\* The first turn of the inbox is claimed under a new fence.
Grants(t, fence) ==
  /\ Commits(store.lastReceivedSequence, fence) /\ Rewrites(t)
  /\ CanClaim(store, t, fence, clock)
  /\ store'.turns[t].status = "claimed"
  /\ store'.turns[t].receivedSequence = store.turns[t].receivedSequence
  /\ store'.turns[t].fencingToken = fence /\ store'.turns[t].leaseExpiresAt > clock
\* A turn is settled.
Settles(t) ==
  /\ Commits(store.lastReceivedSequence, store.fencingTokenHighWatermark) /\ Rewrites(t)
  /\ store.turns[t].status \in ActiveStatus /\ store'.turns[t].status \in TerminalStatus
  /\ store'.turns[t].receivedSequence = store.turns[t].receivedSequence
\* The session is closed or handed off.
Marks ==
  /\ Commits(store.lastReceivedSequence, store.fencingTokenHighWatermark)
  /\ store'.turns = store.turns

\* An accepted message is one more turn, after every turn accepted before it.
LEMMA AcceptAppends ==
  ASSUME DispatchTypes, ClientAccept
  PROVE  \E t \in Turn : Appends(t)
<1>0. store \in Snapshot
  BY DEF DispatchTypes
<1>1. PICK t \in Turn, m \in Message, f \in Fingerprint, b \in Reservation :
        CanAccept(store, t, b) /\ store' = AcceptMessage(store, t, m, f, b)
  BY DEF ClientAccept
<1>2. store' \in Snapshot
  BY <1>0, <1>1, AcceptType
<1>3. store.turns \in [Turn -> TurnRecord]
  BY <1>0 DEF Snapshot
<1>4. /\ store'.version = store.version + 1
      /\ store'.lastReceivedSequence = store.lastReceivedSequence + 1
      /\ store'.fencingTokenHighWatermark = store.fencingTokenHighWatermark
      /\ store'.turns = [store.turns EXCEPT ![t] = AcceptedTurn(store, m, f, b)]
  BY <1>1 DEF AcceptMessage, Advance
<1>5. store'.turns[t] = AcceptedTurn(store, m, f, b) /\ Rewrites(t)
  BY <1>3, <1>4 DEF Rewrites
<1>6. store'.turns[t].status = "accepted"
      /\ store'.turns[t].receivedSequence = store.lastReceivedSequence + 1
  BY <1>5, AcceptedFields
<1> QED BY <1>1, <1>2, <1>4, <1>5, <1>6 DEF Appends, Commits, CanAccept

\* A claim gives its row the fence and moves the watermark there.
LEMMA ClaimGrants ==
  ASSUME DispatchTypes, NEW t \in Turn, NEW fence \in Nat, CanClaim(store, t, fence, clock),
         store' = ClaimTurn(store, t, fence, clock)
  PROVE  Grants(t, fence)
<1>0. store \in Snapshot /\ clock \in Nat
  BY DEF DispatchTypes
<1>1. store' \in Snapshot
  BY <1>0, ClaimType
<1>2. store.turns \in [Turn -> TurnRecord] /\ store.turns[t] \in TurnRecord
  BY <1>0 DEF Snapshot
<1>3. /\ store'.version = store.version + 1
      /\ store'.lastReceivedSequence = store.lastReceivedSequence
      /\ store'.fencingTokenHighWatermark = fence
      /\ store'.turns = [store.turns EXCEPT ![t] = ClaimedTurn(store.turns[t], fence, clock)]
  BY DEF ClaimTurn, Advance
<1>4. store'.turns[t] = ClaimedTurn(store.turns[t], fence, clock) /\ Rewrites(t)
  BY <1>2, <1>3 DEF Rewrites
<1>5. /\ store'.turns[t].status = "claimed"
      /\ store'.turns[t].receivedSequence = store.turns[t].receivedSequence
      /\ store'.turns[t].fencingToken = fence
  BY <1>2, <1>4, ClaimedFields
<1>6. store'.turns[t].leaseExpiresAt > clock
  <2> DEFINE lease == clock + LeaseDuration
  <2>1. lease > clock
    BY <1>0, AggregateAssumption
  <2>2. store'.turns[t] = [store.turns[t] EXCEPT !.status = "claimed", !.fencingToken = fence,
                                                 !.leaseExpiresAt = lease]
    BY <1>4 DEF ClaimedTurn
  <2> HIDE DEF lease
  <2> QED BY <1>2, <2>1, <2>2 DEF TurnRecord
<1> QED BY <1>1, <1>3, <1>4, <1>5, <1>6 DEF Grants, Commits

\* A settled row, whoever settles it and whatever is charged.
LEMMA SettledFields ==
  ASSUME NEW turn \in TurnRecord, NEW status, NEW used, NEW expiry
  PROVE  /\ SettledTurn(turn, status, used, expiry).status = status
         /\ SettledTurn(turn, status, used, expiry).receivedSequence = turn.receivedSequence
BY DEF SettledTurn, TurnRecord

\* A completion under the current claim settles the turn as completed or handed off.
LEMMA CompleteSettles ==
  ASSUME DispatchTypes, NEW t \in Turn, NEW fence, NEW outcome, NEW used \in Budget,
         CanComplete(store, t, fence, used, Nil, clock),
         store' = CompleteTurn(store, t, outcome, used, Nil)
  PROVE  Settles(t) /\ store'.turns[t].status \in {"completed", "handed_off"}
<1> DEFINE status == IF outcome = "handoff" THEN "handed_off" ELSE "completed"
           session == IF outcome = "handoff" THEN "handoff" ELSE store.status
           expiry == store.turns[t].receiptExpiresAt
           next == SettledTurn(store.turns[t], status, used, expiry)
           remaining == ReleaseUnusedBudget(store.remaining, store.turns[t].budget, used)
<1>0. store \in Snapshot /\ store.turns[t] \in TurnRecord /\ store.turns[t].budget \in Budget
      /\ store.turns \in [Turn -> TurnRecord]
  BY InboxRow DEF DispatchTypes, Snapshot
<1>1. store.turns[t].status = "claimed" /\ Fits(used, store.turns[t].budget)
  BY DEF CanComplete, HasCurrentClaim
<1>2. status \in {"completed", "handed_off"} /\ status \in TurnStatus /\ expiry \in Nat
  BY <1>0 DEF TurnStatus, TurnRecord
<1>3. next \in TurnRecord
  BY <1>0, <1>2, SettledType
<1>4. remaining \in Budget
  BY <1>0, <1>1, ReleaseType DEF Snapshot
<1>5. /\ session \in SessionStatus /\ store.lastReceivedSequence \in Nat
      /\ store.fencingTokenHighWatermark \in Nat
  BY <1>0 DEF Snapshot, SessionStatus
<1>6. store' = Advance(store, session, remaining, store.lastReceivedSequence,
                       store.fencingTokenHighWatermark, [store.turns EXCEPT ![t] = next])
  BY DEF CompleteTurn, CompletedTurn
<1>7. next.status = status /\ next.receivedSequence = store.turns[t].receivedSequence
  BY <1>0, SettledFields
<1> HIDE DEF status, session, expiry, next, remaining
<1>8. store' \in Snapshot
  BY <1>0, <1>3, <1>4, <1>5, <1>6, RowType, AdvanceType
<1>9. /\ store'.version = store.version + 1
      /\ store'.lastReceivedSequence = store.lastReceivedSequence
      /\ store'.fencingTokenHighWatermark = store.fencingTokenHighWatermark
      /\ store'.turns = [store.turns EXCEPT ![t] = next]
  BY <1>6 DEF Advance
<1>10. store'.turns[t] = next /\ Rewrites(t)
  BY <1>0, <1>9 DEF Rewrites
<1> QED BY <1>1, <1>2, <1>7, <1>8, <1>9, <1>10 DEF Settles, Commits, ActiveStatus, TerminalStatus

\* A customer's cancellation settles the turn as cancelled.
LEMMA CancelSettles ==
  ASSUME DispatchTypes, NEW t \in Turn, store.turns[t].status \in ActiveStatus,
         store' = CancelTurn(store, t, "customer", NoBudget)
  PROVE  Settles(t) /\ store'.turns[t].status = "cancelled"
<1> DEFINE charged == CancelUsage(store.turns[t], "customer", NoBudget)
           next == SettledTurn(store.turns[t], "cancelled", charged, store.turns[t].receiptExpiresAt)
           remaining == ReleaseUnusedBudget(store.remaining, store.turns[t].budget, charged)
<1>0. store \in Snapshot /\ store.turns[t] \in TurnRecord /\ store.turns[t].budget \in Budget
      /\ store.turns \in [Turn -> TurnRecord]
  BY InboxRow DEF DispatchTypes, Snapshot
<1>1. charged \in Budget /\ Fits(charged, store.turns[t].budget)
  BY <1>0 DEF CancelUsage, NoBudget, Budget, Fits
<1>2. next \in TurnRecord
  BY <1>0, <1>1, SettledType DEF TurnRecord, TurnStatus
<1>3. remaining \in Budget
  BY <1>0, <1>1, ReleaseType DEF Snapshot
<1>4. /\ store.status \in SessionStatus /\ store.lastReceivedSequence \in Nat
      /\ store.fencingTokenHighWatermark \in Nat
  BY <1>0 DEF Snapshot
<1>5. store' = Advance(store, store.status, remaining, store.lastReceivedSequence,
                       store.fencingTokenHighWatermark, [store.turns EXCEPT ![t] = next])
  BY DEF CancelTurn, CancelledTurn
<1>6. next.status = "cancelled" /\ next.receivedSequence = store.turns[t].receivedSequence
  BY <1>0, SettledFields
<1> HIDE DEF charged, next, remaining
<1>7. store' \in Snapshot
  BY <1>0, <1>2, <1>3, <1>4, <1>5, RowType, AdvanceType
<1>8. /\ store'.version = store.version + 1
      /\ store'.lastReceivedSequence = store.lastReceivedSequence
      /\ store'.fencingTokenHighWatermark = store.fencingTokenHighWatermark
      /\ store'.turns = [store.turns EXCEPT ![t] = next]
  BY <1>5 DEF Advance
<1>9. store'.turns[t] = next /\ Rewrites(t)
  BY <1>0, <1>8 DEF Rewrites
<1> QED BY <1>6, <1>7, <1>8, <1>9 DEF Settles, Commits, TerminalStatus

\* Closing a session or handing it off touches no turn.
LEMMA StatusMarks ==
  ASSUME DispatchTypes, ClientClose \/ ClientHandoff
  PROVE  Marks
<1>0. store \in Snapshot
  BY DEF DispatchTypes
<1>1. PICK status \in SessionStatus : store' = SetStatus(store, status)
  BY DEF ClientClose, ClientHandoff, CloseSession, RequestHandoff, SessionStatus
<1>2. store' \in Snapshot
  BY <1>0, <1>1, StatusType
<1> QED BY <1>1, <1>2 DEF Marks, Commits, SetStatus, Advance

-----------------------------------------------------------------------------
(* The inbox: its rows are numbered, the claimed turn comes first and holds *)
(* the newest fence.                                                        *)

Present == {t \in Turn : store.turns[t].status # "absent"}
Started == {t \in Turn : store.turns[t].status \notin {"absent", "accepted"}}

InboxInv ==
  /\ \A t \in Present : store.turns[t].receivedSequence <= store.lastReceivedSequence
  /\ \A t, u \in Present : t # u =>
       store.turns[t].receivedSequence # store.turns[u].receivedSequence
  /\ \A t, u \in Present :
       t # u /\ store.turns[t].status = "claimed" /\ store.turns[u].status \in ActiveStatus =>
         store.turns[t].receivedSequence < store.turns[u].receivedSequence
  /\ \A t \in Present : store.turns[t].status = "claimed" =>
       store.turns[t].fencingToken = store.fencingTokenHighWatermark

\* Of a session one turn at a time is claimed.
LEMMA OneClaimed ==
  ASSUME DispatchTypes, InboxInv, NEW t \in Turn, NEW u \in Turn,
         store.turns[t].status = "claimed", store.turns[u].status = "claimed"
  PROVE  t = u
<1>1. t \in Present /\ u \in Present
  BY DEF Present
<1>2. store.turns[t].receivedSequence \in Nat /\ store.turns[u].receivedSequence \in Nat
  BY InboxRow
<1> QED BY <1>1, <1>2 DEF InboxInv, ActiveStatus

\* A turn is claimed only if no other is: the first of the inbox is claimable only if
\* no other turn's claim is live, and precedes every other.
LEMMA ClaimedAlone ==
  ASSUME DispatchTypes, InboxInv, NEW t \in Turn, NEW fence, CanClaim(store, t, fence, clock)
  PROVE  /\ store.turns[t].status \in ActiveStatus
         /\ \A u \in Turn \ {t} : store.turns[u].status \in ActiveStatus =>
              /\ store.turns[t].receivedSequence < store.turns[u].receivedSequence
              /\ store.turns[u].status # "claimed"
<1>1. store.turns[t].status \in ActiveStatus
  BY DEF CanClaim, IsFirstClaimable, Claimable, ActiveStatus
<1>2. ASSUME NEW u \in Turn \ {t}, store.turns[u].status \in ActiveStatus
      PROVE  /\ store.turns[t].receivedSequence < store.turns[u].receivedSequence
             /\ store.turns[u].status # "claimed"
  <2>1. /\ store.turns[t].receivedSequence \in Nat /\ store.turns[u].receivedSequence \in Nat
        /\ store.turns[u].leaseExpiresAt \in Nat /\ clock \in Nat
    BY InboxRow DEF DispatchTypes
  <2>2. Claimable(store.turns[u], clock)
    BY <1>2, <2>1 DEF CanClaim, ClaimLive, Claimable, ActiveStatus
  <2>3. store.turns[t].receivedSequence <= store.turns[u].receivedSequence
    BY <2>2 DEF CanClaim, IsFirstClaimable
  <2>4. t \in Present /\ u \in Present
    BY <1>1, <1>2 DEF Present, ActiveStatus
  <2>5. store.turns[t].receivedSequence < store.turns[u].receivedSequence
    BY <2>1, <2>3, <2>4 DEF InboxInv
  <2>6. store.turns[u].status # "claimed"
    BY <1>1, <2>1, <2>4, <2>5 DEF InboxInv
  <2> QED BY <2>5, <2>6
<1> QED BY <1>1, <1>2

\* Every commit keeps the order of the inbox.
LEMMA AppendOrder ==
  ASSUME DispatchTypes, InboxInv, NEW t \in Turn, Appends(t)
  PROVE  InboxInv' /\ Present' = Present \cup {t} /\ t \notin Present
<1>1. /\ \A u \in Turn \ {t} : store'.turns[u] = store.turns[u]
      /\ store.turns[t].status = "absent" /\ store'.turns[t].status = "accepted"
      /\ store'.turns[t].receivedSequence = store.lastReceivedSequence + 1
      /\ store'.lastReceivedSequence = store.lastReceivedSequence + 1
      /\ store'.fencingTokenHighWatermark = store.fencingTokenHighWatermark
  BY DEF Appends, Commits, Rewrites
<1>2. Present' = Present \cup {t} /\ t \notin Present
  BY <1>1 DEF Present
<1>3. \A u \in Turn : store.turns[u].receivedSequence \in Nat /\ store.lastReceivedSequence \in Nat
  BY InboxRow
<1>4. \A u \in Present : u \in Turn \ {t} /\ store.turns[u].receivedSequence <= store.lastReceivedSequence
  BY <1>2 DEF InboxInv, Present
<1>5. \A u \in Present' : store'.turns[u].receivedSequence <= store'.lastReceivedSequence
  BY <1>1, <1>2, <1>3, <1>4
<1>6. \A u, v \in Present' : u # v => store'.turns[u].receivedSequence # store'.turns[v].receivedSequence
  BY <1>1, <1>2, <1>3, <1>4 DEF InboxInv
<1>7. \A u, v \in Present' :
        u # v /\ store'.turns[u].status = "claimed" /\ store'.turns[v].status \in ActiveStatus =>
          store'.turns[u].receivedSequence < store'.turns[v].receivedSequence
  BY <1>1, <1>2, <1>3, <1>4 DEF InboxInv
<1>8. \A u \in Present' : store'.turns[u].status = "claimed" =>
        store'.turns[u].fencingToken = store'.fencingTokenHighWatermark
  BY <1>1, <1>2, <1>4 DEF InboxInv
<1> QED BY <1>2, <1>5, <1>6, <1>7, <1>8 DEF InboxInv

\* A claim keeps the order of the inbox.
LEMMA GrantOrder ==
  ASSUME DispatchTypes, InboxInv, NEW t \in Turn, NEW fence, Grants(t, fence)
  PROVE  InboxInv' /\ Present' = Present
<1>1. /\ \A u \in Turn \ {t} : store'.turns[u] = store.turns[u]
      /\ store'.turns[t].status = "claimed" /\ store'.turns[t].fencingToken = fence
      /\ store'.turns[t].receivedSequence = store.turns[t].receivedSequence
      /\ store'.lastReceivedSequence = store.lastReceivedSequence
      /\ store'.fencingTokenHighWatermark = fence
  BY DEF Grants, Commits, Rewrites
<1>2. /\ store.turns[t].status \in ActiveStatus
      /\ \A u \in Turn \ {t} : store.turns[u].status \in ActiveStatus =>
           /\ store.turns[t].receivedSequence < store.turns[u].receivedSequence
           /\ store.turns[u].status # "claimed"
  BY ClaimedAlone DEF Grants
<1>3. Present' = Present /\ Present \subseteq Turn
  BY <1>1, <1>2 DEF Present, ActiveStatus
<1>4. \A u \in Present : store'.turns[u].receivedSequence = store.turns[u].receivedSequence
  BY <1>1, <1>3
<1>5. \A u \in Present' : store'.turns[u].receivedSequence <= store'.lastReceivedSequence
  BY <1>1, <1>3, <1>4 DEF InboxInv
<1>6. \A u, v \in Present' : u # v => store'.turns[u].receivedSequence # store'.turns[v].receivedSequence
  BY <1>3, <1>4 DEF InboxInv
<1>7. \A u, v \in Present' :
        u # v /\ store'.turns[u].status = "claimed" /\ store'.turns[v].status \in ActiveStatus =>
          store'.turns[u].receivedSequence < store'.turns[v].receivedSequence
  BY <1>1, <1>2, <1>3, <1>4 DEF ActiveStatus
<1>8. \A u \in Present' : store'.turns[u].status = "claimed" =>
        store'.turns[u].fencingToken = store'.fencingTokenHighWatermark
  BY <1>1, <1>2, <1>3 DEF ActiveStatus
<1> QED BY <1>3, <1>5, <1>6, <1>7, <1>8 DEF InboxInv

\* So does a turn that ends: what follows it moves up.
LEMMA SettleOrder ==
  ASSUME DispatchTypes, InboxInv, NEW t \in Turn, Settles(t)
  PROVE  InboxInv' /\ Present' = Present
<1>1. /\ \A u \in Turn \ {t} : store'.turns[u] = store.turns[u]
      /\ store.turns[t].status \in ActiveStatus /\ store'.turns[t].status \in TerminalStatus
      /\ store'.turns[t].receivedSequence = store.turns[t].receivedSequence
      /\ store'.lastReceivedSequence = store.lastReceivedSequence
      /\ store'.fencingTokenHighWatermark = store.fencingTokenHighWatermark
  BY DEF Settles, Commits, Rewrites
<1>2. store'.turns[t].status \notin {"absent", "accepted", "claimed"}
  BY <1>1 DEF TerminalStatus
<1>3. Present' = Present /\ Present \subseteq Turn
  BY <1>1, <1>2 DEF Present, ActiveStatus
<1>4. \A u \in Present : store'.turns[u].receivedSequence = store.turns[u].receivedSequence
  BY <1>1, <1>3
<1>5. \A u \in Present : store'.turns[u].status \in ActiveStatus => store'.turns[u] = store.turns[u]
  BY <1>1, <1>2, <1>3 DEF ActiveStatus
<1> QED BY <1>1, <1>3, <1>4, <1>5 DEF InboxInv, ActiveStatus

\* So does a change of the session's status.
LEMMA MarkOrder ==
  ASSUME InboxInv, Marks
  PROVE  InboxInv' /\ Present' = Present
BY DEF InboxInv, Marks, Commits, Present

-----------------------------------------------------------------------------
(* The account of the claims.                                              *)

\* Process w still answers for the claim of turn t: it is at work under the claim's
\* fence, the claim has not lapsed, and unless a client's command intervenes the
\* process will commit the answer, or the refusal.
Keeps(w, t) ==
  /\ work[w].pc \in Pc \ {"claiming"} /\ work[w].turn = t
  /\ ClaimLive(store.turns[t], clock) /\ store.turns[t].fencingToken = work[w].fence
  /\ At(w, "failing") => work[w].disposition = "refuse" \/ DeadLetters(w)
  /\ At(w, "refusal") => work[w].version = store.version
Lost(t) == store.turns[t].status = "claimed" /\ \A w \in Worker : ~Keeps(w, t)
\* The claim nobody answers for will be followed by another one of its turn.
Owed == IF \E t \in Turn : Lost(t) THEN 1 ELSE 0

Account ==
  /\ IsFiniteSet(Present)
  /\ Owed + 2 * store.fencingTokenHighWatermark + Cardinality(Completed)
       <= Cardinality(Started) + faults + store.version

\* Who is about to claim has read the version; who is about to refuse, its own fence.
WorkInv(w) ==
  /\ At(w, "claiming") =>
       /\ work[w].version <= store.version
       /\ work[w].version = store.version => work[w].fence = store.fencingTokenHighWatermark + 1
  /\ At(w, "refusal") => work[w].contextFence = work[w].fence

DispatchInv == DispatchTypes /\ InboxInv /\ (\A w \in Worker : WorkInv(w)) /\ Account

\* The sets of the account are finite.
LEMMA Counted ==
  ASSUME IsFiniteSet(Present)
  PROVE  /\ IsFiniteSet(Started) /\ IsFiniteSet(Completed)
         /\ Cardinality(Started) \in Nat /\ Cardinality(Completed) \in Nat
         /\ Cardinality(Started) <= Cardinality(Present) /\ Cardinality(Present) \in Nat
<1>1. Started \subseteq Present /\ Completed \subseteq Present
  BY DEF Started, Completed, Present
<1> QED BY <1>1, FS_Subset, FS_CardinalityType

\* At most one claim is owed at a time.
LEMMA OwedNat == Owed \in Nat /\ Owed <= 1 /\ Owed' \in Nat /\ Owed' <= 1
BY DEF Owed

\* A step that leaves the snapshot alone.
LEMMA SameRows ==
  ASSUME DispatchTypes, Account, store' = store, faults' \in Nat, faults' >= faults,
         \/ faults' = faults + 1
         \/ \A t \in Turn : Lost(t)' => Lost(t)
  PROVE  Account'
<1>1. Present' = Present /\ Started' = Started /\ Completed' = Completed
  BY DEF Present, Started, Completed
<1>2. IsFiniteSet(Present) /\ Cardinality(Started) \in Nat /\ Cardinality(Completed) \in Nat
  BY Counted DEF Account
<1>3. store.fencingTokenHighWatermark \in Nat /\ store.version \in Nat /\ faults \in Nat
  BY DEF DispatchTypes, Snapshot
<1>4. faults' = faults + 1 \/ Owed' <= Owed
  <2>1. CASE \A t \in Turn : Lost(t)' => Lost(t)
    BY <2>1 DEF Owed
  <2> QED BY <2>1
<1>5. Owed + 2 * store.fencingTokenHighWatermark + Cardinality(Completed)
        <= Cardinality(Started) + faults + store.version
  BY DEF Account
<1>6. Cardinality(Started') = Cardinality(Started) /\ Cardinality(Completed') = Cardinality(Completed)
  BY <1>1
<1>7. Owed' + 2 * store'.fencingTokenHighWatermark + Cardinality(Completed')
        <= Cardinality(Started') + faults' + store'.version
  BY <1>2, <1>3, <1>4, <1>5, <1>6, OwedNat
<1> QED BY <1>1, <1>2, <1>7 DEF Account

\* A command of a client pays for the claim it may cost.
LEMMA CommandPays ==
  ASSUME DispatchTypes, Account, faults' = faults,
         Commits(store'.lastReceivedSequence, store.fencingTokenHighWatermark),
         IsFiniteSet(Present'), Completed' = Completed,
         Cardinality(Started') \in Nat, Cardinality(Started') >= Cardinality(Started)
  PROVE  Account'
<1>1. Cardinality(Started) \in Nat /\ Cardinality(Completed) \in Nat
  BY Counted DEF Account
<1>2. store.fencingTokenHighWatermark \in Nat /\ store.version \in Nat /\ faults \in Nat
  BY DEF DispatchTypes, Snapshot
<1>3. store'.fencingTokenHighWatermark = store.fencingTokenHighWatermark
      /\ store'.version = store.version + 1
  BY DEF Commits
<1>4. Owed + 2 * store.fencingTokenHighWatermark + Cardinality(Completed)
        <= Cardinality(Started) + faults + store.version
  BY DEF Account
<1>5. Owed' + 2 * store'.fencingTokenHighWatermark + Cardinality(Completed')
        <= Cardinality(Started') + faults' + store'.version
  BY <1>1, <1>2, <1>3, <1>4, OwedNat
<1> QED BY <1>5 DEF Account

\* Adding one element to a finite set.
LEMMA OneMore ==
  ASSUME NEW S, IsFiniteSet(S), NEW x
  PROVE  /\ IsFiniteSet(S \cup {x}) /\ Cardinality(S \cup {x}) \in Nat
         /\ Cardinality(S) \in Nat
         /\ Cardinality(S \cup {x}) <= Cardinality(S) + 1
         /\ Cardinality(S \cup {x}) >= Cardinality(S)
         /\ x \notin S => Cardinality(S \cup {x}) = Cardinality(S) + 1
<1>1. Cardinality(S) \in Nat
  BY FS_CardinalityType
<1>2. CASE x \in S
  <2>1. S \cup {x} = S
    BY <1>2
  <2>2. Cardinality(S \cup {x}) = Cardinality(S) /\ IsFiniteSet(S \cup {x})
    BY <2>1, Zenon
  <2> QED BY <1>1, <1>2, <2>2
<1>3. CASE x \notin S
  <2>1. IsFiniteSet(S \cup {x}) /\ Cardinality(S \cup {x}) = Cardinality(S) + 1
    BY <1>3, FS_AddElement
  <2> QED BY <1>1, <2>1
<1> QED BY <1>2, <1>3

\* An accepted message pays for itself: one version, no claim.
LEMMA AppendPays ==
  ASSUME DispatchTypes, InboxInv, Account, faults' = faults, NEW t \in Turn, Appends(t)
  PROVE  Account'
<1>1. Present' = Present \cup {t}
  BY AppendOrder
<1>2. IsFiniteSet(Present')
  BY <1>1, OneMore DEF Account
<1>3. Started' = Started /\ Completed' = Completed
  BY DEF Appends, Rewrites, Started, Completed
<1>4. Cardinality(Started) \in Nat
  BY Counted DEF Account
<1>5. Commits(store'.lastReceivedSequence, store.fencingTokenHighWatermark)
  BY DEF Appends, Commits
<1> QED BY <1>2, <1>3, <1>4, <1>5, CommandPays

\* A change of status only raises the version.
LEMMA MarkPays ==
  ASSUME DispatchTypes, InboxInv, Account, faults' = faults, Marks
  PROVE  Account'
<1>1. Present' = Present /\ Started' = Started /\ Completed' = Completed
  BY DEF Marks, Present, Started, Completed
<1>2. Cardinality(Started) \in Nat /\ IsFiniteSet(Present)
  BY Counted DEF Account
<1>3. Commits(store'.lastReceivedSequence, store.fencingTokenHighWatermark)
  BY DEF Marks, Commits
<1> QED BY <1>1, <1>2, <1>3, CommandPays

\* A cancellation starts the turn, if no claim did, and completes none.
LEMMA CancelPays ==
  ASSUME DispatchTypes, InboxInv, Account, faults' = faults, NEW t \in Turn, Settles(t),
         store'.turns[t].status = "cancelled"
  PROVE  Account'
<1>1. Present' = Present
  BY SettleOrder
<1>2. Started' = Started \cup {t}
  BY DEF Settles, Rewrites, Started
<1>3. Completed' = Completed
  BY DEF Settles, Rewrites, Completed, ActiveStatus
<1>4. IsFiniteSet(Present) /\ IsFiniteSet(Started)
  BY Counted DEF Account
<1>5. Cardinality(Started') \in Nat /\ Cardinality(Started') >= Cardinality(Started)
  BY <1>2, <1>4, OneMore
<1>6. Commits(store'.lastReceivedSequence, store.fencingTokenHighWatermark)
  BY DEF Settles, Commits
<1> QED BY <1>1, <1>3, <1>4, <1>5, <1>6, CommandPays

\* A completion ends the session's claim: nothing is owed any more.
LEMMA CompletePays ==
  ASSUME DispatchTypes, InboxInv, Account, faults' = faults, NEW t \in Turn, Settles(t),
         store.turns[t].status = "claimed", store'.turns[t].status \in {"completed", "handed_off"}
  PROVE  Account'
<1>1. Present' = Present
  BY SettleOrder
<1>2. Started' = Started
  BY DEF Settles, Rewrites, Started
<1>3. Completed' = Completed \cup {t}
  BY DEF Settles, Rewrites, Completed
<1>4. IsFiniteSet(Present) /\ IsFiniteSet(Completed) /\ Cardinality(Started) \in Nat
  BY Counted DEF Account
<1>5. Cardinality(Completed') \in Nat /\ Cardinality(Completed) \in Nat
      /\ Cardinality(Completed') <= Cardinality(Completed) + 1
  BY <1>3, <1>4, OneMore
<1>6. \A u \in Turn : store'.turns[u].status # "claimed"
  BY OneClaimed DEF Settles, Rewrites
<1>7. Owed' = 0
  BY <1>6 DEF Owed, Lost
<1>8. store.fencingTokenHighWatermark \in Nat /\ store.version \in Nat /\ faults \in Nat
  BY DEF DispatchTypes, Snapshot
<1>9. store'.fencingTokenHighWatermark = store.fencingTokenHighWatermark
      /\ store'.version = store.version + 1
  BY DEF Settles, Commits
<1>10. Owed + 2 * store.fencingTokenHighWatermark + Cardinality(Completed)
         <= Cardinality(Started) + faults + store.version
  BY DEF Account
<1>11. Owed' + 2 * store'.fencingTokenHighWatermark + Cardinality(Completed')
         <= Cardinality(Started') + faults' + store'.version
  BY <1>2, <1>4, <1>5, <1>7, <1>8, <1>9, <1>10, OwedNat
<1> QED BY <1>1, <1>4, <1>11 DEF Account

\* A claim is a turn's first, or was owed.
LEMMA GrantPays ==
  ASSUME DispatchTypes, InboxInv, Account, faults' = faults, NEW t \in Turn, NEW w \in Worker,
         Grants(t, store.fencingTokenHighWatermark + 1), clock' = clock,
         work'[w].pc = "claimed", work'[w].turn = t,
         work'[w].fence = store.fencingTokenHighWatermark + 1
  PROVE  Account'
<1> DEFINE mark == store.fencingTokenHighWatermark
<1>1. /\ store'.turns[t].status = "claimed" /\ store'.turns[t].leaseExpiresAt > clock
      /\ store'.turns[t].fencingToken = mark + 1 /\ store'.version = store.version + 1
      /\ store'.fencingTokenHighWatermark = mark + 1
      /\ CanClaim(store, t, mark + 1, clock)
      /\ \A u \in Turn \ {t} : store'.turns[u] = store.turns[u]
  BY DEF Grants, Commits, Rewrites
<1>2. /\ store.turns[t].status \in ActiveStatus
      /\ \A u \in Turn \ {t} : store.turns[u].status # "claimed"
  BY <1>1, ClaimedAlone DEF ActiveStatus
<1>3. Keeps(w, t)'
  BY <1>1 DEF Keeps, ClaimLive, At, Pc
<1>4. Owed' = 0
  BY <1>1, <1>2, <1>3 DEF Owed, Lost
<1>5. Present' = Present
  BY GrantOrder
<1>6. Completed' = Completed /\ Started' = Started \cup {t}
  BY <1>1, <1>2 DEF Completed, Started, ActiveStatus
<1>7. /\ IsFiniteSet(Present) /\ IsFiniteSet(Started)
      /\ Cardinality(Started) \in Nat /\ Cardinality(Completed) \in Nat
  BY Counted DEF Account
<1>8. mark \in Nat /\ store.version \in Nat /\ faults \in Nat
  BY DEF DispatchTypes, Snapshot
<1>9. Owed + 2 * mark + Cardinality(Completed) <= Cardinality(Started) + faults + store.version
  BY DEF Account
<1>10. CASE store.turns[t].status = "accepted"
  <2>1. t \notin Started
    BY <1>10 DEF Started
  <2>2. Cardinality(Started') = Cardinality(Started) + 1
    BY <1>6, <1>7, <2>1, OneMore
  <2> HIDE DEF mark
  <2>3. Owed' + 2 * (mark + 1) + Cardinality(Completed')
          <= Cardinality(Started') + faults' + store'.version
    BY <1>1, <1>4, <1>6, <1>7, <1>8, <1>9, <2>2, OwedNat
  <2> QED BY <1>1, <1>5, <1>7, <2>3 DEF Account, mark
<1>11. CASE store.turns[t].status # "accepted"
  <2>1. store.turns[t].status = "claimed" /\ ~(store.turns[t].leaseExpiresAt > clock)
    <3>1. store.turns[t].leaseExpiresAt \in Nat /\ clock \in Nat
      BY InboxRow DEF DispatchTypes
    <3> QED BY <1>1, <1>11, <3>1 DEF CanClaim, IsFirstClaimable, Claimable
  <2>2. Lost(t)
    BY <2>1 DEF Lost, Keeps, ClaimLive
  <2>3. Owed = 1
    BY <2>2 DEF Owed
  <2>4. Started' = Started
    BY <1>6, <2>1 DEF Started
  <2>5. Cardinality(Started') = Cardinality(Started) /\ Cardinality(Completed') = Cardinality(Completed)
    BY <1>6, <2>4
  <2> HIDE DEF mark
  <2>6. Owed' + 2 * (mark + 1) + Cardinality(Completed')
          <= Cardinality(Started') + faults' + store'.version
    BY <1>1, <1>4, <1>7, <1>8, <1>9, <2>3, <2>5
  <2> QED BY <1>1, <1>5, <1>7, <2>6 DEF Account, mark
<1> QED BY <1>10, <1>11

-----------------------------------------------------------------------------
(* The steps of the dispatcher.                                            *)

\* A process's step that leaves the snapshot alone keeps the invariant if the process
\* goes on answering for what it answered for, or a fault is counted.
LEMMA WorkerStep ==
  ASSUME DispatchInv, NEW w \in Worker, store' = store, clock' = clock,
         attempts' \in [Turn -> Nat], work' \in [Worker -> {Idle} \cup Busy],
         \A v \in Worker \ {w} : work'[v] = work[v],
         faults' \in 0..MaxFaults, faults' >= faults, WorkInv(w)',
         faults' = faults + 1 \/ (\A t \in Turn : Keeps(w, t) => Keeps(w, t)')
  PROVE  DispatchInv'
<1>0. DispatchTypes /\ InboxInv /\ Account /\ \A v \in Worker : WorkInv(v)
  BY DEF DispatchInv
<1>1. DispatchTypes'
  BY <1>0 DEF DispatchTypes
<1>2. InboxInv'
  BY <1>0 DEF InboxInv, Present
<1>3. \A v \in Worker : WorkInv(v)'
  BY <1>0 DEF WorkInv, At
<1>4. ASSUME NEW t \in Turn, \A u \in Turn : Keeps(w, u) => Keeps(w, u)', Lost(t)'
      PROVE  Lost(t)
  <2>1. ASSUME NEW v \in Worker \ {w}, Keeps(v, t) PROVE Keeps(v, t)'
    BY <2>1 DEF Keeps, At, DeadLetters, Retries
  <2> QED BY <1>4, <2>1 DEF Lost
<1>5. Account'
  BY <1>0, <1>4, SameRows
<1> QED BY <1>1, <1>2, <1>3, <1>5 DEF DispatchInv

\* A commit keeps the invariant if it keeps the inbox and the account.
LEMMA CommitStep ==
  ASSUME DispatchInv, store' \in Snapshot, store'.version = store.version + 1,
         InboxInv', Account', UNCHANGED <<clock, attempts, faults>>,
         work' \in [Worker -> {Idle} \cup Busy],
         \A v \in Worker : work'[v] = work[v] \/ work'[v].pc \notin {"claiming", "refusal"}
  PROVE  DispatchInv'
<1>0. DispatchTypes /\ \A v \in Worker : WorkInv(v)
  BY DEF DispatchInv
<1>1. DispatchTypes'
  BY <1>0 DEF DispatchTypes
<1>2. ASSUME NEW v \in Worker PROVE WorkInv(v)'
  <2>1. CASE work'[v].pc \notin {"claiming", "refusal"}
    BY <2>1 DEF WorkInv, At
  <2>2. CASE work'[v] = work[v] /\ work[v].pc = "claiming"
    <3>1. work[v].version \in Nat /\ store.version \in Nat
      BY <1>0, <2>2, AtWork DEF DispatchTypes, Snapshot
    <3>2. work[v].version <= store.version
      BY <1>0, <2>2 DEF WorkInv, At
    <3>3. work'[v].version <= store'.version /\ work'[v].version # store'.version
      BY <2>2, <3>1, <3>2
    <3> QED BY <2>2, <3>3 DEF WorkInv, At
  <2>3. CASE work'[v] = work[v] /\ work[v].pc = "refusal"
    BY <1>0, <2>3 DEF WorkInv, At
  <2> QED BY <2>1, <2>2, <2>3
<1> QED BY <1>1, <1>2 DEF DispatchInv

\* A process that becomes idle, or goes on with its row, without a write.
LEMMA PollKeeps == ASSUME DispatchInv, NEW w \in Worker, Poll(w) PROVE DispatchInv'
<1>0. DispatchTypes
  BY DEF DispatchInv
<1>1. PICK t \in Turn :
        Become(w, [pc |-> "claiming", turn |-> t, fence |-> store.fencingTokenHighWatermark + 1,
                   version |-> store.version, contextFence |-> 0,
                   attempts |-> attempts[t], disposition |-> "stale"])
  BY DEF Poll, Candidates
<1> DEFINE next == [pc |-> "claiming", turn |-> t, fence |-> store.fencingTokenHighWatermark + 1,
                    version |-> store.version, contextFence |-> 0,
                    attempts |-> attempts[t], disposition |-> "stale"]
<1>2. store.version \in Nat /\ store.fencingTokenHighWatermark + 1 \in Nat /\ attempts[t] \in Nat
  BY <1>0 DEF DispatchTypes, Snapshot
<1>3. next \in Busy
  BY <1>2 DEF Busy, Pc, Dispositions
<1>4. Become(w, next)
  BY <1>1
<1>5. /\ next.pc = "claiming" /\ next.version = store.version
      /\ next.fence = store.fencingTokenHighWatermark + 1
  OBVIOUS
<1> HIDE DEF next
<1>6. /\ work' \in [Worker -> {Idle} \cup Busy] /\ work'[w] = next
      /\ \A v \in Worker \ {w} : work'[v] = work[v]
  BY <1>0, <1>3, <1>4, WorkMoves
<1>7. UNCHANGED <<store, clock, attempts, faults>>
  BY DEF Poll
<1>8. WorkInv(w)'
  BY <1>2, <1>5, <1>6, <1>7 DEF WorkInv, At
<1>9. \A u \in Turn : ~Keeps(w, u)
  BY DEF Poll, At, Keeps, Pc
<1>10. attempts' \in [Turn -> Nat] /\ faults' \in 0..MaxFaults /\ faults' >= faults
  BY <1>0, <1>7 DEF DispatchTypes
<1> QED BY <1>6, <1>7, <1>8, <1>9, <1>10, WorkerStep

\* A step of a process after which it is idle, having answered for nothing, or after a
\* fault.
LEMMA IdleKeeps ==
  ASSUME DispatchInv, NEW w \in Worker, Become(w, Idle), UNCHANGED <<store, clock, attempts>>,
         faults' \in 0..MaxFaults, faults' >= faults,
         faults' = faults + 1 \/ (\A t \in Turn : ~Keeps(w, t))
  PROVE  DispatchInv'
<1>0. DispatchTypes
  BY DEF DispatchInv
<1>1. /\ work' \in [Worker -> {Idle} \cup Busy] /\ work'[w] = Idle
      /\ \A v \in Worker \ {w} : work'[v] = work[v]
  BY <1>0, WorkMoves
<1>2. WorkInv(w)'
  BY <1>1 DEF WorkInv, At, Idle
<1>3. attempts' \in [Turn -> Nat]
  BY <1>0 DEF DispatchTypes
<1> QED BY <1>1, <1>2, <1>3, WorkerStep

\* The same for a step after which it goes on with its turn.
LEMMA GoesOnKeeps ==
  ASSUME DispatchInv, NEW w \in Worker, UNCHANGED <<store, clock, faults>>,
         attempts' \in [Turn -> Nat],
         work' \in [Worker -> {Idle} \cup Busy], work'[w].turn = work[w].turn,
         work'[w].fence = work[w].fence, \A v \in Worker \ {w} : work'[v] = work[v],
         work'[w].pc \in {"claimed", "calling", "completing", "failing", "refusing"},
         (\E t \in Turn : Keeps(w, t)) /\ work'[w].pc = "failing" =>
           (work[w].disposition = "refuse" \/ DeadLetters(w))'
  PROVE  DispatchInv'
<1>0. DispatchTypes
  BY DEF DispatchInv
<1>1. WorkInv(w)'
  BY DEF WorkInv, At
<1>2. faults' \in 0..MaxFaults /\ faults' >= faults
  BY <1>0 DEF DispatchTypes
<1>3. ASSUME NEW t \in Turn, Keeps(w, t) PROVE Keeps(w, t)'
  BY <1>3 DEF Keeps, At, Pc
<1> QED BY <1>1, <1>2, <1>3, WorkerStep

\* The claim, and the claim that came too late.
LEMMA ClaimKeeps == ASSUME DispatchInv, NEW w \in Worker, Claim(w) PROVE DispatchInv'
<1>0. DispatchTypes /\ InboxInv /\ Account /\ WorkInv(w)
  BY DEF DispatchInv
<1>1. work[w].pc = "claiming" /\ UNCHANGED <<clock, attempts, faults>>
  BY DEF Claim, At
<1>2. work[w].turn \in Turn /\ work[w].fence \in Nat
  BY <1>0, <1>1, AtWork
<1>3. CASE MayClaim(w)
  <2> DEFINE t == work[w].turn
             fence == work[w].fence
  <2>1. /\ CanClaim(store, t, fence, clock) /\ store' = ClaimTurn(store, t, fence, clock)
        /\ Goto(w, "claimed") /\ store.version = work[w].version
    BY <1>3 DEF Claim, MayClaim
  <2>2. fence = store.fencingTokenHighWatermark + 1
    BY <1>0, <1>1, <2>1 DEF WorkInv, At
  <2>3. Grants(t, fence)
    BY <1>0, <1>2, <2>1, ClaimGrants
  <2>4. /\ work' \in [Worker -> {Idle} \cup Busy] /\ work'[w].pc = "claimed" /\ work'[w].turn = t
        /\ work'[w].fence = fence /\ \A v \in Worker \ {w} : work'[v] = work[v]
    BY <1>0, <1>1, <2>1, WorkGoes DEF Pc
  <2> HIDE DEF t, fence
  <2>5. t \in Turn
    BY <1>2 DEF t
  <2>6. InboxInv'
    BY <1>0, <2>3, <2>5, GrantOrder
  <2>7. Grants(t, store.fencingTokenHighWatermark + 1)
    BY <2>2, <2>3
  <2>8. work'[w].fence = store.fencingTokenHighWatermark + 1
    BY <2>2, <2>4
  <2>9. Account'
    BY <1>0, <1>1, <2>4, <2>5, <2>7, <2>8, GrantPays
  <2>10. store' \in Snapshot /\ store'.version = store.version + 1
    BY <2>3 DEF Grants, Commits
  <2> QED BY <1>1, <2>4, <2>6, <2>9, <2>10, CommitStep
<1>4. CASE ~MayClaim(w)
  <2>1. Become(w, Idle) /\ store' = store
    BY <1>4 DEF Claim
  <2>2. \A t \in Turn : ~Keeps(w, t)
    BY <1>1 DEF Keeps
  <2>3. faults' \in 0..MaxFaults /\ faults' >= faults
    BY <1>0, <1>1 DEF DispatchTypes
  <2> QED BY <1>1, <2>1, <2>2, <2>3, IdleKeeps
<1> QED BY <1>3, <1>4

\* A failure recorded as a dead letter is one the process goes on to refuse for.
LEMMA DeadLetterKeeps ==
  ASSUME DispatchInv, NEW w \in Worker, work[w].pc # "idle", Fail(w, "dead-letter"),
         UNCHANGED <<store, clock, attempts, faults>>
  PROVE  DispatchInv'
<1>0. DispatchTypes
  BY DEF DispatchInv
<1>1. "dead-letter" \in Dispositions
  BY DEF Dispositions
<1>2. /\ work' \in [Worker -> {Idle} \cup Busy]
      /\ work'[w].pc = "failing" /\ work'[w].turn = work[w].turn /\ work'[w].fence = work[w].fence
      /\ work'[w].disposition = "dead-letter"
      /\ \A v \in Worker \ {w} : work'[v] = work[v]
  BY <1>0, <1>1, WorkFails
<1>3. (work[w].disposition = "refuse" \/ DeadLetters(w))'
  BY <1>2 DEF DeadLetters
<1>4. attempts' \in [Turn -> Nat]
  BY <1>0 DEF DispatchTypes
<1> QED BY <1>2, <1>3, <1>4, GoesOnKeeps

\* The read of the context, of a row still claimed or of one settled since.
LEMMA ReadContextKeeps == ASSUME DispatchInv, NEW w \in Worker, ReadContext(w) PROVE DispatchInv'
<1>0. DispatchTypes
  BY DEF DispatchInv
<1>1. work[w].pc = "claimed" /\ UNCHANGED <<store, clock, attempts, faults>>
  BY DEF ReadContext, At
<1>2. CASE RowOf(w).status = "claimed"
  <2>1. Become(w, [work[w] EXCEPT !.pc = "calling", !.version = store.version,
                                  !.contextFence = RowOf(w).fencingToken])
    BY <1>2 DEF ReadContext
  <2>2. "calling" \in Pc
    BY DEF Pc
  <2>3. /\ work' \in [Worker -> {Idle} \cup Busy]
        /\ work'[w].pc = "calling" /\ work'[w].turn = work[w].turn /\ work'[w].fence = work[w].fence
        /\ \A v \in Worker \ {w} : work'[v] = work[v]
    BY <1>0, <1>1, <2>1, <2>2, WorkReads
  <2>4. attempts' \in [Turn -> Nat]
    BY <1>0, <1>1 DEF DispatchTypes
  <2> QED BY <1>1, <2>3, <2>4, GoesOnKeeps
<1>3. CASE RowOf(w).status # "claimed"
  BY <1>1, <1>3, DeadLetterKeeps DEF ReadContext
<1> QED BY <1>2, <1>3

\* The call of the runtime, answered or failed.
LEMMA CallKeeps == ASSUME DispatchInv, NEW w \in Worker, Call(w) PROVE DispatchInv'
<1>0. DispatchTypes
  BY DEF DispatchInv
<1>1. work[w].pc = "calling" /\ UNCHANGED <<store, clock, attempts>>
  BY DEF Call, Answered, CallFailed, At
<1>2. attempts' \in [Turn -> Nat]
  BY <1>0, <1>1 DEF DispatchTypes
<1>3. CASE Answered(w)
  <2>1. /\ work' \in [Worker -> {Idle} \cup Busy]
        /\ work'[w].pc = "completing" /\ work'[w].turn = work[w].turn /\ work'[w].fence = work[w].fence
        /\ \A v \in Worker \ {w} : work'[v] = work[v]
    BY <1>0, <1>1, <1>3, WorkGoes DEF Answered, Pc
  <2>2. faults' = faults
    BY <1>3 DEF Answered
  <2> QED BY <1>1, <1>2, <2>1, <2>2, GoesOnKeeps
<1>4. CASE CallFailed(w)
  <2>1. faults < MaxFaults /\ faults' = faults + 1
    BY <1>4 DEF CallFailed
  <2>2. PICK d \in Dispositions : Fail(w, d)
    BY <1>4, DispatchAssumption DEF CallFailed
  <2>3. /\ work' \in [Worker -> {Idle} \cup Busy] /\ work'[w].pc = "failing"
        /\ \A v \in Worker \ {w} : work'[v] = work[v]
    BY <1>0, <1>1, <2>2, WorkFails
  <2>4. WorkInv(w)'
    BY <2>3 DEF WorkInv, At
  <2>5. faults' \in 0..MaxFaults /\ faults' >= faults
    BY <1>0, <2>1, DispatchAssumption DEF DispatchTypes
  <2> QED BY <1>1, <1>2, <2>1, <2>3, <2>4, <2>5, WorkerStep
<1> QED BY <1>3, <1>4 DEF Call

\* A commit after which the process is idle and the turn completed.
LEMMA CompletionKeeps ==
  ASSUME DispatchInv, NEW w \in Worker, work[w].pc # "idle", NEW outcome, NEW used \in Budget,
         MayComplete(w, work[w].contextFence, used),
         store' = CompleteTurn(store, work[w].turn, outcome, used, Nil),
         Become(w, Idle), UNCHANGED <<clock, attempts, faults>>
  PROVE  DispatchInv'
<1> DEFINE t == work[w].turn
<1>0. DispatchTypes /\ InboxInv /\ Account
  BY DEF DispatchInv
<1>1. t \in Turn
  BY <1>0, AtWork
<1>2. CanComplete(store, t, work[w].contextFence, used, Nil, clock)
  BY DEF MayComplete
<1>3. Settles(t) /\ store'.turns[t].status \in {"completed", "handed_off"}
  BY <1>0, <1>1, <1>2, CompleteSettles
<1>4. store.turns[t].status = "claimed"
  BY <1>2 DEF CanComplete, HasCurrentClaim
<1> HIDE DEF t
<1>5. InboxInv' /\ Account'
  BY <1>0, <1>1, <1>3, <1>4, SettleOrder, CompletePays
<1>6. /\ work' \in [Worker -> {Idle} \cup Busy] /\ work'[w] = Idle
      /\ \A v \in Worker \ {w} : work'[v] = work[v]
  BY <1>0, WorkMoves
<1>7. store' \in Snapshot /\ store'.version = store.version + 1
  BY <1>3 DEF Settles, Commits
<1>8. \A v \in Worker : work'[v] = work[v] \/ work'[v].pc \notin {"claiming", "refusal"}
  BY <1>6 DEF Idle
<1> QED BY <1>5, <1>6, <1>7, <1>8, CommitStep

\* The completion, committed or turned away into a failure.
LEMMA CompleteKeeps == ASSUME DispatchInv, NEW w \in Worker, Complete(w) PROVE DispatchInv'
<1>1. work[w].pc = "completing" /\ UNCHANGED <<clock, attempts, faults>>
  BY DEF Complete, At
<1>2. ASSUME NEW outcome \in Outcome, NEW used \in Usage,
             MayComplete(w, work[w].contextFence, used),
             store' = CompleteTurn(store, work[w].turn, outcome, used, Nil), Become(w, Idle)
      PROVE  DispatchInv'
  <2>1. used \in Budget
    BY AggregateAssumption
  <2> QED BY <1>1, <1>2, <2>1, CompletionKeeps
<1>3. CASE Fail(w, "dead-letter") /\ store' = store
  BY <1>1, <1>3, DeadLetterKeeps
<1> QED BY <1>2, <1>3 DEF Complete

\* A process that drops its turn or leaves it to its lease answered for nothing.
LEMMA DropKeeps ==
  ASSUME DispatchInv, NEW w \in Worker, Drop(w) \/ RecordRetry(w) PROVE DispatchInv'
<1>0. DispatchTypes
  BY DEF DispatchInv
<1>1. work[w].pc = "failing" /\ Become(w, Idle) /\ UNCHANGED <<store, clock, attempts, faults>>
  BY DEF Drop, RecordRetry, At
<1>2. ~(work[w].disposition = "refuse" \/ DeadLetters(w))
  BY DEF Drop, RecordRetry, DeadLetters, Retries
<1>3. \A t \in Turn : ~Keeps(w, t)
  BY <1>1, <1>2 DEF Keeps, At
<1>4. faults' \in 0..MaxFaults /\ faults' >= faults
  BY <1>0, <1>1 DEF DispatchTypes
<1> QED BY <1>1, <1>3, <1>4, IdleKeeps

\* A process that keeps a turn's claim holds its row.
LEMMA KeeperHolds ==
  ASSUME NEW w \in Worker, NEW t \in Turn, Keeps(w, t)
  PROVE  HoldsRow(w)
BY DEF Keeps, ClaimLive, HoldsRow, RowOf

\* A failure that will be refused, at once or after the dead letter is recorded.
LEMMA RefusingKeeps ==
  ASSUME DispatchInv, NEW w \in Worker, Deny(w) \/ RecordDeadLetter(w) PROVE DispatchInv'
<1>0. DispatchTypes
  BY DEF DispatchInv
<1>1. work[w].pc = "failing" /\ UNCHANGED <<store, clock, faults>>
  BY DEF Deny, RecordDeadLetter, At
<1>2. work[w].turn \in Turn
  BY <1>0, <1>1, AtWork
<1>3. attempts' \in [Turn -> Nat]
  BY <1>0, <1>2 DEF Deny, RecordDeadLetter, DispatchTypes
<1>4. CASE Goto(w, "refusing")
  <2>1. /\ work' \in [Worker -> {Idle} \cup Busy]
        /\ work'[w].pc = "refusing" /\ work'[w].turn = work[w].turn /\ work'[w].fence = work[w].fence
        /\ \A v \in Worker \ {w} : work'[v] = work[v]
    BY <1>0, <1>1, <1>4, WorkGoes DEF Pc
  <2> QED BY <1>1, <1>3, <2>1, GoesOnKeeps
<1>5. CASE ~HoldsRow(w) /\ Become(w, Idle) /\ attempts' = attempts
  <2>1. faults' \in 0..MaxFaults /\ faults' >= faults
    BY <1>0, <1>1 DEF DispatchTypes
  <2> QED BY <1>1, <1>5, <2>1, KeeperHolds, IdleKeeps
<1> QED BY <1>4, <1>5 DEF Deny, RecordDeadLetter

\* The read before a refusal, which finds the row its own or gives up.
LEMMA ReadForRefusalKeeps ==
  ASSUME DispatchInv, NEW w \in Worker, ReadForRefusal(w) PROVE DispatchInv'
<1>0. DispatchTypes
  BY DEF DispatchInv
<1>1. work[w].pc = "refusing" /\ UNCHANGED <<store, clock, attempts, faults>>
  BY DEF ReadForRefusal, At
<1>2. faults' \in 0..MaxFaults /\ faults' >= faults /\ attempts' \in [Turn -> Nat]
  BY <1>0, <1>1 DEF DispatchTypes
<1>3. CASE HoldsRow(w)
  <2>1. Become(w, [work[w] EXCEPT !.pc = "refusal", !.version = store.version,
                                  !.contextFence = RowOf(w).fencingToken])
    BY <1>3 DEF ReadForRefusal, PrepareRefusal
  <2>2. "refusal" \in Pc
    BY DEF Pc
  <2>3. /\ work' \in [Worker -> {Idle} \cup Busy]
        /\ work'[w].pc = "refusal" /\ work'[w].turn = work[w].turn /\ work'[w].fence = work[w].fence
        /\ work'[w].version = store.version
        /\ work'[w].contextFence = store.turns[work[w].turn].fencingToken
        /\ \A v \in Worker \ {w} : work'[v] = work[v]
    BY <1>0, <1>1, <2>1, <2>2, WorkReads
  <2>4. WorkInv(w)'
    BY <1>3, <2>3 DEF WorkInv, At, HoldsRow, RowOf
  <2>5. ASSUME NEW t \in Turn, Keeps(w, t) PROVE Keeps(w, t)'
    BY <1>1, <2>2, <2>3, <2>5 DEF Keeps, At
  <2> QED BY <1>1, <1>2, <2>3, <2>4, <2>5, WorkerStep
<1>4. CASE ~HoldsRow(w)
  BY <1>1, <1>2, <1>4, KeeperHolds, IdleKeeps DEF ReadForRefusal
<1> QED BY <1>3, <1>4

\* Who keeps a claim up to the refusal may commit it.
LEMMA KeeperRefuses ==
  ASSUME DispatchInv, NEW w \in Worker, NEW t \in Turn, work[w].pc = "refusal", Keeps(w, t)
  PROVE  MayComplete(w, work[w].contextFence, NoBudget)
<1>0. DispatchTypes /\ InboxInv /\ WorkInv(w)
  BY DEF DispatchInv
<1>1. /\ work[w].turn = t /\ store.turns[t].status = "claimed" /\ store.turns[t].leaseExpiresAt > clock
      /\ store.turns[t].fencingToken = work[w].fence /\ work[w].version = store.version
  BY DEF Keeps, ClaimLive, At
<1>2. work[w].contextFence = work[w].fence
  BY <1>0 DEF WorkInv, At
<1>3. /\ store.turns[t].fencingToken = store.fencingTokenHighWatermark
      /\ store.fencingTokenHighWatermark \in Nat
  BY <1>0, <1>1, InboxRow DEF InboxInv, Present
<1>4. Fits(NoBudget, store.turns[t].budget)
  <2>1. store.turns[t].budget \in Budget
    BY <1>0, InboxRow
  <2> QED BY <2>1 DEF Fits, NoBudget, Budget
<1>5. work[w].contextFence >= store.fencingTokenHighWatermark
  BY <1>1, <1>2, <1>3
<1> QED BY <1>1, <1>2, <1>4, <1>5 DEF MayComplete, CanComplete, HasCurrentClaim, ValidReceipt

\* The refusal, committed or turned away.
LEMMA RefuseKeeps == ASSUME DispatchInv, NEW w \in Worker, Refuse(w) PROVE DispatchInv'
<1>0. DispatchTypes
  BY DEF DispatchInv
<1>1. work[w].pc = "refusal" /\ Become(w, Idle) /\ UNCHANGED <<clock, attempts, faults>>
  BY DEF Refuse, At
<1>2. CASE MayComplete(w, work[w].contextFence, NoBudget)
  <2>1. NoBudget \in Budget
    BY DEF NoBudget, Budget
  <2>2. store' = CompleteTurn(store, work[w].turn, "refusal", NoBudget, Nil)
    BY <1>2 DEF Refuse
  <2> QED BY <1>1, <1>2, <2>1, <2>2, CompletionKeeps
<1>3. CASE ~MayComplete(w, work[w].contextFence, NoBudget)
  <2>1. store' = store
    BY <1>3 DEF Refuse
  <2>2. \A t \in Turn : ~Keeps(w, t)
    BY <1>1, <1>3, KeeperRefuses
  <2>3. faults' \in 0..MaxFaults /\ faults' >= faults
    BY <1>0, <1>1 DEF DispatchTypes
  <2> QED BY <1>1, <2>1, <2>2, <2>3, IdleKeeps
<1> QED BY <1>2, <1>3

\* A crash is a fault, and pays for the claim it leaves behind.
LEMMA CrashKeeps == ASSUME DispatchInv, NEW w \in Worker, Crash(w) PROVE DispatchInv'
<1>0. DispatchTypes
  BY DEF DispatchInv
<1>1. /\ Become(w, Idle) /\ UNCHANGED <<store, clock, attempts>>
      /\ faults < MaxFaults /\ faults' = faults + 1
  BY DEF Crash
<1>2. faults' \in 0..MaxFaults /\ faults' >= faults
  BY <1>0, <1>1, DispatchAssumption DEF DispatchTypes
<1> QED BY <1>1, <1>2, IdleKeeps

\* The commands of the client, whoever is at work.
LEMMA ClientKeeps == ASSUME DispatchInv, Client PROVE DispatchInv'
<1>0. DispatchTypes /\ InboxInv /\ Account
  BY DEF DispatchInv
<1>1. UNCHANGED <<clock, attempts, work, faults>>
  BY DEF Client
<1>2. work' \in [Worker -> {Idle} \cup Busy] /\ \A v \in Worker : work'[v] = work[v]
  BY <1>0, <1>1 DEF DispatchTypes
<1>3. CASE ClientAccept
  <2>1. PICK t \in Turn : Appends(t)
    BY <1>0, <1>3, AcceptAppends
  <2>2. InboxInv' /\ Account'
    BY <1>0, <1>1, <2>1, AppendOrder, AppendPays
  <2>3. store' \in Snapshot /\ store'.version = store.version + 1
    BY <2>1 DEF Appends, Commits
  <2> QED BY <1>1, <1>2, <2>2, <2>3, CommitStep
<1>4. CASE ClientCancel
  <2>1. PICK t \in Turn : /\ store.turns[t].status \in ActiveStatus
                          /\ store' = CancelTurn(store, t, "customer", NoBudget)
    BY <1>4 DEF ClientCancel, CanCancel
  <2>2. Settles(t) /\ store'.turns[t].status = "cancelled"
    BY <1>0, <2>1, CancelSettles
  <2>3. InboxInv' /\ Account'
    BY <1>0, <1>1, <2>2, SettleOrder, CancelPays
  <2>4. store' \in Snapshot /\ store'.version = store.version + 1
    BY <2>2 DEF Settles, Commits
  <2> QED BY <1>1, <1>2, <2>3, <2>4, CommitStep
<1>5. CASE ClientClose \/ ClientHandoff
  <2>1. Marks
    BY <1>0, <1>5, StatusMarks
  <2>2. InboxInv' /\ Account'
    BY <1>0, <1>1, <2>1, MarkOrder, MarkPays
  <2>3. store' \in Snapshot /\ store'.version = store.version + 1
    BY <2>1 DEF Marks, Commits
  <2> QED BY <1>1, <1>2, <2>2, <2>3, CommitStep
<1> QED BY <1>3, <1>4, <1>5 DEF Client

\* A lease that lapses under the process that keeps it is a stall.
LEMMA TickKeeps == ASSUME DispatchInv, Tick PROVE DispatchInv'
<1>0. DispatchTypes /\ InboxInv /\ Account /\ \A v \in Worker : WorkInv(v)
  BY DEF DispatchInv
<1>1. UNCHANGED <<store, attempts, work>> /\ clock' = clock + 1
  BY DEF Tick
<1>2. /\ faults' \in 0..MaxFaults /\ faults' >= faults
      /\ faults' = faults + 1 \/ ~Stalls
  BY <1>0, DispatchAssumption DEF Tick, DispatchTypes
<1>3. DispatchTypes'
  BY <1>0, <1>1, <1>2 DEF DispatchTypes
<1>4. InboxInv' /\ \A v \in Worker : WorkInv(v)'
  BY <1>0, <1>1 DEF InboxInv, Present, WorkInv, At
<1>5. ASSUME ~Stalls, NEW t \in Turn, Lost(t)' PROVE Lost(t)
  <2> SUFFICES ASSUME NEW w \in Worker, Keeps(w, t) PROVE FALSE
    BY <1>1, <1>5 DEF Lost
  <2>1. ~Keeps(w, t)'
    BY <1>5 DEF Lost
  <2>2. ClaimLive(store.turns[t], clock) /\ ~ClaimLive(store.turns[t], clock + 1)
    BY <1>1, <2>1 DEF Keeps, At, DeadLetters, Retries
  <2>3. work[w].pc \notin {"idle", "claiming"} /\ work[w].turn = t
        /\ work[w].fence = store.turns[t].fencingToken
    BY DEF Keeps, Pc
  <2> QED BY <1>5, <2>2, <2>3 DEF Stalls, HolderAtWork
<1>6. Account'
  BY <1>0, <1>1, <1>2, <1>5, SameRows
<1> QED BY <1>3, <1>4, <1>6 DEF DispatchInv

\* Every step of the dispatcher keeps its invariant.
LEMMA DispatchStep == DispatchInv /\ [DispatchNext]_vars => DispatchInv'
<1>1. ASSUME DispatchInv, DispatchNext PROVE DispatchInv'
  BY <1>1, PollKeeps, ClaimKeeps, ReadContextKeeps, CallKeeps, CompleteKeeps, DropKeeps,
     RefusingKeeps, ReadForRefusalKeeps, RefuseKeeps, CrashKeeps, ClientKeeps, TickKeeps
     DEF DispatchNext, Step
<1>2. ASSUME DispatchInv, UNCHANGED vars PROVE DispatchInv'
  <2>1. UNCHANGED <<store, clock, attempts, work, faults>>
    BY <1>2 DEF vars
  <2>2. DispatchTypes' /\ InboxInv' /\ \A w \in Worker : WorkInv(w)'
    BY <1>2, <2>1 DEF DispatchInv, DispatchTypes, InboxInv, Present, WorkInv, At
  <2>3. \A t \in Turn : Lost(t)' => Lost(t)
    BY <2>1 DEF Lost, Keeps, At, DeadLetters, Retries
  <2>4. faults' \in Nat /\ faults' >= faults
    BY <1>2, <2>1 DEF DispatchInv, DispatchTypes
  <2>5. Account'
    BY <1>2, <2>1, <2>3, <2>4, SameRows DEF DispatchInv
  <2> QED BY <2>2, <2>5 DEF DispatchInv
<1> QED BY <1>1, <1>2

\* A new session has no claim to account for.
LEMMA DispatchStart == DispatchInit => DispatchInv
<1> SUFFICES ASSUME DispatchInit PROVE DispatchInv
  OBVIOUS
<1>1. /\ store.version = 0 /\ store.fencingTokenHighWatermark = 0 /\ faults = 0
      /\ \A t \in Turn : store.turns[t].status = "absent"
  BY DEF DispatchInit, CreateSnapshot, AbsentTurn
<1>2. DispatchTypes
  BY CreateType, DispatchAssumption DEF DispatchInit, DispatchTypes
<1>3. Present = {} /\ Started = {} /\ Completed = {}
  BY <1>1 DEF Present, Started, Completed
<1>4. InboxInv
  BY <1>3 DEF InboxInv
<1>5. \A w \in Worker : WorkInv(w)
  BY DEF DispatchInit, WorkInv, At, Idle
<1>6. Owed = 0
  BY <1>1 DEF Owed, Lost
<1>7. /\ IsFiniteSet(Present) /\ Cardinality(Started) = 0 /\ Cardinality(Completed) = 0
  BY <1>3, FS_EmptySet
<1>8. Account
  BY <1>1, <1>6, <1>7 DEF Account
<1> QED BY <1>2, <1>4, <1>5, <1>8 DEF DispatchInv

\* The account bounds the claims.
LEMMA AccountBounds == DispatchInv => ReclaimsHaveCause
<1> SUFFICES ASSUME DispatchInv PROVE ReclaimsHaveCause
  OBVIOUS
<1>1. /\ Cardinality(Started) \in Nat /\ Cardinality(Completed) \in Nat
      /\ Cardinality(Started) <= Cardinality(Present) /\ Cardinality(Present) \in Nat
  BY Counted DEF DispatchInv, Account
<1>2. store.fencingTokenHighWatermark \in Nat /\ store.version \in Nat /\ faults \in Nat
  BY DEF DispatchInv, DispatchTypes, Snapshot
<1>3. Owed + 2 * store.fencingTokenHighWatermark + Cardinality(Completed)
        <= Cardinality(Started) + faults + store.version
  BY DEF DispatchInv, Account
<1>4. store.fencingTokenHighWatermark <=
        Cardinality(Present) + faults
          + (store.version - store.fencingTokenHighWatermark - Cardinality(Completed))
  BY <1>1, <1>2, <1>3, OwedNat
<1> QED BY <1>4 DEF ReclaimsHaveCause, ClientCommands, Present

\* A commit that ends a refusal is made under the process's own claim.
LEMMA RefusalIsOwn ==
  ASSUME DispatchInv, DispatchNext, NEW w \in Worker, At(w, "refusal"), store' # store,
         work'[w] = Idle
  PROVE  HoldsRow(w)
<1>0. DispatchTypes /\ WorkInv(w) /\ work[w].pc = "refusal"
  BY DEF DispatchInv, At
<1>1. work[w] # Idle
  BY <1>0 DEF Idle
<1>2. ASSUME NEW v \in Worker, Step(v) PROVE v = w
  <2>1. \A u \in Worker \ {v} : work'[u] = work[u]
    <3>1. \E next : Become(v, next)
      BY <1>2 DEF Step, Claim, ReadContext, Call, Answered, CallFailed, Complete, Drop, Deny,
         RecordRetry, RecordDeadLetter, ReadForRefusal, Refuse, Goto, Fail, PrepareRefusal
    <3> QED BY <1>0, <3>1 DEF Become, DispatchTypes
  <2> QED BY <1>1, <2>1
<1>3. Refuse(w)
  <2>1. PICK v \in Worker : Step(v)
    BY <1>1 DEF DispatchNext, Poll, Crash, Client, Tick
  <2>2. Step(w)
    BY <1>2, <2>1
  <2> QED BY <1>0, <2>2 DEF Step, Claim, ReadContext, Call, Answered, CallFailed, Complete, Drop,
        Deny, RecordRetry, RecordDeadLetter, ReadForRefusal, At
<1>4. MayComplete(w, work[w].contextFence, NoBudget)
  BY <1>3 DEF Refuse
<1>5. work[w].contextFence = work[w].fence
  BY <1>0 DEF WorkInv, At
<1> QED BY <1>4, <1>5 DEF MayComplete, CanComplete, HasCurrentClaim, HoldsRow, RowOf

-----------------------------------------------------------------------------
(* The outbox of cancellations.                                            *)

\* A row of the outbox, and what a process has in hand for one.
CancellationRow == [status : Outbox!Status, attempts : Nat, availableAt : Nat]
Hand == [pc : {"none", "calling", "accepted", "error"}, attempts : Nat]
Hands == [OutboxRow -> Hand]
OutboxTypes ==
  /\ cancellation \in [OutboxRow -> CancellationRow] /\ erased \subseteq OutboxRow
  /\ outboxClock \in Nat /\ outboxWork \in [Worker -> Hands]
  /\ outboxFaults \in 0..OutboxFaults /\ delivered \subseteq OutboxRow

\* A process works on a row, and whether it could put the row back for a retry.
Has(w, r) == outboxWork[w][r].pc # "none"
MayPutBack(w, r) == Has(w, r) /\ outboxWork[w][r].attempts < MaxAttempts
PutBacks(r) == {w \in Worker : MayPutBack(w, r)}
\* The process of the row's latest attempt is still at work on it.
Held(r) == \E w \in Worker : Has(w, r) /\ outboxWork[w][r].attempts = cancellation[r].attempts
\* A poll takes the row, now or as soon as its time has come, whatever else happens.
Offered(r) ==
  \/ cancellation[r].status = "pending"
  \/ /\ cancellation[r].status = "processing"
     /\ cancellation[r].availableAt <= outboxClock \/ ~Held(r)
\* How many of a row's attempts may have put it back.
Returns(n) == IF n < MaxAttempts THEN n ELSE MaxAttempts - 1
\* Every attempt after the first was paid for, by a fault or by an attempt that put
\* the row back; an attempt still at work has not paid yet.
Paid(r) ==
  LET n == cancellation[r].attempts
      open == Cardinality(PutBacks(r))
  IN  /\ IsFiniteSet(PutBacks(r))
      /\ n + open <= outboxFaults + 1 + Returns(n)
      /\ Offered(r) => n + open <= outboxFaults + Returns(n)
\* A row is worked on once it is written, and accepted only if it was delivered.
Written ==
  \A w \in Worker, r \in OutboxRow :
    /\ Has(w, r) => cancellation[r].status # "unwritten"
    /\ outboxWork[w][r].pc = "accepted" => r \in delivered
OutboxInv ==
  OutboxTypes /\ Written /\ Outbox!CompletedWasDelivered /\ \A r \in OutboxRow : Paid(r)

\* The types are those of the component.
LEMMA OutboxTyped == OutboxTypes <=> Outbox!TypeOK
BY DEF OutboxTypes, Outbox!TypeOK, CancellationRow, Hands, Hand

\* Nothing in hand is a hand.
LEMMA NoHand == Outbox!NoDispatch \in Hand /\ Outbox!NoDispatch.pc = "none"
BY DEF Outbox!NoDispatch, Hand

\* A process has something else in hand for a row.
Takes(w, r, h) == outboxWork' = [outboxWork EXCEPT ![w][r] = h]

\* A process that goes on with a row changes what it has in hand for that row only.
LEMMA HandMoves ==
  ASSUME OutboxTypes, NEW w \in Worker, NEW r \in OutboxRow, NEW h \in Hand, Takes(w, r, h)
  PROVE  /\ outboxWork' \in [Worker -> Hands]
         /\ outboxWork'[w][r] = h
         /\ \A v \in Worker, q \in OutboxRow : v # w \/ q # r => outboxWork'[v][q] = outboxWork[v][q]
<1>1. outboxWork \in [Worker -> Hands] /\ outboxWork[w] \in Hands
  BY DEF OutboxTypes
<1>2. [outboxWork[w] EXCEPT ![r] = h] \in Hands
  BY <1>1 DEF Hands
<1>3. outboxWork' = [outboxWork EXCEPT ![w] = [outboxWork[w] EXCEPT ![r] = h]]
  BY <1>1 DEF Takes
<1>4. outboxWork'[w] = [outboxWork[w] EXCEPT ![r] = h] /\ \A v \in Worker \ {w} : outboxWork'[v] = outboxWork[v]
  BY <1>1, <1>3
<1>5. outboxWork[w] \in [OutboxRow -> Hand]
  BY <1>1 DEF Hands
<1> QED BY <1>1, <1>2, <1>3, <1>4, <1>5

\* What a step does to a process's hand: the call's outcome is noted, or the row
\* let go of.
LEMMA HandGoes ==
  ASSUME OutboxTypes, NEW w \in Worker, NEW r \in OutboxRow, NEW x \in {"accepted", "error"},
         Outbox!Goto(w, r, x)
  PROVE  /\ outboxWork' \in [Worker -> Hands]
         /\ outboxWork'[w][r].pc = x /\ outboxWork'[w][r].attempts = outboxWork[w][r].attempts
         /\ \A v \in Worker, q \in OutboxRow : v # w \/ q # r => outboxWork'[v][q] = outboxWork[v][q]
<1> DEFINE h == [outboxWork[w][r] EXCEPT !.pc = x]
<1>1. outboxWork[w][r] \in Hand /\ outboxWork \in [Worker -> Hands] /\ outboxWork[w] \in [OutboxRow -> Hand]
  BY DEF OutboxTypes, Hands
<1>2. h \in Hand /\ h.pc = x /\ h.attempts = outboxWork[w][r].attempts
  BY <1>1 DEF Hand
<1>3. Takes(w, r, h)
  BY <1>1 DEF Outbox!Goto, Takes
<1>4. PICK g \in Hand : g.pc = x /\ g.attempts = outboxWork[w][r].attempts
                          /\ Takes(w, r, g)
  BY <1>2, <1>3
<1> HIDE DEF h
<1>5. /\ outboxWork' \in [Worker -> Hands] /\ outboxWork'[w][r] = g
      /\ \A v \in Worker, q \in OutboxRow : v # w \/ q # r => outboxWork'[v][q] = outboxWork[v][q]
  BY <1>4, HandMoves
<1> QED BY <1>4, <1>5

\* A process that forgets a row is done with it, and no other is disturbed.
LEMMA HandLets ==
  ASSUME OutboxTypes, NEW w \in Worker, NEW r \in OutboxRow, Outbox!Forget(w, r)
  PROVE  /\ outboxWork' \in [Worker -> Hands]
         /\ outboxWork'[w][r].pc = "none"
         /\ \A v \in Worker, q \in OutboxRow : v # w \/ q # r => outboxWork'[v][q] = outboxWork[v][q]
<1>1. Takes(w, r, Outbox!NoDispatch)
  BY DEF Outbox!Forget, Takes
<1>2. /\ outboxWork' \in [Worker -> Hands] /\ outboxWork'[w][r] = Outbox!NoDispatch
      /\ \A v \in Worker, q \in OutboxRow : v # w \/ q # r => outboxWork'[v][q] = outboxWork[v][q]
  BY <1>1, NoHand, HandMoves
<1> QED BY <1>2, NoHand

\* A row's account when its attempts stay as they are: hands may let go of it, and if
\* it is offered that had been paid before, is paid by a fault, or by the hand that let
\* go.
LEMMA StillPaid ==
  ASSUME OutboxInv, NEW r \in OutboxRow,
         PutBacks(r)' \subseteq PutBacks(r), cancellation'[r].attempts = cancellation[r].attempts,
         outboxFaults' \in Nat, outboxFaults' >= outboxFaults,
         Offered(r)' => \/ Offered(r) \/ outboxFaults' = outboxFaults + 1
                        \/ PutBacks(r)' # PutBacks(r)
  PROVE  Paid(r)'
<1> DEFINE n == cancellation[r].attempts
           m == Cardinality(PutBacks(r))
           k == Cardinality(PutBacks(r)')
<1>1. n \in Nat /\ outboxFaults \in Nat
  BY DEF OutboxInv, OutboxTypes, CancellationRow
<1>2. IsFiniteSet(PutBacks(r)) /\ n + m <= outboxFaults + 1 + Returns(n)
      /\ (Offered(r) => n + m <= outboxFaults + Returns(n))
  BY DEF OutboxInv, Paid
<1>3. /\ IsFiniteSet(PutBacks(r)') /\ k <= m /\ k \in Nat /\ m \in Nat
      /\ PutBacks(r)' # PutBacks(r) => k # m
  BY <1>2, FS_CardinalityType, FS_Subset
<1>4. Returns(n) \in Nat /\ MaxAttempts \in Nat
  BY <1>1, OutboxAssumption DEF Returns
<1>5. cancellation'[r].attempts = n
  OBVIOUS
<1> HIDE DEF n, m, k
<1>6. n + k <= outboxFaults' + 1 + Returns(n)
  BY <1>1, <1>2, <1>3, <1>4
<1>7. Offered(r)' => n + k <= outboxFaults' + Returns(n)
  BY <1>1, <1>2, <1>3, <1>4
<1> QED BY <1>3, <1>5, <1>6, <1>7 DEF Paid, Returns, k

\* A poll's claim of a row is the attempt that had been paid for.
LEMMA ClaimPaid ==
  ASSUME OutboxInv, NEW r \in OutboxRow, Offered(r), ~Offered(r)', outboxFaults' = outboxFaults,
         cancellation'[r].attempts = cancellation[r].attempts + 1,
         \/ PutBacks(r)' = PutBacks(r)
         \/ /\ cancellation[r].attempts + 1 < MaxAttempts
            /\ \E w \in Worker \ PutBacks(r) : PutBacks(r)' = PutBacks(r) \cup {w}
  PROVE  Paid(r)'
<1> DEFINE n == cancellation[r].attempts
           m == Cardinality(PutBacks(r))
           k == Cardinality(PutBacks(r)')
<1>1. n \in Nat /\ outboxFaults \in Nat
  BY DEF OutboxInv, OutboxTypes, CancellationRow
<1>2. IsFiniteSet(PutBacks(r)) /\ n + m <= outboxFaults + Returns(n)
  BY DEF OutboxInv, Paid
<1>3. /\ IsFiniteSet(PutBacks(r)') /\ k \in Nat /\ m \in Nat
      /\ k = m \/ (n + 1 < MaxAttempts /\ k = m + 1)
  <2>1. m \in Nat
    BY <1>2, FS_CardinalityType
  <2>2. CASE PutBacks(r)' = PutBacks(r)
    BY <1>2, <2>1, <2>2
  <2>3. ASSUME n + 1 < MaxAttempts, NEW w \in Worker \ PutBacks(r), PutBacks(r)' = PutBacks(r) \cup {w}
        PROVE  IsFiniteSet(PutBacks(r)') /\ k = m + 1
    BY <1>2, <2>3, FS_AddElement
  <2> QED BY <2>1, <2>2, <2>3
<1>4. /\ Returns(n) \in Nat /\ Returns(n + 1) \in Nat /\ Returns(n) <= Returns(n + 1)
      /\ n + 1 < MaxAttempts => Returns(n + 1) = Returns(n) + 1
  BY <1>1, OutboxAssumption DEF Returns
<1>5. cancellation'[r].attempts = n + 1
  OBVIOUS
<1> HIDE DEF n, m, k
<1>6. n + 1 + k <= outboxFaults' + 1 + Returns(n + 1)
  BY <1>1, <1>2, <1>3, <1>4
<1> QED BY <1>3, <1>5, <1>6 DEF Paid, Returns, k

\* Every step of the outbox keeps the types.
LEMMA OutboxTypesStep ==
  ASSUME OutboxInv, Outbox!Next
  PROVE  OutboxTypes'
<1>0. OutboxTypes /\ cancellation \in [OutboxRow -> CancellationRow]
  BY DEF OutboxInv, OutboxTypes
<1>1. ASSUME NEW r \in OutboxRow, Outbox!Write(r) PROVE OutboxTypes'
  <2>1. [status |-> "pending", attempts |-> 0, availableAt |-> outboxClock] \in CancellationRow
    BY <1>0 DEF OutboxTypes, CancellationRow, Outbox!Status, Outbox!Open
  <2> QED BY <1>0, <1>1, <2>1 DEF OutboxTypes, Outbox!Write
<1>2. ASSUME NEW r \in OutboxRow, Outbox!EraseSession(r) PROVE OutboxTypes'
  BY <1>0, <1>2 DEF OutboxTypes, Outbox!EraseSession
<1>3. ASSUME NEW w \in Worker, Outbox!Claim(w) PROVE OutboxTypes'
  <2>1. \A r \in OutboxRow :
          cancellation[r].attempts + 1 \in Nat /\ outboxClock + Lease \in Nat
    BY <1>0, OutboxAssumption DEF OutboxTypes, CancellationRow
  <2>2. \A r \in OutboxRow :
          [status |-> IF r \in erased THEN "failed" ELSE "processing",
           attempts |-> cancellation[r].attempts + 1,
           availableAt |-> outboxClock + Lease] \in CancellationRow
    BY <2>1 DEF CancellationRow, Outbox!Status, Outbox!Open
  <2>3. cancellation' \in [OutboxRow -> CancellationRow]
    BY <1>0, <1>3, <2>2 DEF Outbox!Claim
  <2>4. \A r \in OutboxRow : [pc |-> "calling", attempts |-> cancellation[r].attempts + 1] \in Hand
    BY <2>1 DEF Hand
  <2>5. [r \in OutboxRow |-> IF r \in Outbox!Batch \ erased
           THEN [pc |-> "calling", attempts |-> cancellation[r].attempts + 1]
           ELSE Outbox!NoDispatch] \in Hands
    BY <2>4, NoHand DEF Hands
  <2>6. outboxWork' \in [Worker -> Hands]
    BY <1>0, <1>3, <2>5 DEF OutboxTypes, Outbox!Claim
  <2> QED BY <1>0, <1>3, <2>3, <2>6 DEF OutboxTypes, Outbox!Claim
<1>4. ASSUME NEW w \in Worker, Outbox!Crash(w) PROVE OutboxTypes'
  <2>1. [r \in OutboxRow |-> Outbox!NoDispatch] \in Hands
    BY NoHand DEF Hands
  <2>2. outboxWork' \in [Worker -> Hands]
    BY <1>0, <1>4, <2>1 DEF OutboxTypes, Outbox!Crash
  <2> QED BY <1>0, <1>4, <2>2, OutboxAssumption DEF OutboxTypes, Outbox!Crash
<1>5. ASSUME NEW w \in Worker, NEW r \in OutboxRow,
             Outbox!CancelAccepted(w, r) \/ Outbox!CancelFailed(w, r)
      PROVE  OutboxTypes'
  <2>1. outboxWork' \in [Worker -> Hands]
    BY <1>0, <1>5, HandGoes DEF Outbox!CancelAccepted, Outbox!CancelFailed
  <2> QED BY <1>0, <1>5, <2>1 DEF OutboxTypes, Outbox!CancelAccepted, Outbox!CancelFailed
<1>6. ASSUME NEW w \in Worker, NEW r \in OutboxRow, Outbox!Complete(w, r) PROVE OutboxTypes'
  <2>1. outboxWork' \in [Worker -> Hands]
    BY <1>0, <1>6, HandLets DEF Outbox!Complete
  <2>2. [cancellation[r] EXCEPT !.status = "completed"] \in CancellationRow
    BY <1>0 DEF CancellationRow, Outbox!Status, Outbox!Open
  <2>3. cancellation' \in [OutboxRow -> CancellationRow]
    BY <1>0, <1>6, <2>2 DEF Outbox!Complete
  <2> QED BY <1>0, <1>6, <2>1, <2>3 DEF OutboxTypes, Outbox!Complete
<1>7. ASSUME NEW w \in Worker, NEW r \in OutboxRow, Outbox!Retry(w, r) PROVE OutboxTypes'
  <2> DEFINE next == [cancellation[r] EXCEPT
                        !.status = IF Outbox!Terminal(w, r) THEN "failed" ELSE "pending",
                        !.availableAt = Outbox!NextAttempt]
  <2>1. outboxWork' \in [Worker -> Hands]
    BY <1>0, <1>7, HandLets DEF Outbox!Retry
  <2>2. Outbox!NextAttempt \in Nat
    BY <1>0 DEF OutboxTypes, Outbox!NextAttempt
  <2>3. next \in CancellationRow
    BY <1>0, <2>2 DEF CancellationRow, Outbox!Status, Outbox!Open
  <2>4. cancellation' = cancellation \/ cancellation' = [cancellation EXCEPT ![r] = next]
    BY <1>0, <1>7 DEF Outbox!Retry
  <2> HIDE DEF next
  <2>5. cancellation' \in [OutboxRow -> CancellationRow]
    BY <1>0, <2>3, <2>4
  <2> QED BY <1>0, <1>7, <2>1, <2>5 DEF OutboxTypes, Outbox!Retry
<1>8. ASSUME Outbox!Tick PROVE OutboxTypes'
  BY <1>0, <1>8, OutboxAssumption DEF OutboxTypes, Outbox!Tick
<1> QED BY <1>1, <1>2, <1>3, <1>4, <1>5, <1>6, <1>7, <1>8 DEF Outbox!Next, Outbox!Dispatch

\* Every step leaves a written row written, and what was delivered delivered.
LEMMA OutboxWritten ==
  ASSUME OutboxInv, Outbox!Next
  PROVE  Written' /\ Outbox!CompletedWasDelivered'
<1>0. /\ OutboxTypes /\ Written /\ Outbox!CompletedWasDelivered
      /\ cancellation \in [OutboxRow -> CancellationRow] /\ outboxWork \in [Worker -> Hands]
      /\ \A w \in Worker : outboxWork[w] \in [OutboxRow -> Hand]
  BY DEF OutboxInv, OutboxTypes, Hands
<1> USE DEF Written, Outbox!CompletedWasDelivered, Has
<1>1. ASSUME NEW r \in OutboxRow, Outbox!Write(r) PROVE Written' /\ Outbox!CompletedWasDelivered'
  BY <1>0, <1>1 DEF Outbox!Write
<1>2. ASSUME NEW r \in OutboxRow, Outbox!EraseSession(r)
      PROVE  Written' /\ Outbox!CompletedWasDelivered'
  BY <1>0, <1>2 DEF Outbox!EraseSession
<1>3. ASSUME NEW w \in Worker, Outbox!Claim(w) PROVE Written' /\ Outbox!CompletedWasDelivered'
  <2>1. /\ \A v \in Worker \ {w} : outboxWork'[v] = outboxWork[v]
        /\ \A r \in OutboxRow : outboxWork'[w][r].pc # "none" =>
             r \in Outbox!Batch \ erased /\ outboxWork'[w][r].pc = "calling"
    BY <1>0, <1>3, NoHand DEF Outbox!Claim
  <2>2. \A r \in OutboxRow :
          /\ r \notin Outbox!Batch => cancellation'[r] = cancellation[r]
          /\ r \in Outbox!Batch => cancellation'[r].status \in {"failed", "processing"}
    BY <1>0, <1>3 DEF Outbox!Claim
  <2> QED BY <1>0, <1>3, <2>1, <2>2 DEF Outbox!Claim
<1>4. ASSUME NEW w \in Worker, Outbox!Crash(w) PROVE Written' /\ Outbox!CompletedWasDelivered'
  <2>1. /\ \A v \in Worker \ {w} : outboxWork'[v] = outboxWork[v]
        /\ \A r \in OutboxRow : outboxWork'[w][r].pc = "none"
    BY <1>0, <1>4, NoHand DEF Outbox!Crash
  <2> QED BY <1>0, <1>4, <2>1 DEF Outbox!Crash
<1>5. ASSUME NEW w \in Worker, NEW r \in OutboxRow, Outbox!CancelAccepted(w, r)
      PROVE  Written' /\ Outbox!CompletedWasDelivered'
  <2>1. \A v \in Worker, q \in OutboxRow : v # w \/ q # r => outboxWork'[v][q] = outboxWork[v][q]
    BY <1>0, <1>5, HandGoes DEF Outbox!CancelAccepted
  <2> QED BY <1>0, <1>5, <2>1 DEF Outbox!CancelAccepted, Outbox!At
<1>6. ASSUME NEW w \in Worker, NEW r \in OutboxRow, Outbox!CancelFailed(w, r)
      PROVE  Written' /\ Outbox!CompletedWasDelivered'
  <2>1. /\ outboxWork'[w][r].pc = "error"
        /\ \A v \in Worker, q \in OutboxRow : v # w \/ q # r => outboxWork'[v][q] = outboxWork[v][q]
    BY <1>0, <1>6, HandGoes DEF Outbox!CancelFailed
  <2> QED BY <1>0, <1>6, <2>1 DEF Outbox!CancelFailed, Outbox!At
<1>7. ASSUME NEW w \in Worker, NEW r \in OutboxRow, Outbox!Complete(w, r)
      PROVE  Written' /\ Outbox!CompletedWasDelivered'
  <2>1. /\ outboxWork'[w][r].pc = "none"
        /\ \A v \in Worker, q \in OutboxRow : v # w \/ q # r => outboxWork'[v][q] = outboxWork[v][q]
    BY <1>0, <1>7, HandLets DEF Outbox!Complete
  <2>2. outboxWork[w][r].pc = "accepted"
    BY <1>7 DEF Outbox!Complete, Outbox!Succeeded, Outbox!At
  <2>3. \A q \in OutboxRow : \/ cancellation'[q].status = cancellation[q].status
                             \/ q = r /\ cancellation'[q].status = "completed"
    BY <1>0, <1>7 DEF Outbox!Complete, CancellationRow
  <2> QED BY <1>0, <1>7, <2>1, <2>2, <2>3 DEF Outbox!Complete
<1>8. ASSUME NEW w \in Worker, NEW r \in OutboxRow, Outbox!Retry(w, r)
      PROVE  Written' /\ Outbox!CompletedWasDelivered'
  <2>1. /\ outboxWork'[w][r].pc = "none"
        /\ \A v \in Worker, q \in OutboxRow : v # w \/ q # r => outboxWork'[v][q] = outboxWork[v][q]
    BY <1>0, <1>8, HandLets DEF Outbox!Retry
  <2>2. \A q \in OutboxRow : \/ cancellation'[q] = cancellation[q]
                             \/ cancellation'[q].status \in {"failed", "pending"}
    BY <1>0, <1>8 DEF Outbox!Retry, CancellationRow
  <2> QED BY <1>0, <1>8, <2>1, <2>2 DEF Outbox!Retry
<1>9. ASSUME Outbox!Tick PROVE Written' /\ Outbox!CompletedWasDelivered'
  BY <1>0, <1>9 DEF Outbox!Tick
<1> QED BY <1>1, <1>2, <1>3, <1>4, <1>5, <1>6, <1>7, <1>8, <1>9 DEF Outbox!Next, Outbox!Dispatch

\* Every step keeps the accounts of the rows.
LEMMA OutboxPaid ==
  ASSUME OutboxInv, Outbox!Next, NEW r \in OutboxRow
  PROVE  Paid(r)'
<1>0. /\ OutboxTypes /\ Written /\ Paid(r)
      /\ cancellation \in [OutboxRow -> CancellationRow] /\ outboxWork \in [Worker -> Hands]
      /\ outboxFaults \in Nat /\ outboxClock \in Nat
      /\ \A w \in Worker : outboxWork[w] \in [OutboxRow -> Hand]
  BY DEF OutboxInv, OutboxTypes, Hands
<1>00. /\ cancellation[r].attempts \in Nat /\ cancellation[r].availableAt \in Nat
       /\ MaxAttempts \in Nat \ {0} /\ Lease \in Nat \ {0}
       /\ \A w \in Worker : outboxWork[w][r].attempts \in Nat
  BY <1>0, OutboxAssumption DEF CancellationRow, Hand
\* A step that changes neither the row nor any hand of it.
<1>a. ASSUME cancellation'[r] = cancellation[r], outboxClock' = outboxClock, outboxFaults' = outboxFaults,
             \A w \in Worker : /\ outboxWork'[w][r].attempts = outboxWork[w][r].attempts
                               /\ Has(w, r)' <=> Has(w, r)
      PROVE  Paid(r)'
  <2>1. PutBacks(r)' = PutBacks(r) /\ (Offered(r)' => Offered(r))
    BY <1>a DEF PutBacks, MayPutBack, Offered, Held
  <2> QED BY <1>0, <1>a, <2>1, StillPaid
\* A hand lets go of another row, or of this one with the row rewritten.
<1>b. ASSUME NEW w \in Worker, NEW q \in OutboxRow, Outbox!Forget(w, q), outboxFaults' = outboxFaults,
             q # r => cancellation'[r] = cancellation[r] /\ outboxClock' = outboxClock,
             cancellation'[r].attempts = cancellation[r].attempts,
             q = r => (Offered(r)' => Offered(r) \/ MayPutBack(w, r))
      PROVE  Paid(r)'
  <2>1. /\ outboxWork'[w][q].pc = "none"
        /\ \A v \in Worker, p \in OutboxRow : v # w \/ p # q => outboxWork'[v][p] = outboxWork[v][p]
    BY <1>0, <1>b, HandLets
  <2>2. CASE q # r
    BY <1>a, <1>b, <2>1, <2>2 DEF Has
  <2>3. CASE q = r
    <3>1. PutBacks(r)' = PutBacks(r) \ {w}
      BY <2>1, <2>3 DEF PutBacks, MayPutBack, Has
    <3>2. PutBacks(r)' \subseteq PutBacks(r) /\ (MayPutBack(w, r) => PutBacks(r)' # PutBacks(r))
      BY <3>1 DEF PutBacks
    <3> QED BY <1>0, <1>b, <2>3, <3>2, StillPaid
  <2> QED BY <2>2, <2>3
<1>1. ASSUME NEW q \in OutboxRow, Outbox!Write(q) PROVE Paid(r)'
  <2>1. CASE q # r
    BY <1>0, <1>1, <1>a, <2>1 DEF Outbox!Write, Has
  <2>2. CASE q = r
    <3>1. cancellation[r].status = "unwritten" /\ cancellation'[r].attempts = 0
      BY <1>0, <1>1, <2>2 DEF Outbox!Write
    <3>2. \A w \in Worker : ~Has(w, r) /\ ~Has(w, r)'
      BY <1>0, <1>1, <3>1 DEF Written, Outbox!Write, Has
    <3>3. PutBacks(r)' = {}
      BY <3>2 DEF PutBacks, MayPutBack
    <3>4. IsFiniteSet(PutBacks(r)') /\ Cardinality(PutBacks(r)') = 0
      BY <3>3, FS_EmptySet
    <3>5. Returns(0) = 0 /\ outboxFaults' = outboxFaults
      BY <1>00, <1>1 DEF Returns, Outbox!Write
    <3> QED BY <1>0, <3>1, <3>4, <3>5 DEF Paid, Returns
  <2> QED BY <2>1, <2>2
<1>2. ASSUME NEW q \in OutboxRow, Outbox!EraseSession(q) PROVE Paid(r)'
  BY <1>2, <1>a DEF Outbox!EraseSession, Has
<1>3. ASSUME NEW w \in Worker, Outbox!Claim(w) PROVE Paid(r)'
  <2>1. /\ ~Has(w, r) /\ outboxFaults' = outboxFaults /\ outboxClock' = outboxClock
        /\ \A v \in Worker \ {w} : outboxWork'[v] = outboxWork[v]
    BY <1>0, <1>3 DEF Outbox!Claim, Outbox!Idle, Outbox!At, Has
  <2>2. CASE r \notin Outbox!Batch
    <3>1. cancellation'[r] = cancellation[r] /\ ~Has(w, r)'
      BY <1>0, <1>3, <2>2, NoHand DEF Outbox!Claim, Has
    <3>2. \A v \in Worker : Has(v, r)' <=> Has(v, r)
      BY <2>1, <3>1 DEF Has
    <3>3. PutBacks(r)' = PutBacks(r) /\ (Offered(r)' => Offered(r))
      BY <2>1, <3>1, <3>2 DEF PutBacks, MayPutBack, Offered, Held
    <3> QED BY <1>0, <2>1, <3>1, <3>3, StillPaid
  <2>3. CASE r \in Outbox!Batch
    <3>1. Outbox!Available(r)
      BY <2>3 DEF Outbox!Batch
    <3>2. Offered(r)
      BY <3>1 DEF Outbox!Available, Outbox!Open, Offered
    <3>3. /\ cancellation'[r].attempts = cancellation[r].attempts + 1
          /\ cancellation'[r].availableAt = outboxClock + Lease
          /\ cancellation'[r].status = IF r \in erased THEN "failed" ELSE "processing"
      BY <1>0, <1>3, <2>3 DEF Outbox!Claim
    <3>4. CASE r \in erased
      <4>1. ~Has(w, r)'
        BY <1>0, <1>3, <3>4, NoHand DEF Outbox!Claim, Has
      <4>2. PutBacks(r)' = PutBacks(r)
        BY <2>1, <4>1 DEF PutBacks, MayPutBack, Has
      <4>3. ~Offered(r)'
        BY <3>3, <3>4 DEF Offered
      <4> QED BY <2>1, <3>2, <3>3, <4>2, <4>3, ClaimPaid
    <3>5. CASE r \notin erased
      <4>1. Has(w, r)' /\ outboxWork'[w][r].attempts = cancellation[r].attempts + 1
        BY <1>0, <1>3, <2>3, <3>5 DEF Outbox!Claim, Has
      <4>2. ~(cancellation'[r].availableAt <= outboxClock') /\ cancellation'[r].status = "processing"
        BY <1>0, <1>00, <2>1, <3>3, <3>5
      <4>3. ~Offered(r)'
        BY <3>3, <4>1, <4>2 DEF Offered, Held
      <4>4. w \notin PutBacks(r)
        BY <2>1 DEF PutBacks, MayPutBack
      <4>5. PutBacks(r)' = IF cancellation[r].attempts + 1 < MaxAttempts
                           THEN PutBacks(r) \cup {w} ELSE PutBacks(r)
        BY <2>1, <4>1 DEF PutBacks, MayPutBack, Has
      <4> QED BY <2>1, <3>2, <3>3, <4>3, <4>4, <4>5, ClaimPaid
    <3> QED BY <3>4, <3>5
  <2> QED BY <2>2, <2>3
<1>4. ASSUME NEW w \in Worker, Outbox!Crash(w) PROVE Paid(r)'
  <2>1. /\ \A v \in Worker \ {w} : outboxWork'[v] = outboxWork[v]
        /\ ~Has(w, r)' /\ outboxFaults' = outboxFaults + 1 /\ cancellation' = cancellation
    BY <1>0, <1>4, NoHand DEF Outbox!Crash, Has
  <2>2. PutBacks(r)' \subseteq PutBacks(r)
    BY <2>1 DEF PutBacks, MayPutBack, Has
  <2> QED BY <1>0, <2>1, <2>2, StillPaid
<1>5. ASSUME NEW w \in Worker, NEW q \in OutboxRow,
             Outbox!CancelAccepted(w, q) \/ Outbox!CancelFailed(w, q)
      PROVE  Paid(r)'
  <2>1. PICK x \in {"accepted", "error"} : Outbox!Goto(w, q, x)
    BY <1>5 DEF Outbox!CancelAccepted, Outbox!CancelFailed
  <2>2. /\ outboxWork'[w][q].pc = x /\ outboxWork'[w][q].attempts = outboxWork[w][q].attempts
        /\ \A v \in Worker, p \in OutboxRow : v # w \/ p # q => outboxWork'[v][p] = outboxWork[v][p]
    BY <1>0, <2>1, HandGoes
  <2>3. Has(w, q)
    BY <1>5 DEF Has, Outbox!CancelAccepted, Outbox!CancelFailed, Outbox!At
  <2>4. \A v \in Worker : /\ outboxWork'[v][r].attempts = outboxWork[v][r].attempts
                          /\ Has(v, r)' <=> Has(v, r)
    BY <2>2, <2>3 DEF Has
  <2> QED BY <1>5, <1>a, <2>4 DEF Outbox!CancelAccepted, Outbox!CancelFailed
<1>6. ASSUME NEW w \in Worker, NEW q \in OutboxRow, Outbox!Complete(w, q) PROVE Paid(r)'
  <2>1. /\ q # r => cancellation'[r] = cancellation[r]
        /\ cancellation'[r].attempts = cancellation[r].attempts
        /\ cancellation'[r] = cancellation[r] \/ cancellation'[r].status = "completed"
        /\ cancellation'[r] = cancellation[r] \/ cancellation[r].status = "processing"
    BY <1>0, <1>6 DEF Outbox!Complete, CancellationRow
  <2>2. q = r => (cancellation[r].status = "processing" => cancellation'[r].status = "completed")
    BY <1>0, <1>6 DEF Outbox!Complete, CancellationRow
  <2>3. q = r => (Offered(r)' => Offered(r))
    BY <2>1, <2>2 DEF Offered
  <2> QED BY <1>6, <1>b, <2>1, <2>3 DEF Outbox!Complete
<1>7. ASSUME NEW w \in Worker, NEW q \in OutboxRow, Outbox!Retry(w, q) PROVE Paid(r)'
  <2>1. /\ q # r => cancellation'[r] = cancellation[r]
        /\ cancellation'[r].attempts = cancellation[r].attempts
    BY <1>0, <1>7 DEF Outbox!Retry, CancellationRow
  <2>2. q = r => \/ cancellation'[r] = cancellation[r] /\ cancellation[r].status # "processing"
                 \/ cancellation'[r].status = "failed"
                 \/ cancellation'[r].status = "pending" /\ ~Outbox!Terminal(w, r)
    BY <1>0, <1>7 DEF Outbox!Retry, Outbox!Retries, CancellationRow
  <2>3. Has(w, q)
    BY <1>7 DEF Outbox!Retry, Outbox!At, Has
  <2>4. ~Outbox!Terminal(w, r) => outboxWork[w][r].attempts < MaxAttempts
    BY <1>00 DEF Outbox!Terminal
  <2>5. q = r => (Offered(r)' => Offered(r) \/ MayPutBack(w, r))
    BY <2>2, <2>3, <2>4 DEF Offered, MayPutBack
  <2> QED BY <1>7, <1>b, <2>1, <2>5 DEF Outbox!Retry
<1>8. ASSUME Outbox!Tick PROVE Paid(r)'
  <2>1. /\ outboxWork' = outboxWork /\ cancellation' = cancellation /\ outboxClock' = outboxClock + 1
        /\ outboxFaults' = outboxFaults \/ outboxFaults' = outboxFaults + 1
        /\ Outbox!Stalls => outboxFaults' = outboxFaults + 1
    BY <1>8 DEF Outbox!Tick
  <2>2. PutBacks(r)' = PutBacks(r)
    BY <2>1 DEF PutBacks, MayPutBack, Has
  <2>3. ASSUME Offered(r)', ~Offered(r) PROVE Outbox!Stalls
    <3>1. /\ cancellation[r].status = "processing" /\ Held(r) /\ cancellation[r].availableAt > outboxClock
          /\ (Held(r))' = Held(r)
      BY <1>0, <1>00, <2>1, <2>3 DEF Offered, Held, Has
    <3>2. cancellation[r].availableAt = outboxClock + 1
      BY <1>0, <1>00, <2>1, <2>3, <3>1 DEF Offered
    <3> QED BY <3>1, <3>2 DEF Held, Has, Outbox!Stalls, Outbox!Waits, Outbox!At, Outbox!Open
  <2> QED BY <1>0, <2>1, <2>2, <2>3, StillPaid
<1> QED BY <1>1, <1>2, <1>3, <1>4, <1>5, <1>6, <1>7, <1>8 DEF Outbox!Next, Outbox!Dispatch


\* Nothing is written at first.
LEMMA OutboxStart == Outbox!Init => OutboxInv
<1> SUFFICES ASSUME Outbox!Init PROVE OutboxInv
  OBVIOUS
<1>1. [r \in OutboxRow |-> Outbox!NoDispatch] \in Hands
  BY NoHand DEF Hands
<1>2. OutboxTypes
  BY <1>1, OutboxAssumption
     DEF Outbox!Init, OutboxTypes, CancellationRow, Outbox!Status, Outbox!Open
<1>3. \A w \in Worker, r \in OutboxRow : ~Has(w, r) /\ outboxWork[w][r].pc = "none"
  BY NoHand DEF Outbox!Init, Has
<1>4. \A r \in OutboxRow : cancellation[r].status = "unwritten" /\ cancellation[r].attempts = 0
  BY DEF Outbox!Init
<1>5. ASSUME NEW r \in OutboxRow PROVE Paid(r)
  <2>1. PutBacks(r) = {}
    BY <1>3 DEF PutBacks, MayPutBack
  <2>2. IsFiniteSet(PutBacks(r)) /\ Cardinality(PutBacks(r)) = 0
    BY <2>1, FS_EmptySet
  <2>3. Returns(0) = 0 /\ outboxFaults = 0 /\ ~Offered(r)
    BY <1>4, OutboxAssumption DEF Returns, Outbox!Init, Offered
  <2> QED BY <1>4, <2>2, <2>3 DEF Paid
<1> QED BY <1>2, <1>3, <1>4, <1>5 DEF OutboxInv, Written, Outbox!CompletedWasDelivered

\* Every step of the outbox keeps its invariant.
LEMMA OutboxStep == OutboxInv /\ [Outbox!Next]_outboxVars => OutboxInv'
<1>1. ASSUME OutboxInv, Outbox!Next PROVE OutboxInv'
  BY <1>1, OutboxTypesStep, OutboxWritten, OutboxPaid DEF OutboxInv
<1>2. ASSUME OutboxInv, UNCHANGED outboxVars PROVE OutboxInv'
  <2>1. OutboxTypes' /\ Written' /\ Outbox!CompletedWasDelivered'
    BY <1>2 DEF outboxVars, OutboxInv, OutboxTypes, Written, Has, Outbox!CompletedWasDelivered
  <2>2. ASSUME NEW r \in OutboxRow PROVE Paid(r)'
    <3>1. PutBacks(r)' = PutBacks(r) /\ (Offered(r)' => Offered(r))
      BY <1>2 DEF outboxVars, PutBacks, MayPutBack, Has, Offered, Held
    <3>2. outboxFaults \in Nat
      BY <1>2 DEF OutboxInv, OutboxTypes
    <3> QED BY <1>2, <3>1, <3>2, StillPaid DEF outboxVars
  <2> QED BY <2>1, <2>2 DEF OutboxInv
<1> QED BY <1>1, <1>2

\* A row's attempts are at most its limit and the faults.
LEMMA PaidBounds == OutboxInv => Outbox!AttemptsBounded
<1> SUFFICES ASSUME OutboxInv, NEW r \in OutboxRow
             PROVE  cancellation[r].attempts <= MaxAttempts + outboxFaults
  BY DEF Outbox!AttemptsBounded
<1> DEFINE n == cancellation[r].attempts
           m == Cardinality(PutBacks(r))
<1>1. n \in Nat /\ outboxFaults \in Nat /\ MaxAttempts \in Nat \ {0}
  BY OutboxAssumption DEF OutboxInv, OutboxTypes, CancellationRow
<1>2. m \in Nat /\ n + m <= outboxFaults + 1 + Returns(n)
  BY FS_CardinalityType DEF OutboxInv, Paid
<1>3. Returns(n) \in Nat /\ Returns(n) <= MaxAttempts - 1
  BY <1>1 DEF Returns
<1> HIDE DEF n, m
<1>4. n <= MaxAttempts + outboxFaults
  BY <1>1, <1>2, <1>3
<1> QED BY <1>4 DEF n

\* No step reopens a settled row.
LEMMA SettledRow ==
  ASSUME OutboxInv, Outbox!Next, NEW r \in OutboxRow,
         cancellation[r].status \in {"completed", "failed"}
  PROVE  cancellation'[r].status = cancellation[r].status
<1>0. cancellation \in [OutboxRow -> CancellationRow]
  BY DEF OutboxInv, OutboxTypes
<1>1. ASSUME NEW q \in OutboxRow, Outbox!Write(q) \/ Outbox!EraseSession(q)
      PROVE  cancellation'[r] = cancellation[r]
  BY <1>0, <1>1 DEF Outbox!Write, Outbox!EraseSession
<1>2. ASSUME NEW w \in Worker, Outbox!Claim(w) PROVE cancellation'[r] = cancellation[r]
  BY <1>0, <1>2 DEF Outbox!Claim, Outbox!Batch, Outbox!Available, Outbox!Open
<1>3. ASSUME NEW w \in Worker, NEW q \in OutboxRow, Outbox!Complete(w, q) \/ Outbox!Retry(w, q)
      PROVE  cancellation'[r] = cancellation[r]
  BY <1>0, <1>3 DEF Outbox!Complete, Outbox!Retry, Outbox!Retries
<1> QED
  BY <1>1, <1>2, <1>3
     DEF Outbox!Next, Outbox!Dispatch, Outbox!Crash, Outbox!Tick, Outbox!CancelAccepted,
         Outbox!CancelFailed

-----------------------------------------------------------------------------
(* What each timer promises.                                               *)

\* The dispatcher's invariant: rows keep their types and the inbox its order, a process
\* refuses only under the fence it claimed, and the account of the claims is in balance.
THEOREM DispatchInvariance == DispatchSpec => []DispatchInv
BY DispatchStart, DispatchStep, PTL DEF DispatchSpec

\* The dispatcher claims a turn again only after a fault or a client's command: polling
\* alone never calls the AI plane twice for one turn.
THEOREM ClaimsHaveCause == DispatchSpec => []ReclaimsHaveCause
BY DispatchInvariance, AccountBounds, PTL

\* A process refuses a turn only while it holds its claim.
THEOREM RefusalsAreOwn == DispatchSpec => RefusesOnlyItsOwn
<1>1. DispatchInv /\ [DispatchNext]_vars =>
        [\A w \in Worker : At(w, "refusal") /\ store' # store /\ work'[w] = Idle => HoldsRow(w)]_vars
  BY RefusalIsOwn
<1> QED BY <1>1, DispatchInvariance, PTL DEF DispatchSpec, RefusesOnlyItsOwn

\* The outbox's invariant: rows keep their types, what is worked on was written, and
\* every attempt after a row's first was paid for.
THEOREM OutboxInvariance == Outbox!Spec => []OutboxInv
<1>1. OutboxInv /\ [Outbox!Next]_(Outbox!vars) => OutboxInv'
  BY OutboxStep DEF Outbox!vars, outboxVars
<1> QED BY <1>1, OutboxStart, PTL DEF Outbox!Spec

\* A row is completed only if the AI plane accepted the cancellation, and tried beyond
\* its limit only after a crash or a stall.
THEOREM AttemptsHaveCause ==
  Outbox!Spec => [](Outbox!CompletedWasDelivered /\ Outbox!AttemptsBounded)
<1>1. OutboxInv => Outbox!CompletedWasDelivered /\ Outbox!AttemptsBounded
  BY PaidBounds DEF OutboxInv
<1> QED BY <1>1, OutboxInvariance, PTL

\* A process that comes back late reopens no row that another has settled.
THEOREM SettledRowsStay == Outbox!Spec => Outbox!SettledRowStays
<1>1. OutboxInv /\ [Outbox!Next]_(Outbox!vars) =>
        [\A r \in OutboxRow : cancellation[r].status \in {"completed", "failed"} =>
           cancellation'[r].status = cancellation[r].status]_(Outbox!vars)
  BY SettledRow
<1> QED BY <1>1, OutboxInvariance, PTL DEF Outbox!Spec, Outbox!SettledRowStays

-----------------------------------------------------------------------------
(* The timers together.                                                    *)

\* A behaviour of the two is one of each, which a step of the other leaves where it was.
LEMMA TimersBehave == Spec => DispatchSpec /\ Outbox!Spec
<1>1. Init => DispatchInit /\ Outbox!Init
  BY DEF Init
<1>2. [Next]_all => [DispatchNext]_vars
  BY DEF Next, Dispatching, Cancelling, all
<1>3. [Next]_all => [Outbox!Next]_(Outbox!vars)
  BY DEF Next, Dispatching, Cancelling, all, outboxVars, Outbox!vars
<1> QED BY <1>1, <1>2, <1>3, PTL DEF Spec, DispatchSpec, Outbox!Spec

\* The rows of both timers keep their types.
THEOREM TimersTyped == Spec => []TypeOK
<1>1. DispatchInv /\ OutboxInv => TypeOK
  BY DispatchTyped, OutboxTyped DEF DispatchInv, OutboxInv, TypeOK
<1> QED BY <1>1, DispatchInvariance, OutboxInvariance, TimersBehave, PTL

\* Claims beyond a turn's first, and attempts beyond a row's limit, have a cause, and a
\* completed cancellation was accepted.
THEOREM OutcomesAreCaused == Spec => []OutcomesHaveCause
<1>1. ReclaimsHaveCause /\ (Outbox!CompletedWasDelivered /\ Outbox!AttemptsBounded)
        => OutcomesHaveCause
  BY DEF OutcomesHaveCause
<1> QED BY <1>1, ClaimsHaveCause, AttemptsHaveCause, TimersBehave, PTL

\* A process that comes back late neither refuses another's turn nor reopens a row that
\* another has settled.
THEOREM LateProcessesAreHarmless == Spec => LateProcessesHarmless
BY RefusalsAreOwn, SettledRowsStay, TimersBehave, PTL DEF LateProcessesHarmless

=============================================================================
